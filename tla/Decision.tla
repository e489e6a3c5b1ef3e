------------------------------ MODULE Decision ------------------------------
(***************************************************************************)
(* How a request is decided, while what decides it changes: the handlers   *)
(* of internal/server (handleHTTP, handleConnect, fastPathDecide,          *)
(* holdAndWait), the open gate (openmode.go), the policy engine, the       *)
(* advisor's Classify with its cache and counters (internal/advisor), and  *)
(* the three goroutines that reload the lists, the rules and the mode      *)
(* (cmd/trollbridge/run.go: the file watcher, the daemon's own list        *)
(* writes, SIGHUP).                                                        *)
(*                                                                         *)
(* A step is one critical section, or one call that another goroutine can  *)
(* run before or after.  The approval queue is ApprovalQueue's; here a     *)
(* held request gets some answer of it.  The rule-set version, a hash of   *)
(* the rule file, is the content of the file.                              *)
(***************************************************************************)
EXTENDS PolicyRules

CONSTANTS
    Handlers,       \* request goroutines
    Requests,       \* what clients ask
    Lines,          \* lines that the daemon writes to its own lists
    Files,          \* contents of trollbridge.yaml: [allow, deny, mode]
    RuleFiles,      \* contents of the rule file: [ok, rules]
    FirstFile, FirstRuleFile,
    Answers,        \* what the approval queue answers
    Outputs,        \* what the advisor's provider answers: [effect, confidence]
    Floor, OnUnavailable, Ttl,
    HistoryCap,
    Start, Ticks,   \* the first minute, and by how many minutes the clock moves
    MaxServed,      \* bound: requests served
    MaxEvents       \* bound: presses of the gate, ticks of the clock and signals; an
                    \* edit or a write of a file counts for three

ASSUME ConstantsAssumption ==
    /\ IsFiniteSet(Handlers)
    /\ Start \in Nat /\ Ticks \subseteq Nat /\ Ttl \in Nat
    /\ \A r \in Requests : DOMAIN r = {"method", "scheme", "host", "port", "path", "identity",
                                       "headers", "body"}

\* A rule file is a finite sequence, so that one of its rules has the highest priority.
ASSUME RulesAssumption ==
    \A f \in RuleFiles \cup {FirstRuleFile} :
        /\ DOMAIN f.rules \subseteq Nat
        /\ \A i \in DOMAIN f.rules : f.rules[i].priority \in Int
        /\ DOMAIN f.rules # {} => \E top \in DOMAIN f.rules : \A i \in DOMAIN f.rules :
                                     priority(f.rules[i]) <= priority(f.rules[top])

VARIABLES
    disk,       \* [file, ruleFile, changed]: changed since the watcher last looked
    lists,      \* Server.allowList and denyList: [allow, deny]
    mode,       \* Server.cfg.Mode and Engine.mode: [cfg, engine]
    rules,      \* Engine.rules and version
    reload,     \* the reloading goroutines
    raced,      \* two of them have overlapped, or an edit and one of them (history)
    gate,       \* openMode: [until, presses]
    history,    \* Engine.history
    handler,    \* a request goroutine each
    denied,     \* handlers whose request the deny list has matched ever since (history)
    consult,    \* the advisor goroutine that each may have started
    cache,      \* Service.cache: entries [key, verdict, expires, asked]
    stats,      \* Service.stats: [consulted, classified, fallback]
    now, served, events

configVars == <<disk, lists, mode, rules, reload, raced>>
requestVars == <<history, handler, denied, consult, cache, stats, served>>
vars == <<configVars, requestVars, gate, now, events>>

Reloaders == {"watch", "write", "hup"}
Nothing == MakeDecision("", "")
AtRest == [pc |-> "idle", cfg |-> FirstFile, prev |-> FirstFile.mode, read |-> FirstRuleFile]
NoRequest == CHOOSE r \in Requests : TRUE
Free == [pc |-> "idle", req |-> NoRequest, allow |-> {}, decision |-> Nothing, stamp |-> Start]
NoConsult == [pc |-> "none", req |-> NoRequest, version |-> FirstRuleFile, verdict |-> Nothing,
              asked |-> Nothing]

Init ==
    /\ disk = [file |-> FirstFile, ruleFile |-> FirstRuleFile, changed |-> FALSE]
    /\ lists = [allow |-> FirstFile.allow, deny |-> FirstFile.deny]
    /\ mode = [cfg |-> FirstFile.mode, engine |-> FirstFile.mode]
    /\ rules = FirstRuleFile
    /\ reload = [t \in Reloaders |-> AtRest]
    /\ raced = FALSE
    /\ gate = [until |-> 0, presses |-> 0]
    /\ history = <<>>
    /\ handler = [h \in Handlers |-> Free]
    /\ denied = {}
    /\ consult = [h \in Handlers |-> NoConsult]
    /\ cache = {}
    /\ stats = [consulted |-> 0, classified |-> 0, fallback |-> 0]
    /\ now = Start
    /\ served = 0
    /\ events = 0

-----------------------------------------------------------------------------
(***************************************************************************)
(* The lists, the rules and the mode reach the daemon.                     *)
(***************************************************************************)
\* A CONNECT is shown to the lists without a scheme, and with the path "/".
listView(r) ==
    IF r.method = "CONNECT" THEN [r EXCEPT !.scheme = AnyScheme, !.path = <<"">>] ELSE r

anyReloading == reload["watch"].pc # "idle" \/ reload["write"].pc # "idle"

Edit == events + 3 <= MaxEvents /\ events' = events + 3
Turn == events < MaxEvents /\ events' = events + 1

goto(t, pc) == [reload EXCEPT ![t].pc = pc]

\* Somebody edits trollbridge.yaml.
EditFile(f) ==
    /\ Edit
    /\ f # disk.file
    /\ disk' = [disk EXCEPT !.file = f, !.changed = TRUE]
    /\ raced' = (raced \/ anyReloading)
    /\ UNCHANGED <<lists, mode, rules, reload, requestVars, gate, now>>

\* Nobody watches the rule file.
EditRules(f) ==
    /\ Edit
    /\ f # disk.ruleFile
    /\ disk' = [disk EXCEPT !.ruleFile = f]
    /\ UNCHANGED <<lists, mode, rules, reload, raced, requestVars, gate, now>>

\* The daemon moves a line to one of its lists (OperatorApprove and OperatorDeny; that
\* the two writes of it are two is ConfigStore's), then reloads.
WriteLine(list, line) ==
    /\ Edit
    /\ reload["write"].pc = "idle"
    /\ line \notin disk.file[list]
    /\ disk' = [disk EXCEPT !.file[list] = @ \cup {line},
                             !.file[IF list = "allow" THEN "deny" ELSE "allow"] = @ \ {line},
                             !.changed = TRUE]
    /\ reload' = goto("write", "load")
    /\ raced' = (raced \/ anyReloading)
    /\ UNCHANGED <<lists, mode, rules, requestVars, gate, now>>

\* The watcher's poll sees another file than it remembers.
Poll ==
    /\ disk.changed
    /\ reload["watch"].pc = "idle"
    /\ disk' = [disk EXCEPT !.changed = FALSE]
    /\ reload' = goto("watch", "load")
    /\ raced' = (raced \/ anyReloading)
    /\ UNCHANGED <<lists, mode, rules, requestVars, gate, now, events>>

Hup ==
    /\ Turn
    /\ reload["hup"].pc = "idle"
    /\ reload' = goto("hup", "read")
    /\ UNCHANGED <<disk, lists, mode, rules, raced, requestVars, gate, now>>

Load(t) ==
    /\ reload[t].pc = "load"
    /\ reload' = [reload EXCEPT ![t].pc = "lists", ![t].cfg = disk.file]
    /\ UNCHANGED <<disk, lists, mode, rules, raced, requestVars, gate, now, events>>

SetLists(t) ==
    /\ reload[t].pc = "lists"
    /\ lists' = [allow |-> reload[t].cfg.allow, deny |-> reload[t].cfg.deny]
    /\ denied' = {h \in denied : Match(reload[t].cfg.deny, listView(handler[h].req))}
    /\ reload' = goto(t, IF t = "watch" THEN "read" ELSE "config")
    /\ UNCHANGED <<disk, mode, rules, raced, history, handler, consult, cache, stats, served, gate, now, events>>

\* Engine.Reload reads and checks everything before it takes the lock ...
ReadRules(t) ==
    /\ reload[t].pc = "read"
    /\ reload' = [reload EXCEPT ![t].pc = "swap", ![t].read = disk.ruleFile]
    /\ UNCHANGED <<disk, lists, mode, rules, raced, requestVars, gate, now, events>>

\* ... and a file that it rejects changes nothing.
SwapRules(t) ==
    /\ reload[t].pc = "swap"
    /\ rules' = IF reload[t].read.ok THEN reload[t].read ELSE rules
    /\ reload' = IF t = "watch" THEN goto(t, "config") ELSE [reload EXCEPT ![t] = AtRest]
    /\ UNCHANGED <<disk, lists, mode, raced, requestVars, gate, now, events>>

SwapConfig(t) ==
    /\ reload[t].pc = "config"
    /\ mode' = [mode EXCEPT !.cfg = reload[t].cfg.mode]
    /\ reload' = [reload EXCEPT ![t].pc = "mode", ![t].prev = mode.cfg]
    /\ UNCHANGED <<disk, lists, rules, raced, requestVars, gate, now, events>>

\* Mutant: the engine keeps the mode that it was built with.
modeAfter(t) == mode.engine

newMode(t) == IF reload[t].cfg.mode # reload[t].prev THEN reload[t].cfg.mode ELSE mode.engine

\* The engine gets the new mode after the lock is gone; then an own write tells the
\* watcher that there is nothing to see (MarkReloaded).
SetMode(t) ==
    /\ reload[t].pc = "mode"
    /\ mode' = [mode EXCEPT !.engine = newMode(t)]
    /\ disk' = [disk EXCEPT !.changed = @ /\ t # "write"]
    /\ reload' = [reload EXCEPT ![t] = AtRest]
    /\ UNCHANGED <<lists, rules, raced, requestVars, gate, now, events>>

-----------------------------------------------------------------------------
(***************************************************************************)
(* The open gate and the clock.                                            *)
(***************************************************************************)
increments == <<1, 1, 3, 5, 20, 30>>

gateOpen == now < gate.until

pressesSoFar == IF gateOpen THEN gate.presses ELSE 0

extend ==
    LET n == pressesSoFar + 1
        base == IF now > gate.until THEN now ELSE gate.until
    IN  [until |-> base + increments[IF n > Len(increments) THEN Len(increments) ELSE n],
         presses |-> n]

Press ==
    /\ Turn
    /\ gate' = extend
    /\ UNCHANGED <<configVars, requestVars, now>>

CloseGate ==
    /\ Turn
    /\ gate' = [until |-> 0, presses |-> 0]
    /\ UNCHANGED <<configVars, requestVars, now>>

Tick(d) ==
    /\ Turn
    /\ now' = now + d
    /\ UNCHANGED <<configVars, requestVars, gate>>

-----------------------------------------------------------------------------
(***************************************************************************)
(* A request.                                                              *)
(***************************************************************************)
isAsk(d) == d.effect \in {"ask_user", "ask_llm"}

\* The decision is final, and gets its time; the history's lock comes later.
settled(h, d) ==
    [handler EXCEPT ![h].pc = "record", ![h].decision = d, ![h].stamp = now]

\* fastPathDecide takes the lists one after the other, each under its lock.
Receive(h, r) ==
    /\ handler[h].pc = "idle"
    /\ consult[h].pc = "none"
    /\ served < MaxServed
    /\ served' = served + 1
    /\ handler' = [handler EXCEPT ![h] = [Free EXCEPT !.pc = "lists", !.req = r, !.allow = lists.allow]]
    /\ denied' = denied \cup (IF Match(lists.deny, listView(r)) THEN {h} ELSE {})
    /\ UNCHANGED <<configVars, history, consult, cache, stats, gate, now, events>>

\* Mutant: the allow list is asked first.
fastPathAllowFirst(allow, deny, r) ==
    CASE Match(allow, r) -> MakeDecision("allow", "allow_list")
      [] ~Match(allow, r) /\ Match(deny, r) -> MakeDecision("deny", "deny_list")
      [] OTHER -> Nothing

fastPath(allow, deny, r) ==
    CASE Match(deny, r) -> MakeDecision("deny", "deny_list")
      [] ~Match(deny, r) /\ Match(allow, r) -> MakeDecision("allow", "allow_list")
      [] OTHER -> Nothing

MatchLists(h) ==
    /\ handler[h].pc = "lists"
    /\ LET d == fastPath(handler[h].allow, lists.deny, listView(handler[h].req))
       IN  handler' = [handler EXCEPT ![h].pc = IF d = Nothing THEN "engine" ELSE "gate",
                                      ![h].allow = {}, ![h].decision = d]
    /\ UNCHANGED <<configVars, history, denied, consult, cache, stats, served, gate, now, events>>

Decide(h) ==
    /\ handler[h].pc = "engine"
    /\ handler' = [handler EXCEPT ![h].pc = "gate",
           ![h].decision = engineDecision(rules.rules, mode.engine, handler[h].req, now, history)]
    /\ UNCHANGED <<configVars, history, denied, consult, cache, stats, served, gate, now, events>>

\* While the gate is open everything is allowed; else a question is held, and the
\* advisor is asked in the background.
PassGate(h) ==
    /\ handler[h].pc = "gate"
    /\ LET d == IF gateOpen THEN MakeDecision("allow", "open_mode") ELSE handler[h].decision
       IN  /\ handler' = IF isAsk(d) THEN [handler EXCEPT ![h].pc = "held"] ELSE settled(h, d)
           /\ consult' = IF isAsk(d)
                         THEN [consult EXCEPT ![h].pc = "start", ![h].req = handler[h].req]
                         ELSE consult
    /\ UNCHANGED <<configVars, history, denied, cache, stats, served, gate, now, events>>

\* An operator, or the queue's timeout.
Answered(h, effect) ==
    /\ handler[h].pc = "held"
    /\ handler' = settled(h, MakeDecision(effect, "approval_queue"))
    /\ UNCHANGED <<configVars, history, denied, consult, cache, stats, served, gate, now, events>>

isRecorded(d) == d.source # "llm_advisor"

Record(h) ==
    LET r == handler[h].req
        d == handler[h].decision
    IN  /\ handler[h].pc = "record"
        /\ history' = IF isRecorded(d)
                      THEN Recorded(history, HistoryCap, [when |-> handler[h].stamp, identity |-> r.identity,
                               host |-> r.host, effect |-> d.effect])
                      ELSE history
        /\ handler' = [handler EXCEPT ![h] = Free]
        /\ denied' = denied \ {h}
        /\ UNCHANGED <<configVars, consult, cache, stats, served, gate, now, events>>

-----------------------------------------------------------------------------
(***************************************************************************)
(* The advisor.                                                            *)
(***************************************************************************)
\* Mutant: the key leaves the rules out.
cacheKeyOfShape(version, r) ==
    <<FirstRuleFile, r.identity, r.method, r.scheme, r.host, r.port, r.path>>

cacheKey(version, r) == <<version, r.identity, r.method, r.scheme, r.host, r.port, r.path>>

cached(key) == {e \in cache : e.key = key /\ now <= e.expires}

\* ResolveByAdvisor: only a verdict that decides reaches the hold, if it still waits.
resolved(h, verdict) ==
    IF verdict.effect \in {"allow", "deny"} /\ handler[h].pc = "held"
    THEN settled(h, verdict)
    ELSE handler

\* The version is read under the engine's lock ...
ReadVersion(h) ==
    /\ consult[h].pc = "start"
    /\ consult' = [consult EXCEPT ![h].pc = "lookup", ![h].version = rules]
    /\ UNCHANGED <<configVars, history, handler, denied, cache, stats, served, gate, now, events>>

\* ... and the cache under its own, when the rules may be others already; without a hit
\* the provider is asked.
LookUp(h) ==
    LET key == cacheKey(consult[h].version, consult[h].req)
        hit == CHOOSE e \in cached(key) : TRUE
    IN  /\ consult[h].pc = "lookup"
        /\ IF cached(key) = {}
           THEN /\ consult' = [consult EXCEPT ![h].pc = "asked"]
                /\ stats' = [stats EXCEPT !.consulted = @ + 1]
                /\ cache' = {e \in cache : e.key # key}
           ELSE /\ consult' = [consult EXCEPT ![h].pc = "hit", ![h].verdict = hit.verdict,
                                              ![h].asked = hit.asked]
                /\ UNCHANGED <<stats, cache>>
        /\ UNCHANGED <<configVars, history, handler, denied, served, gate, now, events>>

\* A verdict from the cache reaches the hold.
Deliver(h) ==
    /\ consult[h].pc = "hit"
    /\ handler' = resolved(h, consult[h].verdict)
    /\ consult' = [consult EXCEPT ![h] = NoConsult]
    /\ UNCHANGED <<configVars, history, denied, cache, stats, served, gate, now, events>>

rank(confidence) ==
    CASE confidence = "high" -> 2 [] confidence = "medium" -> 1 [] OTHER -> 0

wellFormed(out) ==
    /\ out.effect \in {"allow", "deny", "ask_user", "narrow_scope", "redact_and_retry", "prefer_structured_tool"}
    /\ out.confidence \in {"low", "medium", "high"}

validated(out) ==
    MakeDecision(IF /\ out.effect \in {"allow", "deny"}
                    /\ rank(out.confidence) >= rank(Floor)
                 THEN out.effect ELSE "ask_user", "llm_advisor")

\* The provider answers: a verdict is counted, cached and delivered.
Classify(h, out) ==
    LET verdict == validated(out)
        key == cacheKey(consult[h].version, consult[h].req)
    IN  /\ consult[h].pc = "asked"
        /\ wellFormed(out)
        /\ stats' = IF verdict.effect \in {"allow", "deny"}
                    THEN [stats EXCEPT !.classified = @ + 1]
                    ELSE [stats EXCEPT !.fallback = @ + 1]
        /\ cache' = {e \in cache : e.key # key} \cup
                    {[key |-> key, verdict |-> verdict, expires |-> now + Ttl,
                      asked |-> [req |-> consult[h].req, version |-> consult[h].version, at |-> now, out |-> out]]}
        /\ handler' = resolved(h, verdict)
        /\ consult' = [consult EXCEPT ![h] = NoConsult]
        /\ UNCHANGED <<configVars, history, denied, served, gate, now, events>>

\* Mutant: an answer that makes no sense is not counted.
uncounted == stats

countFallback == [stats EXCEPT !.fallback = @ + 1]

\* An answer that the schema rejects is a question to the operator, and not cached.
Reject(h, out) ==
    /\ consult[h].pc = "asked"
    /\ ~wellFormed(out)
    /\ stats' = countFallback
    /\ consult' = [consult EXCEPT ![h] = NoConsult]
    /\ UNCHANGED <<configVars, history, handler, denied, cache, served, gate, now, events>>

unavailable ==
    MakeDecision(IF OnUnavailable \in {"allow", "deny"} THEN OnUnavailable ELSE "ask_user", "llm_advisor")

\* No answer, or none in time: on_unavailable decides, and is not cached.
Fail(h) ==
    /\ consult[h].pc = "asked"
    /\ stats' = countFallback
    /\ handler' = resolved(h, unavailable)
    /\ consult' = [consult EXCEPT ![h] = NoConsult]
    /\ UNCHANGED <<configVars, history, denied, cache, served, gate, now, events>>

-----------------------------------------------------------------------------
Reload(t) == Load(t) \/ SetLists(t) \/ ReadRules(t) \/ SwapRules(t) \/ SwapConfig(t) \/ SetMode(t)

Serve(h) ==
    \/ \E r \in Requests : Receive(h, r)
    \/ MatchLists(h) \/ Decide(h) \/ PassGate(h) \/ Record(h)
    \/ \E e \in Answers : Answered(h, e)
    \/ ReadVersion(h) \/ LookUp(h) \/ Deliver(h) \/ Fail(h)
    \/ \E out \in Outputs : Classify(h, out) \/ Reject(h, out)

Operate ==
    \/ \E f \in Files : EditFile(f)
    \/ \E f \in RuleFiles : EditRules(f)
    \/ \E list \in {"allow", "deny"}, line \in Lines : WriteLine(list, line)
    \/ Poll \/ Hup \/ Press \/ CloseGate
    \/ \E d \in Ticks : Tick(d)

Next ==
    \/ \E t \in Reloaders : Reload(t)
    \/ \E h \in Handlers : Serve(h)
    \/ Operate

Spec == Init /\ [][Next]_vars

-----------------------------------------------------------------------------
(***************************************************************************)
(* Properties.                                                             *)
(***************************************************************************)
\* A request that the deny list matches all the while, through every reload, is let
\* through by nothing but the open gate (fastPathDecide: deny wins).
StandingDenyIsObeyed ==
    \A h \in denied :
        handler[h].pc \in {"gate", "held", "record"} =>
            handler[h].decision.effect = "deny" \/ handler[h].decision.source = "open_mode"

\* When no reload is under way and none overlapped another or an edit, the matcher and
\* the engine have what the file says (reloadAfterInternalWrite, ReloadConfig).
DaemonFollowsFileUnlessRaced ==
    (~anyReloading /\ ~raced /\ ~disk.changed) =>
        /\ lists = [allow |-> disk.file.allow, deny |-> disk.file.deny]
        /\ mode = [cfg |-> disk.file.mode, engine |-> disk.file.mode]

\* A verdict taken from the cache was given for the same identity, method and URL, under
\* the rules that were in force when the advisor was called for this request (a reload
\* may have come since), no longer than the TTL ago, and with enough confidence if it
\* decides (consultAdvisorForHold, buildCacheKey, advisor cache, validate).
AdviceIsFresh ==
    [][\A h \in Handlers :
           consult[h].pc = "lookup" /\ consult'[h].pc = "hit" =>
               LET asked == consult'[h].asked
               IN  /\ \A part \in {"identity", "method", "scheme", "host", "port", "path"} :
                         asked.req[part] = consult[h].req[part]
                   /\ asked.version = consult[h].version
                   /\ now - asked.at <= Ttl
                   /\ consult'[h].verdict.effect # "ask_user" => rank(asked.out.confidence) >= rank(Floor)]_consult

\* Every consultation ends as a classification or as a fallback (stats.go:12).
EveryConsultIsCounted ==
    stats.consulted = stats.classified + stats.fallback +
                      Cardinality({h \in Handlers : consult[h].pc = "asked"})

\* A request whose body is too long to be sampled is decided as the request with the
\* sample is, or denied (Engine.Decide: "failing closed").
PaddingIsNoEscape ==
    \A r \in Requests :
        LET padded == engineDecision(rules.rules, mode.engine, [r EXCEPT !.body = NoBody], now, history)
        IN  padded.effect # "deny" =>
                padded = engineDecision(rules.rules, mode.engine, r, now, history)
=============================================================================
