--------------------------- MODULE DecisionProofs ---------------------------
(***************************************************************************)
(* Proofs about Decision, for any requests, rules, lists, advisor answers  *)
(* and bounds: the deny list stands, the daemon follows its file, every    *)
(* consultation is counted and the advisor's cache gives fresh verdicts.   *)
(***************************************************************************)
EXTENDS Decision, FiniteSetTheorems, SequenceTheorems, WellFoundedInduction, TLAPS

-----------------------------------------------------------------------------
(***************************************************************************)
(* The records that the goroutines keep have their fields.                 *)
(***************************************************************************)
HandlerFields == {"pc", "req", "allow", "decision", "stamp"}

ConsultFields == {"pc", "req", "version", "verdict", "asked"}

ReloadFields == {"pc", "cfg", "prev", "read"}

ConfigShape ==
    /\ DOMAIN disk = {"file", "ruleFile", "changed"} /\ disk.changed \in BOOLEAN
    /\ mode = [cfg |-> mode.cfg, engine |-> mode.engine]
    /\ DOMAIN reload = Reloaders /\ \A t \in Reloaders : DOMAIN reload[t] = ReloadFields
    /\ raced \in BOOLEAN

HandlerShape ==
    /\ DOMAIN handler = Handlers /\ \A h \in Handlers : DOMAIN handler[h] = HandlerFields
    /\ denied \subseteq Handlers

ConsultShape ==
    DOMAIN consult = Handlers /\ \A h \in Handlers : DOMAIN consult[h] = ConsultFields

StatsType ==
    /\ DOMAIN stats = {"consulted", "classified", "fallback"}
    /\ stats.consulted \in Nat /\ stats.classified \in Nat /\ stats.fallback \in Nat
    /\ now \in Nat

Shape == ConfigShape /\ HandlerShape /\ ConsultShape /\ StatsType

LEMMA InitShape == Init => Shape
<1> SUFFICES ASSUME Init PROVE Shape
  OBVIOUS
<1>1. ConfigShape
  BY DEF Init, ConfigShape, AtRest, ReloadFields
<1>2. HandlerShape /\ ConsultShape
  BY DEF Init, HandlerShape, ConsultShape, Free, NoConsult, HandlerFields, ConsultFields
<1>3. StatsType
  BY ConstantsAssumption DEF Init, StatsType
<1> QED
  BY <1>1, <1>2, <1>3 DEF Shape

LEMMA ConfigShapeKept ==
    ASSUME ConfigShape, [Next]_vars
    PROVE  ConfigShape'
<1> USE DEF ConfigShape, ReloadFields, Reloaders
<1>1. ASSUME NEW t \in Reloaders, Reload(t) PROVE ConfigShape'
  <2>1. CASE Load(t)
    BY <2>1 DEF Load
  <2>2. CASE SetLists(t)
    BY <2>2 DEF SetLists, goto
  <2>3. CASE ReadRules(t)
    BY <2>3 DEF ReadRules
  <2>4. CASE SwapRules(t)
    BY <2>4 DEF SwapRules, goto, AtRest
  <2>5. CASE SwapConfig(t)
    BY <2>5 DEF SwapConfig
  <2>6. CASE SetMode(t)
    BY <2>6 DEF SetMode, AtRest
  <2> QED
    BY <1>1, <2>1, <2>2, <2>3, <2>4, <2>5, <2>6 DEF Reload
<1>2. CASE UNCHANGED configVars
  BY <1>2 DEF configVars
<1>3. ASSUME NEW h \in Handlers, Serve(h) PROVE UNCHANGED configVars
  BY <1>3 DEF Serve, Receive, MatchLists, Decide, PassGate, Record, Answered,
     ReadVersion, LookUp, Deliver, Fail,
     Classify, Reject
<1>4. ASSUME Operate PROVE ConfigShape'
  <2>1. ASSUME NEW f \in Files, EditFile(f) PROVE ConfigShape'
    BY <2>1 DEF EditFile, anyReloading
  <2>2. ASSUME NEW f \in RuleFiles, EditRules(f) PROVE ConfigShape'
    BY <2>2 DEF EditRules
  <2>3. ASSUME NEW list \in {"allow", "deny"}, NEW line \in Lines, WriteLine(list, line)
        PROVE  ConfigShape'
    BY <2>3 DEF WriteLine, anyReloading, goto
  <2>4. ASSUME Poll \/ Hup PROVE ConfigShape'
    BY <2>4 DEF Poll, Hup, anyReloading, goto
  <2>5. ASSUME Press \/ CloseGate \/ \E d \in Ticks : Tick(d) PROVE UNCHANGED configVars
    BY <2>5 DEF Press, CloseGate, Tick
  <2> QED
    BY <1>2, <1>4, <2>1, <2>2, <2>3, <2>4, <2>5 DEF Operate
<1>5. CASE UNCHANGED vars
  BY <1>2, <1>5 DEF vars
<1> QED
  BY <1>1, <1>2, <1>3, <1>4, <1>5 DEF Next

\* A step of a handler writes its own record and its own consultation only.
LEMMA HandlerShapeKept ==
    ASSUME HandlerShape, ConsultShape, NEW h \in Handlers, Serve(h)
    PROVE  HandlerShape' /\ ConsultShape'
<1> USE DEF HandlerShape, ConsultShape, HandlerFields, ConsultFields
<1>1. ASSUME NEW r \in Requests, Receive(h, r) PROVE HandlerShape' /\ ConsultShape'
  BY <1>1 DEF Receive, Free
<1>2. CASE MatchLists(h) \/ Decide(h)
  BY <1>2 DEF MatchLists, Decide
<1>3. CASE PassGate(h)
  BY <1>3 DEF PassGate, settled
<1>4. CASE Record(h)
  BY <1>4 DEF Record, Free
<1>5. ASSUME NEW e \in Answers, Answered(h, e) PROVE HandlerShape' /\ ConsultShape'
  BY <1>5 DEF Answered, settled
<1>6. CASE ReadVersion(h) \/ LookUp(h)
  BY <1>6 DEF ReadVersion, LookUp
<1>7. CASE Deliver(h) \/ Fail(h)
  BY <1>7 DEF Deliver, Fail, resolved, settled, NoConsult
<1>8. ASSUME NEW out \in Outputs, Classify(h, out) \/ Reject(h, out)
      PROVE  HandlerShape' /\ ConsultShape'
  BY <1>8 DEF Classify, Reject, resolved, settled, NoConsult
<1> QED
  BY <1>1, <1>2, <1>3, <1>4, <1>5, <1>6, <1>7, <1>8 DEF Serve

LEMMA StatsKept ==
    ASSUME StatsType, NEW h \in Handlers, Serve(h)
    PROVE  StatsType'
<1> USE DEF StatsType
<1>1. UNCHANGED now
  BY DEF Serve, Receive, MatchLists, Decide, PassGate, Record, Answered,
     ReadVersion, LookUp, Deliver, Fail,
     Classify, Reject
<1>2. CASE LookUp(h)
  <2>1. stats' = stats \/ stats' = [stats EXCEPT !.consulted = @ + 1]
    BY <1>2 DEF LookUp
  <2> QED
    BY <1>1, <2>1
<1>3. ASSUME NEW out \in Outputs, Classify(h, out) PROVE StatsType'
  BY <1>1, <1>3 DEF Classify
<1>4. ASSUME Fail(h) \/ \E out \in Outputs : Reject(h, out) PROVE StatsType'
  BY <1>1, <1>4 DEF Fail, Reject, countFallback
<1>5. CASE UNCHANGED stats
  BY <1>1, <1>5
<1> QED
  BY <1>2, <1>3, <1>4, <1>5 DEF Serve, Receive, MatchLists, Decide, PassGate, Record, Answered,
     ReadVersion, Deliver

\* Who edits, reloads or turns the clock touches no handler and no consultation.
LEMMA OutsideFrame ==
    ASSUME Operate \/ \E t \in Reloaders : Reload(t)
    PROVE  /\ UNCHANGED <<handler, consult, cache, stats>>
           /\ denied' = denied \/ \E t \in Reloaders : SetLists(t)
           /\ now' = now \/ \E d \in Ticks : now' = now + d
BY DEF Operate, EditFile, EditRules, WriteLine, Poll, Hup, Press, CloseGate, Tick, Reload, Load,
       SetLists, ReadRules, SwapRules, SwapConfig, SetMode, requestVars, configVars

LEMMA ShapeKept ==
    ASSUME Shape, [Next]_vars
    PROVE  Shape'
<1>1. ConfigShape'
  BY ConfigShapeKept DEF Shape
<1>2. ASSUME NEW h \in Handlers, Serve(h) PROVE Shape'
  BY <1>1, <1>2, HandlerShapeKept, StatsKept DEF Shape
<1>3. ASSUME Operate \/ \E t \in Reloaders : Reload(t) PROVE Shape'
  <2>1. now' \in Nat
    BY <1>3, OutsideFrame, ConstantsAssumption DEF Shape, StatsType
  <2>2. denied' \subseteq Handlers
    BY <1>3, OutsideFrame DEF Shape, HandlerShape, SetLists
  <2> QED
    BY <1>1, <1>3, <2>1, <2>2, OutsideFrame DEF Shape, HandlerShape, ConsultShape, StatsType
<1>4. CASE UNCHANGED vars
  BY <1>1, <1>4 DEF Shape, HandlerShape, ConsultShape, StatsType, vars, requestVars
<1> QED
  BY <1>2, <1>3, <1>4 DEF Next

-----------------------------------------------------------------------------
(***************************************************************************)
(* The daemon follows its file.                                            *)
(***************************************************************************)
Own == {"watch", "write"}

\* Without a race one goroutine reloads at a time, from the file as it stands, and
\* what it has installed so far is what the file says.
FollowInv ==
    ~raced =>
        /\ reload["watch"].pc = "idle" \/ reload["write"].pc = "idle"
        /\ \A t \in Own :
              /\ reload[t].pc \in {"lists", "read", "swap", "config", "mode"} =>
                    reload[t].cfg = disk.file
              /\ reload[t].pc \in {"read", "swap", "config", "mode"} =>
                    lists = [allow |-> disk.file.allow, deny |-> disk.file.deny]
              /\ reload[t].pc = "mode" =>
                    mode.cfg = disk.file.mode /\ mode.engine = reload[t].prev
        /\ (\A t \in Own : reload[t].pc # "mode") => mode.engine = mode.cfg
        /\ (\A t \in Own : reload[t].pc = "idle") /\ ~disk.changed =>
              /\ lists = [allow |-> disk.file.allow, deny |-> disk.file.deny]
              /\ mode.cfg = disk.file.mode

\* SIGHUP reloads the rules only.
HupInv ==
    /\ reload["hup"].pc \in {"idle", "read", "swap"}
    /\ reload["write"].pc \in {"idle", "load", "lists", "config", "mode"}
    /\ reload["watch"].pc \in {"idle", "load", "lists", "read", "swap", "config", "mode"}

LEMMA InitFollow == Init => FollowInv /\ HupInv
BY DEF Init, FollowInv, HupInv, Own, Reloaders, AtRest

LEMMA HupKept ==
    ASSUME ConfigShape, HupInv, [Next]_vars
    PROVE  HupInv'
<1> USE DEF ConfigShape, ReloadFields, Reloaders, HupInv
<1>1. ASSUME NEW t \in Reloaders, Reload(t) PROVE HupInv'
  <2>1. CASE Load(t) \/ ReadRules(t) \/ SwapConfig(t)
    BY <2>1 DEF Load, ReadRules, SwapConfig
  <2>2. CASE SetLists(t)
    BY <2>2 DEF SetLists, goto
  <2>3. CASE SwapRules(t)
    BY <2>3 DEF SwapRules, goto, AtRest
  <2>4. CASE SetMode(t)
    BY <2>4 DEF SetMode, AtRest
  <2> QED
    BY <1>1, <2>1, <2>2, <2>3, <2>4 DEF Reload
<1>2. CASE UNCHANGED reload
  BY <1>2
<1>3. ASSUME NEW h \in Handlers, Serve(h) PROVE UNCHANGED reload
  BY <1>3 DEF Serve, Receive, MatchLists, Decide, PassGate, Record, Answered,
     ReadVersion, LookUp, Deliver, Fail,
     Classify, Reject, configVars
<1>4. ASSUME Operate PROVE HupInv'
  <2>1. ASSUME Poll \/ Hup \/ \E list \in {"allow", "deny"}, line \in Lines : WriteLine(list, line)
        PROVE  HupInv'
    <3>1. \/ reload' = [reload EXCEPT !["watch"].pc = "load"]
          \/ reload' = [reload EXCEPT !["hup"].pc = "read"]
          \/ reload' = [reload EXCEPT !["write"].pc = "load"]
      BY <2>1 DEF Poll, Hup, WriteLine, goto
    <3> QED
      BY <3>1
  <2> QED
    BY <1>2, <1>4, <2>1 DEF Operate, EditFile, EditRules, Press, CloseGate, Tick, configVars
<1> QED
  BY <1>1, <1>2, <1>3, <1>4 DEF Next, vars, configVars

LEMMA FollowKept ==
    ASSUME ConfigShape, HupInv, FollowInv, [Next]_vars
    PROVE  FollowInv'
<1> USE DEF ConfigShape, ReloadFields, Reloaders, Own
<1>1. CASE raced'
  BY <1>1 DEF FollowInv
<1>2. CASE UNCHANGED configVars
  BY <1>2 DEF configVars, FollowInv
<1>3. ASSUME ~raced', NEW t \in Own, Reload(t) PROVE FollowInv'
  <2>1. ~raced /\ UNCHANGED raced
    BY <1>3 DEF Reload, Load, SetLists, ReadRules, SwapRules, SwapConfig, SetMode
  <2>2. /\ \A u \in Own \ {t} : reload[u].pc = "idle"
        /\ reload[t].pc # "idle"
    BY <1>3, <2>1 DEF FollowInv, Reload, Load, SetLists, ReadRules, SwapRules, SwapConfig, SetMode
  <2> USE <2>1, <2>2 DEF FollowInv
  <2>3. CASE Load(t)
    BY <2>3 DEF Load
  <2>4. CASE SetLists(t)
    BY <2>4 DEF SetLists, goto
  <2>5. CASE ReadRules(t)
    BY <2>5 DEF ReadRules
  <2>6. CASE SwapRules(t)
    BY <2>6 DEF SwapRules, goto, HupInv
  <2>7. CASE SwapConfig(t)
    BY <2>7 DEF SwapConfig
  <2>8. CASE SetMode(t)
    <3>1. newMode(t) = disk.file.mode
      BY <2>8 DEF SetMode, newMode
    <3>2. /\ mode.cfg = disk.file.mode
          /\ lists = [allow |-> disk.file.allow, deny |-> disk.file.deny]
      BY <2>8 DEF SetMode
    <3>3. /\ mode'.engine = disk.file.mode /\ mode'.cfg = disk.file.mode /\ lists' = lists
          /\ disk'.file = disk.file
          /\ \A u \in Own : reload'[u].pc = "idle"
      BY <2>8, <3>1, <3>2 DEF SetMode, AtRest
    <3> QED
      BY <3>2, <3>3
  <2> QED
    BY <1>3, <2>3, <2>4, <2>5, <2>6, <2>7, <2>8 DEF Reload
<1>4. ASSUME ~raced', Reload("hup") PROVE FollowInv'
  <2>1. /\ UNCHANGED <<disk, lists, mode, raced>>
        /\ \A u \in Own : reload'[u] = reload[u]
    BY <1>4 DEF Reload, Load, SetLists, ReadRules, SwapRules, SwapConfig, SetMode, goto, HupInv
  <2> QED
    BY <2>1 DEF FollowInv
<1>5. ASSUME ~raced', NEW f \in Files, EditFile(f) PROVE FollowInv'
  <2>1. ~raced /\ ~anyReloading
    BY <1>5 DEF EditFile
  <2>2. /\ UNCHANGED <<lists, mode, reload>> /\ disk'.changed = TRUE
        /\ \A u \in Own : reload[u].pc = "idle"
    BY <1>5, <2>1 DEF EditFile, anyReloading
  <2> QED
    BY <2>1, <2>2 DEF FollowInv
<1>6. ASSUME ~raced', NEW f \in RuleFiles, EditRules(f) PROVE FollowInv'
  <2>1. /\ UNCHANGED <<lists, mode, reload, raced>>
        /\ disk'.file = disk.file /\ disk'.changed = disk.changed
    BY <1>6 DEF EditRules
  <2> QED
    BY <2>1 DEF FollowInv
<1>7. ASSUME ~raced', NEW list \in {"allow", "deny"}, NEW line \in Lines, WriteLine(list, line)
      PROVE  FollowInv'
  <2>1. ~raced /\ ~anyReloading
    BY <1>7 DEF WriteLine
  <2>2. /\ UNCHANGED <<lists, mode>> /\ reload'["watch"].pc = "idle" /\ reload'["write"].pc = "load"
    BY <1>7, <2>1 DEF WriteLine, anyReloading, goto
  <2>3. mode.engine = mode.cfg
    BY <2>1 DEF FollowInv, anyReloading
  <2> QED
    BY <2>2, <2>3 DEF FollowInv
<1>8. ASSUME ~raced', Poll PROVE FollowInv'
  <2>1. ~raced /\ ~anyReloading
    BY <1>8 DEF Poll
  <2>2. /\ UNCHANGED <<lists, mode>> /\ reload'["watch"].pc = "load" /\ reload'["write"].pc = "idle"
    BY <1>8, <2>1 DEF Poll, anyReloading, goto
  <2>3. mode.engine = mode.cfg
    BY <2>1 DEF FollowInv, anyReloading
  <2> QED
    BY <2>2, <2>3 DEF FollowInv
<1>9. ASSUME ~raced', Hup PROVE FollowInv'
  <2>1. /\ UNCHANGED <<disk, lists, mode, raced>>
        /\ \A u \in Own : reload'[u] = reload[u]
    BY <1>9 DEF Hup, goto
  <2> QED
    BY <2>1 DEF FollowInv
<1>10. ASSUME \/ Press \/ CloseGate \/ \E d \in Ticks : Tick(d)
              \/ \E h \in Handlers : Serve(h)
              \/ UNCHANGED vars
       PROVE  UNCHANGED configVars
  BY <1>10 DEF Press, CloseGate, Tick, Serve, Receive, MatchLists, Decide, PassGate, Record, Answered,
     ReadVersion, LookUp, Deliver, Fail, Classify, Reject, vars
<1> QED
  BY <1>1, <1>2, <1>3, <1>4, <1>5, <1>6, <1>7, <1>8, <1>9, <1>10 DEF Next, Operate

\* run.go, ReloadConfig and reloadAfterInternalWrite: unless two reloads or an edit and
\* a reload overlapped, the matcher and the engine have what the file says.
THEOREM DaemonFollowsFile == Spec => []DaemonFollowsFileUnlessRaced
<1>1. Init => Shape /\ FollowInv /\ HupInv
  BY InitShape, InitFollow
<1>2. Shape /\ FollowInv /\ HupInv /\ [Next]_vars => (Shape /\ FollowInv /\ HupInv)'
  BY ShapeKept, FollowKept, HupKept DEF Shape
<1>3. Shape /\ FollowInv /\ HupInv => DaemonFollowsFileUnlessRaced
  <2> SUFFICES ASSUME Shape, FollowInv, ~anyReloading, ~raced, ~disk.changed
               PROVE  /\ lists = [allow |-> disk.file.allow, deny |-> disk.file.deny]
                      /\ mode = [cfg |-> disk.file.mode, engine |-> disk.file.mode]
    BY DEF DaemonFollowsFileUnlessRaced
  <2>1. \A t \in Own : reload[t].pc = "idle"
    BY DEF anyReloading, Own
  <2>2. /\ lists = [allow |-> disk.file.allow, deny |-> disk.file.deny]
        /\ mode.cfg = disk.file.mode /\ mode.engine = disk.file.mode
    BY <2>1 DEF FollowInv
  <2>3. mode = [cfg |-> mode.cfg, engine |-> mode.engine]
    BY DEF Shape, ConfigShape
  <2> QED
    BY <2>2, <2>3
<1> QED
  BY <1>1, <1>2, <1>3, PTL DEF Spec

-----------------------------------------------------------------------------
(***************************************************************************)
(* A standing deny is obeyed.                                              *)
(***************************************************************************)
\* As long as the deny list matches, the handler cannot have asked anybody else.
StandInv ==
    \A h \in denied :
        /\ handler[h].pc \in {"lists", "gate", "record"}
        /\ Match(lists.deny, listView(handler[h].req))
        /\ handler[h].pc = "gate" => handler[h].decision.effect = "deny"
        /\ handler[h].pc = "record" =>
              handler[h].decision.effect = "deny" \/ handler[h].decision.source = "open_mode"

LEMMA DenyWins ==
    ASSUME NEW allow, NEW deny, NEW r, Match(deny, r)
    PROVE  fastPath(allow, deny, r) = MakeDecision("deny", "deny_list")
           /\ fastPath(allow, deny, r) # Nothing
           /\ fastPath(allow, deny, r).effect = "deny"
BY DEF fastPath, Nothing, MakeDecision

LEMMA StandKept ==
    ASSUME HandlerShape, StandInv, [Next]_vars
    PROVE  StandInv'
<1> USE DEF HandlerShape, HandlerFields
<1>1. CASE UNCHANGED <<lists, handler, denied>>
  BY <1>1 DEF StandInv
<1>2. ASSUME NEW t \in Reloaders, SetLists(t) PROVE StandInv'
  BY <1>2 DEF SetLists, StandInv
<1>3. ASSUME NEW h \in Handlers, Serve(h) PROVE StandInv'
  <2>1. UNCHANGED lists
    BY <1>3 DEF Serve, Receive, MatchLists, Decide, PassGate, Record, Answered,
       ReadVersion, LookUp, Deliver, Fail,
       Classify, Reject, configVars
  <2>2. \A g \in Handlers \ {h} : handler'[g] = handler[g] /\ (g \in denied' <=> g \in denied)
    <3>1. ASSUME NEW r \in Requests, Receive(h, r)
          PROVE  \A g \in Handlers \ {h} : handler'[g] = handler[g] /\ (g \in denied' <=> g \in denied)
      BY <3>1 DEF Receive
    <3>2. ASSUME MatchLists(h) \/ Decide(h) \/ PassGate(h) \/ Record(h)
                 \/ \E e \in Answers : Answered(h, e)
          PROVE  \A g \in Handlers \ {h} : handler'[g] = handler[g] /\ (g \in denied' <=> g \in denied)
      BY <3>2 DEF MatchLists, Decide, PassGate, Record, Answered, settled
    <3>3. ASSUME ReadVersion(h) \/ LookUp(h) \/ Deliver(h) \/ Fail(h)
                 \/ \E out \in Outputs : Classify(h, out) \/ Reject(h, out)
          PROVE  \A g \in Handlers \ {h} : handler'[g] = handler[g] /\ (g \in denied' <=> g \in denied)
      BY <3>3 DEF ReadVersion, LookUp, Deliver, Fail, Classify, Reject, resolved, settled
    <3> QED
      BY <1>3, <3>1, <3>2, <3>3 DEF Serve
  <2>3. SUFFICES ASSUME h \in denied'
                 PROVE  /\ handler'[h].pc \in {"lists", "gate", "record"}
                        /\ Match(lists.deny, listView(handler'[h].req))
                        /\ handler'[h].pc = "gate" => handler'[h].decision.effect = "deny"
                        /\ handler'[h].pc = "record" =>
                              \/ handler'[h].decision.effect = "deny"
                              \/ handler'[h].decision.source = "open_mode"
    <3>1. denied' \subseteq Handlers
      BY <1>3 DEF Serve, Receive, MatchLists, Decide, PassGate, Record, Answered,
         ReadVersion, LookUp, Deliver,
         Fail, Classify, Reject
    <3> QED
      BY <2>1, <2>2, <2>3, <3>1 DEF StandInv
  <2>4. ASSUME NEW r \in Requests, Receive(h, r)
        PROVE  handler'[h].pc = "lists" /\ Match(lists.deny, listView(handler'[h].req))
    <3>1. handler'[h].pc = "lists" /\ handler'[h].req = r /\ handler[h].pc = "idle"
      BY <2>4 DEF Receive, Free
    <3>2. h \notin denied
      BY <3>1 DEF StandInv
    <3> QED
      BY <2>3, <2>4, <3>1, <3>2 DEF Receive
  <2>5. CASE ~\E r \in Requests : Receive(h, r)
    <3>1. h \in denied
      BY <1>3, <2>3, <2>5 DEF Serve, MatchLists, Decide, PassGate, Record, Answered,
         ReadVersion, LookUp, Deliver,
         Fail, Classify, Reject
    <3>2. /\ handler[h].pc \in {"lists", "gate", "record"}
          /\ Match(lists.deny, listView(handler[h].req))
          /\ handler[h].pc = "gate" => handler[h].decision.effect = "deny"
          /\ handler[h].pc = "record" =>
                handler[h].decision.effect = "deny" \/ handler[h].decision.source = "open_mode"
      BY <3>1 DEF StandInv
    <3>3. CASE handler' = handler
      BY <3>2, <3>3
    <3>4. CASE MatchLists(h)
      <4> DEFINE d == fastPath(handler[h].allow, lists.deny, listView(handler[h].req))
      <4>1. d # Nothing /\ d.effect = "deny"
        BY <3>2, DenyWins
      <4> HIDE DEF d
      <4>2. handler' = [handler EXCEPT ![h].pc = IF d = Nothing THEN "engine" ELSE "gate",
                                       ![h].allow = {}, ![h].decision = d]
        BY <3>4 DEF MatchLists, d
      <4>3. handler'[h].pc = "gate" /\ handler'[h].req = handler[h].req /\ handler'[h].decision = d
        BY <4>1, <4>2
      <4> QED
        BY <3>2, <4>1, <4>3
    <3>5. CASE PassGate(h)
      <4> DEFINE d == IF gateOpen THEN MakeDecision("allow", "open_mode") ELSE handler[h].decision
      <4>1. handler[h].decision.effect = "deny"
        BY <3>2, <3>5 DEF PassGate
      <4>2. ~isAsk(d) /\ (d.effect = "deny" \/ d.source = "open_mode")
        BY <4>1 DEF isAsk, MakeDecision
      <4> HIDE DEF d
      <4>3. handler' = settled(h, d)
        BY <3>5, <4>2 DEF PassGate, d
      <4>4. handler'[h].pc = "record" /\ handler'[h].decision = d /\ handler'[h].req = handler[h].req
        BY <4>3 DEF settled
      <4> QED
        BY <3>2, <4>2, <4>4
    <3>6. \/ handler' = handler \/ MatchLists(h) \/ PassGate(h)
      BY <1>3, <2>3, <2>5, <3>2 DEF Serve, Decide, Record, Answered,
         ReadVersion, LookUp, Deliver, Fail, Classify,
         Reject, resolved
    <3> QED
      BY <3>3, <3>4, <3>5, <3>6
  <2> QED
    BY <2>4, <2>5
<1>4. ASSUME \/ Operate
             \/ \E t \in Reloaders : Reload(t) /\ ~SetLists(t)
             \/ UNCHANGED vars
      PROVE  UNCHANGED <<lists, handler, denied>>
  BY <1>4 DEF Operate, EditFile, EditRules, WriteLine, Poll, Hup, Press, CloseGate, Tick, Reload, Load,
     ReadRules, SwapRules, SwapConfig, SetMode, requestVars, configVars, vars
<1> QED
  BY <1>1, <1>2, <1>3, <1>4 DEF Next

\* server.go, fastPathDecide: what the deny list matches all the while is let through by
\* nothing but the open gate, however often the lists are reloaded meanwhile.
THEOREM StandingDeny == Spec => []StandingDenyIsObeyed
<1>1. Init => Shape /\ StandInv
  BY InitShape DEF Init, StandInv
<1>2. Shape /\ StandInv /\ [Next]_vars => (Shape /\ StandInv)'
  BY ShapeKept, StandKept DEF Shape
<1>3. StandInv => StandingDenyIsObeyed
  BY DEF StandInv, StandingDenyIsObeyed
<1> QED
  BY <1>1, <1>2, <1>3, PTL DEF Spec

-----------------------------------------------------------------------------
(***************************************************************************)
(* Every consultation is counted.                                          *)
(***************************************************************************)
Asked == {h \in Handlers : consult[h].pc = "asked"}

\* A handler that has not asked yet has no consultation under way: its next question
\* overwrites none.
IdleInv ==
    \A h \in Handlers : handler[h].pc \in {"lists", "engine", "gate"} => consult[h].pc = "none"

CountInv == stats.consulted = stats.classified + stats.fallback + Cardinality(Asked)

LEMMA LookUpStep ==
    ASSUME ConsultShape, NEW h \in Handlers, LookUp(h)
    PROVE  LET key == cacheKey(consult[h].version, consult[h].req)
               hit == CHOOSE e \in cached(key) : TRUE
           IN  /\ consult[h].pc = "lookup"
               /\ \A g \in Handlers \ {h} : consult'[g] = consult[g]
               /\ \/ consult'[h].pc = "asked" /\ stats' = [stats EXCEPT !.consulted = @ + 1]
                  \/ /\ consult'[h].pc = "hit" /\ UNCHANGED stats
                     /\ cached(key) # {}
                     /\ consult'[h].verdict = hit.verdict /\ consult'[h].asked = hit.asked
<1> DEFINE key == cacheKey(consult[h].version, consult[h].req)
           hit == CHOOSE e \in cached(key) : TRUE
<1>1. /\ consult[h].pc = "lookup"
      /\ \/ /\ consult' = [consult EXCEPT ![h].pc = "asked"]
            /\ stats' = [stats EXCEPT !.consulted = @ + 1]
         \/ /\ cached(key) # {} /\ UNCHANGED stats
            /\ consult' = [consult EXCEPT ![h].pc = "hit", ![h].verdict = hit.verdict,
                                          ![h].asked = hit.asked]
  BY Zenon DEF LookUp
<1> HIDE DEF key, hit
<1>2. /\ consult[h].pc = "lookup"
      /\ \A g \in Handlers \ {h} : consult'[g] = consult[g]
      /\ \/ consult'[h].pc = "asked" /\ stats' = [stats EXCEPT !.consulted = @ + 1]
         \/ /\ consult'[h].pc = "hit" /\ UNCHANGED stats
            /\ cached(key) # {}
            /\ consult'[h].verdict = hit.verdict /\ consult'[h].asked = hit.asked
  BY <1>1 DEF ConsultShape, ConsultFields
<1> QED
  BY <1>2 DEF key, hit

LEMMA IdleKept ==
    ASSUME HandlerShape, ConsultShape, IdleInv, NEW h \in Handlers, Serve(h)
    PROVE  IdleInv'
<1> USE DEF HandlerShape, ConsultShape, HandlerFields, ConsultFields, IdleInv
<1>1. ASSUME NEW r \in Requests, Receive(h, r) PROVE IdleInv'
  BY <1>1 DEF Receive, Free
<1>2. CASE MatchLists(h) \/ Decide(h)
  BY <1>2 DEF MatchLists, Decide
<1>3. CASE PassGate(h)
  BY <1>3 DEF PassGate, settled
<1>4. CASE Record(h)
  BY <1>4 DEF Record, Free
<1>5. ASSUME NEW e \in Answers, Answered(h, e) PROVE IdleInv'
  BY <1>5 DEF Answered, settled
<1>6. CASE ReadVersion(h) \/ LookUp(h)
  BY <1>6 DEF ReadVersion, LookUp
<1>7. CASE Deliver(h) \/ Fail(h)
  BY <1>7 DEF Deliver, Fail, resolved, settled, NoConsult
<1>8. ASSUME NEW out \in Outputs, Classify(h, out) \/ Reject(h, out) PROVE IdleInv'
  BY <1>8 DEF Classify, Reject, resolved, settled, NoConsult
<1> QED
  BY <1>1, <1>2, <1>3, <1>4, <1>5, <1>6, <1>7, <1>8 DEF Serve

LEMMA CountKept ==
    ASSUME HandlerShape, ConsultShape, StatsType, IdleInv, CountInv, NEW h \in Handlers, Serve(h)
    PROVE  CountInv'
<1> USE DEF ConsultShape, ConsultFields
<1>1. IsFiniteSet(Asked) /\ Cardinality(Asked) \in Nat
  BY ConstantsAssumption, FS_Subset, FS_CardinalityType DEF Asked
<1>2. CASE UNCHANGED stats /\ \A g \in Handlers : consult'[g].pc = "asked" <=> consult[g].pc = "asked"
  <2>1. Asked' = Asked
    BY <1>2 DEF Asked
  <2> QED
    BY <1>2, <2>1 DEF CountInv
<1>3. CASE /\ h \notin Asked /\ Asked' = Asked \cup {h}
           /\ stats' = [stats EXCEPT !.consulted = @ + 1]
  <2>1. Cardinality(Asked') = Cardinality(Asked) + 1
    BY <1>1, <1>3, FS_AddElement
  <2> QED
    BY <1>1, <1>3, <2>1 DEF CountInv, StatsType
<1>4. CASE /\ h \in Asked /\ Asked' = Asked \ {h}
           /\ \/ stats' = [stats EXCEPT !.classified = @ + 1]
              \/ stats' = [stats EXCEPT !.fallback = @ + 1]
  <2>1. Cardinality(Asked') = Cardinality(Asked) - 1
    BY <1>1, <1>4, FS_RemoveElement
  <2> QED
    BY <1>1, <1>4, <2>1 DEF CountInv, StatsType
<1>5. ASSUME LookUp(h) PROVE CountInv'
  <2>1. /\ consult[h].pc = "lookup" /\ \A g \in Handlers \ {h} : consult'[g] = consult[g]
        /\ \/ consult'[h].pc = "asked" /\ stats' = [stats EXCEPT !.consulted = @ + 1]
           \/ consult'[h].pc = "hit" /\ UNCHANGED stats
    BY <1>5, LookUpStep
  <2> QED
    BY <1>2, <1>3, <2>1 DEF Asked
<1>6. ASSUME Fail(h) \/ \E out \in Outputs : Classify(h, out) \/ Reject(h, out) PROVE CountInv'
  <2>1. consult[h].pc = "asked" /\ consult' = [consult EXCEPT ![h] = NoConsult]
    BY <1>6 DEF Fail, Classify, Reject
  <2>2. \/ stats' = [stats EXCEPT !.classified = @ + 1]
        \/ stats' = [stats EXCEPT !.fallback = @ + 1]
    BY <1>6 DEF Fail, Classify, Reject, countFallback
  <2>3. h \in Asked /\ Asked' = Asked \ {h}
    BY <2>1 DEF Asked, NoConsult
  <2> QED
    BY <1>4, <2>2, <2>3
<1>7. ASSUME PassGate(h) PROVE CountInv'
  <2>1. consult[h].pc = "none" /\ UNCHANGED stats
    BY <1>7 DEF PassGate, IdleInv
  <2>2. \/ consult' = consult
        \/ consult' = [consult EXCEPT ![h].pc = "start", ![h].req = handler[h].req]
    BY <1>7 DEF PassGate
  <2> QED
    BY <1>2, <2>1, <2>2
<1>8. ASSUME Deliver(h) \/ ReadVersion(h) PROVE CountInv'
  BY <1>2, <1>8 DEF Deliver, ReadVersion, NoConsult
<1> QED
  BY <1>2, <1>5, <1>6, <1>7, <1>8 DEF Serve, Receive, MatchLists, Decide, Record, Answered

\* stats.go: every consultation that was started is classified, a fallback or still
\* under way, for any number of concurrent consultations.
THEOREM ConsultsAreCounted == Spec => []EveryConsultIsCounted
<1>1. Init => Shape /\ IdleInv /\ CountInv
  <2> SUFFICES ASSUME Init PROVE IdleInv /\ CountInv
    BY InitShape
  <2>1. IdleInv
    BY DEF Init, IdleInv, Free
  <2>2. Asked = {}
    BY DEF Init, Asked, NoConsult
  <2>3. Cardinality(Asked) = 0
    BY <2>2, FS_EmptySet
  <2> QED
    BY <2>1, <2>3 DEF Init, CountInv
<1>2. Shape /\ IdleInv /\ CountInv /\ [Next]_vars => (Shape /\ IdleInv /\ CountInv)'
  <2> SUFFICES ASSUME Shape, IdleInv, CountInv, [Next]_vars PROVE IdleInv' /\ CountInv'
    BY ShapeKept
  <2>1. ASSUME NEW h \in Handlers, Serve(h) PROVE IdleInv' /\ CountInv'
    BY <2>1, IdleKept, CountKept DEF Shape
  <2>2. CASE UNCHANGED <<handler, consult, stats>>
    <3>1. Asked' = Asked
      BY <2>2 DEF Asked
    <3> QED
      BY <2>2, <3>1 DEF IdleInv, CountInv
  <2> QED
    BY <2>1, <2>2, OutsideFrame DEF Next, vars, requestVars
<1>3. CountInv => EveryConsultIsCounted
  BY DEF CountInv, Asked, EveryConsultIsCounted
<1> QED
  BY <1>1, <1>2, <1>3, PTL DEF Spec

-----------------------------------------------------------------------------
(***************************************************************************)
(* The advisor's cache.                                                    *)
(***************************************************************************)
\* An entry is filed under the question it answers, and ends a TTL after the answer.
CacheInv ==
    \A e \in cache :
        /\ e.key = cacheKey(e.asked.version, e.asked.req)
        /\ e.asked.at \in Nat
        /\ e.expires = e.asked.at + Ttl
        /\ e.verdict = validated(e.asked.out)

LEMMA CacheKept ==
    ASSUME StatsType, CacheInv, [Next]_vars
    PROVE  CacheInv'
<1>1. CASE cache' \subseteq cache
  BY <1>1 DEF CacheInv
<1>2. ASSUME NEW h \in Handlers, NEW out \in Outputs, Classify(h, out) PROVE CacheInv'
  <2> DEFINE key == cacheKey(consult[h].version, consult[h].req)
             new == [key |-> key, verdict |-> validated(out), expires |-> now + Ttl,
                     asked |-> [req |-> consult[h].req, version |-> consult[h].version,
                                at |-> now, out |-> out]]
  <2>1. cache' = {e \in cache : e.key # key} \cup {new}
    BY <1>2 DEF Classify
  <2>2. /\ new.key = cacheKey(new.asked.version, new.asked.req) /\ new.asked.at \in Nat
        /\ new.expires = new.asked.at + Ttl /\ new.verdict = validated(new.asked.out)
    BY DEF StatsType
  <2> HIDE DEF new, key
  <2>3. \A e \in cache' : e \in cache \/ e = new
    BY <2>1
  <2> QED
    BY <2>2, <2>3 DEF CacheInv
<1>3. ASSUME NEW h \in Handlers, Serve(h), ~\E out \in Outputs : Classify(h, out)
      PROVE  cache' \subseteq cache
  BY <1>3 DEF Serve, Receive, MatchLists, Decide, PassGate, Record, Answered,
     ReadVersion, LookUp, Deliver, Fail,
     Reject
<1> QED
  BY <1>1, <1>2, <1>3, OutsideFrame DEF Next, vars, requestVars

LEMMA SameKey ==
    ASSUME NEW v, NEW r, NEW w, NEW s, cacheKey(v, r) = cacheKey(w, s)
    PROVE  /\ v = w
           /\ \A part \in {"identity", "method", "scheme", "host", "port", "path"} : r[part] = s[part]
BY DEF cacheKey

\* advisor.go, Classify and buildCacheKey: a verdict that is taken from the cache was
\* given for the same identity, method and URL, under the rules that were in force when
\* the advisor was called for this request, no longer than the TTL ago and with enough
\* confidence if it decides.
THEOREM CacheIsFresh == Spec => AdviceIsFresh
<1>1. Init => Shape /\ CacheInv
  BY InitShape DEF Init, CacheInv
<1>2. Shape /\ CacheInv /\ [Next]_vars => (Shape /\ CacheInv)'
  BY ShapeKept, CacheKept DEF Shape
<1>3. ASSUME Shape, CacheInv, [Next]_vars, NEW h \in Handlers,
             consult[h].pc = "lookup", consult'[h].pc = "hit"
      PROVE  /\ \A part \in {"identity", "method", "scheme", "host", "port", "path"} :
                   consult'[h].asked.req[part] = consult[h].req[part]
             /\ consult'[h].asked.version = consult[h].version
             /\ now - consult'[h].asked.at <= Ttl
             /\ consult'[h].verdict.effect # "ask_user" =>
                   rank(consult'[h].asked.out.confidence) >= rank(Floor)
  <2> USE DEF Shape, ConsultShape, ConsultFields
  <2>1. LookUp(h)
    <3>1. ASSUME NEW g \in Handlers, Serve(g) PROVE LookUp(h)
      <4>1. CASE g # h
        <5>1. consult'[h] = consult[h]
          BY <1>3, <3>1, <4>1, LookUpStep DEF Serve, Receive, MatchLists, Decide, PassGate, Record,
             Answered, ReadVersion, Deliver, Fail, Classify, Reject
        <5> QED
          BY <1>3, <5>1
      <4>2. CASE g = h
        BY <1>3, <3>1, <4>2 DEF Serve, Receive, MatchLists, Decide, PassGate, Record, Answered,
           ReadVersion, Deliver, Fail, Classify, Reject
      <4> QED
        BY <4>1, <4>2
    <3>2. CASE UNCHANGED consult
      BY <1>3, <3>2
    <3> QED
      BY <1>3, <3>1, <3>2, OutsideFrame DEF Next, vars, requestVars
  <2> DEFINE key == cacheKey(consult[h].version, consult[h].req)
             hit == CHOOSE e \in cached(key) : TRUE
  <2>2. /\ cached(key) # {}
        /\ consult'[h].verdict = hit.verdict /\ consult'[h].asked = hit.asked
    BY <1>3, <2>1, LookUpStep
  <2>3. hit \in cache /\ hit.key = key /\ now <= hit.expires
    BY <2>2 DEF cached
  <2> HIDE DEF hit, key
  <2>4. /\ cacheKey(hit.asked.version, hit.asked.req) = key /\ hit.asked.at \in Nat
        /\ hit.expires = hit.asked.at + Ttl /\ hit.verdict = validated(hit.asked.out)
    BY <1>3, <2>3 DEF CacheInv
  <2>5. /\ hit.asked.version = consult[h].version
        /\ \A part \in {"identity", "method", "scheme", "host", "port", "path"} :
              hit.asked.req[part] = consult[h].req[part]
    BY <2>4, SameKey DEF key
  <2>6. now - hit.asked.at <= Ttl
    BY <1>3, <2>3, <2>4, ConstantsAssumption DEF StatsType
  <2>7. hit.verdict.effect # "ask_user" => rank(hit.asked.out.confidence) >= rank(Floor)
    BY <2>4 DEF validated, MakeDecision
  <2> QED
    BY <2>2, <2>5, <2>6, <2>7
<1>4. Shape /\ CacheInv /\ [Next]_vars =>
        [\A h \in Handlers :
           consult[h].pc = "lookup" /\ consult'[h].pc = "hit" =>
               LET asked == consult'[h].asked
               IN  /\ \A part \in {"identity", "method", "scheme", "host", "port", "path"} :
                         asked.req[part] = consult[h].req[part]
                   /\ asked.version = consult[h].version
                   /\ now - asked.at <= Ttl
                   /\ consult'[h].verdict.effect # "ask_user" => rank(asked.out.confidence) >= rank(Floor)]_consult
  BY <1>3
<1> QED
  BY <1>1, <1>2, <1>4, PTL DEF Spec, AdviceIsFresh

-----------------------------------------------------------------------------
(***************************************************************************)
(* The rule that decides, and a request without its body.                  *)
(***************************************************************************)
LEMMA LeastNumber ==
    ASSUME NEW T, T \subseteq Nat, T # {}
    PROVE  \E x \in T : \A y \in T : x <= y
<1>1. PICK x \in T : \A y \in T : ~(<<y, x>> \in OpToRel(<, Nat))
  BY WFMin, NatLessThanWellFounded, Zenon
<1>2. \A y \in T : ~(y < x)
  BY <1>1 DEF OpToRel
<1> QED
  BY <1>2

Ranked(rs) ==
    /\ DOMAIN rs \subseteq Nat
    /\ \A i \in DOMAIN rs : priority(rs[i]) \in Int
    /\ DOMAIN rs # {} => \E top \in DOMAIN rs : \A i \in DOMAIN rs :
                             priority(rs[i]) <= priority(rs[top])

\* Among rules that speak there is a first one, and only one.
LEMMA FirstRule ==
    ASSUME NEW rs, Ranked(rs), NEW S, S \subseteq DOMAIN rs, S # {}
    PROVE  \E i \in S : \A j \in S \ {i} : before(rs, i, j)
<1>1. PICK top \in DOMAIN rs : \A i \in DOMAIN rs : priority(rs[i]) <= priority(rs[top])
  BY DEF Ranked
<1> DEFINE gap(i) == priority(rs[top]) - priority(rs[i])
           Gaps == {gap(i) : i \in S}
<1>2. Gaps \subseteq Nat /\ Gaps # {}
  BY <1>1 DEF Ranked
<1>3. PICK g \in Gaps : \A y \in Gaps : g <= y
  <2> HIDE DEF Gaps
  <2> QED
    BY <1>2, LeastNumber
<1>4. PICK a \in S : g = gap(a)
  OBVIOUS
<1>5. \A i \in S : priority(rs[i]) <= priority(rs[a])
  <2> SUFFICES ASSUME NEW i \in S PROVE priority(rs[i]) <= priority(rs[a])
    OBVIOUS
  <2>1. gap(a) <= gap(i)
    BY <1>3, <1>4
  <2>2. priority(rs[top]) \in Int /\ priority(rs[a]) \in Int /\ priority(rs[i]) \in Int
    BY DEF Ranked
  <2> QED
    BY <2>1, <2>2
<1> DEFINE Firsts == {i \in S : priority(rs[i]) = priority(rs[a])}
<1>6. Firsts \subseteq Nat /\ Firsts # {}
  BY DEF Ranked
<1>7. PICK i \in Firsts : \A y \in Firsts : i <= y
  <2> HIDE DEF Firsts
  <2> QED
    BY <1>6, LeastNumber
<1>8. ASSUME NEW j \in S \ {i} PROVE before(rs, i, j)
  <2>1. priority(rs[i]) \in Int /\ priority(rs[j]) \in Int /\ i \in Nat /\ j \in Nat
    BY DEF Ranked
  <2>2. priority(rs[j]) <= priority(rs[i])
    BY <1>5, <1>7
  <2>3. priority(rs[j]) = priority(rs[i]) => i <= j
    BY <1>7
  <2> QED
    BY <2>1, <2>2, <2>3 DEF before
<1> QED
  BY <1>8

LEMMA OneFirst ==
    ASSUME NEW rs, Ranked(rs), NEW i \in DOMAIN rs, NEW j \in DOMAIN rs, before(rs, i, j)
    PROVE  ~before(rs, j, i)
<1>1. priority(rs[i]) \in Int /\ priority(rs[j]) \in Int /\ i \in Nat /\ j \in Nat
  BY DEF Ranked
<1> QED
  BY <1>1 DEF before

LEMMA SameBesidesBody ==
    ASSUME NEW r, NEW p, NEW rule, NEW t, NEW hist,
           \A part \in {"method", "host", "port", "path", "identity", "headers"} : p[part] = r[part]
    PROVE  matchesIgnoringBody(rule, p, t, hist) <=> matchesIgnoringBody(rule, r, t, hist)
<1>1. /\ p.method = r.method /\ p.host = r.host /\ p.port = r.port /\ p.path = r.path
      /\ p.identity = r.identity /\ p.headers = r.headers
  OBVIOUS
<1>2. HistoryMatch(hist, rule.prior, p, t) <=> HistoryMatch(hist, rule.prior, r, t)
  BY <1>1, Zenon DEF HistoryMatch
<1>3. patternClause(rule, p) <=> patternClause(rule, r)
  BY <1>1, Zenon DEF patternClause
<1> QED
  BY <1>1, <1>2, <1>3, Zenon DEF matchesIgnoringBody

Speaking(rs, r, t, hist) ==
    {i \in DOMAIN rs : failsClosed(rs[i], r, t, hist) \/ matches(rs[i], r, t, hist)}

\* The first rule that speaks decides.
LEMMA DecidedByFirst ==
    ASSUME NEW rs, Ranked(rs), NEW r, NEW t, NEW hist, NEW md, NEW i \in Speaking(rs, r, t, hist),
           \A j \in Speaking(rs, r, t, hist) \ {i} : before(rs, i, j)
    PROVE  engineDecision(rs, md, r, t, hist) =
              MakeDecision(IF failsClosed(rs[i], r, t, hist) THEN "deny" ELSE rs[i].effect, "rule")
<1>1. deciding(rs, r, t, hist) =
        {k \in Speaking(rs, r, t, hist) :
            \A j \in Speaking(rs, r, t, hist) \ {k} : before(rs, k, j)}
  BY Zenon DEF deciding, Speaking
<1>2. Speaking(rs, r, t, hist) \subseteq DOMAIN rs
  BY DEF Speaking
<1>3. ASSUME NEW k \in Speaking(rs, r, t, hist), k # i,
             \A j \in Speaking(rs, r, t, hist) \ {k} : before(rs, k, j)
      PROVE  FALSE
  <2>1. before(rs, k, i) /\ before(rs, i, k) /\ i \in DOMAIN rs /\ k \in DOMAIN rs
    BY <1>2, <1>3
  <2> QED
    BY <2>1, OneFirst
<1>4. deciding(rs, r, t, hist) = {i}
  BY <1>1, <1>3
<1>5. (CHOOSE k \in deciding(rs, r, t, hist) : TRUE) = i
  BY <1>4
<1> QED
  BY <1>4, <1>5 DEF engineDecision

LEMMA PaddedDecision ==
    ASSUME NEW rs, Ranked(rs), NEW md, NEW t, NEW hist, NEW r, NEW p, p.body = NoBody,
           \A part \in {"method", "host", "port", "path", "identity", "headers"} : p[part] = r[part],
           engineDecision(rs, md, p, t, hist).effect # "deny"
    PROVE  engineDecision(rs, md, p, t, hist) = engineDecision(rs, md, r, t, hist)
<1> DEFINE Ign(i) == matchesIgnoringBody(rs[i], r, t, hist)
<1>1. \A i \in DOMAIN rs : matchesIgnoringBody(rs[i], p, t, hist) <=> Ign(i)
  BY SameBesidesBody
<1> HIDE DEF Ign
<1>2. Speaking(rs, p, t, hist) = {i \in DOMAIN rs : Ign(i)}
  <2>1. \A i \in DOMAIN rs : failsClosed(rs[i], p, t, hist) <=> rs[i].bodies # {} /\ Ign(i)
    BY <1>1 DEF failsClosed
  <2>2. \A i \in DOMAIN rs : matches(rs[i], p, t, hist) =>  Ign(i)
    BY <1>1 DEF matches
  <2>3. \A i \in DOMAIN rs : Ign(i) /\ rs[i].bodies = {} => matches(rs[i], p, t, hist)
    BY <1>1 DEF matches, clause
  <2> QED
    BY <2>1, <2>2, <2>3 DEF Speaking
<1>3. Speaking(rs, r, t, hist) \subseteq Speaking(rs, p, t, hist)
  BY <1>2 DEF Speaking, failsClosed, matches, Ign
<1>4. CASE Speaking(rs, p, t, hist) = {}
  <2>1. deciding(rs, p, t, hist) = {} /\ deciding(rs, r, t, hist) = {}
    BY <1>3, <1>4 DEF deciding, Speaking
  <2> QED
    BY <2>1 DEF engineDecision
<1>5. CASE Speaking(rs, p, t, hist) # {}
  <2>1. PICK i \in Speaking(rs, p, t, hist) :
               \A j \in Speaking(rs, p, t, hist) \ {i} : before(rs, i, j)
    BY <1>2, <1>5, FirstRule
  <2>2. engineDecision(rs, md, p, t, hist) =
          MakeDecision(IF failsClosed(rs[i], p, t, hist) THEN "deny" ELSE rs[i].effect, "rule")
    BY <2>1, DecidedByFirst
  <2>3. ~failsClosed(rs[i], p, t, hist)
    BY <2>2 DEF MakeDecision
  <2>4. Ign(i) /\ i \in DOMAIN rs /\ rs[i].bodies = {}
    BY <1>1, <1>2, <2>1, <2>3 DEF failsClosed
  <2>5. i \in Speaking(rs, r, t, hist) /\ ~failsClosed(rs[i], r, t, hist)
    BY <2>4 DEF Speaking, matches, clause, failsClosed, Ign
  <2>6. \A j \in Speaking(rs, r, t, hist) \ {i} : before(rs, i, j)
    BY <1>3, <2>1
  <2>7. engineDecision(rs, md, r, t, hist) =
          MakeDecision(IF failsClosed(rs[i], r, t, hist) THEN "deny" ELSE rs[i].effect, "rule")
    BY <2>5, <2>6, DecidedByFirst
  <2> QED
    BY <2>2, <2>3, <2>5, <2>7
<1> QED
  BY <1>4, <1>5

\* The rules in force, and those on the way, are a rule file's.
RulesInv ==
    /\ rules \in RuleFiles \cup {FirstRuleFile}
    /\ disk.ruleFile \in RuleFiles \cup {FirstRuleFile}
    /\ \A t \in Reloaders : reload[t].read \in RuleFiles \cup {FirstRuleFile}

LEMMA RulesKept ==
    ASSUME ConfigShape, RulesInv, [Next]_vars
    PROVE  RulesInv'
<1> USE DEF ConfigShape, ReloadFields, RulesInv
<1>1. ASSUME NEW t \in Reloaders, Reload(t) PROVE RulesInv'
  <2>1. CASE Load(t) \/ SwapConfig(t)
    BY <2>1 DEF Load, SwapConfig
  <2>2. CASE SetLists(t)
    BY <2>2 DEF SetLists, goto
  <2>3. CASE ReadRules(t)
    BY <2>3 DEF ReadRules
  <2>4. CASE SwapRules(t)
    BY <2>4 DEF SwapRules, goto, AtRest
  <2>5. CASE SetMode(t)
    BY <2>5 DEF SetMode, AtRest
  <2> QED
    BY <1>1, <2>1, <2>2, <2>3, <2>4, <2>5 DEF Reload
<1>2. CASE UNCHANGED configVars
  BY <1>2 DEF configVars
<1>3. ASSUME NEW f \in Files, EditFile(f) PROVE RulesInv'
  BY <1>3 DEF EditFile
<1>4. ASSUME NEW f \in RuleFiles, EditRules(f) PROVE RulesInv'
  BY <1>4 DEF EditRules
<1>5. ASSUME NEW list \in {"allow", "deny"}, NEW line \in Lines, WriteLine(list, line) PROVE RulesInv'
  BY <1>5 DEF WriteLine, goto, Reloaders
<1>6. ASSUME Poll \/ Hup PROVE RulesInv'
  BY <1>6 DEF Poll, Hup, goto, Reloaders
<1>7. ASSUME \/ Press \/ CloseGate \/ \E d \in Ticks : Tick(d)
             \/ \E h \in Handlers : Serve(h)
             \/ UNCHANGED vars
      PROVE  UNCHANGED configVars
  BY <1>7 DEF Press, CloseGate, Tick, Serve, Receive, MatchLists, Decide, PassGate, Record, Answered,
     ReadVersion, LookUp, Deliver, Fail, Classify, Reject, vars
<1> QED
  BY <1>1, <1>2, <1>3, <1>4, <1>5, <1>6, <1>7 DEF Next, Operate

\* engine.go, Decide ("failing closed"): with any rules in force, in any mode and after
\* any history, a request whose body is not sampled is decided as with it, or denied.
THEOREM PaddingDoesNotHelp == Spec => []PaddingIsNoEscape
<1>1. Init => Shape /\ RulesInv
  BY InitShape DEF Init, RulesInv, AtRest
<1>2. Shape /\ RulesInv /\ [Next]_vars => (Shape /\ RulesInv)'
  BY ShapeKept, RulesKept DEF Shape
<1>3. RulesInv => PaddingIsNoEscape
  <2> SUFFICES ASSUME RulesInv, NEW r \in Requests
               PROVE  LET padded == engineDecision(rules.rules, mode.engine,
                                                   [r EXCEPT !.body = NoBody], now, history)
                      IN  padded.effect # "deny" =>
                              padded = engineDecision(rules.rules, mode.engine, r, now, history)
    BY DEF PaddingIsNoEscape
  <2> DEFINE p == [r EXCEPT !.body = NoBody]
  <2>1. /\ \A part \in {"method", "host", "port", "path", "identity", "headers"} : p[part] = r[part]
        /\ p.body = NoBody
    BY ConstantsAssumption
  <2>2. Ranked(rules.rules)
    BY RulesAssumption DEF RulesInv, Ranked, priority
  <2> HIDE DEF p
  <2>3. engineDecision(rules.rules, mode.engine, p, now, history).effect # "deny" =>
          engineDecision(rules.rules, mode.engine, p, now, history) =
              engineDecision(rules.rules, mode.engine, r, now, history)
    BY <2>1, <2>2, PaddedDecision
  <2> QED
    BY <2>3 DEF p
<1> QED
  BY <1>1, <1>2, <1>3, PTL DEF Spec
=============================================================================
