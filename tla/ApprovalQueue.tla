--------------------------- MODULE ApprovalQueue ---------------------------
(***************************************************************************)
(* The queue of held requests (internal/approvals/queue.go), with the      *)
(* goroutines that meet in it: the request handlers that Enqueue and Wait,  *)
(* the operators' Approve and Deny calls (TUI and attach), the advisor     *)
(* goroutine of each hold, the approval timers, Shutdown and Reconfigure.  *)
(*                                                                         *)
(* Every section of code under Queue.mu is one atomic step.  What runs     *)
(* outside the lock is split: a resolver first claims the hold, then sends *)
(* to one waiter at a time, then (an operator only) runs the persistence   *)
(* callback; a timer reads the on_timeout policy before it claims.         *)
(*                                                                         *)
(* A hold is named after the request whose Enqueue minted it: the id is a  *)
(* fresh UUID, and one request enqueues once.  Each request has its own    *)
(* cap-1 resolution channel.                                               *)
(***************************************************************************)
EXTENDS Integers, FiniteSets

CONSTANTS Requests,    \* the request handlers that reach holdAndWait
          Keys,        \* dedup keys (identity, method, scheme, host, port, path)
          KeyOf,       \* KeyOf[r] is dedupKey(req) of request r
          Background,  \* requests waiting with context.Background() (signal_after)
          Advised,     \* requests whose holds the advisor may decide
          Operators,   \* concurrent callers of Approve and Deny
          CapArgs,     \* max_pending values handed to New and Reconfigure
          PolicyArgs,  \* on_timeout values handed to New and Reconfigure
          None

(***************************************************************************)
(* types.Decision, reduced to what tells the outcomes apart.               *)
(***************************************************************************)
Effects == {"allow", "deny", "ask_user_resolved_allow",
            "ask_user_resolved_deny", "ask_user_timed_out"}

Sources == {"approval_queue", "approval_timeout", "llm_advisor"}

Reasons == {"operator", "advisor", "timeout", "shutdown", "disconnected", "full"}

Decisions == [effect : Effects, source : Sources, reason : Reasons]

Decision(effect, source, reason) ==
    [effect |-> effect, source |-> source, reason |-> reason]

OperatorDecision(effect) ==
    Decision(IF effect = "allow" THEN "ask_user_resolved_allow"
                                 ELSE "ask_user_resolved_deny",
             "approval_queue", "operator")

AdvisorDecision(effect) == Decision(effect, "llm_advisor", "advisor")

TimeoutDecision(policy) ==
    Decision(IF policy = "allow" THEN "ask_user_resolved_allow"
                                 ELSE "ask_user_timed_out",
             "approval_timeout", "timeout")

ShutdownDecision ==
    Decision("ask_user_resolved_deny", "approval_timeout", "shutdown")

Disconnected ==
    Decision("ask_user_resolved_deny", "approval_queue", "disconnected")

QueueFull == Decision("ask_user_resolved_deny", "approval_queue", "full")

\* What a hold can be decided to be, and which of it is an operator's doing.
OperatorVerdicts == {OperatorDecision("allow"), OperatorDecision("deny")}

Verdicts ==
    OperatorVerdicts
    \cup {AdvisorDecision("allow"), AdvisorDecision("deny")}
    \cup {TimeoutDecision("allow"), TimeoutDecision("deny"), ShutdownDecision}

ASSUME ConstantsAssumption ==
    /\ KeyOf \in [Requests -> Keys]
    /\ Background \subseteq Requests /\ Advised \subseteq Requests
    /\ CapArgs \subseteq Int
    /\ None \notin Requests
    /\ None \notin Decisions

(***************************************************************************)
(* The goroutines that can resolve a hold and broadcast its decision.      *)
(***************************************************************************)
OperatorThread(o) == <<"operator", o>>
AdvisorThread(h) == <<"advisor", h>>
TimerThread(r) == <<"timer", r>>

Threads == {OperatorThread(o) : o \in Operators}
           \cup {AdvisorThread(h) : h \in Requests}
           \cup {TimerThread(r) : r \in Requests}

VARIABLES
    maxPending,  \* Queue.maxPending
    onTimeout,   \* Queue.onTimeout
    items,       \* domain of Queue.items
    byKey,       \* Queue.byKey
    waiters,     \* Hold.waiters: the requests whose channel is in the slice
    resolved,    \* Hold.resolved
    pc,          \* where request r is in holdAndWait / Wait
    hold,        \* the hold id Enqueue returned to request r
    ch,          \* contents of request r's cap-1 channel
    dec,         \* the Decision Wait (or holdAndWait) returned to request r
    job,         \* what a resolving goroutine still has to do
    persisted,   \* calls of the DecisionPersist callback
    verdict      \* history: the decision of the resolver that claimed a hold

config == <<maxPending, onTimeout>>
index == <<items, byKey, waiters, resolved>>
waits == <<pc, hold, ch, dec>>
vars == <<config, index, waits, job, persisted, verdict>>

Idle == [phase |-> "idle", hold |-> None, decision |-> None, todo |-> {}]

PcValues == {"start", "enqueued", "select", "fired", "sending", "receive", "done"}

Phases == {"idle", "fired", "send", "persist"}

Jobs == [phase : Phases,
         hold : Requests \cup {None},
         decision : Decisions \cup {None},
         todo : SUBSET Requests]

-----------------------------------------------------------------------------

NewCap(arg) == IF arg <= 0 THEN 100 ELSE arg

NewPolicy(arg) == IF arg = "" THEN "deny" ELSE arg

Init ==
    /\ \E cap \in CapArgs, policy \in PolicyArgs :
          /\ maxPending = NewCap(cap)
          /\ onTimeout = NewPolicy(policy)
    /\ items = {}
    /\ byKey = [k \in Keys |-> None]
    /\ waiters = [h \in Requests |-> {}]
    /\ resolved = [h \in Requests |-> FALSE]
    /\ pc = [r \in Requests |-> "start"]
    /\ hold = [r \in Requests |-> None]
    /\ ch = [r \in Requests |-> None]
    /\ dec = [r \in Requests |-> None]
    /\ job = [t \in Threads |-> Idle]
    /\ persisted = {}
    /\ verdict = [h \in Requests |-> None]

(***************************************************************************)
(* Reconfigure ignores a non-positive cap and an unknown policy.           *)
(***************************************************************************)
Reconfigure(cap, policy) ==
    /\ maxPending' = IF cap > 0 THEN cap ELSE maxPending
    /\ onTimeout' = IF policy \in {"allow", "deny"} THEN policy ELSE onTimeout
    /\ UNCHANGED <<index, waits, job, persisted, verdict>>

-----------------------------------------------------------------------------
(***************************************************************************)
(* Enqueue: coalesce, refuse or mint, in that order.                       *)
(***************************************************************************)
CanCoalesce(k) == byKey[k] # None /\ ~resolved[byKey[k]]

Coalesce(r) ==
    /\ pc[r] = "start"
    /\ CanCoalesce(KeyOf[r])
    /\ LET h == byKey[KeyOf[r]] IN
          /\ waiters' = [waiters EXCEPT ![h] = @ \cup {r}]
          /\ hold' = [hold EXCEPT ![r] = h]
    /\ pc' = [pc EXCEPT ![r] = "enqueued"]
    /\ UNCHANGED <<config, items, byKey, resolved, ch, dec, job,
                   persisted, verdict>>

\* Mutant: the cap is checked before coalescing.
RefuseBeforeCoalesce(r) ==
    /\ pc[r] = "start"
    /\ Cardinality(items) >= maxPending
    /\ pc' = [pc EXCEPT ![r] = "done"]
    /\ dec' = [dec EXCEPT ![r] = QueueFull]
    /\ UNCHANGED <<config, index, hold, ch, job, persisted, verdict>>

RefuseFull(r) ==
    /\ pc[r] = "start"
    /\ ~CanCoalesce(KeyOf[r])
    /\ Cardinality(items) >= maxPending
    /\ pc' = [pc EXCEPT ![r] = "done"]
    /\ dec' = [dec EXCEPT ![r] = QueueFull]
    /\ UNCHANGED <<config, index, hold, ch, job, persisted, verdict>>

Mint(r) ==
    /\ pc[r] = "start"
    /\ ~CanCoalesce(KeyOf[r])
    /\ Cardinality(items) < maxPending
    /\ items' = items \cup {r}
    /\ byKey' = [byKey EXCEPT ![KeyOf[r]] = r]
    /\ waiters' = [waiters EXCEPT ![r] = {r}]
    /\ hold' = [hold EXCEPT ![r] = r]
    /\ pc' = [pc EXCEPT ![r] = "enqueued"]
    /\ UNCHANGED <<config, resolved, ch, dec, job, persisted, verdict>>

-----------------------------------------------------------------------------
\* Mutant: no at-most-once gate (before #55), any known hold can be resolved.
ClaimableAgain(h) == hold[h] = h

(***************************************************************************)
(* claim(id): the at-most-once gate of every resolver.  A losing claim     *)
(* returns nil and changes nothing.                                        *)
(***************************************************************************)
Claimable(h) == h \in items /\ ~resolved[h]

Claim(h) ==
    /\ Claimable(h)
    /\ resolved' = [resolved EXCEPT ![h] = TRUE]
    /\ items' = items \ {h}
    /\ byKey' = [byKey EXCEPT ![KeyOf[h]] = None]
    /\ UNCHANGED waiters

\* Mutant: the decision goes to the minting request only (before #206).
BroadcastToFirst(t, h, d) ==
    /\ Claim(h)
    /\ job' = [job EXCEPT ![t] = [phase |-> "send", hold |-> h,
                                  decision |-> d, todo |-> waiters[h] \cap {h}]]
    /\ verdict' = [verdict EXCEPT ![h] = d]

(***************************************************************************)
(* Goroutine t claims hold h for decision d and starts its broadcast.      *)
(***************************************************************************)
StartBroadcast(t, h, d) ==
    /\ Claim(h)
    /\ job' = [job EXCEPT ![t] = [phase |-> "send", hold |-> h,
                                  decision |-> d, todo |-> waiters[h]]]
    /\ verdict' = [verdict EXCEPT ![h] = d]

(***************************************************************************)
(* A non-blocking send: a full channel keeps what it holds.                *)
(***************************************************************************)
Sent(channel, d) == IF channel = None THEN d ELSE channel

(***************************************************************************)
(* broadcast(h, d): one send.                                              *)
(***************************************************************************)
Broadcast(t) ==
    /\ job[t].phase = "send"
    /\ \E w \in job[t].todo :
          /\ ch' = [ch EXCEPT ![w] = Sent(@, job[t].decision)]
          /\ job' = [job EXCEPT ![t].todo = @ \ {w}]
    /\ UNCHANGED <<config, index, pc, hold, dec, persisted, verdict>>

(***************************************************************************)
(* Approve and Deny: claim, broadcast, then the persistence callback.  The *)
(* id comes from an earlier Pending() snapshot and may be stale.           *)
(***************************************************************************)
Resolve(o, h, effect) ==
    /\ job[OperatorThread(o)].phase = "idle"
    /\ StartBroadcast(OperatorThread(o), h, OperatorDecision(effect))
    /\ UNCHANGED <<config, waits, persisted>>

Approve(o, h) == Resolve(o, h, "allow")

Deny(o, h) == Resolve(o, h, "deny")

OperatorSent(o) ==
    /\ job[OperatorThread(o)].phase = "send"
    /\ job[OperatorThread(o)].todo = {}
    /\ job' = [job EXCEPT ![OperatorThread(o)].phase = "persist"]
    /\ UNCHANGED <<config, index, waits, persisted, verdict>>

Persist(o) ==
    LET j == job[OperatorThread(o)] IN
    /\ j.phase = "persist"
    /\ persisted' = persisted \cup
          {[hold |-> j.hold, by |-> o,
            effect |-> IF j.decision = OperatorDecision("allow") THEN "allow"
                                                                 ELSE "deny"]}
    /\ job' = [job EXCEPT ![OperatorThread(o)] = Idle]
    /\ UNCHANGED <<config, index, waits, verdict>>

(***************************************************************************)
(* ResolveByAdvisor, called by the goroutine holdAndWait starts for a      *)
(* minted hold when the advisor answers allow or deny.  No persistence.    *)
(***************************************************************************)
ResolveByAdvisor(h, effect) ==
    /\ hold[h] = h
    /\ job[AdvisorThread(h)].phase = "idle"
    /\ StartBroadcast(AdvisorThread(h), h, AdvisorDecision(effect))
    /\ UNCHANGED <<config, waits, persisted>>

\* Mutant: the advisor's decision is persisted (before #193).
AdvisorPersists(h) ==
    /\ job[AdvisorThread(h)].phase = "send"
    /\ job[AdvisorThread(h)].todo = {}
    /\ persisted' = persisted \cup
          {[hold |-> h, by |-> o, effect |-> job[AdvisorThread(h)].decision.effect] :
             o \in Operators}
    /\ job' = [job EXCEPT ![AdvisorThread(h)] = Idle]
    /\ UNCHANGED <<config, index, waits, verdict>>

AdvisorSent(h) ==
    /\ job[AdvisorThread(h)].phase = "send"
    /\ job[AdvisorThread(h)].todo = {}
    /\ job' = [job EXCEPT ![AdvisorThread(h)] = Idle]
    /\ UNCHANGED <<config, index, waits, persisted, verdict>>

-----------------------------------------------------------------------------
(***************************************************************************)
(* Wait: arm the timer, then select over the channel, the timer and the    *)
(* request's context.                                                      *)
(***************************************************************************)
ArmTimer(r) ==
    /\ pc[r] = "enqueued"
    /\ pc' = [pc EXCEPT ![r] = "select"]
    /\ UNCHANGED <<config, index, hold, ch, dec, job, persisted, verdict>>

Receive(r) ==
    /\ pc[r] \in {"select", "receive"}
    /\ ch[r] # None
    /\ dec' = [dec EXCEPT ![r] = ch[r]]
    /\ ch' = [ch EXCEPT ![r] = None]
    /\ pc' = [pc EXCEPT ![r] = "done"]
    /\ UNCHANGED <<config, index, hold, job, persisted, verdict>>

(***************************************************************************)
(* The timer's branch reads q.onTimeout without the lock when it fires.    *)
(***************************************************************************)
TimerFire(r) ==
    /\ pc[r] = "select"
    /\ pc' = [pc EXCEPT ![r] = "fired"]
    /\ job' = [job EXCEPT ![TimerThread(r)] =
                  [phase |-> "fired", hold |-> None,
                   decision |-> TimeoutDecision(onTimeout), todo |-> {}]]
    /\ UNCHANGED <<config, index, hold, ch, dec, persisted, verdict>>

TimerWins(r) ==
    /\ pc[r] = "fired"
    /\ StartBroadcast(TimerThread(r), hold[r], job[TimerThread(r)].decision)
    /\ pc' = [pc EXCEPT ![r] = "sending"]
    /\ UNCHANGED <<config, hold, ch, dec, persisted>>

TimerLoses(r) ==
    /\ pc[r] = "fired"
    /\ ~Claimable(hold[r])
    /\ pc' = [pc EXCEPT ![r] = "receive"]
    /\ job' = [job EXCEPT ![TimerThread(r)] = Idle]
    /\ UNCHANGED <<config, index, hold, ch, dec, persisted, verdict>>

TimerReturns(r) ==
    /\ pc[r] = "sending"
    /\ job[TimerThread(r)].todo = {}
    /\ dec' = [dec EXCEPT ![r] = job[TimerThread(r)].decision]
    /\ pc' = [pc EXCEPT ![r] = "done"]
    /\ job' = [job EXCEPT ![TimerThread(r)] = Idle]
    /\ UNCHANGED <<config, index, hold, ch, persisted, verdict>>

\* Mutant: a disconnect always evicts the hold (before #208).
CancelHold(r) ==
    /\ pc[r] = "select"
    /\ r \notin Background
    /\ Claim(hold[r])
    /\ dec' = [dec EXCEPT ![r] = Disconnected]
    /\ pc' = [pc EXCEPT ![r] = "done"]
    /\ UNCHANGED <<config, hold, ch, job, persisted, verdict>>

\* Mutant: the last waiter leaves its hold in the queue.
CancelWithoutEviction(r) ==
    /\ pc[r] = "select"
    /\ r \notin Background
    /\ Claimable(hold[r])
    /\ waiters' = [waiters EXCEPT ![hold[r]] = @ \ {r}]
    /\ dec' = [dec EXCEPT ![r] = Disconnected]
    /\ pc' = [pc EXCEPT ![r] = "done"]
    /\ UNCHANGED <<config, resolved, items, byKey, hold, ch, job,
                   persisted, verdict>>

(***************************************************************************)
(* The context's branch: cancelWaiter releases r alone, and evicts the     *)
(* hold when r was its last waiter.                                        *)
(***************************************************************************)
CancelWaiter(r) ==
    /\ pc[r] = "select"
    /\ r \notin Background
    /\ Claimable(hold[r])
    /\ LET h == hold[r]
           rest == waiters[h] \ {r}
       IN /\ waiters' = [waiters EXCEPT ![h] = rest]
          /\ IF rest = {}
             THEN /\ resolved' = [resolved EXCEPT ![h] = TRUE]
                  /\ items' = items \ {h}
                  /\ byKey' = [byKey EXCEPT ![KeyOf[h]] = None]
             ELSE UNCHANGED <<resolved, items, byKey>>
    /\ dec' = [dec EXCEPT ![r] = Disconnected]
    /\ pc' = [pc EXCEPT ![r] = "done"]
    /\ UNCHANGED <<config, hold, ch, job, persisted, verdict>>

CancelTooLate(r) ==
    /\ pc[r] = "select"
    /\ r \notin Background
    /\ ~Claimable(hold[r])
    /\ pc' = [pc EXCEPT ![r] = "receive"]
    /\ UNCHANGED <<config, index, hold, ch, dec, job, persisted, verdict>>

\* Mutant: shutdown empties the maps without telling the waiters.
ShutdownSilently ==
    /\ resolved' = [h \in Requests |-> resolved[h] \/ h \in items]
    /\ items' = {}
    /\ byKey' = [k \in Keys |-> None]
    /\ UNCHANGED <<config, waiters, pc, hold, ch, dec, job, persisted, verdict>>

(***************************************************************************)
(* Shutdown resolves every hold under the lock.                            *)
(***************************************************************************)
Shutdown ==
    LET drained == {h \in items : ~resolved[h]} IN
    /\ resolved' = [h \in Requests |-> resolved[h] \/ h \in drained]
    /\ ch' = [r \in Requests |->
                 IF \E h \in drained : r \in waiters[h]
                 THEN Sent(ch[r], ShutdownDecision) ELSE ch[r]]
    /\ verdict' = [h \in Requests |->
                      IF h \in drained THEN ShutdownDecision ELSE verdict[h]]
    /\ items' = {}
    /\ byKey' = [k \in Keys |-> None]
    /\ UNCHANGED <<config, waiters, pc, hold, dec, job, persisted>>

-----------------------------------------------------------------------------

HandlerStep(r) ==
    \/ Coalesce(r) \/ RefuseFull(r) \/ Mint(r)
    \/ ArmTimer(r) \/ Receive(r)
    \/ TimerFire(r) \/ TimerWins(r) \/ TimerLoses(r) \/ TimerReturns(r)
    \/ CancelWaiter(r) \/ CancelTooLate(r)

OperatorStep(o) ==
    \/ \E h \in Requests : Approve(o, h) \/ Deny(o, h)
    \/ OperatorSent(o)
    \/ Persist(o)

AdvisorStep(h) ==
    \/ \E effect \in {"allow", "deny"} : ResolveByAdvisor(h, effect)
    \/ AdvisorSent(h)

Next ==
    \/ \E r \in Requests : HandlerStep(r)
    \/ \E o \in Operators : OperatorStep(o)
    \/ \E h \in Advised : AdvisorStep(h)
    \/ \E t \in Threads : Broadcast(t)
    \/ \E cap \in CapArgs, policy \in PolicyArgs : Reconfigure(cap, policy)
    \/ Shutdown

Spec == Init /\ [][Next]_vars

(***************************************************************************)
(* Fairness: as long as a request handler inside Wait or a resolver can go *)
(* on, one of them does; a timer that was armed fires.  Nothing is assumed *)
(* of operators, of the advisor's answer, of clients disconnecting, of     *)
(* reloads or of shutdown.                                                 *)
(***************************************************************************)
Progress ==
    \/ \E r \in Requests :
          \/ ArmTimer(r) \/ Receive(r)
          \/ TimerFire(r) \/ TimerWins(r) \/ TimerLoses(r) \/ TimerReturns(r)
    \/ \E t \in Threads : Broadcast(t)

Fairness == WF_vars(Progress)

FairSpec == Spec /\ Fairness

-----------------------------------------------------------------------------
(***************************************************************************)
(* The type invariant.                                                     *)
(***************************************************************************)
TypeOK ==
    /\ maxPending \in Int /\ maxPending > 0
    /\ onTimeout \in PolicyArgs \cup {"deny"}
    /\ items \in SUBSET Requests
    /\ IsFiniteSet(items)
    /\ byKey \in [Keys -> Requests \cup {None}]
    /\ waiters \in [Requests -> SUBSET Requests]
    /\ resolved \in [Requests -> BOOLEAN]
    /\ pc \in [Requests -> PcValues]
    /\ hold \in [Requests -> Requests \cup {None}]
    /\ ch \in [Requests -> Decisions \cup {None}]
    /\ dec \in [Requests -> Decisions \cup {None}]
    /\ job \in [Threads -> Jobs]
    /\ persisted \subseteq [hold : Requests, by : Operators, effect : {"allow", "deny"}]
    /\ verdict \in [Requests -> Decisions \cup {None}]

(***************************************************************************)
(* "Kept in lockstep with items under mu ... at most one unresolved hold   *)
(* exists per key" (queue.go): both indexes name the same unresolved       *)
(* holds, through coalescing, claims, cancellations and shutdown.          *)
(***************************************************************************)
IndexesInLockstep ==
    /\ \A h \in items : ~resolved[h] /\ byKey[KeyOf[h]] = h
    /\ \A k \in Keys : byKey[k] # None => byKey[k] \in items /\ KeyOf[byKey[k]] = k

(***************************************************************************)
(* No leaked slot: a hold that occupies a place under max_pending has a    *)
(* waiter, and each of its waiters is a handler still inside Wait that has *)
(* not been answered, so a timer of a live goroutine will free the place.  *)
(***************************************************************************)
NoLeakedSlot ==
    \A h \in items :
        /\ waiters[h] # {}
        /\ \A r \in waiters[h] :
              pc[r] \in {"enqueued", "select", "fired"} /\ hold[r] = h

(***************************************************************************)
(* A disconnect releases one waiter only (#208): a hold that was evicted   *)
(* without any decision is one whose every client disconnected.            *)
(***************************************************************************)
AbandonedOnlyWhenAllLeft ==
    \A h \in Requests :
        resolved[h] /\ verdict[h] = None
            => \A r \in Requests : hold[r] = h => dec[r] = Disconnected

(***************************************************************************)
(* No lost wakeup: a handler that lost the race to a resolver blocks on    *)
(* its channel without a timer (return <-ch), so its decision is in the    *)
(* channel already or a goroutine is still going to send it.               *)
(***************************************************************************)
NoLostWakeup ==
    \A r \in Requests :
        pc[r] = "receive" =>
            \/ ch[r] # None
            \/ \E t \in Threads : job[t].phase = "send" /\ r \in job[t].todo

(***************************************************************************)
(* One decision per hold (#206): whoever was coalesced onto the same hold  *)
(* is told the same, except those whose client had left.                   *)
(***************************************************************************)
OneAnswerPerHold ==
    \A r, q \in Requests :
        /\ hold[r] # None /\ hold[r] = hold[q]
        /\ dec[r] \notin {None, Disconnected}
        /\ dec[q] \notin {None, Disconnected}
        => dec[r] = dec[q]

(***************************************************************************)
(* The persistence callback runs at most once per hold (#55), never for    *)
(* an advisor, timeout, shutdown or disconnect outcome (#193), and with    *)
(* the effect the waiters were told.                                       *)
(***************************************************************************)
PersistedOnceByOperator ==
    \A p \in persisted :
        /\ verdict[p.hold] = OperatorDecision(p.effect)
        /\ \A q \in persisted : q.hold = p.hold => q = p

(***************************************************************************)
(* Everyone who entered the queue is answered: with runnable goroutines    *)
(* and firing timers, no order of resolvers, timeouts, disconnects and     *)
(* shutdown leaves a request blocked.                                      *)
(***************************************************************************)
Waiting == {r \in Requests : hold[r] # None /\ pc[r] # "done"}

EveryWaiterReturns == Waiting # {} ~> Waiting = {}

(***************************************************************************)
(* The queue implements the contract its callers rely on: a claim is the   *)
(* point at which a hold is decided.                                       *)
(***************************************************************************)
Contract == INSTANCE HoldContract WITH
    Left <- Disconnected,
    Refused <- QueueFull,
    cap <- maxPending,
    member <- hold,
    answer <- dec,
    recorded <- {p.hold : p \in persisted}

ImplementsContract == Contract!Spec
====
