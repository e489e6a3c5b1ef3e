-------------------------- MODULE RequestPipeline --------------------------
(***************************************************************************)
(* A request's way through the proxy (internal/server/server.go):          *)
(* handleHTTP and handleConnect, with what they share with others - the    *)
(* allow and deny lists, the rule engine, the open-mode window, the        *)
(* approval queue, the operations ring, the audit log - while lists and    *)
(* rules are reloaded, operators and the advisor decide holds, clients     *)
(* disconnect, signal timers fire and the server shuts down.               *)
(*                                                                         *)
(* The queue is the contract that ApprovalQueue implements (HoldContract). *)
(* The audit log is its Write: accepted, refused as full, refused as       *)
(* closed (AuditLogger).  Each of these reads and calls is its own step.   *)
(***************************************************************************)
EXTENDS Integers, FiniteSets, Sequences

CONSTANTS Http,         \* plain requests (handleHTTP)
          Connect,      \* CONNECT requests (handleConnect)
          Keys,         \* what lists and rules tell requests apart by
          KeyOf,        \* KeyOf[r]: identity, method and destination of r
          CapArgs,      \* values of approvals.max_pending, clamped
          Verdicts,     \* decisions that operators, the advisor and timers take
          SignalAfter,  \* requests handled with signal_after_seconds > 0
          RuleArgs,     \* rule sets that engine.Reload may load
          ListArgs,     \* [allow, deny] lists that SetLists may install
          MaxVersion,   \* bound: rule sets loaded
          MaxPresses,   \* bound: open-mode presses
          RingCap,      \* capacity of the operations ring
          None

Requests == Http \cup Connect

Effects == {"allow", "deny", "ask_user", "ask_user_resolved_allow",
            "ask_user_resolved_deny", "ask_user_timed_out", "ask_user_signaled"}

AllowEffects == {"allow", "ask_user_resolved_allow"}

Decision(effect, source) == [effect |-> effect, source |-> source]

Sources == {"rule", "allowlist", "denylist", "open_mode", "body_read_fail",
            "approval_queue", "approval_timeout", "llm_advisor"}

Decisions == [effect : Effects, source : Sources]

\* What operators, the advisor, the timers and Shutdown decide of a hold.
OperatorVerdicts == {Decision("ask_user_resolved_allow", "approval_queue"),
                     Decision("ask_user_resolved_deny", "approval_queue")}

AdvisorVerdicts == {Decision("allow", "llm_advisor"), Decision("deny", "llm_advisor")}

\* approvals.on_timeout: what the timer says of a hold that nobody decided.
TimeoutDecision(policy) ==
    Decision(IF policy = "allow" THEN "ask_user_resolved_allow" ELSE "ask_user_timed_out",
             "approval_timeout")

TimeoutVerdicts == {TimeoutDecision(policy) : policy \in {"allow", "deny"}}

ShutdownVerdict == Decision("ask_user_resolved_deny", "approval_timeout")

\* The answers of cancelWaiter and of a full queue.
Turned == Decision("ask_user_resolved_deny", "approval_queue")

ASSUME ConstantsAssumption ==
    /\ Http \cap Connect = {}
    /\ KeyOf \in [Requests -> Keys]
    /\ CapArgs \subseteq Nat \ {0}
    /\ MaxVersion \in Nat \ {0} /\ MaxPresses \in Nat
    /\ RingCap \in Nat \ {0}
    /\ Verdicts \subseteq OperatorVerdicts \cup AdvisorVerdicts \cup TimeoutVerdicts
    /\ SignalAfter \subseteq Requests
    /\ RuleArgs \subseteq [Keys -> {"allow", "deny", "ask_user"}]
    /\ ListArgs \subseteq [allow : SUBSET Keys, deny : SUBSET Keys]
    /\ None \notin Requests /\ None \notin Decisions

VARIABLES
    lists,      \* Server.allowList, Server.denyList
    rules,      \* Engine.rules with the default mode: an effect for each key
    version,    \* Engine.version
    open,       \* the open-mode window is open
    presses,    \* open-mode presses so far
    maxPending, \* how many holds may be pending (queue)
    member,     \* the hold a request joined (queue)
    verdict,    \* the decision of a hold (queue)
    answer,     \* what Queue.Wait or Enqueue told a request (queue)
    recorded,   \* holds whose verdict was persisted on the lists (queue)
    pc,         \* where the handler of r is
    inAllow,    \* what r's handler found in the allow list it read
    dec,        \* r's current decision
    wire,       \* what r's client was told
    order,      \* Ring.order
    status,     \* status of r's row in the ring
    logged,     \* r's entry in the audit log
    lost,       \* why r's audit entry was not accepted
    follow,     \* the goroutine that writes r's post-signal entry
    postLogged, \* r's post-signal entry in the audit log
    conns,      \* Server.conns: tunnels of hijacked CONNECTs
    stopper,    \* where shutdownOnContext is
    server      \* where ListenAndServe and finishServe are

policy == <<lists, rules, version, open, presses>>
queue == <<maxPending, member, verdict, answer, recorded>>
ring == <<order, status>>
audit == <<logged, lost, follow, postLogged>>
life == <<conns, stopper, server>>
handler == <<pc, inAllow, dec, wire>>
vars == <<policy, queue, ring, audit, life, handler>>

Queue == INSTANCE HoldContract WITH
    Left <- Turned,
    Refused <- Turned,
    cap <- maxPending

-----------------------------------------------------------------------------

Init ==
    /\ lists \in ListArgs
    /\ rules \in RuleArgs
    /\ version = 1
    /\ open = FALSE /\ presses = 0
    /\ maxPending \in CapArgs
    /\ member = [r \in Requests |-> None]
    /\ verdict = [h \in Requests |-> None]
    /\ answer = [r \in Requests |-> None]
    /\ recorded = {}
    /\ pc = [r \in Requests |-> "new"]
    /\ inAllow = [r \in Requests |-> FALSE]
    /\ dec = [r \in Requests |-> None]
    /\ wire = [r \in Requests |-> None]
    /\ order = <<>>
    /\ status = [r \in Requests |-> None]
    /\ logged = [r \in Requests |-> None]
    /\ lost = [r \in Requests |-> None]
    /\ follow = [r \in Requests |-> "none"]
    /\ postLogged = [r \in Requests |-> None]
    /\ conns = {}
    /\ stopper = "waiting" /\ server = "serving"

(***************************************************************************)
(* The operations ring.                                                    *)
(***************************************************************************)
\* Mutant: an evicted row comes back.
SetRowAlways(r, s) == status' = [status EXCEPT ![r] = s]

SetRow(r, s) ==
    status' = [status EXCEPT ![r] = IF @ = None THEN None ELSE s]

BeginRow(r) ==
    LET evicted == IF Len(order) >= RingCap THEN {Head(order)} ELSE {}
    IN  /\ order' = Append(IF evicted = {} THEN order ELSE Tail(order), r)
        /\ status' = [q \in Requests |-> IF q = r THEN "checking"
                                         ELSE IF q \in evicted THEN None
                                         ELSE status[q]]

(***************************************************************************)
(* The handlers, up to the decision.                                       *)
(***************************************************************************)
Goto(r, label) == pc' = [pc EXCEPT ![r] = label]

Decide(r, d) == dec' = [dec EXCEPT ![r] = d]

\* The listener hands the request to its handler; ops.Begin.
Accept(r) ==
    /\ pc[r] = "new"
    /\ server = "serving"
    /\ BeginRow(r)
    /\ Goto(r, "allow list")
    /\ UNCHANGED <<policy, queue, audit, life, inAllow, dec, wire>>

\* Mutant: the early return forgets writeAudit.
BodyFailsUnaudited(r) ==
    /\ r \in Http
    /\ pc[r] = "allow list"
    /\ Decide(r, Decision("deny", "body_read_fail"))
    /\ wire' = [wire EXCEPT ![r] = "failed"]
    /\ Goto(r, "row")
    /\ UNCHANGED <<policy, queue, ring, audit, life, inAllow>>

\* The body sample cannot be read (a CONNECT has none).
BodyFails(r) ==
    /\ r \in Http
    /\ pc[r] = "allow list"
    /\ Decide(r, Decision("deny", "body_read_fail"))
    /\ wire' = [wire EXCEPT ![r] = "failed"]
    /\ Goto(r, "audit")
    /\ UNCHANGED <<policy, queue, ring, audit, life, inAllow>>

\* fastPathDecide: AllowList() and DenyList() take listsMu one after the other.
ReadAllowList(r) ==
    /\ pc[r] = "allow list"
    /\ inAllow' = [inAllow EXCEPT ![r] = KeyOf[r] \in lists.allow]
    /\ Goto(r, "deny list")
    /\ UNCHANGED <<policy, queue, ring, audit, life, dec, wire>>

ReadDenyList(r) ==
    /\ pc[r] = "deny list"
    /\ \/ /\ KeyOf[r] \in lists.deny
          /\ Decide(r, Decision("deny", "denylist"))
          /\ Goto(r, "open mode")
       \/ /\ KeyOf[r] \notin lists.deny
          /\ inAllow[r]
          /\ Decide(r, Decision("allow", "allowlist"))
          /\ Goto(r, "open mode")
       \/ /\ KeyOf[r] \notin lists.deny
          /\ ~inAllow[r]
          /\ Goto(r, "engine")
          /\ UNCHANGED dec
    /\ inAllow' = [inAllow EXCEPT ![r] = FALSE]
    /\ UNCHANGED <<policy, queue, ring, audit, life, wire>>

EngineDecide(r) ==
    /\ pc[r] = "engine"
    /\ Decide(r, Decision(rules[KeyOf[r]], "rule"))
    /\ Goto(r, "open mode")
    /\ UNCHANGED <<policy, queue, ring, audit, life, inAllow, wire>>

CheckOpenMode(r) ==
    /\ pc[r] = "open mode"
    /\ \/ /\ open
          /\ Decide(r, Decision("allow", "open_mode"))
          /\ Goto(r, "resolved")
       \/ /\ ~open
          /\ Goto(r, IF dec[r].effect = "ask_user" THEN "enqueue" ELSE "resolved")
          /\ UNCHANGED dec
    /\ UNCHANGED <<policy, queue, ring, audit, life, inAllow, wire>>

(***************************************************************************)
(* holdAndWait.                                                            *)
(***************************************************************************)
Enqueue(r) ==
    /\ pc[r] = "enqueue"
    /\ \/ /\ Queue!Join(r) \/ Queue!Open(r)
          /\ Goto(r, "hold row")
          /\ UNCHANGED dec
       \/ /\ Queue!Refuse(r)
          /\ Decide(r, Turned)
          /\ Goto(r, "resolved")
    /\ UNCHANGED <<policy, ring, audit, life, inAllow, wire>>

\* ops.HoldPending, then Wait in the handler or in a goroutine of its own.
HoldPending(r) ==
    /\ pc[r] = "hold row"
    /\ SetRow(r, "pending")
    /\ Goto(r, IF r \in SignalAfter THEN "race" ELSE "wait")
    /\ UNCHANGED <<policy, queue, order, audit, life, inAllow, dec, wire>>

WaitReturns(r) ==
    /\ pc[r] = "wait"
    /\ Queue!Answer(r)
    /\ Decide(r, verdict[member[r]])
    /\ Goto(r, "resolved")
    /\ UNCHANGED <<policy, ring, audit, life, inAllow, wire>>

\* The client of a blocking wait disconnects.
ClientLeaves(r) ==
    /\ pc[r] = "wait"
    /\ Queue!Leave(r)
    /\ Decide(r, Turned)
    /\ Goto(r, "resolved")
    /\ UNCHANGED <<policy, ring, audit, life, inAllow, wire>>

\* Mutant: the wait is bound to the request and ends with its handler.
HandlerWaitReturns(r) ==
    /\ pc[r] = "race"
    /\ Queue!Answer(r)
    /\ UNCHANGED <<policy, ring, audit, life, handler>>

\* resolved <- s.queue.Wait(context.Background(), id, ch)
BackgroundWaitReturns(r) ==
    /\ r \in SignalAfter
    /\ pc[r] # "hold row"
    /\ Queue!Answer(r)
    /\ UNCHANGED <<policy, ring, audit, life, handler>>

\* case <-rootCtx.Done(): return <-resolved
AwaitResolved(r) ==
    /\ pc[r] = "race"
    /\ stopper # "waiting"
    /\ Goto(r, "resolution")
    /\ UNCHANGED <<policy, queue, ring, audit, life, inAllow, dec, wire>>

\* Mutant: nothing receives the decision once shutdown was seen.
TakeResolvedInSelect(r) ==
    /\ pc[r] = "race"
    /\ answer[r] # None
    /\ Decide(r, answer[r])
    /\ Goto(r, "resolved")
    /\ UNCHANGED <<policy, queue, ring, audit, life, inAllow, wire>>

TakeResolved(r) ==
    /\ pc[r] \in {"race", "resolution"}
    /\ answer[r] # None
    /\ Decide(r, answer[r])
    /\ Goto(r, "resolved")
    /\ UNCHANGED <<policy, queue, ring, audit, life, inAllow, wire>>

SignalTimerFires(r) ==
    /\ pc[r] = "race"
    /\ Decide(r, Decision("ask_user_signaled", "approval_queue"))
    /\ follow' = [follow EXCEPT ![r] = "waiting"]
    /\ Goto(r, "resolved")
    /\ UNCHANGED <<policy, queue, ring, logged, lost, postLogged, life,
                   inAllow, wire>>

(***************************************************************************)
(* From the decision to the client.                                        *)
(***************************************************************************)
\* transitionOpFromEvaluating; a refusal's answer follows it at once.  A signaled
\* request's row is left alone.
Refuse(r) ==
    /\ pc[r] = "resolved"
    /\ dec[r].effect \notin AllowEffects
    /\ IF dec[r].effect = "ask_user_signaled"
          THEN wire' = [wire EXCEPT ![r] = "471"] /\ UNCHANGED status
          ELSE wire' = [wire EXCEPT ![r] = "470"] /\ SetRow(r, "running")
    /\ Goto(r, "audit")
    /\ UNCHANGED <<policy, queue, order, audit, life, inAllow, dec>>

\* Mutant: what is not a denial is forwarded.
ForwardUnlessDenied(r) ==
    /\ pc[r] = "resolved"
    /\ dec[r].effect \notin {"deny", "ask_user_resolved_deny"}
    /\ SetRow(r, "running")
    /\ Goto(r, "forward")
    /\ UNCHANGED <<policy, queue, order, audit, life, inAllow, dec, wire>>

Forward(r) ==
    /\ pc[r] = "resolved"
    /\ dec[r].effect \in AllowEffects
    /\ SetRow(r, "running")
    /\ Goto(r, "forward")
    /\ UNCHANGED <<policy, queue, order, audit, life, inAllow, dec, wire>>

\* "origin": the response is relayed.  "failed": a bad request, no route to the
\* origin, no or a failed hijack, a client gone before its 200.
ForwardEnds(r) ==
    /\ pc[r] = "forward"
    /\ \/ wire' = [wire EXCEPT ![r] = "failed"]
       \/ r \in Http /\ wire' = [wire EXCEPT ![r] = "origin"]
    /\ Goto(r, "audit")
    /\ UNCHANGED <<policy, queue, ring, audit, life, inAllow, dec>>

OpenTunnel(r) ==
    /\ r \in Connect
    /\ pc[r] = "forward"
    /\ wire' = [wire EXCEPT ![r] = "origin"]
    /\ conns' = conns \cup {r}
    /\ Goto(r, "tunnel")
    /\ UNCHANGED <<policy, queue, ring, audit, stopper, server,
                   inAllow, dec>>

\* pipeBidir returns: a peer closed, or closeTrackedConns did.
TunnelEnds(r) ==
    /\ pc[r] = "tunnel"
    /\ Goto(r, "audit")
    /\ UNCHANGED <<policy, queue, ring, audit, life, inAllow, dec, wire>>

(***************************************************************************)
(* writeAudit: an entry that Write refuses is only warned about.  Write    *)
(* may find the buffer full at any time.                                   *)
(***************************************************************************)
Entry(d, w) == [decision |-> d, wire |-> w, version |-> version]

WriteAudit(r) ==
    /\ pc[r] = "audit"
    /\ \/ /\ server # "exited"
          /\ logged' = [logged EXCEPT ![r] = Entry(dec[r], wire[r])]
          /\ UNCHANGED lost
       \/ /\ lost' = [lost EXCEPT ![r] = IF server = "exited" THEN "closed" ELSE "full"]
          /\ UNCHANGED logged
    /\ Goto(r, "row")
    /\ UNCHANGED <<policy, queue, ring, follow, postLogged, life,
                   inAllow, dec, wire>>

\* opStatusFromAudit names the internal codes and passes the others on.
FinalStatus(w) ==
    CASE w = "470" -> "denied"
      [] w = "471" -> "signaled"
      [] OTHER -> w

\* ops.Resolve; the deferred untrackConn.
Finish(r) ==
    /\ pc[r] = "row"
    /\ SetRow(r, FinalStatus(wire[r]))
    /\ conns' = conns \ {r}
    /\ Goto(r, "done")
    /\ UNCHANGED <<policy, queue, order, audit, stopper, server,
                   inAllow, dec, wire>>

(***************************************************************************)
(* The goroutine of a signaled request: the hold's outcome or shutdown,    *)
(* whichever its select takes.                                             *)
(***************************************************************************)
PostSignalAudit(r) ==
    /\ follow[r] = "waiting"
    /\ answer[r] # None
    /\ \/ /\ server # "exited"
          /\ postLogged' = [postLogged EXCEPT ![r] = Entry(answer[r], "none")]
       \/ UNCHANGED postLogged
    /\ follow' = [follow EXCEPT ![r] = "done"]
    /\ UNCHANGED <<policy, queue, ring, logged, lost, life, handler>>

AbandonFollowUp(r) ==
    /\ follow[r] = "waiting"
    /\ stopper # "waiting"
    /\ follow' = [follow EXCEPT ![r] = "abandoned"]
    /\ UNCHANGED <<policy, queue, ring, logged, lost, postLogged, life, handler>>

(***************************************************************************)
(* Operators, the advisor and the timers decide holds; reloads and the     *)
(* open window change what is decided next.                                *)
(***************************************************************************)
DecideHold(h, d) ==
    /\ Queue!Decide({h}, d)
    /\ UNCHANGED <<policy, ring, audit, life, handler>>

\* The operator's callback in run.go writes the decision to the lists' file;
\* the reload that ends it is a SetLists.
Persist(h) ==
    /\ Queue!Record(h)
    /\ UNCHANGED <<policy, ring, audit, life, handler>>

Reconfigure(cap) ==
    /\ maxPending' = cap
    /\ UNCHANGED <<policy, member, verdict, answer, recorded, ring, audit, life, handler>>

SetLists(ls) ==
    /\ lists' = ls
    /\ UNCHANGED <<rules, version, open, presses, queue, ring, audit, life, handler>>

ReloadRules(rs) ==
    /\ version < MaxVersion
    /\ rules' = rs
    /\ version' = version + 1
    /\ UNCHANGED <<lists, open, presses, queue, ring, audit, life, handler>>

PressOpen ==
    /\ presses < MaxPresses
    /\ presses' = presses + 1
    /\ open' = TRUE
    /\ UNCHANGED <<lists, rules, version, queue, ring, audit, life, handler>>

OpenModeEnds ==
    /\ open
    /\ open' = FALSE
    /\ UNCHANGED <<lists, rules, version, presses, queue, ring, audit, life, handler>>

(***************************************************************************)
(* Shutdown.  httpSrv.Shutdown makes Serve return at once and itself waits *)
(* for the plain connections, so finishServe runs concurrently with it: it *)
(* waits up to two seconds for the tunnels, then closes the audit log.     *)
(***************************************************************************)
CancelContext ==
    /\ stopper = "waiting"
    /\ stopper' = "cancelled"
    /\ UNCHANGED <<policy, queue, ring, audit, conns, server, handler>>

SweepQueue ==
    /\ stopper = "cancelled"
    /\ Queue!Decide(Queue!Pending, ShutdownVerdict)
    /\ stopper' = "swept"
    /\ UNCHANGED <<policy, ring, audit, conns, server, handler>>

CloseListener ==
    /\ stopper = "swept"
    /\ stopper' = "draining"
    /\ server' = "returned"
    /\ UNCHANGED <<policy, queue, ring, audit, conns, handler>>

\* The connections have ended, or grace_seconds have passed.
Drained ==
    /\ stopper = "draining"
    /\ stopper' = "finished"
    /\ UNCHANGED <<policy, queue, ring, audit, conns, server, handler>>

CloseAuditLog ==
    /\ server = "returned"
    /\ server' = "exited"
    /\ UNCHANGED <<policy, queue, ring, audit, conns, stopper, handler>>

-----------------------------------------------------------------------------

HandlerStep(r) ==
    \/ Accept(r) \/ BodyFails(r)
    \/ ReadAllowList(r) \/ ReadDenyList(r) \/ EngineDecide(r) \/ CheckOpenMode(r)
    \/ Enqueue(r) \/ HoldPending(r) \/ WaitReturns(r) \/ ClientLeaves(r)
    \/ BackgroundWaitReturns(r) \/ AwaitResolved(r) \/ TakeResolved(r)
    \/ SignalTimerFires(r)
    \/ Refuse(r) \/ Forward(r) \/ ForwardEnds(r) \/ OpenTunnel(r) \/ TunnelEnds(r)
    \/ WriteAudit(r) \/ Finish(r)
    \/ PostSignalAudit(r) \/ AbandonFollowUp(r)

Environment ==
    \/ \E h \in Requests, d \in Verdicts : DecideHold(h, d)
    \/ \E h \in Requests : Persist(h)
    \/ \E cap \in CapArgs : Reconfigure(cap)
    \/ \E ls \in ListArgs : SetLists(ls)
    \/ \E rs \in RuleArgs : ReloadRules(rs)
    \/ PressOpen
    \/ OpenModeEnds

Shutdown ==
    \/ CancelContext \/ SweepQueue \/ CloseListener \/ Drained \/ CloseAuditLog

Next ==
    \/ \E r \in Requests : HandlerStep(r)
    \/ Environment
    \/ Shutdown

Spec == Init /\ [][Next]_vars

(***************************************************************************)
(* Fairness: handlers and the follow-up goroutines run, and every pending  *)
(* hold is decided by its timer at the latest (EveryWaiterReturns checks   *)
(* that of the queue).  Nothing is assumed of operators, reloads or        *)
(* shutdown, nor of the network: a client may never finish its body (the   *)
(* server limits the time of the headers only), and the transport has no   *)
(* limit on how long an origin takes to answer.                            *)
(***************************************************************************)
Fairness ==
    /\ \A r \in Connect : WF_vars(ReadAllowList(r))
    /\ \A r \in Requests :
          /\ WF_vars(ReadDenyList(r)) /\ WF_vars(EngineDecide(r)) /\ WF_vars(CheckOpenMode(r))
          /\ WF_vars(Enqueue(r)) /\ WF_vars(HoldPending(r)) /\ WF_vars(WaitReturns(r))
          /\ WF_vars(BackgroundWaitReturns(r)) /\ WF_vars(TakeResolved(r))
          /\ WF_vars(Refuse(r)) /\ WF_vars(Forward(r))
          /\ WF_vars(WriteAudit(r)) /\ WF_vars(Finish(r))
          /\ WF_vars(PostSignalAudit(r) \/ AbandonFollowUp(r))
          /\ WF_vars(\E d \in Verdicts \cap TimeoutVerdicts : DecideHold(r, d))

FairSpec == Spec /\ Fairness

-----------------------------------------------------------------------------
(***************************************************************************)
(* The type invariant.                                                     *)
(***************************************************************************)
Labels == {"new", "allow list", "deny list", "engine", "open mode", "enqueue", "hold row",
           "wait", "race", "resolution", "resolved", "forward", "tunnel", "audit", "row",
           "done"}

Wires == {"470", "471", "origin", "failed"}

Statuses == {"checking", "pending", "running", "denied", "signaled", "origin", "failed"}

AuditEntries == [decision : Decisions, wire : Wires \cup {"none"}, version : 1..MaxVersion]

\* None is none of the values that it stands beside.
ASSUME NoneAssumption ==
    None \notin Wires \cup Statuses \cup AuditEntries \cup {"closed", "full"}

TypeOK ==
    /\ lists \in ListArgs /\ rules \in RuleArgs
    /\ version \in 1..MaxVersion
    /\ open \in BOOLEAN /\ presses \in 0..MaxPresses
    /\ maxPending \in CapArgs /\ recorded \subseteq Requests
    /\ member \in [Requests -> Requests \cup {None}]
    /\ verdict \in [Requests -> Decisions \cup {None}]
    /\ answer \in [Requests -> Decisions \cup {None}]
    /\ pc \in [Requests -> Labels]
    /\ inAllow \in [Requests -> BOOLEAN]
    /\ dec \in [Requests -> Decisions \cup {None}]
    /\ wire \in [Requests -> Wires \cup {None}]
    /\ order \in Seq(Requests) /\ Len(order) <= RingCap
    /\ status \in [Requests -> Statuses \cup {None}]
    /\ logged \in [Requests -> AuditEntries \cup {None}]
    /\ lost \in [Requests -> {"closed", "full", None}]
    /\ follow \in [Requests -> {"none", "waiting", "done", "abandoned"}]
    /\ postLogged \in [Requests -> AuditEntries \cup {None}]
    /\ conns \subseteq Connect
    /\ stopper \in {"waiting", "cancelled", "swept", "draining", "finished"}
    /\ server \in {"serving", "returned", "exited"}

Forwarding(r) == pc[r] = "forward" \/ wire[r] = "origin"

(***************************************************************************)
(* A request that was held reaches the origin only on an allowing verdict  *)
(* of the hold it is in, taken by an operator, by the advisor or, where    *)
(* on_timeout allows (TimeoutDecision), by the timer, and that verdict is  *)
(* the decision its handler acts on: never by a disconnect, the sweep of a *)
(* shutdown or the signal timer, although the hold of a signaled request   *)
(* may still be approved.                                                  *)
(***************************************************************************)
HeldRequestObeysVerdict ==
    \A r \in Requests :
        member[r] # None /\ Forwarding(r) =>
            /\ verdict[member[r]] \in Verdicts
            /\ verdict[member[r]].effect \in {"allow", "ask_user_resolved_allow"}
            /\ dec[r] = verdict[member[r]]

(***************************************************************************)
(* The operations ring (opstream.go): rows are exactly the requests in     *)
(* order, an evicted row never comes back, and a request that is over      *)
(* shows its outcome (#57, #58, #71): never checking, pending or running.  *)
(***************************************************************************)
OpsRowsFollowRequests ==
    /\ \A r \in Requests : status[r] # None <=> \E i \in 1..Len(order) : order[i] = r
    /\ \A r \in Requests :
          pc[r] = "done" /\ status[r] # None => status[r] = FinalStatus(wire[r])

(***************************************************************************)
(* "MUST audit-log the decision" (DESIGN.md): on every path, early returns *)
(* included, a finished request has an entry with the decision it was      *)
(* given and the answer its client got, unless Write refused the entry;    *)
(* Write never does so because of a shutdown that has not begun.  A second *)
(* entry is written of signaled requests only (#97), and it says what the  *)
(* hold was decided to be, whoever decided it and however late.            *)
(***************************************************************************)
EveryAnswerIsAudited ==
    \A r \in Requests :
        /\ pc[r] = "done" =>
              \/ lost[r] # None
              \/ logged[r] # None /\ logged[r].decision = dec[r] /\ logged[r].wire = wire[r]
        /\ lost[r] = "closed" => stopper # "waiting"
        /\ postLogged[r] # None =>
              /\ dec[r].effect = "ask_user_signaled"
              /\ postLogged[r].decision = verdict[member[r]]

(***************************************************************************)
(* The proxy itself keeps no request waiting for ever: once the client has *)
(* sent what is read of it, the request, held or not, is handed to the     *)
(* origin or finished, its answer given, its entry offered to the log and  *)
(* its row final; and so it is once the origin's part is over.             *)
(***************************************************************************)
OnTheWire(r) ==
    \/ pc[r] \in {"new", "forward", "tunnel"}
    \/ r \in Http /\ pc[r] = "allow list"

EveryRequestIsSettled ==
    \A r \in Requests : ~OnTheWire(r) ~> pc[r] \in {"forward", "done"}

(***************************************************************************)
(* #97: the goroutine of a signaled request ends: the hold is decided even *)
(* though nobody waits for it at the wire, or shutdown abandons it.        *)
(***************************************************************************)
SignaledHoldIsFollowedUp == \A r \in SignalAfter : follow[r] = "waiting" ~> follow[r] # "waiting"
====
