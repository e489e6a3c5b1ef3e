----------------------- MODULE RequestPipelineProofs -----------------------
(***************************************************************************)
(* Proofs about RequestPipeline for any requests, keys, lists, rules and   *)
(* bounds: who is forwarded, what the operations ring shows and what the   *)
(* audit log records (internal/server/server.go, opstream.go); and, in its *)
(* last part, about the log that it writes to, AuditLogger, for any        *)
(* writers, closers, buffer sizes and overflow modes.                      *)
(***************************************************************************)
EXTENDS RequestPipeline, AuditLogger, FiniteSetTheorems, SequenceTheorems, TLAPS

Early == {"new", "allow list", "deny list", "engine", "open mode", "enqueue"}

Holding == {"hold row", "wait", "race", "resolution"}

Decided == {"resolved", "forward", "tunnel", "audit", "row", "done"}

Signaled == Decision("ask_user_signaled", "approval_queue")

(***************************************************************************)
(* The inductive invariant, for each request and for what they share.      *)
(***************************************************************************)
\* Where a handler is says what it has: a hold, a decision, an answer.
HandlerInv(r) ==
    /\ pc[r] \in Early => member[r] = None /\ answer[r] = None
    /\ pc[r] \in Early \cup Holding \cup {"resolved", "forward"} => wire[r] = None
    /\ pc[r] \in {"tunnel", "audit", "row", "done"} => wire[r] # None
    /\ pc[r] \in {"open mode"} \cup Decided => dec[r] # None
    /\ pc[r] \in Holding => member[r] # None
    /\ pc[r] = "wait" => r \notin SignalAfter
    /\ pc[r] \in {"race", "resolution"} => r \in SignalAfter
    /\ follow[r] # "none" =>
          r \in SignalAfter /\ pc[r] \in Decided /\ member[r] # None /\ dec[r] = Signaled

Allowed(r) ==
    /\ verdict[member[r]] # None /\ verdict[member[r]].effect \in AllowEffects
    /\ dec[r] = verdict[member[r]]

\* What a held request was told and does is what its hold was decided to be.
HoldInv(r) ==
    member[r] # None =>
        /\ r \in SignalAfter /\ answer[r] # None => answer[r] = verdict[member[r]]
        /\ pc[r] = "resolved" /\ dec[r].effect \in AllowEffects => Allowed(r)
        /\ Forwarding(r) => Allowed(r)

RowInv(r) ==
    /\ pc[r] = "new" => status[r] = None
    /\ pc[r] = "done" /\ status[r] # None => status[r] = FinalStatus(wire[r])

AuditInv(r) ==
    /\ pc[r] \in {"row", "done"} =>
          \/ lost[r] # None
          \/ logged[r] # None /\ logged[r].decision = dec[r] /\ logged[r].wire = wire[r]
    /\ lost[r] = "closed" => stopper # "waiting"
    /\ postLogged[r] # None =>
          follow[r] # "none" /\ postLogged[r].decision = verdict[member[r]]

RequestInv(r) == HandlerInv(r) /\ HoldInv(r) /\ RowInv(r) /\ AuditInv(r)

\* A hold is decided by those who may decide it.
VerdictInv == \A h \in Requests : verdict[h] \in Verdicts \cup {ShutdownVerdict, None}

\* The ring holds each row once, and the rows are those with a status.
RingInv ==
    /\ \A i, j \in 1..Len(order) : order[i] = order[j] => i = j
    /\ \A r \in Requests : status[r] # None <=> \E i \in 1..Len(order) : order[i] = r

\* The audit log is closed by nobody before shutdown has begun.
ShutdownInv == server # "serving" => stopper \in {"draining", "finished"}

(***************************************************************************)
(* TypeOK, in parts.                                                       *)
(***************************************************************************)
PolicyType ==
    /\ lists \in ListArgs /\ rules \in RuleArgs
    /\ version \in 1..MaxVersion
    /\ open \in BOOLEAN /\ presses \in 0..MaxPresses

QueueType ==
    /\ maxPending \in CapArgs /\ recorded \subseteq Requests
    /\ member \in [Requests -> Requests \cup {None}]
    /\ verdict \in [Requests -> Decisions \cup {None}]
    /\ answer \in [Requests -> Decisions \cup {None}]

HandlerType ==
    /\ pc \in [Requests -> Labels]
    /\ inAllow \in [Requests -> BOOLEAN]
    /\ dec \in [Requests -> Decisions \cup {None}]
    /\ wire \in [Requests -> Wires \cup {None}]

RingType ==
    /\ order \in Seq(Requests) /\ Len(order) <= RingCap
    /\ status \in [Requests -> Statuses \cup {None}]

AuditType ==
    /\ logged \in [Requests -> AuditEntries \cup {None}]
    /\ lost \in [Requests -> {"closed", "full", None}]
    /\ follow \in [Requests -> {"none", "waiting", "done", "abandoned"}]
    /\ postLogged \in [Requests -> AuditEntries \cup {None}]

LifeType ==
    /\ conns \subseteq Connect
    /\ stopper \in {"waiting", "cancelled", "swept", "draining", "finished"}
    /\ server \in {"serving", "returned", "exited"}

Types == PolicyType /\ QueueType /\ HandlerType /\ RingType /\ AuditType /\ LifeType

IInv == Types /\ RingInv /\ ShutdownInv /\ \A r \in Requests : RequestInv(r)

-----------------------------------------------------------------------------
(***************************************************************************)
(* Type correctness.                                                       *)
(***************************************************************************)
LEMMA TypedDecisions ==
    /\ OperatorVerdicts \cup AdvisorVerdicts \subseteq Decisions
    /\ TimeoutVerdicts \subseteq Decisions /\ ShutdownVerdict \in Decisions
    /\ Turned \in Decisions /\ Signaled \in Decisions
    /\ \A e \in Effects, src \in Sources : Decision(e, src) \in Decisions
BY DEF OperatorVerdicts, AdvisorVerdicts, TimeoutVerdicts, TimeoutDecision, ShutdownVerdict,
       Turned, Signaled, Decisions, Decision, Effects, Sources

LEMMA TypedVerdicts == Verdicts \subseteq Decisions
BY ConstantsAssumption, TypedDecisions

LEMMA InitTypes == Init => Types
<1> SUFFICES ASSUME Init PROVE Types
  OBVIOUS
<1>1. PolicyType
  <2>1. MaxVersion \in Nat \ {0} /\ MaxPresses \in Nat
    BY ConstantsAssumption
  <2>2. version \in 1..MaxVersion /\ presses \in 0..MaxPresses
    BY <2>1 DEF Init
  <2>3. lists \in ListArgs /\ rules \in RuleArgs /\ open \in BOOLEAN
    BY DEF Init
  <2> QED
    BY <2>2, <2>3 DEF PolicyType
<1>2. QueueType /\ HandlerType
  BY DEF Init, QueueType, HandlerType, Labels
<1>3. RingType
  BY ConstantsAssumption, EmptySeq DEF Init, RingType
<1>4. AuditType /\ LifeType
  BY DEF Init, AuditType, LifeType
<1> QED
  BY <1>1, <1>2, <1>3, <1>4 DEF Types

LEMMA TypeOfInAllow ==
    ASSUME inAllow \in [Requests -> BOOLEAN], NEW r \in Requests, ReadAllowList(r)
    PROVE  inAllow' \in [Requests -> BOOLEAN]
<1>1. inAllow' = [inAllow EXCEPT ![r] = KeyOf[r] \in lists.allow]
  BY DEF ReadAllowList
<1> QED
  BY <1>1

\* Steps of a handler that change neither the queue nor the ring.
LEMMA TypeOfDeciding ==
    ASSUME Types, NEW r \in Requests,
           \/ BodyFails(r) \/ ReadAllowList(r) \/ ReadDenyList(r) \/ EngineDecide(r)
           \/ CheckOpenMode(r)
    PROVE  Types'
<1>1. HandlerType /\ UNCHANGED <<policy, queue, ring, audit, life>>
  BY DEF Types, BodyFails, ReadAllowList, ReadDenyList, EngineDecide, CheckOpenMode
<1>2. HandlerType'
  <2> USE <1>1, TypedDecisions DEF HandlerType, Decide, Goto, Labels, Effects, Sources
  <2>1. CASE BodyFails(r)
    BY <2>1 DEF BodyFails, Wires
  <2>2. CASE ReadAllowList(r)
    <3>1. /\ pc' = [pc EXCEPT ![r] = "deny list"] /\ UNCHANGED <<dec, wire>>
          /\ inAllow' = [inAllow EXCEPT ![r] = KeyOf[r] \in lists.allow]
      BY <2>2 DEF ReadAllowList
    <3>2. inAllow' \in [Requests -> BOOLEAN]
      BY <1>1, <2>2, TypeOfInAllow DEF HandlerType
    <3> QED
      BY <3>1, <3>2
  <2>3. CASE ReadDenyList(r)
    BY <2>3 DEF ReadDenyList
  <2>4. CASE EngineDecide(r)
    <3>1. rules[KeyOf[r]] \in Effects
      <4>1. rules \in [Keys -> {"allow", "deny", "ask_user"}] /\ KeyOf[r] \in Keys
        BY ConstantsAssumption DEF Types, PolicyType
      <4> QED
        BY <4>1
    <3> QED
      BY <2>4, <3>1 DEF EngineDecide
  <2>5. CASE CheckOpenMode(r)
    BY <2>5 DEF CheckOpenMode
  <2> QED
    BY <2>1, <2>2, <2>3, <2>4, <2>5
<1> QED
  BY <1>1, <1>2 DEF Types, PolicyType, QueueType, RingType, AuditType, LifeType,
                    policy, queue, ring, audit, life

\* What BeginRow makes of the ring: the new row comes last, the oldest one goes
\* when the ring is full.
LEMMA RingAfterBegin ==
    ASSUME RingType, NEW r \in Requests, BeginRow(r)
    PROVE  /\ RingType'
           /\ \/ /\ Len(order) < RingCap
                 /\ order' = Append(order, r)
                 /\ \A q \in Requests : status'[q] = IF q = r THEN "checking" ELSE status[q]
              \/ /\ Len(order) >= RingCap /\ order # <<>>
                 /\ order' = Append(Tail(order), r)
                 /\ \A q \in Requests :
                       status'[q] = IF q = r THEN "checking"
                                    ELSE IF q = Head(order) THEN None ELSE status[q]
<1>1. order \in Seq(Requests) /\ Len(order) \in Nat /\ Len(order) <= RingCap /\ RingCap \in Nat \ {0}
  BY ConstantsAssumption, LenProperties DEF RingType
<1>2. status' \in [Requests -> Statuses \cup {None}]
  BY DEF RingType, BeginRow, Statuses
<1>3. CASE Len(order) < RingCap
  <2>1. order' = Append(order, r)
    BY <1>1, <1>3 DEF BeginRow
  <2>2. order' \in Seq(Requests) /\ Len(order') = Len(order) + 1
    BY <1>1, <2>1, AppendProperties
  <2>3. \A q \in Requests : status'[q] = IF q = r THEN "checking" ELSE status[q]
    BY <1>1, <1>3 DEF BeginRow
  <2>4. Len(order') <= RingCap
    BY <1>1, <1>3, <2>2
  <2> QED
    BY <1>2, <1>3, <2>1, <2>2, <2>3, <2>4 DEF RingType
<1>4. CASE Len(order) >= RingCap
  <2>1. order # <<>>
    BY <1>1, <1>4, EmptySeq
  <2>2. order' = Append(Tail(order), r)
    BY <1>4 DEF BeginRow
  <2>3. Tail(order) \in Seq(Requests) /\ Len(Tail(order)) = Len(order) - 1
    BY <1>1, <2>1, HeadTailProperties
  <2>4. order' \in Seq(Requests) /\ Len(order') = Len(Tail(order)) + 1
    BY <2>2, <2>3, AppendProperties
  <2>5. Len(order') <= RingCap
    BY <1>1, <2>3, <2>4
  <2>6. \A q \in Requests : status'[q] = IF q = r THEN "checking"
                                         ELSE IF q = Head(order) THEN None ELSE status[q]
    BY <1>4 DEF BeginRow
  <2> QED
    BY <1>2, <1>4, <2>1, <2>2, <2>4, <2>5, <2>6 DEF RingType
<1> QED
  BY <1>1, <1>3, <1>4

LEMMA TypeOfSetRow ==
    ASSUME RingType, NEW r \in Requests, NEW s \in Statuses, SetRow(r, s), order' = order
    PROVE  /\ RingType'
           /\ \A q \in Requests :
                 status'[q] = IF q = r /\ status[r] # None THEN s ELSE status[q]
BY DEF RingType, SetRow

LEMMA TypeOfAccept ==
    ASSUME Types, NEW r \in Requests, Accept(r)
    PROVE  Types'
<1>1. HandlerType /\ RingType /\ UNCHANGED <<policy, queue, audit, life>>
  BY DEF Types, Accept
<1>2. RingType'
  BY <1>1, RingAfterBegin DEF Accept
<1>3. HandlerType'
  BY <1>1 DEF HandlerType, Accept, Goto, Labels
<1> QED
  BY <1>1, <1>2, <1>3 DEF Types, PolicyType, QueueType, AuditType, LifeType,
                          policy, queue, audit, life

LEMMA TypeOfHolding ==
    ASSUME Types, NEW r \in Requests,
           \/ Enqueue(r) \/ WaitReturns(r) \/ ClientLeaves(r) \/ BackgroundWaitReturns(r)
           \/ AwaitResolved(r) \/ TakeResolved(r)
    PROVE  Types'
<1>1. HandlerType /\ QueueType /\ UNCHANGED <<policy, ring, audit, life>>
  BY DEF Types, Enqueue, WaitReturns, ClientLeaves, BackgroundWaitReturns, AwaitResolved,
         TakeResolved
<1>2. QueueType'
  <2> USE <1>1, TypedDecisions DEF QueueType
  <2>1. CASE Enqueue(r)
    <3>1. CASE Queue!Join(r)
      BY <3>1 DEF Queue!Join, Queue!PendingFor, Queue!Pending
    <3>2. CASE Queue!Open(r)
      BY <3>2 DEF Queue!Open
    <3>3. CASE Queue!Refuse(r)
      BY <3>3 DEF Queue!Refuse
    <3> QED
      BY <2>1, <3>1, <3>2, <3>3 DEF Enqueue
  <2>2. CASE WaitReturns(r) \/ BackgroundWaitReturns(r)
    BY <2>2 DEF WaitReturns, BackgroundWaitReturns, Queue!Answer
  <2>3. CASE ClientLeaves(r)
    BY <2>3 DEF ClientLeaves, Queue!Leave
  <2>4. CASE AwaitResolved(r) \/ TakeResolved(r)
    BY <2>4 DEF AwaitResolved, TakeResolved, queue
  <2> QED
    BY <2>1, <2>2, <2>3, <2>4
<1>3. HandlerType'
  <2> USE <1>1, TypedDecisions DEF HandlerType, Goto, Decide, Labels
  <2>1. CASE Enqueue(r)
    BY <2>1 DEF Enqueue
  <2>2. CASE WaitReturns(r)
    BY <2>2 DEF WaitReturns, Queue!Answer, QueueType
  <2>3. CASE ClientLeaves(r)
    BY <2>3 DEF ClientLeaves
  <2>4. CASE BackgroundWaitReturns(r)
    BY <2>4 DEF BackgroundWaitReturns, handler
  <2>5. CASE AwaitResolved(r) \/ TakeResolved(r)
    BY <2>5 DEF AwaitResolved, TakeResolved, QueueType
  <2> QED
    BY <2>1, <2>2, <2>3, <2>4, <2>5
<1> QED
  BY <1>1, <1>2, <1>3 DEF Types, PolicyType, RingType, AuditType, LifeType,
                          policy, ring, audit, life

LEMMA TypeOfFinalStatus == \A w \in Wires : FinalStatus(w) \in Statuses
BY DEF Wires, FinalStatus, Statuses

\* Steps of a handler that change the row of its request.
LEMMA TypeOfRows ==
    ASSUME Types, NEW r \in Requests, pc[r] = "row" => wire[r] # None,
           \/ HoldPending(r) \/ Refuse(r) \/ Forward(r) \/ Finish(r)
    PROVE  Types'
<1>1. /\ HandlerType /\ RingType /\ LifeType
      /\ UNCHANGED <<policy, queue, audit, stopper, server, order>>
  BY DEF Types, HoldPending, Refuse, Forward, Finish, life
<1>2. RingType'
  <2>1. CASE \E s \in Statuses : SetRow(r, s)
    BY <1>1, <2>1, TypeOfSetRow
  <2>2. CASE UNCHANGED status
    BY <1>1, <2>2 DEF RingType
  <2>3. {"pending", "running"} \subseteq Statuses
    BY DEF Statuses
  <2>4. Finish(r) => FinalStatus(wire[r]) \in Statuses
    BY <1>1, TypeOfFinalStatus DEF Finish, HandlerType
  <2> QED
    BY <2>1, <2>2, <2>3, <2>4 DEF HoldPending, Refuse, Forward, Finish
<1>3. HandlerType'
  BY <1>1 DEF HandlerType, HoldPending, Refuse, Forward, Finish, Goto, Labels, Wires
<1>4. LifeType'
  BY <1>1 DEF LifeType, HoldPending, Refuse, Forward, Finish, life
<1> QED
  BY <1>1, <1>2, <1>3, <1>4 DEF Types, PolicyType, QueueType, AuditType, policy, queue, audit

\* Steps from the decision to the end that leave the row alone.
LEMMA TypeOfServing ==
    ASSUME Types, NEW r \in Requests,
           \/ SignalTimerFires(r) \/ ForwardEnds(r) \/ OpenTunnel(r) \/ TunnelEnds(r)
    PROVE  Types'
<1>1. HandlerType /\ LifeType /\ AuditType /\ UNCHANGED <<policy, queue, ring, stopper, server>>
  BY DEF Types, SignalTimerFires, ForwardEnds, OpenTunnel, TunnelEnds, life
<1>2. HandlerType'
  BY <1>1, TypedDecisions DEF HandlerType, SignalTimerFires, ForwardEnds, OpenTunnel, TunnelEnds,
                              Goto, Decide, Signaled, Labels, Wires
<1>3. LifeType'
  BY <1>1 DEF LifeType, SignalTimerFires, ForwardEnds, OpenTunnel, TunnelEnds, life
<1>4. AuditType'
  BY <1>1 DEF AuditType, SignalTimerFires, ForwardEnds, OpenTunnel, TunnelEnds, audit
<1> QED
  BY <1>1, <1>2, <1>3, <1>4 DEF Types, PolicyType, QueueType, RingType, policy, queue, ring

LEMMA TypeOfEntry ==
    ASSUME PolicyType, NEW d \in Decisions, NEW w \in Wires \cup {"none"}
    PROVE  Entry(d, w) \in AuditEntries /\ Entry(d, w).decision = d /\ Entry(d, w).wire = w
BY DEF PolicyType, Entry, AuditEntries

LEMMA TypeOfAudit ==
    ASSUME Types, NEW r \in Requests, pc[r] = "audit" => dec[r] # None /\ wire[r] # None,
           WriteAudit(r) \/ PostSignalAudit(r) \/ AbandonFollowUp(r)
    PROVE  Types'
<1>1. /\ PolicyType /\ HandlerType /\ QueueType /\ AuditType
      /\ UNCHANGED <<policy, queue, ring, life>>
  BY DEF Types, WriteAudit, PostSignalAudit, AbandonFollowUp
<1>2. AuditType'
  <2>1. CASE WriteAudit(r)
    <3>1. dec[r] \in Decisions /\ wire[r] \in Wires
      BY <1>1, <2>1 DEF WriteAudit, HandlerType
    <3>2. Entry(dec[r], wire[r]) \in AuditEntries
      BY <1>1, <3>1, TypeOfEntry
    <3> QED
      BY <1>1, <2>1, <3>2 DEF WriteAudit, AuditType
  <2>2. CASE PostSignalAudit(r)
    <3>1. answer[r] \in Decisions
      BY <1>1, <2>2 DEF PostSignalAudit, QueueType
    <3>2. Entry(answer[r], "none") \in AuditEntries
      BY <1>1, <3>1, TypeOfEntry
    <3> QED
      BY <1>1, <2>2, <3>2 DEF PostSignalAudit, AuditType
  <2>3. CASE AbandonFollowUp(r)
    BY <1>1, <2>3 DEF AbandonFollowUp, AuditType
  <2> QED
    BY <2>1, <2>2, <2>3
<1>3. HandlerType'
  BY <1>1 DEF HandlerType, WriteAudit, PostSignalAudit, AbandonFollowUp, Goto, Labels, handler
<1> QED
  BY <1>1, <1>2, <1>3 DEF Types, PolicyType, QueueType, RingType, LifeType,
                          policy, queue, ring, life

LEMMA TypeOfEnvironment ==
    ASSUME Types, Environment
    PROVE  Types'
<1>1. PolicyType /\ QueueType /\ UNCHANGED <<ring, audit, life, handler>>
  BY DEF Types, Environment, DecideHold, Persist, Reconfigure, SetLists, ReloadRules, PressOpen,
         OpenModeEnds
<1>2. QueueType'
  <2> USE <1>1 DEF QueueType
  <2>1. CASE \E h \in Requests, d \in Verdicts : DecideHold(h, d)
    BY <2>1, TypedVerdicts DEF DecideHold, Queue!Decide
  <2>2. CASE \E h \in Requests : Persist(h)
    BY <2>2 DEF Persist, Queue!Record
  <2>3. CASE \E cap \in CapArgs : Reconfigure(cap)
    BY <2>3 DEF Reconfigure
  <2>4. CASE UNCHANGED queue
    BY <2>4 DEF queue
  <2> QED
    BY <2>1, <2>2, <2>3, <2>4 DEF Environment, SetLists, ReloadRules, PressOpen, OpenModeEnds
<1>3. PolicyType'
  <2>1. MaxVersion \in Nat /\ MaxPresses \in Nat
    BY ConstantsAssumption
  <2>2. CASE \E rs \in RuleArgs : ReloadRules(rs)
    BY <1>1, <2>1, <2>2 DEF PolicyType, ReloadRules
  <2>3. CASE PressOpen
    BY <1>1, <2>1, <2>3 DEF PolicyType, PressOpen
  <2>4. CASE OpenModeEnds \/ \E ls \in ListArgs : SetLists(ls)
    BY <1>1, <2>4 DEF PolicyType, OpenModeEnds, SetLists
  <2>5. CASE UNCHANGED policy
    BY <1>1, <2>5 DEF PolicyType, policy
  <2> QED
    BY <2>2, <2>3, <2>4, <2>5 DEF Environment, DecideHold, Persist, Reconfigure
<1> QED
  BY <1>1, <1>2, <1>3 DEF Types, RingType, AuditType, LifeType, HandlerType,
                          ring, audit, life, handler

LEMMA TypeOfShutdown ==
    ASSUME Types, Shutdown
    PROVE  Types'
<1>1. /\ QueueType /\ LifeType
      /\ UNCHANGED <<policy, ring, audit, conns, handler>>
  BY DEF Types, Shutdown, CancelContext, SweepQueue, CloseListener, Drained, CloseAuditLog
<1>2. QueueType'
  <2>1. CASE SweepQueue
    BY <1>1, <2>1, TypedDecisions DEF QueueType, SweepQueue, Queue!Decide
  <2>2. CASE UNCHANGED queue
    BY <1>1, <2>2 DEF QueueType, queue
  <2> QED
    BY <2>1, <2>2 DEF Shutdown, CancelContext, CloseListener, Drained, CloseAuditLog
<1>3. LifeType'
  BY <1>1 DEF LifeType, Shutdown, CancelContext, SweepQueue, CloseListener, Drained, CloseAuditLog
<1> QED
  BY <1>1, <1>2, <1>3 DEF Types, PolicyType, RingType, AuditType, HandlerType,
                          policy, ring, audit, handler

LEMMA TypesHold ==
    ASSUME IInv, [Next]_vars
    PROVE  Types'
<1>1. /\ Types
      /\ \A r \in Requests :
            /\ pc[r] = "row" => wire[r] # None
            /\ pc[r] = "audit" => dec[r] # None /\ wire[r] # None
  BY DEF IInv, RequestInv, HandlerInv, Decided
<1>2. ASSUME NEW r \in Requests, HandlerStep(r)
      PROVE  Types'
  BY <1>1, <1>2, TypeOfDeciding, TypeOfAccept, TypeOfHolding, TypeOfRows, TypeOfServing,
     TypeOfAudit DEF HandlerStep
<1>3. CASE UNCHANGED vars
  BY <1>1, <1>3 DEF Types, PolicyType, QueueType, HandlerType, RingType, AuditType, LifeType,
                    vars, policy, queue, handler, ring, audit, life
<1> QED
  BY <1>1, <1>2, <1>3, TypeOfEnvironment, TypeOfShutdown DEF Next

-----------------------------------------------------------------------------
(***************************************************************************)
(* What a step does to one request, and what it leaves alone.              *)
(***************************************************************************)
\* Nothing of request s itself is changed.
SameAt(s) ==
    /\ pc'[s] = pc[s] /\ dec'[s] = dec[s] /\ wire'[s] = wire[s]
    /\ member'[s] = member[s] /\ answer'[s] = answer[s]
    /\ logged'[s] = logged[s] /\ lost'[s] = lost[s]
    /\ follow'[s] = follow[s] /\ postLogged'[s] = postLogged[s]

\* A verdict is not changed, and shutdown is not taken back.
Forwards ==
    /\ \A h \in Requests : verdict[h] # None => verdict'[h] = verdict[h]
    /\ stopper # "waiting" => stopper' # "waiting"

\* Others decide the hold, evict the row or shut the server down.
LEMMA OthersKeep ==
    ASSUME Types, NEW s \in Requests, RequestInv(s), SameAt(s), Forwards,
           status'[s] \in {status[s], None}
    PROVE  RequestInv(s)'
<1>1. /\ member[s] \in Requests \cup {None}
      /\ postLogged[s] # None => postLogged[s].decision \in Decisions
  <2>1. postLogged[s] \in AuditEntries \cup {None} /\ member[s] \in Requests \cup {None}
    BY DEF Types, QueueType, AuditType
  <2> QED
    BY <2>1 DEF AuditEntries
<1>2. None \notin Decisions /\ None \notin Requests
  BY ConstantsAssumption
<1>3. HandlerInv(s)'
  BY DEF RequestInv, HandlerInv, SameAt
<1>4. HoldInv(s)'
  <2> SUFFICES ASSUME member[s] # None PROVE HoldInv(s)'
    BY DEF HoldInv, SameAt
  <2>1. Allowed(s) => Allowed(s)'
    BY <1>1 DEF Allowed, SameAt, Forwards
  <2>2. s \in SignalAfter /\ answer[s] # None => answer[s] = verdict'[member[s]]
    BY <1>1 DEF RequestInv, HoldInv, Forwards
  <2> QED
    BY <2>1, <2>2 DEF RequestInv, HoldInv, SameAt, Forwarding
<1>5. RowInv(s)'
  BY DEF RequestInv, RowInv, SameAt
<1>6. AuditInv(s)'
  <2>1. postLogged[s] # None =>
            follow[s] # "none" /\ postLogged[s].decision = verdict'[member[s]]
    <3> SUFFICES ASSUME postLogged[s] # None
                 PROVE  follow[s] # "none" /\ postLogged[s].decision = verdict'[member[s]]
      OBVIOUS
    <3>1. follow[s] # "none" /\ postLogged[s].decision = verdict[member[s]] /\ member[s] # None
      BY DEF RequestInv, AuditInv, HandlerInv
    <3> QED
      BY <1>1, <1>2, <3>1 DEF Forwards
  <2> QED
    BY <2>1 DEF RequestInv, AuditInv, SameAt, Forwards
<1> QED
  BY <1>3, <1>4, <1>5, <1>6 DEF RequestInv

LEMMA NoneApart ==
    /\ None \notin Wires /\ None \notin Statuses /\ None \notin AuditEntries
    /\ None \notin {"closed", "full"} /\ None \notin Decisions /\ None \notin Requests
BY ConstantsAssumption, NoneAssumption

\* The values of one request, before and after a step.
LEMMA ValuesOf ==
    ASSUME Types, NEW r \in Requests
    PROVE  /\ pc[r] \in Labels /\ dec[r] \in Decisions \cup {None} /\ wire[r] \in Wires \cup {None}
           /\ member[r] \in Requests \cup {None} /\ answer[r] \in Decisions \cup {None}
           /\ status[r] \in Statuses \cup {None}
           /\ DOMAIN pc = Requests /\ DOMAIN dec = Requests /\ DOMAIN wire = Requests
           /\ DOMAIN member = Requests /\ DOMAIN answer = Requests /\ DOMAIN verdict = Requests
           /\ DOMAIN status = Requests /\ DOMAIN logged = Requests /\ DOMAIN lost = Requests
           /\ DOMAIN follow = Requests /\ DOMAIN postLogged = Requests
BY DEF Types, QueueType, HandlerType, RingType, AuditType

\* Up to the decision: no hold, no answer, no entry.
LEMMA DecidingKeeps ==
    ASSUME Types, NEW r \in Requests, RequestInv(r),
           \/ Accept(r) \/ BodyFails(r) \/ ReadAllowList(r) \/ ReadDenyList(r)
           \/ EngineDecide(r) \/ CheckOpenMode(r)
    PROVE  RequestInv(r)'
<1>1. /\ pc[r] \in Early /\ member[r] = None /\ wire[r] = None /\ follow[r] = "none"
      /\ postLogged[r] = None
      /\ UNCHANGED <<policy, queue, audit, life>>
  BY ValuesOf DEF RequestInv, HandlerInv, AuditInv, Accept, BodyFails, ReadAllowList, ReadDenyList,
         EngineDecide, CheckOpenMode, Early, Decided
<1>2. UNCHANGED <<member, answer, verdict, logged, lost, follow, postLogged, stopper>>
  BY <1>1 DEF queue, audit, life
<1>3. HandlerInv(r)'
  <2>2. CASE BodyFails(r)
    <3>1. pc'[r] = "audit" /\ wire'[r] = "failed" /\ dec'[r] = Decision("deny", "body_read_fail")
      BY <2>2, ValuesOf DEF BodyFails, Goto, Decide
    <3>2. wire'[r] # None /\ dec'[r] # None
      BY <3>1, NoneApart, TypedDecisions DEF Wires, Effects, Sources
    <3> QED
      BY <1>1, <1>2, <3>1, <3>2 DEF HandlerInv, Early, Holding, Decided
  <2>3. CASE ~BodyFails(r)
    <3>1. wire'[r] = None
      BY <1>1, <2>3 DEF Accept, ReadAllowList, ReadDenyList, EngineDecide, CheckOpenMode
    <3>2. pc'[r] \in Early \cup {"resolved"}
      BY <2>3, ValuesOf DEF Accept, ReadAllowList, ReadDenyList, EngineDecide, CheckOpenMode, Goto,
                            Early
    <3>3. pc'[r] \in {"open mode", "resolved"} => dec'[r] # None
      <4>1. Decision("deny", "denylist") # None /\ Decision("allow", "allowlist") # None
            /\ Decision("allow", "open_mode") # None
        BY NoneApart, TypedDecisions DEF Effects, Sources
      <4>2. Decision(rules[KeyOf[r]], "rule") # None
        <5>1. rules \in [Keys -> {"allow", "deny", "ask_user"}] /\ KeyOf[r] \in Keys
          BY ConstantsAssumption DEF Types, PolicyType
        <5>2. rules[KeyOf[r]] \in Effects
          BY <5>1 DEF Effects
        <5> QED
          BY <5>2, NoneApart, TypedDecisions DEF Sources
      <4>3. pc[r] = "open mode" => dec[r] # None
        BY DEF RequestInv, HandlerInv
      <4> QED
        BY <2>3, <4>1, <4>2, <4>3, ValuesOf DEF Accept, ReadAllowList, ReadDenyList, EngineDecide,
                                          CheckOpenMode, Goto, Decide
    <3>4. answer[r] = None
      BY <1>1 DEF RequestInv, HandlerInv
    <3> QED
      BY <1>1, <1>2, <3>1, <3>2, <3>3, <3>4 DEF HandlerInv, Early, Holding, Decided
  <2> QED
    BY <2>2, <2>3
<1>4. HoldInv(r)'
  BY <1>1, <1>2 DEF HoldInv
<1>5. RowInv(r)'
  BY ValuesOf DEF RowInv, Accept, BodyFails, ReadAllowList, ReadDenyList, EngineDecide, CheckOpenMode,
                  Goto
<1>6. AuditInv(r)'
  <2>1. pc'[r] \notin {"row", "done"}
    BY ValuesOf DEF Accept, BodyFails, ReadAllowList, ReadDenyList, EngineDecide, CheckOpenMode, Goto
  <2> QED
    BY <1>1, <1>2, <2>1 DEF RequestInv, AuditInv
<1> QED
  BY <1>3, <1>4, <1>5, <1>6 DEF RequestInv

\* In the queue: the hold's answer becomes the decision.
LEMMA HoldingKeeps ==
    ASSUME Types, NEW r \in Requests, RequestInv(r),
           \/ Enqueue(r) \/ HoldPending(r) \/ WaitReturns(r) \/ ClientLeaves(r)
           \/ BackgroundWaitReturns(r) \/ AwaitResolved(r) \/ TakeResolved(r)
    PROVE  RequestInv(r)'
<1>0. UNCHANGED <<policy, audit, life, wire, verdict>>
  BY DEF Enqueue, HoldPending, WaitReturns, ClientLeaves, BackgroundWaitReturns, AwaitResolved,
         TakeResolved, Queue!Join, Queue!Open, Queue!Refuse, Queue!Answer, Queue!Leave, queue, handler
<1>1. UNCHANGED <<logged, lost, follow, postLogged, stopper>>
  BY <1>0 DEF audit, life
<1>2. Turned \in Decisions /\ Turned # None /\ Turned.effect \notin AllowEffects
  BY TypedDecisions, NoneApart DEF Turned, Decision, AllowEffects
<1>3. CASE Enqueue(r)
  <2>1. /\ pc[r] = "enqueue" /\ member[r] = None /\ answer[r] = None /\ wire[r] = None
        /\ follow[r] = "none" /\ postLogged[r] = None
    BY <1>3 DEF Enqueue, RequestInv, HandlerInv, AuditInv, Early, Decided
  <2>2. \/ /\ pc'[r] = "hold row" /\ member'[r] # None /\ answer'[r] = None
        \/ /\ pc'[r] = "resolved" /\ member'[r] = None /\ dec'[r] = Turned
    <3>1. CASE Queue!Join(r) /\ Goto(r, "hold row")
      BY <2>1, <3>1, ValuesOf, NoneApart DEF Queue!Join, Queue!PendingFor, Queue!Pending, Goto
    <3>2. CASE Queue!Open(r) /\ Goto(r, "hold row")
      BY <2>1, <3>2, ValuesOf, NoneApart DEF Queue!Open, Goto
    <3>3. CASE Queue!Refuse(r) /\ Decide(r, Turned) /\ Goto(r, "resolved")
      BY <2>1, <3>3, ValuesOf DEF Queue!Refuse, Goto, Decide
    <3> QED
      BY <1>3, <3>1, <3>2, <3>3 DEF Enqueue
  <2>3. wire'[r] = None /\ follow'[r] = "none" /\ postLogged'[r] = None
    BY <1>0, <1>1, <2>1
  <2>4. HandlerInv(r)'
    BY <1>2, <2>2, <2>3 DEF HandlerInv, Early, Holding, Decided
  <2>5. HoldInv(r)'
    BY <2>2, <2>3, NoneApart DEF HoldInv, Forwarding, Wires
  <2>6. RowInv(r)' /\ AuditInv(r)'
    BY <1>1, <2>2, <2>3 DEF RowInv, AuditInv, RequestInv
  <2> QED
    BY <2>4, <2>5, <2>6 DEF RequestInv
<1>4. CASE HoldPending(r) \/ AwaitResolved(r)
  <2>1. /\ pc[r] \in {"hold row", "race"} /\ UNCHANGED queue /\ dec'[r] = dec[r]
        /\ pc'[r] = IF pc[r] = "race" THEN "resolution"
                                     ELSE IF r \in SignalAfter THEN "race" ELSE "wait"
    BY <1>4, ValuesOf DEF HoldPending, AwaitResolved, Goto
  <2>2. UNCHANGED <<member, answer>>
    BY <2>1 DEF queue
  <2>3. HandlerInv(r)'
    BY <1>0, <1>1, <2>1, <2>2 DEF RequestInv, HandlerInv, Early, Holding, Decided
  <2>4. HoldInv(r)'
    BY <1>0, <2>1, <2>2 DEF RequestInv, HoldInv, Forwarding, Allowed
  <2>5. RowInv(r)' /\ AuditInv(r)'
    BY <1>0, <1>1, <2>1, <2>2 DEF RequestInv, RowInv, AuditInv
  <2> QED
    BY <2>3, <2>4, <2>5 DEF RequestInv
<1>5. CASE WaitReturns(r) \/ ClientLeaves(r) \/ TakeResolved(r)
  <2>1. /\ pc[r] \in {"wait", "race", "resolution"} /\ pc'[r] = "resolved"
        /\ member[r] \in Requests /\ wire[r] = None /\ follow[r] = "none" /\ postLogged[r] = None
    BY <1>5, ValuesOf DEF WaitReturns, ClientLeaves, TakeResolved, RequestInv, HandlerInv, AuditInv,
                          Holding, Decided, Goto
  <2>2. UNCHANGED <<member, verdict>>
    BY <1>5 DEF WaitReturns, ClientLeaves, TakeResolved, Queue!Answer, Queue!Leave, queue
  <2>3. \/ dec'[r] = Turned
        \/ dec'[r] # None /\ dec'[r] = verdict[member[r]]
    <3>1. CASE WaitReturns(r)
      BY <3>1, ValuesOf DEF WaitReturns, Decide, Queue!Answer
    <3>2. CASE ClientLeaves(r)
      BY <3>2, ValuesOf DEF ClientLeaves, Decide
    <3>3. CASE TakeResolved(r)
      BY <2>1, <3>3, ValuesOf, NoneApart DEF TakeResolved, Decide, RequestInv, HandlerInv, HoldInv
    <3> QED
      BY <1>5, <3>1, <3>2, <3>3
  <2>4. r \in SignalAfter => answer' = answer
    BY <1>5 DEF WaitReturns, ClientLeaves, TakeResolved, queue, RequestInv, HandlerInv
  <2>5. HandlerInv(r)'
    BY <1>0, <1>1, <1>2, <2>1, <2>2, <2>3 DEF HandlerInv, Early, Holding, Decided
  <2>6. HoldInv(r)'
    <3>1. dec'[r].effect \in AllowEffects => Allowed(r)'
      BY <1>2, <2>2, <2>3 DEF Allowed
    <3>2. ~Forwarding(r)'
      BY <1>0, <2>1, NoneApart DEF Forwarding, Wires
    <3>3. r \in SignalAfter /\ answer'[r] # None => answer'[r] = verdict'[member'[r]]
      BY <2>1, <2>2, <2>4, NoneApart DEF RequestInv, HoldInv
    <3> QED
      BY <3>1, <3>2, <3>3 DEF HoldInv
  <2>7. RowInv(r)' /\ AuditInv(r)'
    BY <1>1, <2>1 DEF RowInv, AuditInv, RequestInv
  <2> QED
    BY <2>5, <2>6, <2>7 DEF RequestInv
<1>6. CASE BackgroundWaitReturns(r)
  <2>1. /\ r \in SignalAfter /\ member[r] # None /\ answer'[r] = verdict[member[r]]
        /\ UNCHANGED <<member, handler, ring>>
    BY <1>6, ValuesOf DEF BackgroundWaitReturns, Queue!Answer
  <2>2. UNCHANGED <<pc, dec, wire, status>>
    BY <2>1 DEF handler, ring
  <2>3. HandlerInv(r)'
    BY <1>1, <2>1, <2>2 DEF RequestInv, HandlerInv
  <2>4. HoldInv(r)'
    BY <1>0, <2>1, <2>2 DEF RequestInv, HoldInv, Forwarding, Allowed
  <2>5. RowInv(r)' /\ AuditInv(r)'
    BY <1>0, <1>1, <2>1, <2>2 DEF RequestInv, RowInv, AuditInv
  <2> QED
    BY <2>3, <2>4, <2>5 DEF RequestInv
<1> QED
  BY <1>3, <1>4, <1>5, <1>6

\* From the decision to the client.
LEMMA ServingKeeps ==
    ASSUME Types, NEW r \in Requests, RequestInv(r),
           \/ SignalTimerFires(r) \/ Refuse(r) \/ Forward(r) \/ ForwardEnds(r)
           \/ OpenTunnel(r) \/ TunnelEnds(r)
    PROVE  RequestInv(r)'
<1>1. UNCHANGED <<queue, logged, lost, postLogged, stopper>>
  BY DEF SignalTimerFires, Refuse, Forward, ForwardEnds, OpenTunnel, TunnelEnds, audit, life
<1>2. UNCHANGED <<member, answer, verdict>>
  BY <1>1 DEF queue
<1>3. {"470", "471", "failed", "origin"} \subseteq Wires
  BY DEF Wires
<1>4. CASE SignalTimerFires(r)
  <2>1. /\ pc[r] = "race" /\ pc'[r] = "resolved" /\ dec'[r] = Signaled /\ wire'[r] = None
        /\ r \in SignalAfter /\ member[r] # None /\ postLogged[r] = None
    BY <1>4, ValuesOf DEF SignalTimerFires, Goto, Decide, Signaled, RequestInv, HandlerInv, AuditInv,
                          Holding, Decided
  <2>2. Signaled # None /\ Signaled.effect \notin AllowEffects
    BY TypedDecisions, NoneApart DEF Signaled, Decision, AllowEffects
  <2>3. HandlerInv(r)'
    BY <1>2, <2>1, <2>2 DEF HandlerInv, Early, Holding, Decided
  <2>4. HoldInv(r)'
    BY <1>2, <1>3, <2>1, <2>2, NoneApart DEF RequestInv, HoldInv, Forwarding
  <2>5. RowInv(r)' /\ AuditInv(r)'
    BY <1>1, <2>1 DEF RowInv, AuditInv, RequestInv
  <2> QED
    BY <2>3, <2>4, <2>5 DEF RequestInv
<1>5. CASE ~SignalTimerFires(r)
  <2>1. /\ dec'[r] = dec[r] /\ follow'[r] = follow[r]
        /\ pc[r] \in {"resolved", "forward", "tunnel"}
        /\ pc'[r] \in {"forward", "tunnel", "audit"}
        /\ pc[r] = "forward" => pc'[r] # "forward"
        /\ pc'[r] = "forward" => pc[r] = "resolved" /\ dec[r].effect \in AllowEffects
        /\ pc'[r] = "forward" => wire'[r] = wire[r]
        /\ pc'[r] \in {"tunnel", "audit"} => wire'[r] \in Wires
        /\ wire'[r] = "origin" => pc[r] \in {"forward", "tunnel"}
    <3>1. CASE Refuse(r)
      BY <1>3, <3>1, ValuesOf DEF Refuse, Goto, audit
    <3>2. CASE Forward(r)
      BY <1>3, <3>2, ValuesOf, NoneApart DEF Forward, Goto, audit, RequestInv, HandlerInv
    <3>3. CASE ForwardEnds(r)
      BY <1>3, <3>3, ValuesOf DEF ForwardEnds, Goto, audit
    <3>4. CASE OpenTunnel(r)
      BY <1>3, <3>4, ValuesOf DEF OpenTunnel, Goto, audit
    <3>5. CASE TunnelEnds(r)
      BY <1>3, <3>5, ValuesOf DEF TunnelEnds, Goto, audit, RequestInv, HandlerInv
    <3> QED
      BY <1>5, <3>1, <3>2, <3>3, <3>4, <3>5
  <2>2. HandlerInv(r)'
    BY <1>2, <2>1, NoneApart DEF RequestInv, HandlerInv, Early, Holding, Decided
  <2>3. HoldInv(r)'
    <3> SUFFICES ASSUME member[r] # None PROVE HoldInv(r)'
      BY <1>2 DEF HoldInv
    <3>1. Forwarding(r)' => Allowed(r)
      <4>1. CASE pc'[r] = "forward"
        BY <2>1, <4>1 DEF RequestInv, HoldInv
      <4>2. CASE wire'[r] = "origin" /\ pc[r] = "forward"
        BY <4>2 DEF RequestInv, HoldInv, Forwarding
      <4>3. CASE wire'[r] = "origin" /\ pc[r] = "tunnel"
        <5>1. wire[r] = wire'[r]
          BY <1>5, <4>3 DEF Refuse, Forward, ForwardEnds, OpenTunnel, TunnelEnds
        <5> QED
          BY <4>3, <5>1 DEF RequestInv, HoldInv, Forwarding
      <4> QED
        BY <2>1, <4>1, <4>2, <4>3 DEF Forwarding
    <3> QED
      BY <1>2, <2>1, <3>1 DEF RequestInv, HoldInv, Allowed
  <2>4. RowInv(r)' /\ AuditInv(r)'
    BY <1>1, <1>2, <2>1 DEF RowInv, AuditInv, RequestInv
  <2> QED
    BY <2>2, <2>3, <2>4 DEF RequestInv
<1> QED
  BY <1>4, <1>5

\* The entry, the final status and the goroutine of a signaled request.
LEMMA AuditingKeeps ==
    ASSUME Types, ShutdownInv, NEW r \in Requests, RequestInv(r),
           \/ WriteAudit(r) \/ Finish(r) \/ PostSignalAudit(r) \/ AbandonFollowUp(r)
    PROVE  RequestInv(r)'
<1>1. UNCHANGED <<policy, queue, dec, wire, inAllow, stopper, server>>
  BY DEF WriteAudit, Finish, PostSignalAudit, AbandonFollowUp, life, handler
<1>2. UNCHANGED <<member, answer, verdict>>
  BY <1>1 DEF queue
<1>3. CASE WriteAudit(r)
  <2>1. /\ pc[r] = "audit" /\ pc'[r] = "row" /\ dec[r] \in Decisions /\ wire[r] \in Wires
        /\ UNCHANGED <<follow, postLogged>>
    BY <1>3, ValuesOf DEF WriteAudit, Goto, RequestInv, HandlerInv, Decided
  <2>2. \/ /\ logged'[r] = Entry(dec[r], wire[r]) /\ lost' = lost
        \/ lost'[r] = IF server = "exited" THEN "closed" ELSE "full"
    BY <1>3, ValuesOf DEF WriteAudit
  <2>3. /\ Entry(dec[r], wire[r]) # None
        /\ Entry(dec[r], wire[r]).decision = dec[r] /\ Entry(dec[r], wire[r]).wire = wire[r]
    BY <2>1, TypeOfEntry, NoneApart DEF Types
  <2>4. HandlerInv(r)'
    BY <1>1, <1>2, <2>1 DEF RequestInv, HandlerInv, Early, Holding, Decided
  <2>5. HoldInv(r)'
    BY <1>1, <1>2, <2>1 DEF RequestInv, HoldInv, Forwarding, Allowed
  <2>6. AuditInv(r)'
    <3>1. \/ lost'[r] # None
          \/ logged'[r] # None /\ logged'[r].decision = dec'[r] /\ logged'[r].wire = wire'[r]
      BY <1>1, <2>2, <2>3, NoneApart
    <3>2. lost'[r] = "closed" => stopper' # "waiting"
      BY <1>1, <2>2 DEF ShutdownInv, RequestInv, AuditInv
    <3> QED
      BY <1>2, <2>1, <3>1, <3>2 DEF RequestInv, AuditInv
  <2> QED
    BY <2>1, <2>4, <2>5, <2>6 DEF RequestInv, RowInv
<1>4. CASE Finish(r)
  <2>1. /\ pc[r] = "row" /\ pc'[r] = "done" /\ UNCHANGED <<logged, lost, follow, postLogged>>
        /\ status'[r] # None => status'[r] = FinalStatus(wire[r])
    BY <1>4, ValuesOf DEF Finish, Goto, SetRow, audit
  <2>2. HandlerInv(r)'
    BY <1>1, <1>2, <2>1 DEF RequestInv, HandlerInv, Early, Holding, Decided
  <2>3. HoldInv(r)'
    BY <1>1, <1>2, <2>1 DEF RequestInv, HoldInv, Forwarding, Allowed
  <2>4. RowInv(r)'
    BY <1>1, <2>1 DEF RowInv, FinalStatus
  <2>5. AuditInv(r)'
    BY <1>1, <1>2, <2>1 DEF RequestInv, AuditInv
  <2> QED
    BY <2>2, <2>3, <2>4, <2>5 DEF RequestInv
<1>5. CASE PostSignalAudit(r) \/ AbandonFollowUp(r)
  <2>1. /\ follow[r] = "waiting" /\ follow'[r] # "none" /\ UNCHANGED <<pc, status, logged, lost>>
    BY <1>5, ValuesOf DEF PostSignalAudit, AbandonFollowUp, handler, ring
  <2>2. postLogged'[r] # None => postLogged'[r].decision = verdict[member[r]]
    <3>1. CASE postLogged' = postLogged
      BY <3>1 DEF RequestInv, AuditInv
    <3>2. CASE PostSignalAudit(r) /\ postLogged' = [postLogged EXCEPT ![r] = Entry(answer[r], "none")]
      <4>1. answer[r] # None /\ answer[r] = verdict[member[r]]
        BY <2>1, <3>2 DEF PostSignalAudit, RequestInv, HandlerInv, HoldInv
      <4>2. answer[r] \in Decisions
        BY <4>1, ValuesOf
      <4>3. Entry(answer[r], "none").decision = answer[r]
        BY <4>2, TypeOfEntry DEF Types
      <4> QED
        BY <3>2, <4>1, <4>3, ValuesOf
    <3> QED
      BY <1>5, <3>1, <3>2 DEF PostSignalAudit, AbandonFollowUp
  <2>3. HandlerInv(r)'
    BY <1>1, <1>2, <2>1 DEF RequestInv, HandlerInv
  <2>4. HoldInv(r)'
    BY <1>1, <1>2, <2>1 DEF RequestInv, HoldInv, Forwarding, Allowed
  <2>5. RowInv(r)' /\ AuditInv(r)'
    BY <1>1, <1>2, <2>1, <2>2 DEF RequestInv, RowInv, AuditInv
  <2> QED
    BY <2>3, <2>4, <2>5 DEF RequestInv
<1> QED
  BY <1>3, <1>4, <1>5

-----------------------------------------------------------------------------
(***************************************************************************)
(* The ring.                                                               *)
(***************************************************************************)
\* A request is accepted once, so its row is new.
LEMMA BeginKeepsRing ==
    ASSUME RingType, RingInv, NEW r \in Requests, status[r] = None, BeginRow(r)
    PROVE  RingInv'
<1>1. order \in Seq(Requests) /\ Len(order) \in Nat
  BY LenProperties DEF RingType
<1>2. None # "checking"
  BY NoneApart DEF Statuses
<1>3. \A i \in 1..Len(order) : order[i] \in Requests /\ order[i] # r
  BY <1>1, ElementOfSeq DEF RingInv
<1>4. CASE /\ order' = Append(order, r)
           /\ \A q \in Requests : status'[q] = IF q = r THEN "checking" ELSE status[q]
  <2>1. /\ Len(order') = Len(order) + 1
        /\ \A i \in 1..Len(order) : order'[i] = order[i]
        /\ order'[Len(order) + 1] = r
    BY <1>1, <1>4, AppendProperties
  <2>2. \A i, j \in 1..Len(order') : order'[i] = order'[j] => i = j
    <3> SUFFICES ASSUME NEW i \in 1..Len(order'), NEW j \in 1..Len(order'), order'[i] = order'[j]
                 PROVE  i = j
      OBVIOUS
    <3>1. CASE i \in 1..Len(order) /\ j \in 1..Len(order)
      BY <2>1, <3>1 DEF RingInv
    <3>2. CASE i = Len(order) + 1 \/ j = Len(order) + 1
      BY <1>1, <1>3, <2>1, <3>2
    <3> QED
      BY <1>1, <2>1, <3>1, <3>2
  <2>3. ASSUME NEW q \in Requests
        PROVE  status'[q] # None <=> \E i \in 1..Len(order') : order'[i] = q
    <3>1. CASE q = r
      BY <1>1, <1>2, <1>4, <2>1, <3>1
    <3>2. CASE q # r
      <4>1. status'[q] # None <=> \E i \in 1..Len(order) : order[i] = q
        BY <1>4, <3>2 DEF RingInv
      <4>2. (\E i \in 1..Len(order') : order'[i] = q) <=> \E i \in 1..Len(order) : order[i] = q
        BY <1>1, <2>1, <3>2
      <4> QED
        BY <4>1, <4>2
    <3> QED
      BY <3>1, <3>2
  <2> QED
    BY <2>2, <2>3 DEF RingInv
<1>5. CASE /\ order # <<>> /\ order' = Append(Tail(order), r)
           /\ \A q \in Requests : status'[q] = IF q = r THEN "checking"
                                               ELSE IF q = Head(order) THEN None ELSE status[q]
  <2>1. /\ Tail(order) \in Seq(Requests) /\ Len(Tail(order)) = Len(order) - 1
        /\ \A i \in 1..Len(Tail(order)) : Tail(order)[i] = order[i + 1]
        /\ Len(order) \in Nat \ {0}
    BY <1>1, <1>5, HeadTailProperties, EmptySeq
  <2>2. Head(order) = order[1]
    BY <1>1, <1>5
  <2>3. /\ Len(order') = Len(Tail(order)) + 1
        /\ \A i \in 1..Len(Tail(order)) : order'[i] = Tail(order)[i]
        /\ order'[Len(Tail(order)) + 1] = r
    BY <1>5, <2>1, AppendProperties
  <2>4. /\ Len(order') = Len(order)
        /\ \A i \in 1..(Len(order) - 1) : order'[i] = order[i + 1]
        /\ order'[Len(order)] = r
    BY <2>1, <2>3
  <2>5. \A i, j \in 1..Len(order') : order'[i] = order'[j] => i = j
    <3> SUFFICES ASSUME NEW i \in 1..Len(order'), NEW j \in 1..Len(order'), order'[i] = order'[j]
                 PROVE  i = j
      OBVIOUS
    <3>1. CASE i \in 1..(Len(order) - 1) /\ j \in 1..(Len(order) - 1)
      <4>1. i + 1 \in 1..Len(order) /\ j + 1 \in 1..Len(order)
        BY <1>1, <3>1
      <4>2. i + 1 = j + 1
        BY <2>4, <3>1, <4>1 DEF RingInv
      <4> QED
        BY <4>2
    <3>2. CASE i = Len(order) \/ j = Len(order)
      <4>1. \A k \in 1..(Len(order) - 1) : order'[k] # r
        BY <1>1, <1>3, <2>4
      <4> QED
        BY <1>1, <2>4, <3>2, <4>1
    <3> QED
      BY <1>1, <2>4, <3>1, <3>2
  <2>6. ASSUME NEW q \in Requests
        PROVE  status'[q] # None <=> \E i \in 1..Len(order') : order'[i] = q
    <3>1. CASE q = r
      <4>1. Len(order) \in 1..Len(order') /\ order'[Len(order)] = q
        BY <2>1, <2>4, <3>1
      <4>2. status'[q] # None
        BY <1>2, <1>5, <3>1
      <4> QED
        BY <4>1, <4>2
    <3>2. CASE q # r /\ q = order[1]
      <4>1. status'[q] = None
        BY <1>5, <2>2, <3>2
      <4>2. \A i \in 1..Len(order') : order'[i] # q
        <5> SUFFICES ASSUME NEW i \in 1..Len(order'), order'[i] = q PROVE FALSE
          OBVIOUS
        <5>1. i \in 1..(Len(order) - 1) /\ i + 1 \in 1..Len(order) /\ 1 \in 1..Len(order)
          BY <2>1, <2>4, <3>2
        <5>2. order[i + 1] = order[1]
          BY <2>4, <3>2, <5>1
        <5>3. i + 1 = 1
          BY <5>1, <5>2 DEF RingInv
        <5> QED
          BY <5>1, <5>3
      <4> QED
        BY <4>1, <4>2
    <3>3. CASE q # r /\ q # order[1]
      <4>1. status'[q] # None <=> \E i \in 1..Len(order) : order[i] = q
        BY <1>5, <2>2, <3>3 DEF RingInv
      <4>2. ASSUME NEW i \in 1..Len(order), order[i] = q
            PROVE  \E j \in 1..Len(order') : order'[j] = q
        <5>1. i - 1 \in 1..(Len(order) - 1) /\ i - 1 \in 1..Len(order') /\ (i - 1) + 1 = i
          BY <2>1, <2>4, <3>3, <4>2
        <5>2. order'[i - 1] = q
          BY <2>4, <4>2, <5>1
        <5> QED
          BY <5>1, <5>2
      <4>3. ASSUME NEW j \in 1..Len(order'), order'[j] = q
            PROVE  \E i \in 1..Len(order) : order[i] = q
        <5>1. j \in 1..(Len(order) - 1) /\ j + 1 \in 1..Len(order)
          BY <2>1, <2>4, <3>3, <4>3
        <5> QED
          BY <2>4, <4>3, <5>1
      <4> QED
        BY <4>1, <4>2, <4>3
    <3> QED
      BY <3>1, <3>2, <3>3
  <2> QED
    BY <2>5, <2>6 DEF RingInv
<1> QED
  BY <1>4, <1>5, RingAfterBegin

\* Every other step leaves the rows where they are.
LEMMA RowsStay ==
    ASSUME RingInv, order' = order, \A s \in Requests : status'[s] = None <=> status[s] = None
    PROVE  RingInv'
BY DEF RingInv

-----------------------------------------------------------------------------
(***************************************************************************)
(* The invariant is inductive.                                             *)
(***************************************************************************)
LEMMA InitIInv == Init => IInv
<1> SUFFICES ASSUME Init PROVE IInv
  OBVIOUS
<1>1. Types
  BY InitTypes
<1>2. RingInv
  BY DEF Init, RingInv
<1>3. ShutdownInv
  BY DEF Init, ShutdownInv
<1>4. ASSUME NEW r \in Requests PROVE RequestInv(r)
  <2>1. /\ pc[r] = "new" /\ member[r] = None /\ answer[r] = None /\ wire[r] = None
        /\ follow[r] = "none" /\ status[r] = None /\ lost[r] = None /\ postLogged[r] = None
    BY DEF Init
  <2>2. HandlerInv(r)
    BY <2>1 DEF HandlerInv, Early, Holding, Decided
  <2> QED
    BY <2>1, <2>2, NoneApart DEF RequestInv, HoldInv, RowInv, AuditInv
<1> QED
  BY <1>1, <1>2, <1>3, <1>4 DEF IInv

\* A step of r's handler is no business of another request, but that it may
\* evict that request's row.
LEMMA HandlerFrame ==
    ASSUME Types, NEW r \in Requests, HandlerStep(r), NEW s \in Requests, s # r
    PROVE  SameAt(s) /\ Forwards /\ status'[s] \in {status[s], None}
<1>1. /\ pc'[s] = pc[s] /\ dec'[s] = dec[s] /\ wire'[s] = wire[s]
  <2>1. CASE \/ Accept(r) \/ BodyFails(r) \/ ReadAllowList(r) \/ ReadDenyList(r)
             \/ EngineDecide(r) \/ CheckOpenMode(r)
    BY <2>1, ValuesOf DEF Accept, BodyFails, ReadAllowList, ReadDenyList, EngineDecide,
                          CheckOpenMode, Goto, Decide
  <2>2. CASE \/ Enqueue(r) \/ HoldPending(r) \/ WaitReturns(r) \/ ClientLeaves(r)
             \/ BackgroundWaitReturns(r) \/ AwaitResolved(r) \/ TakeResolved(r)
             \/ SignalTimerFires(r)
    BY <2>2, ValuesOf DEF Enqueue, HoldPending, WaitReturns, ClientLeaves, BackgroundWaitReturns,
                          AwaitResolved, TakeResolved, SignalTimerFires, Goto, Decide, handler
  <2>3. CASE \/ Refuse(r) \/ Forward(r) \/ ForwardEnds(r) \/ OpenTunnel(r) \/ TunnelEnds(r)
             \/ WriteAudit(r) \/ Finish(r) \/ PostSignalAudit(r) \/ AbandonFollowUp(r)
    BY <2>3, ValuesOf DEF Refuse, Forward, ForwardEnds, OpenTunnel, TunnelEnds, WriteAudit, Finish,
                          PostSignalAudit, AbandonFollowUp, Goto, handler
  <2> QED
    BY <2>1, <2>2, <2>3 DEF HandlerStep
<1>2. member'[s] = member[s] /\ answer'[s] = answer[s] /\ verdict' = verdict
  <2>1. CASE UNCHANGED queue
    BY <2>1 DEF queue
  <2>2. CASE \/ Queue!Join(r) \/ Queue!Open(r) \/ Queue!Refuse(r) \/ Queue!Answer(r)
             \/ Queue!Leave(r)
    BY <2>2, ValuesOf DEF Queue!Join, Queue!Open, Queue!Refuse, Queue!Answer, Queue!Leave
  <2> QED
    BY <2>1, <2>2 DEF HandlerStep, Accept, BodyFails, ReadAllowList, ReadDenyList, EngineDecide,
       CheckOpenMode, Enqueue, HoldPending, WaitReturns, ClientLeaves, BackgroundWaitReturns,
       AwaitResolved, TakeResolved, SignalTimerFires, Refuse, Forward, ForwardEnds, OpenTunnel,
       TunnelEnds, WriteAudit, Finish, PostSignalAudit, AbandonFollowUp
<1>3. /\ logged'[s] = logged[s] /\ lost'[s] = lost[s]
      /\ follow'[s] = follow[s] /\ postLogged'[s] = postLogged[s]
  <2>1. CASE UNCHANGED audit
    BY <2>1 DEF audit
  <2>2. CASE SignalTimerFires(r) \/ WriteAudit(r) \/ PostSignalAudit(r) \/ AbandonFollowUp(r)
    BY <2>2, ValuesOf DEF SignalTimerFires, WriteAudit, PostSignalAudit, AbandonFollowUp
  <2> QED
    BY <2>1, <2>2 DEF HandlerStep, Accept, BodyFails, ReadAllowList, ReadDenyList, EngineDecide,
       CheckOpenMode, Enqueue, HoldPending, WaitReturns, ClientLeaves, BackgroundWaitReturns,
       AwaitResolved, TakeResolved, Refuse, Forward, ForwardEnds, OpenTunnel, TunnelEnds, Finish
<1>4. status'[s] \in {status[s], None}
  <2>1. CASE UNCHANGED ring
    BY <2>1 DEF ring
  <2>2. CASE Accept(r)
    BY <2>2 DEF Accept, BeginRow
  <2>3. CASE HoldPending(r) \/ Refuse(r) \/ Forward(r) \/ Finish(r)
    BY <2>3, ValuesOf DEF HoldPending, Refuse, Forward, Finish, SetRow
  <2> QED
    BY <2>1, <2>2, <2>3 DEF HandlerStep, BodyFails, ReadAllowList, ReadDenyList, EngineDecide,
       CheckOpenMode, Enqueue, WaitReturns, ClientLeaves, BackgroundWaitReturns,
       AwaitResolved, TakeResolved, SignalTimerFires, ForwardEnds, OpenTunnel,
       TunnelEnds, WriteAudit, PostSignalAudit, AbandonFollowUp
<1>5. UNCHANGED stopper
  BY DEF HandlerStep, Accept, BodyFails, ReadAllowList, ReadDenyList, EngineDecide,
       CheckOpenMode, Enqueue, HoldPending, WaitReturns, ClientLeaves, BackgroundWaitReturns,
       AwaitResolved, TakeResolved, SignalTimerFires, Refuse, Forward, ForwardEnds, OpenTunnel,
       TunnelEnds, WriteAudit, Finish, PostSignalAudit, AbandonFollowUp, life
<1> QED
  BY <1>1, <1>2, <1>3, <1>4, <1>5 DEF SameAt, Forwards

LEMMA HandlerKeeps ==
    ASSUME IInv, NEW r \in Requests, HandlerStep(r)
    PROVE  IInv'
<1>1. Types /\ RingInv /\ ShutdownInv /\ \A s \in Requests : RequestInv(s)
  BY DEF IInv
<1>2. Types'
  BY TypesHold DEF Next
<1>3. RequestInv(r)'
  BY <1>1, DecidingKeeps, HoldingKeeps, ServingKeeps, AuditingKeeps DEF HandlerStep
<1>4. ASSUME NEW s \in Requests PROVE RequestInv(s)'
  BY <1>1, <1>3, HandlerFrame, OthersKeep
<1>5. RingInv'
  <2>1. CASE Accept(r)
    BY <1>1, <2>1, BeginKeepsRing DEF Types, Accept, RequestInv, RowInv
  <2>2. CASE UNCHANGED ring
    BY <1>1, <2>2, RowsStay DEF ring
  <2>3. CASE HoldPending(r) \/ Refuse(r) \/ Forward(r) \/ Finish(r)
    <3>1. order' = order
      BY <2>3 DEF HoldPending, Refuse, Forward, Finish
    <3>2. UNCHANGED status \/ \E v \in Statuses : SetRow(r, v)
      <4>1. Finish(r) => FinalStatus(wire[r]) \in Statuses
        BY <1>1, ValuesOf, TypeOfFinalStatus DEF Finish, RequestInv, HandlerInv
      <4>2. {"pending", "running"} \subseteq Statuses
        BY DEF Statuses
      <4> QED
        BY <2>3, <4>1, <4>2 DEF HoldPending, Refuse, Forward, Finish
    <3>3. \A s \in Requests : status'[s] = None <=> status[s] = None
      BY <1>1, <3>1, <3>2, TypeOfSetRow, NoneApart DEF Types
    <3> QED
      BY <1>1, <3>1, <3>3, RowsStay
  <2> QED
    BY <2>1, <2>2, <2>3 DEF HandlerStep, BodyFails, ReadAllowList, ReadDenyList, EngineDecide,
       CheckOpenMode, Enqueue, WaitReturns, ClientLeaves, BackgroundWaitReturns,
       AwaitResolved, TakeResolved, SignalTimerFires, ForwardEnds, OpenTunnel,
       TunnelEnds, WriteAudit, PostSignalAudit, AbandonFollowUp
<1>6. ShutdownInv'
  <2>1. UNCHANGED <<stopper, server>>
    BY DEF HandlerStep, Accept, BodyFails, ReadAllowList, ReadDenyList, EngineDecide,
       CheckOpenMode, Enqueue, HoldPending, WaitReturns, ClientLeaves, BackgroundWaitReturns,
       AwaitResolved, TakeResolved, SignalTimerFires, Refuse, Forward, ForwardEnds, OpenTunnel,
       TunnelEnds, WriteAudit, Finish, PostSignalAudit, AbandonFollowUp, life
  <2> QED
    BY <1>1, <2>1 DEF ShutdownInv
<1> QED
  BY <1>2, <1>4, <1>5, <1>6 DEF IInv

\* Operators, the advisor, timers, reloads and shutdown touch no request: what
\* they decide, they decide once.
LEMMA OutsideKeeps ==
    ASSUME IInv, Environment \/ Shutdown \/ UNCHANGED vars
    PROVE  IInv'
<1>1. Types /\ RingInv /\ ShutdownInv /\ \A s \in Requests : RequestInv(s)
  BY DEF IInv
<1>2. Types'
  BY TypesHold DEF Next
<1>3. UNCHANGED <<ring, audit, handler, member, answer>>
  BY DEF Environment, DecideHold, Persist, Reconfigure, SetLists, ReloadRules, PressOpen,
         OpenModeEnds, Shutdown, CancelContext, SweepQueue, CloseListener, Drained, CloseAuditLog,
         Queue!Decide, Queue!Record, queue, vars
<1>4. Forwards
  <2>1. \A h \in Requests : verdict[h] # None => verdict'[h] = verdict[h]
    <3>1. CASE UNCHANGED verdict
      BY <3>1
    <3>2. CASE \E H \in SUBSET Requests, d \in Decisions : Queue!Decide(H, d)
      BY <3>2 DEF Queue!Decide, Queue!Pending
    <3>3. SweepQueue => \E H \in SUBSET Requests, d \in Decisions : Queue!Decide(H, d)
      BY TypedDecisions DEF SweepQueue, Queue!Pending
    <3>4. (\E h \in Requests, d \in Verdicts : DecideHold(h, d))
              => \E H \in SUBSET Requests, d \in Decisions : Queue!Decide(H, d)
      <4> SUFFICES ASSUME NEW h \in Requests, NEW d \in Verdicts, DecideHold(h, d)
                   PROVE  \E H \in SUBSET Requests, e \in Decisions : Queue!Decide(H, e)
        OBVIOUS
      <4>1. {h} \in SUBSET Requests /\ d \in Decisions /\ Queue!Decide({h}, d)
        BY TypedVerdicts DEF DecideHold
      <4> QED
        BY <4>1
    <3> QED
      BY <3>1, <3>2, <3>3, <3>4 DEF Environment, Persist, Reconfigure, SetLists, ReloadRules,
         PressOpen, OpenModeEnds, Shutdown, CancelContext, CloseListener, Drained, CloseAuditLog,
         Queue!Record, queue, vars
  <2>2. stopper # "waiting" => stopper' # "waiting"
    BY DEF Environment, DecideHold, Persist, Reconfigure, SetLists, ReloadRules, PressOpen,
           OpenModeEnds, Shutdown, CancelContext, SweepQueue, CloseListener, Drained,
           CloseAuditLog, life, vars
  <2> QED
    BY <2>1, <2>2 DEF Forwards
<1>5. ASSUME NEW s \in Requests PROVE RequestInv(s)'
  <2>1. SameAt(s) /\ status'[s] = status[s]
    BY <1>3 DEF SameAt, ring, audit, handler
  <2> QED
    BY <1>1, <1>4, <2>1, OthersKeep
<1>6. RingInv'
  BY <1>1, <1>3, RowsStay DEF ring
<1>7. ShutdownInv'
  BY <1>1 DEF ShutdownInv, Environment, DecideHold, Persist, Reconfigure, SetLists, ReloadRules,
         PressOpen, OpenModeEnds, Shutdown, CancelContext, SweepQueue, CloseListener, Drained,
         CloseAuditLog, life, vars
<1> QED
  BY <1>2, <1>5, <1>6, <1>7 DEF IInv

\* IInv holds in every reachable state of the pipeline, however handlers, the
\* goroutines of signaled requests, operators, reloads and shutdown interleave.
THEOREM InductiveInvariant == Spec => []IInv
<1>1. Init => IInv
  BY InitIInv
<1>2. IInv /\ [Next]_vars => IInv'
  BY HandlerKeeps, OutsideKeeps DEF Next
<1> QED
  BY <1>1, <1>2, PTL DEF Spec

\* Every variable keeps its type; the ring never outgrows its capacity.
THEOREM TypeCorrect == Spec => []TypeOK
<1>1. IInv => TypeOK
  BY DEF IInv, Types, TypeOK, PolicyType, QueueType, HandlerType, RingType, AuditType, LifeType
<1> QED
  BY <1>1, InductiveInvariant, PTL

\* Operators, the advisor, the timers and the sweep of a shutdown decide holds.
LEMMA VerdictsOfAHold == Spec => []VerdictInv
<1>1. Init => VerdictInv
  BY DEF Init, VerdictInv
<1>2. VerdictInv /\ [Next]_vars => VerdictInv'
  <2> SUFFICES ASSUME VerdictInv, [Next]_vars PROVE VerdictInv'
    OBVIOUS
  <2>1. CASE UNCHANGED verdict
    BY <2>1 DEF VerdictInv
  <2>2. ASSUME NEW H, NEW d \in Verdicts \cup {ShutdownVerdict}, Queue!Decide(H, d)
        PROVE  VerdictInv'
    BY <2>2 DEF VerdictInv, Queue!Decide
  <2>3. CASE \E r \in Requests : HandlerStep(r)
    <3>1. UNCHANGED verdict
      BY <2>3 DEF HandlerStep, Accept, BodyFails, ReadAllowList, ReadDenyList, EngineDecide,
         CheckOpenMode, Enqueue, HoldPending, WaitReturns, ClientLeaves, BackgroundWaitReturns,
         AwaitResolved, TakeResolved, SignalTimerFires, Refuse, Forward, ForwardEnds, OpenTunnel,
         TunnelEnds, WriteAudit, Finish, PostSignalAudit, AbandonFollowUp, Queue!Join, Queue!Open,
         Queue!Refuse, Queue!Answer, Queue!Leave, queue
    <3> QED
      BY <2>1, <3>1
  <2>4. CASE Environment
    BY <2>1, <2>2, <2>4 DEF Environment, DecideHold, Persist, Reconfigure, SetLists, ReloadRules,
       PressOpen, OpenModeEnds, Queue!Record, queue
  <2>5. CASE Shutdown
    BY <2>1, <2>2, <2>5 DEF Shutdown, CancelContext, SweepQueue, CloseListener, Drained,
       CloseAuditLog, queue
  <2> QED
    BY <2>1, <2>3, <2>4, <2>5 DEF Next, vars, queue
<1> QED
  BY <1>1, <1>2, PTL DEF Spec

\* server.go, holdAndWait: a held request is forwarded only on an allowing
\* verdict of its own hold, taken by those whose verdicts may allow it, and
\* that verdict is what its handler acts on.
THEOREM HeldRequestsObey == Spec => []HeldRequestObeysVerdict
<1>1. IInv /\ VerdictInv => HeldRequestObeysVerdict
  <2> SUFFICES ASSUME IInv, VerdictInv, NEW r \in Requests, member[r] # None, Forwarding(r)
               PROVE  HeldRequestObeysVerdict!(r)
    BY DEF HeldRequestObeysVerdict
  <2>1. Allowed(r) /\ member[r] \in Requests
    BY DEF IInv, RequestInv, HoldInv, Types, QueueType
  <2>2. ShutdownVerdict.effect \notin AllowEffects
    BY DEF ShutdownVerdict, Decision, AllowEffects
  <2> QED
    BY <2>1, <2>2 DEF VerdictInv, Allowed, AllowEffects
<1> QED
  BY <1>1, InductiveInvariant, VerdictsOfAHold, PTL

\* opstream.go: the rows are the requests in order, evicted rows stay away and
\* a finished request shows its outcome.
THEOREM OpsRowsFollow == Spec => []OpsRowsFollowRequests
<1>1. IInv => OpsRowsFollowRequests
  BY DEF IInv, RequestInv, RowInv, RingInv, OpsRowsFollowRequests
<1> QED
  BY <1>1, InductiveInvariant, PTL

\* server.go, writeAudit: a finished request has its entry, or Write refused it,
\* and a signaled request's second entry says what its hold was decided to be.
THEOREM AnswersAreAudited == Spec => []EveryAnswerIsAudited
<1>1. IInv => EveryAnswerIsAudited
  <2> SUFFICES ASSUME NEW r \in Requests, HandlerInv(r), AuditInv(r)
               PROVE  EveryAnswerIsAudited!(r)
    BY DEF IInv, RequestInv, EveryAnswerIsAudited
  <2>1. Signaled.effect = "ask_user_signaled"
    BY DEF Signaled, Decision
  <2>2. postLogged[r] # None => dec[r] = Signaled /\ postLogged[r].decision = verdict[member[r]]
    BY DEF HandlerInv, AuditInv
  <2> QED
    BY <2>1, <2>2 DEF AuditInv
<1> QED
  BY <1>1, InductiveInvariant, PTL

-----------------------------------------------------------------------------
(***************************************************************************)
(* The audit log (internal/audit/audit.go).                                *)
(*                                                                         *)
(* Conservation is inductive with the types alone.  That Close flushes     *)
(* needs to know that one caller at most gets past the swap of closed, and *)
(* that the writer goroutine leaves its loop only after stopCh is closed.  *)
(***************************************************************************)
(***************************************************************************)
(* What Close and the writer goroutine know of each other.                 *)
(***************************************************************************)
OneFlusher ==
    \A c, d \in Closers :
        /\ cpc[c] \in {"stopping", "waiting", "flushed"}
        /\ cpc[d] \in {"stopping", "waiting", "flushed"}
        => c = d

FlusherHasClosed ==
    \A c \in Closers : cpc[c] \in {"stopping", "waiting", "flushed"} => closed

StopIsSignalledOnce == \A c \in Closers : cpc[c] = "stopping" => ~stopped

StopAfterClosed == stopped => closed

LoopEndsAfterStop == loop # "select" => stopped

ExitedEmptyHanded == loop = "exited" => hand = NoEntry /\ Len(file) >= sentAtStop

FlushedAfterExit == \A c \in Closers : cpc[c] = "flushed" => loop = "exited"

StopPointInRange == sentAtStop <= Len(sent)

\* A writer past the closed check carries an entry.
WritersHaveEntries == \A w \in Writers : wpc[w] # "idle" => entry[w] \in Entries

CloseProtocol ==
    /\ OneFlusher
    /\ FlusherHasClosed
    /\ StopIsSignalledOnce
    /\ StopAfterClosed
    /\ LoopEndsAfterStop
    /\ ExitedEmptyHanded
    /\ FlushedAfterExit
    /\ StopPointInRange

-----------------------------------------------------------------------------
(***************************************************************************)
(* Sequences.                                                              *)
(***************************************************************************)
LEMMA NoEntryIsNoEntry == NoEntry \notin Entries
BY LogAssumption DEF NoEntry, Entries

\* An entry appended to the buffer is appended to all that was accepted.
LEMMA AppendToBuffer ==
    ASSUME file \in Seq(Entries), InHand \in Seq(Entries), ch \in Seq(Entries),
           NEW e \in Entries
    PROVE  Append(file \o InHand \o ch, e) = file \o InHand \o Append(ch, e)
<1> DEFINE done == file \o InHand
           last == <<e>>
<1>1. done \in Seq(Entries) /\ last \in Seq(Entries)
  OBVIOUS
<1>2. Append(ch, e) = ch \o last
  BY AppendIsConcat
<1> HIDE DEF done
<1>3. done \o ch \in Seq(Entries)
  BY <1>1
<1>4. Append(done \o ch, e) = (done \o ch) \o last
  BY <1>3, AppendIsConcat
<1> HIDE DEF last
<1>5. (done \o ch) \o last = done \o (ch \o last)
  BY <1>1, ConcatAssociative
<1>. QED  BY <1>2, <1>4, <1>5 DEF done

LEMMA MoveHead ==
    ASSUME NEW S, NEW s \in Seq(S), NEW u \in Seq(S), u # <<>>
    PROVE  s \o <<>> \o u = s \o <<Head(u)>> \o Tail(u)
OBVIOUS

LEMMA MoveOne ==
    ASSUME NEW S, NEW s \in Seq(S), NEW u \in Seq(S), NEW e \in S
    PROVE  s \o <<e>> \o u = Append(s, e) \o <<>> \o u
OBVIOUS

-----------------------------------------------------------------------------
(***************************************************************************)
(* The type invariant.                                                     *)
(***************************************************************************)
LEMMA InitLogTypeOK == LogInit => LogTypeOK
<1> SUFFICES ASSUME LogInit PROVE LogTypeOK
  OBVIOUS
<1>1. overflow \in Modes /\ bufSize \in Nat \ {0}
  BY LogAssumption DEF LogInit, NewBufSize
<1>2. calls \in 0..MaxWrites
  BY LogAssumption DEF LogInit
<1>3. ch = <<>> /\ Len(ch) <= bufSize
  BY <1>1 DEF LogInit
<1>4. /\ wpc \in [Writers -> {"idle", "level", "select"}]
      /\ entry \in [Writers -> Entries \cup {NoEntry}]
      /\ cpc \in [Closers -> {"idle", "stopping", "waiting", "flushed", "returned"}]
  BY DEF LogInit
<1>5. ch \in Seq(Entries) /\ sent \in Seq(Entries) /\ file \in Seq(Entries)
  BY DEF LogInit
<1>6. /\ level \in AllLevels
      /\ setLevels \in Nat /\ dropped \in Nat /\ levelFiltered \in Nat
      /\ errors \in Nat /\ sentAtStop \in Nat
      /\ loop \in {"select", "drain", "exited"}
      /\ hand \in Entries \cup {NoEntry}
      /\ closed \in BOOLEAN /\ stopped \in BOOLEAN
  BY DEF LogInit, AllLevels
<1>. QED
  BY <1>1, <1>2, <1>3, <1>4, <1>5, <1>6 DEF LogTypeOK

LEMMA NextLogTypeOK ==
    ASSUME LogTypeOK, WritersHaveEntries, [LogNext]_logVars
    PROVE  LogTypeOK' /\ WritersHaveEntries'
<1> USE DEF WritersHaveEntries
<1>1. ASSUME NEW lvl \in Levels, SetLevel(lvl) PROVE LogTypeOK' /\ WritersHaveEntries'
  BY <1>1, LogAssumption
     DEF LogTypeOK, SetLevel, config, counters, writing, writer, closing
<1>2. ASSUME NEW w \in Writers, NEW human \in BOOLEAN, CallWrite(w, human)
      PROVE  LogTypeOK' /\ WritersHaveEntries'
  <2>1. calls' \in 0..MaxWrites
    BY <1>2, LogAssumption DEF LogTypeOK, CallWrite
  <2>2. [n |-> calls + 1, human |-> human] \in Entries
    BY <1>2, LogAssumption DEF LogTypeOK, CallWrite, Entries
  <2>3. entry' \in [Writers -> Entries \cup {NoEntry}]
    BY <1>2, <2>2 DEF LogTypeOK, CallWrite
  <2>4. wpc' \in [Writers -> {"idle", "level", "select"}] /\ errors' \in Nat
    BY <1>2 DEF LogTypeOK, CallWrite
  <2>5. WritersHaveEntries'
    BY <1>2, <2>2 DEF LogTypeOK, CallWrite
  <2>. QED
    BY <1>2, <2>1, <2>3, <2>4, <2>5 DEF LogTypeOK, CallWrite, config, writer, closing
<1>3. ASSUME NEW w \in Writers, FilterEntry(w) PROVE LogTypeOK' /\ WritersHaveEntries'
  <2>1. /\ wpc' \in [Writers -> {"idle", "level", "select"}]
        /\ levelFiltered' \in Nat
        /\ WritersHaveEntries'
    BY <1>3 DEF LogTypeOK, FilterEntry, Return
  <2>. QED  BY <1>3, <2>1 DEF LogTypeOK, FilterEntry, config, writer, closing
<1>4. ASSUME NEW w \in Writers, SendEntry(w) PROVE LogTypeOK' /\ WritersHaveEntries'
  <2>1. entry[w] \in Entries
    BY <1>4 DEF SendEntry
  <2>2. ch' \in Seq(Entries) /\ Len(ch') <= bufSize /\ sent' \in Seq(Entries)
    BY <1>4, <2>1 DEF LogTypeOK, SendEntry, CanSend
  <2>3. wpc' \in [Writers -> {"idle", "level", "select"}] /\ WritersHaveEntries'
    BY <1>4 DEF LogTypeOK, SendEntry, Return
  <2>. QED
    BY <1>4, <2>2, <2>3 DEF LogTypeOK, SendEntry, config, counters, writer, closing
<1>5. ASSUME NEW w \in Writers, GiveUp(w) PROVE LogTypeOK' /\ WritersHaveEntries'
  <2>1. wpc' \in [Writers -> {"idle", "level", "select"}] /\ WritersHaveEntries'
    BY <1>5 DEF LogTypeOK, GiveUp, Return
  <2>2. dropped' \in Nat /\ errors' \in Nat
    BY <1>5 DEF LogTypeOK, GiveUp, CountLoss
  <2>. QED
    BY <1>5, <2>1, <2>2 DEF LogTypeOK, GiveUp, config, writer, closing
<1>6. CASE TakeEntry
  <2>1. /\ ch' \in Seq(Entries) /\ Len(ch') <= bufSize
        /\ hand' \in Entries
    BY <1>6 DEF LogTypeOK, TakeEntry
  <2>. QED  BY <1>6, <2>1 DEF LogTypeOK, TakeEntry, config, counters, writing, closing
<1>7. CASE EncodeEntry
  BY <1>7 DEF LogTypeOK, EncodeEntry, config, counters, writing, closing
<1>8. CASE SeeStop
  BY <1>8 DEF LogTypeOK, SeeStop, config, counters, writing, closing
<1>9. CASE ExitLoop
  BY <1>9 DEF LogTypeOK, ExitLoop, config, counters, writing, closing
<1>10. ASSUME NEW c \in Closers, SwapClosed(c) PROVE LogTypeOK' /\ WritersHaveEntries'
  BY <1>10 DEF LogTypeOK, SwapClosed, config, counters, writing, writer
<1>11. ASSUME NEW c \in Closers, CloseStopCh(c) PROVE LogTypeOK' /\ WritersHaveEntries'
  BY <1>11 DEF LogTypeOK, CloseStopCh, config, counters, writing, writer
<1>12. ASSUME NEW c \in Closers, CloseWaitReturns(c) PROVE LogTypeOK' /\ WritersHaveEntries'
  BY <1>12 DEF LogTypeOK, CloseWaitReturns, config, counters, writing, writer
<1>13. CASE UNCHANGED logVars
  BY <1>13 DEF LogTypeOK, logVars, config, counters, writing, writer, closing
<1>. QED
  BY <1>1, <1>2, <1>3, <1>4, <1>5, <1>6, <1>7, <1>8, <1>9, <1>10, <1>11, <1>12, <1>13
     DEF LogNext, Quiescent

-----------------------------------------------------------------------------
(***************************************************************************)
(* Conservation.                                                           *)
(***************************************************************************)
LEMMA NextConserves ==
    ASSUME LogTypeOK, WritersHaveEntries, NothingLostOrReordered, [LogNext]_logVars
    PROVE  NothingLostOrReordered'
<1>1. hand = NoEntry <=> hand \notin Entries
  BY NoEntryIsNoEntry DEF LogTypeOK
<1>2. InHand \in Seq(Entries)
  BY DEF LogTypeOK, InHand
<1>3. CASE UNCHANGED <<sent, file, hand, ch>>
  BY <1>3 DEF NothingLostOrReordered, InHand
<1>4. ASSUME NEW w \in Writers, SendEntry(w) PROVE NothingLostOrReordered'
  <2>1. entry[w] \in Entries
    BY <1>4 DEF SendEntry, WritersHaveEntries
  <2>2. sent' = Append(file \o InHand \o ch, entry[w])
    BY <1>4 DEF SendEntry, NothingLostOrReordered
  <2>3. file \in Seq(Entries) /\ ch \in Seq(Entries)
    BY DEF LogTypeOK
  <2>4. Append(file \o InHand \o ch, entry[w]) = file \o InHand \o Append(ch, entry[w])
    BY <2>1, <2>3, <1>2, AppendToBuffer
  <2>. QED
    BY <1>4, <2>2, <2>4 DEF SendEntry, NothingLostOrReordered, InHand, writer
<1>5. CASE TakeEntry
  <2>1. InHand = <<>> /\ hand' \in Entries
    BY <1>5 DEF TakeEntry, InHand, LogTypeOK
  <2>2. InHand' = <<Head(ch)>>
    BY <1>5, <2>1, NoEntryIsNoEntry DEF TakeEntry, InHand
  <2>3. file \o <<>> \o ch = file \o <<Head(ch)>> \o Tail(ch)
    BY <1>5, MoveHead DEF TakeEntry, LogTypeOK
  <2>. QED
    BY <1>5, <2>1, <2>2, <2>3 DEF TakeEntry, NothingLostOrReordered
<1>6. CASE EncodeEntry
  <2>1. hand \in Entries /\ InHand = <<hand>> /\ InHand' = <<>>
    BY <1>6, <1>1 DEF EncodeEntry, InHand
  <2>2. file \o <<hand>> \o ch = Append(file, hand) \o <<>> \o ch
    BY <2>1, MoveOne DEF LogTypeOK
  <2>. QED
    BY <1>6, <2>1, <2>2 DEF EncodeEntry, NothingLostOrReordered
<1>7. [LogNext]_logVars => \/ UNCHANGED <<sent, file, hand, ch>>
                           \/ \E w \in Writers : SendEntry(w)
                           \/ TakeEntry
                           \/ EncodeEntry
  BY DEF LogNext, SetLevel, CallWrite, FilterEntry, GiveUp, SeeStop, ExitLoop,
         SwapClosed, CloseStopCh, CloseWaitReturns, Quiescent, logVars, writer
<1>. QED
  BY <1>3, <1>4, <1>5, <1>6, <1>7

-----------------------------------------------------------------------------
(***************************************************************************)
(* The shutdown protocol.                                                  *)
(***************************************************************************)
Past == {"stopping", "waiting", "flushed"}

LEMMA NextCloseProtocol ==
    ASSUME LogTypeOK, WritersHaveEntries, NothingLostOrReordered, CloseProtocol, [LogNext]_logVars
    PROVE  CloseProtocol'
<1> USE DEF CloseProtocol, OneFlusher, FlusherHasClosed, StopIsSignalledOnce, StopAfterClosed,
            LoopEndsAfterStop, ExitedEmptyHanded, FlushedAfterExit, StopPointInRange
<1>1. Len(sent) \in Nat /\ Len(file) \in Nat /\ sentAtStop \in Nat
  BY DEF LogTypeOK
<1>2. CASE UNCHANGED <<sent, file, hand, loop, closing>>
  BY <1>2 DEF closing
<1>3. ASSUME NEW w \in Writers, SendEntry(w) PROVE CloseProtocol'
  <2>1. Len(sent') = Len(sent) + 1
    BY <1>3 DEF SendEntry, LogTypeOK, WritersHaveEntries
  <2>. QED  BY <1>1, <1>3, <2>1 DEF SendEntry, closing, writer
<1>4. CASE TakeEntry
  BY <1>4 DEF TakeEntry, closing
<1>5. CASE EncodeEntry
  <2>1. hand \in Entries /\ Len(file') = Len(file) + 1
    BY <1>5 DEF EncodeEntry, LogTypeOK
  <2>. QED  BY <1>1, <1>5, <2>1 DEF EncodeEntry, closing
<1>6. CASE SeeStop
  BY <1>6 DEF SeeStop, closing
<1>7. CASE ExitLoop
  <2>1. sent = file \o <<>> \o <<>> /\ file \in Seq(Entries)
    BY <1>7 DEF ExitLoop, NothingLostOrReordered, InHand, LogTypeOK
  <2>2. Len(sent) = Len(file)
    BY <2>1
  <2>. QED  BY <1>1, <1>7, <2>2 DEF ExitLoop, closing
<1>8. ASSUME NEW c \in Closers, SwapClosed(c) PROVE CloseProtocol'
  <2>1. cpc \in [Closers -> Past \cup {"idle", "returned"}]
    BY DEF LogTypeOK, Past
  <2>2. \A d \in Closers : cpc'[d] = IF d = c THEN IF closed THEN "returned" ELSE "stopping"
                                              ELSE cpc[d]
    BY <1>8, <2>1 DEF SwapClosed
  <2>3. ~closed => \A d \in Closers : cpc[d] \notin Past
    BY DEF Past
  <2>. QED  BY <1>8, <2>2, <2>3 DEF SwapClosed, Past, writer
<1>9. ASSUME NEW c \in Closers, CloseStopCh(c) PROVE CloseProtocol'
  <2>1. cpc \in [Closers -> Past \cup {"idle", "returned"}]
    BY DEF LogTypeOK, Past
  <2>2. \A d \in Closers : cpc'[d] = IF d = c THEN "waiting" ELSE cpc[d]
    BY <1>9, <2>1 DEF CloseStopCh
  <2>3. loop = "select" /\ closed /\ \A d \in Closers : cpc[d] \in Past => d = c
    BY <1>9 DEF CloseStopCh, Past
  <2>. QED  BY <1>1, <1>9, <2>2, <2>3 DEF CloseStopCh, Past, writer
<1>10. ASSUME NEW c \in Closers, CloseWaitReturns(c) PROVE CloseProtocol'
  <2>1. cpc \in [Closers -> Past \cup {"idle", "returned"}]
    BY DEF LogTypeOK, Past
  <2>2. \A d \in Closers : cpc'[d] = IF d = c THEN "flushed" ELSE cpc[d]
    BY <1>10, <2>1 DEF CloseWaitReturns
  <2>. QED  BY <1>10, <2>2 DEF CloseWaitReturns, Past, writer
<1>11. [LogNext]_logVars => \/ UNCHANGED <<sent, file, hand, loop, closing>>
                            \/ \E w \in Writers : SendEntry(w)
                            \/ TakeEntry \/ EncodeEntry \/ SeeStop \/ ExitLoop
                            \/ \E c \in Closers :
                                  SwapClosed(c) \/ CloseStopCh(c) \/ CloseWaitReturns(c)
  BY DEF LogNext, SetLevel, CallWrite, FilterEntry, GiveUp, Quiescent, logVars, writer, closing
<1>. QED
  BY <1>2, <1>3, <1>4, <1>5, <1>6, <1>7, <1>8, <1>9, <1>10, <1>11

-----------------------------------------------------------------------------
(***************************************************************************)
(* Accounting: the writers past the closed check are the calls that are    *)
(* not counted yet.                                                        *)
(***************************************************************************)
Pending == {w \in Writers : wpc[w] # "idle"}

LEMMA PendingGrows ==
    ASSUME LogTypeOK, NEW w \in Writers, wpc[w] = "idle", NEW s, s # "idle",
           wpc' = [wpc EXCEPT ![w] = s]
    PROVE  Cardinality(Pending') = Cardinality(Pending) + 1
<1>1. IsFiniteSet(Pending)
  BY LogAssumption, FS_Subset DEF Pending
<1>2. Pending' = Pending \cup {w} /\ w \notin Pending
  BY DEF Pending, LogTypeOK
<1>. QED  BY <1>1, <1>2, FS_AddElement

LEMMA PendingShrinks ==
    ASSUME LogTypeOK, NEW w \in Writers, wpc[w] # "idle", Return(w)
    PROVE  Cardinality(Pending') = Cardinality(Pending) - 1
<1>1. IsFiniteSet(Pending)
  BY LogAssumption, FS_Subset DEF Pending
<1>2. Pending' = Pending \ {w} /\ w \in Pending
  BY DEF Pending, LogTypeOK, Return
<1>. QED  BY <1>1, <1>2, FS_RemoveElement

LEMMA NextAccounts ==
    ASSUME LogTypeOK, WritersHaveEntries, EveryWriteIsAccounted, [LogNext]_logVars
    PROVE  EveryWriteIsAccounted'
<1> DEFINE Told == Len(sent) + dropped + levelFiltered + errors
<1>1. calls = Told + Cardinality(Pending)
  BY DEF EveryWriteIsAccounted, Pending
<1>2. /\ calls \in Int /\ Told \in Int /\ Cardinality(Pending) \in Int
      /\ Len(sent) \in Int /\ dropped \in Int /\ levelFiltered \in Int /\ errors \in Int
  <2>1. IsFiniteSet(Pending)
    BY LogAssumption, FS_Subset DEF Pending
  <2>. QED  BY <2>1, FS_CardinalityType, LogAssumption DEF LogTypeOK
<1>3. SUFFICES calls' = Told' + Cardinality(Pending')
  BY DEF EveryWriteIsAccounted, Pending
<1>4. CASE UNCHANGED <<calls, sent, counters, wpc>>
  BY <1>1, <1>4 DEF counters, Pending
<1>5. ASSUME NEW w \in Writers, NEW human \in BOOLEAN, CallWrite(w, human)
      PROVE  calls' = Told' + Cardinality(Pending')
  <2>1. CASE closed
    BY <1>1, <1>2, <1>5, <2>1 DEF CallWrite, Pending
  <2>2. CASE ~closed
    <3>1. Cardinality(Pending') = Cardinality(Pending) + 1
      <4>1. wpc[w] = "idle" /\ wpc' = [wpc EXCEPT ![w] = "level"] /\ "level" # "idle"
        BY <1>5, <2>2 DEF CallWrite
      <4>. QED  BY <4>1, PendingGrows, Zenon
    <3>. QED  BY <1>1, <1>2, <1>5, <2>2, <3>1 DEF CallWrite
  <2>. QED  BY <2>1, <2>2
<1>6. ASSUME NEW w \in Writers, FilterEntry(w)
      PROVE  calls' = Told' + Cardinality(Pending')
  <2>1. CASE Filtered(level, entry[w])
    BY <1>1, <1>2, <1>6, <2>1, PendingShrinks DEF FilterEntry
  <2>2. CASE ~Filtered(level, entry[w])
    <3>1. Pending' = Pending
      BY <1>6, <2>2 DEF FilterEntry, Pending, LogTypeOK
    <3>. QED  BY <1>1, <1>6, <2>2, <3>1 DEF FilterEntry
  <2>. QED  BY <2>1, <2>2
<1>7. ASSUME NEW w \in Writers, SendEntry(w)
      PROVE  calls' = Told' + Cardinality(Pending')
  <2>1. Len(sent') = Len(sent) + 1
    BY <1>7 DEF SendEntry, LogTypeOK, WritersHaveEntries
  <2>2. Cardinality(Pending') = Cardinality(Pending) - 1
    BY <1>7, PendingShrinks DEF SendEntry
  <2>. QED  BY <1>1, <1>2, <1>7, <2>1, <2>2 DEF SendEntry, counters
<1>8. ASSUME NEW w \in Writers, GiveUp(w)
      PROVE  calls' = Told' + Cardinality(Pending')
  <2>1. \/ dropped' = dropped + 1 /\ errors' = errors
        \/ dropped' = dropped /\ errors' = errors + 1
    BY <1>8 DEF GiveUp, CountLoss
  <2>2. calls' = calls /\ sent' = sent /\ levelFiltered' = levelFiltered
    BY <1>8 DEF GiveUp
  <2>3. Cardinality(Pending') = Cardinality(Pending) - 1
    BY <1>8, PendingShrinks DEF GiveUp
  <2>. QED  BY <1>1, <1>2, <2>1, <2>2, <2>3
<1>9. [LogNext]_logVars => \/ UNCHANGED <<calls, sent, counters, wpc>>
                           \/ \E w \in Writers, human \in BOOLEAN : CallWrite(w, human)
                           \/ \E w \in Writers : FilterEntry(w) \/ SendEntry(w) \/ GiveUp(w)
  BY DEF LogNext, SetLevel, TakeEntry, EncodeEntry, SeeStop, ExitLoop, SwapClosed,
         CloseStopCh, CloseWaitReturns, Quiescent, logVars, writing
<1>. QED  BY <1>4, <1>5, <1>6, <1>7, <1>8, <1>9

-----------------------------------------------------------------------------
(***************************************************************************)
(* The inductive invariant and what follows from it.                       *)
(***************************************************************************)
LogInv ==
    /\ LogTypeOK
    /\ WritersHaveEntries
    /\ NothingLostOrReordered
    /\ CloseProtocol
    /\ EveryWriteIsAccounted

LEMMA InitLogInv == LogInit => LogInv
<1> SUFFICES ASSUME LogInit PROVE LogInv
  OBVIOUS
<1>1. LogTypeOK
  BY InitLogTypeOK
<1>2. NothingLostOrReordered
  BY DEF LogInit, NothingLostOrReordered, InHand
<1>3. WritersHaveEntries /\ CloseProtocol
  BY DEF LogInit, WritersHaveEntries, CloseProtocol, OneFlusher, FlusherHasClosed,
         StopIsSignalledOnce, StopAfterClosed, LoopEndsAfterStop, ExitedEmptyHanded,
         FlushedAfterExit, StopPointInRange
<1>4. EveryWriteIsAccounted
  <2>1. {w \in Writers : wpc[w] # "idle"} = {}
    BY DEF LogInit
  <2>2. Cardinality({}) = 0
    BY FS_EmptySet
  <2>3. calls = 0 /\ Len(sent) = 0 /\ dropped = 0 /\ levelFiltered = 0 /\ errors = 0
    BY DEF LogInit
  <2>. QED  BY <2>1, <2>2, <2>3 DEF EveryWriteIsAccounted
<1>. QED  BY <1>1, <1>2, <1>3, <1>4 DEF LogInv

(***************************************************************************)
(* The invariant holds of every behaviour of the audit log.                *)
(***************************************************************************)
THEOREM LogInvariant == LogSpec => []LogInv
<1>1. LogInv /\ [LogNext]_logVars => LogInv'
  BY NextLogTypeOK, NextConserves, NextCloseProtocol, NextAccounts DEF LogInv
<1>. QED  BY InitLogInv, <1>1, PTL DEF LogSpec

(***************************************************************************)
(* Type correctness; in particular the channel never exceeds its capacity. *)
(***************************************************************************)
THEOREM LogTypeCorrect == LogSpec => []LogTypeOK
<1>1. LogInv => LogTypeOK
  BY DEF LogInv
<1>. QED  BY LogInvariant, <1>1, PTL

(***************************************************************************)
(* No entry that Write enqueued is lost, duplicated or reordered before it *)
(* is encoded, however Close races with it (audit.go, #208).               *)
(***************************************************************************)
THEOREM EntriesAreConserved == LogSpec => []NothingLostOrReordered
<1>1. LogInv => NothingLostOrReordered
  BY DEF LogInv
<1>. QED  BY LogInvariant, <1>1, PTL

(***************************************************************************)
(* The Close that stops the writer goroutine returns only after every      *)
(* entry enqueued before stopCh was closed has been encoded.               *)
(***************************************************************************)
THEOREM CloseFlushes == LogSpec => []FlushedOnClose
<1>1. LogInv => FlushedOnClose
  BY DEF LogInv, CloseProtocol, FlushedAfterExit, ExitedEmptyHanded, FlushedOnClose
<1>. QED  BY LogInvariant, <1>1, PTL

(***************************************************************************)
(* Each returned call of Write is enqueued, dropped and counted, filtered  *)
(* and counted, or refused with an error.                                  *)
(***************************************************************************)
THEOREM WritesAreAccounted == LogSpec => []EveryWriteIsAccounted
<1>1. LogInv => EveryWriteIsAccounted
  BY DEF LogInv
<1>. QED  BY LogInvariant, <1>1, PTL
=============================================================================
