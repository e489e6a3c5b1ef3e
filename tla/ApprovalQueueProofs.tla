------------------------ MODULE ApprovalQueueProofs ------------------------
(***************************************************************************)
(* Proofs about ApprovalQueue for every set of requests, keys, operators   *)
(* and parameters: the inductive invariant IInv, the safety invariants it  *)
(* implies, and the refinement of HoldContract.                            *)
(***************************************************************************)
EXTENDS ApprovalQueue, FiniteSetTheorems, TLAPS

(***************************************************************************)
(* The inductive invariant, part by part.                                  *)
(***************************************************************************)

\* A goroutine that owns a claimed hold.
Owns(t, h) == job[t].phase \in {"send", "persist"} /\ job[t].hold = h

\* The program counter of a handler tells what it has.
HandlerInv ==
    \A r \in Requests :
        /\ pc[r] = "start" <=> hold[r] = None /\ dec[r] = None
        /\ pc[r] = "done" <=> dec[r] # None
        /\ hold[r] = None => dec[r] \in {None, QueueFull} /\ ch[r] = None
        /\ hold[r] # None => dec[r] # QueueFull

\* A hold id is its minting request; members of a hold share its key.
MintInv ==
    /\ \A r \in Requests :
          hold[r] # None => hold[hold[r]] = hold[r] /\ KeyOf[hold[r]] = KeyOf[r]
    /\ \A h \in Requests :
          /\ hold[h] # h => h \notin items /\ ~resolved[h] /\ verdict[h] = None
          /\ hold[h] = h => (h \in items <=> ~resolved[h])
          /\ verdict[h] # None => resolved[h]
          /\ verdict[h] \in Verdicts \cup {None}

\* A pending hold's waiters are its unanswered members.
WaiterInv ==
    /\ \A h \in items :
          /\ waiters[h] # {}
          /\ \A r \in Requests : r \in waiters[h] <=> hold[r] = h /\ dec[r] = None
          /\ \A r \in waiters[h] :
                ch[r] = None /\ pc[r] \in {"enqueued", "select", "fired"}
    /\ \A h \in Requests : \A r \in waiters[h] : hold[r] = h

\* A broadcasting goroutine carries the verdict of its hold to its members.
SendInv ==
    \A t \in Threads :
        job[t].phase \in {"send", "persist"} =>
            /\ job[t].hold \in Requests
            /\ job[t].decision = verdict[job[t].hold]
            /\ verdict[job[t].hold] # None
            /\ \A r \in job[t].todo : hold[r] = job[t].hold

\* At most one goroutine owns a hold.
OwnerInv ==
    \A s, t \in Threads : \A h \in Requests : Owns(s, h) /\ Owns(t, h) => s = t

\* What each kind of goroutine can be doing.
KindInv ==
    /\ \A o \in Operators :
          /\ job[OperatorThread(o)].phase # "fired"
          /\ job[OperatorThread(o)].phase # "idle" =>
                job[OperatorThread(o)].decision \in OperatorVerdicts
    /\ \A h \in Requests : job[AdvisorThread(h)].phase \in {"idle", "send"}
    /\ \A r \in Requests : job[TimerThread(r)].phase # "persist"

\* A handler and its timer agree.
TimerInv ==
    \A r \in Requests :
        /\ pc[r] = "sending" <=> job[TimerThread(r)].phase = "send"
        /\ pc[r] = "sending" => job[TimerThread(r)].hold = hold[r]
        /\ pc[r] = "fired" =>
              job[TimerThread(r)].decision
                  \in {TimeoutDecision("allow"), TimeoutDecision("deny")}

JobInv == SendInv /\ OwnerInv /\ KindInv /\ TimerInv

\* What a member of a hold has been sent or told is the verdict of the hold,
\* and what it has not is still on its way.
DeliveryInv ==
    \A r \in Requests :
        /\ ch[r] # None => ch[r] = verdict[hold[r]]
        /\ hold[r] # None /\ dec[r] \notin {None, Disconnected}
              => dec[r] = verdict[hold[r]]
        /\ hold[r] # None /\ dec[r] = None /\ resolved[hold[r]] =>
              /\ verdict[hold[r]] # None
              /\ \/ ch[r] # None
                 \/ pc[r] = "sending"
                 \/ \E t \in Threads : job[t].phase = "send" /\ r \in job[t].todo
        /\ hold[r] # None /\ verdict[hold[r]] = None
              => dec[r] \in {None, Disconnected}

\* A persisted verdict is an operator's, and its hold has no owner any more.
PersistInv ==
    \A p \in persisted :
        /\ verdict[p.hold] = OperatorDecision(p.effect)
        /\ \A q \in persisted : q.hold = p.hold => q = p
        /\ \A t \in Threads : ~Owns(t, p.hold)

IInv == /\ TypeOK /\ IndexesInLockstep
        /\ HandlerInv /\ MintInv /\ WaiterInv /\ JobInv /\ DeliveryInv /\ PersistInv

-----------------------------------------------------------------------------
(***************************************************************************)
(* Facts about decisions and threads, so that proofs below need not open   *)
(* their definitions.                                                      *)
(***************************************************************************)

\* No verdict reads as a disconnect or as a refusal, and only operators'
\* verdicts are operators' (the sources and reasons in Wait and Approve).
LEMMA DecisionFacts ==
    /\ Verdicts \subseteq Decisions
    /\ OperatorVerdicts \subseteq Verdicts
    /\ None \notin Decisions
    /\ Disconnected \in Decisions /\ QueueFull \in Decisions
    /\ Disconnected \notin Verdicts /\ QueueFull \notin Verdicts
    /\ Disconnected # QueueFull
    /\ ShutdownDecision \in Verdicts
    /\ TimeoutDecision("allow") \in Verdicts /\ TimeoutDecision("deny") \in Verdicts
    /\ \A policy : TimeoutDecision(policy)
                      \in {TimeoutDecision("allow"), TimeoutDecision("deny")}
    /\ OperatorDecision("allow") # OperatorDecision("deny")
    /\ \A effect \in {"allow", "deny"} :
          OperatorDecision(effect) \in OperatorVerdicts
    /\ \A effect \in {"allow", "deny"} :
          AdvisorDecision(effect) \in Verdicts
    /\ \A d \in OperatorVerdicts :
          d = OperatorDecision(IF d = OperatorDecision("allow") THEN "allow" ELSE "deny")
BY ConstantsAssumption
   DEF Verdicts, OperatorVerdicts, Decisions, Disconnected, QueueFull, Decision,
       ShutdownDecision, TimeoutDecision, OperatorDecision, AdvisorDecision,
       Effects, Sources, Reasons

\* The threads of the three kinds are distinct.
LEMMA ThreadFacts ==
    /\ \A o \in Operators : OperatorThread(o) \in Threads
    /\ \A r \in Requests : AdvisorThread(r) \in Threads /\ TimerThread(r) \in Threads
    /\ \A t \in Threads : \/ \E o \in Operators : t = OperatorThread(o)
                          \/ \E r \in Requests : t = AdvisorThread(r)
                          \/ \E r \in Requests : t = TimerThread(r)
    /\ \A x, y : /\ OperatorThread(x) # AdvisorThread(y)
                 /\ OperatorThread(x) # TimerThread(y)
                 /\ AdvisorThread(x) # TimerThread(y)
                 /\ OperatorThread(x) = OperatorThread(y) => x = y
                 /\ AdvisorThread(x) = AdvisorThread(y) => x = y
                 /\ TimerThread(x) = TimerThread(y) => x = y
BY DEF Threads, OperatorThread, AdvisorThread, TimerThread

\* What the proofs below need of the type invariant, pointwise.
LEMMA Shapes ==
    ASSUME TypeOK
    PROVE  /\ items \subseteq Requests
           /\ \A h \in Requests : waiters[h] \subseteq Requests
           /\ \A r \in Requests : hold[r] \in Requests \cup {None}
           /\ \A k \in Keys : byKey[k] \in Requests \cup {None}
           /\ \A h \in Requests : resolved[h] \in BOOLEAN
           /\ \A t \in Threads : job[t].todo \subseteq Requests
           /\ \A p \in persisted : p.hold \in Requests
BY DEF TypeOK, Jobs

LEMMA JobShape ==
    ASSUME TypeOK
    PROVE  /\ DOMAIN job = Threads
           /\ \A s \in Threads : job[s] \in Jobs
BY DEF TypeOK

\* Changing the phase of one thread's job changes nothing else of any job.
LEMMA PhaseSet ==
    ASSUME TypeOK, NEW t \in Threads, NEW v,
           job' = [job EXCEPT ![t].phase = v]
    PROVE  \A s \in Threads :
              /\ job'[s].phase = IF s = t THEN v ELSE job[s].phase
              /\ job'[s].hold = job[s].hold
              /\ job'[s].decision = job[s].decision
              /\ job'[s].todo = job[s].todo
<1> DEFINE new == [job[t] EXCEPT !.phase = v]
<1>1. DOMAIN job = Threads /\ job[t] \in Jobs
  BY JobShape
<1>2. \A s \in Threads : job'[s] = IF s = t THEN new ELSE job[s]
  BY <1>1
<1>3. /\ new.phase = v
      /\ new.hold = job[t].hold
      /\ new.decision = job[t].decision
      /\ new.todo = job[t].todo
  BY <1>1 DEF Jobs
<1> HIDE DEF new
<1> SUFFICES ASSUME NEW s \in Threads
             PROVE  /\ job'[s].phase = IF s = t THEN v ELSE job[s].phase
                    /\ job'[s].hold = job[s].hold
                    /\ job'[s].decision = job[s].decision
                    /\ job'[s].todo = job[s].todo
  OBVIOUS
<1>4. CASE s = t
  BY <1>2, <1>3, <1>4
<1>5. CASE s # t
  BY <1>2, <1>5
<1> QED BY <1>4, <1>5

-----------------------------------------------------------------------------
LEMMA CoalesceStep ==
    ASSUME IInv, NEW r \in Requests, Coalesce(r)
    PROVE  IInv'
<1> DEFINE h == byKey[KeyOf[r]]
<1> USE ConstantsAssumption DEF IInv, JobInv
<1>1. /\ h \in items /\ h \in Requests /\ hold[h] = h /\ h # r
      /\ hold[r] = None /\ dec[r] = None /\ ch[r] = None /\ ~resolved[h]
      /\ KeyOf[h] = KeyOf[r] /\ pc[r] = "start"
  <2>1. pc[r] = "start" /\ h # None /\ ~resolved[h]
    BY DEF Coalesce, CanCoalesce
  <2>2. hold[r] = None /\ dec[r] = None /\ ch[r] = None
    BY <2>1 DEF HandlerInv
  <2>3. h \in items /\ h \in Requests /\ KeyOf[h] = KeyOf[r]
    BY <2>1 DEF IndexesInLockstep, TypeOK
  <2>4. hold[h] = h
    BY <2>3 DEF MintInv
  <2> QED BY <2>1, <2>2, <2>3, <2>4
<1>2. /\ waiters' = [waiters EXCEPT ![h] = @ \cup {r}]
      /\ hold' = [hold EXCEPT ![r] = h]
      /\ pc' = [pc EXCEPT ![r] = "enqueued"]
      /\ UNCHANGED <<maxPending, onTimeout, items, byKey, resolved, ch,
                     dec, job, persisted, verdict>>
  BY DEF Coalesce, config
<1> HIDE DEF h
<1>3. TypeOK'
  <2>1. waiters' \in [Requests -> SUBSET Requests]
    BY <1>1, <1>2 DEF TypeOK
  <2>2. hold' \in [Requests -> Requests \cup {None}]
    BY <1>1, <1>2 DEF TypeOK
  <2>3. pc' \in [Requests -> PcValues]
    BY <1>1, <1>2 DEF TypeOK, PcValues
  <2> QED BY <1>2, <2>1, <2>2, <2>3 DEF TypeOK
<1>4. IndexesInLockstep'
  BY <1>2 DEF IndexesInLockstep
<1>11. /\ \A q \in Requests : hold'[q] = IF q = r THEN h ELSE hold[q]
       /\ \A q \in Requests : pc'[q] = IF q = r THEN "enqueued" ELSE pc[q]
  BY <1>1, <1>2 DEF TypeOK
<1>5. HandlerInv'
  <2>1. HandlerInv /\ h # None /\ "enqueued" \notin {"start", "done"}
    BY <1>1
  <2> HIDE DEF IInv, JobInv
  <2> SUFFICES ASSUME NEW q \in Requests
               PROVE  /\ pc'[q] = "start" <=> hold'[q] = None /\ dec[q] = None
                      /\ pc'[q] = "done" <=> dec[q] # None
                      /\ hold'[q] = None => dec[q] \in {None, QueueFull} /\ ch[q] = None
                      /\ hold'[q] # None => dec[q] # QueueFull
    BY <1>2 DEF HandlerInv
  <2>2. CASE q = r
    BY <1>1, <1>11, <2>1, <2>2, DecisionFacts
  <2>3. CASE q # r
    BY <1>11, <2>1, <2>3 DEF HandlerInv
  <2> QED BY <2>2, <2>3
<1>6. MintInv'
  BY <1>1, <1>2, <1>11, Shapes DEF MintInv
<1>7. WaiterInv'
  <2>1. /\ \A g \in Requests : waiters'[g] = IF g = h THEN waiters[h] \cup {r} ELSE waiters[g]
        /\ \A q \in Requests : hold'[q] = IF q = r THEN h ELSE hold[q]
        /\ \A q \in Requests : pc'[q] = IF q = r THEN "enqueued" ELSE pc[q]
        /\ items' = items /\ ch' = ch /\ dec' = dec /\ items \subseteq Requests
        /\ \A g \in Requests : waiters[g] \subseteq Requests
    BY <1>1, <1>2 DEF TypeOK
  <2>2. \A g \in Requests : r \notin waiters[g]
    BY <1>1 DEF WaiterInv
  <2> QED BY <1>1, <2>1, <2>2 DEF WaiterInv
<1>8. JobInv'
  <2>1. \A q \in Requests : hold'[q] = IF q = r THEN h ELSE hold[q]
    BY <1>1, <1>2 DEF TypeOK
  <2>2. \A q \in Requests : pc'[q] = IF q = r THEN "enqueued" ELSE pc[q]
    BY <1>1, <1>2 DEF TypeOK
  <2>3. \A t \in Threads : job[t].todo \subseteq Requests
    BY DEF TypeOK, Jobs
  <2>4. \A t \in Threads : job[t].phase \in {"send", "persist"} => r \notin job[t].todo
    BY <1>1 DEF SendInv
  <2>5. SendInv'
    BY <1>1, <1>2, <2>1, <2>2, <2>3, <2>4 DEF SendInv
  <2>6. OwnerInv'
    BY <1>1, <1>2, <2>1, <2>2, <2>3, <2>4 DEF OwnerInv, Owns
  <2>7. KindInv'
    BY <1>1, <1>2, <2>1, <2>2, <2>3, <2>4 DEF KindInv
  <2>8. TimerInv'
    BY <1>1, <1>2, <2>1, <2>2, <2>3, <2>4 DEF TimerInv
  <2> QED BY <2>5, <2>6, <2>7, <2>8
<1>9. DeliveryInv'
  <2>1. \A q \in Requests : hold'[q] = IF q = r THEN h ELSE hold[q]
    BY <1>1, <1>2 DEF TypeOK
  <2>2. \A q \in Requests : pc'[q] = IF q = r THEN "enqueued" ELSE pc[q]
    BY <1>1, <1>2 DEF TypeOK
  <2>3. verdict[h] = None
    BY <1>1 DEF MintInv
  <2> QED BY <1>1, <1>2, <2>1, <2>2, <2>3 DEF DeliveryInv
<1>10. PersistInv'
  BY <1>2 DEF PersistInv, Owns
<1> QED BY <1>3, <1>4, <1>5, <1>6, <1>7, <1>8, <1>9, <1>10

LEMMA RefuseFullStep ==
    ASSUME IInv, NEW r \in Requests, RefuseFull(r)
    PROVE  IInv'
<1> USE ConstantsAssumption DEF IInv, JobInv
<1>1. pc[r] = "start" /\ hold[r] = None /\ dec[r] = None /\ ch[r] = None
  BY DEF RefuseFull, HandlerInv
<1>2. /\ \A q \in Requests : pc'[q] = IF q = r THEN "done" ELSE pc[q]
      /\ \A q \in Requests : dec'[q] = IF q = r THEN QueueFull ELSE dec[q]
      /\ pc' \in [Requests -> PcValues]
      /\ dec' \in [Requests -> Decisions \cup {None}]
      /\ UNCHANGED <<maxPending, onTimeout, items, byKey, waiters, resolved, hold,
                     ch, job, persisted, verdict>>
  BY DecisionFacts DEF RefuseFull, config, index, TypeOK, PcValues
<1>3. TypeOK'
  BY <1>2 DEF TypeOK
<1>4. IndexesInLockstep'
  BY <1>2 DEF IndexesInLockstep
<1>5. HandlerInv'
  BY <1>1, <1>2, DecisionFacts DEF HandlerInv
<1>6. MintInv'
  BY <1>2 DEF MintInv
<1>7. WaiterInv'
  BY <1>1, <1>2, Shapes DEF WaiterInv
<1>8. JobInv'
  <2>1. SendInv'
    BY <1>1, <1>2 DEF SendInv
  <2>2. OwnerInv'
    BY <1>1, <1>2 DEF OwnerInv, Owns
  <2>3. KindInv'
    BY <1>1, <1>2 DEF KindInv
  <2>4. TimerInv'
    BY <1>1, <1>2 DEF TimerInv
  <2> QED BY <2>1, <2>2, <2>3, <2>4
<1>9. DeliveryInv'
  BY <1>1, <1>2 DEF DeliveryInv
<1>10. PersistInv'
  BY <1>2 DEF PersistInv, Owns
<1> QED BY <1>3, <1>4, <1>5, <1>6, <1>7, <1>8, <1>9, <1>10

LEMMA MintStep ==
    ASSUME IInv, NEW r \in Requests, Mint(r)
    PROVE  IInv'
<1> USE ConstantsAssumption DEF IInv, JobInv
<1>1. /\ pc[r] = "start" /\ hold[r] = None /\ dec[r] = None /\ ch[r] = None
      /\ r \notin items /\ ~resolved[r] /\ verdict[r] = None
      /\ \A q \in Requests : hold[q] # r
      /\ byKey[KeyOf[r]] = None
  <2>1. pc[r] = "start" /\ hold[r] = None /\ dec[r] = None /\ ch[r] = None
    BY DEF Mint, HandlerInv
  <2>2. r \notin items /\ ~resolved[r] /\ verdict[r] = None
    BY <2>1 DEF MintInv
  <2>3. \A q \in Requests : hold[q] # r
    BY <2>1 DEF MintInv
  <2>4. byKey[KeyOf[r]] = None
    BY DEF Mint, CanCoalesce, IndexesInLockstep
  <2> QED BY <2>1, <2>2, <2>3, <2>4
<1>2. /\ items' = items \cup {r}
      /\ \A k \in Keys : byKey'[k] = IF k = KeyOf[r] THEN r ELSE byKey[k]
      /\ \A h \in Requests : waiters'[h] = IF h = r THEN {r} ELSE waiters[h]
      /\ \A q \in Requests : hold'[q] = IF q = r THEN r ELSE hold[q]
      /\ \A q \in Requests : pc'[q] = IF q = r THEN "enqueued" ELSE pc[q]
      /\ UNCHANGED <<maxPending, onTimeout, resolved, ch, dec, job,
                     persisted, verdict>>
  BY DEF Mint, config, TypeOK
<1>3. TypeOK'
  <2>1. IsFiniteSet(items')
    BY <1>2, FS_AddElement DEF TypeOK
  <2> QED BY <2>1 DEF TypeOK, Mint, PcValues, config
<1>4. IndexesInLockstep'
  BY <1>1, <1>2, Shapes DEF IndexesInLockstep
<1>5. HandlerInv'
  BY <1>1, <1>2, DecisionFacts DEF HandlerInv
<1>6. MintInv'
  BY <1>1, <1>2, Shapes DEF MintInv
<1>7. WaiterInv'
  BY <1>1, <1>2, Shapes DEF WaiterInv
<1>8. JobInv'
  <2>1. \A t \in Threads : job[t].todo \subseteq Requests
    BY DEF TypeOK, Jobs
  <2>2. \A t \in Threads : job[t].phase \in {"send", "persist"} => r \notin job[t].todo
    BY <1>1 DEF SendInv
  <2>3. SendInv'
    BY <1>1, <1>2, <2>1, <2>2 DEF SendInv
  <2>4. OwnerInv'
    BY <1>1, <1>2, <2>1, <2>2 DEF OwnerInv, Owns
  <2>5. KindInv'
    BY <1>1, <1>2, <2>1, <2>2 DEF KindInv
  <2>6. TimerInv'
    BY <1>1, <1>2, <2>1, <2>2 DEF TimerInv
  <2> QED BY <2>3, <2>4, <2>5, <2>6
<1>9. DeliveryInv'
  BY <1>1, <1>2 DEF DeliveryInv, MintInv
<1>10. PersistInv'
  BY <1>2 DEF PersistInv, Owns
<1> QED BY <1>3, <1>4, <1>5, <1>6, <1>7, <1>8, <1>9, <1>10

LEMMA ArmTimerStep ==
    ASSUME IInv, NEW r \in Requests, ArmTimer(r)
    PROVE  IInv'
<1> USE ConstantsAssumption DEF IInv, JobInv
<1>1. /\ pc[r] = "enqueued"
      /\ \A q \in Requests : pc'[q] = IF q = r THEN "select" ELSE pc[q]
      /\ UNCHANGED <<maxPending, onTimeout, items, byKey, waiters, resolved, hold,
                     ch, dec, job, persisted, verdict>>
  BY DEF ArmTimer, config, index, TypeOK
<1>2. TypeOK'
  BY DEF ArmTimer, config, index, TypeOK, PcValues
<1>3. IndexesInLockstep'
  BY <1>1 DEF IndexesInLockstep
<1>4. HandlerInv'
  BY <1>1 DEF HandlerInv
<1>5. MintInv'
  BY <1>1 DEF MintInv
<1>6. WaiterInv'
  BY <1>1, Shapes DEF WaiterInv
<1>7. JobInv'
  <2>1. SendInv'
    BY <1>1 DEF SendInv
  <2>2. OwnerInv'
    BY <1>1 DEF OwnerInv, Owns
  <2>3. KindInv'
    BY <1>1 DEF KindInv
  <2>4. TimerInv'
    BY <1>1 DEF TimerInv
  <2> QED BY <2>1, <2>2, <2>3, <2>4
<1>8. DeliveryInv'
  BY <1>1 DEF DeliveryInv
<1>9. PersistInv'
  BY <1>1 DEF PersistInv, Owns
<1> QED BY <1>2, <1>3, <1>4, <1>5, <1>6, <1>7, <1>8, <1>9

LEMMA ReceiveStep ==
    ASSUME IInv, NEW r \in Requests, Receive(r)
    PROVE  IInv'
<1> USE ConstantsAssumption DEF IInv, JobInv
<1>1. /\ pc[r] \in {"select", "receive"} /\ ch[r] # None
      /\ hold[r] \in Requests /\ dec[r] = None /\ ch[r] = verdict[hold[r]]
      /\ ch[r] \in Verdicts
  <2>1. pc[r] \in {"select", "receive"} /\ ch[r] # None
    BY DEF Receive
  <2>2. hold[r] \in Requests /\ dec[r] = None
    BY <2>1 DEF HandlerInv, TypeOK
  <2>3. ch[r] = verdict[hold[r]]
    BY <2>1 DEF DeliveryInv
  <2> QED BY <2>1, <2>2, <2>3 DEF MintInv
<1>2. /\ \A q \in Requests : pc'[q] = IF q = r THEN "done" ELSE pc[q]
      /\ \A q \in Requests : dec'[q] = IF q = r THEN ch[r] ELSE dec[q]
      /\ \A q \in Requests : ch'[q] = IF q = r THEN None ELSE ch[q]
      /\ UNCHANGED <<maxPending, onTimeout, items, byKey, waiters, resolved, hold,
                     job, persisted, verdict>>
  BY DEF Receive, config, index, TypeOK
<1>3. TypeOK'
  BY DEF Receive, config, index, TypeOK, PcValues
<1>4. IndexesInLockstep'
  BY <1>2 DEF IndexesInLockstep
<1>5. HandlerInv'
  BY <1>1, <1>2, DecisionFacts DEF HandlerInv
<1>6. MintInv'
  BY <1>2 DEF MintInv
<1>7. WaiterInv'
  BY <1>1, <1>2, Shapes DEF WaiterInv, MintInv
<1>8. JobInv'
  <2>1. SendInv'
    BY <1>1, <1>2 DEF SendInv
  <2>2. OwnerInv'
    BY <1>1, <1>2 DEF OwnerInv, Owns
  <2>3. KindInv'
    BY <1>1, <1>2 DEF KindInv
  <2>4. TimerInv'
    BY <1>1, <1>2 DEF TimerInv
  <2> QED BY <2>1, <2>2, <2>3, <2>4
<1>9. DeliveryInv'
  BY <1>1, <1>2 DEF DeliveryInv
<1>10. PersistInv'
  BY <1>2 DEF PersistInv, Owns
<1> QED BY <1>3, <1>4, <1>5, <1>6, <1>7, <1>8, <1>9, <1>10

LEMMA TimerFireStep ==
    ASSUME IInv, NEW r \in Requests, TimerFire(r)
    PROVE  IInv'
<1> DEFINE me == TimerThread(r)
<1> USE ConstantsAssumption DEF IInv, JobInv
<1>1. /\ pc[r] = "select" /\ me \in Threads
      /\ job[me].phase \notin {"send", "persist"}
  BY ThreadFacts DEF TimerFire, KindInv, TimerInv
<1>2. /\ \A q \in Requests : pc'[q] = IF q = r THEN "fired" ELSE pc[q]
      /\ \A t \in Threads :
            job'[t] = IF t = me
                      THEN [phase |-> "fired", hold |-> None,
                            decision |-> TimeoutDecision(onTimeout), todo |-> {}]
                      ELSE job[t]
      /\ UNCHANGED <<maxPending, onTimeout, items, byKey, waiters, resolved, hold,
                     ch, dec, persisted, verdict>>
  BY DEF TimerFire, config, index, TypeOK, Idle
<1>3. TypeOK'
  <2>1. TimeoutDecision(onTimeout) \in Decisions
    BY DecisionFacts
  <2> QED BY <2>1 DEF TimerFire, config, index, TypeOK, PcValues, Jobs, Phases, Idle
<1> HIDE DEF me
<1>4. IndexesInLockstep'
  BY <1>2 DEF IndexesInLockstep
<1>5. HandlerInv'
  BY <1>1, <1>2 DEF HandlerInv
<1>6. MintInv'
  BY <1>2 DEF MintInv
<1>7. WaiterInv'
  BY <1>1, <1>2, Shapes DEF WaiterInv
<1>8. JobInv'
  <2>1. SendInv'
    BY <1>1, <1>2 DEF SendInv
  <2>2. OwnerInv'
    BY <1>1, <1>2 DEF OwnerInv, Owns
  <2>3. KindInv'
    BY <1>1, <1>2, ThreadFacts DEF KindInv, me
  <2>4. TimerInv'
    BY <1>1, <1>2, ThreadFacts, DecisionFacts DEF TimerInv, me
  <2> QED BY <2>1, <2>2, <2>3, <2>4
<1>9. DeliveryInv'
  BY <1>1, <1>2 DEF DeliveryInv
<1>10. PersistInv'
  BY <1>2 DEF PersistInv, Owns
<1> QED BY <1>3, <1>4, <1>5, <1>6, <1>7, <1>8, <1>9, <1>10

LEMMA TimerLosesStep ==
    ASSUME IInv, NEW r \in Requests, TimerLoses(r)
    PROVE  IInv'
<1> DEFINE me == TimerThread(r)
<1> USE ConstantsAssumption DEF IInv, JobInv
<1>1. /\ pc[r] = "fired" /\ me \in Threads
      /\ job[me].phase \notin {"send", "persist"}
      /\ hold[r] \in Requests /\ hold[r] \notin items
  <2>1. pc[r] = "fired" /\ me \in Threads /\ job[me].phase \notin {"send", "persist"}
    BY ThreadFacts DEF TimerLoses, KindInv, TimerInv
  <2>2. hold[r] \in Requests
    BY <2>1, Shapes DEF HandlerInv
  <2>3. hold[r] \notin items
    BY <2>1 DEF TimerLoses, Claimable, IndexesInLockstep
  <2> QED BY <2>1, <2>2, <2>3
<1>2. /\ \A q \in Requests : pc'[q] = IF q = r THEN "receive" ELSE pc[q]
      /\ \A t \in Threads : job'[t] = IF t = me THEN Idle ELSE job[t]
      /\ UNCHANGED <<maxPending, onTimeout, items, byKey, waiters, resolved, hold,
                     ch, dec, persisted, verdict>>
  BY DEF TimerLoses, config, index, TypeOK
<1>3. TypeOK'
  BY DEF TimerLoses, config, index, TypeOK, PcValues, Jobs, Phases, Idle
<1> HIDE DEF me
<1>4. IndexesInLockstep'
  BY <1>2 DEF IndexesInLockstep
<1>5. HandlerInv'
  BY <1>1, <1>2 DEF HandlerInv
<1>6. MintInv'
  BY <1>2 DEF MintInv
<1>7. WaiterInv'
  BY <1>1, <1>2, Shapes DEF WaiterInv
<1>8. JobInv'
  <2>1. SendInv'
    BY <1>1, <1>2 DEF SendInv, Idle
  <2>2. OwnerInv'
    BY <1>1, <1>2 DEF OwnerInv, Owns, Idle
  <2>3. KindInv'
    BY <1>1, <1>2, ThreadFacts DEF KindInv, Idle, me
  <2>4. TimerInv'
    BY <1>1, <1>2, ThreadFacts DEF TimerInv, Idle, me
  <2> QED BY <2>1, <2>2, <2>3, <2>4
<1>9. DeliveryInv'
  BY <1>1, <1>2 DEF DeliveryInv, Idle
<1>10. PersistInv'
  BY <1>2 DEF PersistInv, Owns, Idle
<1> QED BY <1>3, <1>4, <1>5, <1>6, <1>7, <1>8, <1>9, <1>10

LEMMA TimerReturnsStep ==
    ASSUME IInv, NEW r \in Requests, TimerReturns(r)
    PROVE  IInv'
<1> DEFINE me == TimerThread(r)
<1> USE ConstantsAssumption DEF IInv, JobInv
<1>1. /\ pc[r] = "sending" /\ me \in Threads
      /\ job[me].phase = "send" /\ job[me].todo = {}
      /\ hold[r] \in Requests /\ dec[r] = None
      /\ job[me].decision = verdict[hold[r]] /\ verdict[hold[r]] \in Verdicts
      /\ verdict[hold[r]] # None /\ hold[r] \notin items
  <2>1. pc[r] = "sending" /\ me \in Threads /\ job[me].todo = {}
    BY ThreadFacts DEF TimerReturns
  <2>2. job[me].phase = "send" /\ job[me].hold = hold[r]
    BY <2>1 DEF TimerInv
  <2>3. /\ hold[r] \in Requests
        /\ job[me].decision = verdict[hold[r]] /\ verdict[hold[r]] # None
    BY <2>1, <2>2 DEF SendInv
  <2>4. dec[r] = None
    BY <2>1 DEF HandlerInv
  <2>5. verdict[hold[r]] \in Verdicts /\ hold[r] \notin items
    BY <2>3 DEF MintInv
  <2> QED BY <2>1, <2>2, <2>3, <2>4, <2>5
<1>2. /\ \A q \in Requests : pc'[q] = IF q = r THEN "done" ELSE pc[q]
      /\ \A q \in Requests : dec'[q] = IF q = r THEN verdict[hold[r]] ELSE dec[q]
      /\ \A t \in Threads : job'[t] = IF t = me THEN Idle ELSE job[t]
      /\ UNCHANGED <<maxPending, onTimeout, items, byKey, waiters, resolved, hold,
                     ch, persisted, verdict>>
  BY <1>1 DEF TimerReturns, config, index, TypeOK
<1>3. TypeOK'
  BY <1>1, DecisionFacts
     DEF TimerReturns, config, index, TypeOK, PcValues, Jobs, Phases, Idle
<1> HIDE DEF me
<1>4. IndexesInLockstep'
  BY <1>2 DEF IndexesInLockstep
<1>5. HandlerInv'
  BY <1>1, <1>2, DecisionFacts DEF HandlerInv
<1>6. MintInv'
  BY <1>2 DEF MintInv
<1>7. WaiterInv'
  BY <1>1, <1>2, Shapes DEF WaiterInv
<1>8. JobInv'
  <2>1. SendInv'
    BY <1>1, <1>2 DEF SendInv, Idle
  <2>2. OwnerInv'
    BY <1>1, <1>2 DEF OwnerInv, Owns, Idle
  <2>3. KindInv'
    BY <1>1, <1>2, ThreadFacts DEF KindInv, Idle, me
  <2>4. TimerInv'
    BY <1>1, <1>2, ThreadFacts DEF TimerInv, Idle, me
  <2> QED BY <2>1, <2>2, <2>3, <2>4
<1>9. DeliveryInv'
  BY <1>1, <1>2 DEF DeliveryInv, Idle
<1>10. PersistInv'
  BY <1>2 DEF PersistInv, Owns, Idle
<1> QED BY <1>3, <1>4, <1>5, <1>6, <1>7, <1>8, <1>9, <1>10

LEMMA CancelTooLateStep ==
    ASSUME IInv, NEW r \in Requests, CancelTooLate(r)
    PROVE  IInv'
<1> USE ConstantsAssumption DEF IInv, JobInv
<1>1. /\ pc[r] = "select"
      /\ hold[r] \in Requests /\ hold[r] \notin items
  <2>1. pc[r] = "select"
    BY DEF CancelTooLate
  <2>2. hold[r] \in Requests
    BY <2>1, Shapes DEF HandlerInv
  <2>3. hold[r] \notin items
    BY <2>1 DEF CancelTooLate, Claimable, IndexesInLockstep
  <2> QED BY <2>1, <2>2, <2>3
<1>2. /\ \A q \in Requests : pc'[q] = IF q = r THEN "receive" ELSE pc[q]
      /\ UNCHANGED <<maxPending, onTimeout, items, byKey, waiters, resolved, hold,
                     ch, dec, job, persisted, verdict>>
  BY DEF CancelTooLate, config, index, TypeOK
<1>3. TypeOK'
  BY DEF CancelTooLate, config, index, TypeOK, PcValues
<1>4. IndexesInLockstep'
  BY <1>2 DEF IndexesInLockstep
<1>5. HandlerInv'
  BY <1>1, <1>2 DEF HandlerInv
<1>6. MintInv'
  BY <1>2 DEF MintInv
<1>7. WaiterInv'
  BY <1>1, <1>2, Shapes DEF WaiterInv
<1>8. JobInv'
  <2>1. SendInv'
    BY <1>1, <1>2 DEF SendInv
  <2>2. OwnerInv'
    BY <1>1, <1>2 DEF OwnerInv, Owns
  <2>3. KindInv'
    BY <1>1, <1>2 DEF KindInv
  <2>4. TimerInv'
    BY <1>1, <1>2 DEF TimerInv
  <2> QED BY <2>1, <2>2, <2>3, <2>4
<1>9. DeliveryInv'
  BY <1>1, <1>2 DEF DeliveryInv
<1>10. PersistInv'
  BY <1>2 DEF PersistInv, Owns
<1> QED BY <1>3, <1>4, <1>5, <1>6, <1>7, <1>8, <1>9, <1>10

LEMMA CancelWaiterStep ==
    ASSUME IInv, NEW r \in Requests, CancelWaiter(r)
    PROVE  IInv'
<1> DEFINE h == hold[r]
           last == waiters[h] = {r}
<1> USE ConstantsAssumption DEF IInv, JobInv
<1>1. /\ pc[r] = "select" /\ h \in items /\ h \in Requests /\ ~resolved[h]
      /\ dec[r] = None /\ verdict[h] = None /\ r \in waiters[h] /\ hold[h] = h
      /\ byKey[KeyOf[h]] = h
  <2>1. pc[r] = "select" /\ h \in items /\ ~resolved[h]
    BY DEF CancelWaiter, Claimable
  <2>2. h \in Requests /\ dec[r] = None
    BY <2>1, Shapes DEF HandlerInv
  <2>3. hold[h] = h
    BY <2>1, <2>2 DEF MintInv
  <2>4. verdict[h] = None
    BY <2>1, <2>2 DEF MintInv
  <2>5. r \in waiters[h] /\ byKey[KeyOf[h]] = h
    BY <2>1, <2>2 DEF WaiterInv, IndexesInLockstep
  <2> QED BY <2>1, <2>2, <2>3, <2>4, <2>5
<1>2. /\ \A g \in Requests : waiters'[g] = IF g = h THEN waiters[h] \ {r} ELSE waiters[g]
      /\ \A g \in Requests : resolved'[g] = IF g = h /\ last THEN TRUE ELSE resolved[g]
      /\ items' = IF last THEN items \ {h} ELSE items
      /\ \A k \in Keys : byKey'[k] = IF k = KeyOf[h] /\ last THEN None ELSE byKey[k]
      /\ \A q \in Requests : pc'[q] = IF q = r THEN "done" ELSE pc[q]
      /\ \A q \in Requests : dec'[q] = IF q = r THEN Disconnected ELSE dec[q]
      /\ UNCHANGED <<maxPending, onTimeout, hold, ch, job, persisted, verdict>>
  <2>1. last <=> waiters[h] \ {r} = {}
    BY <1>1
  <2> QED BY <2>1, <1>1 DEF CancelWaiter, config, TypeOK
<1>3. TypeOK'
  <2>1. IsFiniteSet(items')
    BY <1>2, FS_RemoveElement DEF TypeOK
  <2> QED BY <2>1, <1>1, DecisionFacts DEF TypeOK, CancelWaiter, PcValues, config
<1>10. \A q \in Requests : q # r /\ hold[q] = h /\ last => dec[q] # None
  BY <1>1 DEF WaiterInv
<1>12. ASSUME last
       PROVE  /\ items' = items \ {h}
              /\ \A g \in Requests : resolved'[g] = IF g = h THEN TRUE ELSE resolved[g]
              /\ \A k \in Keys : byKey'[k] = IF k = KeyOf[h] THEN None ELSE byKey[k]
  BY <1>12, <1>2
<1>13. ASSUME ~last
       PROVE  /\ \A g \in Requests : resolved'[g] = resolved[g]
              /\ items' = items
              /\ \A k \in Keys : byKey'[k] = byKey[k]
  BY <1>13, <1>2
<1>14. /\ \A g \in Requests : waiters'[g] = IF g = h THEN waiters[h] \ {r} ELSE waiters[g]
       /\ \A q \in Requests : pc'[q] = IF q = r THEN "done" ELSE pc[q]
       /\ \A q \in Requests : dec'[q] = IF q = r THEN Disconnected ELSE dec[q]
       /\ UNCHANGED <<hold, ch, job, verdict>>
  BY <1>2
<1> HIDE DEF h
<1>4. IndexesInLockstep'
  <2>1. CASE last
    <3>1. \A g \in items : g # h => KeyOf[g] # KeyOf[h]
      BY <1>1 DEF IndexesInLockstep
    <3>2. \A k \in Keys : byKey[k] = h => k = KeyOf[h]
      BY <1>1, Shapes DEF IndexesInLockstep
    <3>3. \A g \in items' : KeyOf[g] \in Keys /\ g \in items /\ g # h /\ g \in Requests
      BY <2>1, <1>12, Shapes
    <3>4. \A g \in items' : ~resolved'[g] /\ byKey'[KeyOf[g]] = g
      BY <2>1, <1>12, <3>1, <3>3 DEF IndexesInLockstep
    <3>5. \A k \in Keys : byKey'[k] # None => byKey'[k] \in items' /\ KeyOf[byKey'[k]] = k
      BY <2>1, <1>12, <3>2 DEF IndexesInLockstep
    <3> QED BY <3>4, <3>5 DEF IndexesInLockstep
  <2>2. CASE ~last
    BY <2>2, <1>13, Shapes DEF IndexesInLockstep
  <2> QED BY <2>1, <2>2
<1>5. HandlerInv'
  BY <1>1, <1>2, DecisionFacts DEF HandlerInv, h
<1>6. MintInv'
  BY <1>1, <1>2, Shapes DEF MintInv
<1>7. WaiterInv'
  <2>1. h = hold[r]
    BY DEF h
  <2>2. CASE last
    BY <2>1, <2>2, <1>1, <1>12, <1>14, Shapes, DecisionFacts DEF WaiterInv
  <2>3. CASE ~last
    <3>1. \A g \in items : waiters'[g] # {}
      <4>1. waiters[h] \ {r} # {}
        BY <2>3, <1>1
      <4> QED BY <4>1, <1>14, Shapes DEF WaiterInv
    <3>2. \A g \in items : \A q \in Requests :
              q \in waiters'[g] <=> hold[q] = g /\ dec'[q] = None
      BY <2>1, <1>1, <1>14, Shapes, DecisionFacts DEF WaiterInv
    <3>3. \A g \in items : \A q \in waiters'[g] :
              ch[q] = None /\ pc'[q] \in {"enqueued", "select", "fired"}
      BY <2>1, <1>1, <1>14, Shapes DEF WaiterInv
    <3>4. \A g \in Requests : \A q \in waiters'[g] : hold[q] = g
      BY <1>1, <1>14 DEF WaiterInv
    <3> QED BY <2>3, <3>1, <3>2, <3>3, <3>4, <1>13, <1>14 DEF WaiterInv
  <2> QED BY <2>2, <2>3
<1>8. JobInv'
  <2>1. SendInv'
    BY <1>1, <1>2 DEF SendInv
  <2>2. OwnerInv'
    BY <1>1, <1>2 DEF OwnerInv, Owns
  <2>3. KindInv'
    BY <1>1, <1>2 DEF KindInv
  <2>4. TimerInv'
    BY <1>1, <1>2 DEF TimerInv
  <2> QED BY <2>1, <2>2, <2>3, <2>4
<1>9. DeliveryInv'
  <2>1. h = hold[r]
    BY DEF h
  <2>2. CASE last
    <3>1. ASSUME NEW q \in Requests, hold[q] # None, dec'[q] = None, resolved'[hold[q]]
          PROVE  q # r /\ dec[q] = None /\ resolved[hold[q]]
      <4>1. q # r /\ dec[q] = None
        BY <3>1, <1>14, DecisionFacts
      <4>2. hold[q] # h
        BY <4>1, <2>2, <1>10
      <4>3. hold[q] \in Requests
        BY <3>1, Shapes
      <4> QED BY <4>1, <4>2, <4>3, <3>1, <2>2, <1>12
    <3>2. ASSUME NEW q \in Requests
          PROVE  /\ hold[q] # None /\ dec'[q] \notin {None, Disconnected}
                       => dec'[q] = verdict[hold[q]]
                 /\ hold[q] # None /\ verdict[hold[q]] = None
                       => dec'[q] \in {None, Disconnected}
      BY <1>14, DecisionFacts DEF DeliveryInv
    <3>3. \A q \in Requests : q # r => pc'[q] = pc[q]
      BY <1>14
    <3> QED BY <3>1, <3>2, <3>3, <1>14 DEF DeliveryInv
  <2>3. CASE ~last
    BY <2>1, <2>3, <1>1, <1>13, <1>14, Shapes, DecisionFacts DEF DeliveryInv
  <2> QED BY <2>2, <2>3
<1>11. PersistInv'
  BY <1>2 DEF PersistInv, Owns
<1> QED BY <1>3, <1>4, <1>5, <1>6, <1>7, <1>8, <1>9, <1>11

-----------------------------------------------------------------------------
(***************************************************************************)
(* The resolvers.  Approve, Deny, ResolveByAdvisor and a winning timer     *)
(* share the claim and the start of the broadcast.                         *)
(***************************************************************************)

\* What a goroutine that is about to resolve can rely on, and what the claim
\* with its new broadcast changes.
StartGuard(h, d) ==
    /\ h \in items /\ hold[h] = h /\ ~resolved[h] /\ verdict[h] = None
    /\ d # None
    /\ byKey[KeyOf[h]] = h
    /\ \A s \in Threads : ~Owns(s, h)
    /\ \A p \in persisted : p.hold # h

StartIndex(h) ==
    /\ items' = items \ {h}
    /\ \A g \in Requests : resolved'[g] = IF g = h THEN TRUE ELSE resolved[g]
    /\ \A k \in Keys : byKey'[k] = IF k = KeyOf[h] THEN None ELSE byKey[k]
    /\ waiters' = waiters

StartVerdict(h, d) ==
    \A g \in Requests : verdict'[g] = IF g = h THEN d ELSE verdict[g]

StartJob(t, h, d) ==
    \A s \in Threads :
        /\ job'[s].phase = IF s = t THEN "send" ELSE job[s].phase
        /\ job'[s].hold = IF s = t THEN h ELSE job[s].hold
        /\ job'[s].decision = IF s = t THEN d ELSE job[s].decision
        /\ job'[s].todo = IF s = t THEN waiters[h] ELSE job[s].todo

LEMMA StartFacts ==
    ASSUME IInv, NEW t \in Threads, NEW h \in Requests, NEW d \in Verdicts,
           job[t].phase \notin {"send", "persist"},
           StartBroadcast(t, h, d)
    PROVE  StartGuard(h, d) /\ StartIndex(h) /\ StartVerdict(h, d) /\ StartJob(t, h, d)
<1> USE ConstantsAssumption DEF IInv, JobInv
<1>1. h \in items /\ ~resolved[h]
  BY DEF StartBroadcast, Claim, Claimable
<1>2. hold[h] = h /\ verdict[h] = None
  BY <1>1 DEF MintInv
<1>3. d # None
  BY DecisionFacts
<1>4. byKey[KeyOf[h]] = h
  BY <1>1 DEF IndexesInLockstep
<1>5. \A s \in Threads : ~Owns(s, h)
  BY <1>2 DEF SendInv, Owns
<1>6. \A p \in persisted : p.hold # h
  <2>1. \A p \in persisted : OperatorDecision(p.effect) # None
    BY DecisionFacts DEF TypeOK
  <2> QED BY <1>2, <2>1 DEF PersistInv
<1>7. /\ items' = items \ {h}
      /\ \A g \in Requests : resolved'[g] = IF g = h THEN TRUE ELSE resolved[g]
      /\ \A k \in Keys : byKey'[k] = IF k = KeyOf[h] THEN None ELSE byKey[k]
      /\ waiters' = waiters
  BY DEF StartBroadcast, Claim, TypeOK
<1>8. \A g \in Requests : verdict'[g] = IF g = h THEN d ELSE verdict[g]
  BY DEF StartBroadcast, TypeOK
<1>9. \A s \in Threads :
         job'[s] = IF s = t
                   THEN [phase |-> "send", hold |-> h,
                         decision |-> d, todo |-> waiters[h]]
                   ELSE job[s]
  BY DEF StartBroadcast, TypeOK
<1> HIDE DEF IInv, JobInv
<1>10. StartJob(t, h, d)
  BY <1>9 DEF StartJob
<1> QED BY <1>1, <1>2, <1>3, <1>4, <1>5, <1>6, <1>7, <1>8, <1>10 DEF StartGuard, StartIndex, StartVerdict

\* The parts of the invariant that every start of a broadcast preserves,
\* whatever the thread does to its own program counter.
LEMMA StartPreserves ==
    ASSUME IInv, NEW t \in Threads, NEW h \in Requests, NEW d \in Verdicts,
           job[t].phase \notin {"send", "persist"},
           StartBroadcast(t, h, d),
           \A r \in Requests :
              pc'[r] = pc[r] \/ (pc[r] = "fired" /\ pc'[r] = "sending" /\ hold[r] = h),
           pc' \in [Requests -> PcValues],
           UNCHANGED <<maxPending, onTimeout, hold, ch, dec, persisted>>
    PROVE  /\ TypeOK' /\ IndexesInLockstep' /\ HandlerInv' /\ MintInv' /\ WaiterInv'
           /\ SendInv' /\ OwnerInv' /\ DeliveryInv' /\ PersistInv'
<1> USE ConstantsAssumption DEF IInv, JobInv
<1>1. TypeOK'
  <2>1. IsFiniteSet(items')
    BY FS_RemoveElement DEF StartBroadcast, Claim, TypeOK
  <2>2. /\ items' \subseteq Requests
        /\ byKey' \in [Keys -> Requests \cup {None}]
        /\ waiters' \in [Requests -> SUBSET Requests]
        /\ resolved' \in [Requests -> BOOLEAN]
    BY DEF StartBroadcast, Claim, TypeOK
  <2>3. verdict' \in [Requests -> Decisions \cup {None}]
    BY DecisionFacts DEF StartBroadcast, TypeOK
  <2>4. job' \in [Threads -> Jobs]
    BY DecisionFacts DEF StartBroadcast, TypeOK, Jobs, Phases
  <2> QED BY <2>1, <2>2, <2>3, <2>4 DEF TypeOK
<1>2. StartGuard(h, d) /\ StartIndex(h) /\ StartVerdict(h, d) /\ StartJob(t, h, d)
  BY StartFacts
<1>3. IndexesInLockstep'
  <2>1. \A g \in items' : g \in items /\ g # h /\ KeyOf[g] # KeyOf[h]
    BY <1>2, Shapes DEF StartGuard, StartIndex, IndexesInLockstep
  <2>2. \A g \in items' : ~resolved'[g] /\ byKey'[KeyOf[g]] = g
    BY <1>2, <2>1, Shapes DEF StartIndex, IndexesInLockstep
  <2>3. \A k \in Keys : byKey'[k] # None => byKey'[k] \in items' /\ KeyOf[byKey'[k]] = k
    BY <1>2 DEF StartIndex, IndexesInLockstep
  <2> QED BY <2>2, <2>3 DEF IndexesInLockstep
<1>4. HandlerInv'
  BY DEF HandlerInv
<1>5. MintInv'
  <2>1. \A r \in Requests : hold[r] # None => hold[hold[r]] = hold[r] /\ KeyOf[hold[r]] = KeyOf[r]
    BY DEF MintInv
  <2>2. ASSUME NEW g \in Requests
        PROVE  /\ hold[g] # g => g \notin items' /\ ~resolved'[g] /\ verdict'[g] = None
               /\ hold[g] = g => (g \in items' <=> ~resolved'[g])
               /\ verdict'[g] # None => resolved'[g]
               /\ verdict'[g] \in Verdicts \cup {None}
    <3>1. CASE g = h
      <4>1. h \notin items' /\ resolved'[h] /\ verdict'[h] = d
        BY <1>2 DEF StartIndex, StartVerdict
      <4> QED BY <3>1, <4>1, <1>2, DecisionFacts DEF StartGuard
    <3>2. CASE g # h
      <4>1. /\ g \in items' <=> g \in items
            /\ resolved'[g] = resolved[g] /\ verdict'[g] = verdict[g]
        BY <3>2, <1>2 DEF StartIndex, StartVerdict
      <4>2. MintInv
        OBVIOUS
      <4> HIDE DEF IInv, JobInv
      <4> QED BY <4>1, <4>2 DEF MintInv
    <3> QED BY <3>1, <3>2
  <2> QED BY <2>1, <2>2 DEF MintInv
<1>6. WaiterInv'
  <2>1. items' \subseteq items /\ waiters' = waiters
    BY <1>2 DEF StartIndex
  <2>2. \A g \in items : waiters[g] \subseteq Requests
    BY Shapes
  <2>3. \A g \in items' : \A r \in waiters[g] :
           ch[r] = None /\ pc'[r] \in {"enqueued", "select", "fired"}
    <3> TAKE g \in items'
    <3> TAKE r \in waiters[g]
    <3>2. g \in items /\ r \in Requests /\ hold[r] = g /\ g # h
      BY <2>1, <2>2, <1>2, Shapes DEF StartIndex, WaiterInv
    <3>3. pc'[r] = pc[r]
      BY <3>2
    <3> QED BY <3>2, <3>3 DEF WaiterInv
  <2> QED BY <2>1, <2>3 DEF WaiterInv
<1>7. SendInv'
  BY <1>2, Shapes DEF StartGuard, StartVerdict, StartJob, SendInv, Owns, WaiterInv
<1>8. OwnerInv'
  BY <1>2 DEF StartGuard, StartJob, OwnerInv, Owns
<1>9. DeliveryInv'
  <2> SUFFICES ASSUME NEW r \in Requests
               PROVE  /\ ch[r] # None => ch[r] = verdict'[hold[r]]
                      /\ hold[r] # None /\ dec[r] \notin {None, Disconnected}
                            => dec[r] = verdict'[hold[r]]
                      /\ hold[r] # None /\ dec[r] = None /\ resolved'[hold[r]] =>
                            /\ verdict'[hold[r]] # None
                            /\ \/ ch[r] # None
                               \/ pc'[r] = "sending"
                               \/ \E s \in Threads :
                                     job'[s].phase = "send" /\ r \in job'[s].todo
                      /\ hold[r] # None /\ verdict'[hold[r]] = None
                            => dec[r] \in {None, Disconnected}
    BY DEF DeliveryInv
  <2>1. CASE hold[r] = h
    <3>1. h # None /\ verdict[h] = None /\ d # None /\ verdict'[h] = d
      BY <1>2 DEF StartGuard, StartVerdict
    <3>2. ch[r] = None /\ dec[r] \in {None, Disconnected}
      BY <2>1, <3>1 DEF DeliveryInv
    <3>3. dec[r] = None => r \in waiters[h]
      BY <2>1, <1>2 DEF StartGuard, WaiterInv
    <3>4. job'[t].phase = "send" /\ job'[t].todo = waiters[h]
      BY <1>2 DEF StartJob
    <3> QED BY <2>1, <3>1, <3>2, <3>3, <3>4
  <2>2. CASE hold[r] # h
    <3>1. hold[r] \in Requests =>
            verdict'[hold[r]] = verdict[hold[r]] /\ resolved'[hold[r]] = resolved[hold[r]]
      BY <2>2, <1>2 DEF StartIndex, StartVerdict
    <3>2. pc'[r] = pc[r]
      BY <2>2
    <3>3. \A s \in Threads : job[s].phase = "send" =>
              job'[s].phase = "send" /\ job'[s].todo = job[s].todo
      BY <1>2 DEF StartJob
    <3>4. hold[r] = None => ch[r] = None
      BY DEF HandlerInv
    <3> QED BY <3>1, <3>2, <3>3, <3>4, Shapes DEF DeliveryInv
  <2> QED BY <2>1, <2>2
<1>10. PersistInv'
  BY <1>2, Shapes DEF StartGuard, StartVerdict, StartJob, PersistInv, Owns
<1> QED BY <1>1, <1>3, <1>4, <1>5, <1>6, <1>7, <1>8, <1>9, <1>10

LEMMA ResolveStep ==
    ASSUME IInv, NEW o \in Operators, NEW h \in Requests,
           NEW effect \in {"allow", "deny"}, Resolve(o, h, effect)
    PROVE  IInv'
<1> DEFINE me == OperatorThread(o)
           d == OperatorDecision(effect)
<1> USE ConstantsAssumption DEF IInv, JobInv
<1>1. /\ me \in Threads /\ job[me].phase \notin {"send", "persist"}
      /\ d \in Verdicts /\ d \in OperatorVerdicts
      /\ StartBroadcast(me, h, d)
      /\ UNCHANGED <<maxPending, onTimeout, pc, hold, ch, dec, persisted>>
  BY ThreadFacts, DecisionFacts DEF Resolve, config, waits
<1>2. pc \in [Requests -> PcValues]
  BY DEF TypeOK
<1> HIDE DEF me, d
<1>3. StartJob(me, h, d)
  BY <1>1, StartFacts
<1>4. /\ TypeOK' /\ IndexesInLockstep' /\ HandlerInv' /\ MintInv' /\ WaiterInv'
      /\ SendInv' /\ OwnerInv' /\ DeliveryInv' /\ PersistInv'
  BY <1>1, <1>2, StartPreserves
<1>5. KindInv'
  BY <1>1, <1>3, ThreadFacts DEF StartJob, KindInv, me
<1>6. TimerInv'
  <2>1. \A q \in Requests : /\ job'[TimerThread(q)].phase = job[TimerThread(q)].phase
                            /\ job'[TimerThread(q)].hold = job[TimerThread(q)].hold
                            /\ job'[TimerThread(q)].decision = job[TimerThread(q)].decision
    BY <1>3, ThreadFacts DEF StartJob, me
  <2>2. pc' = pc /\ hold' = hold /\ TimerInv
    BY <1>1
  <2> HIDE DEF IInv, JobInv
  <2> QED BY <2>1, <2>2 DEF TimerInv
<1> QED BY <1>4, <1>5, <1>6

LEMMA ResolveByAdvisorStep ==
    ASSUME IInv, NEW h \in Requests,
           NEW effect \in {"allow", "deny"}, ResolveByAdvisor(h, effect)
    PROVE  IInv'
<1> DEFINE me == AdvisorThread(h)
           d == AdvisorDecision(effect)
<1> USE ConstantsAssumption DEF IInv, JobInv
<1>1. /\ me \in Threads /\ job[me].phase \notin {"send", "persist"}
      /\ d \in Verdicts
      /\ StartBroadcast(me, h, d)
      /\ UNCHANGED <<maxPending, onTimeout, pc, hold, ch, dec, persisted>>
  BY ThreadFacts, DecisionFacts DEF ResolveByAdvisor, config, waits
<1>2. pc \in [Requests -> PcValues]
  BY DEF TypeOK
<1> HIDE DEF me, d
<1>3. StartJob(me, h, d)
  BY <1>1, StartFacts
<1>4. /\ TypeOK' /\ IndexesInLockstep' /\ HandlerInv' /\ MintInv' /\ WaiterInv'
      /\ SendInv' /\ OwnerInv' /\ DeliveryInv' /\ PersistInv'
  BY <1>1, <1>2, StartPreserves
<1>5. KindInv'
  BY <1>1, <1>3, ThreadFacts DEF StartJob, KindInv, me
<1>6. TimerInv'
  <2>1. \A q \in Requests : /\ job'[TimerThread(q)].phase = job[TimerThread(q)].phase
                            /\ job'[TimerThread(q)].hold = job[TimerThread(q)].hold
                            /\ job'[TimerThread(q)].decision = job[TimerThread(q)].decision
    BY <1>3, ThreadFacts DEF StartJob, me
  <2>2. pc' = pc /\ hold' = hold /\ TimerInv
    BY <1>1
  <2> HIDE DEF IInv, JobInv
  <2> QED BY <2>1, <2>2 DEF TimerInv
<1> QED BY <1>4, <1>5, <1>6

LEMMA TimerWinsStep ==
    ASSUME IInv, NEW r \in Requests, TimerWins(r)
    PROVE  IInv'
<1> DEFINE me == TimerThread(r)
           h == hold[r]
           d == job[me].decision
<1> USE ConstantsAssumption DEF IInv, JobInv
<1>1. /\ me \in Threads /\ job[me].phase \notin {"send", "persist"}
      /\ pc[r] = "fired" /\ d \in Verdicts /\ h \in Requests
  <2>1. me \in Threads /\ pc[r] = "fired"
    BY ThreadFacts DEF TimerWins
  <2>2. job[me].phase \notin {"send", "persist"} /\ d \in Verdicts
    BY <2>1, DecisionFacts DEF KindInv, TimerInv
  <2>3. h \in Requests
    BY <2>1, Shapes DEF HandlerInv
  <2> QED BY <2>1, <2>2, <2>3
<1>2. /\ StartBroadcast(me, h, d)
      /\ \A q \in Requests : pc'[q] = IF q = r THEN "sending" ELSE pc[q]
      /\ pc' \in [Requests -> PcValues]
      /\ UNCHANGED <<maxPending, onTimeout, hold, ch, dec, persisted>>
  BY DEF TimerWins, config, TypeOK, PcValues
<1>3. \A q \in Requests :
         pc'[q] = pc[q] \/ (pc[q] = "fired" /\ pc'[q] = "sending" /\ hold[q] = h)
  BY <1>1, <1>2
<1>4. h = hold[r]
  OBVIOUS
<1> HIDE DEF me, d, h
<1>5. StartJob(me, h, d)
  BY <1>1, <1>2, StartFacts
<1>6. /\ TypeOK' /\ IndexesInLockstep' /\ HandlerInv' /\ MintInv' /\ WaiterInv'
      /\ SendInv' /\ OwnerInv' /\ DeliveryInv' /\ PersistInv'
  BY <1>1, <1>2, <1>3, StartPreserves
<1>7. KindInv'
  BY <1>1, <1>5, ThreadFacts DEF StartJob, KindInv, me
<1>8. TimerInv'
  <2>1. \A q \in Requests \ {r} :
           /\ job'[TimerThread(q)].phase = job[TimerThread(q)].phase
           /\ job'[TimerThread(q)].hold = job[TimerThread(q)].hold
           /\ job'[TimerThread(q)].decision = job[TimerThread(q)].decision
    BY <1>5, ThreadFacts DEF StartJob, me
  <2>2. job'[TimerThread(r)].phase = "send" /\ job'[TimerThread(r)].hold = h
    BY <1>5, ThreadFacts DEF StartJob, me
  <2>3. hold' = hold /\ TimerInv
    BY <1>2
  <2> HIDE DEF IInv, JobInv
  <2> QED BY <1>2, <1>4, <2>1, <2>2, <2>3 DEF TimerInv
<1> QED BY <1>6, <1>7, <1>8

LEMMA BroadcastStep ==
    ASSUME IInv, NEW t \in Threads, Broadcast(t)
    PROVE  IInv'
<1> USE ConstantsAssumption DEF IInv, JobInv
<1>1. PICK w \in job[t].todo :
         /\ ch' = [ch EXCEPT ![w] = Sent(@, job[t].decision)]
         /\ job' = [job EXCEPT ![t].todo = @ \ {w}]
  BY DEF Broadcast
<1>2. /\ job[t].phase = "send" /\ w \in Requests
      /\ hold[w] = job[t].hold /\ hold[w] \in Requests
      /\ job[t].decision = verdict[hold[w]] /\ verdict[hold[w]] # None
      /\ hold[w] \notin items
  <2>1. job[t].phase = "send"
    BY DEF Broadcast
  <2>2. /\ w \in Requests /\ hold[w] = job[t].hold /\ hold[w] \in Requests
        /\ job[t].decision = verdict[hold[w]] /\ verdict[hold[w]] # None
    BY <2>1, Shapes DEF SendInv
  <2>3. hold[w] \notin items
    BY <2>2 DEF MintInv
  <2> QED BY <2>1, <2>2, <2>3
<1>3. \A q \in Requests : ch'[q] = IF q = w THEN verdict[hold[w]] ELSE ch[q]
  BY <1>1, <1>2 DEF TypeOK, Sent, DeliveryInv
<1>4. \A s \in Threads :
         /\ job'[s].phase = job[s].phase
         /\ job'[s].hold = job[s].hold
         /\ job'[s].decision = job[s].decision
         /\ job'[s].todo = IF s = t THEN job[t].todo \ {w} ELSE job[s].todo
  <2> DEFINE new == [job[t] EXCEPT !.todo = @ \ {w}]
  <2>1. DOMAIN job = Threads /\ job[t] \in Jobs
    BY JobShape
  <2>2. \A s \in Threads : job'[s] = IF s = t THEN new ELSE job[s]
    BY <1>1, <2>1
  <2>3. /\ new.phase = job[t].phase /\ new.hold = job[t].hold
        /\ new.decision = job[t].decision /\ new.todo = job[t].todo \ {w}
    BY <2>1 DEF Jobs
  <2> HIDE DEF new, IInv, JobInv
  <2> SUFFICES ASSUME NEW s \in Threads
               PROVE  /\ job'[s].phase = job[s].phase
                      /\ job'[s].hold = job[s].hold
                      /\ job'[s].decision = job[s].decision
                      /\ job'[s].todo = IF s = t THEN job[t].todo \ {w} ELSE job[s].todo
    OBVIOUS
  <2>4. CASE s = t
    BY <2>2, <2>3, <2>4
  <2>5. CASE s # t
    BY <2>2, <2>5
  <2> QED BY <2>4, <2>5
<1>5. UNCHANGED <<maxPending, onTimeout, items, byKey, waiters, resolved, pc, hold,
                  dec, persisted, verdict>>
  BY DEF Broadcast, config, index
<1>6. TypeOK'
  <2>1. job' \in [Threads -> Jobs]
    <3>1. job[t] \in Jobs
      BY DEF TypeOK
    <3>2. [job[t] EXCEPT !.todo = @ \ {w}] \in Jobs
      BY <3>1 DEF Jobs
    <3> QED BY <3>2, <1>1 DEF TypeOK
  <2>2. ch' \in [Requests -> Decisions \cup {None}]
    BY <1>1, <1>2 DEF TypeOK, Jobs, Sent
  <2> QED BY <2>1, <2>2, <1>5 DEF TypeOK
<1>7. IndexesInLockstep'
  BY <1>5 DEF IndexesInLockstep
<1>8. HandlerInv'
  BY <1>2, <1>3, <1>5 DEF HandlerInv
<1>9. MintInv'
  BY <1>5 DEF MintInv
<1>10. WaiterInv'
  BY <1>2, <1>3, <1>5, Shapes DEF WaiterInv
<1>11. SendInv'
  BY <1>4, <1>5 DEF SendInv
<1>12. OwnerInv'
  BY <1>4 DEF OwnerInv, Owns
<1>13. KindInv'
  BY <1>4, ThreadFacts DEF KindInv
<1>14. TimerInv'
  BY <1>4, <1>5, ThreadFacts DEF TimerInv
<1>15. DeliveryInv'
  BY <1>2, <1>3, <1>4, <1>5 DEF DeliveryInv
<1>16. PersistInv'
  BY <1>4, <1>5 DEF PersistInv, Owns
<1> QED BY <1>6, <1>7, <1>8, <1>9, <1>10, <1>11, <1>12, <1>13, <1>14, <1>15, <1>16

LEMMA OperatorSentStep ==
    ASSUME IInv, NEW o \in Operators, OperatorSent(o)
    PROVE  IInv'
<1> DEFINE me == OperatorThread(o)
<1> USE ConstantsAssumption DEF IInv, JobInv
<1>1. me \in Threads /\ job[me].phase = "send" /\ job[me].todo = {}
  BY ThreadFacts DEF OperatorSent
<1>2. /\ \A s \in Threads :
            job'[s] = IF s = me THEN [job[s] EXCEPT !.phase = "persist"] ELSE job[s]
      /\ UNCHANGED <<maxPending, onTimeout, items, byKey, waiters, resolved, pc, hold,
                     ch, dec, persisted, verdict>>
  BY <1>1 DEF OperatorSent, config, index, waits, TypeOK
<1>11. \A s \in Threads :
          /\ job'[s].phase = IF s = me THEN "persist" ELSE job[s].phase
          /\ job'[s].hold = job[s].hold
          /\ job'[s].decision = job[s].decision
          /\ job'[s].todo = job[s].todo
  <2>1. job' = [job EXCEPT ![me].phase = "persist"] /\ TypeOK /\ me \in Threads
    BY <1>1 DEF OperatorSent
  <2> HIDE DEF me, IInv, JobInv
  <2> QED BY <2>1, PhaseSet
<1>3. TypeOK'
  <2>1. job' \in [Threads -> Jobs]
    <3>1. job[me] \in Jobs
      BY <1>1 DEF TypeOK
    <3>2. [job[me] EXCEPT !.phase = "persist"] \in Jobs
      BY <3>1 DEF Jobs, Phases
    <3> QED BY <3>2, <1>1 DEF OperatorSent, TypeOK
  <2> QED BY <2>1, <1>2 DEF TypeOK
<1> HIDE DEF me
<1>4. IndexesInLockstep' /\ HandlerInv' /\ MintInv' /\ WaiterInv'
  BY <1>2 DEF IndexesInLockstep, HandlerInv, MintInv, WaiterInv
<1>5. SendInv'
  BY <1>1, <1>2, <1>11 DEF SendInv
<1>6. OwnerInv'
  BY <1>1, <1>2, <1>11 DEF OwnerInv, Owns
<1>7. KindInv'
  BY <1>1, <1>2, <1>11, ThreadFacts DEF KindInv, me
<1>8. TimerInv'
  BY <1>1, <1>2, <1>11, ThreadFacts DEF TimerInv, me
<1>9. DeliveryInv'
  BY <1>1, <1>2, <1>11 DEF DeliveryInv
<1>10. PersistInv'
  BY <1>1, <1>2, <1>11 DEF PersistInv, Owns
<1> QED BY <1>3, <1>4, <1>5, <1>6, <1>7, <1>8, <1>9, <1>10

LEMMA PersistStep ==
    ASSUME IInv, NEW o \in Operators, Persist(o)
    PROVE  IInv'
<1> DEFINE me == OperatorThread(o)
<1> USE ConstantsAssumption DEF IInv, JobInv
<1>1. PICK h, p :
         /\ h = job[me].hold
         /\ p = [hold |-> h, by |-> o,
                 effect |-> IF job[me].decision = OperatorDecision("allow")
                            THEN "allow" ELSE "deny"]
  OBVIOUS
<1>2. /\ me \in Threads /\ job[me].phase = "persist" /\ h \in Requests
      /\ Owns(me, h) /\ p.hold = h /\ p.effect \in {"allow", "deny"}
      /\ p \in [hold : Requests, by : Operators, effect : {"allow", "deny"}]
      /\ verdict[h] = OperatorDecision(p.effect)
  <2>1. me \in Threads /\ job[me].phase = "persist"
    BY ThreadFacts DEF Persist
  <2>2. h \in Requests /\ job[me].decision = verdict[h] /\ Owns(me, h)
    BY <1>1, <2>1 DEF SendInv, Owns
  <2>3. job[me].decision \in OperatorVerdicts
    BY <2>1 DEF KindInv
  <2>4. p.hold = h /\ p.effect = IF job[me].decision = OperatorDecision("allow")
                                THEN "allow" ELSE "deny"
    BY <1>1
  <2>5. p.effect \in {"allow", "deny"}
    BY <2>4
  <2>6. verdict[h] = OperatorDecision(p.effect)
    BY <2>2, <2>3, <2>4, DecisionFacts
  <2>7. p \in [hold : Requests, by : Operators, effect : {"allow", "deny"}]
    BY <1>1, <2>2
  <2> QED BY <2>1, <2>2, <2>4, <2>5, <2>6, <2>7
<1>3. /\ persisted' = persisted \cup {p}
      /\ \A s \in Threads : job'[s] = IF s = me THEN Idle ELSE job[s]
      /\ UNCHANGED <<maxPending, onTimeout, items, byKey, waiters, resolved, pc, hold,
                     ch, dec, verdict>>
  BY <1>1 DEF Persist, config, index, waits, TypeOK
<1>4. TypeOK'
  <2>1. job' \in [Threads -> Jobs]
    BY DEF Persist, TypeOK, Jobs, Phases, Idle
  <2> QED BY <2>1, <1>2, <1>3 DEF TypeOK
<1>5. \A q \in persisted : q.hold # h
  BY <1>2 DEF PersistInv
<1> HIDE DEF me
<1>6. IndexesInLockstep' /\ HandlerInv' /\ MintInv' /\ WaiterInv'
  BY <1>3 DEF IndexesInLockstep, HandlerInv, MintInv, WaiterInv
<1>7. SendInv'
  BY <1>3 DEF SendInv, Idle
<1>8. OwnerInv'
  BY <1>3 DEF OwnerInv, Owns, Idle
<1>9. KindInv'
  BY <1>2, <1>3, ThreadFacts DEF KindInv, me, Idle
<1>10. TimerInv'
  BY <1>2, <1>3, ThreadFacts DEF TimerInv, me, Idle
<1>11. DeliveryInv'
  BY <1>2, <1>3 DEF DeliveryInv
<1>12. PersistInv'
  <2>1. \A s \in Threads : ~Owns(s, h)'
    BY <1>2, <1>3 DEF Owns, Idle, OwnerInv
  <2>2. \A q \in persisted : \A s \in Threads : ~Owns(s, q.hold)'
    BY <1>3 DEF Owns, Idle, PersistInv
  <2> SUFFICES ASSUME NEW q \in persisted'
               PROVE  /\ verdict[q.hold] = OperatorDecision(q.effect)
                      /\ \A x \in persisted' : x.hold = q.hold => x = q
                      /\ \A s \in Threads : ~Owns(s, q.hold)'
    BY <1>3 DEF PersistInv
  <2>3. CASE q = p
    BY <2>3, <2>1, <1>2, <1>3, <1>5
  <2>4. CASE q \in persisted
    BY <2>4, <2>2, <1>2, <1>3, <1>5 DEF PersistInv
  <2> QED BY <2>3, <2>4, <1>3
<1> QED BY <1>4, <1>6, <1>7, <1>8, <1>9, <1>10, <1>11, <1>12

LEMMA AdvisorSentStep ==
    ASSUME IInv, NEW h \in Requests, AdvisorSent(h)
    PROVE  IInv'
<1> DEFINE me == AdvisorThread(h)
<1> USE ConstantsAssumption DEF IInv, JobInv
<1>1. me \in Threads /\ job[me].phase = "send" /\ job[me].todo = {}
  BY ThreadFacts DEF AdvisorSent
<1>2. /\ \A s \in Threads : job'[s] = IF s = me THEN Idle ELSE job[s]
      /\ UNCHANGED <<maxPending, onTimeout, items, byKey, waiters, resolved, pc, hold,
                     ch, dec, persisted, verdict>>
  BY DEF AdvisorSent, config, index, waits, TypeOK
<1>3. TypeOK'
  <2>1. job' \in [Threads -> Jobs]
    BY DEF AdvisorSent, TypeOK, Jobs, Phases, Idle
  <2> QED BY <2>1, <1>2 DEF TypeOK
<1> HIDE DEF me
<1>4. IndexesInLockstep' /\ HandlerInv' /\ MintInv' /\ WaiterInv'
  BY <1>2 DEF IndexesInLockstep, HandlerInv, MintInv, WaiterInv
<1>5. SendInv'
  BY <1>1, <1>2 DEF SendInv, Idle
<1>6. OwnerInv'
  BY <1>1, <1>2 DEF OwnerInv, Owns, Idle
<1>7. KindInv'
  BY <1>1, <1>2, ThreadFacts DEF KindInv, me, Idle
<1>8. TimerInv'
  BY <1>1, <1>2, ThreadFacts DEF TimerInv, me, Idle
<1>9. DeliveryInv'
  BY <1>1, <1>2 DEF DeliveryInv
<1>10. PersistInv'
  BY <1>1, <1>2 DEF PersistInv, Owns, Idle
<1> QED BY <1>3, <1>4, <1>5, <1>6, <1>7, <1>8, <1>9, <1>10

LEMMA ReconfigureStep ==
    ASSUME IInv, NEW cap \in CapArgs, NEW policy \in PolicyArgs,
           Reconfigure(cap, policy)
    PROVE  IInv'
<1> USE ConstantsAssumption DEF IInv, JobInv
<1>1. UNCHANGED <<items, byKey, waiters, resolved, pc, hold, ch, dec, job,
                  persisted, verdict>>
  BY DEF Reconfigure, index, waits
<1>2. TypeOK'
  BY <1>1 DEF Reconfigure, TypeOK
<1>3. IndexesInLockstep' /\ HandlerInv' /\ MintInv' /\ WaiterInv'
  BY <1>1 DEF IndexesInLockstep, HandlerInv, MintInv, WaiterInv
<1>4. SendInv' /\ OwnerInv' /\ KindInv' /\ TimerInv'
  BY <1>1 DEF SendInv, OwnerInv, Owns, KindInv, TimerInv
<1>5. DeliveryInv' /\ PersistInv'
  BY <1>1 DEF DeliveryInv, PersistInv, Owns
<1> QED BY <1>2, <1>3, <1>4, <1>5

LEMMA ShutdownStep ==
    ASSUME IInv, Shutdown
    PROVE  IInv'
<1> USE ConstantsAssumption DEF IInv, JobInv
<1>1. \A h \in items : h \in Requests /\ ~resolved[h] /\ verdict[h] = None /\ hold[h] = h
  BY Shapes DEF IndexesInLockstep, MintInv
<1>2. \A r \in Requests : (\E h \in items : r \in waiters[h])
                             <=> hold[r] \in items /\ dec[r] = None
  BY DEF WaiterInv
<1>3. \A r \in Requests : hold[r] \in items /\ dec[r] = None => ch[r] = None
  BY DEF WaiterInv
<1>4. /\ \A h \in Requests : resolved'[h] = IF h \in items THEN TRUE ELSE resolved[h]
      /\ \A h \in Requests : verdict'[h] = IF h \in items THEN ShutdownDecision
                                                          ELSE verdict[h]
      /\ items' = {} /\ \A k \in Keys : byKey'[k] = None
  BY <1>1, Shapes DEF Shutdown
<1>5. \A r \in Requests : ch'[r] = IF hold[r] \in items /\ dec[r] = None
                                   THEN ShutdownDecision ELSE ch[r]
  <2>1. {h \in items : ~resolved[h]} = items
    BY <1>1
  <2>2. \A r \in Requests : ch'[r] = IF \E h \in items : r \in waiters[h]
                                     THEN Sent(ch[r], ShutdownDecision) ELSE ch[r]
    BY <2>1 DEF Shutdown
  <2> QED BY <2>2, <1>2, <1>3 DEF Sent
<1>6. UNCHANGED <<maxPending, onTimeout, waiters, pc, hold, dec, job, persisted>>
  BY DEF Shutdown, config
<1>7. ShutdownDecision \in Verdicts /\ ShutdownDecision # None
  BY DecisionFacts
<1>8. TypeOK'
  <2>1. IsFiniteSet(items')
    BY <1>4, FS_EmptySet
  <2>2. resolved' \in [Requests -> BOOLEAN] /\ byKey' \in [Keys -> Requests \cup {None}]
    BY DEF Shutdown, TypeOK
  <2>3. ch' \in [Requests -> Decisions \cup {None}]
    BY DecisionFacts DEF Shutdown, TypeOK, Sent
  <2>4. verdict' \in [Requests -> Decisions \cup {None}]
    BY DecisionFacts DEF Shutdown, TypeOK
  <2> QED BY <2>1, <2>2, <2>3, <2>4, <1>4, <1>6 DEF TypeOK
<1>9. IndexesInLockstep'
  BY <1>4 DEF IndexesInLockstep
<1>10. HandlerInv'
  BY <1>5, <1>6, Shapes DEF HandlerInv
<1>11. MintInv'
  <2>1. \A r \in Requests : hold[r] # None => hold[hold[r]] = hold[r] /\ KeyOf[hold[r]] = KeyOf[r]
    BY DEF MintInv
  <2>2. ASSUME NEW h \in Requests
        PROVE  /\ hold[h] # h => h \notin items' /\ ~resolved'[h] /\ verdict'[h] = None
               /\ hold[h] = h => (h \in items' <=> ~resolved'[h])
               /\ verdict'[h] # None => resolved'[h]
               /\ verdict'[h] \in Verdicts \cup {None}
    <3>1. CASE h \in items
      <4>1. resolved'[h] /\ verdict'[h] = ShutdownDecision /\ hold[h] = h
        BY <3>1, <1>1, <1>4
      <4> QED BY <4>1, <1>4, <1>7
    <3>2. CASE h \notin items
      <4>1. resolved'[h] = resolved[h] /\ verdict'[h] = verdict[h]
        BY <3>2, <1>4
      <4> QED BY <3>2, <4>1, <1>4 DEF MintInv
    <3> QED BY <3>1, <3>2
  <2> QED BY <2>1, <2>2, <1>6 DEF MintInv
<1>12. WaiterInv'
  BY <1>4, <1>6 DEF WaiterInv
<1>13. SendInv'
  BY <1>1, <1>4, <1>6 DEF SendInv
<1>14. OwnerInv' /\ KindInv' /\ TimerInv'
  BY <1>6 DEF OwnerInv, Owns, KindInv, TimerInv
<1>15. DeliveryInv'
  <2> SUFFICES ASSUME NEW r \in Requests
               PROVE  /\ ch'[r] # None => ch'[r] = verdict'[hold[r]]
                      /\ hold[r] # None /\ dec[r] \notin {None, Disconnected}
                            => dec[r] = verdict'[hold[r]]
                      /\ hold[r] # None /\ dec[r] = None /\ resolved'[hold[r]] =>
                            /\ verdict'[hold[r]] # None
                            /\ \/ ch'[r] # None
                               \/ pc[r] = "sending"
                               \/ \E t \in Threads :
                                     job[t].phase = "send" /\ r \in job[t].todo
                      /\ hold[r] # None /\ verdict'[hold[r]] = None
                            => dec[r] \in {None, Disconnected}
    BY <1>6 DEF DeliveryInv
  <2>1. CASE hold[r] \in items
    BY <2>1, <1>1, <1>4, <1>5, <1>7, Shapes DEF DeliveryInv
  <2>2. CASE hold[r] \notin items
    <3>1. hold[r] \in Requests => /\ verdict'[hold[r]] = verdict[hold[r]]
                                  /\ resolved'[hold[r]] = resolved[hold[r]]
      BY <2>2, <1>4
    <3>2. ch'[r] = ch[r]
      BY <2>2, <1>5
    <3>3. hold[r] = None => ch[r] = None
      BY DEF HandlerInv
    <3> QED BY <3>1, <3>2, <3>3, Shapes DEF DeliveryInv
  <2> QED BY <2>1, <2>2
<1>16. PersistInv'
  <2>1. \A p \in persisted : OperatorDecision(p.effect) # None
    BY DecisionFacts DEF TypeOK
  <2> QED BY <2>1, <1>1, <1>4, <1>6, Shapes DEF PersistInv, Owns
<1> QED BY <1>8, <1>9, <1>10, <1>11, <1>12, <1>13, <1>14, <1>15, <1>16

-----------------------------------------------------------------------------
LEMMA InitEstablishes == Init => IInv
<1> USE ConstantsAssumption
<1> SUFFICES ASSUME Init PROVE IInv
  OBVIOUS
<1>1. TypeOK
  <2>1. maxPending \in Int /\ maxPending > 0 /\ onTimeout \in PolicyArgs \cup {"deny"}
    <3>1. PICK cap \in CapArgs, policy \in PolicyArgs :
             maxPending = NewCap(cap) /\ onTimeout = NewPolicy(policy)
      BY DEF Init
    <3>2. cap \in Int
      OBVIOUS
    <3>3. maxPending \in Int /\ maxPending > 0
      <4>1. CASE cap <= 0
        BY <4>1, <3>1 DEF NewCap
      <4>2. CASE ~(cap <= 0)
        BY <4>2, <3>1, <3>2 DEF NewCap
      <4> QED BY <4>1, <4>2
    <3>4. onTimeout \in PolicyArgs \cup {"deny"}
      BY <3>1 DEF NewPolicy
    <3> QED BY <3>3, <3>4
  <2>2. IsFiniteSet({})
    BY FS_EmptySet
  <2>3. job \in [Threads -> Jobs]
    BY DEF Init, Idle, Jobs, Phases
  <2> QED BY <2>1, <2>2, <2>3 DEF Init, TypeOK, PcValues
<1>2. \A t \in Threads : job[t].phase = "idle"
  BY DEF Init, Idle
<1>3. IndexesInLockstep /\ HandlerInv /\ MintInv /\ WaiterInv
  BY DEF Init, IndexesInLockstep, HandlerInv, MintInv, WaiterInv
<1>4. JobInv
  <2>1. SendInv /\ OwnerInv
    BY <1>2 DEF SendInv, OwnerInv, Owns
  <2>2. \A r \in Requests : pc[r] = "start"
    BY DEF Init
  <2>3. KindInv /\ TimerInv
    BY <1>2, <2>2, ThreadFacts DEF KindInv, TimerInv
  <2> QED BY <2>1, <2>3 DEF JobInv
<1>5. DeliveryInv /\ PersistInv
  BY DEF Init, DeliveryInv, PersistInv
<1> QED BY <1>1, <1>3, <1>4, <1>5 DEF IInv

LEMMA StutterPreserves == IInv /\ UNCHANGED vars => IInv'
<1> SUFFICES ASSUME IInv, UNCHANGED vars PROVE IInv'
  OBVIOUS
<1>1. UNCHANGED <<maxPending, onTimeout, items, byKey, waiters, resolved, pc, hold,
                  ch, dec, job, persisted, verdict>>
  BY DEF vars, config, index, waits
<1>2. TypeOK' /\ IndexesInLockstep' /\ HandlerInv' /\ MintInv' /\ WaiterInv'
  <2>1. TypeOK'
    BY <1>1 DEF IInv, TypeOK
  <2>2. IndexesInLockstep' /\ HandlerInv'
    BY <1>1 DEF IInv, IndexesInLockstep, HandlerInv
  <2>3. MintInv' /\ WaiterInv'
    BY <1>1 DEF IInv, MintInv, WaiterInv
  <2> QED BY <2>1, <2>2, <2>3
<1>3. SendInv' /\ OwnerInv' /\ KindInv' /\ TimerInv'
  BY <1>1 DEF IInv, JobInv, SendInv, OwnerInv, Owns, KindInv, TimerInv
<1>4. DeliveryInv' /\ PersistInv'
  BY <1>1 DEF IInv, DeliveryInv, PersistInv, Owns
<1> QED BY <1>2, <1>3, <1>4 DEF IInv, JobInv

\* One case per action of the queue.
LEMMA NextPreserves == IInv /\ [Next]_vars => IInv'
<1> SUFFICES ASSUME IInv, [Next]_vars PROVE IInv'
  OBVIOUS
<1>1. ASSUME NEW r \in Requests, HandlerStep(r) PROVE IInv'
  <2>1. CASE Coalesce(r)
    BY <2>1, CoalesceStep
  <2>2. CASE RefuseFull(r)
    BY <2>2, RefuseFullStep
  <2>3. CASE Mint(r)
    BY <2>3, MintStep
  <2>4. CASE ArmTimer(r)
    BY <2>4, ArmTimerStep
  <2>5. CASE Receive(r)
    BY <2>5, ReceiveStep
  <2>6. CASE TimerFire(r)
    BY <2>6, TimerFireStep
  <2>7. CASE TimerWins(r)
    BY <2>7, TimerWinsStep
  <2>8. CASE TimerLoses(r)
    BY <2>8, TimerLosesStep
  <2>9. CASE TimerReturns(r)
    BY <2>9, TimerReturnsStep
  <2>10. CASE CancelWaiter(r)
    BY <2>10, CancelWaiterStep
  <2>11. CASE CancelTooLate(r)
    BY <2>11, CancelTooLateStep
  <2> QED BY <1>1, <2>1, <2>2, <2>3, <2>4, <2>5, <2>6, <2>7, <2>8, <2>9, <2>10, <2>11
          DEF HandlerStep
<1>2. ASSUME NEW o \in Operators, OperatorStep(o) PROVE IInv'
  <2>1. ASSUME NEW h \in Requests, Approve(o, h) \/ Deny(o, h) PROVE IInv'
    <3>1. PICK effect \in {"allow", "deny"} : Resolve(o, h, effect)
      BY <2>1 DEF Approve, Deny
    <3> QED BY <3>1, ResolveStep
  <2>2. CASE OperatorSent(o)
    BY <2>2, OperatorSentStep
  <2>3. CASE Persist(o)
    BY <2>3, PersistStep
  <2> QED BY <1>2, <2>1, <2>2, <2>3 DEF OperatorStep
<1>3. ASSUME NEW h \in Advised, AdvisorStep(h) PROVE IInv'
  <2>3. h \in Requests
    BY ConstantsAssumption
  <2>1. ASSUME NEW effect \in {"allow", "deny"}, ResolveByAdvisor(h, effect) PROVE IInv'
    BY <2>1, <2>3, ResolveByAdvisorStep
  <2>2. CASE AdvisorSent(h)
    BY <2>2, <2>3, AdvisorSentStep
  <2> QED BY <1>3, <2>1, <2>2 DEF AdvisorStep
<1>4. ASSUME NEW t \in Threads, Broadcast(t) PROVE IInv'
  BY <1>4, BroadcastStep
<1>5. ASSUME NEW cap \in CapArgs, NEW policy \in PolicyArgs, Reconfigure(cap, policy)
      PROVE IInv'
  BY <1>5, ReconfigureStep
<1>6. CASE Shutdown
  BY <1>6, ShutdownStep
<1>7. CASE UNCHANGED vars
  BY <1>7, StutterPreserves
<1> QED BY <1>1, <1>2, <1>3, <1>4, <1>5, <1>6, <1>7 DEF Next

(***************************************************************************)
(* IInv is an invariant of the queue.                                      *)
(***************************************************************************)
THEOREM InductiveInvariant == Spec => []IInv
<1>1. Init => IInv
  BY InitEstablishes
<1>2. IInv /\ [Next]_vars => IInv'
  BY NextPreserves
<1> QED BY <1>1, <1>2, PTL DEF Spec

(***************************************************************************)
(* Type correctness, and the lockstep of Queue.items and Queue.byKey.      *)
(***************************************************************************)
THEOREM TypeCorrect == Spec => []TypeOK
<1>1. IInv => TypeOK
  BY DEF IInv
<1> QED BY <1>1, InductiveInvariant, PTL

THEOREM Lockstep == Spec => []IndexesInLockstep
<1>1. IInv => IndexesInLockstep
  BY DEF IInv
<1> QED BY <1>1, InductiveInvariant, PTL

(***************************************************************************)
(* No slot under max_pending is held by a hold nobody waits on             *)
(* (cancelWaiter, claim and Shutdown evict).                               *)
(***************************************************************************)
THEOREM SlotsAreLive == Spec => []NoLeakedSlot
<1>1. IInv => NoLeakedSlot
  BY Shapes DEF IInv, NoLeakedSlot, WaiterInv
<1> QED BY <1>1, InductiveInvariant, PTL

(***************************************************************************)
(* A hold evicted without a decision had lost all its clients.             *)
(***************************************************************************)
THEOREM AbandonmentIsTotal == Spec => []AbandonedOnlyWhenAllLeft
<1>1. IInv => AbandonedOnlyWhenAllLeft
  <2>1. ASSUME IInv, NEW h \in Requests, resolved[h], verdict[h] = None,
               NEW r \in Requests, hold[r] = h
        PROVE  dec[r] = Disconnected
    BY <2>1, ConstantsAssumption DEF IInv, DeliveryInv
  <2> QED BY <2>1 DEF AbandonedOnlyWhenAllLeft
<1> QED BY <1>1, InductiveInvariant, PTL

(***************************************************************************)
(* The bare receive in Wait (return <-ch) always has a sender.             *)
(***************************************************************************)
THEOREM WakeupsAreNotLost == Spec => []NoLostWakeup
<1>1. IInv => NoLostWakeup
  <2>1. ASSUME IInv, NEW r \in Requests, pc[r] = "receive"
        PROVE  \/ ch[r] # None
               \/ \E t \in Threads : job[t].phase = "send" /\ r \in job[t].todo
    <3>1. hold[r] \in Requests /\ dec[r] = None
      BY <2>1, Shapes DEF IInv, HandlerInv
    <3>2. hold[r] \notin items
      BY <2>1, <3>1 DEF IInv, WaiterInv
    <3>3. hold[hold[r]] = hold[r]
      BY <2>1, <3>1, ConstantsAssumption DEF IInv, MintInv
    <3>4. resolved[hold[r]]
      BY <2>1, <3>1, <3>2, <3>3 DEF IInv, MintInv
    <3> QED BY <2>1, <3>1, <3>4, ConstantsAssumption DEF IInv, DeliveryInv
  <2> QED BY <2>1 DEF NoLostWakeup
<1> QED BY <1>1, InductiveInvariant, PTL

(***************************************************************************)
(* Coalesced requests are told one decision.                               *)
(***************************************************************************)
THEOREM OneDecision == Spec => []OneAnswerPerHold
<1>1. IInv => OneAnswerPerHold
  BY DEF IInv, OneAnswerPerHold, DeliveryInv
<1> QED BY <1>1, InductiveInvariant, PTL

(***************************************************************************)
(* The persistence callback runs at most once per hold, with an operator's *)
(* decision, and with the one its waiters get.                             *)
(***************************************************************************)
THEOREM PersistedOnce == Spec => []PersistedOnceByOperator
<1>1. IInv => PersistedOnceByOperator
  BY DEF IInv, PersistedOnceByOperator, PersistInv
<1> QED BY <1>1, InductiveInvariant, PTL

-----------------------------------------------------------------------------
(***************************************************************************)
(* The approval queue implements HoldContract: every step of the queue is  *)
(* a step of the contract or leaves its variables unchanged.               *)
(***************************************************************************)
\* The contract's pending holds are the ones in Queue.items.
LEMMA PendingIsItems ==
    ASSUME IInv
    PROVE  Contract!Pending = items
<1> USE ConstantsAssumption DEF IInv
<1>1. ASSUME NEW h \in items
      PROVE  h \in Requests /\ verdict[h] = None
             /\ \E r \in Requests : hold[r] = h /\ dec[r] = None
  <2>1. h \in Requests /\ verdict[h] = None
    BY Shapes DEF IndexesInLockstep, MintInv
  <2>2. PICK r \in waiters[h] : TRUE
    BY DEF WaiterInv
  <2>3. r \in Requests /\ hold[r] = h /\ dec[r] = None
    BY <2>1, <2>2, Shapes DEF WaiterInv
  <2> QED BY <2>1, <2>3
<1>2. ASSUME NEW h \in Requests, verdict[h] = None,
             NEW r \in Requests, hold[r] = h, dec[r] = None
      PROVE  h \in items
  <2>1. hold[h] = h
    BY <1>2 DEF MintInv
  <2>2. ~resolved[h]
    BY <1>2 DEF DeliveryInv
  <2> QED BY <2>1, <2>2 DEF MintInv
<1> QED BY <1>1, <1>2 DEF Contract!Pending

\* A key that cannot be coalesced has no pending hold.
LEMMA NoHoldForKey ==
    ASSUME IInv, NEW k \in Keys, ~CanCoalesce(k)
    PROVE  Contract!PendingFor(k) = {}
<1> SUFFICES ASSUME NEW h \in Contract!PendingFor(k) PROVE FALSE
  OBVIOUS
<1>1. h \in items /\ KeyOf[h] = k
  BY PendingIsItems DEF Contract!PendingFor
<1>2. byKey[k] = h /\ ~resolved[h] /\ h # None
  BY <1>1, Shapes, ConstantsAssumption DEF IInv, IndexesInLockstep
<1> QED BY <1>2 DEF CanCoalesce

\* The contract's instance of FiniteSets is the queue's.
LEMMA SameCardinality == \A S : Contract!Cardinality(S) = Cardinality(S)
BY DEF Contract!Cardinality, Cardinality

LEMMA CoalesceJoins ==
    ASSUME IInv, NEW r \in Requests, Coalesce(r)
    PROVE  Contract!Join(r)
<1> DEFINE h == byKey[KeyOf[r]]
<1> USE ConstantsAssumption DEF IInv
<1>1. pc[r] = "start" /\ h # None
  BY DEF Coalesce, CanCoalesce
<1>2. Contract!Fresh(r)
  BY <1>1 DEF HandlerInv, Contract!Fresh
<1>3. h \in Contract!PendingFor(KeyOf[r])
  BY <1>1, PendingIsItems DEF IndexesInLockstep, Contract!PendingFor
<1>4. hold' = [hold EXCEPT ![r] = h] /\ UNCHANGED <<maxPending, verdict, dec, persisted>>
  BY DEF Coalesce, config
<1> QED BY <1>2, <1>3, <1>4 DEF Contract!Join

LEMMA MintOpens ==
    ASSUME IInv, NEW r \in Requests, Mint(r)
    PROVE  Contract!Open(r)
<1> USE ConstantsAssumption DEF IInv
<1>1. Contract!Fresh(r)
  BY DEF Mint, HandlerInv, Contract!Fresh
<1>2. Contract!PendingFor(KeyOf[r]) = {}
  BY NoHoldForKey DEF Mint
<1>3. Contract!Cardinality(Contract!Pending) < maxPending
  BY PendingIsItems, SameCardinality DEF Mint
<1>4. hold' = [hold EXCEPT ![r] = r] /\ UNCHANGED <<maxPending, verdict, dec, persisted>>
  BY DEF Mint, config
<1> QED BY <1>1, <1>2, <1>3, <1>4 DEF Contract!Open

LEMMA RefuseFullRefuses ==
    ASSUME IInv, NEW r \in Requests, RefuseFull(r)
    PROVE  Contract!Refuse(r)
<1> USE ConstantsAssumption DEF IInv
<1>1. Contract!Fresh(r)
  BY DEF RefuseFull, HandlerInv, Contract!Fresh
<1>2. Contract!PendingFor(KeyOf[r]) = {}
  BY NoHoldForKey DEF RefuseFull
<1>3. Contract!Cardinality(Contract!Pending) >= maxPending
  BY PendingIsItems, SameCardinality DEF RefuseFull
<1>4. dec' = [dec EXCEPT ![r] = QueueFull] /\ UNCHANGED <<maxPending, hold, verdict, persisted>>
  BY DEF RefuseFull, config
<1> QED BY <1>1, <1>2, <1>3, <1>4 DEF Contract!Refuse

LEMMA ReceiveAnswers ==
    ASSUME IInv, NEW r \in Requests, Receive(r)
    PROVE  Contract!Answer(r)
<1> USE ConstantsAssumption DEF IInv
<1>1. ch[r] # None /\ pc[r] # "done" /\ pc[r] # "start"
  BY DEF Receive
<1>2. hold[r] # None /\ dec[r] = None /\ ch[r] = verdict[hold[r]]
  BY <1>1 DEF HandlerInv, DeliveryInv
<1>3. dec' = [dec EXCEPT ![r] = ch[r]] /\ UNCHANGED <<maxPending, hold, verdict, persisted>>
  BY DEF Receive, config
<1> QED BY <1>1, <1>2, <1>3 DEF Contract!Answer

LEMMA TimerReturnsAnswers ==
    ASSUME IInv, NEW r \in Requests, TimerReturns(r)
    PROVE  Contract!Answer(r)
<1> DEFINE me == TimerThread(r)
<1> USE ConstantsAssumption DEF IInv, JobInv
<1>1. pc[r] = "sending" /\ me \in Threads
  BY ThreadFacts DEF TimerReturns
<1>2. job[me].phase = "send" /\ job[me].hold = hold[r]
  BY <1>1 DEF TimerInv
<1>3. hold[r] # None /\ job[me].decision = verdict[hold[r]] /\ verdict[hold[r]] # None
  BY <1>1, <1>2 DEF SendInv
<1>4. dec[r] = None
  BY <1>1 DEF HandlerInv
<1>5. /\ dec' = [dec EXCEPT ![r] = job[me].decision]
      /\ UNCHANGED <<maxPending, hold, verdict, persisted>>
  BY DEF TimerReturns, config
<1> QED BY <1>3, <1>4, <1>5 DEF Contract!Answer

LEMMA CancelLeaves ==
    ASSUME IInv, NEW r \in Requests, CancelWaiter(r)
    PROVE  Contract!Leave(r)
<1> USE ConstantsAssumption DEF IInv
<1>1. hold[r] \in Contract!Pending
  BY PendingIsItems DEF CancelWaiter, Claimable
<1>2. dec[r] = None
  BY DEF CancelWaiter, HandlerInv
<1>3. dec' = [dec EXCEPT ![r] = Disconnected] /\ UNCHANGED <<maxPending, hold, verdict, persisted>>
  BY DEF CancelWaiter, config
<1> QED BY <1>1, <1>2, <1>3 DEF Contract!Leave

LEMMA StartDecides ==
    ASSUME IInv, NEW t \in Threads, NEW h \in Requests, NEW d \in Verdicts,
           StartBroadcast(t, h, d),
           UNCHANGED <<maxPending, hold, dec, persisted>>
    PROVE  Contract!Next
<1>1. {h} \subseteq Contract!Pending
  BY PendingIsItems DEF StartBroadcast, Claim, Claimable
<1>2. verdict' = [g \in Requests |-> IF g \in {h} THEN d ELSE verdict[g]]
  BY DEF StartBroadcast, IInv, TypeOK
<1>3. Contract!Decide({h}, d)
  BY <1>1, <1>2 DEF Contract!Decide
<1> QED BY <1>3 DEF Contract!Next

LEMMA ShutdownDecides ==
    ASSUME IInv, Shutdown
    PROVE  Contract!Next
<1> USE DEF IInv
<1>1. {h \in items : ~resolved[h]} = items
  BY DEF IndexesInLockstep
<1>2. items \in SUBSET Requests /\ items \subseteq Contract!Pending
  BY Shapes, PendingIsItems
<1>3. verdict' = [h \in Requests |-> IF h \in items THEN ShutdownDecision ELSE verdict[h]]
  BY <1>1 DEF Shutdown
<1>4. UNCHANGED <<maxPending, hold, dec, persisted>>
  BY DEF Shutdown, config
<1>5. Contract!Decide(items, ShutdownDecision)
  BY <1>2, <1>3, <1>4 DEF Contract!Decide
<1> QED BY <1>2, <1>5, DecisionFacts DEF Contract!Next

LEMMA PersistRecords ==
    ASSUME IInv, NEW o \in Operators, Persist(o)
    PROVE  Contract!Next
<1> DEFINE me == OperatorThread(o)
<1> USE ConstantsAssumption DEF IInv, JobInv
<1>1. me \in Threads /\ job[me].phase = "persist"
  BY ThreadFacts DEF Persist
<1>2. PICK h \in Requests : h = job[me].hold
  BY <1>1 DEF SendInv
<1>3. verdict[h] \in OperatorVerdicts /\ Owns(me, h)
  BY <1>1, <1>2 DEF SendInv, KindInv, Owns
<1>4. h \notin {p.hold : p \in persisted}
  BY <1>1, <1>3 DEF PersistInv
<1>5. PICK q : q.hold = h /\ persisted' = persisted \cup {q}
  BY <1>2 DEF Persist
<1>6. {p.hold : p \in persisted}' = {p.hold : p \in persisted} \cup {h}
  BY <1>5
<1>7. UNCHANGED <<maxPending, hold, verdict, dec>>
  BY DEF Persist, config, waits
<1>8. Contract!Record(h)
  BY <1>3, <1>4, <1>6, <1>7 DEF Contract!Record
<1> QED BY <1>8 DEF Contract!Next

\* The steps that the contract does not see.
LEMMA Invisible ==
    ASSUME UNCHANGED <<maxPending, hold, verdict, dec, persisted>>
    PROVE  UNCHANGED Contract!vars
BY DEF Contract!vars

LEMMA StepRefines == IInv /\ [Next]_vars => [Contract!Next]_(Contract!vars)
<1> SUFFICES ASSUME IInv, [Next]_vars
             PROVE  Contract!Next \/ UNCHANGED Contract!vars
  OBVIOUS
<1>1. ASSUME NEW r \in Requests, HandlerStep(r)
      PROVE  Contract!Next \/ UNCHANGED Contract!vars
  <2>1. CASE Coalesce(r) \/ Mint(r) \/ RefuseFull(r)
    BY <2>1, CoalesceJoins, MintOpens, RefuseFullRefuses DEF Contract!Next
  <2>2. CASE Receive(r) \/ TimerReturns(r)
    BY <2>2, ReceiveAnswers, TimerReturnsAnswers DEF Contract!Next
  <2>3. CASE CancelWaiter(r)
    BY <2>3, CancelLeaves DEF Contract!Next
  <2>4. CASE TimerWins(r)
    <3>1. pc[r] = "fired" /\ TimerThread(r) \in Threads
      BY <2>4, ThreadFacts DEF TimerWins
    <3>2. hold[r] \in Requests /\ job[TimerThread(r)].decision \in Verdicts
      BY <3>1, DecisionFacts, Shapes DEF IInv, JobInv, TimerInv, HandlerInv
    <3>3. /\ StartBroadcast(TimerThread(r), hold[r], job[TimerThread(r)].decision)
          /\ UNCHANGED <<maxPending, hold, dec, persisted>>
      BY <2>4 DEF TimerWins, config
    <3> QED BY <3>1, <3>2, <3>3, StartDecides
  <2>5. CASE ArmTimer(r) \/ TimerFire(r) \/ TimerLoses(r) \/ CancelTooLate(r)
    <3>1. UNCHANGED <<maxPending, hold, verdict, dec, persisted>>
      BY <2>5 DEF ArmTimer, TimerFire, TimerLoses, CancelTooLate, config
    <3> QED BY <3>1, Invisible
  <2> QED BY <1>1, <2>1, <2>2, <2>3, <2>4, <2>5 DEF HandlerStep
<1>2. ASSUME NEW o \in Operators, OperatorStep(o)
      PROVE  Contract!Next \/ UNCHANGED Contract!vars
  <2>1. ASSUME NEW h \in Requests, Approve(o, h) \/ Deny(o, h)
        PROVE  Contract!Next
    <3>1. PICK effect \in {"allow", "deny"} : Resolve(o, h, effect)
      BY <2>1 DEF Approve, Deny
    <3>2. /\ StartBroadcast(OperatorThread(o), h, OperatorDecision(effect))
          /\ UNCHANGED <<maxPending, hold, dec, persisted>>
      BY <3>1 DEF Resolve, config, waits
    <3>3. OperatorThread(o) \in Threads /\ OperatorDecision(effect) \in Verdicts
      BY ThreadFacts, DecisionFacts
    <3> QED BY <3>2, <3>3, StartDecides
  <2>2. CASE OperatorSent(o)
    <3>1. UNCHANGED <<maxPending, hold, verdict, dec, persisted>>
      BY <2>2 DEF OperatorSent, config, waits
    <3> QED BY <3>1, Invisible
  <2>3. CASE Persist(o)
    BY <2>3, PersistRecords
  <2> QED BY <1>2, <2>1, <2>2, <2>3 DEF OperatorStep
<1>3. ASSUME NEW h \in Advised, AdvisorStep(h)
      PROVE  Contract!Next \/ UNCHANGED Contract!vars
  <2>3. h \in Requests
    BY ConstantsAssumption
  <2>1. ASSUME NEW effect \in {"allow", "deny"}, ResolveByAdvisor(h, effect)
        PROVE  Contract!Next
    <3>1. /\ StartBroadcast(AdvisorThread(h), h, AdvisorDecision(effect))
          /\ UNCHANGED <<maxPending, hold, dec, persisted>>
      BY <2>1 DEF ResolveByAdvisor, config, waits
    <3>2. AdvisorThread(h) \in Threads /\ AdvisorDecision(effect) \in Verdicts
      BY <2>3, ThreadFacts, DecisionFacts
    <3> QED BY <2>3, <3>1, <3>2, StartDecides
  <2>2. CASE AdvisorSent(h)
    <3>1. UNCHANGED <<maxPending, hold, verdict, dec, persisted>>
      BY <2>2 DEF AdvisorSent, config, waits
    <3> QED BY <3>1, Invisible
  <2> QED BY <1>3, <2>1, <2>2 DEF AdvisorStep
<1>4. ASSUME NEW t \in Threads, Broadcast(t)
      PROVE  UNCHANGED Contract!vars
  <2>1. UNCHANGED <<maxPending, hold, verdict, dec, persisted>>
    BY <1>4 DEF Broadcast, config
  <2> QED BY <2>1, Invisible
<1>5. ASSUME NEW cap \in CapArgs, NEW policy \in PolicyArgs, Reconfigure(cap, policy)
      PROVE  Contract!Next
  <2>1. maxPending' \in Int
    BY <1>5, ConstantsAssumption DEF Reconfigure, IInv, TypeOK
  <2>2. UNCHANGED <<hold, verdict, dec, persisted>>
    BY <1>5 DEF Reconfigure, waits
  <2>3. Contract!Resize
    BY <2>1, <2>2 DEF Contract!Resize
  <2> QED BY <2>3 DEF Contract!Next
<1>6. CASE Shutdown
  BY <1>6, ShutdownDecides
<1>7. CASE UNCHANGED vars
  <2>1. UNCHANGED <<maxPending, hold, verdict, dec, persisted>>
    BY <1>7 DEF vars, config, waits
  <2> QED BY <2>1, Invisible
<1> QED BY <1>1, <1>2, <1>3, <1>4, <1>5, <1>6, <1>7 DEF Next

(***************************************************************************)
(* The queue implements its contract: coalescing, at-most-one verdict,     *)
(* everyone told that verdict unless its client had left before it, no     *)
(* refusal of a retry of a pending request, one record per operator's      *)
(* decision.                                                               *)
(***************************************************************************)
THEOREM QueueImplementsContract == Spec => ImplementsContract
<1>1. Init => Contract!Init
  <2>1. Init => maxPending \in Int
    BY InitEstablishes DEF IInv, TypeOK
  <2> QED BY <2>1 DEF Init, Contract!Init
<1>2. IInv /\ [Next]_vars => [Contract!Next]_(Contract!vars)
  BY StepRefines
<1> QED BY <1>1, <1>2, InductiveInvariant, PTL DEF Spec, ImplementsContract, Contract!Spec
=============================================================================
