------------------------ MODULE InterceptTunnelProofs ------------------------
(***************************************************************************)
(* Proofs about InterceptTunnel for every set of tunnels, every script of  *)
(* their clients and every policy: the watcher of a held request is alone  *)
(* at the tunnel's reader (#211, #213); a client that waits for its answer *)
(* loses no request of its keep-alive connection; and what a request was   *)
(* told, what was logged and what its operations row shows agree.          *)
(***************************************************************************)
EXTENDS InterceptTunnel, SequenceTheorems, TLAPS

HoldLabels == {"enqueue", "hold", "unwatch", "interrupt", "joining"}

Decided == {"row", "decide", "watch"}

(***************************************************************************)
(* The inductive invariant.  bufferedBody is set when the sample was read  *)
(* and when the body was drained; until the watcher starts it tells the    *)
(* truth about the reader.                                                 *)
(***************************************************************************)
Shapes ==
    /\ pc \in [Tunnels -> Labels]
    /\ watch \in [Tunnels -> {"none", "peeking", "done"}]
    /\ buffered \in [Tunnels -> BOOLEAN]
    /\ DOMAIN used = Tunnels
    /\ DOMAIN cur = Tunnels

BodyTaken(t) == ~BodyGoesOn(t, cur[t], used[t])

TunnelInv(t) ==
    /\ watch[t] = "peeking" => pc[t] \in HoldLabels /\ BodyTaken(t)
    /\ pc[t] \in Decided /\ buffered[t] => BodyTaken(t)

IInv == Shapes /\ \A t \in Tunnels : TunnelInv(t)

-----------------------------------------------------------------------------
(***************************************************************************)
(* A step of tunnel t leaves the other tunnels alone.                      *)
(***************************************************************************)
SameAt(s) ==
    /\ pc'[s] = pc[s] /\ watch'[s] = watch[s] /\ buffered'[s] = buffered[s]
    /\ used'[s] = used[s] /\ cur'[s] = cur[s]

Only(t) == Shapes' /\ script' = script /\ \A s \in Tunnels \ {t} : SameAt(s)

\* So the invariant is kept if it is kept at t.
LEMMA KeptAt ==
    ASSUME NEW t \in Tunnels, IInv, Only(t), TunnelInv(t)'
    PROVE  IInv'
<1>1. ASSUME NEW s \in Tunnels, s # t
      PROVE  TunnelInv(s)'
  <2>1. TunnelInv(s)
    BY <1>1 DEF IInv
  <2>2. SameAt(s) /\ script' = script
    BY <1>1 DEF Only
  <2> QED
    BY <2>1, <2>2 DEF TunnelInv, BodyTaken, BodyGoesOn, SameAt
<1> QED
  BY <1>1 DEF IInv, Only

\* A step outside the hold that neither starts a watcher nor leads to one.
LEMMA Moves ==
    ASSUME NEW t \in Tunnels, IInv, Only(t),
           pc[t] \notin HoldLabels, pc'[t] \notin Decided, watch'[t] = watch[t]
    PROVE  IInv'
<1>1. watch'[t] # "peeking"
  BY DEF IInv, TunnelInv
<1> QED
  BY <1>1, KeptAt DEF TunnelInv

\* A step that leaves the goroutines, the watchers and what was read alone.
LEMMA Elsewhere ==
    ASSUME IInv, UNCHANGED <<script, pc, watch, buffered, used, cur>>
    PROVE  IInv'
BY DEF IInv, Shapes, TunnelInv, BodyTaken, BodyGoesOn

-----------------------------------------------------------------------------
(***************************************************************************)
(* The steps.                                                              *)
(***************************************************************************)
LEMMA InitIInv == Init => IInv
BY DEF Init, IInv, Shapes, TunnelInv, Labels, HoldLabels, Decided

\* Outside the watched hold, and not towards it.
LEMMA PlainSteps ==
    ASSUME NEW t \in Tunnels, IInv,
           \/ Connect(t) \/ HandshakeSucceeds(t) \/ HandshakeFails(t)
           \/ ReadRequest(t) \/ ReadFails(t) \/ BodyFails(t)
           \/ Refuse(t) \/ Forward(t) \/ DialOrigin(t) \/ SendBody(t)
           \/ RelayResponse(t) \/ ExchangeFails(t) \/ WriteAudit(t)
    PROVE  IInv'
<1> USE DEF Labels, HoldLabels, Decided
<1>a. Shapes
  BY DEF IInv
<1> DEFINE Plain == /\ Only(t) /\ watch'[t] = watch[t]
                    /\ pc[t] \notin HoldLabels /\ pc'[t] \notin Decided
<1>1. Connect(t) => Plain
  BY <1>a DEF Connect, Only, SameAt, Shapes, Goto, Set, env, reader, watcher
<1>2. HandshakeSucceeds(t) \/ HandshakeFails(t) => Plain
  BY <1>a DEF HandshakeSucceeds, HandshakeFails, Only, SameAt, Shapes, Goto, Set, env, reader, watcher
<1>3. ReadRequest(t) => Plain
  BY <1>a DEF ReadRequest, Take, Only, SameAt, Shapes, Goto, Set, env, watcher
<1>4. ReadFails(t) \/ BodyFails(t) => Plain
  BY <1>a DEF ReadFails, BodyFails, Only, SameAt, Shapes, Goto, Set, env, reader, watcher
<1>5. Refuse(t) \/ Forward(t) => Plain
  BY <1>a DEF Refuse, Forward, Only, SameAt, Shapes, Goto, Set, env, reader, watcher
<1>6. DialOrigin(t) \/ RelayResponse(t) \/ ExchangeFails(t) => Plain
  BY <1>a DEF DialOrigin, RelayResponse, ExchangeFails, Only, SameAt, Shapes, Goto, Set, env, reader, watcher
<1>7. SendBody(t) => Plain
  BY <1>a DEF SendBody, Take, Only, SameAt, Shapes, Goto, Set, env, watcher, tunnel
<1>8. WriteAudit(t) => Plain
  BY <1>a DEF WriteAudit, AfterAudit, Only, SameAt, Shapes, Goto, Set, env, reader, watcher
<1>p. Plain
  BY <1>1, <1>2, <1>3, <1>4, <1>5, <1>6, <1>7, <1>8
<1> QED
  BY <1>p, Moves

\* Towards the hold: buffered is set from what is left on the tunnel.
LEMMA BodySteps ==
    ASSUME NEW t \in Tunnels, IInv,
           SampleBody(t) \/ RebindOrBegin(t) \/ Evaluate(t) \/ DrainBody(t) \/ StartWatch(t)
    PROVE  IInv'
<1> USE DEF Labels, HoldLabels, Decided
<1>a. Shapes /\ TunnelInv(t)
  BY DEF IInv
<1>1. CASE SampleBody(t)
  <2>1. Only(t)
    BY <1>1, <1>a DEF SampleBody, Take, Only, SameAt, Shapes, Goto, Set, env, reader, watcher
  <2>2. watch'[t] # "peeking" /\ buffered'[t] = ~BodyGoesOn(t, cur[t], used'[t])
    BY <1>1, <1>a DEF SampleBody, Shapes, TunnelInv, Set, watcher
  <2>3. BodyTaken(t)' <=> ~BodyGoesOn(t, cur[t], used'[t])
    BY <1>1 DEF SampleBody, BodyTaken, BodyGoesOn, env
  <2> QED
    BY <2>1, <2>2, <2>3, KeptAt DEF TunnelInv
<1>2. CASE RebindOrBegin(t) \/ Evaluate(t)
  <2>1. Only(t)
    BY <1>2, <1>a DEF RebindOrBegin, Evaluate, Only, SameAt, Shapes, Goto, Set, env, reader, watcher
  <2>2. /\ watch'[t] # "peeking"
        /\ buffered'[t] = buffered[t] /\ pc[t] \in Decided
        /\ BodyTaken(t)' <=> BodyTaken(t)
    BY <1>2, <1>a DEF RebindOrBegin, Evaluate, Shapes, TunnelInv, BodyTaken, BodyGoesOn,
                      env, reader, watcher
  <2> QED
    BY <2>1, <2>2, <1>a, KeptAt DEF TunnelInv
<1>3. CASE DrainBody(t)
  <2>1. Only(t)
    BY <1>3, <1>a DEF DrainBody, Take, Only, SameAt, Shapes, Goto, Set, env, watcher
  <2>2. /\ watch'[t] # "peeking"
        /\ buffered'[t] = ~BodyGoesOn(t, cur[t], used[t] + 1)
        /\ used'[t] = used[t] + 1
    BY <1>3, <1>a DEF DrainBody, Take, Shapes, TunnelInv, Set, watcher
  <2>3. BodyTaken(t)' <=> ~BodyGoesOn(t, cur[t], used'[t])
    BY <1>3 DEF DrainBody, BodyTaken, BodyGoesOn, env
  <2> QED
    BY <2>1, <2>2, <2>3, KeptAt DEF TunnelInv
<1>4. CASE StartWatch(t)
  <2>1. Only(t)
    BY <1>4, <1>a DEF StartWatch, Only, SameAt, Shapes, Goto, Set, env, reader
  <2>2. /\ watch'[t] = "peeking" => buffered[t]
        /\ pc[t] \in Decided /\ pc'[t] = "enqueue"
        /\ BodyTaken(t)' <=> BodyTaken(t)
    BY <1>4, <1>a DEF StartWatch, Shapes, BodyTaken, BodyGoesOn, Goto, Set, env, reader
  <2> QED
    BY <2>1, <2>2, <1>a, KeptAt DEF TunnelInv
<1> QED
  BY <1>1, <1>2, <1>3, <1>4

\* In the hold: nothing is read, and the tunnel leaves it without a watcher at work.
LEMMA HoldSteps ==
    ASSUME NEW t \in Tunnels, IInv,
           \/ Enqueue(t) \/ WaitReturns(t) \/ WaitIsCancelled(t) \/ SignalTimerFires(t)
           \/ CheckWatcher(t) \/ SetReadDeadline(t) \/ JoinWatcher(t)
           \/ PeekSucceeds(t) \/ PeekFails(t)
    PROVE  IInv'
<1> USE DEF Labels, HoldLabels, Decided
<1>a. Shapes /\ TunnelInv(t)
  BY DEF IInv
<1>1. CASE Enqueue(t) \/ WaitReturns(t) \/ WaitIsCancelled(t) \/ SignalTimerFires(t)
           \/ CheckWatcher(t) \/ SetReadDeadline(t)
  <2>1. Only(t)
    BY <1>1, <1>a DEF Enqueue, WaitReturns, WaitIsCancelled, SignalTimerFires, HoldEnds,
                      CheckWatcher, SetReadDeadline, Only, SameAt, Shapes, Goto, Set,
                      env, reader, watcher
  <2>2. /\ watch'[t] = watch[t]
        /\ pc'[t] \in HoldLabels \cup {"resolved"}
        /\ pc'[t] = "resolved" => watch[t] # "peeking"
        /\ BodyTaken(t)' <=> BodyTaken(t)
    BY <1>1, <1>a DEF Enqueue, WaitReturns, WaitIsCancelled, SignalTimerFires, HoldEnds,
                      CheckWatcher, SetReadDeadline, Shapes, BodyTaken, BodyGoesOn, Goto, Set,
                      env, reader, watcher
  <2> QED
    BY <2>1, <2>2, <1>a, KeptAt DEF TunnelInv
<1>2. CASE JoinWatcher(t)
  <2>1. Only(t)
    BY <1>2, <1>a DEF JoinWatcher, Only, SameAt, Shapes, Goto, Set, env, watcher
  <2>2. watch'[t] = "done" /\ pc'[t] = "resolved"
    BY <1>2, <1>a DEF JoinWatcher, Shapes, Goto, Set, watcher
  <2> QED
    BY <2>1, <2>2, KeptAt DEF TunnelInv
<1>3. CASE PeekSucceeds(t) \/ PeekFails(t)
  <2>1. Only(t)
    BY <1>3, <1>a DEF PeekSucceeds, PeekFails, Only, SameAt, Shapes, Set, env, reader, tunnel
  <2>2. watch'[t] = "done" /\ pc'[t] \in HoldLabels
    BY <1>3, <1>a DEF PeekSucceeds, PeekFails, Shapes, TunnelInv, Set, tunnel
  <2> QED
    BY <2>1, <2>2, KeptAt DEF TunnelInv
<1> QED
  BY <1>1, <1>2, <1>3

LEMMA StepIInv == IInv /\ [Next]_vars => IInv'
<1> SUFFICES ASSUME IInv, [Next]_vars PROVE IInv'
  OBVIOUS
<1>1. CASE \E t \in Tunnels : TunnelStep(t) \/ PeekSucceeds(t) \/ PeekFails(t)
  BY <1>1, PlainSteps, BodySteps, HoldSteps DEF TunnelStep
<1>2. CASE \E r \in Requests : BackgroundWaitReturns(r)
  BY <1>2, Elsewhere DEF BackgroundWaitReturns, env, reader, tunnel, watcher
<1>3. CASE Environment
  BY <1>3, Elsewhere DEF Environment, ClientWrites, ClientLeaves, DecideHold, Persist,
                         CancelContext, SweepQueue, CloseTrackedConns,
                         env, reader, tunnel, watcher
<1>4. CASE UNCHANGED vars
  BY <1>4, Elsewhere DEF vars, env, reader, tunnel, watcher
<1> QED
  BY <1>1, <1>2, <1>3, <1>4 DEF Next

-----------------------------------------------------------------------------
(***************************************************************************)
(* The invariant above holds of every behaviour of the tunnels.            *)
(***************************************************************************)
THEOREM InductiveInvariant == Spec => []IInv
<1>1. Init => IInv
  BY InitIInv
<1>2. IInv /\ [Next]_vars => IInv'
  BY StepIInv
<1> QED
  BY <1>1, <1>2, PTL DEF Spec

(***************************************************************************)
(* #211, #213: the watcher peeks only during the hold it was started for   *)
(* and only at what follows the held request; bodies of any length,        *)
(* pipelining clients, verdicts, disconnects and shutdown included.        *)
(***************************************************************************)
THEOREM ReaderIsNotShared == Spec => []WatcherHasReaderAlone
<1>1. IInv => WatcherHasReaderAlone
  BY DEF IInv, TunnelInv, BodyTaken, WatcherHasReaderAlone, HoldLabels
<1> QED
  BY <1>1, InductiveInvariant, PTL

-----------------------------------------------------------------------------
(***************************************************************************)
(* What a client that waits for its answers loses, and what the entry, the *)
(* row and the verdict tell: a second invariant, over the requests.  Seen: *)
(* a part of the request was read from the tunnel.                         *)
(***************************************************************************)
Busy == {"sample", "row", "decide", "drain", "watch", "resolved", "dial", "send",
         "audit", "exchange failed", "client lost"} \cup HoldLabels

\* From the policy's decision to the entry.
Settled == {"drain", "watch", "resolved", "dial", "send", "audit", "exchange failed",
            "client lost"} \cup HoldLabels

Stores ==
    /\ script \in Scripts
    /\ DOMAIN written = Tunnels /\ DOMAIN fetched = Tunnels
    /\ DOMAIN discarded = Tunnels /\ DOMAIN rebound = Tunnels
    /\ DOMAIN dec = Requests /\ DOMAIN wire = Requests /\ DOMAIN logged = Requests
    /\ DOMAIN verdict = Requests
    /\ member \in [Requests -> Requests \cup {None}]
    /\ DOMAIN status = Rows

Seen(t, r) == \E n \in 1..used[t] : script[t][n].req = r

\* The hold that r joined, if it joined one, was allowed.
Backed(r) ==
    member[r] # None => /\ verdict[member[r]] # None
                        /\ verdict[member[r]].effect \in AllowEffects

\* A request that the tunnel is not at: it is over, or was not read yet.
Past(t, r) ==
    /\ wire[r] # None => logged[r] # None /\ logged[r].status = wire[r]
    /\ logged[r] # None =>
          /\ logged[r].decision = dec[r]
          /\ status[r] \in {None, FinalStatus(logged[r].status)}
          /\ logged[r].status = "origin" => Backed(r)
    /\ ~Seen(t, r) => /\ wire[r] = None /\ logged[r] = None
                      /\ member[r] = None /\ status[r] = None

\* The request that the tunnel is at.
Present(t) ==
    LET r == cur[t]
    IN  /\ r \in Requests /\ Seen(t, r) /\ logged[r] = None
        /\ pc[t] # "audit" => wire[r] = None
        /\ pc[t] \in Settled => dec[r] # None
        /\ pc[t] \in {"sample", "row", "decide"} => member[r] = None
        /\ pc[t] \in {"unwatch", "interrupt", "joining", "resolved"}
              /\ dec[r].effect \in AllowEffects => Backed(r)
        /\ pc[t] \in {"dial", "send", "client lost"} => Backed(r)
        /\ pc[t] = "audit" => wire[r] # None /\ (wire[r] = "origin" => Backed(r))

Counts(t) ==
    /\ written[t] \in 0..Len(script[t])
    /\ fetched[t] \in 0..written[t]
    /\ used[t] \in 0..fetched[t]

\* Where the tunnel's goroutine is, and what is left of the request it is at.
Place(t) ==
    /\ Counts(t)
    /\ pc[t] \in {"connect", "handshake"} => used[t] = 0
    /\ pc[t] \in {"connect", "handshake", "read"} => cur[t] = None
    /\ pc[t] \in Busy => cur[t] # None
    /\ pc[t] \in {"row", "decide"} => (buffered[t] <=> BodyTaken(t))
    /\ pc[t] = "drain" => ~BodyTaken(t)
    /\ pc[t] \in HoldLabels /\ watch[t] # "none" => BodyTaken(t)

\* The tunnel's own row gives way to those of its requests.
OwnRow(t) ==
    /\ pc[t] = "connect" => ~rebound[t]
    /\ rebound[t] => status[ConnectRow(t)] = None
    /\ status[ConnectRow(t)] # None => \A r \in RequestsOf(t) : status[r] = None

\* A head was written only when what was sent before it had been answered.
Patient(t) ==
    /\ discarded[t] = {}
    /\ pc[t] \in Busy => used[t] > 0 /\ script[t][used[t]].req = cur[t]
    /\ \A m \in 1..written[t] :
          script[t][m].size = "head" =>
              \A n \in 1..(m - 1) : wire[script[t][n].req] # None

RequestInv(t) ==
    /\ \A r \in RequestsOf(t) \ {cur[t]} : Past(t, r)
    /\ cur[t] # None => Present(t)
    /\ Place(t)
    /\ OwnRow(t)
    /\ t \notin Pipelining => Patient(t)

RInv == Stores /\ \A t \in Tunnels : RequestInv(t)

-----------------------------------------------------------------------------
(***************************************************************************)
(* Scripts.                                                                *)
(***************************************************************************)
LEMMA PartsAreOfRequests ==
    ASSUME Stores, NEW t \in Tunnels
    PROVE  /\ Len(script[t]) \in Nat
           /\ \A n \in 1..Len(script[t]) : script[t][n].req \in Requests
           /\ RequestsOf(t) \subseteq Requests
<1>1. script[t] \in Seq([req : Requests, size : Sizes])
  BY ConstantsAssumption DEF Stores
<1>2. Len(script[t]) \in Nat
  BY <1>1
<1>3. \A n \in 1..Len(script[t]) : script[t][n] \in [req : Requests, size : Sizes]
  BY <1>1, ElementOfSeq
<1> QED
  BY <1>2, <1>3 DEF RequestsOf

LEMMA TunnelsShareNoRequest ==
    ASSUME Stores, NEW t \in Tunnels, NEW u \in Tunnels, t # u
    PROVE  RequestsOf(t) \cap RequestsOf(u) = {}
BY ScriptsAssumption DEF Stores, RequestsOf

LEMMA SeenIsOwn ==
    ASSUME Stores, NEW t \in Tunnels, Counts(t), NEW r, Seen(t, r)
    PROVE  r \in RequestsOf(t)
BY PartsAreOfRequests DEF Seen, Counts, RequestsOf

-----------------------------------------------------------------------------
(***************************************************************************)
(* A step of tunnel t changes what is known of the request it is at; a row *)
(* of another request or tunnel is only ever evicted.                      *)
(***************************************************************************)
SameRequest(r) ==
    /\ dec'[r] = dec[r] /\ wire'[r] = wire[r] /\ logged'[r] = logged[r]
    /\ member'[r] = member[r] /\ status'[r] \in {None, status[r]}

SameTunnel(s) ==
    /\ SameAt(s)
    /\ written'[s] = written[s] /\ fetched'[s] = fetched[s]
    /\ discarded'[s] = discarded[s] /\ rebound'[s] = rebound[s]
    /\ status'[ConnectRow(s)] \in {None, status[ConnectRow(s)]}

VerdictsStand == \A h \in Requests : verdict[h] # None => verdict'[h] = verdict[h]

Local(t) ==
    /\ Stores' /\ script' = script /\ VerdictsStand
    /\ \A s \in Tunnels \ {t} : SameTunnel(s)
    /\ \A r \in Requests \ {cur[t]} : SameRequest(r)

LEMMA BackedStays ==
    ASSUME Stores, VerdictsStand, NEW r \in Requests, member'[r] = member[r], Backed(r)
    PROVE  Backed(r)'
BY DEF Stores, VerdictsStand, Backed

LEMMA PastStays ==
    ASSUME Stores, NEW t \in Tunnels, NEW r \in Requests, Past(t, r), SameRequest(r),
           VerdictsStand, script' = script, used[t] \in Nat, used'[t] \in Nat,
           used[t] <= used'[t]
    PROVE  Past(t, r)'
<1>1. Seen(t, r) => Seen(t, r)'
  BY DEF Seen
<1>2. Backed(r) => Backed(r)'
  BY BackedStays DEF SameRequest
<1>3. /\ wire'[r] = wire[r] /\ logged'[r] = logged[r] /\ dec'[r] = dec[r]
      /\ member'[r] = member[r] /\ status'[r] \in {None, status[r]}
  BY DEF SameRequest
<1> QED
  BY <1>1, <1>2, <1>3 DEF Past

\* A tunnel that a step leaves alone keeps its invariant.
LEMMA TunnelStays ==
    ASSUME RInv, script' = script, VerdictsStand, NEW s \in Tunnels, SameTunnel(s),
           \A r \in RequestsOf(s) : SameRequest(r)
    PROVE  RequestInv(s)'
<1>1. Stores /\ RequestInv(s) /\ Counts(s)
  BY DEF RInv, RequestInv, Place
<1>3. \A r \in RequestsOf(s) : SameRequest(r) /\ r \in Requests
  BY <1>1, PartsAreOfRequests
<1>4. RequestsOf(s)' = RequestsOf(s)
  BY DEF RequestsOf
<1>5. /\ used'[s] = used[s] /\ fetched'[s] = fetched[s] /\ written'[s] = written[s]
      /\ pc'[s] = pc[s] /\ cur'[s] = cur[s] /\ watch'[s] = watch[s]
      /\ buffered'[s] = buffered[s] /\ rebound'[s] = rebound[s]
      /\ discarded'[s] = discarded[s]
  BY DEF SameTunnel, SameAt
<1>6. \A r \in RequestsOf(s) \ {cur[s]} : Past(s, r)'
  BY <1>1, <1>3, <1>5, PastStays DEF RequestInv, Counts
<1>7. cur[s] # None => Present(s)'
  <2> HAVE cur[s] # None
  <2>1. Present(s)
    BY <1>1 DEF RequestInv
  <2>2. cur[s] \in Requests /\ Seen(s, cur[s])
    BY <2>1 DEF Present
  <2>3. SameRequest(cur[s])
    BY <2>2, <1>1, <1>3, SeenIsOwn
  <2>4. Backed(cur[s]) => Backed(cur[s])'
    BY <2>2, <2>3, <1>1, BackedStays, <1>5 DEF SameRequest, Backed
  <2>5. Seen(s, cur[s])'
    BY <2>2, <1>5 DEF Seen
  <2> QED
    BY <2>1, <2>2, <2>3, <2>4, <2>5, <1>5 DEF Present, SameRequest
<1>8. Place(s)'
  BY <1>1, <1>5 DEF RequestInv, Place, Counts, BodyTaken, BodyGoesOn
<1>9. OwnRow(s)'
  BY <1>1, <1>3, <1>4, <1>5 DEF RequestInv, OwnRow, SameTunnel, SameRequest
<1>10. s \notin Pipelining => Patient(s)'
  <2> HAVE s \notin Pipelining
  <2>1. Patient(s)
    BY <1>1 DEF RequestInv
  <2>2. \A n \in 1..written[s] : wire'[script[s][n].req] = wire[script[s][n].req]
    BY <1>1, <1>3, PartsAreOfRequests DEF RequestsOf, SameRequest, Counts
  <2> QED
    BY <2>1, <2>2, <1>1, <1>5 DEF Patient, Counts
<1> QED
  BY <1>4, <1>5, <1>6, <1>7, <1>8, <1>9, <1>10 DEF RequestInv

\* So do the other tunnels.
LEMMA OthersStay ==
    ASSUME RInv, NEW t \in Tunnels, Local(t), NEW s \in Tunnels, s # t
    PROVE  RequestInv(s)'
<1>1. Stores /\ RequestInv(t) /\ Counts(t)
  BY DEF RInv, RequestInv, Place
<1>2. /\ script' = script /\ VerdictsStand /\ SameTunnel(s)
      /\ \A r \in Requests \ {cur[t]} : SameRequest(r)
  BY DEF Local
<1>3. cur[t] \notin RequestsOf(s)
  <2>1. CASE cur[t] = None
    BY <2>1, <1>1, PartsAreOfRequests, ConstantsAssumption
  <2>2. CASE cur[t] # None
    <3>1. Seen(t, cur[t])
      BY <2>2, <1>1 DEF RequestInv, Present
    <3> QED
      BY <3>1, <1>1, SeenIsOwn, TunnelsShareNoRequest
  <2> QED
    BY <2>1, <2>2
<1>4. \A r \in RequestsOf(s) : SameRequest(r)
  BY <1>1, <1>2, <1>3, PartsAreOfRequests
<1> QED
  BY <1>2, <1>4, TunnelStays

LEMMA RKeptAt ==
    ASSUME RInv, NEW t \in Tunnels, Local(t), RequestInv(t)'
    PROVE  RInv'
BY OthersStay DEF RInv, Local

\* What t is not at stays as it is, whatever else it reads.
LEMMA PastStaysAt ==
    ASSUME RInv, NEW t \in Tunnels, Local(t), used'[t] \in Nat, used[t] <= used'[t],
           cur'[t] = cur[t] \/ cur[t] = None
    PROVE  \A r \in RequestsOf(t)' \ {cur'[t]} : Past(t, r)'
<1>1. Stores /\ RequestInv(t) /\ Counts(t)
  BY DEF RInv, RequestInv, Place
<1>2. /\ script' = script /\ VerdictsStand
      /\ \A r \in Requests \ {cur[t]} : SameRequest(r)
  BY DEF Local
<1>3. RequestsOf(t)' = RequestsOf(t) /\ RequestsOf(t) \subseteq Requests
  BY <1>1, <1>2, PartsAreOfRequests DEF RequestsOf
<1>4. None \notin Requests
  BY ConstantsAssumption
<1>5. SUFFICES ASSUME NEW r \in RequestsOf(t), r # cur[t] PROVE Past(t, r)'
  BY <1>3, <1>4
<1>6. Past(t, r) /\ SameRequest(r) /\ r \in Requests
  BY <1>5, <1>1, <1>2, <1>3 DEF RequestInv
<1>7. used[t] \in Nat
  BY <1>1 DEF Counts
<1> QED
  BY <1>1, <1>2, <1>6, <1>7, PastStays

-----------------------------------------------------------------------------
(***************************************************************************)
(* Steps that only move the goroutine or the reader: the request is told,  *)
(* decided and recorded as before, and no stage is skipped.                *)
(***************************************************************************)
Stages == {{"sample", "row", "decide"}, {"unwatch", "interrupt", "joining", "resolved"},
           {"dial", "send", "client lost"}, {"audit"}, {"connect"}, Settled}

Calm(t) ==
    /\ Local(t)
    /\ UNCHANGED <<verdict, member, dec, wire, logged, status>>
    /\ cur'[t] = cur[t] /\ rebound'[t] = rebound[t]
    /\ \A S \in Stages : pc'[t] \in S => pc[t] \in S
    /\ pc[t] = "audit" => pc'[t] = "audit"

LEMMA CalmStep ==
    ASSUME RInv, NEW t \in Tunnels, Calm(t), used'[t] \in Nat, used[t] <= used'[t],
           Place(t)', t \notin Pipelining => Patient(t)'
    PROVE  RInv'
<1>1. /\ Stores /\ Local(t) /\ script' = script /\ cur'[t] = cur[t]
      /\ RequestInv(t) /\ used[t] \in Nat
  BY DEF RInv, Calm, Local, RequestInv, Place, Counts
<1>2. \A r \in RequestsOf(t)' \ {cur'[t]} : Past(t, r)'
  BY <1>1, PastStaysAt
<1>3. cur'[t] # None => Present(t)'
  <2> HAVE cur'[t] # None
  <2>1. Present(t)
    BY <1>1 DEF RequestInv
  <2>2. Seen(t, cur[t])'
    <3>1. PICK n \in 1..used[t] : script[t][n].req = cur[t]
      BY <2>1 DEF Present, Seen
    <3>2. n \in 1..used'[t]
      BY <1>1
    <3> QED
      BY <3>1, <3>2, <1>1 DEF Seen
  <2>3. Backed(cur[t]) => Backed(cur[t])'
    BY <1>1 DEF Backed, Calm
  <2>4. /\ pc'[t] \in {"sample", "row", "decide"} => pc[t] \in {"sample", "row", "decide"}
        /\ pc'[t] \in {"unwatch", "interrupt", "joining", "resolved"}
              => pc[t] \in {"unwatch", "interrupt", "joining", "resolved"}
        /\ pc'[t] \in {"dial", "send", "client lost"} => pc[t] \in {"dial", "send", "client lost"}
        /\ pc'[t] = "audit" <=> pc[t] = "audit"
        /\ pc'[t] \in Settled => pc[t] \in Settled
    BY DEF Calm, Stages
  <2> QED
    BY <2>1, <2>2, <2>3, <2>4, <1>1 DEF Present, Calm
<1>4. OwnRow(t)'
  BY <1>1 DEF RequestInv, OwnRow, Calm, Stages, RequestsOf
<1>5. RequestInv(t)'
  BY <1>2, <1>3, <1>4 DEF RequestInv
<1> QED
  BY <1>1, <1>5, RKeptAt

\* What a read takes.
LEMMA TakeCounts ==
    ASSUME Stores, DOMAIN used = Tunnels, NEW t \in Tunnels, Counts(t), Take(t),
           UNCHANGED <<script, written>>
    PROVE  /\ Counts(t)' /\ used'[t] = used[t] + 1 /\ used[t] \in Nat
           /\ used[t] + 1 \in 1..Len(script[t])
           /\ DOMAIN used' = Tunnels /\ DOMAIN fetched' = Tunnels
           /\ \A s \in Tunnels \ {t} : used'[s] = used[s] /\ fetched'[s] = fetched[s]
<1>1. Len(script[t]) \in Nat
  BY PartsAreOfRequests
<1>2. used'[t] = used[t] + 1 /\ \A s \in Tunnels \ {t} : used'[s] = used[s]
  BY DEF Take, Set
<1>3. /\ fetched'[t] \in 0..written[t] /\ used[t] + 1 <= fetched'[t]
      /\ \A s \in Tunnels \ {t} : fetched'[s] = fetched[s]
      /\ DOMAIN fetched' = Tunnels
  <2>1. CASE Fill(t)
    <3>1. PICK n \in (fetched[t] + 1)..written[t] : fetched' = Set(fetched, t, n)
      BY <2>1 DEF Fill
    <3>2. /\ fetched'[t] = n /\ \A s \in Tunnels \ {t} : fetched'[s] = fetched[s]
          /\ DOMAIN fetched' = Tunnels
      BY <3>1 DEF Set, Stores
    <3> QED
      BY <3>1, <3>2, <2>1, <1>1 DEF Fill, Empty, Counts
  <2>2. CASE ~Empty(t) /\ UNCHANGED fetched
    BY <2>2, <1>1 DEF Empty, Counts, Stores
  <2> QED
    BY <2>1, <2>2 DEF Take
<1> QED
  BY <1>1, <1>2, <1>3 DEF Counts, Take, Set

\* A step that writes nothing down about a request.
LEMMA IsLocal ==
    ASSUME Stores, NEW t \in Tunnels,
           UNCHANGED <<script, verdict, member, dec, wire, logged, status>>,
           DOMAIN written' = Tunnels, DOMAIN fetched' = Tunnels,
           DOMAIN discarded' = Tunnels, DOMAIN rebound' = Tunnels,
           \A s \in Tunnels \ {t} :
              /\ SameAt(s)
              /\ written'[s] = written[s] /\ fetched'[s] = fetched[s]
              /\ discarded'[s] = discarded[s] /\ rebound'[s] = rebound[s]
    PROVE  Local(t)
BY DEF Local, Stores, VerdictsStand, SameTunnel, SameRequest

\* The goroutine moves on; nothing is read.
LEMMA MovingSteps ==
    ASSUME IInv, RInv, NEW t \in Tunnels,
           \/ HandshakeSucceeds(t) \/ ReadFails(t) \/ BodyFails(t) \/ StartWatch(t)
           \/ CheckWatcher(t) \/ SetReadDeadline(t) \/ ExchangeFails(t) \/ PeekFails(t)
    PROVE  RInv'
<1>a. Shapes /\ Stores /\ RequestInv(t) /\ TunnelInv(t) /\ Place(t) /\ Counts(t)
  BY DEF IInv, RInv, RequestInv, Place
<1>1. /\ UNCHANGED <<script, verdict, member, dec, wire, logged, status>>
      /\ UNCHANGED <<written, fetched, used, discarded, cur, rebound, buffered>>
  BY DEF HandshakeSucceeds, ReadFails, BodyFails, StartWatch, CheckWatcher, SetReadDeadline,
         ExchangeFails, PeekFails, env, queue, client, reader, outcome, ring, tunnel
<1>2. \A s \in Tunnels \ {t} : pc'[s] = pc[s] /\ watch'[s] = watch[s]
  BY <1>a DEF HandshakeSucceeds, ReadFails, BodyFails, StartWatch, CheckWatcher, SetReadDeadline,
         ExchangeFails, PeekFails, watcher, tunnel, Goto, Set, Shapes
<1>3. Local(t)
  BY <1>1, <1>2, <1>a, IsLocal DEF SameAt, Stores
<1>m. \/ pc[t] = "handshake" /\ pc'[t] = "read"
      \/ pc[t] \in {"read", "sample", "drain"} /\ pc'[t] = "closed"
      \/ pc[t] = "watch" /\ pc'[t] = "enqueue" /\ StartWatch(t)
      \/ pc[t] = "unwatch" /\ pc'[t] \in {"interrupt", "resolved"}
      \/ pc[t] = "interrupt" /\ pc'[t] = "joining"
      \/ pc[t] = "send" /\ pc'[t] \in {"exchange failed", "client lost"}
      \/ pc[t] \in HoldLabels /\ pc'[t] = pc[t]
  <2>1. CASE HandshakeSucceeds(t) \/ ReadFails(t) \/ BodyFails(t)
    BY <2>1, <1>a DEF HandshakeSucceeds, ReadFails, BodyFails, Goto, Set, Shapes
  <2>2. CASE StartWatch(t) \/ CheckWatcher(t) \/ SetReadDeadline(t)
    BY <2>2, <1>a DEF StartWatch, CheckWatcher, SetReadDeadline, Goto, Set, Shapes
  <2>3. CASE ExchangeFails(t)
    BY <2>3, <1>a DEF ExchangeFails, Goto, Set, Shapes
  <2>4. CASE PeekFails(t)
    BY <2>4, <1>a DEF PeekFails, TunnelInv, tunnel
  <2> QED
    BY <2>1, <2>2, <2>3, <2>4
<1>4. /\ \A S \in Stages : pc'[t] \in S => pc[t] \in S
      /\ pc[t] = "audit" => pc'[t] = "audit"
      /\ pc'[t] \in Busy => pc[t] \in Busy
      /\ pc'[t] \notin {"connect", "handshake", "row", "decide", "drain"}
      /\ pc'[t] = "read" => pc[t] = "handshake"
      /\ pc'[t] \in HoldLabels => pc[t] \in HoldLabels \/ StartWatch(t)
  BY <1>m DEF Stages, Busy, Settled, HoldLabels
<1>5. Calm(t)
  BY <1>1, <1>3, <1>4 DEF Calm
<1>6. /\ Counts(t)' /\ (BodyTaken(t)' <=> BodyTaken(t))
      /\ used'[t] \in Nat /\ used[t] <= used'[t]
  BY <1>1, <1>a DEF Counts, BodyTaken, BodyGoesOn
<1>7. pc'[t] \in HoldLabels /\ watch'[t] # "none" => BodyTaken(t)
  <2>1. CASE StartWatch(t)
    BY <2>1, <1>a DEF StartWatch, Set, TunnelInv, Decided, Shapes
  <2>2. CASE PeekFails(t)
    BY <2>2, <1>a DEF PeekFails, TunnelInv
  <2>3. CASE ~StartWatch(t) /\ ~PeekFails(t)
    <3>1. watch' = watch
      BY <2>3 DEF HandshakeSucceeds, ReadFails, BodyFails, CheckWatcher, SetReadDeadline,
                  ExchangeFails, watcher
    <3> QED
      BY <3>1, <2>3, <1>4, <1>a DEF Place
  <2> QED
    BY <2>1, <2>2, <2>3
<1>8. Place(t)'
  BY <1>1, <1>4, <1>6, <1>7, <1>a DEF Place
<1>9. t \notin Pipelining => Patient(t)'
  BY <1>1, <1>4, <1>a DEF RequestInv, Patient
<1> QED
  BY <1>5, <1>6, <1>8, <1>9, CalmStep

\* The reader takes the next part of the request's body.
LEMMA BodyIsTaken ==
    ASSUME IInv, RInv, NEW t \in Tunnels, pc[t] \in Busy, Take(t), ~BodyTaken(t), Calm(t),
           UNCHANGED <<cur, written>>, pc'[t] \in Busy
    PROVE  /\ Counts(t)' /\ used'[t] \in Nat /\ used[t] <= used'[t]
           /\ t \notin Pipelining => Patient(t)'
<1>a. Shapes /\ Stores /\ RequestInv(t) /\ Counts(t) /\ script' = script
  BY DEF IInv, RInv, RequestInv, Place, Calm, Local
<1>1. /\ Counts(t)' /\ used'[t] = used[t] + 1 /\ used[t] \in Nat
  BY <1>a, TakeCounts DEF Shapes
<1>2. script[t][used[t] + 1].req = cur[t]
  BY DEF BodyTaken, BodyGoesOn
<1>3. t \notin Pipelining => Patient(t)'
  <2> HAVE t \notin Pipelining
  <2>1. Patient(t)
    BY <1>a DEF RequestInv
  <2>2. discarded' = discarded /\ wire' = wire
    BY DEF Take, Calm
  <2> QED
    BY <2>1, <2>2, <1>1, <1>2, <1>a DEF Patient
<1> QED
  BY <1>1, <1>3

LEMMA ReadingSteps ==
    ASSUME IInv, RInv, NEW t \in Tunnels, SampleBody(t) \/ DrainBody(t) \/ SendBody(t)
    PROVE  RInv'
<1>a. Shapes /\ Stores /\ RequestInv(t) /\ Place(t) /\ Counts(t)
  BY DEF IInv, RInv, RequestInv, Place
<1>1. /\ UNCHANGED <<script, verdict, member, dec, wire, logged, status>>
      /\ UNCHANGED <<written, discarded, cur, rebound, watch>>
  BY DEF SampleBody, DrainBody, SendBody, Take, env, queue, client, reader, outcome, ring,
         tunnel, watcher
<1>2. \A s \in Tunnels \ {t} : pc'[s] = pc[s] /\ buffered'[s] = buffered[s]
  BY <1>a DEF SampleBody, DrainBody, SendBody, tunnel, Goto, Set, Shapes
<1>3. /\ DOMAIN fetched' = Tunnels
      /\ \A s \in Tunnels \ {t} : used'[s] = used[s] /\ fetched'[s] = fetched[s]
  BY <1>1, <1>a, TakeCounts DEF SampleBody, DrainBody, SendBody, Shapes, Stores, reader
<1>4. Local(t)
  BY <1>1, <1>2, <1>3, <1>a, IsLocal DEF SameAt, Stores
<1>5. /\ pc[t] \in {"sample", "drain", "send"}
      /\ pc'[t] = CASE pc[t] = "sample" -> "row"
                    [] pc[t] = "drain" -> "watch"
                    [] pc[t] = "send" -> "send"
  BY <1>a DEF SampleBody, DrainBody, SendBody, tunnel, Goto, Set, Shapes
<1>6. Calm(t)
  BY <1>1, <1>4, <1>5 DEF Calm, Stages, Settled, HoldLabels
<1>7. pc'[t] = "row" => (buffered'[t] <=> BodyTaken(t)')
  <2>1. CASE SampleBody(t)
    BY <2>1, <1>a, <1>1 DEF SampleBody, BodyTaken, BodyGoesOn, Set, Shapes
  <2>2. CASE DrainBody(t) \/ SendBody(t)
    BY <2>2, <1>5 DEF DrainBody, SendBody
  <2> QED
    BY <2>1, <2>2
<1>8. /\ Counts(t)' /\ used'[t] \in Nat /\ used[t] <= used'[t]
      /\ t \notin Pipelining => Patient(t)'
  <2>0. pc[t] \in Busy /\ pc'[t] \in Busy
    BY <1>5 DEF Busy
  <2>1. CASE SampleBody(t) /\ BodyTaken(t)
    <3>1. UNCHANGED reader
      BY <2>1 DEF SampleBody, BodyTaken
    <3>2. fetched' = fetched /\ used' = used /\ discarded' = discarded
      BY <3>1 DEF reader
    <3>3. Counts(t)'
      BY <3>2, <1>1, <1>a DEF Counts
    <3>4. t \notin Pipelining => Patient(t)'
      BY <3>2, <1>1, <1>a, <2>0 DEF RequestInv, Patient
    <3> QED
      BY <3>2, <3>3, <3>4, <1>a DEF Counts
  <2>2. CASE ~(SampleBody(t) /\ BodyTaken(t))
    <3>1. Take(t) /\ ~BodyTaken(t)
      BY <2>2, <1>a DEF SampleBody, DrainBody, SendBody, BodyTaken, Place
    <3> QED
      BY <3>1, <2>0, <1>1, <1>6, BodyIsTaken
  <2> QED
    BY <2>1, <2>2
<1>9. Place(t)'
  BY <1>1, <1>5, <1>7, <1>8, <1>a DEF Place, Busy, HoldLabels
<1> QED
  BY <1>6, <1>8, <1>9, CalmStep

(***************************************************************************)
(* The argument about patient clients: while the client's request waits,   *)
(* its body is off the tunnel and it has no answer, so the client has not  *)
(* written what follows and the buffer that Reset throws away is empty.    *)
(***************************************************************************)
LEMMA NothingToDiscard ==
    ASSUME RInv, NEW t \in Tunnels, t \notin Pipelining,
           pc[t] \in HoldLabels, watch[t] # "none"
    PROVE  fetched[t] = used[t]
<1>1. Stores /\ Counts(t) /\ BodyTaken(t) /\ Patient(t) /\ Present(t) /\ pc[t] \in Busy
  BY DEF RInv, RequestInv, Place, Busy
<1>2. SUFFICES ASSUME used[t] < written[t] PROVE FALSE
  BY <1>1 DEF Counts
<1>3. /\ Len(script[t]) \in Nat /\ used[t] \in Nat /\ written[t] \in Nat
      /\ used[t] + 1 \in 1..written[t] /\ used[t] + 1 \in 1..Len(script[t])
      /\ used[t] > 0 /\ script[t][used[t]].req = cur[t]
  BY <1>1, <1>2, PartsAreOfRequests DEF Counts, Patient
<1>4. script[t][used[t] + 1].req # cur[t]
  BY <1>1, <1>3 DEF BodyTaken, BodyGoesOn
<1>5. script[t][used[t] + 1].size = "head"
  <2>1. /\ script \in Scripts
        /\ (used[t] + 1) - 1 = used[t]
    BY <1>1, <1>3 DEF Stores
  <2> QED
    BY <2>1, <1>3, <1>4, ScriptsAssumption
<1>6. wire[script[t][used[t]].req] # None
  <2>1. used[t] \in 1..((used[t] + 1) - 1)
    BY <1>3
  <2> QED
    BY <2>1, <1>1, <1>3, <1>5 DEF Patient
<1>7. wire[cur[t]] = None
  BY <1>1 DEF Present, HoldLabels
<1> QED
  BY <1>3, <1>6, <1>7

LEMMA WatcherSteps ==
    ASSUME IInv, RInv, NEW t \in Tunnels, JoinWatcher(t) \/ PeekSucceeds(t)
    PROVE  RInv'
<1>a. Shapes /\ Stores /\ RequestInv(t) /\ TunnelInv(t) /\ Place(t) /\ Counts(t)
  BY DEF IInv, RInv, RequestInv, Place
<1>1. /\ UNCHANGED <<script, verdict, member, dec, wire, logged, status>>
      /\ UNCHANGED <<written, cur, rebound, buffered>>
  BY DEF JoinWatcher, PeekSucceeds, env, queue, client, outcome, ring, tunnel
<1>2. pc[t] \in HoldLabels /\ watch[t] # "none" /\ BodyTaken(t)
  BY <1>a DEF JoinWatcher, PeekSucceeds, TunnelInv, Place, HoldLabels
<1>3. Len(script[t]) \in Nat
  BY <1>a, PartsAreOfRequests
<1>4. CASE JoinWatcher(t)
  <2>1. /\ fetched' = fetched /\ watch' = watch
        /\ used'[t] = fetched[t] /\ pc'[t] = "resolved" /\ pc[t] = "joining"
        /\ discarded'[t] = discarded[t] \cup {script[t][n] : n \in (used[t] + 1)..fetched[t]}
    BY <1>4, <1>a DEF JoinWatcher, Goto, Set, Shapes, Stores, watcher
  <2>2. /\ DOMAIN discarded' = Tunnels
        /\ \A s \in Tunnels \ {t} :
              pc'[s] = pc[s] /\ used'[s] = used[s] /\ discarded'[s] = discarded[s]
    BY <1>4, <1>a DEF JoinWatcher, Goto, Set, Shapes, Stores
  <2>3. Local(t)
    BY <1>1, <2>1, <2>2, <1>a, IsLocal DEF SameAt, Stores
  <2>4. Calm(t)
    BY <1>1, <2>1, <2>3 DEF Calm, Stages, Settled, HoldLabels
  <2>5. Place(t)' /\ used'[t] \in Nat /\ used[t] <= used'[t]
    BY <1>1, <2>1, <1>3, <1>a DEF Place, Counts, Busy, HoldLabels
  <2>6. t \notin Pipelining => Patient(t)'
    <3> HAVE t \notin Pipelining
    <3>1. fetched[t] = used[t]
      BY <1>2, NothingToDiscard
    <3>2. (used[t] + 1)..fetched[t] = {}
      BY <3>1, <1>a DEF Counts
    <3>3. discarded'[t] = discarded[t] /\ used'[t] = used[t]
      BY <2>1, <3>1, <3>2
    <3>4. Patient(t) /\ pc[t] \in Busy
      BY <1>a, <1>2 DEF RequestInv, Busy
    <3> QED
      BY <3>3, <3>4, <1>1 DEF Patient
  <2> QED
    BY <2>4, <2>5, <2>6, CalmStep
<1>5. CASE PeekSucceeds(t)
  <2>1. /\ UNCHANGED <<used, discarded, pc>>
        /\ \A s \in Tunnels \ {t} : watch'[s] = watch[s]
    BY <1>5, <1>a DEF PeekSucceeds, reader, tunnel, Set, Shapes
  <2>2. /\ fetched'[t] \in 0..written[t] /\ used[t] <= fetched'[t]
        /\ DOMAIN fetched' = Tunnels
        /\ \A s \in Tunnels \ {t} : fetched'[s] = fetched[s]
    <3>1. CASE Fill(t)
      <4>1. PICK n \in (fetched[t] + 1)..written[t] : fetched' = Set(fetched, t, n)
        BY <3>1 DEF Fill
      <4>2. /\ fetched'[t] = n /\ \A s \in Tunnels \ {t} : fetched'[s] = fetched[s]
            /\ DOMAIN fetched' = Tunnels
        BY <4>1, <1>a DEF Set, Stores
      <4> QED
        BY <4>1, <4>2, <1>3, <1>a DEF Counts
    <3>2. CASE UNCHANGED reader
      BY <3>2, <1>a, <1>3 DEF reader, Counts, Stores
    <3> QED
      BY <3>1, <3>2, <1>5 DEF PeekSucceeds
  <2>3. Local(t)
    BY <1>1, <2>1, <2>2, <1>a, IsLocal DEF SameAt, Stores
  <2>4. Calm(t)
    BY <1>1, <2>1, <2>3 DEF Calm
  <2>5. BodyTaken(t)'
    BY <1>1, <1>2, <2>1 DEF BodyTaken, BodyGoesOn
  <2>6. Place(t)' /\ used'[t] \in Nat /\ used[t] <= used'[t]
    <3>1. Counts(t)' /\ used'[t] \in Nat /\ used[t] <= used'[t]
      BY <1>1, <2>1, <2>2, <1>3, <1>a DEF Counts
    <3>2. pc'[t] \in HoldLabels /\ cur'[t] = cur[t] /\ cur[t] # None
      BY <1>1, <1>2, <2>1, <1>a DEF Place, Busy
    <3> QED
      BY <3>1, <3>2, <2>5 DEF Place, HoldLabels
  <2>7. t \notin Pipelining => Patient(t)'
    BY <1>1, <2>1, <1>a DEF RequestInv, Patient
  <2> QED
    BY <2>4, <2>6, <2>7, CalmStep
<1> QED
  BY <1>4, <1>5

\* The client goes on.
LEMMA WritingSteps ==
    ASSUME IInv, RInv, NEW t \in Tunnels, ClientWrites(t)
    PROVE  RInv'
<1>a. Shapes /\ Stores /\ RequestInv(t) /\ Place(t) /\ Counts(t)
  BY DEF IInv, RInv, RequestInv, Place
<1>1. /\ UNCHANGED <<script, verdict, member, dec, wire, logged, status>>
      /\ UNCHANGED <<pc, watch, cur, rebound, buffered, fetched, used, discarded>>
  BY DEF ClientWrites, env, queue, reader, outcome, ring, tunnel, watcher
<1>2. /\ written'[t] = written[t] + 1 /\ written[t] < Len(script[t])
      /\ DOMAIN written' = Tunnels
      /\ \A s \in Tunnels \ {t} : written'[s] = written[s]
  BY <1>a DEF ClientWrites, Set, Stores
<1>3. Len(script[t]) \in Nat
  BY <1>a, PartsAreOfRequests
<1>4. Local(t)
  BY <1>1, <1>2, <1>a, IsLocal DEF SameAt, Stores
<1>5. Calm(t)
  BY <1>1, <1>4 DEF Calm
<1>6. Counts(t)' /\ used'[t] \in Nat /\ used[t] <= used'[t]
  BY <1>1, <1>2, <1>3, <1>a DEF Counts
<1>7. BodyTaken(t)' <=> BodyTaken(t)
  BY <1>1 DEF BodyTaken, BodyGoesOn
<1>8. Place(t)'
  BY <1>1, <1>6, <1>7, <1>a DEF Place
<1>9. t \notin Pipelining => Patient(t)'
  <2> HAVE t \notin Pipelining
  <2>1. Patient(t) /\ written[t] \in Nat
    BY <1>a, <1>3 DEF RequestInv, Counts
  <2>2. script[t][written[t] + 1].size = "head" =>
           \A n \in 1..written[t] : wire[script[t][n].req] # None
    BY DEF ClientWrites
  <2>3. ASSUME NEW m \in 1..(written[t] + 1), script[t][m].size = "head",
               NEW n \in 1..(m - 1)
        PROVE  wire[script[t][n].req] # None
    <3>1. CASE m = written[t] + 1
      BY <3>1, <2>1, <2>2, <2>3
    <3>2. CASE m \in 1..written[t]
      BY <3>2, <2>1, <2>3 DEF Patient
    <3> QED
      BY <3>1, <3>2, <2>1
  <2> QED
    BY <2>1, <2>3, <1>1, <1>2 DEF Patient
<1> QED
  BY <1>5, <1>6, <1>8, <1>9, CalmStep

\* Steps of the queue and of the clients that no tunnel notices yet.
LEMMA Unnoticed ==
    ASSUME RInv, VerdictsStand, DOMAIN verdict' = Requests,
           UNCHANGED <<script, member, dec, wire, logged, status>>,
           UNCHANGED <<pc, watch, cur, rebound, buffered, written, fetched, used, discarded>>
    PROVE  RInv'
<1>1. \A s \in Tunnels : SameTunnel(s) /\ \A r \in Requests : SameRequest(r)
  BY DEF SameTunnel, SameAt, SameRequest
<1>2. Stores /\ Stores'
  BY DEF RInv, Stores
<1>3. \A s \in Tunnels : RequestInv(s)'
  BY <1>1, <1>2, PartsAreOfRequests, TunnelStays
<1> QED
  BY <1>2, <1>3 DEF RInv

-----------------------------------------------------------------------------
(***************************************************************************)
(* Rows.                                                                   *)
(***************************************************************************)
LEMMA RowsDiffer ==
    ASSUME NEW t \in Tunnels
    PROVE  /\ ConnectRow(t) \in Rows /\ TlsRow(t) \in Rows /\ Requests \subseteq Rows
           /\ ConnectRow(t) \notin Requests /\ TlsRow(t) \notin Requests
           /\ \A s \in Tunnels : ConnectRow(s) # TlsRow(t) /\ (s # t => ConnectRow(s) # ConnectRow(t))
<1>1. ConnectRow(t) \notin Requests /\ TlsRow(t) \notin Requests
  BY RowsAssumption
<1>2. ConnectRow(t) \in Rows /\ TlsRow(t) \in Rows /\ Requests \subseteq Rows
  BY DEF Rows
<1>3. \A s \in Tunnels : ConnectRow(s) # TlsRow(t) /\ (s # t => ConnectRow(s) # ConnectRow(t))
  BY DEF ConnectRow, TlsRow
<1> QED
  BY <1>1, <1>2, <1>3

LEMMA BeginRows ==
    ASSUME NEW i \in Rows, NEW x, BeginRow(i, x)
    PROVE  /\ DOMAIN status' = Rows /\ status'[i] = x
           /\ \A j \in Rows \ {i} : status'[j] \in {None, status[j]}
BY DEF BeginRow

LEMMA SetRows ==
    ASSUME Stores, NEW i \in Rows, NEW x, SetRow(i, x)
    PROVE  /\ DOMAIN status' = Rows
           /\ status'[i] = IF status[i] = None THEN None ELSE x
           /\ \A j \in Rows \ {i} : status'[j] = status[j]
BY DEF SetRow, Stores

LEMMA RebindRows ==
    ASSUME Stores, NEW i \in Rows, NEW j \in Rows, i # j, RebindRow(i, j)
    PROVE  /\ DOMAIN status' = Rows
           /\ status'[i] = None /\ status'[j] = "checking"
           /\ \A k \in Rows \ {i, j} : status'[k] = status[k]
BY DEF RebindRow, Stores

-----------------------------------------------------------------------------
(***************************************************************************)
(* Before a request is read.                                               *)
(***************************************************************************)
LEMMA OpeningSteps ==
    ASSUME IInv, RInv, NEW t \in Tunnels, Connect(t) \/ HandshakeFails(t)
    PROVE  RInv'
<1>a. /\ Shapes /\ Stores /\ RequestInv(t) /\ Place(t) /\ Counts(t) /\ OwnRow(t)
      /\ RequestsOf(t) \subseteq Requests /\ None \notin Requests
  BY PartsAreOfRequests, ConstantsAssumption DEF IInv, RInv, RequestInv, Place
<1>1. /\ UNCHANGED <<script, verdict, member, dec, wire, logged>>
      /\ UNCHANGED <<watch, cur, rebound, buffered, written, fetched, used, discarded>>
  BY DEF Connect, HandshakeFails, env, queue, client, reader, outcome, watcher
<1>2. /\ pc[t] \in {"connect", "handshake"} /\ cur[t] = None /\ used[t] = 0
      /\ pc'[t] \in {"handshake", "closed"}
      /\ \A s \in Tunnels \ {t} : pc'[s] = pc[s]
  BY <1>a DEF Connect, HandshakeFails, Goto, Set, Shapes, Place
<1>3. /\ DOMAIN status' = Rows
      /\ \A r \in Requests : status'[r] \in {None, status[r]}
      /\ \A s \in Tunnels \ {t} : status'[ConnectRow(s)] \in {None, status[ConnectRow(s)]}
  <2>1. PICK i \in {ConnectRow(t), TlsRow(t)} : \E x : BeginRow(i, x)
    BY DEF Connect, HandshakeFails
  <2>2. i \in Rows /\ i \notin Requests /\ \A s \in Tunnels \ {t} : i # ConnectRow(s)
    BY <2>1, RowsDiffer
  <2>3. DOMAIN status' = Rows /\ \A j \in Rows \ {i} : status'[j] \in {None, status[j]}
    BY <2>1, <2>2, BeginRows
  <2> QED
    BY <2>2, <2>3, RowsDiffer
<1>4. Local(t)
  BY <1>1, <1>2, <1>3, <1>a DEF Local, Stores, VerdictsStand, SameTunnel, SameAt, SameRequest
<1>5. \A r \in RequestsOf(t)' \ {cur'[t]} : Past(t, r)'
  BY <1>1, <1>2, <1>4, PastStaysAt
<1>6. \A r \in RequestsOf(t)' : status'[r] = None
  <2>1. RequestsOf(t)' = RequestsOf(t)
    BY <1>1 DEF RequestsOf
  <2>2. \A r \in RequestsOf(t) : ~Seen(t, r) /\ Past(t, r) /\ r \in Requests
    BY <1>2, <1>a DEF Seen, RequestInv
  <2> QED
    BY <2>1, <2>2, <1>3 DEF Past
<1>7. OwnRow(t)'
  <2>1. rebound'[t] => status'[ConnectRow(t)] = None
    <3>1. CASE Connect(t)
      BY <3>1, <1>1, <1>a DEF Connect, OwnRow
    <3>2. CASE HandshakeFails(t)
      <4>1. BeginRow(TlsRow(t), "tls_failed")
        BY <3>2 DEF HandshakeFails
      <4>2. status'[ConnectRow(t)] \in {None, status[ConnectRow(t)]}
        BY <4>1, BeginRows, RowsDiffer
      <4> QED
        BY <4>2, <1>1, <1>a DEF OwnRow
    <3> QED
      BY <3>1, <3>2
  <2> QED
    BY <2>1, <1>2, <1>6 DEF OwnRow
<1>8. Place(t)'
  BY <1>1, <1>2, <1>a DEF Place, Counts, Busy, HoldLabels
<1>9. t \notin Pipelining => Patient(t)'
  BY <1>1, <1>2, <1>a DEF RequestInv, Patient, Busy, HoldLabels
<1>10. RequestInv(t)'
  BY <1>1, <1>2, <1>5, <1>7, <1>8, <1>9 DEF RequestInv
<1> QED
  BY <1>4, <1>10, RKeptAt

\* The head of a request that was not seen before, or a body that is no request.
LEMMA ReadRequestStep ==
    ASSUME IInv, RInv, NEW t \in Tunnels, ReadRequest(t)
    PROVE  RInv'
<1>a. /\ Shapes /\ Stores /\ RequestInv(t) /\ Place(t) /\ Counts(t) /\ OwnRow(t)
      /\ RequestsOf(t) \subseteq Requests /\ None \notin Requests /\ Len(script[t]) \in Nat
  BY PartsAreOfRequests, ConstantsAssumption DEF IInv, RInv, RequestInv, Place
<1>1. /\ UNCHANGED <<script, verdict, member, dec, wire, logged, status>>
      /\ UNCHANGED <<watch, rebound, buffered, written, discarded>>
  BY DEF ReadRequest, Take, env, queue, client, ring, watcher
<1>2. /\ Counts(t)' /\ used'[t] = used[t] + 1 /\ used[t] \in Nat
      /\ used[t] + 1 \in 1..Len(script[t])
      /\ DOMAIN fetched' = Tunnels
      /\ \A s \in Tunnels \ {t} : used'[s] = used[s] /\ fetched'[s] = fetched[s]
  BY <1>1, <1>a, TakeCounts DEF ReadRequest, Shapes
<1>3. /\ pc[t] = "read" /\ cur[t] = None
      /\ \A s \in Tunnels \ {t} : pc'[s] = pc[s] /\ cur'[s] = cur[s]
  BY <1>a DEF ReadRequest, Goto, Set, Shapes, Place
<1>4. Local(t)
  BY <1>1, <1>2, <1>3, <1>a, IsLocal DEF SameAt, Stores
<1>5. \A r \in RequestsOf(t)' \ {cur'[t]} : Past(t, r)'
  BY <1>2, <1>3, <1>4, PastStaysAt
<1>6. OwnRow(t)'
  BY <1>1, <1>3, <1>a DEF OwnRow, RequestsOf, ReadRequest, Goto, Set, Shapes
<1>7. CASE NextPart(t).size = "head"
  <2> DEFINE r == NextPart(t).req
  <2>1. cur'[t] = r /\ pc'[t] = "sample"
    BY <1>7, <1>a DEF ReadRequest, Goto, Set, Shapes
  <2>2. r = script[t][used[t] + 1].req /\ r \in RequestsOf(t) /\ r \in Requests
    BY <1>2, <1>a DEF NextPart, RequestsOf
  <2>3. ~Seen(t, r)
    <3>1. script \in Scripts /\ script[t][used[t] + 1].size = "head"
      BY <1>7, <1>a DEF Stores, NextPart
    <3>2. \A m \in 1..((used[t] + 1) - 1) : script[t][m].req # script[t][used[t] + 1].req
      BY <3>1, <1>2, ScriptsAssumption
    <3>3. (used[t] + 1) - 1 = used[t]
      BY <1>2
    <3> QED
      BY <2>2, <3>2, <3>3 DEF Seen
  <2>4. wire[r] = None /\ logged[r] = None /\ member[r] = None
    BY <2>2, <2>3, <1>3, <1>a DEF RequestInv, Past
  <2>5. Seen(t, cur[t])'
    <3>1. used[t] + 1 \in 1..used'[t]
      BY <1>2
    <3> QED
      BY <3>1, <2>1, <2>2, <1>1 DEF Seen
  <2> HIDE DEF r
  <2>6. Present(t)'
    BY <2>1, <2>2, <2>4, <2>5, <1>1 DEF Present, Settled, HoldLabels
  <2>7. Place(t)'
    BY <2>1, <2>2, <1>2, <1>a DEF Place, Busy, HoldLabels
  <2>8. t \notin Pipelining => Patient(t)'
    BY <2>1, <2>2, <1>1, <1>2, <1>a DEF RequestInv, Patient
  <2>9. RequestInv(t)'
    BY <2>6, <2>7, <2>8, <1>5, <1>6 DEF RequestInv
  <2> QED
    BY <2>9, <1>4, RKeptAt
<1>8. CASE NextPart(t).size # "head"
  <2>1. cur'[t] = None /\ pc'[t] = "closed"
    BY <1>8, <1>3, <1>a DEF ReadRequest, Goto, Set, Shapes
  <2>2. Place(t)'
    BY <2>1, <1>2, <1>a DEF Place, Busy, HoldLabels
  <2>3. t \notin Pipelining => Patient(t)'
    BY <2>1, <1>1, <1>a DEF RequestInv, Patient, Busy, HoldLabels
  <2>4. RequestInv(t)'
    BY <2>1, <2>2, <2>3, <1>5, <1>6 DEF RequestInv
  <2> QED
    BY <2>4, <1>4, RKeptAt
<1> QED
  BY <1>7, <1>8

-----------------------------------------------------------------------------
(***************************************************************************)
(* Steps that decide, hold, answer or forward the request: the reader is   *)
(* left alone, and an answer is never taken back.                          *)
(***************************************************************************)
Handles(t) ==
    /\ Local(t)
    /\ UNCHANGED <<cur, written, fetched, used, discarded, watch, buffered>>
    /\ pc[t] \in Busy /\ pc'[t] \in Busy
    /\ wire' = wire \/ wire'[cur[t]] # None
    /\ pc'[t] \notin {"sample", "row"}
    /\ pc'[t] = "decide" => pc[t] = "row"
    /\ pc'[t] = "drain" => ~BodyTaken(t)
    /\ pc'[t] \in HoldLabels => pc[t] \in HoldLabels

LEMMA HandlingStep ==
    ASSUME RInv, NEW t \in Tunnels, Handles(t), Present(t)', OwnRow(t)'
    PROVE  RInv'
<1>1. /\ Stores /\ Local(t) /\ script' = script /\ RequestInv(t) /\ Place(t) /\ Counts(t)
      /\ Len(script[t]) \in Nat
  BY PartsAreOfRequests DEF RInv, Handles, Local, RequestInv, Place
<1>2. UNCHANGED <<cur, written, fetched, used, discarded, watch, buffered>>
  BY DEF Handles
<1>3. \A r \in RequestsOf(t)' \ {cur'[t]} : Past(t, r)'
  BY <1>1, <1>2, PastStaysAt DEF Counts
<1>4. Counts(t)' /\ (BodyTaken(t)' <=> BodyTaken(t))
  BY <1>1, <1>2 DEF Counts, BodyTaken, BodyGoesOn
<1>5. Place(t)'
  <2>1. /\ pc[t] \in Busy /\ pc'[t] \in Busy /\ pc'[t] # "row"
        /\ pc'[t] = "decide" => pc[t] = "row"
        /\ pc'[t] = "drain" => ~BodyTaken(t)
        /\ pc'[t] \in HoldLabels => pc[t] \in HoldLabels
    BY DEF Handles
  <2>2. pc'[t] \notin {"connect", "handshake", "read"}
    BY <2>1 DEF Busy, HoldLabels
  <2> QED
    BY <2>1, <2>2, <1>1, <1>2, <1>4 DEF Place
<1>6. t \notin Pipelining => Patient(t)'
  <2> HAVE t \notin Pipelining
  <2>1. Patient(t) /\ pc[t] \in Busy
    BY <1>1 DEF RequestInv, Handles
  <2>2. \A r \in Requests : wire[r] # None => wire'[r] # None
    BY DEF Handles, Local, SameRequest
  <2>3. \A n \in 1..written[t] : script[t][n].req \in Requests
    BY <1>1, PartsAreOfRequests DEF Counts
  <2>4. ASSUME NEW m \in 1..written[t], script[t][m].size = "head", NEW n \in 1..(m - 1)
        PROVE  wire'[script[t][n].req] # None
    <3>1. n \in 1..written[t]
      BY <1>1 DEF Counts
    <3> QED
      BY <3>1, <2>1, <2>2, <2>3, <2>4 DEF Patient
  <2> QED
    BY <2>1, <2>4, <1>1, <1>2 DEF Patient
<1>7. RequestInv(t)'
  BY <1>3, <1>5, <1>6 DEF RequestInv
<1> QED
  BY <1>1, <1>7, RKeptAt

\* Its row is relabelled or begun.
LEMMA RowStep ==
    ASSUME IInv, RInv, NEW t \in Tunnels, RebindOrBegin(t)
    PROVE  RInv'
<1>a. /\ Shapes /\ Stores /\ RequestInv(t) /\ OwnRow(t) /\ Present(t) /\ pc[t] = "row"
      /\ RequestsOf(t) \subseteq Requests
  BY PartsAreOfRequests DEF IInv, RInv, RequestInv, Place, Busy, RebindOrBegin
<1>b. cur[t] \in Requests /\ cur[t] \in Rows /\ cur[t] # ConnectRow(t)
  BY <1>a, RowsDiffer DEF Present
<1>1. /\ UNCHANGED <<script, verdict, member, dec, wire, logged>>
      /\ UNCHANGED <<watch, cur, buffered, written, fetched, used, discarded>>
  BY DEF RebindOrBegin, env, queue, client, reader, outcome, watcher
<1>2. /\ pc'[t] = "decide" /\ DOMAIN rebound' = Tunnels
      /\ \A s \in Tunnels \ {t} : pc'[s] = pc[s] /\ rebound'[s] = rebound[s]
  BY <1>a DEF RebindOrBegin, Goto, Set, Shapes, Stores
<1>3. /\ DOMAIN status' = Rows
      /\ \A j \in Rows \ {cur[t], ConnectRow(t)} : status'[j] \in {None, status[j]}
      /\ status'[ConnectRow(t)] = None
  <2>1. CASE ~rebound[t] /\ status[ConnectRow(t)] # None
    <3>1. RebindRow(ConnectRow(t), cur[t])
      BY <2>1 DEF RebindOrBegin
    <3>2. ConnectRow(t) \in Rows
      BY RowsDiffer
    <3> QED
      BY <3>1, <3>2, <1>a, <1>b, RebindRows
  <2>2. CASE ~(~rebound[t] /\ status[ConnectRow(t)] # None)
    <3>1. BeginRow(cur[t], "checking")
      BY <2>2 DEF RebindOrBegin
    <3>2. status[ConnectRow(t)] = None
      BY <2>2, <1>a DEF OwnRow
    <3>3. ConnectRow(t) \in Rows
      BY RowsDiffer
    <3> QED
      BY <3>1, <3>2, <3>3, <1>b, BeginRows
  <2> QED
    BY <2>1, <2>2
<1>4. /\ \A r \in Requests \ {cur[t]} : status'[r] \in {None, status[r]}
      /\ \A s \in Tunnels \ {t} : status'[ConnectRow(s)] \in {None, status[ConnectRow(s)]}
  BY <1>3, <1>b, RowsDiffer
<1>5. Local(t)
  BY <1>1, <1>2, <1>3, <1>4, <1>a DEF Local, Stores, VerdictsStand, SameTunnel, SameAt, SameRequest
<1>6. Handles(t)
  BY <1>1, <1>2, <1>5, <1>a DEF Handles, Busy, HoldLabels
<1>7. Present(t)'
  BY <1>1, <1>2, <1>a DEF Present, Seen, Settled, HoldLabels
<1>8. OwnRow(t)'
  BY <1>2, <1>3 DEF OwnRow
<1> QED
  BY <1>6, <1>7, <1>8, HandlingStep

\* The row of the request changes, or none does.
LEMMA OwnRowStays ==
    ASSUME Stores, NEW t \in Tunnels, cur[t] \in Requests, OwnRow(t), pc'[t] # "connect",
           UNCHANGED <<script, rebound>>,
           UNCHANGED status \/ \E x : SetRow(cur[t], x)
    PROVE  /\ OwnRow(t)' /\ DOMAIN status' = Rows
           /\ \A r \in Requests \ {cur[t]} : status'[r] = status[r]
           /\ \A s \in Tunnels : status'[ConnectRow(s)] = status[ConnectRow(s)]
<1>1. /\ DOMAIN status' = Rows
      /\ \A j \in Rows \ {cur[t]} : status'[j] = status[j]
      /\ status[cur[t]] = None => status'[cur[t]] = None
  <2>1. CASE UNCHANGED status
    BY <2>1 DEF Stores
  <2>2. CASE \E x : SetRow(cur[t], x)
    BY <2>2, RowsDiffer, SetRows
  <2> QED
    BY <2>1, <2>2
<1>2. \A s \in Tunnels : status'[ConnectRow(s)] = status[ConnectRow(s)]
  BY <1>1, RowsDiffer
<1>3. \A r \in Requests \ {cur[t]} : status'[r] = status[r]
  BY <1>1, RowsDiffer
<1>4. RequestsOf(t)' = RequestsOf(t) /\ RequestsOf(t) \subseteq Requests
  BY PartsAreOfRequests DEF RequestsOf
<1> QED
  BY <1>1, <1>2, <1>3, <1>4 DEF OwnRow

\* A step that handles the request without the queue.
LEMMA HandledAlone ==
    ASSUME IInv, RInv, NEW t \in Tunnels, pc[t] \in Busy, pc'[t] \in Busy,
           UNCHANGED <<script, verdict, member, logged>>,
           UNCHANGED <<watch, cur, rebound, buffered, written, fetched, used, discarded>>,
           DOMAIN dec' = Requests, DOMAIN wire' = Requests,
           \A s \in Tunnels \ {t} : pc'[s] = pc[s],
           \A r \in Requests \ {cur[t]} : dec'[r] = dec[r] /\ wire'[r] = wire[r],
           UNCHANGED status \/ \E x : SetRow(cur[t], x),
           wire' = wire \/ wire'[cur[t]] # None,
           pc'[t] \notin {"sample", "row", "decide"}, pc'[t] = "drain" => ~BodyTaken(t),
           pc'[t] \in HoldLabels => pc[t] \in HoldLabels,
           Present(t)'
    PROVE  RInv'
<1>1. Shapes /\ Stores /\ OwnRow(t) /\ cur[t] \in Requests /\ pc'[t] # "connect"
  BY DEF IInv, RInv, RequestInv, Place, Present, Busy, HoldLabels
<1>2. /\ OwnRow(t)' /\ DOMAIN status' = Rows
      /\ \A r \in Requests \ {cur[t]} : status'[r] = status[r]
      /\ \A s \in Tunnels : status'[ConnectRow(s)] = status[ConnectRow(s)]
  BY <1>1, OwnRowStays
<1>3. Local(t)
  BY <1>1, <1>2 DEF Local, Stores, VerdictsStand, SameTunnel, SameAt, SameRequest
<1>4. Handles(t)
  BY <1>3 DEF Handles
<1> QED
  BY <1>2, <1>4, HandlingStep

\* What Present needs, with the primes resolved: the request stays the same.
LEMMA PresentNext ==
    ASSUME RInv, NEW t \in Tunnels, cur[t] # None,
           UNCHANGED <<script, cur, used, logged>>,
           pc'[t] # "audit" => wire'[cur[t]] = None,
           pc'[t] \notin {"sample", "row", "decide"},
           dec'[cur[t]] # None,
           pc'[t] \in {"unwatch", "interrupt", "joining", "resolved"}
              /\ dec'[cur[t]].effect \in AllowEffects => Backed(cur[t])',
           pc'[t] \in {"dial", "send", "client lost"} => Backed(cur[t])',
           pc'[t] = "audit" => wire'[cur[t]] # None /\ (wire'[cur[t]] = "origin" => Backed(cur[t])')
    PROVE  Present(t)'
<1>1. Present(t)
  BY DEF RInv, RequestInv
<1>2. Seen(t, cur[t])'
  BY <1>1 DEF Present, Seen
<1> QED
  BY <1>1, <1>2 DEF Present

LEMMA EvaluateStep ==
    ASSUME IInv, RInv, NEW t \in Tunnels, Evaluate(t)
    PROVE  RInv'
<1>a. /\ Shapes /\ Stores /\ Place(t) /\ Present(t) /\ pc[t] = "decide" /\ pc[t] \in Busy
      /\ cur[t] # None
  BY DEF IInv, RInv, RequestInv, Place, Busy, Evaluate
<1>1. /\ UNCHANGED <<script, verdict, member, wire, logged, status>>
      /\ UNCHANGED <<watch, cur, rebound, buffered, written, fetched, used, discarded>>
  BY DEF Evaluate, env, queue, client, reader, watcher, ring
<1>2. /\ pc'[t] \in {"resolved", "watch", "drain"}
      /\ pc'[t] = "drain" => ~buffered[t]
      /\ \A s \in Tunnels \ {t} : pc'[s] = pc[s]
  BY <1>a DEF Evaluate, Goto, Set, Shapes
<1>3. DOMAIN dec' = Requests /\ \A r \in Requests \ {cur[t]} : dec'[r] = dec[r]
  BY <1>a DEF Evaluate, Set, Stores
<1>4. member[cur[t]] = None /\ wire[cur[t]] = None
  BY <1>a DEF Present
<1>5. Backed(cur[t])'
  BY <1>1, <1>4 DEF Backed
<1>d. dec'[cur[t]] # None
  <2>1. None \notin Evaluations
    BY ConstantsAssumption DEF Decisions
  <2>2. dec'[cur[t]] \in Evaluations
    BY <1>a DEF Evaluate, Set, Stores, Present
  <2> QED
    BY <2>1, <2>2
<1>6. Present(t)'
  BY <1>1, <1>2, <1>4, <1>5, <1>d, <1>a, PresentNext
<1>7. pc'[t] = "drain" => ~BodyTaken(t)
  BY <1>2, <1>a DEF Place
<1>8. pc'[t] \in Busy /\ pc'[t] \notin HoldLabels \cup {"sample", "row", "decide"}
  BY <1>2 DEF Busy, HoldLabels
<1> QED
  BY <1>1, <1>2, <1>3, <1>6, <1>7, <1>8, <1>a, HandledAlone DEF Stores

\* It joins or opens a hold, or is turned away.
LEMMA EnqueueStep ==
    ASSUME IInv, RInv, NEW t \in Tunnels, Enqueue(t)
    PROVE  RInv'
<1>a. /\ Shapes /\ Stores /\ OwnRow(t) /\ Present(t) /\ pc[t] = "enqueue" /\ pc[t] \in Busy
      /\ cur[t] # None /\ cur[t] \in Requests /\ pc[t] \in HoldLabels
  BY DEF IInv, RInv, RequestInv, Place, Present, Busy, HoldLabels, Enqueue
<1>1. /\ UNCHANGED <<script, verdict, wire, logged>>
      /\ UNCHANGED <<watch, cur, rebound, buffered, written, fetched, used, discarded>>
  BY DEF Enqueue, env, client, reader, watcher, Queue!Join, Queue!Open, Queue!Refuse
<1>2. \A s \in Tunnels \ {t} : pc'[s] = pc[s]
  BY <1>a DEF Enqueue, Goto, Set, Shapes
<1>3. \/ /\ pc'[t] = "hold" /\ dec' = dec
         /\ \E h \in Requests : member' = [member EXCEPT ![cur[t]] = h]
      \/ /\ pc'[t] = "unwatch" /\ dec' = Set(dec, cur[t], Turned) /\ member' = member
  BY <1>a DEF Enqueue, Goto, Set, Shapes, Queue!Join, Queue!Open, Queue!Refuse,
              Queue!PendingFor, Queue!Pending
<1>4. /\ DOMAIN dec' = Requests /\ member' \in [Requests -> Requests \cup {None}]
      /\ \A r \in Requests \ {cur[t]} : dec'[r] = dec[r] /\ member'[r] = member[r]
  BY <1>3, <1>a DEF Stores, Set
<1>5. UNCHANGED status \/ \E x : SetRow(cur[t], x)
  BY DEF Enqueue
<1>6. /\ OwnRow(t)' /\ DOMAIN status' = Rows
      /\ \A r \in Requests \ {cur[t]} : status'[r] = status[r]
      /\ \A s \in Tunnels : status'[ConnectRow(s)] = status[ConnectRow(s)]
  BY <1>1, <1>3, <1>5, <1>a, OwnRowStays
<1>7. Local(t)
  BY <1>1, <1>2, <1>4, <1>6, <1>a DEF Local, Stores, VerdictsStand, SameTunnel, SameAt, SameRequest
<1>8. Handles(t)
  BY <1>1, <1>3, <1>7, <1>a DEF Handles, Busy, HoldLabels
<1>9. pc'[t] = "unwatch" => dec'[cur[t]].effect \notin AllowEffects
  BY <1>3, <1>a DEF Set, Turned, Decision, AllowEffects, Stores
<1>10. wire[cur[t]] = None
  BY <1>a DEF Present
<1>d. dec'[cur[t]] # None
  <2>1. None # Turned
    BY ConstantsAssumption DEF Decisions, OperatorVerdicts, Turned
  <2>2. dec[cur[t]] # None
    BY <1>a DEF Present, Settled
  <2> QED
    BY <2>1, <2>2, <1>3, <1>a DEF Set, Stores
<1>11. Present(t)'
  BY <1>1, <1>3, <1>9, <1>10, <1>d, <1>a, PresentNext
<1> QED
  BY <1>6, <1>8, <1>11, HandlingStep

\* The hold ends: only a verdict that the hold got can allow.
LEMMA HoldEndsStep ==
    ASSUME IInv, RInv, NEW t \in Tunnels,
           WaitReturns(t) \/ WaitIsCancelled(t) \/ SignalTimerFires(t)
    PROVE  RInv'
<1>a. /\ Shapes /\ Stores /\ Present(t) /\ pc[t] = "hold" /\ pc[t] \in Busy
      /\ cur[t] # None /\ cur[t] \in Requests /\ pc[t] \in HoldLabels
  BY DEF IInv, RInv, RequestInv, Place, Present, Busy, HoldLabels,
         WaitReturns, WaitIsCancelled, SignalTimerFires, HoldEnds
<1>1. /\ UNCHANGED <<script, verdict, member, wire, logged, status>>
      /\ UNCHANGED <<watch, cur, rebound, buffered, written, fetched, used, discarded>>
  BY DEF WaitReturns, WaitIsCancelled, SignalTimerFires, HoldEnds, Queue!Answer, Queue!Leave,
         queue, env, client, reader, watcher, ring
<1>2. pc'[t] = "unwatch" /\ \A s \in Tunnels \ {t} : pc'[s] = pc[s]
  BY <1>a DEF WaitReturns, WaitIsCancelled, SignalTimerFires, HoldEnds, Goto, Set, Shapes
<1>3. DOMAIN dec' = Requests /\ \A r \in Requests \ {cur[t]} : dec'[r] = dec[r]
  BY <1>a DEF WaitReturns, WaitIsCancelled, SignalTimerFires, HoldEnds, Set, Stores
<1>4. dec'[cur[t]].effect \in AllowEffects => Backed(cur[t])'
  <2>1. CASE WaitReturns(t)
    <3>1. dec'[cur[t]] = verdict[member[cur[t]]] /\ verdict[member[cur[t]]] # None
      BY <2>1, <1>a DEF WaitReturns, HoldEnds, Set, Stores, Queue!Answer
    <3> QED
      BY <3>1, <1>1 DEF Backed
  <2>2. CASE WaitIsCancelled(t) \/ SignalTimerFires(t)
    BY <2>2, <1>a DEF WaitIsCancelled, SignalTimerFires, HoldEnds, Set, Stores, Turned,
                      Signaled, Decision, AllowEffects
  <2> QED
    BY <2>1, <2>2
<1>d. dec'[cur[t]] # None
  <2>1. None # Turned /\ None # Signaled
    BY ConstantsAssumption DEF Decisions, OperatorVerdicts, Turned
  <2> QED
    BY <2>1, <1>a DEF WaitReturns, WaitIsCancelled, SignalTimerFires, HoldEnds, Set, Stores,
                      Queue!Answer
<1>5. wire[cur[t]] = None
  BY <1>a DEF Present
<1>6. Present(t)'
  BY <1>1, <1>2, <1>4, <1>5, <1>d, <1>a, PresentNext
<1>7. pc'[t] \in Busy
  BY <1>2 DEF Busy, HoldLabels
<1> QED
  BY <1>1, <1>2, <1>3, <1>6, <1>7, <1>a, HandledAlone DEF Stores

\* Refused, forwarded, answered.
LEMMA AnsweringSteps ==
    ASSUME IInv, RInv, NEW t \in Tunnels,
           Refuse(t) \/ Forward(t) \/ DialOrigin(t) \/ RelayResponse(t)
    PROVE  RInv'
<1>a. /\ Shapes /\ Stores /\ Present(t) /\ pc[t] \in {"resolved", "dial", "send"}
      /\ pc[t] \in Busy /\ cur[t] # None /\ cur[t] \in Requests /\ None \notin Wires
  <2>1. pc[t] \in {"resolved", "dial", "send"}
    BY DEF Refuse, Forward, DialOrigin, RelayResponse
  <2>2. pc[t] \in Busy
    BY <2>1 DEF Busy
  <2> QED
    BY <2>1, <2>2, NoneAssumption DEF IInv, RInv, RequestInv, Place, Present
<1>1. /\ UNCHANGED <<script, verdict, member, dec, logged>>
      /\ UNCHANGED <<watch, cur, rebound, buffered, written, fetched, used, discarded>>
  BY DEF Refuse, Forward, DialOrigin, RelayResponse, queue, env, client, reader, watcher, outcome
<1>2. \A s \in Tunnels \ {t} : pc'[s] = pc[s]
  BY <1>a DEF Refuse, Forward, DialOrigin, RelayResponse, Goto, Set, Shapes
<1>3. UNCHANGED status \/ \E x : SetRow(cur[t], x)
  BY DEF Refuse, Forward, DialOrigin, RelayResponse, ring
<1>4. /\ DOMAIN wire' = Requests /\ \A r \in Requests \ {cur[t]} : wire'[r] = wire[r]
      /\ wire' = wire \/ wire'[cur[t]] \in Wires
  BY <1>a DEF Refuse, Forward, DialOrigin, RelayResponse, Answer, outcome, Set, Stores, Wires
<1>5. \/ pc[t] = "resolved" /\ pc'[t] = "audit" /\ wire'[cur[t]] \in {"470", "471"}
      \/ pc[t] = "resolved" /\ pc'[t] = "dial" /\ wire' = wire
            /\ dec[cur[t]].effect \in AllowEffects
      \/ pc[t] = "dial" /\ pc'[t] = "send" /\ wire' = wire
      \/ pc[t] = "dial" /\ pc'[t] = "audit" /\ wire'[cur[t]] = "502"
      \/ pc[t] = "send" /\ pc'[t] = "audit" /\ wire'[cur[t]] = "origin"
  BY <1>a DEF Refuse, Forward, DialOrigin, RelayResponse, Answer, outcome, Goto, Set, Stores, Shapes
<1>6. wire[cur[t]] = None
  BY <1>a DEF Present
<1>d. dec'[cur[t]] # None
  BY <1>1, <1>a DEF Present, Settled
<1>7. Backed(cur[t])' <=> Backed(cur[t])
  BY <1>1 DEF Backed
<1>8. Present(t)'
  <2>1. pc'[t] \in {"dial", "send"} \/ (pc'[t] = "audit" /\ wire'[cur[t]] = "origin") => Backed(cur[t])
    BY <1>5, <1>a DEF Present
  <2>2. pc'[t] = "audit" => wire'[cur[t]] # None
    BY <1>5, <1>a DEF Wires
  <2> QED
    BY <2>1, <2>2, <1>1, <1>5, <1>6, <1>7, <1>d, <1>a, PresentNext
<1>9. pc'[t] \in Busy /\ pc'[t] \notin HoldLabels \cup {"sample", "row", "decide", "drain"}
  BY <1>5 DEF Busy, HoldLabels
<1>10. wire' = wire \/ wire'[cur[t]] # None
  BY <1>4, <1>a
<1> QED
  BY <1>1, <1>2, <1>3, <1>4, <1>8, <1>9, <1>10, <1>a, HandledAlone DEF Stores

\* The entry says what was decided and told, and the request is over.
LEMMA WriteAuditStep ==
    ASSUME TypeOK, IInv, RInv, NEW t \in Tunnels, WriteAudit(t)
    PROVE  RInv'
<1>r. PICK r : r = cur[t]
  OBVIOUS
<1> USE <1>r
<1> DEFINE e == [decision |-> dec[r], status |-> EntryStatus(t)]
<1>l. pc[t] \in {"audit", "exchange failed", "client lost"}
  BY DEF WriteAudit
<1>a. /\ Shapes /\ Stores /\ RequestInv(t) /\ Place(t) /\ Counts(t) /\ OwnRow(t) /\ Present(t)
      /\ r # None /\ r \in Requests
  BY <1>l DEF IInv, RInv, RequestInv, Place, Present, Busy
<1>1. /\ UNCHANGED <<script, verdict, member, dec, wire>>
      /\ UNCHANGED <<watch, rebound, buffered, written, fetched, used, discarded>>
  BY DEF WriteAudit, AfterAudit, env, queue, client, reader, watcher
<1>2. /\ cur'[t] = None /\ pc'[t] \in {"read", "closed"}
      /\ \A s \in Tunnels \ {t} : pc'[s] = pc[s] /\ cur'[s] = cur[s]
  BY <1>a DEF WriteAudit, AfterAudit, Goto, Set, Shapes
<1>3. /\ logged'[r] = e /\ DOMAIN logged' = Requests
      /\ \A q \in Requests \ {r} : logged'[q] = logged[q]
  BY <1>a DEF WriteAudit, Entry, Set, Stores
<1>4. SetRow(r, FinalStatus(EntryStatus(t)))
  BY DEF WriteAudit, AfterAudit
<1>5. /\ OwnRow(t)' /\ DOMAIN status' = Rows
      /\ \A q \in Requests \ {r} : status'[q] = status[q]
      /\ \A s \in Tunnels : status'[ConnectRow(s)] = status[ConnectRow(s)]
  BY <1>1, <1>2, <1>4, <1>a, OwnRowStays
<1>6. status'[r] \in {None, FinalStatus(EntryStatus(t))}
  BY <1>4, <1>a, RowsDiffer, SetRows
<1>7. Local(t)
  BY <1>1, <1>2, <1>3, <1>5, <1>a DEF Local, Stores, VerdictsStand, SameTunnel, SameAt, SameRequest
<1>8. EntryStatus(t) = CASE pc[t] = "audit" -> wire[r]
                         [] pc[t] = "exchange failed" -> "502"
                         [] pc[t] = "client lost" -> "origin"
  BY DEF EntryStatus
<1>9. /\ wire[r] # None => EntryStatus(t) = wire[r]
      /\ EntryStatus(t) = "origin" => Backed(r)
      /\ EntryStatus(t) \in Wires
  <2>1. CASE pc[t] = "audit"
    <3>1. wire[r] # None /\ wire[r] \in Wires \cup {None}
      BY <2>1, <1>a DEF Present, TypeOK
    <3> QED
      BY <3>1, <2>1, <1>8, <1>a DEF Present
  <2>2. CASE pc[t] # "audit"
    BY <2>2, <1>l, <1>8, <1>a DEF Present, Wires
  <2> QED
    BY <2>1, <2>2
<1>10. e # None
  <2>1. dec[r] \in Decisions
    BY <1>l, <1>a DEF Present, Settled, TypeOK
  <2>2. e \in Entries
    BY <2>1, <1>9 DEF Entries
  <2> QED
    BY <2>2, NoneAssumption
<1> HIDE DEF e
<1>11. e.decision = dec[r] /\ e.status = EntryStatus(t)
  BY DEF e
<1>12. Past(t, r)'
  <2>1. Seen(t, r)'
    <3>1. Seen(t, r)
      BY <1>a DEF Present
    <3> QED
      BY <3>1, <1>1 DEF Seen
  <2>2. Backed(r)' <=> Backed(r)
    BY <1>1 DEF Backed
  <2> QED
    BY <2>1, <2>2, <1>1, <1>3, <1>6, <1>9, <1>10, <1>11 DEF Past
<1>13. RequestsOf(t)' = RequestsOf(t) /\ RequestsOf(t) \subseteq Requests
  BY <1>1, <1>a, PartsAreOfRequests DEF RequestsOf
<1>14. \A q \in RequestsOf(t)' : Past(t, q)'
  <2>1. ASSUME NEW q \in RequestsOf(t), q # r PROVE Past(t, q)'
    <3>1. Past(t, q) /\ SameRequest(q) /\ q \in Requests
      BY <2>1, <1>7, <1>13, <1>a DEF RequestInv, Local
    <3>2. used'[t] = used[t] /\ used[t] \in Nat
      BY <1>1, <1>a DEF Counts
    <3> QED
      BY <3>1, <3>2, <1>7, <1>a, PastStays DEF Local
  <2> QED
    BY <2>1, <1>12, <1>13
<1>15. Place(t)'
  BY <1>1, <1>2, <1>a DEF Place, Counts, Busy, HoldLabels
<1>16. t \notin Pipelining => Patient(t)'
  BY <1>1, <1>2, <1>a DEF RequestInv, Patient, Busy, HoldLabels
<1>17. RequestInv(t)'
  BY <1>2, <1>5, <1>14, <1>15, <1>16 DEF RequestInv
<1> QED
  BY <1>7, <1>17, RKeptAt

\* Steps of the queue that are nobody's in particular, of clients and of shutdown.
LEMMA OutsideSteps ==
    ASSUME IInv, RInv,
           (\E q \in Requests : BackgroundWaitReturns(q)) \/ Environment \/ UNCHANGED vars
    PROVE  RInv'
<1>1. CASE \E s \in Tunnels : ClientWrites(s)
  BY <1>1, WritingSteps
<1>2. CASE /\ UNCHANGED <<script, member, dec, wire, logged, status>>
           /\ UNCHANGED <<pc, watch, cur, rebound, buffered, written, fetched, used, discarded>>
           /\ UNCHANGED verdict
  <2>1. VerdictsStand /\ DOMAIN verdict' = Requests
    BY <1>2 DEF VerdictsStand, RInv, Stores
  <2> QED
    BY <1>2, <2>1, Unnoticed
<1>3. CASE \E H \in SUBSET Queue!Pending : \E d :
              Queue!Decide(H, d) /\ UNCHANGED <<env, client, reader, tunnel, watcher, outcome, ring>>
  <2>1. VerdictsStand /\ DOMAIN verdict' = Requests
    BY <1>3 DEF VerdictsStand, Queue!Decide, Queue!Pending
  <2>2. /\ UNCHANGED <<script, member, dec, wire, logged, status>>
        /\ UNCHANGED <<pc, watch, cur, rebound, buffered, written, fetched, used, discarded>>
    BY <1>3 DEF Queue!Decide, env, client, reader, tunnel, watcher, outcome, ring
  <2> QED
    BY <2>1, <2>2, Unnoticed
<1>4. CASE \E q \in Requests : BackgroundWaitReturns(q) \/ Persist(q)
  BY <1>4, <1>2 DEF BackgroundWaitReturns, Persist, Queue!Answer, Queue!Record,
                    env, client, reader, tunnel, watcher, outcome, ring
<1>5. CASE (\E h \in Requests, d \in Verdicts : DecideHold(h, d)) \/ SweepQueue
  <2>1. CASE \E h \in Requests, d \in Verdicts : DecideHold(h, d)
    <3>1. PICK h \in Requests, d \in Verdicts : DecideHold(h, d)
      BY <2>1
    <3>2. {h} \in SUBSET Queue!Pending
      BY <3>1 DEF DecideHold, Queue!Decide
    <3> QED
      BY <3>1, <3>2, <1>3 DEF DecideHold
  <2>2. CASE SweepQueue
    BY <2>2, <1>3 DEF SweepQueue
  <2> QED
    BY <2>1, <2>2, <1>5
<1>6. CASE (\E s \in Tunnels : ClientLeaves(s)) \/ CancelContext \/ CloseTrackedConns
  BY <1>6, <1>2 DEF ClientLeaves, CancelContext, CloseTrackedConns, queue,
                    env, client, reader, tunnel, watcher, outcome, ring
<1>7. CASE UNCHANGED vars
  BY <1>7, <1>2 DEF vars, queue, env, client, reader, tunnel, watcher, outcome, ring
<1> QED
  BY <1>1, <1>4, <1>5, <1>6, <1>7 DEF Environment

LEMMA StepRInv == TypeOK /\ IInv /\ RInv /\ [Next]_vars => RInv'
<1> SUFFICES ASSUME TypeOK, IInv, RInv, [Next]_vars PROVE RInv'
  OBVIOUS
<1>1. CASE \E t \in Tunnels : TunnelStep(t) \/ PeekSucceeds(t) \/ PeekFails(t)
  BY <1>1, MovingSteps, ReadingSteps, WatcherSteps, OpeningSteps, ReadRequestStep, RowStep,
     EvaluateStep, EnqueueStep, HoldEndsStep, AnsweringSteps, WriteAuditStep DEF TunnelStep
<1>2. CASE (\E q \in Requests : BackgroundWaitReturns(q)) \/ Environment \/ UNCHANGED vars
  BY <1>2, OutsideSteps
<1> QED
  BY <1>1, <1>2 DEF Next

LEMMA InitRInv == Init => RInv
<1> SUFFICES ASSUME Init PROVE RInv
  OBVIOUS
<1>1. Stores
  BY DEF Init, Stores
<1>2. ASSUME NEW t \in Tunnels PROVE RequestInv(t)
  <2>1. cur[t] = None /\ pc[t] = "connect" /\ rebound[t] = FALSE /\ discarded[t] = {}
    BY DEF Init
  <2>2. /\ written[t] = 0 /\ fetched[t] = 0 /\ used[t] = 0
        /\ RequestsOf(t) \subseteq Requests /\ Len(script[t]) \in Nat
    BY <1>1, PartsAreOfRequests DEF Init
  <2>3. \A q \in Requests : wire[q] = None /\ logged[q] = None /\ member[q] = None
    BY DEF Init
  <2>4. \A i \in Rows : status[i] = None
    BY DEF Init
  <2>5. status[ConnectRow(t)] = None /\ \A q \in Requests : status[q] = None
    BY <2>4, RowsDiffer
  <2>6. \A q \in RequestsOf(t) : Past(t, q)
    BY <2>2, <2>3, <2>5 DEF Past
  <2>7. Place(t)
    BY <2>1, <2>2 DEF Place, Counts, Busy, HoldLabels
  <2>8. OwnRow(t)
    BY <2>1, <2>5 DEF OwnRow
  <2>9. Patient(t)
    BY <2>1, <2>2 DEF Patient, Busy, HoldLabels
  <2> QED
    BY <2>1, <2>6, <2>7, <2>8, <2>9 DEF RequestInv
<1> QED
  BY <1>1, <1>2 DEF RInv

-----------------------------------------------------------------------------
(***************************************************************************)
(* Types.                                                                  *)
(***************************************************************************)
\* The tunnel's goroutine and the watcher.
GoroutineStep(t) == TunnelStep(t) \/ PeekSucceeds(t) \/ PeekFails(t)

OutsideStep ==
    (\E q \in Requests : BackgroundWaitReturns(q)) \/ Environment \/ UNCHANGED vars

LEMMA StepKinds == [Next]_vars => (\E t \in Tunnels : GoroutineStep(t)) \/ OutsideStep
BY DEF Next, GoroutineStep, OutsideStep

LEMMA AtRequest ==
    ASSUME RInv, NEW t \in Tunnels, pc[t] \in Busy
    PROVE  cur[t] \in Requests
BY DEF RInv, RequestInv, Place, Present

QueueTypes ==
    /\ maxPending \in CapArgs /\ recorded \subseteq Requests
    /\ verdict \in [Requests -> Decisions \cup {None}]
    /\ answer \in [Requests -> Decisions \cup {None}]

LEMMA SomeDecisions ==
    /\ Turned \in Decisions /\ Signaled \in Decisions /\ ShutdownVerdict \in Decisions
    /\ Verdicts \subseteq Decisions
BY ConstantsAssumption DEF Decisions, OperatorVerdicts, AdvisorVerdicts, Turned

LEMMA QueueTypesStep ==
    ASSUME RInv, QueueTypes, [Next]_vars
    PROVE  QueueTypes'
<1>m. member \in [Requests -> Requests \cup {None}]
  BY DEF RInv, Stores
<1>1. CASE UNCHANGED queue
  BY <1>1 DEF queue, QueueTypes
<1>2. ASSUME NEW r \in Requests,
             Queue!Join(r) \/ Queue!Open(r) \/ Queue!Refuse(r) \/ Queue!Answer(r)
                \/ Queue!Leave(r) \/ Queue!Record(r)
      PROVE  QueueTypes'
  BY <1>2, <1>m, SomeDecisions DEF QueueTypes, Queue!Join, Queue!Open, Queue!Refuse, Queue!Answer,
                    Queue!Leave, Queue!Record
<1>3. ASSUME NEW H, NEW d \in Decisions, Queue!Decide(H, d)
      PROVE  QueueTypes'
  BY <1>3 DEF QueueTypes, Queue!Decide
<1>4. ASSUME NEW t \in Tunnels, Enqueue(t) \/ WaitReturns(t) \/ WaitIsCancelled(t)
      PROVE  QueueTypes'
  <2>1. cur[t] \in Requests
    BY <1>4, AtRequest DEF Enqueue, WaitReturns, WaitIsCancelled, HoldEnds, Busy, HoldLabels
  <2> QED
    BY <2>1, <1>4, <1>2 DEF Enqueue, WaitReturns, WaitIsCancelled
<1>5. ASSUME NEW t \in Tunnels, GoroutineStep(t) PROVE QueueTypes'
  <2>1. CASE Enqueue(t) \/ WaitReturns(t) \/ WaitIsCancelled(t)
    BY <2>1, <1>4
  <2>2. CASE ~(Enqueue(t) \/ WaitReturns(t) \/ WaitIsCancelled(t))
    BY <2>2, <1>5, <1>1 DEF GoroutineStep, TunnelStep, Connect, HandshakeSucceeds, HandshakeFails,
         ReadRequest, ReadFails, SampleBody, BodyFails, RebindOrBegin, Evaluate, DrainBody,
         StartWatch, SignalTimerFires, CheckWatcher, SetReadDeadline, JoinWatcher, Refuse,
         Forward, DialOrigin, SendBody, RelayResponse, ExchangeFails, WriteAudit, AfterAudit,
         PeekSucceeds, PeekFails
  <2> QED
    BY <2>1, <2>2
<1>6. CASE OutsideStep
  BY <1>6, <1>1, <1>2, <1>3, SomeDecisions
     DEF OutsideStep, BackgroundWaitReturns, Environment, ClientWrites, ClientLeaves, DecideHold,
         Persist, CancelContext, SweepQueue, CloseTrackedConns, vars
<1> QED
  BY <1>5, <1>6, StepKinds

TunnelTypes ==
    /\ wait \in Waits /\ stopping \in BOOLEAN
    /\ conn \in [Tunnels -> {"open", "gone", "closed"}]
    /\ cur \in [Tunnels -> Requests \cup {None}]
    /\ rebound \in [Tunnels -> BOOLEAN]
    /\ cancelled \in [Tunnels -> BOOLEAN]
    /\ malformed \subseteq Tunnels

LEMMA TunnelTypesStep ==
    ASSUME RInv, TunnelTypes, [Next]_vars
    PROVE  TunnelTypes'
<1>1. ASSUME NEW t \in Tunnels, GoroutineStep(t) PROVE TunnelTypes'
  <2>1. UNCHANGED <<env, conn>>
    BY <1>1 DEF GoroutineStep, TunnelStep, Connect, HandshakeSucceeds, HandshakeFails,
         ReadRequest, ReadFails, SampleBody, BodyFails, RebindOrBegin, Evaluate, DrainBody,
         StartWatch, Enqueue, WaitReturns, WaitIsCancelled, SignalTimerFires, HoldEnds,
         CheckWatcher, SetReadDeadline, JoinWatcher, Refuse, Forward, DialOrigin, SendBody,
         RelayResponse, ExchangeFails, WriteAudit, AfterAudit, PeekSucceeds, PeekFails, client
  <2>2. CASE ReadRequest(t)
    <3>1. NextPart(t).req \in Requests
      <4>1. Stores /\ Counts(t)
        BY DEF RInv, RequestInv, Place
      <4>2. used[t] + 1 \in 1..Len(script[t])
        <5>1. written[t] \in Nat /\ written[t] <= Len(script[t]) /\ Len(script[t]) \in Nat
          BY <4>1, PartsAreOfRequests DEF Counts
        <5> QED
          BY <5>1, <4>1, <2>2 DEF Counts, ReadRequest, Take, Fill, Empty, Arrived
      <4> QED
        BY <4>1, <4>2, PartsAreOfRequests DEF NextPart
    <3>2. /\ UNCHANGED <<rebound, cancelled>> /\ malformed' \in {malformed, malformed \cup {t}}
          /\ cur' \in {cur, Set(cur, t, NextPart(t).req)}
      BY <2>2 DEF ReadRequest, watcher
    <3> QED
      BY <3>1, <3>2, <2>1 DEF TunnelTypes, env, Set
  <2>3. CASE ReadFails(t)
    BY <2>1, <2>3 DEF ReadFails, TunnelTypes, env, watcher
  <2>4. CASE RebindOrBegin(t)
    BY <2>1, <2>4 DEF RebindOrBegin, TunnelTypes, env, watcher, outcome, Set
  <2>5. CASE StartWatch(t)
    BY <2>1, <2>5 DEF StartWatch, TunnelTypes, env, outcome, Set
  <2>6. CASE PeekFails(t)
    BY <2>1, <2>6 DEF PeekFails, TunnelTypes, env, tunnel, outcome, Set
  <2>7. CASE WriteAudit(t)
    BY <2>1, <2>7 DEF WriteAudit, AfterAudit, TunnelTypes, env, watcher, Set
  <2>8. CASE ~(ReadRequest(t) \/ ReadFails(t) \/ RebindOrBegin(t) \/ StartWatch(t)
               \/ PeekFails(t) \/ WriteAudit(t))
    <3>1. UNCHANGED <<cur, rebound, cancelled, malformed>>
      BY <1>1, <2>8 DEF GoroutineStep, TunnelStep, Connect, HandshakeSucceeds, HandshakeFails,
         SampleBody, BodyFails, Evaluate, DrainBody, Enqueue, WaitReturns, WaitIsCancelled,
         SignalTimerFires, HoldEnds, CheckWatcher, SetReadDeadline, JoinWatcher, Refuse, Forward,
         DialOrigin, SendBody, RelayResponse, ExchangeFails, PeekSucceeds, tunnel, watcher, outcome
    <3> QED
      BY <3>1, <2>1 DEF TunnelTypes, env
  <2> QED
    BY <2>2, <2>3, <2>4, <2>5, <2>6, <2>7, <2>8
<1>2. CASE OutsideStep
  <2>1. UNCHANGED <<cur, rebound, cancelled, malformed, wait>>
    BY <1>2 DEF OutsideStep, BackgroundWaitReturns, Environment, ClientWrites, ClientLeaves,
         DecideHold, Persist, CancelContext, SweepQueue, CloseTrackedConns, vars,
         env, tunnel, watcher, outcome
  <2>2. stopping' \in BOOLEAN
    BY <1>2 DEF OutsideStep, BackgroundWaitReturns, Environment, ClientWrites, ClientLeaves,
         DecideHold, Persist, CancelContext, SweepQueue, CloseTrackedConns, vars, env, TunnelTypes
  <2>3. conn' \in [Tunnels -> {"open", "gone", "closed"}]
    BY <1>2 DEF OutsideStep, BackgroundWaitReturns, Environment, ClientWrites, ClientLeaves,
         DecideHold, Persist, CancelContext, SweepQueue, CloseTrackedConns, vars, client,
         TunnelTypes, Set
  <2> QED
    BY <2>1, <2>2, <2>3 DEF TunnelTypes
<1> QED
  BY <1>1, <1>2, StepKinds

\* What the client was told, the decision and the entry.
OutcomeTypes ==
    /\ dec \in [Requests -> Decisions \cup {None}]
    /\ wire \in [Requests -> Wires \cup {None}]
    /\ logged \in [Requests -> Entries \cup {None}]

\* The entry and the row are made from an answer.
LEMMA EntryTypes ==
    ASSUME RInv, OutcomeTypes, NEW t \in Tunnels, WriteAudit(t)
    PROVE  Entry(t) \in Entries /\ EntryStatus(t) \in Wires
<1>1. pc[t] \in {"audit", "exchange failed", "client lost"} /\ pc[t] \in Busy /\ pc[t] \in Settled
  BY DEF WriteAudit, Busy, Settled
<1>2. Present(t) /\ cur[t] \in Requests
  BY <1>1 DEF RInv, RequestInv, Place, Present
<1>3. dec[cur[t]] \in Decisions
  <2>1. dec[cur[t]] # None
    BY <1>1, <1>2 DEF Present
  <2>2. dec[cur[t]] \in Decisions \cup {None}
    BY <1>2 DEF OutcomeTypes
  <2> QED
    BY <2>1, <2>2
<1>4. pc[t] = "audit" => wire[cur[t]] \in Wires
  BY <1>2 DEF Present, OutcomeTypes
<1>5. EntryStatus(t) \in Wires
  BY <1>1, <1>4 DEF EntryStatus, Wires
<1> QED
  BY <1>3, <1>5 DEF Entry, Entries

LEMMA OutcomeTypesStep ==
    ASSUME RInv, QueueTypes, OutcomeTypes, [Next]_vars
    PROVE  OutcomeTypes'
<1>1. CASE UNCHANGED <<dec, wire, logged>>
  BY <1>1 DEF OutcomeTypes
<1>2. ASSUME NEW t \in Tunnels, GoroutineStep(t) PROVE OutcomeTypes'
  <2>1. CASE Evaluate(t)
    <3>1. Evaluations \subseteq Decisions
      BY DEF Decisions
    <3>2. PICK d \in Evaluations : dec' = Set(dec, cur[t], d)
      BY <2>1 DEF Evaluate
    <3>3. UNCHANGED <<wire, logged>>
      BY <2>1 DEF Evaluate
    <3> QED
      BY <3>1, <3>2, <3>3 DEF OutcomeTypes, Set
  <2>2. CASE Enqueue(t) \/ WaitIsCancelled(t) \/ SignalTimerFires(t)
    <3>1. dec' = dec \/ \E d \in Decisions : dec' = Set(dec, cur[t], d)
      BY <2>2, SomeDecisions DEF Enqueue, WaitIsCancelled, SignalTimerFires, HoldEnds
    <3>2. UNCHANGED <<wire, logged>>
      BY <2>2 DEF Enqueue, WaitIsCancelled, SignalTimerFires, HoldEnds
    <3> QED
      BY <3>1, <3>2 DEF OutcomeTypes, Set
  <2>3. CASE WaitReturns(t)
    <3>1. cur[t] \in Requests
      BY <2>3, AtRequest DEF WaitReturns, HoldEnds, Busy, HoldLabels
    <3>2. member[cur[t]] \in Requests
      BY <2>3, <3>1 DEF WaitReturns, Queue!Answer, RInv, Stores
    <3>3. verdict[member[cur[t]]] \in Decisions \cup {None}
      BY <3>2 DEF QueueTypes
    <3>4. UNCHANGED <<wire, logged>> /\ dec' = Set(dec, cur[t], verdict[member[cur[t]]])
      BY <2>3 DEF WaitReturns, HoldEnds
    <3> QED
      BY <3>3, <3>4 DEF OutcomeTypes, Set
  <2>4. CASE Refuse(t) \/ DialOrigin(t) \/ RelayResponse(t)
    <3>1. wire' = wire \/ \E w \in Wires : wire' = Set(wire, cur[t], w)
      BY <2>4 DEF Refuse, DialOrigin, RelayResponse, Answer, Wires
    <3>2. UNCHANGED <<dec, logged>>
      BY <2>4 DEF Refuse, DialOrigin, RelayResponse
    <3> QED
      BY <3>1, <3>2 DEF OutcomeTypes, Set
  <2>5. CASE WriteAudit(t)
    <3>1. UNCHANGED <<dec, wire>> /\ logged' = Set(logged, cur[t], Entry(t))
      BY <2>5 DEF WriteAudit, AfterAudit
    <3>2. Entry(t) \in Entries
      BY <2>5, EntryTypes
    <3> QED
      BY <3>1, <3>2 DEF OutcomeTypes, Set
  <2>6. CASE ~(Evaluate(t) \/ Enqueue(t) \/ WaitIsCancelled(t) \/ SignalTimerFires(t)
               \/ WaitReturns(t) \/ Refuse(t) \/ DialOrigin(t) \/ RelayResponse(t) \/ WriteAudit(t))
    BY <1>1, <1>2, <2>6 DEF GoroutineStep, TunnelStep, Connect, HandshakeSucceeds, HandshakeFails,
         ReadRequest, ReadFails, SampleBody, BodyFails, RebindOrBegin, DrainBody, StartWatch,
         CheckWatcher, SetReadDeadline, JoinWatcher, Forward, SendBody, ExchangeFails,
         PeekSucceeds, PeekFails, outcome
  <2> QED
    BY <2>1, <2>2, <2>3, <2>4, <2>5, <2>6
<1>3. CASE OutsideStep
  BY <1>3, <1>1 DEF OutsideStep, BackgroundWaitReturns, Environment, ClientWrites, ClientLeaves,
         DecideHold, Persist, CancelContext, SweepQueue, CloseTrackedConns, vars, outcome
<1> QED
  BY <1>2, <1>3, StepKinds

\* What Reset threw away had been fetched.
ReaderTypes ==
    \A t \in Tunnels : discarded[t] \subseteq {script[t][n] : n \in 1..used[t]}

LEMMA ReaderTypesStep ==
    ASSUME IInv, RInv, ReaderTypes, [Next]_vars, RInv'
    PROVE  ReaderTypes'
<1>a. /\ Shapes /\ Stores /\ script' = script
      /\ \A t \in Tunnels : Counts(t) /\ Counts(t)'
  <2>1. script' = script
    <3>1. ASSUME NEW t \in Tunnels, GoroutineStep(t) PROVE script' = script
      BY <3>1 DEF GoroutineStep, TunnelStep, Connect, HandshakeSucceeds, HandshakeFails,
         ReadRequest, ReadFails, SampleBody, BodyFails, RebindOrBegin, Evaluate, DrainBody,
         StartWatch, Enqueue, WaitReturns, WaitIsCancelled, SignalTimerFires, HoldEnds,
         CheckWatcher, SetReadDeadline, JoinWatcher, Refuse, Forward, DialOrigin, SendBody,
         RelayResponse, ExchangeFails, WriteAudit, AfterAudit, PeekSucceeds, PeekFails, env
    <3>2. CASE OutsideStep
      BY <3>2 DEF OutsideStep, BackgroundWaitReturns, Environment, ClientWrites, ClientLeaves,
         DecideHold, Persist, CancelContext, SweepQueue, CloseTrackedConns, vars, env
    <3> QED
      BY <3>1, <3>2, StepKinds
  <2> QED
    BY <2>1 DEF IInv, RInv, RequestInv, Place
<1>b. \A t \in Tunnels : /\ Len(script[t]) \in Nat /\ used[t] \in Nat /\ used'[t] \in Nat
                         /\ fetched[t] \in Nat /\ used[t] <= fetched[t]
  BY <1>a, PartsAreOfRequests DEF Counts
<1>1. CASE UNCHANGED reader
  BY <1>1, <1>a DEF reader, ReaderTypes
<1>2. ASSUME NEW t \in Tunnels, Take(t) PROVE ReaderTypes'
  <2>1. discarded' = discarded /\ \A s \in Tunnels : used[s] <= used'[s]
    BY <1>2, <1>a, <1>b DEF Take, Set, Shapes
  <2>2. \A s \in Tunnels : 1..used[s] \subseteq 1..used'[s]
    BY <2>1, <1>b
  <2> QED
    BY <2>1, <2>2, <1>a DEF ReaderTypes
<1>3. ASSUME NEW t \in Tunnels, JoinWatcher(t) PROVE ReaderTypes'
  <2>1. /\ used'[t] = fetched[t]
        /\ discarded'[t] = discarded[t] \cup {script[t][n] : n \in (used[t] + 1)..fetched[t]}
        /\ \A s \in Tunnels \ {t} : used'[s] = used[s] /\ discarded'[s] = discarded[s]
    BY <1>3, <1>a DEF JoinWatcher, Set, Shapes, Stores
  <2>2. 1..used[t] \subseteq 1..fetched[t] /\ (used[t] + 1)..fetched[t] \subseteq 1..fetched[t]
    BY <1>b
  <2>3. discarded'[t] \subseteq {script[t][n] : n \in 1..fetched[t]}
    BY <2>1, <2>2 DEF ReaderTypes
  <2> QED
    BY <2>1, <2>3, <1>a DEF ReaderTypes
<1>4. ASSUME NEW t \in Tunnels, PeekSucceeds(t) PROVE ReaderTypes'
  BY <1>4, <1>a DEF PeekSucceeds, reader, ReaderTypes
<1>5. ASSUME NEW t \in Tunnels, GoroutineStep(t) PROVE ReaderTypes'
  <2>1. Take(t) \/ JoinWatcher(t) \/ PeekSucceeds(t) \/ UNCHANGED reader
    BY <1>5 DEF GoroutineStep, TunnelStep, Connect, HandshakeSucceeds, HandshakeFails,
         ReadRequest, ReadFails, SampleBody, BodyFails, RebindOrBegin, Evaluate, DrainBody,
         StartWatch, Enqueue, WaitReturns, WaitIsCancelled, SignalTimerFires, HoldEnds,
         CheckWatcher, SetReadDeadline, Refuse, Forward, DialOrigin, SendBody,
         RelayResponse, ExchangeFails, WriteAudit, AfterAudit, PeekFails
  <2> QED
    BY <2>1, <1>1, <1>2, <1>3, <1>4
<1>6. CASE OutsideStep
  BY <1>6, <1>1 DEF OutsideStep, BackgroundWaitReturns, Environment, ClientWrites, ClientLeaves,
         DecideHold, Persist, CancelContext, SweepQueue, CloseTrackedConns, vars
<1> QED
  BY <1>5, <1>6, StepKinds

\* The operations ring.
RowStatuses == Wires \cup {"checking", "pending", "running", "denied", "signaled", "tls_failed"}

RingTypes ==
    /\ order \in Seq(Rows) /\ Len(order) <= RingCap
    /\ status \in [Rows -> RowStatuses \cup {None}]

LEMMA BeginKeepsRing ==
    ASSUME RingTypes, NEW i \in Rows, NEW x \in RowStatuses, BeginRow(i, x)
    PROVE  RingTypes'
<1>1. order \in Seq(Rows) /\ Len(order) \in Nat /\ Len(order) <= RingCap /\ RingCap \in Nat \ {0}
  BY ConstantsAssumption, LenProperties DEF RingTypes
<1>2. status' \in [Rows -> RowStatuses \cup {None}]
  BY DEF BeginRow, RingTypes
<1>3. CASE Len(order) >= RingCap
  <2>1. order' = Append(Tail(order), i)
    BY <1>3 DEF BeginRow
  <2>2. order # <<>>
    BY <1>1, <1>3, EmptySeq
  <2>3. Tail(order) \in Seq(Rows) /\ Len(Tail(order)) = Len(order) - 1
    BY <1>1, <2>2, HeadTailProperties
  <2>4. order' \in Seq(Rows) /\ Len(order') = Len(order)
    BY <1>1, <2>1, <2>3, AppendProperties
  <2> QED
    BY <1>1, <1>2, <2>4 DEF RingTypes
<1>4. CASE ~(Len(order) >= RingCap)
  <2>1. order' = Append(order, i)
    BY <1>4 DEF BeginRow
  <2>2. order' \in Seq(Rows) /\ Len(order') = Len(order) + 1
    BY <1>1, <2>1, AppendProperties
  <2> QED
    BY <1>1, <1>2, <1>4, <2>2 DEF RingTypes
<1> QED
  BY <1>3, <1>4

LEMMA RebindKeepsRing ==
    ASSUME RingTypes, NEW i \in Rows, NEW j \in Rows, RebindRow(i, j)
    PROVE  RingTypes'
<1>1. order \in Seq(Rows) /\ Len(order) \in Nat /\ DOMAIN order = 1..Len(order)
  BY LenProperties DEF RingTypes
<1>2. \A n \in 1..Len(order) : order[n] \in Rows
  BY <1>1, ElementOfSeq
<1>3. order' \in [1..Len(order) -> Rows]
  BY <1>1, <1>2 DEF RebindRow
<1>4. order' \in Seq(Rows) /\ Len(order') = Len(order)
  BY <1>1, <1>3, LenProperties, IsASeq
<1>5. status' \in [Rows -> RowStatuses \cup {None}]
  BY DEF RebindRow, RingTypes, RowStatuses
<1> QED
  BY <1>4, <1>5 DEF RingTypes

LEMMA RingTypesStep ==
    ASSUME RInv, OutcomeTypes, RingTypes, [Next]_vars
    PROVE  RingTypes'
<1>1. CASE UNCHANGED ring
  BY <1>1 DEF ring, RingTypes
<1>2. ASSUME NEW t \in Tunnels, Connect(t) \/ HandshakeFails(t) PROVE RingTypes'
  <2>1. {"origin", "tls_failed"} \subseteq RowStatuses
    BY DEF RowStatuses, Wires
  <2> QED
    BY <1>2, <2>1, RowsDiffer, BeginKeepsRing DEF Connect, HandshakeFails
<1>3. ASSUME NEW t \in Tunnels, RebindOrBegin(t) PROVE RingTypes'
  <2>1. cur[t] \in Requests
    BY <1>3, AtRequest DEF RebindOrBegin, Busy
  <2>2. cur[t] \in Rows /\ ConnectRow(t) \in Rows /\ "checking" \in RowStatuses
    BY <2>1, RowsDiffer DEF RowStatuses
  <2> QED
    BY <1>3, <2>2, BeginKeepsRing, RebindKeepsRing DEF RebindOrBegin
<1>4. ASSUME NEW i, NEW x \in RowStatuses, SetRow(i, x), order' = order PROVE RingTypes'
  BY <1>4 DEF SetRow, RingTypes
<1>5. ASSUME NEW t \in Tunnels, WriteAudit(t) PROVE RingTypes'
  <2>1. EntryStatus(t) \in Wires
    BY <1>5, EntryTypes
  <2>2. FinalStatus(EntryStatus(t)) \in RowStatuses
    BY <2>1 DEF FinalStatus, RowStatuses, Wires
  <2> QED
    BY <1>4, <1>5, <2>2 DEF WriteAudit, AfterAudit
<1>6. ASSUME NEW t \in Tunnels, Enqueue(t) \/ Refuse(t) \/ Forward(t) PROVE RingTypes'
  <2>1. {"pending", "running"} \subseteq RowStatuses
    BY DEF RowStatuses
  <2> QED
    BY <1>6, <2>1, <1>1, <1>4 DEF Enqueue, Refuse, Forward, ring
<1>7. ASSUME NEW t \in Tunnels, GoroutineStep(t) PROVE RingTypes'
  <2>1. CASE Connect(t) \/ HandshakeFails(t) \/ RebindOrBegin(t) \/ WriteAudit(t)
             \/ Enqueue(t) \/ Refuse(t) \/ Forward(t)
    BY <2>1, <1>2, <1>3, <1>5, <1>6
  <2>2. CASE ~(Connect(t) \/ HandshakeFails(t) \/ RebindOrBegin(t) \/ WriteAudit(t)
               \/ Enqueue(t) \/ Refuse(t) \/ Forward(t))
    BY <1>1, <1>7, <2>2 DEF GoroutineStep, TunnelStep, HandshakeSucceeds,
         ReadRequest, ReadFails, SampleBody, BodyFails, Evaluate, DrainBody,
         StartWatch, WaitReturns, WaitIsCancelled, SignalTimerFires, HoldEnds,
         CheckWatcher, SetReadDeadline, JoinWatcher, DialOrigin, SendBody,
         RelayResponse, ExchangeFails, PeekSucceeds, PeekFails
  <2> QED
    BY <2>1, <2>2
<1>8. CASE OutsideStep
  BY <1>8, <1>1 DEF OutsideStep, BackgroundWaitReturns, Environment, ClientWrites, ClientLeaves,
         DecideHold, Persist, CancelContext, SweepQueue, CloseTrackedConns, vars
<1> QED
  BY <1>7, <1>8, StepKinds

\* Together with the two invariants these are the type invariant.
Types == QueueTypes /\ TunnelTypes /\ OutcomeTypes /\ ReaderTypes /\ RingTypes

LEMMA TypesSuffice == IInv /\ RInv /\ Types => TypeOK
<1> SUFFICES ASSUME IInv, RInv, Types PROVE TypeOK
  OBVIOUS
<1>1. /\ pc \in [Tunnels -> Labels] /\ buffered \in [Tunnels -> BOOLEAN]
      /\ watch \in [Tunnels -> {"none", "peeking", "done"}]
  BY DEF IInv, Shapes
<1>2. script \in Scripts /\ member \in [Requests -> Requests \cup {None}]
  BY DEF RInv, Stores
<1>3. \A t \in Tunnels : /\ written[t] \in 0..Len(script[t])
                         /\ fetched[t] \in 0..written[t]
                         /\ used[t] \in 0..fetched[t]
                         /\ discarded[t] \subseteq {script[t][n] : n \in 1..used[t]}
  BY DEF RInv, RequestInv, Place, Counts, Types, ReaderTypes
<1>4. /\ order \in Seq(Rows) /\ Len(order) <= RingCap
      /\ status \in [Rows -> Wires \cup {"checking", "pending", "running", "denied",
                                         "signaled", "tls_failed", None}]
  <2>1. RowStatuses \cup {None} = Wires \cup {"checking", "pending", "running", "denied",
                                              "signaled", "tls_failed", None}
    BY DEF RowStatuses
  <2> QED
    BY <2>1 DEF Types, RingTypes
<1> QED
  BY <1>1, <1>2, <1>3, <1>4 DEF TypeOK, Types, QueueTypes, TunnelTypes, OutcomeTypes

LEMMA InitTypes == Init => Types
<1> SUFFICES ASSUME Init PROVE Types
  OBVIOUS
<1>1. QueueTypes
  BY DEF Init, QueueTypes
<1>2. TunnelTypes
  BY DEF Init, TunnelTypes
<1>3. OutcomeTypes
  BY DEF Init, OutcomeTypes
<1>4. ReaderTypes
  BY DEF Init, ReaderTypes
<1>5. RingTypes
  <2>1. order \in Seq(Rows) /\ Len(order) = 0
    BY DEF Init
  <2> QED
    BY <2>1, ConstantsAssumption DEF Init, RingTypes
<1> QED
  BY <1>1, <1>2, <1>3, <1>4, <1>5 DEF Types

-----------------------------------------------------------------------------
(***************************************************************************)
(* The tunnels keep their types, and the second invariant holds.           *)
(***************************************************************************)
THEOREM RequestsInvariant == Spec => [](TypeOK /\ RInv)
<1>1. Init => RInv /\ Types
  BY InitRInv, InitTypes
<1>2. IInv /\ RInv /\ Types /\ [Next]_vars => RInv' /\ Types'
  <2> SUFFICES ASSUME IInv, RInv, Types, [Next]_vars PROVE RInv' /\ Types'
    OBVIOUS
  <2>1. RInv'
    BY TypesSuffice, StepRInv
  <2> QED
    BY <2>1, QueueTypesStep, TunnelTypesStep, OutcomeTypesStep, ReaderTypesStep, RingTypesStep
       DEF Types
<1>3. IInv /\ RInv /\ Types => TypeOK
  BY TypesSuffice
<1> QED
  BY <1>1, <1>2, <1>3, InductiveInvariant, PTL DEF Spec

(***************************************************************************)
(* TestIntercept_KeepAliveSurvivesHeldRequest, for every length of body,   *)
(* number of requests and interleaving: br.Reset after a hold throws away  *)
(* nothing that a client sent which waits for its answers.                 *)
(***************************************************************************)
THEOREM KeepAliveSurvives == Spec => []PatientClientsLoseNothing
<1>1. RInv => PatientClientsLoseNothing
  BY DEF RInv, RequestInv, Patient, PatientClientsLoseNothing
<1> QED
  BY <1>1, RequestsInvariant, PTL

(***************************************************************************)
(* The entry, the row, the client and the verdict tell the same of every   *)
(* inner request, and one that was held reached the origin only if its     *)
(* hold was allowed (interceptCONNECT, dispatchInterceptedRequest).        *)
(***************************************************************************)
THEOREM OutcomesAgree == Spec => []EntriesRowsAndVerdictsAgree
<1>1. RInv => EntriesRowsAndVerdictsAgree
  <2> SUFFICES ASSUME RInv, NEW t \in Tunnels
               PROVE  EntriesRowsAndVerdictsAgree!(t)
    BY DEF EntriesRowsAndVerdictsAgree
  <2>1. /\ \A r \in RequestsOf(t) \ {cur[t]} : Past(t, r)
        /\ cur[t] # None => logged[cur[t]] = None
        /\ RequestsOf(t) \subseteq Requests /\ None \notin Requests
    BY PartsAreOfRequests, ConstantsAssumption DEF RInv, RequestInv, Present
  <2>2. status[ConnectRow(t)] # None => \A r \in RequestsOf(t) : status[r] = None
    BY DEF RInv, RequestInv, OwnRow
  <2> QED
    BY <2>1, <2>2 DEF Past, Backed
<1> QED
  BY <1>1, RequestsInvariant, PTL
=============================================================================
