--------------------------- MODULE InterceptTunnel ---------------------------
(***************************************************************************)
(* The intercepted tunnel of a CONNECT (internal/server/intercept.go): TLS *)
(* is terminated, and one goroutine per tunnel reads the inner requests    *)
(* from one buffered reader, decides them, holds them, forwards them and   *)
(* loops.  While a request is held a second goroutine, the watcher, Peeks  *)
(* at the same reader to learn that the client went away.                  *)
(*                                                                         *)
(* A connection carries parts: the head of a request, the piece of its     *)
(* body that the inspection sample takes, the piece that is drained before *)
(* a hold, and what is longer than that.  script[t] is what t's client has *)
(* to say; written, fetched and used count the parts that it wrote, that   *)
(* the reader has taken off the connection and that were read from it.     *)
(* The queue is the contract that ApprovalQueue implements.                *)
(***************************************************************************)
EXTENDS Integers, Sequences, FiniteSets

CONSTANTS Tunnels,
          Requests,    \* the inner requests
          Keys, KeyOf, \* KeyOf[r]: dedup key
          Scripts,     \* what clients may send: for each tunnel its parts in order
          Pipelining,  \* clients that do not wait for the answer
          Closing,     \* requests with Connection: close
          Waits,       \* "blocking" and "signal" (signal_after_seconds > 0)
          Verdicts,    \* decisions that operators, the advisor and timers take
          CapArgs,     \* values of approvals.max_pending, clamped
          RingCap,     \* capacity of the operations ring
          None

Sizes == {"head", "sample", "drained", "rest"}

Part(r, size) == [req |-> r, size |-> size]

Decision(effect, source) == [effect |-> effect, source |-> source]

AllowEffects == {"allow", "ask_user_resolved_allow"}

OperatorVerdicts == {Decision("ask_user_resolved_allow", "approval_queue"),
                     Decision("ask_user_resolved_deny", "approval_queue")}

AdvisorVerdicts == {Decision("allow", "llm_advisor"), Decision("deny", "llm_advisor")}

\* approvals.on_timeout is deny or allow.
TimeoutVerdicts == {Decision("ask_user_timed_out", "approval_timeout"),
                    Decision("ask_user_resolved_allow", "approval_timeout")}

ShutdownVerdict == Decision("ask_user_resolved_deny", "approval_timeout")

Turned == Decision("ask_user_resolved_deny", "approval_queue")

Signaled == Decision("ask_user_signaled", "approval_queue")

Evaluations == {Decision(e, "policy") : e \in {"allow", "deny", "ask_user"}}

Decisions == OperatorVerdicts \cup AdvisorVerdicts \cup Evaluations
             \cup TimeoutVerdicts \cup {ShutdownVerdict, Signaled}

ASSUME ConstantsAssumption ==
    /\ KeyOf \in [Requests -> Keys]
    /\ Scripts \subseteq [Tunnels -> Seq([req : Requests, size : Sizes])]
    /\ Pipelining \subseteq Tunnels
    /\ Waits \subseteq {"blocking", "signal"}
    /\ Verdicts \subseteq OperatorVerdicts \cup AdvisorVerdicts \cup TimeoutVerdicts
    /\ CapArgs \subseteq Nat \ {0} /\ RingCap \in Nat \ {0}
    /\ None \notin Requests /\ None \notin Decisions

\* Rows of the operations ring that are not an inner request's.
ConnectRow(t) == <<"connect", t>>
TlsRow(t) == <<"tls", t>>

Rows == Requests \cup {ConnectRow(t) : t \in Tunnels} \cup {TlsRow(t) : t \in Tunnels}

\* Operation ids are unique.
ASSUME RowsAssumption ==
    \A t \in Tunnels : ConnectRow(t) \notin Requests /\ TlsRow(t) \notin Requests

\* What clients send are requests: one head each, with the parts of its body behind it.
ASSUME ScriptsAssumption ==
    \A s \in Scripts : \A t \in Tunnels : \A n \in 1..Len(s[t]) :
        /\ s[t][n].size = "head" => \A m \in 1..(n - 1) : s[t][m].req # s[t][n].req
        /\ s[t][n].size # "head" => n > 1 /\ s[t][n - 1].req = s[t][n].req
        /\ \A u \in Tunnels \ {t} : \A m \in 1..Len(s[u]) : s[u][m].req # s[t][n].req

VARIABLES
    wait,      \* how held requests wait
    script,    \* script[t]: what t's client has to say
    maxPending, member, verdict, answer, recorded,   \* the queue
    conn,      \* "open", "gone": the client left, "closed": closeTrackedConns
    written, fetched, used,     \* parts of script[t]
    pc,        \* where the tunnel's goroutine is
    cur,       \* the request it is at
    buffered,  \* bodyFullyBuffered
    watch,     \* the watcher: "none", "peeking", "done"
    cancelled, \* the watcher cancelled the request's context
    rebound,   \* connectRebound
    dec,       \* decision about a request
    wire,      \* what its client was told
    logged,    \* its audit entry
    malformed, \* tunnels with an entry about a malformed request
    order, status,              \* the operations ring
    stopping,  \* the server's context has ended
    discarded  \* history: parts that br.Reset threw away

queue == <<maxPending, member, verdict, answer, recorded>>
reader == <<fetched, used, discarded>>
client == <<conn, written>>
watcher == <<watch, cancelled>>
ring == <<order, status>>
tunnel == <<pc, cur, buffered, rebound>>
outcome == <<dec, wire, logged, malformed>>
env == <<wait, script, stopping>>
vars == <<env, queue, client, reader, tunnel, watcher, outcome, ring>>

Queue == INSTANCE HoldContract WITH
    Left <- Turned, Refused <- Turned, cap <- maxPending

-----------------------------------------------------------------------------

Init ==
    /\ wait \in Waits
    /\ script \in Scripts
    /\ stopping = FALSE
    /\ maxPending \in CapArgs /\ recorded = {}
    /\ member = [r \in Requests |-> None]
    /\ verdict = [r \in Requests |-> None]
    /\ answer = [r \in Requests |-> None]
    /\ conn = [t \in Tunnels |-> "open"]
    /\ written = [t \in Tunnels |-> 0]
    /\ fetched = [t \in Tunnels |-> 0]
    /\ used = [t \in Tunnels |-> 0]
    /\ discarded = [t \in Tunnels |-> {}]
    /\ pc = [t \in Tunnels |-> "connect"]
    /\ cur = [t \in Tunnels |-> None]
    /\ buffered = [t \in Tunnels |-> TRUE]
    /\ rebound = [t \in Tunnels |-> FALSE]
    /\ watch = [t \in Tunnels |-> "none"]
    /\ cancelled = [t \in Tunnels |-> FALSE]
    /\ dec = [r \in Requests |-> None]
    /\ wire = [r \in Requests |-> None]
    /\ logged = [r \in Requests |-> None]
    /\ malformed = {}
    /\ order = <<>>
    /\ status = [i \in Rows |-> None]

Set(f, x, v) == [f EXCEPT ![x] = v]

Goto(t, label) == pc' = Set(pc, t, label)

(***************************************************************************)
(* The operations ring: Begin evicts the oldest row; Rebind relabels one   *)
(* where it is; Resolve and HoldPending find a row or do nothing.          *)
(***************************************************************************)
SetRow(i, s) == status' = [status EXCEPT ![i] = IF @ = None THEN None ELSE s]

BeginRow(i, s) ==
    LET evicted == IF Len(order) >= RingCap THEN {Head(order)} ELSE {}
    IN  /\ order' = Append(IF evicted = {} THEN order ELSE Tail(order), i)
        /\ status' = [j \in Rows |-> IF j = i THEN s
                                     ELSE IF j \in evicted THEN None ELSE status[j]]

RebindRow(old, new) ==
    /\ order' = [n \in DOMAIN order |-> IF order[n] = old THEN new ELSE order[n]]
    /\ status' = [status EXCEPT ![old] = None, ![new] = "checking"]

(***************************************************************************)
(* The reader.  A fill takes some of what has arrived; a read that finds   *)
(* the buffer empty fails once the client is gone (what it sent may still  *)
(* be delivered first) or the connection was closed.                       *)
(***************************************************************************)
Empty(t) == used[t] = fetched[t]

Arrived(t) == fetched[t] < written[t] /\ conn[t] # "closed"

Fill(t) ==
    /\ Empty(t) /\ Arrived(t)
    /\ \E n \in (fetched[t] + 1)..written[t] : fetched' = Set(fetched, t, n)

NextPart(t) == script[t][used[t] + 1]

Take(t) ==
    /\ \/ Fill(t)
       \/ ~Empty(t) /\ UNCHANGED fetched
    /\ used' = Set(used, t, used[t] + 1)
    /\ UNCHANGED discarded

Broken(t) == Empty(t) /\ conn[t] # "open"

\* Is a part of r still to be read after n parts?
BodyGoesOn(t, r, n) == n < Len(script[t]) /\ script[t][n + 1].req = r

(***************************************************************************)
(* interceptCONNECT: the handshake and the loop.                           *)
(***************************************************************************)
\* handleConnect has answered 200 and audited the CONNECT.
Connect(t) ==
    /\ pc[t] = "connect"
    /\ BeginRow(ConnectRow(t), "origin")
    /\ Goto(t, "handshake")
    /\ UNCHANGED <<env, queue, client, reader, cur, buffered, rebound, watcher, outcome>>

HandshakeSucceeds(t) ==
    /\ pc[t] = "handshake"
    /\ Goto(t, "read")
    /\ UNCHANGED <<env, queue, client, reader, cur, buffered, rebound, watcher, outcome, ring>>

\* A row and an entry under an id of their own.
HandshakeFails(t) ==
    /\ pc[t] = "handshake"
    /\ BeginRow(TlsRow(t), "tls_failed")
    /\ Goto(t, "closed")
    /\ UNCHANGED <<env, queue, client, reader, cur, buffered, rebound, watcher, outcome>>

ReadRequest(t) ==
    /\ pc[t] = "read"
    /\ Take(t)
    /\ IF NextPart(t).size = "head"
          THEN /\ cur' = Set(cur, t, NextPart(t).req)
               /\ Goto(t, "sample")
               /\ UNCHANGED malformed
          ELSE /\ malformed' = malformed \cup {t}
               /\ Goto(t, "closed")
               /\ UNCHANGED cur
    /\ UNCHANGED <<env, queue, client, buffered, rebound, watcher, dec, wire, logged, ring>>

\* EOF ends the tunnel; any other error is recorded as a malformed request.
ReadFails(t) ==
    /\ pc[t] = "read"
    /\ Broken(t)
    /\ malformed' \in {malformed, malformed \cup {t}}
    /\ Goto(t, "closed")
    /\ UNCHANGED <<env, queue, client, reader, cur, buffered, rebound, watcher,
                   dec, wire, logged, ring>>

(***************************************************************************)
(* dispatchInterceptedRequest, up to the decision.                         *)
(***************************************************************************)
SampleBody(t) ==
    /\ pc[t] = "sample"
    /\ IF BodyGoesOn(t, cur[t], used[t])
          THEN Take(t)
          ELSE UNCHANGED reader
    /\ buffered' = Set(buffered, t, ~BodyGoesOn(t, cur[t], used'[t]))
    /\ Goto(t, "row")
    /\ UNCHANGED <<env, queue, client, cur, rebound, watcher, outcome, ring>>

\* The tunnel ends without an entry for this request.
BodyFails(t) ==
    /\ \/ pc[t] = "sample" /\ BodyGoesOn(t, cur[t], used[t])
       \/ pc[t] = "drain"
    /\ Broken(t)
    /\ Goto(t, "closed")
    /\ UNCHANGED <<env, queue, client, reader, cur, buffered, rebound, watcher, outcome, ring>>

RebindOrBegin(t) ==
    /\ pc[t] = "row"
    /\ IF ~rebound[t] /\ status[ConnectRow(t)] # None
          THEN RebindRow(ConnectRow(t), cur[t]) /\ rebound' = Set(rebound, t, TRUE)
          ELSE BeginRow(cur[t], "checking") /\ UNCHANGED rebound
    /\ Goto(t, "decide")
    /\ UNCHANGED <<env, queue, client, reader, cur, buffered, watcher, outcome>>

\* Lists, rules and open mode (RequestPipeline has the steps).
Evaluate(t) ==
    /\ pc[t] = "decide"
    /\ \E d \in Evaluations :
          /\ dec' = Set(dec, cur[t], d)
          /\ Goto(t, IF d.effect # "ask_user" THEN "resolved"
                     ELSE IF buffered[t] THEN "watch" ELSE "drain")
    /\ UNCHANGED <<env, queue, client, reader, cur, buffered, rebound, watcher,
                   wire, logged, malformed, ring>>

\* drainBodyForHold: a body that does not end within the limit stays on the tunnel.
DrainBody(t) ==
    /\ pc[t] = "drain"
    /\ Take(t)
    /\ buffered' = Set(buffered, t, ~BodyGoesOn(t, cur[t], used[t] + 1))
    /\ Goto(t, "watch")
    /\ UNCHANGED <<env, queue, client, cur, rebound, watcher, outcome, ring>>

(***************************************************************************)
(* holdInterceptedRequest.                                                 *)
(***************************************************************************)
\* Mutant: the watcher is started over a body that is still on the tunnel.
StartWatchAlways(t) ==
    /\ pc[t] = "watch"
    /\ watch' = Set(watch, t, "peeking")
    /\ cancelled' = Set(cancelled, t, FALSE)
    /\ Goto(t, "enqueue")
    /\ UNCHANGED <<env, queue, client, reader, cur, buffered, rebound, outcome, ring>>

StartWatch(t) ==
    /\ pc[t] = "watch"
    /\ watch' = Set(watch, t, IF buffered[t] THEN "peeking" ELSE "none")
    /\ cancelled' = Set(cancelled, t, FALSE)
    /\ Goto(t, "enqueue")
    /\ UNCHANGED <<env, queue, client, reader, cur, buffered, rebound, outcome, ring>>

\* holdAndWait: Enqueue and HoldPending, or the answer of a full queue.
Enqueue(t) ==
    /\ pc[t] = "enqueue"
    /\ \/ /\ Queue!Join(cur[t]) \/ Queue!Open(cur[t])
          /\ SetRow(cur[t], "pending")
          /\ Goto(t, "hold")
          /\ UNCHANGED dec
       \/ /\ Queue!Refuse(cur[t])
          /\ dec' = Set(dec, cur[t], Turned)
          /\ Goto(t, "unwatch")
          /\ UNCHANGED status
    /\ UNCHANGED <<env, client, reader, cur, buffered, rebound, watcher,
                   wire, logged, malformed, order>>

HoldEnds(t, d) ==
    /\ pc[t] = "hold"
    /\ dec' = Set(dec, cur[t], d)
    /\ Goto(t, "unwatch")
    /\ UNCHANGED <<env, client, reader, cur, buffered, rebound, watcher,
                   wire, logged, malformed, ring>>

WaitReturns(t) == HoldEnds(t, verdict[member[cur[t]]]) /\ Queue!Answer(cur[t])

\* The request's context ends with the client, if it is watched, or the server.
WaitIsCancelled(t) ==
    /\ wait = "blocking"
    /\ cancelled[t] \/ stopping
    /\ HoldEnds(t, Turned)
    /\ Queue!Leave(cur[t])

SignalTimerFires(t) ==
    /\ wait = "signal"
    /\ HoldEnds(t, Signaled)
    /\ UNCHANGED queue

\* The wait of a signaled request goes on by itself.
BackgroundWaitReturns(r) ==
    /\ dec[r] = Signaled
    /\ Queue!Answer(r)
    /\ UNCHANGED <<env, client, reader, tunnel, watcher, outcome, ring>>

\* br.Peek(1) returns with something to read.
PeekSucceeds(t) ==
    /\ watch[t] = "peeking"
    /\ pc[t] # "joining" \/ ~Empty(t)
    /\ \/ Fill(t) /\ UNCHANGED <<used, discarded>>
       \/ ~Empty(t) /\ UNCHANGED reader
    /\ watch' = Set(watch, t, "done")
    /\ UNCHANGED <<env, queue, client, cancelled, tunnel, outcome, ring>>

\* Mutant: the error does not cancel the request's context.
PeekFailsQuietly(t) ==
    /\ watch[t] = "peeking"
    /\ Broken(t) \/ (Empty(t) /\ pc[t] = "joining")
    /\ watch' = Set(watch, t, "done")
    /\ UNCHANGED <<env, queue, client, reader, cancelled, tunnel, outcome, ring>>

\* It fails: the client left, the connection was closed, or the deadline.
PeekFails(t) ==
    /\ watch[t] = "peeking"
    /\ Broken(t) \/ (Empty(t) /\ pc[t] = "joining")
    /\ watch' = Set(watch, t, "done")
    /\ cancelled' = Set(cancelled, t, TRUE)
    /\ UNCHANGED <<env, queue, client, reader, tunnel, outcome, ring>>

\* Mutant: a watcher that is still peeking is left behind.
AbandonWatcher(t) ==
    /\ pc[t] = "unwatch"
    /\ Goto(t, "resolved")
    /\ UNCHANGED <<env, queue, client, reader, cur, buffered, rebound, watcher, outcome, ring>>

\* The select on peekDone; its default goes on to interrupt the Peek.
CheckWatcher(t) ==
    /\ pc[t] = "unwatch"
    /\ Goto(t, IF watch[t] = "peeking" THEN "interrupt" ELSE "resolved")
    /\ UNCHANGED <<env, queue, client, reader, cur, buffered, rebound, watcher, outcome, ring>>

SetReadDeadline(t) ==
    /\ pc[t] = "interrupt"
    /\ Goto(t, "joining")
    /\ UNCHANGED <<env, queue, client, reader, cur, buffered, rebound, watcher, outcome, ring>>

\* <-peekDone; br.Reset(tlsConn)
JoinWatcher(t) ==
    /\ pc[t] = "joining"
    /\ watch[t] = "done"
    /\ discarded' = [discarded EXCEPT ![t] = @ \cup {script[t][n] : n \in (used[t] + 1)..fetched[t]}]
    /\ used' = Set(used, t, fetched[t])
    /\ Goto(t, "resolved")
    /\ UNCHANGED <<env, queue, client, fetched, cur, buffered, rebound, watcher, outcome, ring>>

(***************************************************************************)
(* From the decision to the client.  After the entry is written the tunnel *)
(* goes on with the next request, unless writing to or reading from one of *)
(* the peers failed or the request asked to close.                         *)
(***************************************************************************)
Answer(t, w) == wire' = Set(wire, cur[t], w)

Refuse(t) ==
    /\ pc[t] = "resolved"
    /\ dec[cur[t]].effect \notin AllowEffects
    /\ IF dec[cur[t]] = Signaled
          THEN Answer(t, "471") /\ UNCHANGED status
          ELSE Answer(t, "470") /\ SetRow(cur[t], "running")
    /\ Goto(t, "audit")
    /\ UNCHANGED <<env, queue, client, reader, cur, buffered, rebound, watcher,
                   dec, logged, malformed, order>>

Forward(t) ==
    /\ pc[t] = "resolved"
    /\ dec[cur[t]].effect \in AllowEffects
    /\ SetRow(cur[t], "running")
    /\ Goto(t, "dial")
    /\ UNCHANGED <<env, queue, client, reader, cur, buffered, rebound, watcher, outcome, order>>

DialOrigin(t) ==
    /\ pc[t] = "dial"
    /\ \/ Goto(t, "send") /\ UNCHANGED wire
       \/ Goto(t, "audit") /\ Answer(t, "502")
    /\ UNCHANGED <<env, queue, client, reader, cur, buffered, rebound, watcher,
                   dec, logged, malformed, ring>>

SendBody(t) ==
    /\ pc[t] = "send"
    /\ BodyGoesOn(t, cur[t], used[t])
    /\ Take(t)
    /\ UNCHANGED <<env, queue, client, tunnel, watcher, outcome, ring>>

RelayResponse(t) ==
    /\ pc[t] = "send"
    /\ ~BodyGoesOn(t, cur[t], used[t])
    /\ Answer(t, "origin")
    /\ Goto(t, "audit")
    /\ UNCHANGED <<env, queue, client, reader, cur, buffered, rebound, watcher,
                   dec, logged, malformed, ring>>

\* The request cannot be sent on, or no response be had; the response cannot be
\* handed back.
ExchangeFails(t) ==
    /\ pc[t] = "send"
    /\ \/ Goto(t, "exchange failed")
       \/ Goto(t, "client lost") /\ ~BodyGoesOn(t, cur[t], used[t])
    /\ UNCHANGED <<env, queue, client, reader, cur, buffered, rebound, watcher, outcome, ring>>

\* The status that the entry records.
EntryStatus(t) ==
    CASE pc[t] = "audit" -> wire[cur[t]]
      [] pc[t] = "exchange failed" -> "502"
      [] pc[t] = "client lost" -> "origin"

Entry(t) == [decision |-> dec[cur[t]], status |-> EntryStatus(t)]

FinalStatus(w) ==
    CASE w = "470" -> "denied"
      [] w = "471" -> "signaled"
      [] OTHER -> w

AfterAudit(t) ==
    /\ SetRow(cur[t], FinalStatus(EntryStatus(t)))
    /\ Goto(t, IF pc[t] = "audit" /\ cur[t] \notin Closing THEN "read" ELSE "closed")
    /\ cur' = Set(cur, t, None)
    /\ UNCHANGED <<env, queue, client, reader, buffered, rebound, watcher,
                   dec, wire, malformed, order>>

\* Mutant: only what reached the origin is recorded.
WriteAuditOfExchanges(t) ==
    /\ pc[t] \in {"audit", "exchange failed", "client lost"}
    /\ logged' = IF EntryStatus(t) = "origin" THEN Set(logged, cur[t], Entry(t)) ELSE logged
    /\ AfterAudit(t)

WriteAudit(t) ==
    /\ pc[t] \in {"audit", "exchange failed", "client lost"}
    /\ logged' = Set(logged, cur[t], Entry(t))
    /\ AfterAudit(t)

(***************************************************************************)
(* Clients, resolvers and shutdown.                                        *)
(***************************************************************************)
\* A client that does not pipeline sends a head when what it sent is answered.
ClientWrites(t) ==
    /\ conn[t] = "open"
    /\ written[t] < Len(script[t])
    /\ LET next == script[t][written[t] + 1]
       IN  \/ t \in Pipelining
           \/ next.size # "head"
           \/ \A n \in 1..written[t] : wire[script[t][n].req] # None
    /\ written' = Set(written, t, written[t] + 1)
    /\ UNCHANGED <<env, queue, conn, reader, tunnel, watcher, outcome, ring>>

ClientLeaves(t) ==
    /\ conn[t] = "open"
    /\ conn' = Set(conn, t, "gone")
    /\ UNCHANGED <<env, queue, written, reader, tunnel, watcher, outcome, ring>>

DecideHold(h, d) ==
    /\ Queue!Decide({h}, d)
    /\ UNCHANGED <<env, client, reader, tunnel, watcher, outcome, ring>>

Persist(h) ==
    /\ Queue!Record(h)
    /\ UNCHANGED <<env, client, reader, tunnel, watcher, outcome, ring>>

\* shutdownOnContext: the context ends, the queue is swept, tunnels are closed.
CancelContext ==
    /\ ~stopping
    /\ stopping' = TRUE
    /\ UNCHANGED <<wait, script, queue, client, reader, tunnel, watcher, outcome, ring>>

SweepQueue ==
    /\ stopping
    /\ Queue!Pending # {}
    /\ Queue!Decide(Queue!Pending, ShutdownVerdict)
    /\ UNCHANGED <<env, client, reader, tunnel, watcher, outcome, ring>>

CloseTrackedConns ==
    /\ stopping
    /\ conn' = [t \in Tunnels |-> "closed"]
    /\ UNCHANGED <<env, queue, written, reader, tunnel, watcher, outcome, ring>>

-----------------------------------------------------------------------------

TunnelStep(t) ==
    \/ Connect(t) \/ HandshakeSucceeds(t) \/ HandshakeFails(t)
    \/ ReadRequest(t) \/ ReadFails(t) \/ SampleBody(t) \/ BodyFails(t)
    \/ RebindOrBegin(t) \/ Evaluate(t) \/ DrainBody(t)
    \/ StartWatch(t) \/ Enqueue(t)
    \/ WaitReturns(t) \/ WaitIsCancelled(t) \/ SignalTimerFires(t)
    \/ CheckWatcher(t) \/ SetReadDeadline(t) \/ JoinWatcher(t)
    \/ Refuse(t) \/ Forward(t) \/ DialOrigin(t) \/ SendBody(t)
    \/ RelayResponse(t) \/ ExchangeFails(t) \/ WriteAudit(t)

Environment ==
    \/ \E t \in Tunnels : ClientWrites(t) \/ ClientLeaves(t)
    \/ \E h \in Requests, d \in Verdicts : DecideHold(h, d)
    \/ \E h \in Requests : Persist(h)
    \/ CancelContext \/ SweepQueue \/ CloseTrackedConns

Next ==
    \/ \E t \in Tunnels : TunnelStep(t) \/ PeekSucceeds(t) \/ PeekFails(t)
    \/ \E r \in Requests : BackgroundWaitReturns(r)
    \/ Environment

Spec == Init /\ [][Next]_vars

(***************************************************************************)
(* Fairness: both goroutines of a tunnel run.  No hold need be decided.    *)
(***************************************************************************)
Fairness ==
    \A t \in Tunnels :
        /\ WF_vars(PeekSucceeds(t) \/ PeekFails(t))
        /\ WF_vars(WaitReturns(t) \/ WaitIsCancelled(t) \/ SignalTimerFires(t))

FairSpec == Spec /\ Fairness

-----------------------------------------------------------------------------
(***************************************************************************)
(* The type invariant.                                                     *)
(***************************************************************************)
Labels == {"connect", "handshake", "read", "sample", "row", "decide", "drain", "watch",
           "enqueue", "hold", "unwatch", "interrupt", "joining", "resolved", "dial",
           "send", "audit", "exchange failed", "client lost", "closed"}

Wires == {"470", "471", "502", "origin"}

Entries == [decision : Decisions, status : Wires]

\* None is none of the values that it stands beside.
ASSUME NoneAssumption == None \notin Wires \cup Entries

TypeOK ==
    /\ wait \in Waits /\ script \in Scripts /\ stopping \in BOOLEAN
    /\ maxPending \in CapArgs /\ recorded \subseteq Requests
    /\ member \in [Requests -> Requests \cup {None}]
    /\ verdict \in [Requests -> Decisions \cup {None}]
    /\ answer \in [Requests -> Decisions \cup {None}]
    /\ conn \in [Tunnels -> {"open", "gone", "closed"}]
    /\ \A t \in Tunnels : /\ written[t] \in 0..Len(script[t])
                          /\ fetched[t] \in 0..written[t]
                          /\ used[t] \in 0..fetched[t]
                          /\ discarded[t] \subseteq {script[t][n] : n \in 1..used[t]}
    /\ pc \in [Tunnels -> Labels]
    /\ cur \in [Tunnels -> Requests \cup {None}]
    /\ buffered \in [Tunnels -> BOOLEAN] /\ rebound \in [Tunnels -> BOOLEAN]
    /\ watch \in [Tunnels -> {"none", "peeking", "done"}]
    /\ cancelled \in [Tunnels -> BOOLEAN]
    /\ dec \in [Requests -> Decisions \cup {None}]
    /\ wire \in [Requests -> Wires \cup {None}]
    /\ logged \in [Requests -> Entries \cup {None}]
    /\ malformed \subseteq Tunnels
    /\ order \in Seq(Rows) /\ Len(order) <= RingCap
    /\ status \in [Rows -> Wires \cup {"checking", "pending", "running", "denied",
                                       "signaled", "tls_failed", None}]

(***************************************************************************)
(* #211, #213: the reader has two users only while a request is held whose *)
(* body is off the tunnel; the watcher is joined before anything else is   *)
(* read, so it never takes a byte that the tunnel's goroutine is reading.  *)
(***************************************************************************)
WatcherHasReaderAlone ==
    \A t \in Tunnels :
        watch[t] = "peeking" =>
            /\ pc[t] \in {"enqueue", "hold", "unwatch", "interrupt", "joining"}
            /\ ~BodyGoesOn(t, cur[t], used[t])

(***************************************************************************)
(* TestIntercept_KeepAliveSurvivesHeldRequest: resetting the reader after  *)
(* a hold loses nothing of what a client sends that waits for its answers. *)
(***************************************************************************)
PatientClientsLoseNothing == \A t \in Tunnels \ Pipelining : discarded[t] = {}

(***************************************************************************)
(* What became of an inner request is told alike everywhere, whichever     *)
(* return ended it: the entry has the decision and the answer; the row, if *)
(* it was not evicted, shows that outcome (and the tunnel's own row is     *)
(* never shown next to those of its requests, #75); and a request that was *)
(* held has reached the origin only if its hold was allowed, not because   *)
(* the watcher or the signal timer ended the wait while somebody decided.  *)
(***************************************************************************)
RequestsOf(t) == {script[t][n].req : n \in 1..Len(script[t])}

EntriesRowsAndVerdictsAgree ==
    \A t \in Tunnels :
        /\ status[ConnectRow(t)] # None => \A r \in RequestsOf(t) : status[r] = None
        /\ \A r \in RequestsOf(t) \ {cur[t]} :
              wire[r] # None => logged[r] # None /\ logged[r].status = wire[r]
        /\ \A r \in RequestsOf(t) :
              logged[r] # None =>
                  /\ r = cur[t] \/ logged[r].decision = dec[r]
                  /\ status[r] \in {None, FinalStatus(logged[r].status)}
                  /\ logged[r].status = "origin" /\ member[r] # None =>
                        /\ verdict[member[r]] # None
                        /\ verdict[member[r]].effect \in AllowEffects

(***************************************************************************)
(* #211: a client that leaves a watched hold does not pin it until the     *)
(* timeout: the tunnel moves on though nobody ever decides.  Only if it    *)
(* sent nothing after the held request: Peek returns such a part at once,  *)
(* and after that nobody watches.                                          *)
(***************************************************************************)
DisconnectEndsHold ==
    \A t \in Tunnels :
        pc[t] = "hold" /\ watch[t] = "peeking" /\ conn[t] = "gone"
           /\ used[t] = written[t]
            ~> pc[t] # "hold"
====
