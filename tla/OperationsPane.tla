-------------------------- MODULE OperationsPane --------------------------
(***************************************************************************)
(* The operations pane of the operator UI (internal/tui/reducer.go) and    *)
(* the parts of the runtime (internal/tui/approvals.go) that feed it: the  *)
(* polls of the operations ring and of the pending holds, which land late  *)
(* and in any order, the cursor that has to stay on the operator's row     *)
(* while the list is rebuilt under it, and the approve and deny keys, with *)
(* the calls they start and the answers that come back.                    *)
(*                                                                         *)
(* The daemon is the queue and the ring as the pane sees them: a request's *)
(* row appears, its hold is enqueued and then marked on the row, the hold  *)
(* is resolved and the row later takes its final status.                   *)
(***************************************************************************)
EXTENDS Integers, FiniteSets, Sequences

CONSTANTS Requests,    \* operations of the ring, numbered in the order of StartedAt
          HoldIds,     \* approval holds
          HoldOf,      \* HoldOf[r]: the hold r joins, which retries of one URL share, or None
          GroupOf,     \* GroupOf[r]: method, host and directory of r's URL
          Signaled,    \* requests that are handled with a signal timer
          RingCap,     \* capacity of the operations ring
          PauseTicks,  \* opsPauseTicks
          SnapTicks,   \* idleSnapTicks
          Slots,       \* bound: approve and deny calls in flight
          None

ASSUME ConstantsAssumption ==
    /\ Requests \subseteq Nat /\ Requests \cap HoldIds = {}
    /\ HoldOf \in [Requests -> HoldIds \cup {None}]
    /\ DOMAIN GroupOf = Requests
    /\ Signaled \subseteq Requests
    /\ RingCap \in Nat \ {0} /\ PauseTicks \in Nat /\ SnapTicks \in Nat \ {0}
    /\ IsFiniteSet(Slots)
    /\ None \notin Requests \cup HoldIds \cup Slots

VARIABLES
    phase,    \* where request r is in the daemon
    holds,    \* Queue.pending: holds nobody has resolved
    spent,    \* holds that were resolved
    clock,    \* rows and holds in the order of StartedAt and CreatedAt
    rows,     \* Ring: its rows, the last updated first
    ops,      \* Model.Ops
    held,     \* Model.Holds
    selected, \* Model.Selected counted from 1, 0 if there is no row
    paused,   \* Model.OpsPausedTicks
    idle,     \* Model.LastInputTicks, as far as it matters
    prefer,   \* Model.CursorPreferPending
    late,     \* a poll that was read and has not landed
    calls     \* calls[s]: an approve or deny call of the runtime

daemon == <<phase, holds, spent, clock, rows>>
pane == <<ops, held, selected, paused, idle, prefer>>
runtime == <<late, calls>>
vars == <<daemon, pane, runtime>>

Open == {"pending", "signaled", "checking"}

Statuses == Open \cup {"running"}

Phases == {"none", "checking", "joined", "held", "signaled", "done"}

RowType == [id : Requests \cup {None}, status : Statuses, hold : HoldIds \cup {None}]

Row(id, status, hold) == [id |-> id, status |-> status, hold |-> hold]

Elems(s) == {s[i] : i \in DOMAIN s}

\* The elements of s at the positions in D, in their order.
Nth(D, n) == CHOOSE i \in D : Cardinality({j \in D : j <= i}) = n

Only(s, D) == [n \in 1..Cardinality(D) |-> s[Nth(D, n)]]

Without(s, r) == Only(s, {i \in DOMAIN s : s[i].id # r})

-----------------------------------------------------------------------------
(***************************************************************************)
(* The displayed list.                                                     *)
(***************************************************************************)
\* opIsResolved
Resolved(row) == row.status \notin Open

\* Mutant: open rows are known by their request, as before requests shared holds.
GroupKeyByRequest(row) ==
    IF Resolved(row) THEN <<"group", GroupOf[row.id], row.status>>
    ELSE <<"op", row.id>>

\* GroupKey: what a displayed row is known by from one rebuild to the next.
GroupKey(row) ==
    IF Resolved(row) THEN <<"group", GroupOf[row.id], row.status>>
    ELSE IF row.hold # None THEN <<"hold", row.hold>>
    ELSE <<"op", row.id>>

\* The key by which a row is found again when its group is gone.
RequestKey(row) == IF row.id = None THEN row.hold ELSE row.id

\* Holds that no row of the ring carries become rows of their own.
Synthetic(os, hs) ==
    {Row(None, "pending", h) : h \in {g \in hs : \A row \in Elems(os) : row.hold # g}}

\* Where the rows are that stand for their groups: the first of each, the last
\* updated one.
Representatives(os) ==
    {i \in DOMAIN os : \A j \in 1..(i - 1) : GroupKey(os[j]) # GroupKey(os[i])}

\* The open rows of S, the earliest started first.
ByStart(S) ==
    LET keys == Only(clock, {i \in DOMAIN clock : \E row \in S : RequestKey(row) = clock[i]})
    IN [n \in DOMAIN keys |-> CHOOSE row \in S : RequestKey(row) = keys[n]]

\* DisplayedOps: the resolved groups, then the open rows.
Displayed(os, hs) ==
    LET reps == Representatives(os)
        resolved == {i \in reps : Resolved(os[i])}
    IN Only(os, resolved) \o ByStart({os[i] : i \in reps \ resolved} \cup Synthetic(os, hs))

IsOpen(shown, i) == i \in DOMAIN shown /\ ~Resolved(shown[i])

IsPending(shown, i) == i \in DOMAIN shown /\ shown[i].status = "pending"

\* The last of the displayed rows that is open, 0 if none is.
BottomOpen(shown) == IF IsOpen(shown, Len(shown)) THEN Len(shown) ELSE 0

OnHold(shown, i) == IF i \in DOMAIN shown THEN shown[i].hold ELSE None

-----------------------------------------------------------------------------
(***************************************************************************)
(* The cursor when a tick has rebuilt the list.                            *)
(***************************************************************************)
\* Mutant: the cursor keeps its number.
PreservedByNumber(old, i, new) == i

\* preserveSelection: the row of old that was at i, in the rebuilt list new.  A
\* cursor that was on an open row does not follow it among the resolved ones.
Preserved(old, i, new) ==
    LET wasOpen == IsOpen(old, i)
        accepts(j) == wasOpen => IsOpen(new, j)
        sameGroup == {j \in DOMAIN new : GroupKey(new[j]) = GroupKey(old[i]) /\ accepts(j)}
        sameRequest == {j \in DOMAIN new : RequestKey(new[j]) = RequestKey(old[i]) /\ accepts(j)}
        first(S) == CHOOSE j \in S : \A k \in S : j <= k
    IN IF i \notin DOMAIN old THEN i
       ELSE IF sameGroup # {} THEN first(sameGroup)
       ELSE IF sameRequest # {} THEN first(sameRequest)
       ELSE IF wasOpen THEN BottomOpen(new) ELSE 0

\* Mutant: a cursor past the end starts again at the top.
ClampedToTop(i, shown) ==
    IF shown = <<>> THEN 0 ELSE IF i \in DOMAIN shown THEN i ELSE 1

\* clampSelection
Clamped(i, shown) ==
    IF shown = <<>> THEN 0
    ELSE IF i < 1 THEN 1
    ELSE IF i > Len(shown) THEN Len(shown) ELSE i

\* applyCursorPendingStickiness
Stuck(i, shown, wanted) ==
    IF shown = <<>> \/ IsOpen(shown, i) \/ ~wanted \/ BottomOpen(shown) = 0
    THEN [at |-> i, prefer |-> wanted \/ IsOpen(shown, i)]
    ELSE [at |-> BottomOpen(shown), prefer |-> TRUE]

\* Where applyTick and applyOpsTick leave the cursor when they take a poll.
Rebuilt(os, hs) ==
    LET old == Displayed(ops, held)
        new == Displayed(os, hs)
    IN Stuck(Clamped(Preserved(old, selected, new), new), new,
             prefer \/ IsOpen(old, selected))

\* A paused pane skips the poll.
SkipsTick ==
    /\ paused > 0
    /\ paused' = paused - 1
    /\ UNCHANGED <<ops, held, selected, idle, prefer>>

\* applyTick
HoldsLand(hs) ==
    \/ SkipsTick
    \/ /\ paused = 0
       /\ held' = hs
       /\ LET cursor == Rebuilt(ops, hs)
          IN selected' = cursor.at /\ prefer' = cursor.prefer
       /\ UNCHANGED <<ops, paused, idle>>

\* applyOpsTick: the cursor of an operator who has been idle for SnapTicks moves
\* to the bottom row, if that is pending and the cursor is not on a pending row.
OpsLand(os) ==
    \/ SkipsTick
    \/ /\ paused = 0
       /\ ops' = os
       /\ LET shown == Displayed(os, held)
              cursor == Rebuilt(os, held)
              snaps == /\ idle + 1 >= SnapTicks
                       /\ ~IsPending(shown, cursor.at) /\ IsPending(shown, Len(shown))
          IN /\ selected' = IF snaps THEN Len(shown) ELSE cursor.at
             /\ prefer' = cursor.prefer
             /\ idle' = IF snaps THEN 0 ELSE IF idle + 1 < SnapTicks THEN idle + 1 ELSE idle
       /\ UNCHANGED <<held, paused>>

-----------------------------------------------------------------------------
(***************************************************************************)
(* The daemon.                                                             *)
(***************************************************************************)
\* A poll may have been read before the change a step makes and land after it.
\* Bound: one such poll at a time, overtaken by one change.
Overtakes ==
    /\ late = None
    /\ late' \in {None, [kind |-> "holds", holds |-> holds], [kind |-> "ops", rows |-> rows]}

\* r's row takes a status and becomes the last updated one; an evicted row stays away.
Updated(r, status, hold) ==
    IF \E row \in Elems(rows) : row.id = r
    THEN <<Row(r, status, hold)>> \o Without(rows, r)
    ELSE rows

\* Ring.Begin: a full ring drops the row that was begun first.
Begin(r) ==
    /\ Overtakes
    /\ phase[r] = "none" /\ \A a \in Requests : a < r => phase[a] # "none"
    /\ phase' = [phase EXCEPT ![r] = "checking"]
    /\ clock' = Append(clock, r)
    /\ LET oldest == CHOOSE a \in Elems(rows) : \A b \in Elems(rows) : a.id <= b.id
           kept == IF Len(rows) < RingCap THEN rows ELSE Without(rows, oldest.id)
       IN rows' = <<Row(r, "checking", None)>> \o kept
    /\ UNCHANGED <<holds, spent, pane, calls>>

\* Queue.Enqueue: r joins the hold of its key or opens it.
Enqueue(r) ==
    /\ Overtakes
    /\ phase[r] = "checking" /\ HoldOf[r] \notin spent \cup {None}
    /\ phase' = [phase EXCEPT ![r] = "joined"]
    /\ holds' = holds \cup {HoldOf[r]}
    /\ clock' = IF HoldOf[r] \in holds THEN clock ELSE Append(clock, HoldOf[r])
    /\ UNCHANGED <<spent, rows, pane, calls>>

\* Ring.HoldPending
Mark(r) ==
    /\ Overtakes
    /\ phase[r] = "joined"
    /\ phase' = [phase EXCEPT ![r] = "held"]
    /\ rows' = Updated(r, "pending", HoldOf[r])
    /\ UNCHANGED <<holds, spent, clock, pane, calls>>

\* A timeout, the advisor, another operator or the last client's leaving ends a hold.
Resolve(h) ==
    /\ Overtakes
    /\ h \in holds
    /\ holds' = holds \ {h} /\ spent' = spent \cup {h}
    /\ UNCHANGED <<phase, clock, rows, pane, calls>>

\* The signal timer answers r's client; the hold stays.
Signal(r) ==
    /\ Overtakes
    /\ phase[r] = "held" /\ r \in Signaled /\ HoldOf[r] \in holds
    /\ phase' = [phase EXCEPT ![r] = "signaled"]
    /\ rows' = Updated(r, "signaled", None)
    /\ UNCHANGED <<holds, spent, clock, pane, calls>>

\* Ring.Resolve, with the audit entry.
Finish(r) ==
    /\ Overtakes
    /\ \/ phase[r] = "checking" /\ HoldOf[r] \in spent \cup {None}
       \/ phase[r] = "held" /\ HoldOf[r] \in spent
    /\ phase' = [phase EXCEPT ![r] = "done"]
    /\ rows' = Updated(r, "running", None)
    /\ UNCHANGED <<holds, spent, clock, pane, calls>>

-----------------------------------------------------------------------------
(***************************************************************************)
(* The polls.  tickRefresh and CmdRefresh start a goroutine for each: what *)
(* one read may land after what a later one read.  A poll that fails leaves *)
(* the pane as it is.                                                      *)
(***************************************************************************)
PollHolds ==
    /\ HoldsLand(holds)
    /\ UNCHANGED <<daemon, runtime>>

PollOps ==
    /\ OpsLand(rows)
    /\ UNCHANGED <<daemon, runtime>>

LateLands ==
    /\ late # None
    /\ \/ late.kind = "holds" /\ HoldsLand(late.holds)
       \/ late.kind = "ops" /\ OpsLand(late.rows)
    /\ late' = None
    /\ UNCHANGED <<daemon, calls>>

-----------------------------------------------------------------------------
(***************************************************************************)
(* applyKeyApprovals.  Every key ends the operator's idle time; moving the *)
(* cursor pauses the pane for PauseTicks polls.                            *)
(***************************************************************************)
Shown == Displayed(ops, held)

Moves(to) ==
    /\ selected' = to /\ paused' = PauseTicks /\ idle' = 0
    /\ UNCHANGED <<ops, held, daemon, runtime>>

KeyUp ==
    LET to == IF selected > 1 THEN selected - 1 ELSE selected
    IN /\ Moves(to)
       /\ prefer' = (prefer /\ ~(IsOpen(Shown, selected) /\ ~IsOpen(Shown, to)))

KeyDown ==
    /\ Moves(IF selected < Len(Shown) THEN selected + 1 ELSE selected)
    /\ UNCHANGED prefer

KeyHome == Moves(IF Shown = <<>> THEN selected ELSE 1) /\ UNCHANGED prefer

KeyEnd == Moves(IF Shown = <<>> THEN selected ELSE Len(Shown)) /\ UNCHANGED prefer

\* A digit, or Tab while a bottom panel is open, ends the pause.
KeyPanel ==
    /\ paused' = 0 /\ idle' = 0
    /\ UNCHANGED <<ops, held, selected, prefer, daemon, runtime>>

KeyOther ==
    /\ idle' = 0
    /\ UNCHANGED <<ops, held, selected, paused, prefer, daemon, runtime>>

\* a and d, which treat the pane alike: a pending hold is approved or denied by a
\* call; for any other row a rule for its URL goes to the console worker, which
\* BottomPanel models.
KeyVerdict ==
    /\ idle' = 0
    /\ IF IsPending(Shown, selected)
       THEN \E s \in Slots :
              /\ calls[s] = None
              /\ calls' = [calls EXCEPT ![s] = [hold |-> Shown[selected].hold, done |-> FALSE]]
       ELSE UNCHANGED calls
    /\ UNCHANGED <<ops, held, selected, paused, prefer, daemon, late>>

-----------------------------------------------------------------------------
(***************************************************************************)
(* The calls.                                                              *)
(***************************************************************************)
\* ControlClient.Approve and Deny: the first to reach the queue resolves the hold.
CallRuns(s) ==
    /\ Overtakes
    /\ calls[s] # None /\ ~calls[s].done
    /\ calls[s].hold \in holds
    /\ calls' = [calls EXCEPT ![s].done = TRUE]
    /\ holds' = holds \ {calls[s].hold} /\ spent' = spent \cup {calls[s].hold}
    /\ UNCHANGED <<phase, clock, rows, pane>>

\* The call or its answer is lost, or the hold was gone: the pane is left as it is.
\* For a hold that was gone a rule for its URL goes to the console worker.
CallFails(s) ==
    /\ calls[s] # None
    /\ calls' = [calls EXCEPT ![s] = None]
    /\ UNCHANGED <<daemon, pane, late>>

\* applyActionResult: the hold leaves the pane and the cursor keeps its number.
CallReturns(s) ==
    /\ calls[s] # None /\ calls[s].done
    /\ calls' = [calls EXCEPT ![s] = None]
    /\ held' = held \ {calls[s].hold}
    /\ selected' = Clamped(selected, Displayed(ops, held'))
    /\ UNCHANGED <<daemon, ops, paused, idle, prefer, late>>

-----------------------------------------------------------------------------
Init ==
    /\ phase = [r \in Requests |-> "none"]
    /\ holds = {} /\ spent = {} /\ clock = <<>> /\ rows = <<>>
    /\ ops = <<>> /\ held = {}
    /\ selected = 0 /\ paused = 0 /\ idle = 0 /\ prefer = FALSE
    /\ late = None
    /\ calls = [s \in Slots |-> None]

Ticks == PollHolds \/ PollOps \/ LateLands

Operator ==
    \/ KeyUp \/ KeyDown \/ KeyHome \/ KeyEnd \/ KeyPanel \/ KeyOther
    \/ KeyVerdict

Next ==
    \/ Ticks
    \/ Operator
    \/ \E s \in Slots : CallRuns(s) \/ CallFails(s) \/ CallReturns(s)
    \/ \E r \in Requests : Begin(r) \/ Enqueue(r) \/ Mark(r) \/ Signal(r) \/ Finish(r)
    \/ \E h \in HoldIds : Resolve(h)

Spec == Init /\ [][Next]_vars

-----------------------------------------------------------------------------
TypeOK ==
    /\ phase \in [Requests -> Phases]
    /\ holds \subseteq HoldIds /\ spent \subseteq HoldIds
    /\ clock \in Seq(Requests \cup HoldIds)
    /\ rows \in Seq(RowType) /\ ops \in Seq(RowType)
    /\ held \subseteq HoldIds
    /\ selected \in 0..Len(Shown)
    /\ paused \in 0..PauseTicks /\ idle \in 0..(SnapTicks - 1) /\ prefer \in BOOLEAN
    /\ calls \in [Slots -> {None} \cup
            [hold : HoldIds, done : BOOLEAN]]

\* Every hold the pane knows of has one row, whatever was folded, evicted from the
\* ring or read before the row was marked: the operator can answer it, and only once.
EachHoldHasOneRow ==
    LET shown == Shown IN
    \A h \in held : Cardinality({i \in DOMAIN shown : shown[i].hold = h}) = 1

\* Only Up and Home take the cursor off the open rows while there are any: no
\* poll, however late, no answer and no other key does (#191).
CursorStaysOnOpenRows ==
    [][LET shown == Displayed(ops', held') IN
       IsOpen(Shown, selected) /\ BottomOpen(shown) # 0
       => IsOpen(shown, selected') \/ KeyUp \/ KeyHome]_vars

\* A poll leaves the cursor on the hold it is on as long as that hold is shown,
\* whatever arrives, folds or is evicted around it.
PollsKeepTheHold ==
    [][LET h == OnHold(Shown, selected)
           shown == Displayed(ops', held') IN
       h # None /\ OnHold(shown, selected') # h /\ (\E row \in Elems(shown) : row.hold = h)
       => ~Ticks]_vars
====
