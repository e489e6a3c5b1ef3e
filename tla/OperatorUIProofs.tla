-------------------------- MODULE OperatorUIProofs --------------------------
(***************************************************************************)
(* Proofs about the two halves of the operator UI (internal/tui): the      *)
(* operations pane, for any requests, holds, ring and calls, and the       *)
(* bottom panel, for queues of any capacity and any number of re-reads.    *)
(***************************************************************************)
EXTENDS OperationsPane, BottomPanel, FiniteSetTheorems, SequenceTheorems, TLAPS

-----------------------------------------------------------------------------
(***************************************************************************)
(* The bottom panel.  A way back is open only while the panel is, and only *)
(* for an operator who has chosen nothing since; lists that are shown and  *)
(* are not the file's are owed a re-read, or are being re-read.            *)
(***************************************************************************)
WayBack ==
    /\ focus = "console" \/ card \/ return => open
    /\ return => ~picked

Owed == results # <<>> \/ (worker # Nothing /\ worker.done)

Reading == \E l \in Loads : load[l] # Nothing

ListsFollow ==
    loop # "quit" /\ open /\ panel = "urls" /\ ~excused =>
        \/ Owed
        \/ /\ \A l \in Loads : load[l] \in {Nothing, Unread, file}
           /\ shown = file \/ Reading

PanelInv == PanelTypeOK /\ WayBack /\ ListsFollow

LEMMA InitPanelInv == PanelInit => PanelInv
<1> SUFFICES ASSUME PanelInit PROVE PanelInv
  OBVIOUS
<1>1. /\ keys = 0 /\ results = <<>> /\ queue = <<>> /\ shown = 0 /\ file = 0
      /\ load = [l \in Loads |-> Nothing]
  BY DEF PanelInit
<1>2. keys \in 0..EventCap /\ shown \in 0..MaxVersion /\ file \in 0..MaxVersion
  BY <1>1, PanelAssumption
<1>3. /\ results \in Seq(Kinds) /\ queue \in Seq(Kinds)
      /\ Backlog <= EventCap /\ Len(queue) <= QueueCap
  BY <1>1, PanelAssumption, EmptySeq DEF Backlog
<1>4. load \in [Loads -> {Nothing, Unread} \cup 0..MaxVersion]
  BY <1>1
<1>5. PanelTypeOK
  BY <1>2, <1>3, <1>4 DEF PanelInit, PanelTypeOK, Panels
<1> QED
  BY <1>5 DEF PanelInit, PanelInv, WayBack, ListsFollow

\* CmdConsoleExec: at most the queue or the loop's state is changed.
LEMMA EmitQueues ==
    ASSUME PanelTypeOK, loop = "runs", NEW k \in Kinds, Emit(k)
    PROVE  /\ results' = results /\ loop' \in {"runs", "sending"}
           /\ queue' \in Seq(Kinds) /\ Len(queue') <= QueueCap
<1>1. CASE queue' = Append(queue, k) /\ Len(queue) < QueueCap /\ UNCHANGED <<results, loop>>
  BY <1>1, PanelAssumption, AppendProperties DEF PanelTypeOK
<1>2. CASE loop' = "sending" /\ UNCHANGED <<results, queue>>
  BY <1>2 DEF PanelTypeOK
<1> QED
  BY <1>1, <1>2 DEF Emit

\* What a key does beside the panes.
KeyEffect ==
    /\ loop = "runs" /\ keys > 0 /\ keys' = keys - 1
    /\ results' = results /\ UNCHANGED <<lists, worker>>
    /\ queue' \in Seq(Kinds) /\ Len(queue') <= QueueCap
    /\ loop' \in {"runs", "sending", "quit"}

\* The lists come up only with a re-read.
Uncovers ==
    \/ Refresh
    \/ UNCHANGED <<load, excused>> /\ (open' /\ panel' = "urls" => open /\ panel = "urls")

PanesTyped ==
    /\ open \in BOOLEAN /\ card \in BOOLEAN /\ undo \in BOOLEAN /\ return \in BOOLEAN
    /\ picked \in BOOLEAN
    /\ panel \in Panels /\ focus \in {"approvals", "console"} /\ input \in Kinds \cup {"empty"}

LEMMA KeysHaveEffect ==
    ASSUME PanelTypeOK, Keys
    PROVE  KeyEffect
<1> USE DEF Take
<1>1. loop = "runs" /\ keys > 0 /\ keys' = keys - 1
  BY DEF Keys, KeyCtrlC, KeyEsc, KeyTab, KeyCard, KeyDigit, KeyMove, KeyRemove, KeyUndo, KeyAdd,
         KeyEdit, KeyGeneralize, KeyLetter, KeyEnter, KeyLeaveLLM, KeyRule, KeyQuit, Other
<1>2. UNCHANGED <<lists, worker>>
  BY DEF Keys, KeyCtrlC, KeyEsc, KeyTab, KeyCard, KeyDigit, KeyMove, KeyRemove, KeyUndo, KeyAdd,
         KeyEdit, KeyGeneralize, KeyLetter, KeyEnter, KeyLeaveLLM, KeyRule, KeyQuit, Other, Quit
<1>3. \/ NoCommand
      \/ \E k \in Kinds : Emit(k)
      \/ loop' = "quit" /\ UNCHANGED <<results, queue>>
  <2>1. "write" \in Kinds
    BY DEF Kinds
  <2>2. CASE KeyEnter
    BY <2>2 DEF KeyEnter, PanelTypeOK
  <2>3. CASE ~KeyEnter
    BY <2>1, <2>3
       DEF Keys, KeyCtrlC, KeyEsc, KeyTab, KeyCard, KeyDigit, KeyMove, KeyRemove, KeyUndo, KeyAdd,
           KeyEdit, KeyGeneralize, KeyLetter, KeyLeaveLLM, KeyRule, KeyQuit, Other, Quit
  <2> QED
    BY <2>2, <2>3
<1>4. CASE NoCommand
  BY <1>1, <1>2, <1>4 DEF NoCommand, KeyEffect, PanelTypeOK
<1>5. ASSUME NEW k \in Kinds, Emit(k) PROVE KeyEffect
  BY <1>1, <1>2, <1>5, EmitQueues DEF KeyEffect
<1>6. CASE loop' = "quit" /\ UNCHANGED <<results, queue>>
  BY <1>1, <1>2, <1>6 DEF KeyEffect, PanelTypeOK
<1> QED
  BY <1>3, <1>4, <1>5, <1>6

LEMMA KeysUncover ==
    ASSUME Keys
    PROVE  Uncovers
<1> USE DEF Uncovers, history, panes
<1>1. CASE KeyDigit
  BY <1>1 DEF KeyDigit, Closed
<1>2. CASE KeyAdd \/ KeyEdit
  BY <1>2 DEF KeyAdd, KeyEdit, TypesALine
<1>3. CASE KeyEsc \/ KeyTab \/ KeyCard \/ KeyEnter
  BY <1>3 DEF KeyEsc, KeyTab, KeyCard, KeyEnter, Closed
<1>4. CASE KeyCtrlC \/ KeyQuit \/ KeyMove \/ KeyRemove \/ KeyUndo
  BY <1>4 DEF KeyCtrlC, KeyQuit, KeyMove, KeyRemove, KeyUndo, Quit
<1>5. CASE KeyGeneralize \/ KeyLetter \/ KeyLeaveLLM \/ KeyRule \/ Other
  BY <1>5 DEF KeyGeneralize, KeyLetter, KeyLeaveLLM, KeyRule, Other
<1> QED
  BY <1>1, <1>2, <1>3, <1>4, <1>5 DEF Keys

LEMMA KeysKeepPanes ==
    ASSUME PanesTyped, WayBack, Keys
    PROVE  PanesTyped' /\ WayBack'
<1> USE DEF PanesTyped, WayBack, history, panes
<1>1. CASE KeyDigit
  BY <1>1 DEF KeyDigit, Closed, Picks, Panels
<1>2. CASE KeyAdd \/ KeyEdit
  BY <1>2 DEF KeyAdd, KeyEdit, InUrls, TypesALine, Panels, Kinds
<1>3. CASE KeyEsc
  BY <1>3 DEF KeyEsc, Closed
<1>4. CASE KeyTab
  BY <1>4 DEF KeyTab
<1>5. CASE KeyCard
  <2>1. open /\ UNCHANGED <<open, panel, focus, input, undo>>
    BY <1>5 DEF KeyCard
  <2>2. CASE card' = FALSE /\ return' = TRUE /\ picked' = FALSE
    BY <2>1, <2>2
  <2>3. CASE card' = FALSE /\ UNCHANGED <<return, picked>>
    BY <2>1, <2>3
  <2>4. CASE UNCHANGED <<card, return, picked>>
    BY <2>1, <2>4
  <2> QED
    BY <1>5, <2>2, <2>3, <2>4 DEF KeyCard
<1>6. CASE KeyEnter \/ KeyLetter \/ KeyLeaveLLM
  BY <1>6 DEF KeyEnter, KeyLetter, KeyLeaveLLM
<1>7. CASE KeyRemove
  BY <1>7 DEF KeyRemove
<1>8. CASE KeyUndo
  BY <1>8 DEF KeyUndo
<1>9. CASE KeyGeneralize
  BY <1>9 DEF KeyGeneralize, InUrls
<1>10. CASE KeyCtrlC \/ KeyQuit \/ KeyMove \/ KeyRule \/ Other
  BY <1>10 DEF KeyCtrlC, KeyQuit, KeyMove, KeyRule, Other, Quit
<1> QED
  BY <1>1, <1>2, <1>3, <1>4, <1>5, <1>6, <1>7, <1>8, <1>9, <1>10 DEF Keys


\* A refresh starts one re-read; unless it is excused, no other is under way.
LEMMA RefreshStarts ==
    ASSUME PanelTypeOK, Refresh
    PROVE  /\ load' \in [Loads -> {Nothing, Unread} \cup 0..MaxVersion]
           /\ excused' \in BOOLEAN
           /\ ~excused' => /\ \A l \in Loads : load'[l] \in {Nothing, Unread}
                           /\ Reading'
<1>1. PICK l \in Loads : /\ load[l] = Nothing
                         /\ load' = [load EXCEPT ![l] = Unread]
                         /\ excused' = \E other \in Loads : load[other] # Nothing
  BY DEF Refresh
<1>2. load \in [Loads -> {Nothing, Unread} \cup 0..MaxVersion]
  BY DEF PanelTypeOK
<1>3. excused' \in BOOLEAN
  BY <1>1
<1>4. \A m \in Loads : load'[m] = IF m = l THEN Unread ELSE load[m]
  BY <1>1, <1>2
<1>5. Unread # Nothing
  BY PanelAssumption DEF Unread
<1>6. ~excused' => \A m \in Loads : load[m] = Nothing
  BY <1>1
<1> QED
  BY <1>1, <1>2, <1>3, <1>4, <1>5, <1>6 DEF Reading

LEMMA PanelTypesKept ==
    ASSUME PanelTypeOK, WayBack, [PanelNext]_panelVars
    PROVE  PanelTypeOK' /\ WayBack'
<1>0. PanesTyped
  BY DEF PanelTypeOK, PanesTyped
<1>1. CASE Keys
  <2>1. KeyEffect /\ Uncovers /\ PanesTyped' /\ WayBack'
    BY <1>0, <1>1, KeysHaveEffect, KeysUncover, KeysKeepPanes
  <2>2. /\ load' \in [Loads -> {Nothing, Unread} \cup 0..MaxVersion]
        /\ excused' \in BOOLEAN
    BY <2>1, RefreshStarts DEF Uncovers, PanelTypeOK
  <2>3. keys' \in 0..EventCap /\ Backlog' <= EventCap
    BY <2>1, PanelAssumption, LenProperties DEF KeyEffect, PanelTypeOK, Backlog
  <2> QED
    BY <2>1, <2>2, <2>3 DEF KeyEffect, PanesTyped, PanelTypeOK, lists
<1>2. CASE Arrive
  <2>1. keys' \in 0..EventCap /\ Backlog' <= EventCap
    BY <1>2, PanelAssumption, LenProperties DEF Arrive, PanelTypeOK, Backlog
  <2> QED
    BY <1>2, <2>1 DEF Arrive, PanelTypeOK, WayBack, panes, lists, history
<1>3. CASE SendBusy
  <2>1. results' \in Seq(Kinds) /\ Len(results') = Len(results) + 1
    BY <1>3, AppendProperties DEF SendBusy, PanelTypeOK, Kinds
  <2>2. Backlog' <= EventCap
    BY <1>3, <2>1, PanelAssumption, LenProperties DEF SendBusy, PanelTypeOK, Backlog
  <2> QED
    BY <1>3, <2>1, <2>2 DEF SendBusy, PanelTypeOK, WayBack, panes, lists, history
<1>4. CASE ResultLands
  <2>1. results' \in Seq(Kinds) /\ Len(results') = Len(results) - 1
    BY <1>4, HeadTailProperties DEF ResultLands, PanelTypeOK
  <2>2. Backlog' <= EventCap
    BY <1>4, <2>1, PanelAssumption, LenProperties DEF ResultLands, PanelTypeOK, Backlog
  <2>3. /\ panel' \in Panels /\ return' \in BOOLEAN /\ loop' \in {"runs", "sending", "quit"}
        /\ return' => return
        /\ Refresh \/ UNCHANGED <<load, excused>>
    BY <1>0, <1>4 DEF ResultLands, Settled, PanesTyped, Panels
  <2>4. /\ load' \in [Loads -> {Nothing, Unread} \cup 0..MaxVersion]
        /\ excused' \in BOOLEAN
    BY <2>3, RefreshStarts DEF PanelTypeOK
  <2>5. UNCHANGED <<open, focus, input, card, undo, lists, keys, queue, worker, picked>>
    BY <1>4 DEF ResultLands
  <2>6. PanelTypeOK'
    BY <2>1, <2>2, <2>3, <2>4, <2>5 DEF PanelTypeOK, lists
  <2> QED
    BY <2>3, <2>5, <2>6 DEF WayBack
<1>5. CASE WorkerTakes
  <2>1. /\ Head(queue) \in Kinds /\ Tail(queue) \in Seq(Kinds)
        /\ Len(Tail(queue)) = Len(queue) - 1
    BY <1>5, HeadTailProperties DEF WorkerTakes, PanelTypeOK
  <2>2. queue' \in Seq(Kinds) /\ Len(queue') <= QueueCap
    BY <1>5, <2>1, PanelAssumption, LenProperties DEF WorkerTakes, PanelTypeOK
  <2>3. worker' \in [kind : Kinds, done : BOOLEAN]
    BY <1>5, <2>1 DEF WorkerTakes
  <2> QED
    BY <1>5, <2>2, <2>3 DEF WorkerTakes, PanelTypeOK, WayBack, panes, lists, history, Backlog
<1>6. CASE WorkerRuns
  <2>1. worker' \in [kind : Kinds, done : BOOLEAN]
    BY <1>6 DEF WorkerRuns, PanelTypeOK
  <2>2. file' \in 0..MaxVersion
    BY <1>6, PanelAssumption DEF WorkerRuns, PanelTypeOK
  <2> QED
    BY <1>6, <2>1, <2>2 DEF WorkerRuns, PanelTypeOK, WayBack, panes, history, Backlog
<1>7. CASE WorkerAnswers
  <2>1. results' \in Seq(Kinds) /\ Len(results') = Len(results) + 1
    BY <1>7, AppendProperties DEF WorkerAnswers, PanelTypeOK
  <2>2. Backlog' <= EventCap
    BY <1>7, <2>1, PanelAssumption, LenProperties DEF WorkerAnswers, PanelTypeOK, Backlog
  <2> QED
    BY <1>7, <2>1, <2>2 DEF WorkerAnswers, PanelTypeOK, WayBack, panes, lists, history
<1>8. ASSUME NEW l \in Loads, LoadReads(l) \/ LoadFails(l) \/ LoadLands(l)
      PROVE  PanelTypeOK' /\ WayBack'
  <2>1. /\ load' \in [Loads -> {Nothing, Unread} \cup 0..MaxVersion]
        /\ shown' \in 0..MaxVersion /\ excused' \in BOOLEAN
    <3>1. CASE LoadReads(l)
      BY <3>1 DEF LoadReads, PanelTypeOK, lists, history
    <3>2. CASE LoadFails(l)
      BY <3>2 DEF LoadFails, PanelTypeOK, lists
    <3>3. CASE LoadLands(l)
      BY <3>3 DEF LoadLands, PanelTypeOK, history
    <3> QED
      BY <1>8, <3>1, <3>2, <3>3
  <2>2. UNCHANGED <<panes, file, keys, results, queue, worker, loop, picked>>
    BY <1>8 DEF LoadReads, LoadFails, LoadLands, lists, history
  <2> QED
    BY <2>1, <2>2 DEF PanelTypeOK, WayBack, panes, Backlog
<1>9. CASE ForeignWrite
  <2>1. file' \in 0..MaxVersion
    BY <1>9, PanelAssumption DEF ForeignWrite, PanelTypeOK
  <2> QED
    BY <1>9, <2>1 DEF ForeignWrite, PanelTypeOK, WayBack, panes, channels, Backlog
<1>10. CASE UNCHANGED panelVars
  BY <1>10 DEF panelVars, panes, lists, channels, history, PanelTypeOK, WayBack, Backlog
<1> QED
  BY <1>1, <1>2, <1>3, <1>4, <1>5, <1>6, <1>7, <1>8, <1>9, <1>10 DEF PanelNext


LEMMA ListsFollowKept ==
    ASSUME PanelInv, [PanelNext]_panelVars
    PROVE  ListsFollow'
<1> SUFFICES ASSUME loop' # "quit", open', panel' = "urls", ~excused'
             PROVE  \/ Owed'
                    \/ /\ \A l \in Loads : load'[l] \in {Nothing, Unread, file'}
                       /\ shown' = file' \/ Reading'
  BY DEF ListsFollow
<1> DEFINE Current == \/ Owed
                      \/ /\ \A l \in Loads : load[l] \in {Nothing, Unread, file}
                         /\ shown = file \/ Reading
<1>0. PanelTypeOK /\ WayBack /\ ListsFollow
  BY DEF PanelInv
<1>a. loop # "quit" /\ open /\ panel = "urls" /\ ~excused => Current
  BY <1>0 DEF ListsFollow
<1>b. Refresh => /\ \A l \in Loads : load'[l] \in {Nothing, Unread}
                 /\ Reading'
  BY <1>0, RefreshStarts
<1> HIDE DEF Current
<1>1. CASE Keys
  <2>1. KeyEffect /\ Uncovers
    BY <1>0, <1>1, KeysHaveEffect, KeysUncover
  <2>2. CASE Refresh
    BY <1>b, <2>2
  <2>3. CASE ~Refresh
    <3>1. Current /\ UNCHANGED <<results, worker, load, shown, file>>
      BY <1>a, <2>1, <2>3 DEF KeyEffect, Uncovers, lists
    <3> QED
      BY <3>1 DEF Current, Owed, Reading
  <2> QED
    BY <2>2, <2>3
<1>2. CASE Arrive \/ WorkerTakes \/ UNCHANGED panelVars
  <2>1. UNCHANGED <<open, panel, excused, results, load, shown, file>> /\ loop # "quit"
    BY <1>2 DEF Arrive, WorkerTakes, panelVars, panes, lists, channels, history
  <2>2. (worker # Nothing /\ worker.done) => UNCHANGED worker
    BY <1>2 DEF Arrive, WorkerTakes, panelVars, channels
  <2> QED
    BY <1>a, <2>1, <2>2 DEF Current, Owed, Reading
<1>3. CASE SendBusy \/ WorkerAnswers
  <2>1. results' # <<>>
    BY <1>0, <1>3, AppendProperties DEF SendBusy, WorkerAnswers, PanelTypeOK, Kinds
  <2> QED
    BY <2>1 DEF Owed
<1>4. CASE ResultLands
  <2>1. Refresh
    BY <1>4 DEF ResultLands, Settled
  <2> QED
    BY <1>b, <2>1
<1>5. CASE WorkerRuns
  <2>1. worker' # Nothing /\ worker'.done
    <3>1. worker \in [kind : Kinds, done : BOOLEAN]
      BY <1>0, <1>5 DEF WorkerRuns, PanelTypeOK
    <3>2. worker' = [worker EXCEPT !.done = TRUE]
      BY <1>5 DEF WorkerRuns
    <3>3. worker' \in [kind : Kinds, done : BOOLEAN] /\ worker'.done
      BY <3>1, <3>2
    <3> QED
      BY <3>3, PanelAssumption
  <2> QED
    BY <2>1 DEF Owed
<1>6. ASSUME NEW l \in Loads, LoadReads(l)
      PROVE  \/ Owed'
             \/ /\ \A m \in Loads : load'[m] \in {Nothing, Unread, file'}
                /\ shown' = file' \/ Reading'
  <2>1. /\ load[l] = Unread /\ load' = [load EXCEPT ![l] = file]
        /\ Current /\ UNCHANGED <<results, worker, shown, file>>
    BY <1>6, <1>a DEF LoadReads, panes, lists, history
  <2>2. file # Nothing /\ load \in [Loads -> {Nothing, Unread} \cup 0..MaxVersion]
    BY <1>0, PanelAssumption DEF PanelTypeOK
  <2>3. Reading'
    BY <2>1, <2>2 DEF Reading
  <2> QED
    BY <2>1, <2>2, <2>3 DEF Current, Owed
<1>7. ASSUME NEW l \in Loads, LoadLands(l)
      PROVE  \/ Owed'
             \/ /\ \A m \in Loads : load'[m] \in {Nothing, Unread, file'}
                /\ shown' = file' \/ Reading'
  <2>1. /\ load[l] \notin {Nothing, Unread} /\ load' = [load EXCEPT ![l] = Nothing]
        /\ shown' = load[l] /\ Current /\ UNCHANGED <<results, worker, file>>
    BY <1>7, <1>a DEF LoadLands, panes, history
  <2>2. load \in [Loads -> {Nothing, Unread} \cup 0..MaxVersion]
    BY <1>0 DEF PanelTypeOK
  <2> QED
    BY <2>1, <2>2 DEF Current, Owed
<1>8. ASSUME NEW l \in Loads, LoadFails(l)
      PROVE  FALSE
  BY <1>8 DEF LoadFails
<1>9. CASE ForeignWrite
  BY <1>9 DEF ForeignWrite
<1> QED
  BY <1>1, <1>2, <1>3, <1>4, <1>5, <1>6, <1>7, <1>8, <1>9 DEF PanelNext

\* The bottom panel's inductive invariant, with the type of every variable: a result
\* that puts the lists back, and a re-read, are owed (reducer.go, applyConsoleExec).
THEOREM PanelInvariant == PanelSpec => []PanelInv
<1>1. PanelInv /\ [PanelNext]_panelVars => PanelInv'
  BY PanelTypesKept, ListsFollowKept DEF PanelInv
<1> QED
  BY InitPanelInv, <1>1, PTL DEF PanelSpec

\* applyConsoleExec, URLsTickResult: whatever writes, re-reads and panel changes
\* interleave, the open list editor ends with what the file says, unless somebody else
\* wrote it, a re-read failed or re-reads overlapped.
THEOREM QuietListsCurrent == PanelSpec => []QuietListsAreCurrent
<1>1. PanelInv => QuietListsAreCurrent
  BY DEF PanelInv, ListsFollow, Owed, Reading, QuietListsAreCurrent
<1> QED
  BY PanelInvariant, <1>1, PTL

\* applyConsoleExec: a result puts the lists back only for an operator who has pressed
\* +, e or accept and has chosen no panel since (#86).
THEOREM ResultsStayAway == PanelSpec => ResultsDoNotYank
<1>1. PanelInv /\ [PanelNext]_panelVars => (ResultLands /\ panel' # panel => ~picked)
  BY DEF PanelInv, WayBack, ResultLands, Settled
<1>2. PanelInv /\ [PanelNext]_panelVars => [ResultLands /\ panel' # panel => ~picked]_panelVars
  BY <1>1
<1> QED
  BY PanelInvariant, <1>2, PTL DEF PanelSpec, ResultsDoNotYank


-----------------------------------------------------------------------------
(***************************************************************************)
(* Subsequences.  Nth(D, n) runs through D once as n goes from 1 to the    *)
(* number of its elements: the rank of an element is an injection of D in  *)
(* an interval of D's size.                                                *)
(***************************************************************************)
LEMMA RankInjects ==
    ASSUME NEW D \in SUBSET Nat, IsFiniteSet(D),
           NEW i \in D, NEW k \in D, i < k
    PROVE  /\ Cardinality({j \in D : j <= i}) \in 1..Cardinality(D)
           /\ Cardinality({j \in D : j <= i}) < Cardinality({j \in D : j <= k})
<1> DEFINE U == {j \in D : j <= i}
           V == {j \in D : j <= k}
<1>1. /\ U \subseteq V /\ U \subseteq D /\ V \subseteq D
      /\ k \in V /\ k \notin U /\ i \in U
  <2>1. \A j \in D : j \in Nat
    OBVIOUS
  <2>2. k \in V /\ k \notin U /\ i \in U
    BY <2>1
  <2>3. \A j \in D : j <= i => j <= k
    BY <2>1
  <2> QED
    BY <2>2, <2>3
<1>2. /\ IsFiniteSet(V) /\ IsFiniteSet(U)
  BY <1>1, FS_Subset
<1>3. /\ Cardinality(U) <= Cardinality(V) /\ Cardinality(U) # Cardinality(V)
  <2>1. /\ Cardinality(U) <= Cardinality(V)
        /\ Cardinality(V) = Cardinality(U) => V = U
    BY <1>1, <1>2, FS_Subset
  <2> QED
    BY <1>1, <2>1
<1>4. Cardinality(U) \in Nat /\ Cardinality(V) \in Nat /\ Cardinality(D) \in Nat
  BY <1>2, FS_CardinalityType
<1>5. Cardinality(U) # 0
  BY <1>1, <1>2, FS_EmptySet
<1>6. Cardinality(U) <= Cardinality(D)
  BY <1>1, FS_Subset
<1> QED
  BY <1>3, <1>4, <1>5, <1>6

LEMMA RankType ==
    ASSUME NEW D \in SUBSET Nat, IsFiniteSet(D), NEW i \in D
    PROVE  Cardinality({j \in D : j <= i}) \in 1..Cardinality(D)
<1> DEFINE U == {j \in D : j <= i}
<1>1. U \subseteq D /\ i \in U
  OBVIOUS
<1>2. IsFiniteSet(U) /\ Cardinality(U) <= Cardinality(D)
  BY <1>1, FS_Subset
<1>3. Cardinality(U) \in Nat /\ Cardinality(D) \in Nat
  BY <1>2, FS_CardinalityType
<1>4. Cardinality(U) # 0
  BY <1>1, <1>2, FS_EmptySet
<1> QED
  BY <1>2, <1>3, <1>4

LEMMA NthRuns ==
    ASSUME NEW D \in SUBSET Nat, IsFiniteSet(D)
    PROVE  /\ Cardinality(D) \in Nat
           /\ \A n \in 1..Cardinality(D) :
                 Nth(D, n) \in D /\ Cardinality({j \in D : j <= Nth(D, n)}) = n
           /\ \A i \in D : \E n \in 1..Cardinality(D) : Nth(D, n) = i
           /\ \A m, n \in 1..Cardinality(D) : Nth(D, m) = Nth(D, n) => m = n
<1> DEFINE rank == [i \in D |-> Cardinality({j \in D : j <= i})]
           I == 1..Cardinality(D)
<1>1. Cardinality(D) \in Nat
  BY FS_CardinalityType
<1>2. IsFiniteSet(I) /\ Cardinality(I) = Cardinality(D)
  BY <1>1, FS_Interval
<1>3. \A i \in D : rank[i] \in I
  BY RankType
<1>4. \A i, k \in D : i < k => rank[i] < rank[k]
  BY RankInjects
<1>5. \A i, k \in D : rank[i] = rank[k] => i = k
  <2> SUFFICES ASSUME NEW i \in D, NEW k \in D, rank[i] = rank[k], i # k PROVE FALSE
    OBVIOUS
  <2>1. rank[i] \in Nat /\ rank[k] \in Nat
    BY <1>1, <1>3
  <2>2. i < k \/ k < i
    OBVIOUS
  <2> HIDE DEF rank
  <2> QED
    BY <2>1, <2>2, <1>4
<1>6. rank \in Injection(D, I)
  BY <1>3, <1>5 DEF Injection, IsInjective
<1>7. rank \in Surjection(D, I)
  BY <1>2, <1>6, FS_Injection
<1>8. \A n \in I : \E i \in D : rank[i] = n
  BY <1>7 DEF Surjection
<1>9. \A n \in I : Nth(D, n) \in D /\ rank[Nth(D, n)] = n
  BY <1>8 DEF Nth
<1>10. \A i \in D : Nth(D, rank[i]) = i
  BY <1>3, <1>5, <1>9
<1>11. \A n \in I : Cardinality({j \in D : j <= Nth(D, n)}) = n
  BY <1>9
<1> HIDE DEF rank
<1> QED
  BY <1>1, <1>3, <1>9, <1>10, <1>11

LEMMA LeastPosition ==
    ASSUME NEW D \in SUBSET Nat, IsFiniteSet(D), D # {}
    PROVE  \E m \in D : \A k \in D : m <= k
<1> DEFINE m == Nth(D, 1)
           R(k) == Cardinality({j \in D : j <= k})
<1>1. Cardinality(D) \in Nat /\ Cardinality(D) # 0
  BY FS_CardinalityType, FS_EmptySet
<1>2. 1 \in 1..Cardinality(D)
  BY <1>1
<1>3. m \in D /\ R(m) = 1
  BY <1>2, NthRuns
<1> HIDE DEF m
<1>4. ASSUME NEW k \in D, k < m PROVE FALSE
  <2>1. R(k) \in 1..Cardinality(D) /\ R(k) < R(m)
    BY <1>3, <1>4, RankInjects
  <2> HIDE DEF R
  <2> QED
    BY <1>1, <1>3, <2>1
<1>5. \A k \in D : k \in Nat /\ m \in Nat
  BY <1>3
<1> QED
  BY <1>3, <1>4, <1>5

\* Only(s, D) shows each position of D once.
LEMMA OnlyShows ==
    ASSUME NEW S, NEW s \in Seq(S), NEW D \in SUBSET DOMAIN s
    PROVE  /\ Only(s, D) \in Seq(S) /\ Len(Only(s, D)) = Cardinality(D)
           /\ Cardinality(D) \in Nat
           /\ \A n \in 1..Cardinality(D) : Nth(D, n) \in D /\ Only(s, D)[n] = s[Nth(D, n)]
           /\ \A i \in D : \E n \in 1..Cardinality(D) : Nth(D, n) = i
           /\ \A m, n \in 1..Cardinality(D) : Nth(D, m) = Nth(D, n) => m = n
<1>1. DOMAIN s = 1..Len(s) /\ Len(s) \in Nat
  BY LenProperties
<1>2. IsFiniteSet(DOMAIN s)
  BY <1>1, FS_Interval
<1>3. IsFiniteSet(D) /\ D \in SUBSET Nat
  BY <1>1, <1>2, FS_Subset
<1>4. /\ Cardinality(D) \in Nat
      /\ \A n \in 1..Cardinality(D) : Nth(D, n) \in D
      /\ \A i \in D : \E n \in 1..Cardinality(D) : Nth(D, n) = i
      /\ \A m, n \in 1..Cardinality(D) : Nth(D, m) = Nth(D, n) => m = n
  BY <1>3, NthRuns
<1>5. \A n \in 1..Cardinality(D) : s[Nth(D, n)] \in S
  BY <1>1, <1>4
<1>6. Only(s, D) \in [1..Cardinality(D) -> S]
  BY <1>5 DEF Only
<1>7. Only(s, D) \in Seq(S) /\ Len(Only(s, D)) = Cardinality(D)
  BY <1>4, <1>6, SeqDef
<1> QED
  BY <1>4, <1>7 DEF Only


\* ByStart(S) shows each row of S once.
LEMMA ByStartShows ==
    ASSUME NEW X, clock \in Seq(X),
           \A i, j \in DOMAIN clock : clock[i] = clock[j] => i = j,
           NEW T, NEW S \in SUBSET T,
           \A a, b \in S : RequestKey(a) = RequestKey(b) => a = b,
           \A a \in S : RequestKey(a) \in Elems(clock)
    PROVE  /\ ByStart(S) \in Seq(T)
           /\ \A n \in DOMAIN ByStart(S) : ByStart(S)[n] \in S
           /\ \A row \in S : \E n \in DOMAIN ByStart(S) : ByStart(S)[n] = row
           /\ \A m, n \in DOMAIN ByStart(S) : ByStart(S)[m] = ByStart(S)[n] => m = n
<1> DEFINE D == {i \in DOMAIN clock : \E row \in S : RequestKey(row) = clock[i]}
           order == Only(clock, D)
           N == Cardinality(D)
<1>1. D \in SUBSET DOMAIN clock
  OBVIOUS
<1> HIDE DEF D
<1>2. /\ order \in Seq(X) /\ Len(order) = N /\ N \in Nat
      /\ \A n \in 1..N : Nth(D, n) \in D /\ order[n] = clock[Nth(D, n)]
      /\ \A i \in D : \E n \in 1..N : Nth(D, n) = i
      /\ \A m, n \in 1..N : Nth(D, m) = Nth(D, n) => m = n
  BY <1>1, OnlyShows
<1>3. DOMAIN order = 1..N
  BY <1>2, LenProperties
<1>4. \A n \in 1..N : \E row \in S : RequestKey(row) = order[n]
  BY <1>2 DEF D
<1>5. \A i \in D : i \in DOMAIN clock
  BY <1>1
<1>6. \A row \in S : \E i \in D : clock[i] = RequestKey(row)
  BY DEF Elems, D
<1>7. ByStart(S) = [n \in 1..N |-> CHOOSE row \in S : RequestKey(row) = order[n]]
  BY <1>3 DEF ByStart, D
<1> HIDE DEF order, N
<1>8. \A n \in 1..N : ByStart(S)[n] \in S /\ RequestKey(ByStart(S)[n]) = order[n]
  BY <1>4, <1>7
<1>9. DOMAIN ByStart(S) = 1..N
  BY <1>7
<1>10. ByStart(S) \in Seq(T)
  <2>1. ByStart(S) \in [1..N -> T]
    BY <1>7, <1>8
  <2> QED
    BY <2>1, <1>2, SeqDef
<1>11. \A row \in S : \E n \in 1..N : ByStart(S)[n] = row
  <2> SUFFICES ASSUME NEW row \in S PROVE \E n \in 1..N : ByStart(S)[n] = row
    OBVIOUS
  <2>1. PICK i \in D : clock[i] = RequestKey(row)
    BY <1>6
  <2>2. PICK n \in 1..N : Nth(D, n) = i
    BY <1>2
  <2>3. RequestKey(ByStart(S)[n]) = RequestKey(row)
    BY <1>2, <1>8, <2>1, <2>2
  <2> QED
    BY <1>8, <2>3
<1>12. \A m, n \in 1..N : ByStart(S)[m] = ByStart(S)[n] => m = n
  <2> SUFFICES ASSUME NEW m \in 1..N, NEW n \in 1..N, ByStart(S)[m] = ByStart(S)[n]
               PROVE  m = n
    OBVIOUS
  <2>1. clock[Nth(D, m)] = clock[Nth(D, n)]
    BY <1>2, <1>8
  <2>2. Nth(D, m) = Nth(D, n)
    BY <1>2, <1>5, <2>1
  <2> QED
    BY <1>2, <2>2
<1> QED
  BY <1>8, <1>9, <1>10, <1>11, <1>12

\* What arrives later does not move the rows that have their place.
LEMMA ByStartStays ==
    ASSUME NEW X, NEW c \in Seq(X), NEW k \in X, k \notin Elems(c),
           NEW S, \A a \in S : RequestKey(a) \in Elems(c)
    PROVE  LET P(d) == {i \in DOMAIN d : \E row \in S : RequestKey(row) = d[i]}
           IN Only(Append(c, k), P(Append(c, k))) = Only(c, P(c))
<1> DEFINE d == Append(c, k)
           P(e) == {i \in DOMAIN e : \E row \in S : RequestKey(row) = e[i]}
<1>1. /\ Len(c) \in Nat /\ DOMAIN c = 1..Len(c) /\ DOMAIN d = 1..(Len(c) + 1)
      /\ d[Len(c) + 1] = k /\ \A i \in 1..Len(c) : d[i] = c[i]
  BY AppendProperties, LenProperties
<1>2. \A i \in DOMAIN d : i \in DOMAIN c \/ i = Len(c) + 1
  BY <1>1
<1>3. \A row \in S : RequestKey(row) # k
  OBVIOUS
<1>4. P(d) = P(c)
  <2> HIDE DEF d
  <2>1. \A i \in DOMAIN c : i \in DOMAIN d /\ d[i] = c[i]
    BY <1>1
  <2>2. \A i \in DOMAIN d : (\E row \in S : RequestKey(row) = d[i]) => i \in DOMAIN c
    BY <1>1, <1>2, <1>3
  <2> QED
    BY <2>1, <2>2
<1>5. P(c) \in SUBSET DOMAIN c
  OBVIOUS
<1>6. /\ Cardinality(P(c)) \in Nat
      /\ \A n \in 1..Cardinality(P(c)) : Nth(P(c), n) \in DOMAIN c
  BY <1>5, OnlyShows
<1> HIDE DEF P, d
<1>7. Only(d, P(c)) = Only(c, P(c))
  BY <1>1, <1>6 DEF Only
<1> QED
  BY <1>4, <1>7 DEF P, d


-----------------------------------------------------------------------------
(***************************************************************************)
(* The operations pane.  A snapshot of the ring, wherever it is, has one   *)
(* row for a request, and only pending rows carry a hold; the rows and     *)
(* holds that the pane may show have their place in the order of arrival.  *)
(***************************************************************************)
Begun == Elems(clock)

SnapshotOf(os, begun) ==
    /\ os \in Seq(RowType)
    /\ \A i \in DOMAIN os : /\ os[i].id \in Requests \cap begun
                            /\ os[i].status = "pending" <=> os[i].hold # None
    /\ \A i, j \in DOMAIN os : os[i].id = os[j].id => i = j

IsSnapshot(os) == SnapshotOf(os, Begun)

Ordered ==
    /\ clock \in Seq(Requests \cup HoldIds)
    /\ \A i, j \in DOMAIN clock : clock[i] = clock[j] => i = j

DaemonInv ==
    /\ phase \in [Requests -> Phases]
    /\ \A r \in Requests : phase[r] = "joined" => HoldOf[r] # None
    /\ holds \subseteq HoldIds /\ spent \subseteq HoldIds
    /\ Ordered
    /\ Begun = {r \in Requests : phase[r] # "none"} \cup holds \cup spent
    /\ IsSnapshot(rows)

LateInv ==
    \/ late = None
    \/ late.kind = "holds" /\ late.holds \subseteq HoldIds \cap Begun
    \/ late.kind = "ops" /\ IsSnapshot(late.rows)

ShownInv == IsSnapshot(ops) /\ held \subseteq HoldIds \cap Begun

PaneInv == DaemonInv /\ LateInv /\ ShownInv

\* The two parts of the displayed list.
ResolvedReps(os) == {i \in Representatives(os) : Resolved(os[i])}

OpenRows(os, hs) ==
    {os[i] : i \in Representatives(os) \ ResolvedReps(os)} \cup Synthetic(os, hs)

LEMMA DisplayedParts ==
    ASSUME NEW os, NEW hs
    PROVE  Displayed(os, hs) = Only(os, ResolvedReps(os)) \o ByStart(OpenRows(os, hs))
BY DEF Displayed, ResolvedReps, OpenRows

\* A row on a hold is known by the hold.
LEMMA HoldKeys ==
    ASSUME NEW a, NEW b, ~Resolved(a), a.hold # None
    PROVE  GroupKey(b) = GroupKey(a) <=> ~Resolved(b) /\ b.hold = a.hold
<1>1. GroupKey(a) = <<"hold", a.hold>>
  BY DEF GroupKey
<1>2. ASSUME Resolved(b) PROVE GroupKey(b) # GroupKey(a)
  <2>1. GroupKey(b) = <<"group", GroupOf[b.id], b.status>>
    BY <1>2 DEF GroupKey
  <2> QED
    BY <1>1, <2>1
<1>3. ASSUME ~Resolved(b), b.hold = None PROVE GroupKey(b) # GroupKey(a)
  <2>1. GroupKey(b) = <<"op", b.id>>
    BY <1>3 DEF GroupKey
  <2> QED
    BY <1>1, <2>1
<1>4. ASSUME ~Resolved(b), b.hold # None PROVE GroupKey(b) = GroupKey(a) <=> b.hold = a.hold
  <2>1. GroupKey(b) = <<"hold", b.hold>>
    BY <1>4 DEF GroupKey
  <2> QED
    BY <1>1, <2>1
<1> QED
  BY <1>2, <1>3, <1>4

\* A hold that some row carries has a row that stands for it.
LEMMA HoldIsRepresented ==
    ASSUME NEW os, IsSnapshot(os), NEW i \in DOMAIN os, os[i].hold # None
    PROVE  \E j \in Representatives(os) \ ResolvedReps(os) : os[j].hold = os[i].hold
<1> DEFINE Z == {j \in DOMAIN os : os[j].hold = os[i].hold}
<1>1. DOMAIN os = 1..Len(os) /\ Len(os) \in Nat
  BY LenProperties DEF IsSnapshot, SnapshotOf
<1>2. \A j \in DOMAIN os : os[j].hold # None => ~Resolved(os[j])
  BY DEF IsSnapshot, SnapshotOf, Resolved, Open
<1>3. PICK j \in Z : \A k \in Z : j <= k
  <2>1. i \in Z /\ Z \in SUBSET DOMAIN os
    OBVIOUS
  <2>2. Z \in SUBSET Nat
    BY <1>1
  <2>3. IsFiniteSet(Z)
    <3>1. IsFiniteSet(DOMAIN os)
      BY <1>1, FS_Interval
    <3> HIDE DEF Z
    <3> QED
      BY <2>1, <3>1, FS_Subset
  <2> QED
    BY <2>1, <2>2, <2>3, LeastPosition
<1>4. \A k \in 1..(j - 1) : GroupKey(os[k]) # GroupKey(os[j])
  <2> SUFFICES ASSUME NEW k \in 1..(j - 1) PROVE GroupKey(os[k]) # GroupKey(os[j])
    OBVIOUS
  <2>1. k \in DOMAIN os /\ k < j
    BY <1>1
  <2>2. os[k].hold # os[j].hold
    BY <1>1, <1>3, <2>1
  <2>3. ~Resolved(os[j]) /\ os[j].hold # None
    BY <1>2
  <2> QED
    BY <2>2, <2>3, HoldKeys
<1> QED
  BY <1>2, <1>4 DEF Representatives, ResolvedReps


\* The open rows are different requests and holds, and each hold the pane knows
\* of is on one of them.
LEMMA OpenRowsApart ==
    ASSUME NEW os, IsSnapshot(os), NEW hs \in SUBSET (HoldIds \cap Begun)
    PROVE  /\ OpenRows(os, hs) \subseteq RowType
           /\ \A a \in OpenRows(os, hs) :
                 /\ ~Resolved(a) /\ RequestKey(a) \in Begun
                 /\ a.status = "pending" <=> a.hold # None
           /\ \A a, b \in OpenRows(os, hs) : RequestKey(a) = RequestKey(b) => a = b
           /\ \A a, b \in OpenRows(os, hs) : a.hold = b.hold /\ a.hold # None => a = b
           /\ \A h \in hs : \E a \in OpenRows(os, hs) : a.hold = h
<1> DEFINE I == Representatives(os) \ ResolvedReps(os)
           A == {os[i] : i \in I}
           B == Synthetic(os, hs)
           G == {g \in hs : \A row \in Elems(os) : row.hold # g}
<1>1. \A i \in I : i \in DOMAIN os /\ ~Resolved(os[i])
  BY DEF Representatives, ResolvedReps
<1>2. DOMAIN os = 1..Len(os) /\ Len(os) \in Nat /\ \A i \in DOMAIN os : os[i] \in RowType
  BY LenProperties DEF IsSnapshot, SnapshotOf
<1>3. \A i \in I : /\ os[i] \in RowType /\ os[i].id \in Requests /\ os[i].id # None
                   /\ RequestKey(os[i]) = os[i].id /\ os[i].id \in Begun
                   /\ os[i].status = "pending" <=> os[i].hold # None
  BY <1>1, <1>2, ConstantsAssumption DEF IsSnapshot, SnapshotOf, RequestKey
<1>4. B = {Row(None, "pending", h) : h \in G}
  BY DEF Synthetic
<1>5. \A h \in G : /\ h \in HoldIds \cap Begun /\ h # None
                   /\ \A i \in DOMAIN os : os[i].hold # h
  BY ConstantsAssumption DEF Elems
<1> HIDE DEF I, G
<1>6. \A h \in G : LET a == Row(None, "pending", h) IN
         /\ a \in RowType /\ ~Resolved(a) /\ RequestKey(a) = h
         /\ a.status = "pending" /\ a.hold = h
  BY <1>5 DEF Row, RowType, Statuses, Open, Resolved, RequestKey
<1>7. \A a \in B : /\ a \in RowType /\ ~Resolved(a) /\ RequestKey(a) = a.hold
                   /\ a.status = "pending" /\ a.hold \in G /\ a = Row(None, "pending", a.hold)
  BY <1>4, <1>6
<1>8. OpenRows(os, hs) = A \cup B
  BY DEF OpenRows, I
<1>9. \A a \in A : /\ a \in RowType /\ ~Resolved(a) /\ RequestKey(a) \in Requests \cap Begun
                   /\ a.status = "pending" <=> a.hold # None
                   /\ \E i \in I : a = os[i]
  BY <1>1, <1>3
<1>10. \A a, b \in A : RequestKey(a) = RequestKey(b) => a = b
  BY <1>1, <1>3 DEF IsSnapshot, SnapshotOf
<1>11. \A a, b \in A : a.hold = b.hold /\ a.hold # None => a = b
  <2> SUFFICES ASSUME NEW i \in I, NEW j \in I, os[i].hold = os[j].hold, os[i].hold # None
               PROVE  i = j
    BY <1>9
  <2>1. GroupKey(os[i]) = GroupKey(os[j])
    BY <1>1, HoldKeys
  <2>2. i \in 1..Len(os) /\ j \in 1..Len(os)
    BY <1>1, <1>2
  <2>3. ~(i < j)
    <3>1. \A k \in 1..(j - 1) : GroupKey(os[k]) # GroupKey(os[j])
      BY DEF I, Representatives
    <3> QED
      BY <2>1, <2>2, <3>1, <1>2
  <2>4. ~(j < i)
    <3>1. \A k \in 1..(i - 1) : GroupKey(os[k]) # GroupKey(os[i])
      BY DEF I, Representatives
    <3> QED
      BY <2>1, <2>2, <3>1, <1>2
  <2> QED
    BY <2>2, <2>3, <2>4, <1>2
<1>12. \A a \in A, b \in B : RequestKey(a) # RequestKey(b) /\ a.hold # b.hold
  BY <1>1, <1>5, <1>7, <1>9, ConstantsAssumption
<1>13. \A h \in hs : \E a \in A \cup B : a.hold = h
  <2> SUFFICES ASSUME NEW h \in hs PROVE \E a \in A \cup B : a.hold = h
    OBVIOUS
  <2>1. CASE h \in G
    BY <2>1, <1>4, <1>6
  <2>2. CASE h \notin G
    <3>1. PICK i \in DOMAIN os : os[i].hold = h
      BY <2>2 DEF G, Elems
    <3>2. h # None
      BY ConstantsAssumption
    <3>3. PICK j \in I : os[j].hold = h
      BY <3>1, <3>2, HoldIsRepresented DEF I
    <3> QED
      BY <3>3
  <2> QED
    BY <2>1, <2>2
<1> HIDE DEF A, B
<1>14. OpenRows(os, hs) \subseteq RowType
  BY <1>7, <1>8, <1>9
<1>15. \A a \in A \cup B : /\ ~Resolved(a) /\ RequestKey(a) \in Begun
                           /\ a.status = "pending" <=> a.hold # None
  BY <1>5, <1>7, <1>9
<1>16. \A a, b \in A \cup B : RequestKey(a) = RequestKey(b) => a = b
  BY <1>7, <1>10, <1>12
<1>17. \A a, b \in A \cup B : a.hold = b.hold /\ a.hold # None => a = b
  BY <1>7, <1>11, <1>12
<1> QED
  BY <1>8, <1>13, <1>14, <1>15, <1>16, <1>17


\* The displayed list: the resolved groups, then the open rows, each hold on one.
LEMMA DisplayedShows ==
    ASSUME Ordered, NEW os, IsSnapshot(os), NEW hs \in SUBSET (HoldIds \cap Begun)
    PROVE  LET d == Displayed(os, hs)
               m == Cardinality(ResolvedReps(os))
           IN /\ d \in Seq(RowType) /\ DOMAIN d = 1..Len(d) /\ Len(d) \in Nat
              /\ m \in Nat /\ m <= Len(d)
              /\ \A i \in DOMAIN d : Resolved(d[i]) <=> i <= m
              /\ \A i \in DOMAIN d : /\ d[i].status = "pending" <=> d[i].hold # None
                                     /\ d[i].hold \in HoldIds \cup {None}
              /\ \A i, j \in DOMAIN d : d[i].hold = d[j].hold /\ d[i].hold # None => i = j
              /\ \A h \in hs : \E i \in DOMAIN d : d[i].hold = h
<1> DEFINE d == Displayed(os, hs)
           R == ResolvedReps(os)
           m == Cardinality(R)
           f == Only(os, R)
           S == OpenRows(os, hs)
           g == ByStart(S)
<1>1. R \in SUBSET DOMAIN os /\ \A i \in R : Resolved(os[i])
  BY DEF ResolvedReps, Representatives
<1>2. /\ S \subseteq RowType
      /\ \A a \in S : /\ ~Resolved(a) /\ RequestKey(a) \in Begun
                      /\ a.status = "pending" <=> a.hold # None
      /\ \A a, b \in S : RequestKey(a) = RequestKey(b) => a = b
      /\ \A a, b \in S : a.hold = b.hold /\ a.hold # None => a = b
      /\ \A h \in hs : \E a \in S : a.hold = h
  BY OpenRowsApart
<1>3. d = f \o g
  BY DisplayedParts
<1> HIDE DEF d, R, S
<1>4. /\ f \in Seq(RowType) /\ Len(f) = m /\ m \in Nat
      /\ \A n \in 1..m : Nth(R, n) \in R /\ f[n] = os[Nth(R, n)]
  BY <1>1, OnlyShows DEF IsSnapshot, SnapshotOf
<1>5. /\ g \in Seq(RowType)
      /\ \A n \in DOMAIN g : g[n] \in S
      /\ \A row \in S : \E n \in DOMAIN g : g[n] = row
      /\ \A k, n \in DOMAIN g : g[k] = g[n] => k = n
  BY <1>2, ByStartShows DEF Ordered, Begun
<1>6. \A n \in 1..m : /\ Resolved(f[n]) /\ f[n] \in RowType
                      /\ f[n].status # "pending" /\ f[n].hold = None
  <2> SUFFICES ASSUME NEW n \in 1..m
               PROVE  /\ Resolved(f[n]) /\ f[n] \in RowType
                      /\ f[n].status # "pending" /\ f[n].hold = None
    OBVIOUS
  <2>1. Nth(R, n) \in DOMAIN os /\ Resolved(os[Nth(R, n)]) /\ f[n] = os[Nth(R, n)]
    BY <1>1, <1>4
  <2>2. f[n].status # "pending"
    BY <2>1 DEF Resolved, Open
  <2>3. f[n].hold = None
    BY <2>1, <2>2 DEF IsSnapshot, SnapshotOf
  <2>4. f[n] \in RowType
    BY <1>4, LenProperties
  <2> QED
    BY <2>1, <2>2, <2>3, <2>4
<1> HIDE DEF f, g, m
<1>7. Len(g) \in Nat /\ DOMAIN g = 1..Len(g)
  BY <1>5, LenProperties
<1>8. /\ d \in Seq(RowType) /\ Len(d) = m + Len(g) /\ Len(d) \in Nat /\ DOMAIN d = 1..Len(d)
      /\ \A i \in 1..m + Len(g) : d[i] = IF i <= m THEN f[i] ELSE g[i - m]
  <2> f \in Seq(RowType) /\ g \in Seq(RowType)
    BY <1>4, <1>5
  <2>1. d \in Seq(RowType) /\ Len(d) = Len(f) + Len(g)
    BY <1>3, ConcatProperties
  <2>2. \A i \in 1..Len(f) + Len(g) : d[i] = IF i <= Len(f) THEN f[i] ELSE g[i - Len(f)]
    BY <1>3, ConcatProperties
  <2>3. Len(d) \in Nat /\ DOMAIN d = 1..Len(d)
    BY <2>1, LenProperties
  <2> QED
    BY <1>4, <2>1, <2>2, <2>3
<1>9. m <= Len(d)
  BY <1>4, <1>7, <1>8
<1>10. \A i \in DOMAIN d : \/ i \in 1..m /\ d[i] = f[i] /\ i <= m
                           \/ i - m \in DOMAIN g /\ d[i] = g[i - m] /\ ~(i <= m) /\ d[i] \in S
  <2> SUFFICES ASSUME NEW i \in DOMAIN d
               PROVE  \/ i \in 1..m /\ d[i] = f[i] /\ i <= m
                      \/ i - m \in DOMAIN g /\ d[i] = g[i - m] /\ ~(i <= m) /\ d[i] \in S
    OBVIOUS
  <2>1. i \in 1..m + Len(g)
    BY <1>8
  <2>2. CASE i <= m
    BY <2>1, <2>2, <1>4, <1>8
  <2>3. CASE ~(i <= m)
    <3>1. i - m \in DOMAIN g
      BY <2>1, <2>3, <1>4, <1>7
    <3>2. d[i] = g[i - m]
      BY <2>1, <2>3, <1>8
    <3> QED
      BY <2>3, <3>1, <3>2, <1>5
  <2> QED
    BY <2>2, <2>3
<1>11. \A n \in DOMAIN g : n + m \in DOMAIN d /\ d[n + m] = g[n]
  BY <1>4, <1>7, <1>8
<1>12. \A i \in DOMAIN d : Resolved(d[i]) <=> i <= m
  BY <1>2, <1>6, <1>10
<1>13. \A i \in DOMAIN d : d[i].status = "pending" <=> d[i].hold # None
  BY <1>2, <1>6, <1>10
<1>14. \A i \in DOMAIN d : d[i].hold \in HoldIds \cup {None}
  BY <1>2, <1>6, <1>10 DEF RowType
<1>15. \A i, j \in DOMAIN d : d[i].hold = d[j].hold /\ d[i].hold # None => i = j
  <2> SUFFICES ASSUME NEW i \in DOMAIN d, NEW j \in DOMAIN d,
                      d[i].hold = d[j].hold, d[i].hold # None
               PROVE  i = j
    OBVIOUS
  <2>1. /\ i - m \in DOMAIN g /\ d[i] = g[i - m] /\ d[i] \in S
        /\ j - m \in DOMAIN g /\ d[j] = g[j - m] /\ d[j] \in S
    BY <1>6, <1>10
  <2>2. d[i] = d[j]
    BY <1>2, <2>1
  <2>3. i - m = j - m
    BY <1>5, <2>1, <2>2
  <2> QED
    BY <1>4, <1>8, <2>3
<1>16. \A h \in hs : \E i \in DOMAIN d : d[i].hold = h
  BY <1>2, <1>5, <1>11
<1> QED
  BY <1>4, <1>8, <1>9, <1>12, <1>13, <1>14, <1>15, <1>16 DEF d, m, R


-----------------------------------------------------------------------------
(***************************************************************************)
(* The steps of the daemon keep the snapshots.                             *)
(***************************************************************************)
LEMMA SnapshotGrows ==
    ASSUME NEW os, NEW b, NEW c, b \subseteq c, SnapshotOf(os, b)
    PROVE  SnapshotOf(os, c)
BY DEF SnapshotOf

LEMMA WithoutSnapshot ==
    ASSUME NEW os, NEW b, SnapshotOf(os, b), NEW r
    PROVE  /\ SnapshotOf(Without(os, r), b)
           /\ \A i \in DOMAIN Without(os, r) : Without(os, r)[i].id # r
<1> DEFINE D == {i \in DOMAIN os : os[i].id # r}
           t == Only(os, D)
<1>1. D \in SUBSET DOMAIN os /\ \A i \in D : os[i].id # r
  OBVIOUS
<1>2. Without(os, r) = t
  BY DEF Without
<1> HIDE DEF D
<1>3. /\ t \in Seq(RowType) /\ Len(t) = Cardinality(D)
      /\ \A n \in 1..Cardinality(D) : Nth(D, n) \in D /\ t[n] = os[Nth(D, n)]
      /\ \A m, n \in 1..Cardinality(D) : Nth(D, m) = Nth(D, n) => m = n
  BY <1>1, OnlyShows DEF SnapshotOf
<1> HIDE DEF t
<1>4. DOMAIN t = 1..Cardinality(D)
  BY <1>3, LenProperties
<1>5. \A n \in DOMAIN t : Nth(D, n) \in DOMAIN os /\ t[n] = os[Nth(D, n)] /\ t[n].id # r
  BY <1>1, <1>3, <1>4
<1>6. \A m, n \in DOMAIN t : t[m].id = t[n].id => m = n
  BY <1>3, <1>4, <1>5 DEF SnapshotOf
<1>7. \A n \in DOMAIN t : /\ t[n].id \in Requests \cap b
                          /\ t[n].status = "pending" <=> t[n].hold # None
  BY <1>5 DEF SnapshotOf
<1>8. SnapshotOf(t, b)
  BY <1>3, <1>6, <1>7 DEF SnapshotOf
<1> QED
  BY <1>2, <1>5, <1>8

\* A row of a request that is not in the list comes first.
LEMMA NewRowSnapshot ==
    ASSUME NEW os, NEW b, SnapshotOf(os, b),
           NEW r \in Requests \cap b, \A i \in DOMAIN os : os[i].id # r,
           NEW status \in Statuses, NEW hold \in HoldIds \cup {None},
           status = "pending" <=> hold # None
    PROVE  SnapshotOf(<<Row(r, status, hold)>> \o os, b)
<1> DEFINE row == Row(r, status, hold)
           t == <<row>> \o os
<1>1. /\ row \in RowType /\ row.id = r /\ row.status = status /\ row.hold = hold
  BY DEF Row, RowType
<1> HIDE DEF row
<1>2. os \in Seq(RowType) /\ Len(os) \in Nat /\ DOMAIN os = 1..Len(os)
  BY LenProperties DEF SnapshotOf
<1>3. <<row>> \in Seq(RowType) /\ Len(<<row>>) = 1 /\ <<row>>[1] = row
  BY <1>1
<1>4. /\ t \in Seq(RowType) /\ Len(t) = 1 + Len(os)
      /\ \A i \in 1..1 + Len(os) : t[i] = IF i <= 1 THEN <<row>>[i] ELSE os[i - 1]
  BY <1>2, <1>3, ConcatProperties
<1>5. DOMAIN t = 1..1 + Len(os)
  BY <1>4, LenProperties
<1> HIDE DEF t
<1>6. \A i \in DOMAIN t : \/ i = 1 /\ t[i] = row
                          \/ i # 1 /\ i - 1 \in DOMAIN os /\ t[i] = os[i - 1] /\ i \in Nat
  BY <1>2, <1>3, <1>4, <1>5
<1>7. \A i \in DOMAIN t : /\ t[i].id \in Requests \cap b
                          /\ t[i].status = "pending" <=> t[i].hold # None
  BY <1>1, <1>6 DEF SnapshotOf
<1>8. \A i, j \in DOMAIN t : t[i].id = t[j].id => i = j
  <2> SUFFICES ASSUME NEW i \in DOMAIN t, NEW j \in DOMAIN t, t[i].id = t[j].id PROVE i = j
    OBVIOUS
  <2> \A k \in DOMAIN t : k # 1 => t[k].id # r
    BY <1>6
  <2> \A k \in DOMAIN t : k = 1 => t[k].id = r
    BY <1>1, <1>6
  <2>1. CASE i = 1
    BY <2>1
  <2>2. CASE j = 1
    BY <2>2
  <2>3. CASE i # 1 /\ j # 1
    <3>1. /\ i - 1 \in DOMAIN os /\ t[i] = os[i - 1] /\ i \in Nat
          /\ j - 1 \in DOMAIN os /\ t[j] = os[j - 1] /\ j \in Nat
      BY <1>6, <2>3
    <3>2. i - 1 = j - 1
      BY <3>1 DEF SnapshotOf
    <3> QED
      BY <3>1, <3>2
  <2> QED
    BY <2>1, <2>2, <2>3
<1>9. SnapshotOf(t, b)
  BY <1>4, <1>7, <1>8 DEF SnapshotOf
<1> QED
  BY <1>9 DEF t, row

LEMMA UpdatedSnapshot ==
    ASSUME NEW b, SnapshotOf(rows, b), NEW r,
           NEW status \in Statuses, NEW hold \in HoldIds \cup {None},
           status = "pending" <=> hold # None
    PROVE  SnapshotOf(Updated(r, status, hold), b)
<1>1. CASE \E row \in Elems(rows) : row.id = r
  <2>1. r \in Requests \cap b
    BY <1>1 DEF Elems, SnapshotOf
  <2>2. Updated(r, status, hold) = <<Row(r, status, hold)>> \o Without(rows, r)
    BY <1>1 DEF Updated
  <2> QED
    BY <2>1, <2>2, WithoutSnapshot, NewRowSnapshot
<1>2. CASE ~\E row \in Elems(rows) : row.id = r
  BY <1>2 DEF Updated
<1> QED
  BY <1>1, <1>2

\* What arrives comes last.
LEMMA AppendArrives ==
    ASSUME NEW X, NEW c \in Seq(X), NEW k \in X, k \notin Elems(c),
           \A i, j \in DOMAIN c : c[i] = c[j] => i = j
    PROVE  /\ Append(c, k) \in Seq(X)
           /\ \A i, j \in DOMAIN Append(c, k) : Append(c, k)[i] = Append(c, k)[j] => i = j
           /\ Elems(Append(c, k)) = Elems(c) \cup {k}
<1> DEFINE d == Append(c, k)
<1>1. /\ d \in Seq(X) /\ Len(c) \in Nat /\ DOMAIN c = 1..Len(c)
      /\ DOMAIN d = 1..(Len(c) + 1)
      /\ d[Len(c) + 1] = k /\ \A i \in 1..Len(c) : d[i] = c[i]
  BY AppendProperties, LenProperties
<1> HIDE DEF d
<1>2. \A i \in DOMAIN d : \/ i \in DOMAIN c /\ d[i] = c[i]
                          \/ i = Len(c) + 1 /\ d[i] = k
  <2> SUFFICES ASSUME NEW i \in DOMAIN d
               PROVE  \/ i \in DOMAIN c /\ d[i] = c[i]
                      \/ i = Len(c) + 1 /\ d[i] = k
    OBVIOUS
  <2>1. i \in 1..Len(c) \/ i = Len(c) + 1
    BY <1>1
  <2> QED
    BY <1>1, <2>1
<1>3. \A i \in DOMAIN c : c[i] # k /\ i \in DOMAIN d /\ d[i] = c[i]
  BY <1>1 DEF Elems
<1>4. \A i, j \in DOMAIN d : d[i] = d[j] => i = j
  BY <1>2, <1>3
<1>5. Len(c) + 1 \in DOMAIN d
  BY <1>1
<1>6. Elems(d) = Elems(c) \cup {k}
  BY <1>1, <1>2, <1>3, <1>5 DEF Elems
<1> QED
  BY <1>1, <1>4, <1>6 DEF d


\* The order of arrival gains k, or nothing.
Arrives(k) ==
    /\ k \in (Requests \cup HoldIds) \ Begun
    /\ clock' = Append(clock, k)

LEMMA ArrivesKeepsOrder ==
    ASSUME Ordered, NEW k, Arrives(k)
    PROVE  Ordered' /\ Begun' = Begun \cup {k}
<1>1. /\ clock \in Seq(Requests \cup HoldIds) /\ k \in Requests \cup HoldIds
      /\ k \notin Elems(clock)
      /\ \A i, j \in DOMAIN clock : clock[i] = clock[j] => i = j
      /\ clock' = Append(clock, k)
  BY DEF Arrives, Ordered, Begun
<1> DEFINE d == Append(clock, k)
<1>2. /\ d \in Seq(Requests \cup HoldIds)
      /\ \A i, j \in DOMAIN d : d[i] = d[j] => i = j
      /\ Elems(d) = Elems(clock) \cup {k}
  BY <1>1, AppendArrives
<1> HIDE DEF d
<1>3. clock' = d
  BY <1>1 DEF d
<1>4. Begun' = Elems(clock')
  BY DEF Begun, Elems
<1>5. Ordered'
  BY <1>2, <1>3 DEF Ordered
<1> QED
  BY <1>2, <1>3, <1>4, <1>5 DEF Begun

\* A step with which nothing arrives.
LEMMA NothingArrives ==
    ASSUME Ordered, UNCHANGED clock
    PROVE  Ordered' /\ Begun' = Begun
BY DEF Ordered, Begun, Elems

LEMMA BeginKeeps ==
    ASSUME DaemonInv, NEW r \in Requests, Begin(r)
    PROVE  DaemonInv' /\ Begun \subseteq Begun'
<1>1. /\ phase[r] = "none" /\ phase' = [phase EXCEPT ![r] = "checking"]
      /\ clock' = Append(clock, r) /\ UNCHANGED <<holds, spent>>
  BY DEF Begin
<1>2. r \notin Begun /\ r \notin HoldIds
  BY <1>1, ConstantsAssumption DEF DaemonInv
<1>3. Ordered' /\ Begun' = Begun \cup {r}
  BY <1>1, <1>2, ArrivesKeepsOrder DEF Arrives, DaemonInv
<1>4. phase' \in [Requests -> Phases]
  BY <1>1 DEF DaemonInv, Phases
<1>5. \A a \in Requests : phase'[a] = IF a = r THEN "checking" ELSE phase[a]
  BY <1>1 DEF DaemonInv
<1>6. \A a \in Requests : phase'[a] = "joined" => HoldOf[a] # None
  BY <1>5 DEF DaemonInv
<1>7. Begun' = {a \in Requests : phase'[a] # "none"} \cup holds' \cup spent'
  BY <1>1, <1>3, <1>5 DEF DaemonInv
<1>8. IsSnapshot(rows)'
  <2> DEFINE oldest == CHOOSE a \in Elems(rows) : \A b \in Elems(rows) : a.id <= b.id
             kept == IF Len(rows) < RingCap THEN rows ELSE Without(rows, oldest.id)
  <2>1. rows' = <<Row(r, "checking", None)>> \o kept
    BY DEF Begin
  <2>2. SnapshotOf(rows, Begun)
    BY DEF DaemonInv, IsSnapshot
  <2> HIDE DEF oldest
  <2>3. SnapshotOf(kept, Begun)
    BY <2>2, WithoutSnapshot
  <2> HIDE DEF kept
  <2>4. \A i \in DOMAIN kept : kept[i].id # r
    BY <1>2, <2>3 DEF SnapshotOf
  <2>5. SnapshotOf(kept, Begun') /\ r \in Requests \cap Begun'
    BY <1>3, <2>3, SnapshotGrows
  <2>6. "checking" \in Statuses /\ None \in HoldIds \cup {None}
    BY DEF Statuses, Open
  <2>7. SnapshotOf(<<Row(r, "checking", None)>> \o kept, Begun')
    BY <2>4, <2>5, <2>6, NewRowSnapshot
  <2> QED
    BY <2>1, <2>7 DEF IsSnapshot
<1>9. holds' \subseteq HoldIds /\ spent' \subseteq HoldIds
  BY <1>1 DEF DaemonInv
<1> QED
  BY <1>3, <1>4, <1>6, <1>7, <1>8, <1>9 DEF DaemonInv

LEMMA EnqueueKeeps ==
    ASSUME DaemonInv, NEW r \in Requests, Enqueue(r)
    PROVE  DaemonInv' /\ Begun \subseteq Begun'
<1>1. /\ phase[r] = "checking" /\ HoldOf[r] \notin spent \cup {None}
      /\ phase' = [phase EXCEPT ![r] = "joined"]
      /\ holds' = holds \cup {HoldOf[r]}
      /\ clock' = IF HoldOf[r] \in holds THEN clock ELSE Append(clock, HoldOf[r])
      /\ UNCHANGED <<spent, rows>>
  BY DEF Enqueue
<1>2. HoldOf[r] \in HoldIds /\ HoldOf[r] \notin Requests
  BY <1>1, ConstantsAssumption
<1>3. Ordered' /\ Begun' = Begun \cup {HoldOf[r]}
  <2>1. CASE HoldOf[r] \in holds
    BY <1>1, <2>1, NothingArrives DEF DaemonInv
  <2>2. CASE HoldOf[r] \notin holds
    <3>1. HoldOf[r] \notin Begun
      BY <1>1, <1>2, <2>2 DEF DaemonInv
    <3>2. Arrives(HoldOf[r])
      BY <1>1, <1>2, <2>2, <3>1 DEF Arrives
    <3> QED
      BY <3>2, ArrivesKeepsOrder DEF DaemonInv
  <2> QED
    BY <2>1, <2>2
<1>4. phase' \in [Requests -> Phases]
  BY <1>1 DEF DaemonInv, Phases
<1>5. \A a \in Requests : phase'[a] = IF a = r THEN "joined" ELSE phase[a]
  BY <1>1 DEF DaemonInv
<1>6. \A a \in Requests : phase'[a] = "joined" => HoldOf[a] # None
  BY <1>1, <1>5 DEF DaemonInv
<1>7. Begun' = {a \in Requests : phase'[a] # "none"} \cup holds' \cup spent'
  BY <1>1, <1>3, <1>5 DEF DaemonInv
<1>8. IsSnapshot(rows)'
  <2>1. SnapshotOf(rows, Begun')
    BY <1>3, SnapshotGrows DEF DaemonInv, IsSnapshot
  <2> QED
    BY <1>1, <2>1 DEF IsSnapshot
<1>9. holds' \subseteq HoldIds /\ spent' \subseteq HoldIds
  BY <1>1, <1>2 DEF DaemonInv
<1> QED
  BY <1>3, <1>4, <1>6, <1>7, <1>8, <1>9 DEF DaemonInv

\* A step with which a request goes on and its row, at most, is updated.
LEMMA RowStepKeeps ==
    ASSUME DaemonInv, NEW r \in Requests, phase[r] # "none",
           NEW to \in Phases \ {"none", "joined"}, phase' = [phase EXCEPT ![r] = to],
           NEW status \in Statuses, NEW hold \in HoldIds \cup {None},
           status = "pending" <=> hold # None,
           rows' = Updated(r, status, hold), UNCHANGED <<holds, spent, clock>>
    PROVE  DaemonInv' /\ Begun \subseteq Begun'
<1>1. Ordered' /\ Begun' = Begun
  BY NothingArrives DEF DaemonInv
<1>2. phase' \in [Requests -> Phases]
  BY DEF DaemonInv
<1>3. \A a \in Requests : phase'[a] = IF a = r THEN to ELSE phase[a]
  BY DEF DaemonInv
<1>4. \A a \in Requests : phase'[a] = "joined" => HoldOf[a] # None
  BY <1>3 DEF DaemonInv
<1>5. Begun' = {a \in Requests : phase'[a] # "none"} \cup holds' \cup spent'
  BY <1>1, <1>3 DEF DaemonInv
<1>6. SnapshotOf(Updated(r, status, hold), Begun)
  BY UpdatedSnapshot DEF DaemonInv, IsSnapshot
<1>7. IsSnapshot(rows)'
  BY <1>1, <1>6 DEF IsSnapshot
<1> QED
  BY <1>1, <1>2, <1>4, <1>5, <1>7 DEF DaemonInv

\* A step with which a hold ends.
LEMMA EndKeeps ==
    ASSUME DaemonInv, NEW h \in holds, holds' = holds \ {h}, spent' = spent \cup {h},
           UNCHANGED <<phase, clock, rows>>
    PROVE  DaemonInv' /\ Begun \subseteq Begun'
<1>1. Ordered' /\ Begun' = Begun
  BY NothingArrives DEF DaemonInv
<1>2. IsSnapshot(rows)'
  BY <1>1 DEF DaemonInv, IsSnapshot
<1> QED
  BY <1>1, <1>2 DEF DaemonInv

LEMMA DaemonStays ==
    ASSUME DaemonInv, UNCHANGED daemon
    PROVE  DaemonInv' /\ Begun \subseteq Begun'
<1>1. UNCHANGED <<phase, holds, spent, clock, rows>>
  BY DEF daemon
<1>2. Ordered' /\ Begun' = Begun
  BY <1>1, NothingArrives DEF DaemonInv
<1>3. IsSnapshot(rows)'
  BY <1>1, <1>2 DEF DaemonInv, IsSnapshot
<1> QED
  BY <1>1, <1>2, <1>3 DEF DaemonInv

LEMMA NextKeepsDaemon ==
    ASSUME DaemonInv, Next
    PROVE  DaemonInv' /\ Begun \subseteq Begun'
<1>1. CASE Ticks
  BY <1>1, DaemonStays DEF Ticks, PollHolds, PollOps, LateLands
<1>2. CASE Operator
  BY <1>2, DaemonStays DEF Operator, KeyUp, KeyDown, KeyHome, KeyEnd, KeyPanel, KeyOther,
     KeyVerdict, Moves
<1>3. ASSUME NEW s \in Slots, CallRuns(s) \/ CallFails(s) \/ CallReturns(s)
      PROVE  DaemonInv' /\ Begun \subseteq Begun'
  <2>1. CASE CallRuns(s)
    BY <2>1, EndKeeps DEF CallRuns
  <2>2. CASE CallFails(s) \/ CallReturns(s)
    BY <2>2, DaemonStays DEF CallFails, CallReturns
  <2> QED
    BY <1>3, <2>1, <2>2
<1>4. ASSUME NEW r \in Requests,
             Begin(r) \/ Enqueue(r) \/ Mark(r) \/ Signal(r) \/ Finish(r)
      PROVE  DaemonInv' /\ Begun \subseteq Begun'
  <2>1. CASE Begin(r)
    BY <2>1, BeginKeeps
  <2>2. CASE Enqueue(r)
    BY <2>2, EnqueueKeeps
  <2>3. CASE Mark(r)
    <3>1. /\ phase[r] # "none" /\ phase' = [phase EXCEPT ![r] = "held"]
          /\ rows' = Updated(r, "pending", HoldOf[r]) /\ UNCHANGED <<holds, spent, clock>>
      BY <2>3 DEF Mark
    <3>2. /\ "held" \in Phases \ {"none", "joined"} /\ "pending" \in Statuses
          /\ HoldOf[r] \in HoldIds \cup {None} /\ HoldOf[r] # None
      BY <2>3, ConstantsAssumption DEF Mark, DaemonInv, Phases, Statuses, Open
    <3> QED
      BY <3>1, <3>2, RowStepKeeps
  <2>4. CASE Signal(r)
    <3>1. /\ phase[r] # "none" /\ phase' = [phase EXCEPT ![r] = "signaled"]
          /\ rows' = Updated(r, "signaled", None) /\ UNCHANGED <<holds, spent, clock>>
      BY <2>4 DEF Signal
    <3>2. /\ "signaled" \in Phases \ {"none", "joined"} /\ "signaled" \in Statuses
          /\ None \in HoldIds \cup {None}
      BY DEF Phases, Statuses, Open
    <3> QED
      BY <3>1, <3>2, RowStepKeeps
  <2>5. CASE Finish(r)
    <3>1. /\ phase[r] # "none" /\ phase' = [phase EXCEPT ![r] = "done"]
          /\ rows' = Updated(r, "running", None) /\ UNCHANGED <<holds, spent, clock>>
      BY <2>5 DEF Finish
    <3>2. /\ "done" \in Phases \ {"none", "joined"} /\ "running" \in Statuses
          /\ None \in HoldIds \cup {None}
      BY DEF Phases, Statuses, Open
    <3> QED
      BY <3>1, <3>2, RowStepKeeps
  <2> QED
    BY <1>4, <2>1, <2>2, <2>3, <2>4, <2>5
<1>5. ASSUME NEW h \in HoldIds, Resolve(h)
      PROVE  DaemonInv' /\ Begun \subseteq Begun'
  BY <1>5, EndKeeps DEF Resolve
<1> QED
  BY <1>1, <1>2, <1>3, <1>4, <1>5 DEF Next


LEMMA OvertakesKeeps ==
    ASSUME DaemonInv, LateInv, Begun \subseteq Begun', Overtakes \/ UNCHANGED late \/ late' = None
    PROVE  LateInv'
<1>1. CASE Overtakes
  <2>1. CASE late' = None
    BY <2>1 DEF LateInv
  <2>2. CASE late' = [kind |-> "holds", holds |-> holds]
    <3>1. holds \subseteq HoldIds \cap Begun
      BY DEF DaemonInv
    <3> QED
      BY <2>2, <3>1 DEF LateInv
  <2>3. CASE late' = [kind |-> "ops", rows |-> rows]
    <3>1. SnapshotOf(rows, Begun')
      BY SnapshotGrows DEF DaemonInv, IsSnapshot
    <3>2. late'.kind = "ops" /\ late'.rows = rows
      BY <2>3
    <3> QED
      BY <3>1, <3>2 DEF LateInv, IsSnapshot
  <2> QED
    BY <1>1, <2>1, <2>2, <2>3 DEF Overtakes
<1>2. CASE UNCHANGED late
  <2>1. CASE late = None
    BY <1>2, <2>1 DEF LateInv
  <2>2. CASE late.kind = "holds" /\ late.holds \subseteq HoldIds \cap Begun
    BY <1>2, <2>2 DEF LateInv
  <2>3. CASE late.kind = "ops" /\ IsSnapshot(late.rows)
    <3>1. SnapshotOf(late.rows, Begun')
      BY <2>3, SnapshotGrows DEF IsSnapshot
    <3> QED
      BY <1>2, <2>3, <3>1 DEF LateInv, IsSnapshot
  <2> QED
    BY <2>1, <2>2, <2>3 DEF LateInv
<1>3. CASE late' = None
  BY <1>3 DEF LateInv
<1> QED
  BY <1>1, <1>2, <1>3

\* What a poll shows the pane, whether it was read now or long ago.
LEMMA TicksLand ==
    ASSUME PaneInv, Ticks
    PROVE  \/ SkipsTick
           \/ \E hs \in SUBSET (HoldIds \cap Begun) : paused = 0 /\ HoldsLand(hs)
           \/ \E os : paused = 0 /\ IsSnapshot(os) /\ OpsLand(os)
<1>1. CASE PollHolds
  <2>1. holds \in SUBSET (HoldIds \cap Begun)
    BY DEF PaneInv, DaemonInv
  <2> QED
    BY <1>1, <2>1 DEF PollHolds, HoldsLand
<1>2. CASE PollOps
  <2>1. IsSnapshot(rows)
    BY DEF PaneInv, DaemonInv
  <2> QED
    BY <1>2, <2>1 DEF PollOps, OpsLand
<1>3. CASE LateLands
  <2>1. CASE late.kind = "holds" /\ HoldsLand(late.holds)
    <3>1. late.holds \in SUBSET (HoldIds \cap Begun)
      BY <1>3, <2>1 DEF LateLands, PaneInv, LateInv
    <3> QED
      BY <2>1, <3>1 DEF HoldsLand
  <2>2. CASE late.kind = "ops" /\ OpsLand(late.rows)
    <3>1. IsSnapshot(late.rows)
      BY <1>3, <2>2 DEF LateLands, PaneInv, LateInv
    <3> QED
      BY <2>2, <3>1 DEF OpsLand
  <2> QED
    BY <1>3, <2>1, <2>2 DEF LateLands
<1> QED
  BY <1>1, <1>2, <1>3 DEF Ticks

\* The pane shows a snapshot, the one it has or the one that lands.
LEMMA ShownStays ==
    ASSUME ShownInv, Begun \subseteq Begun', UNCHANGED ops, held' \subseteq HoldIds \cap Begun
    PROVE  ShownInv'
<1>1. SnapshotOf(ops, Begun')
  BY SnapshotGrows DEF ShownInv, IsSnapshot
<1> QED
  BY <1>1 DEF ShownInv, IsSnapshot

LEMMA NextKeepsShown ==
    ASSUME PaneInv, Next, Begun \subseteq Begun'
    PROVE  ShownInv'
<1>0. ShownInv /\ held \subseteq HoldIds \cap Begun
  BY DEF PaneInv, ShownInv
<1>1. CASE Ticks
  <2>1. CASE SkipsTick
    BY <1>0, <2>1, ShownStays DEF SkipsTick
  <2>2. ASSUME NEW hs \in SUBSET (HoldIds \cap Begun), paused = 0, HoldsLand(hs)
        PROVE  ShownInv'
    <3>1. UNCHANGED ops /\ held' = hs
      BY <2>2 DEF HoldsLand, SkipsTick
    <3> QED
      BY <1>0, <3>1, ShownStays
  <2>3. ASSUME NEW os, paused = 0, IsSnapshot(os), OpsLand(os)
        PROVE  ShownInv'
    <3>1. ops' = os /\ held' = held
      BY <2>3 DEF OpsLand, SkipsTick
    <3>2. SnapshotOf(os, Begun')
      BY <2>3, SnapshotGrows DEF IsSnapshot
    <3> QED
      BY <1>0, <3>1, <3>2 DEF ShownInv, IsSnapshot
  <2> QED
    BY <1>1, <2>1, <2>2, <2>3, TicksLand
<1>2. CASE \E s \in Slots : CallReturns(s)
  BY <1>0, <1>2, ShownStays DEF CallReturns
<1>3. CASE UNCHANGED <<ops, held>>
  BY <1>0, <1>3, ShownStays
<1>4. ASSUME Operator \/ (\E s \in Slots : CallRuns(s) \/ CallFails(s))
               \/ (\E r \in Requests : Begin(r) \/ Enqueue(r) \/ Mark(r) \/ Signal(r) \/ Finish(r))
               \/ (\E h \in HoldIds : Resolve(h))
      PROVE  UNCHANGED <<ops, held>>
  BY <1>4 DEF Operator, KeyUp, KeyDown, KeyHome, KeyEnd, KeyPanel, KeyOther, KeyVerdict, Moves,
     CallRuns, CallFails, Begin, Enqueue, Mark, Signal, Finish, Resolve, pane
<1> QED
  BY <1>1, <1>2, <1>3, <1>4 DEF Next

LEMMA NextKeepsLate ==
    ASSUME PaneInv, Next, Begun \subseteq Begun'
    PROVE  LateInv'
<1>1. Overtakes \/ UNCHANGED late \/ late' = None
  BY DEF Next, Ticks, PollHolds, PollOps, LateLands, Operator, KeyUp, KeyDown, KeyHome, KeyEnd,
     KeyPanel, KeyOther, KeyVerdict, Moves, CallRuns, CallFails, CallReturns, Begin, Enqueue, Mark,
     Signal, Finish, Resolve, runtime
<1> QED
  BY <1>1, OvertakesKeeps DEF PaneInv

\* Whatever the polls, the operator, the calls and the daemon do, the pane shows
\* snapshots of the ring (reducer.go, applyTick and applyOpsTick).
THEOREM PaneInvariant == Spec => []PaneInv
<1>1. Init => PaneInv
  <2> SUFFICES ASSUME Init PROVE PaneInv
    OBVIOUS
  <2>1. clock = <<>> /\ rows = <<>> /\ ops = <<>>
    BY DEF Init
  <2>2. Begun = {} /\ Ordered
    BY <2>1, EmptySeq DEF Begun, Elems, Ordered
  <2>3. IsSnapshot(rows) /\ IsSnapshot(ops)
    BY <2>1, EmptySeq DEF IsSnapshot, SnapshotOf
  <2> QED
    BY <2>2, <2>3 DEF Init, PaneInv, DaemonInv, LateInv, ShownInv, Phases
<1>2. PaneInv /\ [Next]_vars => PaneInv'
  <2> SUFFICES ASSUME PaneInv, [Next]_vars PROVE PaneInv'
    OBVIOUS
  <2>1. CASE Next
    BY <2>1, NextKeepsDaemon, NextKeepsLate, NextKeepsShown DEF PaneInv
  <2>2. CASE UNCHANGED vars
    <3>1. UNCHANGED daemon /\ UNCHANGED <<ops, held, late>>
      BY <2>2 DEF vars, pane, runtime
    <3>2. DaemonInv' /\ Begun \subseteq Begun'
      BY <3>1, DaemonStays DEF PaneInv
    <3>3. LateInv'
      BY <3>1, <3>2, OvertakesKeeps DEF PaneInv
    <3>4. ShownInv'
      BY <3>1, <3>2, ShownStays DEF PaneInv, ShownInv
    <3> QED
      BY <3>2, <3>3, <3>4 DEF PaneInv
  <2> QED
    BY <2>1, <2>2
<1> QED
  BY <1>1, <1>2, PTL DEF Spec

\* Each hold the pane knows of has one row (reducer.go, DisplayedOps).
THEOREM HoldsHaveOneRow == Spec => []EachHoldHasOneRow
<1>1. PaneInv => EachHoldHasOneRow
  <2> SUFFICES ASSUME PaneInv, NEW h \in held
               PROVE  Cardinality({i \in DOMAIN Shown : Shown[i].hold = h}) = 1
    BY DEF EachHoldHasOneRow
  <2>1. Ordered /\ IsSnapshot(ops) /\ held \in SUBSET (HoldIds \cap Begun)
    BY DEF PaneInv, DaemonInv, ShownInv
  <2>2. /\ \A i, j \in DOMAIN Shown :
              Shown[i].hold = Shown[j].hold /\ Shown[i].hold # None => i = j
        /\ \E i \in DOMAIN Shown : Shown[i].hold = h
    BY <2>1, DisplayedShows DEF Shown
  <2>3. h # None
    BY <2>1, ConstantsAssumption
  <2>4. PICK i \in DOMAIN Shown : Shown[i].hold = h
    BY <2>2
  <2>5. {j \in DOMAIN Shown : Shown[j].hold = h} = {i}
    BY <2>2, <2>3, <2>4
  <2> QED
    BY <2>5, FS_Singleton
<1> QED
  BY <1>1, PaneInvariant, PTL


-----------------------------------------------------------------------------
(***************************************************************************)
(* The cursor.                                                             *)
(***************************************************************************)
\* The open rows are the last ones of the displayed list.
LEMMA OpenRowsLast ==
    ASSUME PaneInv
    PROVE  /\ DOMAIN Shown = 1..Len(Shown) /\ Len(Shown) \in Nat
           /\ \A i, j \in DOMAIN Shown : IsOpen(Shown, i) /\ i <= j => IsOpen(Shown, j)
<1> DEFINE m == Cardinality(ResolvedReps(ops))
<1>1. Ordered /\ IsSnapshot(ops) /\ held \in SUBSET (HoldIds \cap Begun)
  BY DEF PaneInv, DaemonInv, ShownInv
<1>2. /\ DOMAIN Shown = 1..Len(Shown) /\ Len(Shown) \in Nat /\ m \in Nat
      /\ \A i \in DOMAIN Shown : Resolved(Shown[i]) <=> i <= m
  BY <1>1, DisplayedShows DEF Shown
<1> HIDE DEF m
<1> QED
  BY <1>2 DEF IsOpen

\* A cursor that prefers open rows is on one after a rebuild, if there is one.
LEMMA StuckIsOpen ==
    ASSUME NEW list, NEW i, NEW wanted, wanted, BottomOpen(list) # 0
    PROVE  IsOpen(list, Stuck(i, list, wanted).at)
<1>1. CASE IsOpen(list, i)
  BY <1>1 DEF Stuck
<1>2. CASE ~IsOpen(list, i)
  <2>1. IsOpen(list, Len(list)) /\ BottomOpen(list) = Len(list)
    BY DEF BottomOpen
  <2>2. list # <<>>
    BY <2>1 DEF IsOpen
  <2> QED
    BY <1>2, <2>1, <2>2 DEF Stuck
<1> QED
  BY <1>1, <1>2

\* A poll that is taken keeps the cursor on the open rows.
LEMMA RebuiltIsOpen ==
    ASSUME NEW os, NEW hs, IsOpen(Shown, selected), BottomOpen(Displayed(os, hs)) # 0
    PROVE  IsOpen(Displayed(os, hs), Rebuilt(os, hs).at)
<1> DEFINE new == Displayed(os, hs)
           i == Clamped(Preserved(Shown, selected, new), new)
<1>1. Rebuilt(os, hs) = Stuck(i, new, prefer \/ IsOpen(Shown, selected))
  BY DEF Rebuilt, Shown
<1> HIDE DEF new, i
<1> QED
  BY <1>1, StuckIsOpen DEF new

LEMMA TicksStayOpen ==
    ASSUME PaneInv, Ticks, IsOpen(Shown, selected), BottomOpen(Displayed(ops', held')) # 0
    PROVE  IsOpen(Displayed(ops', held'), selected')
<1>1. CASE SkipsTick
  BY <1>1 DEF SkipsTick, Shown
<1>2. ASSUME NEW hs \in SUBSET (HoldIds \cap Begun), paused = 0, HoldsLand(hs), ~SkipsTick
      PROVE  IsOpen(Displayed(ops', held'), selected')
  <2>1. ops' = ops /\ held' = hs /\ selected' = Rebuilt(ops, hs).at
    BY <1>2 DEF HoldsLand
  <2> QED
    BY <2>1, RebuiltIsOpen
<1>3. ASSUME NEW os, paused = 0, IsSnapshot(os), OpsLand(os), ~SkipsTick
      PROVE  IsOpen(Displayed(ops', held'), selected')
  <2> DEFINE new == Displayed(os, held)
  <2>1. ops' = os /\ held' = held
    BY <1>3 DEF OpsLand
  <2>2. \/ selected' = Rebuilt(os, held).at
        \/ IsPending(new, Len(new)) /\ selected' = Len(new)
    BY <1>3 DEF OpsLand
  <2>3. IsOpen(new, Rebuilt(os, held).at)
    BY <2>1, RebuiltIsOpen
  <2>4. IsPending(new, Len(new)) => IsOpen(new, Len(new))
    BY DEF IsPending, IsOpen, Resolved, Open
  <2> QED
    BY <2>1, <2>2, <2>3, <2>4
<1> QED
  BY <1>1, <1>2, <1>3, TicksLand

\* The answer of a call leaves the resolved rows, and so the first open one, alone.
LEMMA CallReturnsStaysOpen ==
    ASSUME PaneInv, NEW s \in Slots, CallReturns(s),
           IsOpen(Shown, selected), BottomOpen(Displayed(ops', held')) # 0
    PROVE  IsOpen(Displayed(ops', held'), selected')
<1> DEFINE new == Displayed(ops, held')
           m == Cardinality(ResolvedReps(ops))
<1>1. /\ Ordered /\ IsSnapshot(ops) /\ held \in SUBSET (HoldIds \cap Begun)
      /\ ops' = ops /\ held' \in SUBSET (HoldIds \cap Begun)
      /\ selected' = Clamped(selected, new)
  BY DEF PaneInv, DaemonInv, ShownInv, CallReturns
<1>2. /\ DOMAIN Shown = 1..Len(Shown) /\ m \in Nat
      /\ \A i \in DOMAIN Shown : Resolved(Shown[i]) <=> i <= m
  BY <1>1, DisplayedShows DEF Shown
<1>3. /\ DOMAIN new = 1..Len(new) /\ Len(new) \in Nat
      /\ \A i \in DOMAIN new : Resolved(new[i]) <=> i <= m
  BY <1>1, DisplayedShows
<1>4. BottomOpen(new) # 0
  BY <1>1
<1> HIDE DEF new, m
<1>5. selected \in 1..Len(Shown) /\ ~(selected <= m)
  BY <1>2 DEF IsOpen
<1>6. IsOpen(new, Len(new)) /\ new # <<>>
  BY <1>4 DEF BottomOpen, IsOpen
<1>7. CASE selected > Len(new)
  BY <1>1, <1>5, <1>6, <1>7 DEF Clamped, new
<1>8. CASE ~(selected > Len(new))
  <2>1. selected' = selected /\ selected \in DOMAIN new
    BY <1>1, <1>3, <1>5, <1>6, <1>8 DEF Clamped
  <2>2. IsOpen(new, selected')
    BY <1>3, <1>5, <2>1 DEF IsOpen
  <2> QED
    BY <1>1, <2>2 DEF new
<1> QED
  BY <1>7, <1>8

\* Nothing but Up and Home takes the cursor off the open rows (reducer.go,
\* applyCursorPendingStickiness, applyActionResult and clampSelection).
THEOREM CursorStays == Spec => CursorStaysOnOpenRows
<1> DEFINE stays == IsOpen(Shown, selected) /\ BottomOpen(Displayed(ops', held')) # 0
                    => IsOpen(Displayed(ops', held'), selected') \/ KeyUp \/ KeyHome
<1>1. PaneInv /\ [Next]_vars => [stays]_vars
  <2> SUFFICES ASSUME PaneInv, Next, ~KeyUp, ~KeyHome,
                      IsOpen(Shown, selected), BottomOpen(Displayed(ops', held')) # 0
               PROVE  IsOpen(Displayed(ops', held'), selected')
    OBVIOUS
  <2>1. CASE UNCHANGED <<ops, held, selected>>
    BY <2>1 DEF Shown
  <2>2. CASE Ticks
    BY <2>2, TicksStayOpen
  <2>3. CASE KeyDown
    <3>1. /\ ops' = ops /\ held' = held
          /\ selected' = IF selected < Len(Shown) THEN selected + 1 ELSE selected
      BY <2>3 DEF KeyDown, Moves
    <3>2. /\ selected \in 1..Len(Shown) /\ Len(Shown) \in Nat /\ DOMAIN Shown = 1..Len(Shown)
      BY OpenRowsLast DEF IsOpen
    <3>3. selected' \in 1..Len(Shown) /\ selected <= selected'
      BY <3>1, <3>2
    <3>4. IsOpen(Shown, selected')
      BY <3>2, <3>3, OpenRowsLast
    <3> QED
      BY <3>1, <3>4 DEF Shown
  <2>4. CASE KeyEnd
    <3>1. /\ ops' = ops /\ held' = held
          /\ selected' = IF Shown = <<>> THEN selected ELSE Len(Shown)
      BY <2>4 DEF KeyEnd, Moves
    <3>2. BottomOpen(Shown) # 0
      BY <3>1 DEF Shown
    <3>3. IsOpen(Shown, Len(Shown))
      BY <3>2 DEF BottomOpen
    <3> QED
      BY <3>1, <3>3 DEF Shown
  <2>5. ASSUME NEW s \in Slots, CallReturns(s)
        PROVE  IsOpen(Displayed(ops', held'), selected')
    BY <2>5, CallReturnsStaysOpen
  <2>6. ASSUME KeyPanel \/ KeyOther \/ KeyVerdict
               \/ (\E s \in Slots : CallRuns(s) \/ CallFails(s))
               \/ (\E r \in Requests : Begin(r) \/ Enqueue(r) \/ Mark(r) \/ Signal(r) \/ Finish(r))
               \/ (\E h \in HoldIds : Resolve(h))
        PROVE  UNCHANGED <<ops, held, selected>>
    BY <2>6 DEF KeyPanel, KeyOther, KeyVerdict, CallRuns, CallFails, Begin, Enqueue, Mark, Signal,
       Finish, Resolve, pane
  <2> QED
    BY <2>1, <2>2, <2>3, <2>4, <2>5, <2>6 DEF Next, Operator
<1> HIDE DEF stays
<1>2. Spec => [][stays]_vars
  BY <1>1, PaneInvariant, PTL DEF Spec
<1> QED
  BY <1>2 DEF CursorStaysOnOpenRows, stays


\* The row of a hold is found again as long as it is there: it is the only row of
\* its key, and it is pending, so that neither the operator's idle time nor the
\* preference for open rows moves the cursor.
LEMMA RebuiltFollows ==
    ASSUME PaneInv, NEW os, IsSnapshot(os), NEW hs \in SUBSET (HoldIds \cap Begun),
           selected \in DOMAIN Shown, Shown[selected].hold # None,
           NEW j \in DOMAIN Displayed(os, hs),
           Displayed(os, hs)[j].hold = Shown[selected].hold
    PROVE  Rebuilt(os, hs).at = j /\ IsPending(Displayed(os, hs), j)
<1> DEFINE old == Shown
           new == Displayed(os, hs)
           i == selected
           sameGroup == {k \in DOMAIN new : /\ GroupKey(new[k]) = GroupKey(old[i])
                                            /\ IsOpen(old, i) => IsOpen(new, k)}
<1>1. /\ Ordered /\ IsSnapshot(ops) /\ held \in SUBSET (HoldIds \cap Begun)
  BY DEF PaneInv, DaemonInv, ShownInv
<1>2. \A k \in DOMAIN old : old[k].status = "pending" <=> old[k].hold # None
  BY <1>1, DisplayedShows DEF Shown
<1>3. /\ \A k \in DOMAIN new : new[k].status = "pending" <=> new[k].hold # None
      /\ \A k, l \in DOMAIN new : new[k].hold = new[l].hold /\ new[k].hold # None => k = l
      /\ DOMAIN new = 1..Len(new) /\ Len(new) \in Nat
  BY <1>1, DisplayedShows
<1>4. Rebuilt(os, hs) = Stuck(Clamped(Preserved(old, i, new), new), new, prefer \/ IsOpen(old, i))
  BY DEF Rebuilt, Shown
<1>5. i \in DOMAIN old /\ old[i].hold # None /\ j \in DOMAIN new /\ new[j].hold = old[i].hold
  OBVIOUS
<1>6. new[j].status = "pending"
  BY <1>3, <1>5
<1> HIDE DEF old, new, i
<1>7. ~Resolved(old[i]) /\ IsOpen(new, j) /\ IsPending(new, j)
  BY <1>2, <1>5, <1>6 DEF Resolved, Open, IsOpen, IsPending
<1>8. sameGroup = {j}
  <2>1. j \in sameGroup
    BY <1>5, <1>7, HoldKeys DEF IsOpen
  <2>2. ASSUME NEW k \in sameGroup PROVE k = j
    <3>1. k \in DOMAIN new /\ new[k].hold = old[i].hold
      BY <1>5, <1>7, HoldKeys
    <3> QED
      BY <1>3, <1>5, <3>1
  <2> QED
    BY <2>1, <2>2
<1>9. Preserved(old, i, new) = CHOOSE k \in sameGroup : \A l \in sameGroup : k <= l
  BY <1>5, <1>8 DEF Preserved
<1>10. j \in Nat
  BY <1>3, <1>5
<1> HIDE DEF sameGroup
<1>11. Preserved(old, i, new) = j
  BY <1>8, <1>9, <1>10
<1>12. Clamped(j, new) = j /\ new # <<>>
  BY <1>3, <1>5 DEF Clamped
<1>13. Stuck(j, new, prefer \/ IsOpen(old, i)).at = j
  BY <1>7 DEF Stuck
<1>14. Rebuilt(os, hs).at = j
  BY <1>4, <1>11, <1>12, <1>13
<1> QED
  BY <1>7, <1>14 DEF new

LEMMA TicksFollow ==
    ASSUME PaneInv, Ticks, OnHold(Shown, selected) # None,
           \E row \in Elems(Displayed(ops', held')) : row.hold = OnHold(Shown, selected)
    PROVE  OnHold(Displayed(ops', held'), selected') = OnHold(Shown, selected)
<1>0. /\ selected \in DOMAIN Shown /\ Shown[selected].hold # None
      /\ OnHold(Shown, selected) = Shown[selected].hold
  BY DEF OnHold
<1>1. PICK j \in DOMAIN Displayed(ops', held') :
         Displayed(ops', held')[j].hold = Shown[selected].hold
  BY <1>0 DEF Elems
<1>2. IsSnapshot(ops) /\ held \in SUBSET (HoldIds \cap Begun)
  BY DEF PaneInv, ShownInv
<1>3. CASE SkipsTick
  BY <1>3 DEF SkipsTick, Shown
<1>4. ASSUME NEW hs \in SUBSET (HoldIds \cap Begun), paused = 0, HoldsLand(hs), ~SkipsTick
      PROVE  selected' = j
  <2>1. ops' = ops /\ held' = hs /\ selected' = Rebuilt(ops, hs).at
    BY <1>4 DEF HoldsLand
  <2> QED
    BY <1>0, <1>1, <1>2, <2>1, RebuiltFollows
<1>5. ASSUME NEW os, paused = 0, IsSnapshot(os), OpsLand(os), ~SkipsTick
      PROVE  selected' = j
  <2>1. ops' = os /\ held' = held
    BY <1>5 DEF OpsLand
  <2>2. Rebuilt(os, held).at = j /\ IsPending(Displayed(os, held), j)
    BY <1>0, <1>1, <1>2, <1>5, <2>1, RebuiltFollows
  <2>3. ~IsPending(Displayed(os, held), Rebuilt(os, held).at) \/ selected' = Rebuilt(os, held).at
    BY <1>5 DEF OpsLand
  <2> QED
    BY <2>2, <2>3
<1>6. selected' = j => OnHold(Displayed(ops', held'), selected') = OnHold(Shown, selected)
  BY <1>0, <1>1 DEF OnHold
<1> QED
  BY <1>3, <1>4, <1>5, <1>6, TicksLand

\* A poll leaves the cursor on its hold (reducer.go, preserveSelection and the idle
\* snap of applyOpsTick).
THEOREM PollsKeep == Spec => PollsKeepTheHold
<1> DEFINE keeps == OnHold(Shown, selected) # None
                    /\ OnHold(Displayed(ops', held'), selected') # OnHold(Shown, selected)
                    /\ (\E row \in Elems(Displayed(ops', held')) :
                           row.hold = OnHold(Shown, selected))
                    => ~Ticks
<1>1. PaneInv /\ [Next]_vars => [keeps]_vars
  BY TicksFollow
<1> HIDE DEF keeps
<1>2. Spec => [][keeps]_vars
  BY <1>1, PaneInvariant, PTL DEF Spec
<1> QED
  BY <1>2 DEF PollsKeepTheHold, keeps


-----------------------------------------------------------------------------
(***************************************************************************)
(* The types of the pane.  The cursor is on a row of the list the pane     *)
(* shows, which what arrives later does not change.                        *)
(***************************************************************************)
Places(c, S) == {i \in DOMAIN c : \E row \in S : RequestKey(row) = c[i]}

ByStartIn(c, S) ==
    LET order == Only(c, Places(c, S))
    IN [n \in DOMAIN order |-> CHOOSE row \in S : RequestKey(row) = order[n]]

DisplayedIn(c, os, hs) ==
    Only(os, ResolvedReps(os)) \o ByStartIn(c, OpenRows(os, hs))

LEMMA ShownIn ==
    /\ Shown = DisplayedIn(clock, ops, held)
    /\ Shown' = DisplayedIn(clock', ops', held')
    /\ \A os, hs : Displayed(os, hs) = DisplayedIn(clock, os, hs)
BY DEF Shown, Displayed, DisplayedIn, ByStart, ByStartIn, Places, ResolvedReps, OpenRows

LEMMA ShownUnmoved ==
    ASSUME PaneInv, UNCHANGED <<ops, held>>, UNCHANGED clock \/ \E k : Arrives(k)
    PROVE  Shown' = Shown
<1>1. CASE UNCHANGED clock
  BY <1>1, ShownIn
<1>2. ASSUME NEW k, Arrives(k) PROVE Shown' = Shown
  <2> DEFINE S == OpenRows(ops, held)
             c == clock
  <2>1. /\ c \in Seq(Requests \cup HoldIds) /\ k \in Requests \cup HoldIds /\ k \notin Elems(c)
        /\ clock' = Append(c, k)
    BY <1>2 DEF Arrives, PaneInv, DaemonInv, Ordered, Begun
  <2>2. \A a \in S : RequestKey(a) \in Elems(c)
    <3>1. IsSnapshot(ops) /\ held \in SUBSET (HoldIds \cap Begun)
      BY DEF PaneInv, ShownInv
    <3>2. \A a \in OpenRows(ops, held) : RequestKey(a) \in Begun
      BY <3>1, OpenRowsApart
    <3> QED
      BY <3>2 DEF Begun
  <2> HIDE DEF S, c
  <2>3. Only(Append(c, k), Places(Append(c, k), S)) = Only(c, Places(c, S))
    BY <2>1, <2>2, ByStartStays DEF Places
  <2>4. ByStartIn(Append(c, k), S) = ByStartIn(c, S)
    BY <2>3 DEF ByStartIn
  <2>5. DisplayedIn(clock', ops, held) = DisplayedIn(clock, ops, held)
    BY <2>1, <2>4 DEF DisplayedIn, S, c
  <2> QED
    BY <2>5, ShownIn
<1> QED
  BY <1>1, <1>2

\* Where the helpers of the cursor leave it.
LEMMA ClampedType ==
    ASSUME NEW list \in Seq(RowType), NEW i \in Int
    PROVE  Clamped(i, list) \in 0..Len(list)
<1>1. Len(list) \in Nat /\ list # <<>> => Len(list) # 0
  BY EmptySeq, LenProperties
<1> QED
  BY <1>1 DEF Clamped

LEMMA StuckType ==
    ASSUME NEW list \in Seq(RowType), NEW i \in 0..Len(list), NEW wanted \in BOOLEAN
    PROVE  /\ Stuck(i, list, wanted).at \in 0..Len(list)
           /\ Stuck(i, list, wanted).prefer \in BOOLEAN
<1>1. Len(list) \in Nat
  BY LenProperties
<1>2. BottomOpen(list) \in 0..Len(list)
  BY <1>1 DEF BottomOpen
<1>3. CASE list = <<>> \/ IsOpen(list, i) \/ ~wanted \/ BottomOpen(list) = 0
  <2>1. Stuck(i, list, wanted) = [at |-> i, prefer |-> wanted \/ IsOpen(list, i)]
    BY <1>3 DEF Stuck
  <2>2. (wanted \/ IsOpen(list, i)) \in BOOLEAN
    OBVIOUS
  <2> QED
    BY <2>1, <2>2
<1>4. CASE ~(list = <<>> \/ IsOpen(list, i) \/ ~wanted \/ BottomOpen(list) = 0)
  <2>1. Stuck(i, list, wanted) = [at |-> BottomOpen(list), prefer |-> TRUE]
    BY <1>4 DEF Stuck
  <2> QED
    BY <1>2, <2>1
<1> QED
  BY <1>3, <1>4

LEMMA PreservedType ==
    ASSUME NEW old, NEW list \in Seq(RowType), NEW i \in Nat
    PROVE  Preserved(old, i, list) \in Nat
<1> DEFINE accepts(j) == IsOpen(old, i) => IsOpen(list, j)
           sameGroup == {j \in DOMAIN list : GroupKey(list[j]) = GroupKey(old[i]) /\ accepts(j)}
           sameRequest == {j \in DOMAIN list : RequestKey(list[j]) = RequestKey(old[i]) /\ accepts(j)}
           first(S) == CHOOSE j \in S : \A k \in S : j <= k
<1>1. DOMAIN list = 1..Len(list) /\ Len(list) \in Nat /\ IsFiniteSet(DOMAIN list)
  BY LenProperties, FS_Interval
<1>2. sameGroup \in SUBSET DOMAIN list /\ sameRequest \in SUBSET DOMAIN list
  OBVIOUS
<1>3. ASSUME NEW S \in SUBSET DOMAIN list, S # {} PROVE first(S) \in Nat
  <2>1. IsFiniteSet(S) /\ S \in SUBSET Nat
    BY <1>1, FS_Subset
  <2>2. \E j \in S : \A k \in S : j <= k
    BY <1>3, <2>1, LeastPosition
  <2> QED
    BY <2>1, <2>2
<1>4. Preserved(old, i, list) =
         IF i \notin DOMAIN old THEN i
         ELSE IF sameGroup # {} THEN first(sameGroup)
         ELSE IF sameRequest # {} THEN first(sameRequest)
         ELSE IF IsOpen(old, i) THEN BottomOpen(list) ELSE 0
  BY DEF Preserved
<1>5. BottomOpen(list) \in Nat
  BY <1>1 DEF BottomOpen
<1> HIDE DEF sameGroup, sameRequest, first
<1> QED
  BY <1>2, <1>3, <1>4, <1>5

LEMMA RebuiltType ==
    ASSUME PaneInv, TypeOK, NEW os, IsSnapshot(os), NEW hs \in SUBSET (HoldIds \cap Begun)
    PROVE  /\ Rebuilt(os, hs).at \in 0..Len(Displayed(os, hs))
           /\ Rebuilt(os, hs).prefer \in BOOLEAN
           /\ Len(Displayed(os, hs)) \in Nat
<1> DEFINE new == Displayed(os, hs)
           p == Preserved(Shown, selected, new)
           w == prefer \/ IsOpen(Shown, selected)
<1>1. Ordered
  BY DEF PaneInv, DaemonInv
<1>2. new \in Seq(RowType) /\ Len(new) \in Nat
  BY <1>1, DisplayedShows
<1>3. Rebuilt(os, hs) = Stuck(Clamped(p, new), new, w)
  BY DEF Rebuilt, Shown
<1>4. selected \in Nat
  <2>1. Len(Shown) \in Nat
    BY OpenRowsLast
  <2> QED
    BY <2>1 DEF TypeOK
<1>5. w \in BOOLEAN
  OBVIOUS
<1> HIDE DEF new, w
<1>6. p \in Nat
  BY <1>2, <1>4, PreservedType
<1> HIDE DEF p
<1>7. Clamped(p, new) \in 0..Len(new)
  BY <1>2, <1>6, ClampedType
<1> QED
  BY <1>2, <1>3, <1>5, <1>7, StuckType DEF new


\* What is typed beside what PaneInv says.
CursorTyped ==
    /\ selected \in 0..Len(Shown)
    /\ paused \in 0..PauseTicks
    /\ idle \in 0..(SnapTicks - 1)
    /\ prefer \in BOOLEAN

CallsTyped == calls \in [Slots -> {None} \cup [hold : HoldIds, done : BOOLEAN]]

LEMMA ClockArrives ==
    ASSUME PaneInv, Next
    PROVE  UNCHANGED clock \/ \E k : Arrives(k)
<1>1. ASSUME NEW r \in Requests, Begin(r) PROVE Arrives(r)
  <2>1. phase[r] = "none" /\ clock' = Append(clock, r)
    BY <1>1 DEF Begin
  <2>2. r \notin Begun
    BY <2>1, ConstantsAssumption DEF PaneInv, DaemonInv
  <2> QED
    BY <2>1, <2>2 DEF Arrives
<1>2. ASSUME NEW r \in Requests, Enqueue(r) PROVE UNCHANGED clock \/ Arrives(HoldOf[r])
  <2>1. /\ HoldOf[r] \notin spent \cup {None}
        /\ clock' = IF HoldOf[r] \in holds THEN clock ELSE Append(clock, HoldOf[r])
    BY <1>2 DEF Enqueue
  <2>2. HoldOf[r] \in HoldIds /\ HoldOf[r] \notin Requests
    BY <2>1, ConstantsAssumption
  <2>3. CASE HoldOf[r] \notin holds
    <3>1. HoldOf[r] \notin Begun
      BY <2>1, <2>2, <2>3 DEF PaneInv, DaemonInv
    <3> QED
      BY <2>1, <2>2, <2>3, <3>1 DEF Arrives
  <2> QED
    BY <2>1, <2>3
<1>3. ASSUME Ticks \/ Operator \/ (\E s \in Slots : CallRuns(s) \/ CallFails(s) \/ CallReturns(s))
               \/ (\E r \in Requests : Mark(r) \/ Signal(r) \/ Finish(r))
               \/ (\E h \in HoldIds : Resolve(h))
      PROVE  UNCHANGED clock
  BY <1>3 DEF Ticks, PollHolds, PollOps, LateLands, Operator, KeyUp, KeyDown, KeyHome, KeyEnd,
     KeyPanel, KeyOther, KeyVerdict, Moves, CallRuns, CallFails, CallReturns, Mark, Signal, Finish,
     Resolve, daemon
<1> QED
  BY <1>1, <1>2, <1>3 DEF Next

LEMMA TicksKeepCursorTyped ==
    ASSUME PaneInv, TypeOK, Ticks
    PROVE  CursorTyped'
<1>1. UNCHANGED clock
  BY DEF Ticks, PollHolds, PollOps, LateLands, daemon
<1>2. Shown' = Displayed(ops', held')
  BY <1>1, ShownIn
<1>3. IsSnapshot(ops) /\ held \in SUBSET (HoldIds \cap Begun)
  BY DEF PaneInv, ShownInv
<1>4. PauseTicks \in Nat /\ SnapTicks \in Nat \ {0}
  BY ConstantsAssumption
<1>5. CASE SkipsTick
  <2>1. /\ UNCHANGED <<ops, held, selected, idle, prefer>> /\ paused > 0 /\ paused' = paused - 1
    BY <1>5 DEF SkipsTick
  <2>2. Shown' = Shown
    BY <1>1, <2>1, ShownUnmoved
  <2>3. paused' \in 0..PauseTicks
    BY <1>4, <2>1 DEF TypeOK
  <2> QED
    BY <2>1, <2>2, <2>3 DEF TypeOK, CursorTyped
<1>6. ASSUME NEW hs \in SUBSET (HoldIds \cap Begun), paused = 0, HoldsLand(hs), ~SkipsTick
      PROVE  CursorTyped'
  <2>1. /\ ops' = ops /\ held' = hs /\ UNCHANGED <<paused, idle>>
        /\ selected' = Rebuilt(ops, hs).at /\ prefer' = Rebuilt(ops, hs).prefer
    BY <1>6 DEF HoldsLand
  <2>2. selected' \in 0..Len(Displayed(ops, hs)) /\ prefer' \in BOOLEAN
    BY <1>3, <2>1, RebuiltType
  <2> QED
    BY <1>2, <2>1, <2>2 DEF TypeOK, CursorTyped
<1>7. ASSUME NEW os, paused = 0, IsSnapshot(os), OpsLand(os), ~SkipsTick
      PROVE  CursorTyped'
  <2> DEFINE shownNext == Displayed(os, held)
  <2>1. ops' = os /\ held' = held /\ UNCHANGED paused /\ prefer' = Rebuilt(os, held).prefer
    BY <1>7 DEF OpsLand
  <2>2. selected' = Rebuilt(os, held).at \/ selected' = Len(shownNext)
    BY <1>7 DEF OpsLand
  <2>3. idle' = 0 \/ (idle + 1 < SnapTicks /\ idle' = idle + 1) \/ idle' = idle
    BY <1>7 DEF OpsLand
  <2>4. idle' \in 0..(SnapTicks - 1)
    BY <1>4, <2>3 DEF TypeOK
  <2>5. /\ Rebuilt(os, held).at \in 0..Len(shownNext) /\ Rebuilt(os, held).prefer \in BOOLEAN
        /\ Len(shownNext) \in Nat
    BY <1>3, <1>7, RebuiltType
  <2> HIDE DEF shownNext
  <2>6. selected' \in 0..Len(shownNext)
    BY <2>2, <2>5
  <2> QED
    BY <1>2, <2>1, <2>4, <2>5, <2>6 DEF TypeOK, CursorTyped, shownNext
<1> QED
  BY <1>5, <1>6, <1>7, TicksLand

LEMMA KeysKeepCursorTyped ==
    ASSUME PaneInv, TypeOK, Operator
    PROVE  CursorTyped'
<1>1. UNCHANGED <<ops, held, clock>>
  BY DEF Operator, KeyUp, KeyDown, KeyHome, KeyEnd, KeyPanel, KeyOther, KeyVerdict, Moves, daemon
<1>2. Shown' = Shown
  BY <1>1, ShownUnmoved
<1>3. /\ PauseTicks \in Nat /\ SnapTicks \in Nat \ {0} /\ Len(Shown) \in Nat
      /\ selected \in 0..Len(Shown)
  BY ConstantsAssumption, OpenRowsLast DEF TypeOK
<1>4. paused' \in {0, PauseTicks, paused} /\ idle' = 0
  BY DEF Operator, KeyUp, KeyDown, KeyHome, KeyEnd, KeyPanel, KeyOther, KeyVerdict, Moves
<1>5. paused' \in 0..PauseTicks /\ idle' \in 0..(SnapTicks - 1)
  BY <1>3, <1>4 DEF TypeOK
<1>6. prefer' \in BOOLEAN
  <2>1. CASE KeyUp
    BY <2>1 DEF KeyUp
  <2>2. CASE UNCHANGED prefer
    BY <2>2 DEF TypeOK
  <2> QED
    BY <2>1, <2>2 DEF Operator, KeyDown, KeyHome, KeyEnd, KeyPanel, KeyOther, KeyVerdict
<1>7. selected' \in 0..Len(Shown)
  <2>1. CASE KeyUp
    <3>1. selected' = IF selected > 1 THEN selected - 1 ELSE selected
      BY <2>1 DEF KeyUp, Moves
    <3> QED
      BY <1>3, <3>1
  <2>2. CASE KeyDown
    <3>1. selected' = IF selected < Len(Shown) THEN selected + 1 ELSE selected
      BY <2>2 DEF KeyDown, Moves
    <3> QED
      BY <1>3, <3>1
  <2>3. CASE KeyHome \/ KeyEnd
    <3>1. selected' \in {selected, Len(Shown)} \/ (selected' = 1 /\ Shown # <<>>)
      BY <2>3 DEF KeyHome, KeyEnd, Moves
    <3>2. Shown # <<>> => Len(Shown) # 0
      <4>1. Shown \in Seq(RowType)
        BY DisplayedShows DEF Shown, PaneInv, DaemonInv, ShownInv
      <4> QED
        BY <4>1, EmptySeq
    <3> QED
      BY <1>3, <3>1, <3>2
  <2>4. CASE KeyPanel \/ KeyOther \/ KeyVerdict
    BY <1>3, <2>4 DEF KeyPanel, KeyOther, KeyVerdict
  <2> QED
    BY <2>1, <2>2, <2>3, <2>4 DEF Operator
<1> QED
  BY <1>2, <1>5, <1>6, <1>7 DEF CursorTyped

LEMMA CallReturnsKeepsCursorTyped ==
    ASSUME PaneInv, TypeOK, NEW s \in Slots, CallReturns(s)
    PROVE  CursorTyped'
<1>1. /\ UNCHANGED <<clock, ops, paused, idle, prefer>>
      /\ held' \in SUBSET (HoldIds \cap Begun)
      /\ selected' = Clamped(selected, Displayed(ops, held'))
  BY DEF CallReturns, daemon, PaneInv, ShownInv
<1>2. Shown' = Displayed(ops, held')
  BY <1>1, ShownIn
<1>3. Displayed(ops, held') \in Seq(RowType)
  BY <1>1, DisplayedShows DEF PaneInv, DaemonInv, ShownInv
<1>4. selected \in Int
  BY OpenRowsLast DEF TypeOK
<1>5. selected' \in 0..Len(Shown')
  BY <1>1, <1>2, <1>3, <1>4, ClampedType
<1> QED
  BY <1>1, <1>5 DEF CursorTyped, TypeOK

LEMMA NextKeepsCalls ==
    ASSUME PaneInv, TypeOK, Next
    PROVE  CallsTyped'
<1>1. CallsTyped
  BY DEF TypeOK, CallsTyped
<1>2. CASE KeyVerdict
  <2>1. CASE IsPending(Shown, selected)
    <3>1. PICK s \in Slots :
             calls' = [calls EXCEPT ![s] = [hold |-> Shown[selected].hold, done |-> FALSE]]
      BY <1>2, <2>1 DEF KeyVerdict
    <3>2. /\ \A i \in DOMAIN Shown : /\ Shown[i].status = "pending" <=> Shown[i].hold # None
                                     /\ Shown[i].hold \in HoldIds \cup {None}
      BY DisplayedShows DEF Shown, PaneInv, DaemonInv, ShownInv
    <3>3. Shown[selected].hold \in HoldIds
      BY <2>1, <3>2 DEF IsPending
    <3> QED
      BY <1>1, <3>1, <3>3 DEF CallsTyped
  <2>2. CASE ~IsPending(Shown, selected)
    BY <1>1, <1>2, <2>2 DEF KeyVerdict, CallsTyped
  <2> QED
    BY <2>1, <2>2
<1>3. ASSUME NEW s \in Slots, CallRuns(s) PROVE CallsTyped'
  <2>1. calls[s] # None /\ calls' = [calls EXCEPT ![s].done = TRUE]
    BY <1>3 DEF CallRuns
  <2>2. calls[s] \in [hold : HoldIds, done : BOOLEAN]
    BY <1>1, <2>1 DEF CallsTyped
  <2> QED
    BY <1>1, <2>1, <2>2 DEF CallsTyped
<1>4. ASSUME NEW s \in Slots, CallFails(s) \/ CallReturns(s) PROVE CallsTyped'
  <2>1. calls' = [calls EXCEPT ![s] = None]
    BY <1>4 DEF CallFails, CallReturns
  <2> QED
    BY <1>1, <2>1 DEF CallsTyped
<1>5. CASE UNCHANGED calls
  BY <1>1, <1>5 DEF CallsTyped
<1>6. ASSUME Ticks \/ KeyUp \/ KeyDown \/ KeyHome \/ KeyEnd \/ KeyPanel \/ KeyOther
               \/ (\E r \in Requests : Begin(r) \/ Enqueue(r) \/ Mark(r) \/ Signal(r) \/ Finish(r))
               \/ (\E h \in HoldIds : Resolve(h))
      PROVE  UNCHANGED calls
  BY <1>6 DEF Ticks, PollHolds, PollOps, LateLands, KeyUp, KeyDown, KeyHome, KeyEnd, KeyPanel,
     KeyOther, Moves, Begin, Enqueue, Mark, Signal, Finish, Resolve, runtime
<1> QED
  BY <1>2, <1>3, <1>4, <1>5, <1>6 DEF Next, Operator

LEMMA NextKeepsCursorTyped ==
    ASSUME PaneInv, TypeOK, Next
    PROVE  CursorTyped'
<1>1. CASE Ticks
  BY <1>1, TicksKeepCursorTyped
<1>2. CASE Operator
  BY <1>2, KeysKeepCursorTyped
<1>3. ASSUME NEW s \in Slots, CallReturns(s) PROVE CursorTyped'
  BY <1>3, CallReturnsKeepsCursorTyped
<1>4. CASE UNCHANGED pane
  <2>1. UNCHANGED <<ops, held, selected, paused, idle, prefer>>
    BY <1>4 DEF pane
  <2>2. Shown' = Shown
    BY <2>1, ClockArrives, ShownUnmoved
  <2> QED
    BY <2>1, <2>2 DEF CursorTyped, TypeOK
<1>5. ASSUME (\E s \in Slots : CallRuns(s) \/ CallFails(s))
               \/ (\E r \in Requests : Begin(r) \/ Enqueue(r) \/ Mark(r) \/ Signal(r) \/ Finish(r))
               \/ (\E h \in HoldIds : Resolve(h))
      PROVE  UNCHANGED pane
  BY <1>5 DEF CallRuns, CallFails, Begin, Enqueue, Mark, Signal, Finish, Resolve
<1> QED
  BY <1>1, <1>2, <1>3, <1>4, <1>5 DEF Next

\* The types of the pane: the cursor (reducer.go, clampSelection and
\* preserveSelection) is on a displayed row, or there is none.
THEOREM PaneTypeCorrect == Spec => []TypeOK
<1>1. Init => TypeOK
  <2> SUFFICES ASSUME Init PROVE TypeOK
    OBVIOUS
  <2>1. /\ clock \in Seq(Requests \cup HoldIds) /\ rows \in Seq(RowType) /\ ops \in Seq(RowType)
    BY EmptySeq DEF Init
  <2>2. calls \in [Slots -> {None} \cup [hold : HoldIds, done : BOOLEAN]]
    BY DEF Init
  <2>3. selected \in 0..Len(Shown)
    <3>1. IsSnapshot(ops) /\ Ordered /\ held \in SUBSET (HoldIds \cap Begun)
      BY <2>1 DEF Init, IsSnapshot, SnapshotOf, Ordered
    <3>2. Len(Shown) \in Nat
      BY <3>1, DisplayedShows DEF Shown
    <3> QED
      BY <3>2 DEF Init
  <2>4. paused \in 0..PauseTicks /\ idle \in 0..(SnapTicks - 1)
    BY ConstantsAssumption DEF Init
  <2>5. prefer \in BOOLEAN
    BY DEF Init
  <2> QED
    BY <2>1, <2>2, <2>3, <2>4, <2>5 DEF Init, TypeOK, Phases
<1>2. PaneInv /\ TypeOK /\ [Next]_vars /\ PaneInv' => TypeOK'
  <2> SUFFICES ASSUME PaneInv, TypeOK, [Next]_vars, PaneInv' PROVE TypeOK'
    OBVIOUS
  <2>1. CursorTyped' /\ CallsTyped'
    <3>1. CASE Next
      BY <3>1, NextKeepsCursorTyped, NextKeepsCalls
    <3>2. CASE UNCHANGED vars
      <4>1. UNCHANGED <<ops, held, clock, selected, paused, idle, prefer, calls>>
        BY <3>2 DEF vars, daemon, pane, runtime
      <4>2. Shown' = Shown
        BY <4>1, ShownUnmoved
      <4> QED
        BY <4>1, <4>2 DEF CursorTyped, CallsTyped, TypeOK
    <3> QED
      BY <3>1, <3>2
  <2>2. /\ phase' \in [Requests -> Phases]
        /\ holds' \subseteq HoldIds /\ spent' \subseteq HoldIds
        /\ clock' \in Seq(Requests \cup HoldIds)
        /\ rows' \in Seq(RowType) /\ ops' \in Seq(RowType)
        /\ held' \subseteq HoldIds
    BY DEF PaneInv, DaemonInv, ShownInv, Ordered, IsSnapshot, SnapshotOf
  <2> QED
    BY <2>1, <2>2 DEF TypeOK, CursorTyped, CallsTyped
<1> QED
  BY <1>1, <1>2, PaneInvariant, PTL DEF Spec
=============================================================================
