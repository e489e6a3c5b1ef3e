---------------------------- MODULE BottomPanel ----------------------------
(***************************************************************************)
(* The lower half of the operator UI: which panel is open and which pane   *)
(* has the keyboard, the console input, the editor of the allow and deny   *)
(* lists with its undo and its generalization card (internal/tui/          *)
(* reducer.go), and the channels that connects them to the file             *)
(* (internal/tui/approvals.go): one event channel with one consumer, a     *)
(* bounded queue to the console worker, and goroutines that re-read the    *)
(* lists.                                                                  *)
(*                                                                         *)
(* The lists are abstracted to a version: every write that changes them    *)
(* makes a new one.  Which entry a key names, and whether there is one to  *)
(* name, is left open.                                                     *)
(***************************************************************************)
EXTENDS Integers, FiniteSets, Sequences

CONSTANTS QueueCap,   \* capacity of consoleQueue
          EventCap,   \* capacity of the event channel
          MaxVersion, \* bound: versions of the lists
          Loads,      \* bound: re-reads of the lists in flight
          Nothing

\* What a command line does: change the lists, leave them, end the UI.
Kinds == {"write", "read", "quit"}

ASSUME PanelAssumption ==
    /\ QueueCap \in Nat \ {0} /\ EventCap \in Nat \ {0} /\ MaxVersion \in Nat
    /\ IsFiniteSet(Loads)
    /\ Nothing \notin Int \cup [kind : Kinds, done : BOOLEAN]

VARIABLES
    open,     \* Model.BottomPanelOpen
    panel,    \* Model.BottomPanel
    focus,    \* Model.Focused
    input,    \* Console.Input: "empty", or the kind of command it spells
    card,     \* Model.GenCard is up
    undo,     \* Model.URLsUndo is set
    return,   \* Model.URLsPendingReturn
    shown,    \* the version in Model.AllowList and DenyList
    file,     \* the version in the configuration file
    keys,     \* keys and ticks in the event channel
    results,  \* ConsoleExecResults in the event channel, by what they carry
    queue,    \* consoleQueue
    worker,   \* what the console worker has in hand
    load,     \* load[l]: a goroutine that re-reads the lists
    loop,     \* the event loop: "runs", "sending" a result of its own, or "quit"
    picked,   \* history: the operator chose a panel after the last +, e or accept
    excused   \* history: what is shown may be out of date, with reason

panes == <<open, panel, focus, input, card, undo, return>>
lists == <<shown, file>>
channels == <<keys, results, queue, worker, load, loop>>
history == <<picked, excused>>
panelVars == <<panes, lists, channels, history>>

\* A re-read that was asked for and has not read.
Unread == -1

Panels == {"console", "info", "llm", "urls"}

-----------------------------------------------------------------------------
(***************************************************************************)
(* The event loop.                                                         *)
(***************************************************************************)
Backlog == keys + Len(results)

\* readKeys and the ticker send as long as the channel has room.
Arrive ==
    /\ Backlog < EventCap /\ loop # "quit"
    /\ keys' = keys + 1
    /\ UNCHANGED <<panes, lists, results, queue, worker, load, loop, history>>

\* The loop takes a key or a tick.
Take == loop = "runs" /\ keys > 0 /\ keys' = keys - 1

\* CmdConsoleExec, CmdGeneralizeAccept: a full queue is answered with a result of the
\* loop's own.
Emit(kind) ==
    \/ /\ Len(queue) < QueueCap
       /\ queue' = Append(queue, kind)
       /\ UNCHANGED <<results, loop>>
    \/ /\ Len(queue) = QueueCap
       /\ loop' = "sending"
       /\ UNCHANGED <<results, queue>>

\* The loop sends it into the channel that only the loop empties.
SendBusy ==
    /\ loop = "sending" /\ Backlog < EventCap
    /\ results' = Append(results, "read")
    /\ loop' = "runs"
    /\ UNCHANGED <<panes, lists, keys, queue, worker, load, history>>

\* CmdURLsRefresh.  A refresh that overlaps another may land before it.
Refresh ==
    \E l \in Loads :
        /\ load[l] = Nothing
        /\ load' = [load EXCEPT ![l] = Unread]
        /\ excused' = \E other \in Loads : load[other] # Nothing

Quit == loop' = "quit" /\ UNCHANGED <<panes, lists, results, queue, worker, load, history>>

NoCommand == UNCHANGED <<results, queue, loop>>

-----------------------------------------------------------------------------
(***************************************************************************)
(* applyKey: keys that every pane knows.                                   *)
(***************************************************************************)
KeyCtrlC == Take /\ Quit

Closed == open' = FALSE /\ focus' = "approvals"

KeyEsc ==
    /\ Take /\ ~card
    /\ IF open THEN Closed /\ return' = FALSE ELSE UNCHANGED <<open, focus, return>>
    /\ picked' = TRUE
    /\ NoCommand
    /\ UNCHANGED <<panel, input, card, undo, lists, worker, load, excused>>

KeyTab ==
    /\ Take /\ ~card
    /\ focus' = IF ~open THEN focus ELSE IF focus = "approvals" THEN "console" ELSE "approvals"
    /\ NoCommand
    /\ UNCHANGED <<open, panel, input, card, undo, return, lists, worker, load, picked, excused>>

\* applyKeyGenCard: the card takes every key.
KeyCard ==
    /\ Take /\ card
    /\ \/ /\ card' = FALSE /\ return' = TRUE /\ picked' = FALSE
          /\ Emit("write")
       \/ /\ card' = FALSE
          /\ NoCommand /\ UNCHANGED <<return, picked>>
       \/ NoCommand /\ UNCHANGED <<card, return, picked>>
    /\ UNCHANGED <<open, panel, focus, input, undo, lists, worker, load, excused>>

-----------------------------------------------------------------------------
(***************************************************************************)
(* applyMetaPanelDigitKey, from the approvals pane and from the list and   *)
(* LLM panels.                                                             *)
(***************************************************************************)
TakesDigits == focus = "approvals" \/ panel \in {"urls", "llm"}

\* Mutant: choosing a panel does not cancel the way back to the lists.
PicksKeepingReturn == picked' = TRUE /\ UNCHANGED return

\* An explicit choice of a panel cancels the way back to the lists (#86).
Picks == return' = FALSE /\ picked' = TRUE

KeyDigit ==
    /\ Take /\ ~card /\ TakesDigits
    /\ Picks
    /\ \/ /\ Closed
          /\ UNCHANGED <<panel, load, excused>>
       \/ \E p \in Panels :
             /\ ~(open /\ panel = p)
             /\ open' = TRUE /\ panel' = p
             /\ focus' = IF p = "info" THEN "approvals" ELSE "console"
             /\ IF p = "urls" THEN Refresh ELSE UNCHANGED <<load, excused>>
    /\ NoCommand
    /\ UNCHANGED <<input, card, undo, lists, worker>>

-----------------------------------------------------------------------------
(***************************************************************************)
(* The panes.                                                              *)
(***************************************************************************)
InUrls == focus = "console" /\ panel = "urls" /\ ~card

\* applyKeyURLs, a and d: the entry moves to the other list.
KeyMove ==
    /\ Take /\ InUrls
    /\ Emit("write")
    /\ UNCHANGED <<panes, lists, worker, load, history>>

\* urlsRemoveSelected
KeyRemove ==
    /\ Take /\ InUrls
    /\ undo' = TRUE
    /\ Emit("write")
    /\ UNCHANGED <<open, panel, focus, input, card, return, lists, worker, load, history>>

\* urlsUndo
KeyUndo ==
    /\ Take /\ InUrls /\ undo
    /\ undo' = FALSE
    /\ Emit("write")
    /\ UNCHANGED <<open, panel, focus, input, card, return, lists, worker, load, history>>

\* urlsEnterAddMode, urlsEnterEditMode: the console takes over until the line has
\* run.  e removes the entry at once and keeps it for the undo.
TypesALine ==
    /\ panel' = "console" /\ return' = TRUE /\ input' = "write"
    /\ picked' = FALSE

KeyAdd ==
    /\ Take /\ InUrls
    /\ TypesALine
    /\ NoCommand
    /\ UNCHANGED <<open, focus, card, undo, lists, worker, load, excused>>

KeyEdit ==
    /\ Take /\ InUrls
    /\ TypesALine
    /\ undo' = TRUE
    /\ Emit("write")
    /\ UNCHANGED <<open, focus, card, lists, worker, load, excused>>

\* urlsGeneralize
KeyGeneralize ==
    /\ Take /\ InUrls
    /\ card' = TRUE
    /\ NoCommand
    /\ UNCHANGED <<open, panel, focus, input, undo, return, lists, worker, load, history>>

InConsole == focus = "console" /\ panel \in {"console", "info"} /\ ~card

\* applyKeyConsole: a letter, Backspace or ^U.
KeyLetter ==
    /\ Take /\ InConsole
    /\ input' \in Kinds \cup {"empty"}
    /\ NoCommand
    /\ UNCHANGED <<open, panel, focus, card, undo, return, lists, worker, load, history>>

KeyEnter ==
    /\ Take /\ InConsole
    /\ input' = "empty"
    /\ IF input = "empty" THEN NoCommand ELSE Emit(input)
    /\ UNCHANGED <<open, panel, focus, card, undo, return, lists, worker, load, picked, excused>>

\* applyKeyLLM, q: the panel stays and the keyboard goes back.
KeyLeaveLLM ==
    /\ Take /\ focus = "console" /\ panel = "llm" /\ ~card
    /\ focus' = "approvals"
    /\ NoCommand
    /\ UNCHANGED <<open, panel, input, card, undo, return, lists, worker, load, history>>

\* applyKeyApprovals, a and d on a row that is not pending, and the answer to a call
\* whose hold was gone: a rule for the URL.
KeyRule ==
    /\ Take /\ focus = "approvals" /\ ~card
    /\ Emit("write")
    /\ UNCHANGED <<panes, lists, worker, load, history>>

\* Any other key or tick.
Other ==
    /\ Take
    /\ NoCommand
    /\ UNCHANGED <<panes, lists, worker, load, history>>

KeyQuit == Take /\ focus = "approvals" /\ ~card /\ Quit

-----------------------------------------------------------------------------
(***************************************************************************)
(* applyConsoleExec, URLsTickResult.                                       *)
(***************************************************************************)
\* Mutant: whether to refresh is decided before the panel is put back.
SettledEarly ==
    /\ panel' = IF return THEN "urls" ELSE panel
    /\ IF open /\ panel = "urls" THEN Refresh ELSE UNCHANGED <<load, excused>>

\* The panel goes back to the lists if + , e or the card asked for it, and open
\* lists are read again.
Settled ==
    /\ panel' = IF return THEN "urls" ELSE panel
    /\ IF open /\ panel' = "urls" THEN Refresh ELSE UNCHANGED <<load, excused>>

ResultLands ==
    /\ loop = "runs" /\ results # <<>>
    /\ results' = Tail(results)
    /\ IF Head(results) = "quit"
       THEN loop' = "quit" /\ UNCHANGED <<panel, return, load, excused>>
       ELSE Settled /\ return' = FALSE /\ UNCHANGED loop
    /\ UNCHANGED <<open, focus, input, card, undo, lists, keys, queue, worker, picked>>

LoadLands(l) ==
    /\ loop = "runs" /\ load[l] \notin {Nothing, Unread}
    /\ shown' = load[l]
    /\ load' = [load EXCEPT ![l] = Nothing]
    /\ UNCHANGED <<panes, file, keys, results, queue, worker, loop, history>>

-----------------------------------------------------------------------------
(***************************************************************************)
(* The goroutines.                                                         *)
(***************************************************************************)
WorkerTakes ==
    /\ worker = Nothing /\ queue # <<>> /\ loop # "quit"
    /\ worker' = [kind |-> Head(queue), done |-> FALSE]
    /\ queue' = Tail(queue)
    /\ UNCHANGED <<panes, lists, keys, results, load, loop, history>>

\* safeExecute, safeAccept: a write may fail or find nothing to change.
WorkerRuns ==
    /\ worker # Nothing /\ ~worker.done
    /\ worker' = [worker EXCEPT !.done = TRUE]
    /\ file' \in {file} \cup {v \in {file + 1} : worker.kind = "write" /\ v <= MaxVersion}
    /\ UNCHANGED <<panes, shown, keys, results, queue, load, loop, history>>

WorkerAnswers ==
    /\ worker # Nothing /\ worker.done
    /\ Backlog < EventCap /\ loop # "quit"
    /\ results' = Append(results, worker.kind)
    /\ worker' = Nothing
    /\ UNCHANGED <<panes, lists, keys, queue, load, loop, history>>

\* config.Load
LoadReads(l) ==
    /\ load[l] = Unread
    /\ load' = [load EXCEPT ![l] = file]
    /\ UNCHANGED <<panes, lists, keys, results, queue, worker, loop, history>>

LoadFails(l) ==
    /\ load[l] = Unread
    /\ load' = [load EXCEPT ![l] = Nothing]
    /\ excused' = TRUE
    /\ UNCHANGED <<panes, lists, keys, results, queue, worker, loop, picked>>

\* Another operator or an accepted suggestion changes the file.
ForeignWrite ==
    /\ file < MaxVersion
    /\ file' = file + 1
    /\ excused' = TRUE
    /\ UNCHANGED <<panes, shown, channels, picked>>

-----------------------------------------------------------------------------
PanelInit ==
    /\ open = FALSE /\ panel = "console" /\ focus = "approvals"
    /\ input = "empty" /\ card = FALSE /\ undo = FALSE /\ return = FALSE
    /\ shown = 0 /\ file = 0
    /\ keys = 0 /\ results = <<>> /\ queue = <<>> /\ worker = Nothing
    /\ load = [l \in Loads |-> Nothing]
    /\ loop = "runs"
    /\ picked = FALSE /\ excused = FALSE

Keys ==
    \/ KeyCtrlC \/ KeyEsc \/ KeyTab \/ KeyCard \/ KeyDigit
    \/ KeyMove \/ KeyRemove \/ KeyUndo \/ KeyAdd \/ KeyEdit \/ KeyGeneralize
    \/ KeyLetter \/ KeyEnter \/ KeyLeaveLLM \/ KeyRule \/ KeyQuit \/ Other

PanelNext ==
    \/ Arrive \/ Keys \/ SendBusy \/ ResultLands
    \/ WorkerTakes \/ WorkerRuns \/ WorkerAnswers
    \/ \E l \in Loads : LoadReads(l) \/ LoadFails(l) \/ LoadLands(l)
    \/ ForeignWrite

PanelSpec == PanelInit /\ [][PanelNext]_panelVars

\* The loop takes what is in the channel, and every goroutine runs.
PanelFairness ==
    /\ WF_panelVars(Keys) /\ WF_panelVars(SendBusy) /\ WF_panelVars(ResultLands)
    /\ WF_panelVars(WorkerTakes) /\ WF_panelVars(WorkerRuns) /\ WF_panelVars(WorkerAnswers)
    /\ \A l \in Loads : WF_panelVars(LoadReads(l) \/ LoadFails(l)) /\ WF_panelVars(LoadLands(l))

FairPanelSpec == PanelSpec /\ PanelFairness

-----------------------------------------------------------------------------
PanelTypeOK ==
    /\ open \in BOOLEAN /\ card \in BOOLEAN /\ undo \in BOOLEAN /\ return \in BOOLEAN
    /\ picked \in BOOLEAN /\ excused \in BOOLEAN
    /\ panel \in Panels /\ focus \in {"approvals", "console"}
    /\ input \in Kinds \cup {"empty"}
    /\ shown \in 0..MaxVersion /\ file \in 0..MaxVersion
    /\ keys \in 0..EventCap /\ results \in Seq(Kinds) /\ Backlog <= EventCap
    /\ queue \in Seq(Kinds) /\ Len(queue) <= QueueCap
    /\ worker = Nothing \/ worker \in [kind : Kinds, done : BOOLEAN]
    /\ load \in [Loads -> {Nothing, Unread} \cup 0..MaxVersion]
    /\ loop \in {"runs", "sending", "quit"}

\* When nothing is on its way, the open list editor shows the file, unless somebody
\* else wrote it or re-reads overlapped.
QuietListsAreCurrent ==
    open /\ panel = "urls" /\ loop = "runs"
    /\ queue = <<>> /\ worker = Nothing /\ results = <<>> /\ (\A l \in Loads : load[l] = Nothing)
    => shown = file \/ excused

\* A result changes the panel only for an operator who has chosen none since the
\* key that asked for the way back (#86).
ResultsDoNotYank == [][ResultLands /\ panel' # panel => ~picked]_panelVars

\* The event loop never waits for good, even if the console worker is slow ("rather
\* than blocking the event loop (Ctrl-C must stay responsive)").
LoopStaysResponsive == loop = "sending" ~> loop # "sending"
====
