---------------------------- MODULE AuditLogger ----------------------------
(***************************************************************************)
(* The asynchronous audit log (internal/audit/audit.go): callers of Write  *)
(* that pass the closed check, the level filter and a select on a bounded  *)
(* channel; one writer goroutine that takes entries from the channel and   *)
(* encodes them to the file; Close, which may be called more than once.    *)
(*                                                                         *)
(* Each atomic load, each select and each channel receive is a step of its *)
(* own, so Close can fall between any two of them.  A select with several  *)
(* ready cases takes any of them.                                          *)
(***************************************************************************)
EXTENDS Integers, Sequences, FiniteSets

CONSTANTS Writers,       \* goroutines that call Write
          Closers,       \* goroutines that call Close
          BufSizeArgs,   \* bufSize values handed to New
          Modes,         \* overflow modes handed to New
          Levels,        \* levels SetLevel stores
          MaxWrites,     \* bound: calls of Write
          MaxSetLevels   \* bound: calls of SetLevel

OverflowModes == {"deny", "drop", "block"}

AllLevels == {"all", "decisions", "none"}

ASSUME LogAssumption ==
    /\ IsFiniteSet(Writers)
    /\ BufSizeArgs \subseteq Int
    /\ Modes \subseteq OverflowModes
    /\ Levels \subseteq AllLevels
    /\ MaxWrites \in Nat
    /\ MaxSetLevels \in Nat

VARIABLES
    overflow,       \* Logger.overflow
    bufSize,        \* cap(Logger.ch)
    level,          \* Logger.level
    closed,         \* Logger.closed
    stopped,        \* stopCh is closed
    ch,             \* contents of Logger.ch
    dropped,        \* droppedCounter
    levelFiltered,  \* levelFilteredCounter
    wpc,            \* where writer w is in Write
    entry,          \* the entry writer w is writing
    calls,          \* calls of Write
    loop,           \* where the writer goroutine is
    hand,           \* the entry the writer goroutine is encoding
    file,           \* the entries handed to the encoder, in order
    cpc,            \* where closer c is in Close
    setLevels,      \* calls of SetLevel
    sent,           \* history: entries sent on ch, in order
    errors,         \* history: calls of Write that returned an error
    sentAtStop      \* history: Len(sent) when stopCh was closed

config == <<overflow, bufSize>>
counters == <<dropped, levelFiltered, errors>>
writing == <<wpc, entry, calls>>
writer == <<loop, hand, file>>
closing == <<closed, stopped, cpc, sentAtStop>>
logVars == <<config, level, setLevels, ch, sent, counters, writing, writer, closing>>

\* The entry of the n-th call of Write; human is IsHumanOrLLM of its decision
\* source.
Entries == [n : 1..MaxWrites, human : BOOLEAN]

NoEntry == [n |-> 0, human |-> FALSE]

-----------------------------------------------------------------------------

NewBufSize(arg) == IF arg <= 0 THEN 1024 ELSE arg

LogInit ==
    /\ overflow \in Modes
    /\ bufSize \in {NewBufSize(arg) : arg \in BufSizeArgs}
    /\ level = "all"
    /\ setLevels = 0
    /\ ch = <<>> /\ sent = <<>>
    /\ dropped = 0 /\ levelFiltered = 0 /\ errors = 0
    /\ wpc = [w \in Writers |-> "idle"]
    /\ entry = [w \in Writers |-> NoEntry]
    /\ calls = 0
    /\ loop = "select"
    /\ hand = NoEntry
    /\ file = <<>>
    /\ closed = FALSE /\ stopped = FALSE
    /\ cpc = [c \in Closers |-> "idle"]
    /\ sentAtStop = 0

(***************************************************************************)
(* SetLevel: one atomic store.                                             *)
(***************************************************************************)
SetLevel(lvl) ==
    /\ setLevels < MaxSetLevels
    /\ setLevels' = setLevels + 1
    /\ level' = lvl
    /\ UNCHANGED <<config, ch, sent, counters, writing, writer, closing>>

(***************************************************************************)
(* Write.                                                                  *)
(***************************************************************************)
Return(w) == wpc' = [wpc EXCEPT ![w] = "idle"]

\* if l.closed.Load() { return error }
CallWrite(w, human) ==
    /\ wpc[w] = "idle"
    /\ calls < MaxWrites
    /\ calls' = calls + 1
    /\ entry' = [entry EXCEPT ![w] = [n |-> calls + 1, human |-> human]]
    /\ \/ /\ closed
          /\ errors' = errors + 1
          /\ UNCHANGED wpc
       \/ /\ ~closed
          /\ wpc' = [wpc EXCEPT ![w] = "level"]
          /\ UNCHANGED errors
    /\ UNCHANGED <<config, level, setLevels, ch, sent, dropped, levelFiltered, writer, closing>>

Filtered(lvl, e) == lvl = "none" \/ (lvl = "decisions" /\ ~e.human)

FilterEntry(w) ==
    /\ wpc[w] = "level"
    /\ \/ /\ Filtered(level, entry[w])
          /\ levelFiltered' = levelFiltered + 1
          /\ Return(w)
       \/ /\ ~Filtered(level, entry[w])
          /\ wpc' = [wpc EXCEPT ![w] = "select"]
          /\ UNCHANGED levelFiltered
    /\ UNCHANGED <<config, level, setLevels, ch, sent, dropped, errors, entry, calls,
                   writer, closing>>

\* case l.ch <- e
CanSend == Len(ch) < bufSize

\* Make room by evicting the oldest entry.
SendEntry_EvictOldest(w) ==
    /\ wpc[w] = "select"
    /\ ch' = Append(IF CanSend THEN ch ELSE Tail(ch), entry[w])
    /\ sent' = Append(sent, entry[w])
    /\ Return(w)
    /\ UNCHANGED <<config, level, setLevels, counters, entry, calls, writer, closing>>

SendEntry(w) ==
    /\ wpc[w] = "select"
    /\ CanSend
    /\ ch' = Append(ch, entry[w])
    /\ sent' = Append(sent, entry[w])
    /\ Return(w)
    /\ UNCHANGED <<config, level, setLevels, counters, entry, calls, writer, closing>>

\* The stopCh case of block mode is missing.
MayGiveUp_BlockIgnoresStop == overflow # "block" /\ (stopped \/ ~CanSend)

\* case <-l.stopCh, and the default of the modes that have one
MayGiveUp == stopped \/ (overflow # "block" /\ ~CanSend)

\* The stopCh case of drop mode returns without counting.
CountLoss_Uncounted ==
    /\ errors' = IF overflow # "drop" THEN errors + 1 ELSE errors
    /\ dropped' = IF overflow = "drop" /\ ~stopped THEN dropped + 1 ELSE dropped

\* drop counts the entry and returns nil, deny and block return an error
CountLoss ==
    /\ errors' = IF overflow # "drop" THEN errors + 1 ELSE errors
    /\ dropped' = IF overflow = "drop" THEN dropped + 1 ELSE dropped

GiveUp(w) ==
    /\ wpc[w] = "select"
    /\ MayGiveUp
    /\ CountLoss
    /\ Return(w)
    /\ UNCHANGED <<config, level, setLevels, ch, sent, levelFiltered, entry, calls,
                   writer, closing>>

(***************************************************************************)
(* writeLoop.  "select" waits for an entry or for stopCh; "drain" is the   *)
(* inner loop that takes what is buffered and returns when nothing is.     *)
(***************************************************************************)
TakeEntry ==
    /\ loop \in {"select", "drain"}
    /\ hand = NoEntry
    /\ ch # <<>>
    /\ hand' = Head(ch)
    /\ ch' = Tail(ch)
    /\ UNCHANGED <<config, level, setLevels, sent, counters, writing,
                   loop, file, closing>>

\* encode(e): a failure goes to the operational log and the loop goes on.
EncodeEntry ==
    /\ hand # NoEntry
    /\ file' = Append(file, hand)
    /\ hand' = NoEntry
    /\ UNCHANGED <<config, level, setLevels, ch, sent, counters, writing, loop, closing>>

\* The writer goroutine exits as soon as it sees stopCh.
SeeStop_NoDrain ==
    /\ loop = "select"
    /\ hand = NoEntry
    /\ stopped
    /\ loop' = "exited"
    /\ UNCHANGED <<config, level, setLevels, ch, sent, counters, writing,
                   hand, file, closing>>

SeeStop ==
    /\ loop = "select"
    /\ hand = NoEntry
    /\ stopped
    /\ loop' = "drain"
    /\ UNCHANGED <<config, level, setLevels, ch, sent, counters, writing,
                   hand, file, closing>>

ExitLoop ==
    /\ loop = "drain"
    /\ hand = NoEntry
    /\ ch = <<>>
    /\ loop' = "exited"
    /\ UNCHANGED <<config, level, setLevels, ch, sent, counters, writing,
                   hand, file, closing>>

(***************************************************************************)
(* Close: only the caller that swaps closed closes stopCh and waits.       *)
(***************************************************************************)
SwapClosed(c) ==
    /\ cpc[c] = "idle"
    /\ closed' = TRUE
    /\ cpc' = [cpc EXCEPT ![c] = IF closed THEN "returned" ELSE "stopping"]
    /\ UNCHANGED <<config, level, setLevels, ch, sent, counters, writing, writer,
                   stopped, sentAtStop>>

CloseStopCh(c) ==
    /\ cpc[c] = "stopping"
    /\ stopped' = TRUE
    /\ sentAtStop' = Len(sent)
    /\ cpc' = [cpc EXCEPT ![c] = "waiting"]
    /\ UNCHANGED <<config, level, setLevels, ch, sent, counters, writing, writer, closed>>

CloseWaitReturns(c) ==
    /\ cpc[c] = "waiting"
    /\ loop = "exited"
    /\ cpc' = [cpc EXCEPT ![c] = "flushed"]
    /\ UNCHANGED <<config, level, setLevels, ch, sent, counters, writing, writer,
                   closed, stopped, sentAtStop>>

\* Every call has been made and has returned.
Quiescent ==
    /\ calls = MaxWrites
    /\ \A w \in Writers : wpc[w] = "idle"
    /\ \A c \in Closers : cpc[c] \in {"returned", "flushed"}
    /\ UNCHANGED logVars

-----------------------------------------------------------------------------

LogNext ==
    \/ \E lvl \in Levels : SetLevel(lvl)
    \/ \E w \in Writers, human \in BOOLEAN : CallWrite(w, human)
    \/ \E w \in Writers : FilterEntry(w)
    \/ \E w \in Writers : SendEntry(w)
    \/ \E w \in Writers : GiveUp(w)
    \/ TakeEntry
    \/ EncodeEntry
    \/ SeeStop
    \/ ExitLoop
    \/ \E c \in Closers : SwapClosed(c)
    \/ \E c \in Closers : CloseStopCh(c)
    \/ \E c \in Closers : CloseWaitReturns(c)
    \/ Quiescent

LogSpec == LogInit /\ [][LogNext]_logVars

(***************************************************************************)
(* LogFairness: runnable goroutines run.  The writer goroutine's select picks *)
(* among ready cases at random, so it cannot overlook stopCh for ever      *)
(* (SF); nothing is assumed of how often Write, SetLevel or Close is       *)
(* called.                                                                 *)
(***************************************************************************)
LogFairness ==
    /\ \A w \in Writers : WF_logVars(FilterEntry(w) \/ SendEntry(w) \/ GiveUp(w))
    /\ WF_logVars(TakeEntry \/ EncodeEntry \/ ExitLoop) /\ SF_logVars(SeeStop)
    /\ WF_logVars(\E c \in Closers : CloseStopCh(c) \/ CloseWaitReturns(c))

FairLogSpec == LogSpec /\ LogFairness

-----------------------------------------------------------------------------
(***************************************************************************)
(* The type invariant: the buffer never exceeds its capacity.              *)
(***************************************************************************)
LogTypeOK ==
    /\ overflow \in Modes
    /\ bufSize \in Nat \ {0}
    /\ level \in AllLevels
    /\ setLevels \in Nat
    /\ ch \in Seq(Entries) /\ Len(ch) <= bufSize
    /\ sent \in Seq(Entries) /\ file \in Seq(Entries)
    /\ dropped \in Nat /\ levelFiltered \in Nat /\ errors \in Nat
    /\ wpc \in [Writers -> {"idle", "level", "select"}]
    /\ entry \in [Writers -> Entries \cup {NoEntry}]
    /\ calls \in 0..MaxWrites
    /\ loop \in {"select", "drain", "exited"}
    /\ hand \in Entries \cup {NoEntry}
    /\ closed \in BOOLEAN /\ stopped \in BOOLEAN
    /\ cpc \in [Closers -> {"idle", "stopping", "waiting", "flushed", "returned"}]
    /\ sentAtStop \in Nat

InHand == IF hand = NoEntry THEN <<>> ELSE <<hand>>

(***************************************************************************)
(* Conservation: whatever Close races with, an entry that was enqueued is  *)
(* in the buffer, in the writer's hand or has been encoded, in the order   *)
(* of the enqueues, and none of them twice (#208).                         *)
(***************************************************************************)
NothingLostOrReordered == sent = file \o InHand \o ch

(***************************************************************************)
(* "Close flushes the buffer": when the Close that stopped the writer has  *)
(* returned, every entry enqueued before it closed stopCh has been encoded.*)
(* A Write that passed the closed check and whose select runs after the    *)
(* drain still finds room in the channel and returns nil: such an entry is *)
(* never written, so the promise cannot be made of it.                     *)
(***************************************************************************)
FlushedOnClose ==
    \A c \in Closers : cpc[c] = "flushed" => Len(file) >= sentAtStop

(***************************************************************************)
(* "Where did my audit entries go?" (#143): each call of Write that has    *)
(* returned was enqueued, counted as an overflow drop, counted as filtered *)
(* by the level, or told its caller an error; never two of them.           *)
(***************************************************************************)
EveryWriteIsAccounted ==
    calls = Len(sent) + dropped + levelFiltered + errors
            + Cardinality({w \in Writers : wpc[w] # "idle"})

(***************************************************************************)
(* No call blocks for ever: Close releases a Write that waits for room, in *)
(* block mode too, and Close returns although writers keep sending.        *)
(***************************************************************************)
EveryCallReturns ==
    /\ \A w \in Writers : wpc[w] = "select" ~> wpc[w] = "idle"
    /\ (\E c \in Closers : cpc[c] = "stopping") ~> (\E c \in Closers : cpc[c] = "flushed")
====
