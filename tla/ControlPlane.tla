---------------------------- MODULE ControlPlane ----------------------------
(***************************************************************************)
(* What operators ask of the daemon: `trollbridge attach` and the CLI over *)
(* the mTLS control plane (internal/control, internal/controlclient), and  *)
(* the console of `trollbridge run` in the daemon's own process            *)
(* (internal/console) and the panes beside it.  A remote call may never    *)
(* arrive, may be served after its client gave up, and its answer may be   *)
(* lost; the daemon may be killed anywhere and started again.  The edits of *)
(* trollbridge.yaml and the reloads that calls end in are those of         *)
(* ConfigStore; the hold queue, the suggestion manager and the open window *)
(* are reduced to what a call can tell of them (ApprovalQueue, Suggestion  *)
(* and Decision have the rest).                                            *)
(***************************************************************************)
EXTENDS Integers, Sequences

CONSTANTS Calls,        \* the calls made, each served by a goroutine of its own
          Timers,       \* the watcher's debounce goroutines
          Patterns,
          Malformed,    \* the patterns that do not compile
          Files0,       \* what the file may hold at first
          Holds,
          LineOf,       \* LineOf[h]: derivePersistPattern of the held request
          Offers,       \* the ids of the suggestions that may be offered
          Gist,         \* Gist[o]: its list, its source entries, the decline row of those,
                        \* and the pattern of the axis it has come to when it is accepted
          MaxPresses,   \* bound: presses of "open" in a row
          MaxWrites,    \* bound: no edit begins after these writes of the file
          MaxRestarts,  \* bound
          Requests,     \* what clients ask for
          None

VARIABLES file, mtime, lists, cfg, seen, event, badge, pc, job, snap, raced, unrecorded

Store == INSTANCE ConfigStore
    WITH Writers <- Calls, OpsOf <- [k \in Calls |-> {}], Edits <- Files0

storeVars == <<file, mtime, lists, cfg, seen, event, badge, pc, job, snap, raced, unrecorded>>

VARIABLES
    hold,       \* waiting, left, or decided by a call
    offer,      \* Manager.active: what is offered, or None
    spent,      \* the ids of the offers that were made already
    ticking,    \* Tick has begun a scan
    gate,       \* openMode.pressCount while the window is open, else 0
    call,       \* every call: what it asks for, how far it is, what its client was told
    wrote,      \* what came of a call's last edit
    lastEdit,   \* history: the call that last began to edit a pattern, or None if
                \* another thread was at the file
    effects,    \* history: how often a call had an effect
    answeredBy, \* history: the calls that took an offer down
    restarts

manager == <<offer, spent, ticking>>
stateVars == <<hold, manager, gate>>
historyVars == <<wrote, lastEdit, effects, answeredBy, restarts>>
vars == <<storeVars, stateVars, call, historyVars>>

\* A request: of a surface, of a kind, about a hold, an offer, or a list and a pattern.
Asks(surface, kind, about) == [surface |-> surface, kind |-> kind, about |-> about]

Line(list, p) == [list |-> list, pattern |-> p]

Surfaces == {"attach", "local"}

AllRequests ==
    [surface : Surfaces, kind : {"approve", "deny"}, about : Holds]
    \cup [surface : Surfaces, kind : {"add", "remove", "move"},
          about : [list : {"allow", "deny"}, pattern : Patterns]]
    \cup [surface : Surfaces, kind : {"accept", "decline", "skip"}, about : Offers]
    \cup [surface : Surfaces, kind : {"scan", "open", "close"}, about : {None}]

ASSUME ConstantsAssumption ==
    /\ Calls \subseteq Nat \ {0} /\ Calls \cap Timers = {}
    /\ Files0 \subseteq Store!Files
    /\ Requests \subseteq AllRequests
    /\ \A r \in Requests : r.surface = "attach" => r.kind # "move"
    /\ LineOf \in [Holds -> Patterns]
    /\ Gist \in [Offers -> [list : {"allow", "deny"}, pattern : Patterns,
                            sources : SUBSET Patterns, row : Patterns]]
    /\ Offers \subseteq Nat /\ None \notin Offers \cup Calls

HoldIs(state, by) == [state |-> state, by |-> by]

Unmade == [req |-> None, phase |-> "unmade", waiting |-> FALSE, answer |-> "none"]

Init ==
    /\ Store!Init
    /\ hold = [h \in Holds |-> HoldIs("pending", 0)]
    /\ offer = None /\ spent = {} /\ ticking = FALSE
    /\ gate = 0
    /\ call = [k \in Calls |-> Unmade]
    /\ wrote = [k \in Calls |-> "nothing"]
    /\ lastEdit = [p \in Patterns |-> None]
    /\ effects = [k \in Calls |-> 0]
    /\ answeredBy = [o \in Offers |-> {}]
    /\ restarts = 0

Remote(k) == call[k].req.surface = "attach"

\* "scanning": SuggestNow has not returned; "scanned": it has.
UnderWay == {"sent", "serving", "scanning", "scanned", "reply"}

(***************************************************************************)
(* The client.  It gives up 5 s after it asked; the daemon is not told.    *)
(***************************************************************************)
OfferKinds == {"accept", "decline", "skip"}

\* The client answers an offer that it was shown.
Make(k, r) ==
    /\ call[k].phase = "unmade"
    /\ r.kind \in OfferKinds => r.about \in spent
    /\ \A j \in Calls : j < k => call[j].phase # "unmade"
    /\ call' = [call EXCEPT ![k] =
                  [req |-> r, phase |-> "sent", waiting |-> TRUE, answer |-> "none"]]
    /\ UNCHANGED <<storeVars, stateVars, historyVars>>

\* The request does not reach the daemon.
Lose(k) ==
    /\ call[k].phase = "sent"
    /\ Remote(k)
    /\ call' = [call EXCEPT ![k].phase = "over", ![k].waiting = FALSE,
                            ![k].answer = IF call[k].waiting THEN "error" ELSE @]
    /\ UNCHANGED <<storeVars, stateVars, historyVars>>

GiveUp(k) ==
    /\ call[k].phase \in UnderWay
    /\ call[k].waiting
    /\ Remote(k)
    /\ call' = [call EXCEPT ![k].phase = IF @ = "reply" THEN "over" ELSE @,
                            ![k].waiting = FALSE, ![k].answer = "error"]
    /\ UNCHANGED <<storeVars, stateVars, historyVars>>

(***************************************************************************)
(* The daemon.  A handler answers at once, or begins an edit of the file   *)
(* and answers when that and its reload are done.                          *)
(***************************************************************************)
Arrived(k, kinds) ==
    /\ call[k].phase = "sent"
    /\ call[k].req.kind \in kinds

About(k) == call[k].req.about

\* The handler writes its answer, whoever is left to read it.
Reply(k, answer) ==
    call' = [call EXCEPT ![k].phase = IF call[k].waiting THEN "reply" ELSE "over",
                         ![k].answer = IF call[k].waiting THEN answer ELSE @]

TakesEffect(k) == effects' = [effects EXCEPT ![k] = @ + 1]

\* The handler goes to edit the patterns ps of the file.
Edit(k, op, ps) ==
    /\ Store!Begin(k, op)
    /\ call' = [call EXCEPT ![k].phase = "serving"]
    /\ lastEdit' = [p \in Patterns |-> IF p \notin ps THEN lastEdit[p]
                                       ELSE IF Store!OthersBusy(k) THEN None ELSE k]
    /\ UNCHANGED <<wrote, restarts>>

\* Mutant: the pattern stays on the other list (#194).
AddOnly(list, p) == <<Store!Edit(list, {}, {p})>>

Operator(list, p) ==
    IF list = "allow" THEN Store!OperatorApprove(p) ELSE Store!OperatorDeny(p)

\* Mutant: the handler does not look at what the queue says.
HoldActionUnchecked(k) ==
    /\ Arrived(k, {"approve", "deny"})
    /\ hold' = [hold EXCEPT ![About(k)] = IF @.state = "pending" THEN HoldIs("decided", k) ELSE @]
    /\ TakesEffect(k)
    /\ Edit(k, Store!Op(Operator(IF call[k].req.kind = "approve" THEN "allow" ELSE "deny",
                                 LineOf[About(k)]), "last changed", FALSE),
            {LineOf[About(k)]})
    /\ UNCHANGED <<manager, gate, answeredBy>>

\* Queue.Approve and Deny: the hold is resolved, then its line is written.
HoldAction(k) ==
    /\ Arrived(k, {"approve", "deny"})
    /\ LET h == About(k)
           list == IF call[k].req.kind = "approve" THEN "allow" ELSE "deny"
       IN  \/ /\ hold[h].state = "pending"
              /\ hold' = [hold EXCEPT ![h] = HoldIs("decided", k)]
              /\ TakesEffect(k)
              /\ Edit(k, Store!Op(Operator(list, LineOf[h]), "last changed", FALSE), {LineOf[h]})
           \/ /\ hold[h].state # "pending"
              /\ Reply(k, "not found")
              /\ UNCHANGED <<storeVars, hold, historyVars>>
    /\ UNCHANGED <<manager, gate, answeredBy>>

\* POST and DELETE on /v1/lists: the pattern is written as it comes.
ListEdit(k) ==
    /\ Arrived(k, {"add", "remove"}) /\ Remote(k)
    /\ LET l == About(k)
           op == IF call[k].req.kind = "add"
                    THEN Store!Op(Operator(l.list, l.pattern), "last changed", FALSE)
                    ELSE Store!RemoveFrom(l.list, l.pattern)
       IN  Edit(k, op, {l.pattern})
    /\ TakesEffect(k)
    /\ UNCHANGED <<stateVars, answeredBy>>

\* The console compiles a pattern before it adds or moves it; `remove` needs no list.
ConsoleEdit(k) ==
    /\ Arrived(k, {"add", "move", "remove"}) /\ ~Remote(k)
    /\ LET l == About(k)
           kind == call[k].req.kind
           op == CASE kind = "add" -> Store!Op(Operator(l.list, l.pattern), "last changed", TRUE)
                   [] kind = "move" -> Store!Op(Operator(l.list, l.pattern), "always", TRUE)
                   [] kind = "remove" -> Store!ConsoleRemove(l.pattern)
       IN  \/ /\ kind # "remove" /\ l.pattern \in Malformed
              /\ Reply(k, "invalid")
              /\ UNCHANGED <<storeVars, historyVars>>
           \/ /\ kind = "remove" \/ l.pattern \notin Malformed
              /\ Edit(k, op, {l.pattern})
              /\ TakesEffect(k)
    /\ UNCHANGED <<stateVars, answeredBy>>

OpenMode(k) ==
    /\ Arrived(k, {"open", "close"})
    /\ gate' = IF call[k].req.kind = "close" THEN 0
                                             ELSE IF gate < MaxPresses THEN gate + 1 ELSE gate
    /\ TakesEffect(k)
    /\ Reply(k, "ok")
    /\ UNCHANGED <<storeVars, hold, manager, wrote, lastEdit, answeredBy, restarts>>

\* The manager's two refusals: 410 without an offer, 409 for another than the offered.
SuggestionRefusal(k) ==
    /\ offer # About(k)
    /\ Reply(k, IF offer = None THEN "gone" ELSE "conflict")
    /\ UNCHANGED <<storeVars, stateVars, historyVars>>

\* An answer takes the offer down, under the manager's lock, before it writes.
TakeDown(k) ==
    /\ offer = About(k)
    /\ offer' = None
    /\ answeredBy' = [answeredBy EXCEPT ![About(k)] = @ \cup {k}]
    /\ TakesEffect(k)
    /\ UNCHANGED <<hold, spent, ticking, gate>>

SuggestionAccept(k) ==
    /\ Arrived(k, {"accept"})
    /\ \/ SuggestionRefusal(k)
       \/ LET g == Gist[About(k)]
          IN  /\ TakeDown(k)
              /\ Edit(k, Store!Generalize(g.list, g.pattern, g.sources),
                         g.sources \cup {g.pattern})

\* Another axis of the same sources takes its place under the same id; after the
\* last one a row is written and the configuration reloaded.
SuggestionDecline(k) ==
    /\ Arrived(k, {"decline"})
    /\ \/ SuggestionRefusal(k)
       \/ /\ offer = About(k)
          /\ TakesEffect(k)
          /\ Reply(k, "ok")
          /\ UNCHANGED <<storeVars, stateVars, wrote, lastEdit, answeredBy, restarts>>
       \/ /\ TakeDown(k)
          /\ Edit(k, Store!AddDeclinedSuggestion(Gist[About(k)].row), {})

\* Skip remembers in memory alone what it skipped.
SuggestionSkip(k) ==
    /\ Arrived(k, {"skip"})
    /\ \/ SuggestionRefusal(k)
       \/ /\ TakeDown(k)
          /\ Reply(k, "ok")
          /\ UNCHANGED <<storeVars, wrote, lastEdit, restarts>>

\* produce stores what it has found, whatever is offered by then, under a new id (the
\* next, for they are only told apart); or it found nothing, or the advisor failed.
Offer(o) ==
    /\ o \notin spent /\ \A q \in Offers \ spent : o <= q
    /\ offer' = o
    /\ spent' = spent \cup {o}

Produce == (\E o \in Offers : Offer(o)) \/ UNCHANGED <<offer, spent>>

\* SuggestNow clears the offer, and goes on without the lock; or it does nothing, where
\* suggestions are disabled.
SuggestNow(k) ==
    /\ Arrived(k, {"scan"})
    /\ \/ offer' = None /\ call' = [call EXCEPT ![k].phase = "scanning"]
       \/ offer' = offer /\ call' = [call EXCEPT ![k].phase = "scanned"]
    /\ UNCHANGED <<storeVars, hold, spent, ticking, gate, historyVars>>

ScanEnds(k) ==
    /\ call[k].phase = "scanning"
    /\ Produce
    /\ call' = [call EXCEPT ![k].phase = "scanned"]
    /\ UNCHANGED <<storeVars, hold, ticking, gate, historyVars>>

\* The handler answers with what is offered now, whoever offered it.
SuggestionScan(k) ==
    /\ call[k].phase = "scanned"
    /\ Reply(k, IF offer = None THEN "nothing" ELSE "ok")
    /\ UNCHANGED <<storeVars, stateVars, historyVars>>

(***************************************************************************)
(* The edits and reloads of ConfigStore, on behalf of a call.              *)
(***************************************************************************)
\* The console reports a failed edit of the two, and a removal from either list.
Noted(k, what) ==
    wrote' = [wrote EXCEPT ![k] =
                IF ~Remote(k) /\ call[k].req.kind \in {"add", "move", "remove"}
                   /\ (@ = "failed" \/ (@ = "changed" /\ call[k].req.kind = "remove"
                                                     /\ what = "nothing"))
                   THEN @ ELSE what]

EditFile(k) ==
    /\ \/ /\ Store!Read(k)
          /\ Noted(k, IF file.form = "unparsable" THEN "failed" ELSE "nothing")
       \/ Store!Write(k) /\ Noted(k, "changed")
       \/ Store!WriteFails(k) /\ Noted(k, "failed")
    /\ UNCHANGED <<stateVars, call, lastEdit, effects, answeredBy, restarts>>

ReloadFile(t) ==
    /\ Store!ReloadStep(t) \/ (t \in Timers /\ Store!TimerFires(t))
    /\ UNCHANGED <<stateVars, call, historyVars>>

\* A hold stays decided though its line could not be written; an offer that is taken
\* down stays down, though the answer to it fails.
Served(k) ==
    /\ call[k].phase = "serving"
    /\ pc[k] = "idle"
    /\ LET kind == call[k].req.kind
       IN  Reply(k, IF kind \in {"approve", "deny"} THEN "ok"
                    ELSE IF wrote[k] = "failed" THEN "failed"
                    ELSE IF wrote[k] = "nothing" /\ kind \notin OfferKinds THEN "unchanged"
                    ELSE "ok")
    /\ UNCHANGED <<storeVars, stateVars, historyVars>>

\* The client reads the answer.
Told(k) ==
    /\ call[k].phase = "reply"
    /\ call' = [call EXCEPT ![k].phase = "over", ![k].waiting = FALSE]
    /\ UNCHANGED <<storeVars, stateVars, historyVars>>

Serve(k) ==
    \/ HoldAction(k) \/ ListEdit(k) \/ ConsoleEdit(k) \/ OpenMode(k)
    \/ SuggestionAccept(k) \/ SuggestionDecline(k) \/ SuggestionSkip(k)
    \/ SuggestNow(k) \/ ScanEnds(k) \/ SuggestionScan(k)
    \/ EditFile(k) \/ ReloadFile(k) \/ Served(k)

(***************************************************************************)
(* The rest of the daemon, and its end.                                    *)
(***************************************************************************)
HoldEnds(h) ==
    /\ hold[h].state = "pending"
    /\ hold' = [hold EXCEPT ![h] = HoldIs("left", 0)]
    /\ UNCHANGED <<storeVars, manager, gate, call, historyVars>>

\* Tick, when nothing is offered (it may not come where suggestions are disabled); what
\* it finds may come after what others found.
Tick ==
    /\ offer = None /\ ~ticking
    /\ ticking' = TRUE
    /\ UNCHANGED <<storeVars, hold, offer, spent, gate, call, historyVars>>

TickEnds ==
    /\ ticking
    /\ ticking' = FALSE
    /\ Produce
    /\ UNCHANGED <<storeVars, hold, gate, call, historyVars>>

\* Tick, when something is: an offer whose sources are not all on a list any more goes.
revalidateActive ==
    /\ offer # None /\ ~ticking
    /\ ~(Gist[offer].sources \subseteq cfg["allow"] \cup cfg["deny"])
    /\ offer' = None
    /\ UNCHANGED <<storeVars, hold, spent, ticking, gate, call, historyVars>>

WindowEnds ==
    /\ gate > 0
    /\ gate' = 0
    /\ UNCHANGED <<storeVars, hold, manager, call, historyVars>>

\* Nobody waits for Shutdown's 5 s: the process ends with calls anywhere, and the
\* next one starts from the file, if it loads.
Restart ==
    /\ restarts < MaxRestarts
    /\ restarts' = restarts + 1
    /\ Store!Loads(file)
    /\ lists' = [l \in {"allow", "deny"} |-> file.content[l]]
    /\ cfg' = file.content
    /\ seen' = mtime
    /\ event' = FALSE
    /\ badge' = FALSE /\ unrecorded' = FALSE
    /\ pc' = [t \in Calls \cup Timers |-> "idle"]
    /\ job' = [k \in Calls |-> None]
    /\ snap' = [t \in Calls \cup Timers |-> None]
    /\ hold' = [h \in Holds |-> IF hold[h].state = "pending" THEN HoldIs("left", 0)
                                                                  ELSE hold[h]]
    /\ offer' = None /\ ticking' = FALSE
    /\ gate' = 0
    /\ call' = [k \in Calls |->
                  IF call[k].phase \in UnderWay
                     THEN [call[k] EXCEPT !.phase = "over", !.waiting = FALSE,
                                          !.answer = IF call[k].waiting THEN "error" ELSE @]
                     ELSE call[k]]
    /\ UNCHANGED <<file, mtime, raced, spent, wrote, lastEdit, effects, answeredBy>>

Next ==
    \/ \E k \in Calls : \/ \E r \in Requests : Make(k, r)
                        \/ Lose(k) \/ GiveUp(k) \/ Serve(k) \/ Told(k)
    \/ \E t \in Timers : ReloadFile(t)
    \/ \E h \in Holds : HoldEnds(h)
    \/ Tick \/ TickEnds \/ revalidateActive
    \/ WindowEnds
    \/ Restart

Spec == Init /\ [][Next]_vars

-----------------------------------------------------------------------------
(***************************************************************************)
(* Properties.                                                             *)
(***************************************************************************)
Refusals == {"not found", "gone", "conflict", "invalid"}

(***************************************************************************)
(* Whatever the network, the timeouts, other operators, scans and restarts *)
(* do: what is refused had no effect, and what is answered with success    *)
(* had one.  The hold that a call is told it decided was decided by that   *)
(* call and by no other, and it is decided or gone when the call is told   *)
(* so.  An offer that is told to be gone, or to have given way to another, *)
(* does not come back; it is answered by one operator only, and never      *)
(* again when it was (the 404, 409 and 410 of holdAction and               *)
(* mapSuggestionErr).                                                      *)
(***************************************************************************)
AnswersTellTheTruth ==
    /\ \A k \in {j \in Calls : call[j].phase # "unmade"} :
          LET a == call[k].answer
              kind == call[k].req.kind
          IN  /\ a \in Refusals => effects[k] = 0
              /\ a = "ok" /\ kind # "scan" => effects[k] > 0
              /\ kind \in {"approve", "deny"} =>
                    /\ effects[k] > 0 <=> hold[About(k)] = HoldIs("decided", k)
                    /\ a = "not found" => hold[About(k)].state # "pending"
              /\ a \in {"gone", "conflict"} => offer # About(k)
              /\ kind \in {"accept", "skip"} /\ a \in {"ok", "failed"} =>
                    k \in answeredBy[About(k)]
    /\ \A o \in Offers : answeredBy[o] # {} =>
          /\ offer # o
          /\ \A j, k \in answeredBy[o] : j = k

Listed(k, p) ==
    LET kind == call[k].req.kind
        list == CASE kind = "approve" -> "allow"
                  [] kind = "deny" -> "deny"
                  [] kind \in {"add", "move", "remove"} -> About(k).list
                  [] kind = "accept" -> Gist[About(k)].list
        other == IF list = "allow" THEN "deny" ELSE "allow"
    IN  CASE kind = "remove" -> p \notin lists[list]
          [] kind = "accept" -> p \in lists[list] <=> p = Gist[About(k)].pattern
          [] kind \in {"approve", "deny", "add", "move"} ->
                p \in lists[list] /\ p \notin lists[other]

(***************************************************************************)
(* When all is quiet again, and also after a crash and a restart: the last *)
(* edit of a pattern that an operator was told of is what the daemon       *)
(* matches requests with, on one list and not on the other, as long as     *)
(* edits did not overlap, none of them failed to be written, and nobody    *)
(* put a pattern into the file that does not compile (#179, #194).         *)
(***************************************************************************)
AnsweredEditIsInForce ==
    \A p \in {q \in Patterns : lastEdit[q] # None} :
        LET k == lastEdit[p]
        IN  \/ call[k].phase # "over" \/ call[k].answer \notin {"ok", "unchanged"}
            \/ wrote[k] = "failed" \/ raced \/ ~Store!Quiescent \/ ~Store!Loads(file)
            \/ Listed(k, p)
====
