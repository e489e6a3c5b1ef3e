---------------------------- MODULE ConfigStore ----------------------------
(***************************************************************************)
(* trollbridge.yaml and the copies the daemon runs with.  Operators, the   *)
(* console, the control plane and the suggestion manager edit the file     *)
(* (internal/configwrite: read, transform, atomic rename, no lock) and     *)
(* then reload it (reloadAfterInternalWrite in cmd/trollbridge/run.go);    *)
(* somebody with an editor changes it too, and the watcher                 *)
(* (internal/configwatch) reloads what its mtime says it has not seen.     *)
(***************************************************************************)
EXTENDS Integers, Sequences

CONSTANTS Writers,      \* goroutines that edit the file and reload it
          Timers,       \* the watcher's debounce goroutines
          Patterns,     \* what the lists hold
          Malformed,    \* those that do not compile
          OpsOf,        \* OpsOf[w]: the operations that w may run
          Edits,        \* the files that an editor may leave
          MaxWrites,    \* bound: no operation or external edit begins after these writes
          None

Threads == Writers \cup Timers

Lists == {"allow", "deny", "declined"}

Contents == [Lists -> SUBSET Patterns]

\* "unparsable": config.Load and mutate fail.
Forms == {"good", "unparsable"}

Files == [content : Contents, form : Forms]

\* SetLists compiles every pattern of the two lists, or takes none of them.
Loads(f) ==
    /\ f.form = "good"
    /\ (f.content["allow"] \cup f.content["deny"]) \cap Malformed = {}

(***************************************************************************)
(* The operations: the edits they make, one mutate each; when they reload; *)
(* whether they are the console's, which gives up on an error and records  *)
(* the reload's outcome.                                                   *)
(***************************************************************************)
Edit(list, drop, add) == [list |-> list, drop |-> drop, add |-> add]

Op(edits, reload, console) == [edits |-> edits, reload |-> reload, console |-> console]

OperatorApprove(p) == <<Edit("deny", {p}, {}), Edit("allow", {}, {p})>>

OperatorDeny(p) == <<Edit("allow", {p}, {}), Edit("deny", {}, {p})>>

\* Hold decisions and /v1/lists reload if the last edit changed the file.
Persist(p) == {Op(OperatorApprove(p), "last changed", FALSE),
               Op(OperatorDeny(p), "last changed", FALSE)}

RemoveFrom(list, p) == Op(<<Edit(list, {p}, {})>>, "last changed", FALSE)

ConsoleMove(p) == {Op(OperatorApprove(p), "always", TRUE),
                   Op(OperatorDeny(p), "always", TRUE)}

ConsoleRemove(p) ==
    Op(<<Edit("allow", {p}, {}), Edit("deny", {p}, {})>>, "any changed", TRUE)

\* The suggestion manager reloads after every write that did not fail.  What it
\* generalizes to stays on the other list, if it is there.
Generalize(list, p, sources) == Op(<<Edit(list, sources, {p})>>, "always", FALSE)

AddDeclinedSuggestion(p) == Op(<<Edit("declined", {}, {p})>>, "always", FALSE)

Job(o, i, changed, failed) == [op |-> o, step |-> i, changed |-> changed, failed |-> failed]

\* Mutant: the transformation adds its lines and forgets those to take off.
ApplyAddsOnly(e, c) == [c EXCEPT ![e.list] = @ \cup e.add]

Apply(e, c) == [c EXCEPT ![e.list] = (@ \ e.drop) \cup e.add]

OpKind ==
    [edits : Seq([list : Lists, drop : SUBSET Patterns, add : SUBSET Patterns]),
     reload : {"last changed", "any changed", "always"},
     console : BOOLEAN]

ASSUME ConstantsAssumption ==
    /\ Writers \cap Timers = {}
    /\ OpsOf \in [Writers -> SUBSET OpKind]
    /\ \A w \in Writers : \A o \in OpsOf[w] : o.edits # <<>>
    /\ Malformed \subseteq Patterns
    /\ Edits \subseteq Files
    /\ MaxWrites \in Nat
    /\ None \notin Files

VARIABLES
    file,       \* what the file holds
    mtime,      \* its modification time: the number of writes so far
    lists,      \* Server.allowList and denyList: what requests are matched with
    cfg,        \* Server.cfg
    seen,       \* Watcher.seenMTime
    event,      \* the debounce timer is armed
    badge,      \* the last recorded reload of the lists failed
    pc,         \* where a thread is
    job,        \* a writer's operation, the edit it is at, whether an edit
                \* changed the file, whether one failed
    snap,       \* what the thread read from the file
    raced,      \* history: an edit overlapped somebody else's work, or went on
                \* although the edit before it could not be written
    unrecorded  \* history: a line that does not compile was edited, and no reload
                \* has been recorded since

disk == <<file, mtime, event>>
copies == <<lists, cfg>>
watch == <<seen, badge, unrecorded>>
local == <<job, snap>>
vars == <<disk, copies, watch, pc, local, raced>>

-----------------------------------------------------------------------------

Init ==
    /\ file \in {f \in Edits : Loads(f)}
    /\ mtime = 0
    /\ lists = [l \in {"allow", "deny"} |-> file.content[l]]
    /\ cfg = file.content
    /\ seen = 0
    /\ event = FALSE
    /\ badge = FALSE /\ unrecorded = FALSE
    /\ pc = [t \in Threads |-> "idle"]
    /\ job = [w \in Writers |-> None]
    /\ snap = [t \in Threads |-> None]
    /\ raced = FALSE

Goto(t, label) == pc' = [pc EXCEPT ![t] = label]

OthersBusy(t) == \E u \in Threads \ {t} : pc[u] # "idle"

(***************************************************************************)
(* An operation's edits.  mutate reads the file, applies the edit, returns *)
(* if nothing changed, and renames a complete new file over the old one.   *)
(***************************************************************************)
Begin(w, o) ==
    /\ pc[w] = "idle"
    /\ mtime < MaxWrites
    /\ job' = [job EXCEPT ![w] = Job(o, 1, FALSE, FALSE)]
    /\ raced' = (raced \/ mtime # seen)
    /\ Goto(w, "read")
    /\ UNCHANGED <<disk, copies, watch, snap>>

CurrentEdit(w) == job[w].op.edits[job[w].step]

MoreEdits(w) == job[w].step < Len(job[w].op.edits)

WantsReload(w, changed, failed) ==
    LET j == job[w]
    IN  /\ ~failed
        /\ ~(j.op.console /\ j.failed)
        /\ \/ j.op.reload = "always"
           \/ j.op.reload = "last changed" /\ changed
           \/ j.op.reload = "any changed" /\ (j.changed \/ changed)

\* After an edit: the next one, the reload or the end.
AfterEdit(w, changed, failed) ==
    LET j == job[w]
    IN  \/ /\ MoreEdits(w)
           /\ ~(failed /\ j.op.reload = "any changed")
           /\ job' = [job EXCEPT ![w] = Job(j.op, j.step + 1, j.changed \/ changed,
                                            j.failed \/ failed)]
           /\ Goto(w, "read")
        \/ /\ ~MoreEdits(w) \/ (failed /\ j.op.reload = "any changed")
           /\ WantsReload(w, changed, failed)
           /\ Goto(w, "load")
           /\ UNCHANGED job
        \/ /\ ~MoreEdits(w) \/ (failed /\ j.op.reload = "any changed")
           /\ ~WantsReload(w, changed, failed)
           /\ job' = [job EXCEPT ![w] = None]
           /\ Goto(w, "idle")

\* Mutant: the file that the operation's first edit read is edited once more.
ReadOnce(w) ==
    /\ pc[w] = "read"
    /\ file.form # "unparsable"
    /\ LET f == IF snap[w] = None THEN file ELSE snap[w]
       IN  IF Apply(CurrentEdit(w), f.content) = f.content
              THEN AfterEdit(w, FALSE, FALSE) /\ snap' = [snap EXCEPT ![w] = f]
              ELSE /\ Goto(w, "write")
                   /\ snap' = [snap EXCEPT ![w] = f]
                   /\ UNCHANGED job
    /\ UNCHANGED <<disk, copies, watch, raced>>

Read(w) ==
    /\ pc[w] = "read"
    /\ \/ /\ file.form = "unparsable"
          /\ AfterEdit(w, FALSE, TRUE)
          /\ UNCHANGED snap
       \/ /\ file.form # "unparsable"
          /\ Apply(CurrentEdit(w), file.content) = file.content
          /\ AfterEdit(w, FALSE, FALSE)
          /\ UNCHANGED snap
       \/ /\ file.form # "unparsable"
          /\ Apply(CurrentEdit(w), file.content) # file.content
          /\ snap' = [snap EXCEPT ![w] = file]
          /\ Goto(w, "write")
          /\ UNCHANGED job
    /\ UNCHANGED <<disk, copies, watch, raced>>

Replace(content, form) ==
    /\ file' = [content |-> content, form |-> form]
    /\ mtime' = mtime + 1
    /\ event' = TRUE

TouchesMalformed(e) == e.list # "declined" /\ (e.drop \cup e.add) \cap Malformed # {}

Write(w) ==
    /\ pc[w] = "write"
    /\ Replace(Apply(CurrentEdit(w), snap[w].content), snap[w].form)
    /\ raced' = (raced \/ OthersBusy(w))
    /\ unrecorded' = (unrecorded \/ TouchesMalformed(CurrentEdit(w)))
    /\ AfterEdit(w, TRUE, FALSE)
    /\ snap' = [snap EXCEPT ![w] = None]
    /\ UNCHANGED <<copies, seen, badge>>

\* atomicWrite fails: no space, no permission.
WriteFails(w) ==
    /\ pc[w] = "write"
    /\ AfterEdit(w, FALSE, TRUE)
    /\ snap' = [snap EXCEPT ![w] = None]
    /\ raced' = (raced \/ MoreEdits(w))
    /\ UNCHANGED <<disk, copies, watch>>

(***************************************************************************)
(* The reload: config.Load, ReloadListsFromConfig, ReloadConfig; a writer  *)
(* ends with MarkReloaded.  Who records the outcome of the lists: the      *)
(* watcher and the console.                                                *)
(***************************************************************************)
Records(t) == IF t \in Timers THEN TRUE ELSE job[t].op.console

Record(t, failed) ==
    /\ badge' = IF Records(t) THEN failed ELSE badge
    /\ unrecorded' = (unrecorded /\ ~Records(t))

EndJob(t) == job' = IF t \in Writers THEN [job EXCEPT ![t] = None] ELSE job

Load(t) ==
    /\ pc[t] = "load"
    /\ \/ /\ file.form = "unparsable"
          /\ Record(t, TRUE)
          /\ EndJob(t)
          /\ Goto(t, "idle")
          /\ UNCHANGED snap
       \/ /\ file.form # "unparsable"
          /\ snap' = [snap EXCEPT ![t] = file]
          /\ Goto(t, "lists")
          /\ UNCHANGED <<badge, unrecorded, job>>
    /\ UNCHANGED <<disk, copies, seen, raced>>

ReloadLists(t) ==
    /\ pc[t] = "lists"
    /\ IF Loads(snap[t])
          THEN lists' = [l \in {"allow", "deny"} |-> snap[t].content[l]]
          ELSE UNCHANGED lists
    /\ IF t \in Timers THEN Record(t, ~Loads(snap[t])) ELSE UNCHANGED <<badge, unrecorded>>
    /\ Goto(t, "config")
    /\ UNCHANGED <<disk, cfg, seen, local, raced>>

\* Mutant: only the watcher refreshes the configuration pointer (#183).
ReloadConfigByWatcher(t) ==
    /\ pc[t] = "config"
    /\ cfg' = IF t \in Timers THEN snap[t].content ELSE cfg
    /\ snap' = [snap EXCEPT ![t] = IF t \in Writers THEN @ ELSE None]
    /\ Goto(t, IF t \in Writers THEN "mark" ELSE "idle")
    /\ UNCHANGED <<disk, lists, watch, job, raced>>

ReloadConfig(t) ==
    /\ pc[t] = "config"
    /\ cfg' = snap[t].content
    /\ snap' = [snap EXCEPT ![t] = IF t \in Writers THEN @ ELSE None]
    /\ Goto(t, IF t \in Writers THEN "mark" ELSE "idle")
    /\ UNCHANGED <<disk, lists, watch, job, raced>>

\* MarkReloaded; reloadAfterInternalWrite returns, and the console's OnReload
\* records what became of the lists.
MarkReloaded(t) ==
    /\ pc[t] = "mark"
    /\ seen' = mtime
    /\ Record(t, ~Loads(snap[t]))
    /\ snap' = [snap EXCEPT ![t] = None]
    /\ EndJob(t)
    /\ Goto(t, "idle")
    /\ UNCHANGED <<disk, copies, raced>>

(***************************************************************************)
(* The editor and the watcher.                                             *)
(***************************************************************************)
ExternalEdit(f) ==
    /\ mtime < MaxWrites
    /\ Replace(f.content, f.form)
    /\ raced' = (raced \/ \E t \in Threads : pc[t] # "idle")
    /\ UNCHANGED <<copies, watch, pc, local>>

\* maybeFireReload in a goroutine of the debounce timer.
TimerFires(t) ==
    /\ event
    /\ pc[t] = "idle"
    /\ event' = FALSE
    /\ seen' = mtime
    /\ Goto(t, IF mtime # seen THEN "load" ELSE "idle")
    /\ UNCHANGED <<file, mtime, copies, badge, unrecorded, local, raced>>

ReloadStep(t) == Load(t) \/ ReloadLists(t) \/ ReloadConfig(t) \/ MarkReloaded(t)

Next ==
    \/ \E w \in Writers : \/ \E o \in OpsOf[w] : Begin(w, o)
                          \/ Read(w) \/ Write(w) \/ WriteFails(w)
    \/ \E t \in Threads : ReloadStep(t)
    \/ \E f \in Edits : ExternalEdit(f)
    \/ \E t \in Timers : TimerFires(t)

Spec == Init /\ [][Next]_vars

-----------------------------------------------------------------------------
(***************************************************************************)
(* The type invariant.                                                     *)
(***************************************************************************)
TypeOK ==
    /\ file \in Files
    /\ mtime \in Nat /\ seen \in 0..mtime
    /\ lists \in [{"allow", "deny"} -> SUBSET Patterns]
    /\ cfg \in Contents
    /\ event \in BOOLEAN /\ badge \in BOOLEAN
    /\ raced \in BOOLEAN /\ unrecorded \in BOOLEAN
    /\ pc \in [Threads -> {"idle", "read", "write", "load", "lists", "config", "mark"}]
    /\ \A w \in Writers :
          IF pc[w] = "idle"
             THEN job[w] = None
             ELSE /\ job[w] \in [op : OpsOf[w], step : Nat, changed : BOOLEAN, failed : BOOLEAN]
                  /\ job[w].step \in 1..Len(job[w].op.edits)
    /\ snap \in [Threads -> Files \cup {None}]

Quiescent == ~event /\ \A t \in Threads : pc[t] = "idle"

OnBoth == file.content["allow"] \cap file.content["deny"]

Other(l) == IF l = "allow" THEN "deny" ELSE "allow"

\* What w adds to one list and took off the other by the edit before.
Moved(w) ==
    LET edits == job[w].op.edits
        n == job[w].step
    IN  IF n = 1 THEN {}
        ELSE IF edits[n - 1].list # Other(edits[n].list) THEN {}
        ELSE edits[n].add \cap (edits[n - 1].drop \ edits[n - 1].add)

(***************************************************************************)
(* #179, #194: as long as edits do not overlap, a decision of an operator, *)
(* which takes its pattern off one list and then puts it on the other,     *)
(* leaves it on one list alone, also where a generalization, which only    *)
(* adds, or an editor had put it on both; and nothing else that the daemon *)
(* writes comes to be on both lists but what an edit adds that does not    *)
(* look at the other list.                                                 *)
(***************************************************************************)
OnOneListUnlessRaced ==
    [][\A w \in Writers :
          Write(w) /\ ~raced' => OnBoth' \subseteq (OnBoth \cup CurrentEdit(w).add) \ Moved(w)]_vars

(***************************************************************************)
(* As long as edits do not overlap with other work, each write of the file *)
(* makes the edit it was asked for on what the file then holds, and loses  *)
(* nothing that was written before.                                        *)
(***************************************************************************)
NoUpdateIsLost ==
    [][\A w \in Writers :
          Write(w) /\ ~raced' => file'.content = Apply(CurrentEdit(w), file.content)]_vars

(***************************************************************************)
(* #80, #183: when everything has settled, requests are matched with what  *)
(* the file says and the rest of the daemon reads the same; the watcher    *)
(* skips only what the daemon wrote and reloaded itself.  If the file does *)
(* not load, and only then, the badge says so (#129): "a non-empty         *)
(* LastError means the running set diverges from the file on disk" - but   *)
(* for lines that do not compile and went on or off a list (/v1/lists, for *)
(* one, does not validate them) with nobody to record the reload that      *)
(* followed, as reloadAfterInternalWrite does not.                         *)
(***************************************************************************)
DaemonFollowsFileUnlessRaced ==
    Quiescent /\ ~raced =>
        /\ Loads(file) => /\ lists = [l \in {"allow", "deny"} |-> file.content[l]]
                          /\ cfg = file.content
        /\ ~unrecorded => (badge <=> ~Loads(file))
====
