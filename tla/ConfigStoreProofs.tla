-------------------------- MODULE ConfigStoreProofs --------------------------
(***************************************************************************)
(* Proofs about ConfigStore for any writers, operations and files: what a  *)
(* write loses (configwrite.mutate takes no lock), which edits may leave a *)
(* pattern on both lists, and that the daemon's copies follow the file -   *)
(* each one while edits, or reloads, do not overlap.                       *)
(***************************************************************************)
EXTENDS ConfigStore, SequenceTheorems, TLAPS

Labels == {"idle", "read", "write", "load", "lists", "config", "mark"}

Shapes == pc \in [Threads -> Labels] /\ DOMAIN snap = Threads

(***************************************************************************)
(* What a writer is about to write is made from what the file holds, until *)
(* somebody else writes it; whoever does, does it beside the writer.       *)
(***************************************************************************)
ReadIsCurrent == \A w \in Writers : pc[w] = "write" /\ ~raced => snap[w] = file

IInv == Shapes /\ ReadIsCurrent

-----------------------------------------------------------------------------
(***************************************************************************)
(* How a thread moves on.                                                  *)
(***************************************************************************)
\* t alone moves, to a label other than "write", and raced is not taken back.
Leaves(t) ==
    /\ \E label \in Labels \ {"write"} : Goto(t, label)
    /\ DOMAIN snap' = DOMAIN snap
    /\ \A u \in Threads \ {t} : snap'[u] = snap[u]
    /\ raced => raced'

LEMMA LeavesKeeps ==
    ASSUME IInv, NEW t \in Threads, Leaves(t), raced' \/ file' = file
    PROVE  IInv'
<1>1. PICK label \in Labels \ {"write"} : pc' = [pc EXCEPT ![t] = label]
  BY DEF Leaves, Goto
<1>2. Shapes'
  BY <1>1 DEF IInv, Shapes, Leaves
<1>3. ReadIsCurrent'
  BY <1>1 DEF IInv, Shapes, ReadIsCurrent, Leaves, Threads
<1> QED
  BY <1>2, <1>3 DEF IInv

LEMMA AfterEditMoves ==
    ASSUME NEW w \in Writers, NEW changed, NEW failed, AfterEdit(w, changed, failed)
    PROVE  \E label \in Labels \ {"write"} : Goto(w, label)
BY DEF AfterEdit, Labels

LEMMA BeginKeeps ==
    ASSUME IInv, NEW w \in Writers, NEW o, Begin(w, o)
    PROVE  IInv'
<1>1. Leaves(w) /\ file' = file
  BY DEF Begin, Leaves, Labels, disk
<1> QED
  BY <1>1, LeavesKeeps DEF Threads

LEMMA ReadKeeps ==
    ASSUME IInv, NEW w \in Writers, Read(w)
    PROVE  IInv'
<1>1. file' = file /\ raced' = raced /\ w \in Threads
  BY DEF Read, disk, Threads
<1>2. CASE Goto(w, "write") /\ snap' = [snap EXCEPT ![w] = file]
  <2>1. pc' = [pc EXCEPT ![w] = "write"]
    BY <1>2 DEF Goto
  <2>2. Shapes'
    BY <1>1, <1>2, <2>1 DEF IInv, Shapes, Labels
  <2>3. ReadIsCurrent'
    BY <1>1, <1>2, <2>1 DEF IInv, Shapes, ReadIsCurrent, Threads
  <2> QED
    BY <2>2, <2>3 DEF IInv
<1>3. CASE UNCHANGED snap /\ \E failed \in BOOLEAN : AfterEdit(w, FALSE, failed)
  <2>1. Leaves(w)
    BY <1>1, <1>3, AfterEditMoves DEF Leaves
  <2> QED
    BY <1>1, <2>1, LeavesKeeps
<1> QED
  BY <1>2, <1>3 DEF Read

LEMMA WriteKeeps ==
    ASSUME IInv, NEW w \in Writers, Write(w)
    PROVE  IInv'
<1>1. /\ w \in Threads /\ pc[w] = "write" /\ raced' = (raced \/ OthersBusy(w))
      /\ snap' = [snap EXCEPT ![w] = None] /\ AfterEdit(w, TRUE, FALSE)
  BY DEF Write, Threads
<1>2. PICK label \in Labels \ {"write"} : pc' = [pc EXCEPT ![w] = label]
  BY <1>1, AfterEditMoves DEF Goto
<1>3. Shapes'
  BY <1>1, <1>2 DEF IInv, Shapes
<1>4. ReadIsCurrent'
  <2>1. ASSUME NEW v \in Writers, pc'[v] = "write"
        PROVE  raced'
    <3>1. v \in Threads \ {w} /\ pc[v] = "write"
      BY <1>1, <1>2, <2>1 DEF IInv, Shapes, Threads
    <3> QED
      BY <1>1, <3>1 DEF OthersBusy
  <2> QED
    BY <2>1 DEF ReadIsCurrent
<1> QED
  BY <1>3, <1>4 DEF IInv

LEMMA WriteFailsKeeps ==
    ASSUME IInv, NEW w \in Writers, WriteFails(w)
    PROVE  IInv'
<1>1. Leaves(w) /\ file' = file
  BY AfterEditMoves DEF WriteFails, Leaves, disk, IInv, Shapes
<1> QED
  BY <1>1, LeavesKeeps DEF Threads

LEMMA ReloadStepKeeps ==
    ASSUME IInv, NEW t \in Threads, ReloadStep(t)
    PROVE  IInv'
<1>1. file' = file /\ raced' = raced
  BY DEF ReloadStep, Load, ReloadLists, ReloadConfig, MarkReloaded, disk
<1>2. \E label \in Labels \ {"write"} : Goto(t, label)
  BY DEF ReloadStep, Load, ReloadLists, ReloadConfig, MarkReloaded, Labels
<1>3. snap' = snap \/ \E x : snap' = [snap EXCEPT ![t] = x]
  BY DEF ReloadStep, Load, ReloadLists, ReloadConfig, MarkReloaded, local
<1>4. Leaves(t)
  BY <1>1, <1>2, <1>3 DEF Leaves, IInv, Shapes
<1> QED
  BY <1>1, <1>4, LeavesKeeps

LEMMA ExternalEditKeeps ==
    ASSUME IInv, NEW f, ExternalEdit(f)
    PROVE  IInv'
<1>1. /\ raced' = (raced \/ \E t \in Threads : pc[t] # "idle")
      /\ pc' = pc /\ snap' = snap
  BY DEF ExternalEdit, local
<1> QED
  BY <1>1 DEF IInv, Shapes, ReadIsCurrent, Threads

LEMMA TimerFiresKeeps ==
    ASSUME IInv, NEW t \in Timers, TimerFires(t)
    PROVE  IInv'
<1>1. Leaves(t) /\ file' = file
  BY DEF TimerFires, Leaves, Labels, local
<1> QED
  BY <1>1, LeavesKeeps DEF Threads

-----------------------------------------------------------------------------
LEMMA InitIInv == Init => IInv
BY DEF Init, IInv, Shapes, ReadIsCurrent, Threads, Labels

LEMMA NextKeeps == IInv /\ [Next]_vars => IInv'
<1> SUFFICES ASSUME IInv, [Next]_vars PROVE IInv'
  OBVIOUS
<1>1. CASE Next
  BY <1>1, BeginKeeps, ReadKeeps, WriteKeeps, WriteFailsKeeps, ReloadStepKeeps,
     ExternalEditKeeps, TimerFiresKeeps DEF Next
<1>2. CASE UNCHANGED vars
  BY <1>2 DEF vars, disk, local, IInv, Shapes, ReadIsCurrent
<1> QED
  BY <1>1, <1>2

(***************************************************************************)
(* The invariant above, which says why mutate needs a lock only where      *)
(* edits overlap: what was read is still in the file when it is written.   *)
(***************************************************************************)
THEOREM InductiveInvariant == Spec => []IInv
BY InitIInv, NextKeeps, PTL DEF Spec

(***************************************************************************)
(* For any writers, operations, files and bound: a write beside which      *)
(* nobody else is at work makes its edit on what the file then holds       *)
(* (configwrite.mutate).                                                   *)
(***************************************************************************)
THEOREM UpdatesAreKept == Spec => NoUpdateIsLost
<1>1. IInv /\ [Next]_vars =>
        [\A w \in Writers :
            Write(w) /\ ~raced' => file'.content = Apply(CurrentEdit(w), file.content)]_vars
  <2> SUFFICES ASSUME IInv, NEW w \in Writers, Write(w), ~raced'
               PROVE  file'.content = Apply(CurrentEdit(w), file.content)
    OBVIOUS
  <2>1. pc[w] = "write" /\ ~raced
    BY DEF Write
  <2>2. snap[w] = file
    BY <2>1 DEF IInv, ReadIsCurrent
  <2>3. file' = [content |-> Apply(CurrentEdit(w), snap[w].content), form |-> snap[w].form]
    BY DEF Write, Replace
  <2> QED
    BY <2>2, <2>3
<1> QED
  BY <1>1, InductiveInvariant, PTL DEF NoUpdateIsLost, Spec

-----------------------------------------------------------------------------
(***************************************************************************)
(* The lists of the file.  While nothing raced, an operation's next edit   *)
(* finds what its last one left, unless that one could not be made because *)
(* the file does not parse.                                                *)
(***************************************************************************)
JobInv ==
    \A w \in Writers :
        pc[w] \in {"read", "write"} =>
            job[w].op \in OpsOf[w] /\ job[w].step \in 1..Len(job[w].op.edits)

LastEdit(w) == job[w].op.edits[job[w].step - 1]

Cleared(w) ==
    job[w].step > 1 =>
        \/ file.form = "unparsable"
        \/ \A p \in LastEdit(w).drop \ LastEdit(w).add : p \notin file.content[LastEdit(w).list]

EditInv ==
    \A w \in Writers :
        /\ pc[w] \in {"read", "write"} => Cleared(w)
        /\ pc[w] = "write" => file.form # "unparsable"

SnapInv == \A w \in Writers : pc[w] = "write" => snap[w] \in Files

LInv ==
    /\ DOMAIN job = Writers /\ file \in Files /\ JobInv /\ SnapInv
    /\ ~raced => EditInv

\* An edit of an operation that w may run.
LEMMA EditTypes ==
    ASSUME NEW w \in Writers, NEW o \in OpsOf[w], NEW i \in 1..Len(o.edits)
    PROVE  /\ Len(o.edits) \in Nat
           /\ o.edits[i].list \in Lists
           /\ o.edits[i].drop \subseteq Patterns /\ o.edits[i].add \subseteq Patterns
<1>1. o \in OpKind
  BY ConstantsAssumption
<1>2. o.edits \in Seq([list : Lists, drop : SUBSET Patterns, add : SUBSET Patterns])
  BY <1>1 DEF OpKind
<1>3. o.edits[i] \in [list : Lists, drop : SUBSET Patterns, add : SUBSET Patterns]
  BY <1>2, ElementOfSeq
<1>4. Len(o.edits) \in Nat
  BY <1>2, LenProperties
<1> QED
  BY <1>3, <1>4

\* What an edit leaves of a list.
LEMMA ApplyLists ==
    ASSUME NEW c \in Contents, NEW e, e.list \in Lists
    PROVE  /\ Apply(e, c)[e.list] = (c[e.list] \ e.drop) \cup e.add
           /\ \A l \in Lists \ {e.list} : Apply(e, c)[l] = c[l]
BY DEF Apply, Contents

LEMMA ApplyContents ==
    ASSUME NEW c \in Contents, NEW e, e.list \in Lists, e.add \subseteq Patterns
    PROVE  Apply(e, c) \in Contents
BY DEF Apply, Contents

\* Whether w goes on with the next edit, reloads or returns.
LEMMA AfterEditJob ==
    ASSUME IInv, LInv, NEW w \in Writers, pc[w] \in {"read", "write"},
           NEW changed, NEW failed, AfterEdit(w, changed, failed)
    PROVE  /\ DOMAIN job' = Writers /\ JobInv'
           /\ pc'[w] \in {"read", "load", "idle"}
           /\ pc'[w] = "read" => /\ MoreEdits(w) /\ job'[w].op = job[w].op
                                 /\ job'[w].step = job[w].step + 1
           /\ \A t \in Threads \ {w} : pc'[t] = pc[t]
           /\ \A v \in Writers \ {w} : job'[v] = job[v]
<1>1. pc \in [Threads -> Labels] /\ DOMAIN job = Writers /\ w \in Threads
  BY DEF IInv, Shapes, LInv, Threads
<1>2. job[w].op \in OpsOf[w] /\ job[w].step \in 1..Len(job[w].op.edits)
  BY DEF LInv, JobInv
<1>3. Len(job[w].op.edits) \in Nat
  BY <1>2, EditTypes
<1>4. /\ DOMAIN job' = Writers
      /\ pc'[w] \in {"read", "load", "idle"}
      /\ pc'[w] = "read" => /\ MoreEdits(w) /\ job'[w].op = job[w].op
                            /\ job'[w].step = job[w].step + 1
      /\ \A t \in Threads \ {w} : pc'[t] = pc[t]
      /\ \A v \in Writers \ {w} : job'[v] = job[v]
  <2>1. CASE \E b, f : /\ MoreEdits(w) /\ Goto(w, "read")
                       /\ job' = [job EXCEPT ![w] = Job(job[w].op, job[w].step + 1, b, f)]
    BY <2>1, <1>1 DEF Goto, Job
  <2>2. CASE Goto(w, "load") /\ UNCHANGED job
    BY <2>2, <1>1 DEF Goto
  <2>3. CASE Goto(w, "idle") /\ job' = [job EXCEPT ![w] = None]
    BY <2>3, <1>1 DEF Goto
  <2> QED
    BY <2>1, <2>2, <2>3 DEF AfterEdit
<1>5. JobInv'
  <2>1. ASSUME NEW v \in Writers, pc'[v] \in {"read", "write"}
        PROVE  job'[v].op \in OpsOf[v] /\ job'[v].step \in 1..Len(job'[v].op.edits)
    <3>1. CASE v = w
      BY <3>1, <2>1, <1>2, <1>3, <1>4 DEF MoreEdits
    <3>2. CASE v # w
      BY <3>2, <2>1, <1>4 DEF LInv, JobInv, Threads
    <3> QED
      BY <3>1, <3>2
  <2> QED
    BY <2>1 DEF JobInv
<1> QED
  BY <1>4, <1>5

\* Between the edits: w's last edit has been made, or cannot be.
LEMMA NextEditIsCleared ==
    ASSUME IInv, LInv, NEW w \in Writers, pc[w] \in {"read", "write"},
           pc'[w] = "read" => /\ job'[w].op = job[w].op
                              /\ job'[w].step = job[w].step + 1,
           \/ file'.form = "unparsable"
           \/ \A p \in CurrentEdit(w).drop \ CurrentEdit(w).add :
                 p \notin file'.content[CurrentEdit(w).list],
           pc'[w] \in {"read", "load", "idle"}
    PROVE  /\ pc'[w] \in {"read", "write"} => Cleared(w)'
           /\ pc'[w] # "write"
<1> SUFFICES ASSUME pc'[w] = "read" PROVE Cleared(w)'
  OBVIOUS
<1>1. job[w].op \in OpsOf[w] /\ job[w].step \in 1..Len(job[w].op.edits)
  BY DEF LInv, JobInv
<1>2. job'[w].step - 1 = job[w].step
  BY <1>1, EditTypes
<1>3. LastEdit(w)' = CurrentEdit(w)
  BY <1>2 DEF LastEdit, CurrentEdit
<1> QED
  BY <1>3 DEF Cleared

\* A step that leaves the file alone and does not lead to an edit.
LEMMA FileStays ==
    ASSUME IInv, LInv, file' = file, raced => raced',
           DOMAIN job' = Writers, JobInv', SnapInv',
           \A w \in Writers : /\ pc'[w] \in {"read", "write"} =>
                                    \/ pc[w] = pc'[w] /\ job'[w] = job[w]
                                    \/ ~raced' => Cleared(w)'
                              /\ pc'[w] = "write" /\ ~raced' => file.form # "unparsable"
    PROVE  LInv'
<1>1. ~raced' => EditInv'
  BY DEF LInv, EditInv, Cleared, LastEdit
<1> QED
  BY <1>1 DEF LInv

LEMMA BeginKeepsLists ==
    ASSUME IInv, LInv, NEW w \in Writers, NEW o \in OpsOf[w], Begin(w, o)
    PROVE  LInv'
<1>1. /\ file' = file /\ (raced => raced') /\ DOMAIN job' = Writers /\ w \in Threads
      /\ job'[w] = Job(o, 1, FALSE, FALSE)
      /\ \A v \in Writers \ {w} : job'[v] = job[v]
  BY DEF Begin, LInv, disk, Threads
<1>2. /\ pc'[w] = "read" /\ \A t \in Threads \ {w} : pc'[t] = pc[t]
  BY <1>1 DEF Begin, Goto, IInv, Shapes
<1>3. o.edits # <<>> /\ o.edits \in Seq([list : Lists, drop : SUBSET Patterns, add : SUBSET Patterns])
  <2>1. o \in OpKind /\ o.edits # <<>>
    BY ConstantsAssumption
  <2> QED
    BY <2>1 DEF OpKind
<1>4. Len(o.edits) \in Nat /\ Len(o.edits) # 0
  BY <1>3, LenProperties, EmptySeq
<1>5. job'[w].op = o /\ job'[w].step = 1
  BY <1>1 DEF Job
<1>6. JobInv'
  <2>1. ASSUME NEW v \in Writers \ {w}, pc'[v] \in {"read", "write"}
        PROVE  job'[v].op \in OpsOf[v] /\ job'[v].step \in 1..Len(job'[v].op.edits)
    BY <1>1, <1>2, <2>1 DEF LInv, JobInv, Threads
  <2>2. job'[w].op \in OpsOf[w] /\ job'[w].step \in 1..Len(job'[w].op.edits)
    BY <1>4, <1>5
  <2> QED
    BY <2>1, <2>2 DEF JobInv
<1>7. Cleared(w)'
  BY <1>5 DEF Cleared
<1>8. \A v \in Writers \ {w} : pc'[v] = pc[v] /\ job'[v] = job[v] /\ v \in Threads
  BY <1>1, <1>2 DEF Threads
<1>9. \A v \in Writers : pc'[v] = "write" /\ ~raced' => file.form # "unparsable"
  BY <1>1, <1>2, <1>8 DEF LInv, EditInv
<1>10. SnapInv'
  BY <1>2, <1>8 DEF LInv, SnapInv, Begin
<1> QED
  BY <1>10, <1>1, <1>2, <1>6, <1>7, <1>8, <1>9, FileStays

LEMMA ReadKeepsLists ==
    ASSUME IInv, LInv, NEW w \in Writers, Read(w)
    PROVE  LInv'
<1>a. /\ file' = file /\ raced' = raced /\ w \in Threads /\ pc[w] = "read"
      /\ file \in Files /\ file.content \in Contents
      /\ job[w].op \in OpsOf[w] /\ job[w].step \in 1..Len(job[w].op.edits)
  BY DEF Read, LInv, disk, Threads, JobInv, Files
<1>b. CurrentEdit(w).list \in Lists
  BY <1>a, EditTypes DEF CurrentEdit
<1>1. CASE /\ file.form # "unparsable" /\ Goto(w, "write") /\ UNCHANGED job
           /\ snap' = [snap EXCEPT ![w] = file]
  <2>1. pc'[w] = "write" /\ \A t \in Threads \ {w} : pc'[t] = pc[t]
    BY <1>1, <1>a DEF Goto, IInv, Shapes
  <2>2. JobInv' /\ DOMAIN job' = Writers
    BY <1>1, <1>a, <2>1 DEF LInv, JobInv, Threads
  <2>3. ~raced' => Cleared(w)'
    BY <1>1, <1>a DEF LInv, EditInv, Cleared, LastEdit
  <2>4. \A v \in Writers \ {w} : pc'[v] = pc[v] /\ job'[v] = job[v]
    BY <1>1, <2>1 DEF Threads
  <2>5. \A v \in Writers : pc'[v] = "write" /\ ~raced' => file.form # "unparsable"
    BY <1>1
  <2>6. SnapInv'
    BY <1>1, <1>a, <2>4 DEF LInv, SnapInv, IInv, Shapes, Threads
  <2> QED
    BY <2>6, <2>2, <2>3, <2>4, <2>5, <1>a, FileStays
<1>2. CASE \E failed \in BOOLEAN :
              /\ AfterEdit(w, FALSE, failed) /\ UNCHANGED snap
              /\ file.form = "unparsable" \/ Apply(CurrentEdit(w), file.content) = file.content
  <2>1. PICK failed \in BOOLEAN : AfterEdit(w, FALSE, failed)
    BY <1>2
  <2>2. /\ DOMAIN job' = Writers /\ JobInv'
        /\ pc'[w] \in {"read", "load", "idle"}
        /\ pc'[w] = "read" => job'[w].op = job[w].op /\ job'[w].step = job[w].step + 1
        /\ \A t \in Threads \ {w} : pc'[t] = pc[t]
        /\ \A v \in Writers \ {w} : job'[v] = job[v]
    BY <2>1, <1>a, AfterEditJob
  <2>3. \/ file'.form = "unparsable"
        \/ \A p \in CurrentEdit(w).drop \ CurrentEdit(w).add :
              p \notin file'.content[CurrentEdit(w).list]
    BY <1>2, <1>a, <1>b, ApplyLists
  <2>4. (pc'[w] \in {"read", "write"} => Cleared(w)') /\ pc'[w] # "write"
    BY <2>2, <2>3, <1>a, NextEditIsCleared
  <2>5. \A v \in Writers \ {w} : pc'[v] = pc[v] /\ job'[v] = job[v]
    BY <2>2 DEF Threads
  <2>6. \A v \in Writers : pc'[v] = "write" /\ ~raced' => file.form # "unparsable"
    BY <2>4, <2>5, <1>a DEF LInv, EditInv
  <2>7. SnapInv'
    BY <1>2, <2>4, <2>5 DEF LInv, SnapInv
  <2> QED
    BY <2>7, <2>2, <2>4, <2>5, <2>6, <1>a, FileStays
<1> QED
  BY <1>1, <1>2 DEF Read


LEMMA WriteKeepsLists ==
    ASSUME IInv, LInv, NEW w \in Writers, Write(w)
    PROVE  LInv'
<1> DEFINE e == CurrentEdit(w)
<1>a. /\ pc[w] = "write" /\ w \in Threads /\ raced' = (raced \/ OthersBusy(w))
      /\ AfterEdit(w, TRUE, FALSE) /\ snap' = [snap EXCEPT ![w] = None]
      /\ snap[w] \in Files /\ file \in Files
      /\ file' = [content |-> Apply(e, snap[w].content), form |-> snap[w].form]
  BY DEF Write, Replace, LInv, SnapInv, Threads
<1>b. job[w].op \in OpsOf[w] /\ job[w].step \in 1..Len(job[w].op.edits)
  BY <1>a DEF LInv, JobInv
<1>c. e.list \in Lists /\ e.drop \subseteq Patterns /\ e.add \subseteq Patterns
  BY <1>b, EditTypes DEF CurrentEdit
<1>1. /\ DOMAIN job' = Writers /\ JobInv'
      /\ pc'[w] \in {"read", "load", "idle"}
      /\ pc'[w] = "read" => job'[w].op = job[w].op /\ job'[w].step = job[w].step + 1
      /\ \A t \in Threads \ {w} : pc'[t] = pc[t]
  BY <1>a, AfterEditJob
<1>2. file' \in Files
  <2>1. snap[w].content \in Contents /\ snap[w].form \in Forms
    BY <1>a DEF Files
  <2>2. Apply(e, snap[w].content) \in Contents
    BY <2>1, <1>c, ApplyContents
  <2> QED
    BY <2>1, <2>2, <1>a DEF Files
<1>3. SnapInv'
  BY <1>a, <1>1 DEF LInv, SnapInv, IInv, Shapes, Threads
<1>4. ASSUME ~raced' PROVE EditInv'
  <2>1. ~raced /\ snap[w] = file /\ file.content \in Contents
    BY <1>4, <1>a DEF IInv, ReadIsCurrent, Files
  <2>2. /\ file'.content = Apply(e, file.content) /\ file'.form = file.form
    BY <2>1, <1>a
  <2>3. file'.content[e.list] = (file.content[e.list] \ e.drop) \cup e.add
    BY <2>1, <2>2, <1>c, ApplyLists
  <2>4. \A v \in Writers \ {w} : pc[v] = "idle" /\ pc'[v] = "idle"
    BY <1>4, <1>a, <1>1 DEF OthersBusy, Threads
  <2>5. \A p \in e.drop \ e.add : p \notin file'.content[e.list]
    BY <2>3
  <2>6. (pc'[w] \in {"read", "write"} => Cleared(w)') /\ pc'[w] # "write"
    BY <2>5, <1>a, <1>1, NextEditIsCleared
  <2> QED
    BY <2>4, <2>6 DEF EditInv
<1> QED
  BY <1>1, <1>2, <1>3, <1>4 DEF LInv

LEMMA WriteFailsKeepsLists ==
    ASSUME IInv, LInv, NEW w \in Writers, WriteFails(w)
    PROVE  LInv'
<1>a. /\ pc[w] = "write" /\ w \in Threads /\ raced' = (raced \/ MoreEdits(w))
      /\ AfterEdit(w, FALSE, TRUE) /\ snap' = [snap EXCEPT ![w] = None] /\ file' = file
  BY DEF WriteFails, Threads, disk
<1>1. /\ DOMAIN job' = Writers /\ JobInv'
      /\ pc'[w] \in {"read", "load", "idle"}
      /\ pc'[w] = "read" => MoreEdits(w)
      /\ \A t \in Threads \ {w} : pc'[t] = pc[t]
      /\ \A v \in Writers \ {w} : job'[v] = job[v]
  BY <1>a, AfterEditJob
<1>2. \A v \in Writers \ {w} : pc'[v] = pc[v] /\ job'[v] = job[v] /\ v \in Threads
  BY <1>1 DEF Threads
<1>3. SnapInv'
  BY <1>a, <1>1, <1>2 DEF LInv, SnapInv, IInv, Shapes
<1>4. \A v \in Writers : pc'[v] = "write" /\ ~raced' => file.form # "unparsable"
  BY <1>a, <1>1, <1>2 DEF LInv, EditInv
<1>5. (raced => raced') /\ (pc'[w] \in {"read", "write"} => raced')
  BY <1>a, <1>1
<1> QED
  BY <1>a, <1>1, <1>2, <1>3, <1>4, <1>5, FileStays

\* Reloads and the watcher.
LEMMA OtherStepsKeepLists ==
    ASSUME IInv, LInv, NEW t \in Threads, ReloadStep(t) \/ (t \in Timers /\ TimerFires(t))
    PROVE  LInv'
<1>1. file' = file /\ raced' = raced
  BY DEF ReloadStep, Load, ReloadLists, ReloadConfig, MarkReloaded, TimerFires, disk
<1>2. /\ \A u \in Threads \ {t} : pc'[u] = pc[u]
      /\ pc'[t] \notin {"read", "write"}
  BY DEF ReloadStep, Load, ReloadLists, ReloadConfig, MarkReloaded, TimerFires, Goto, IInv, Shapes
<1>3. /\ DOMAIN job' = Writers /\ \A v \in Writers \ {t} : job'[v] = job[v]
  BY DEF ReloadStep, Load, ReloadLists, ReloadConfig, MarkReloaded, TimerFires, EndJob, local, LInv
<1>4. \A u \in Threads \ {t} : snap'[u] = snap[u]
  BY DEF ReloadStep, Load, ReloadLists, ReloadConfig, MarkReloaded, TimerFires, local, IInv, Shapes
<1>5. \A v \in Writers : pc'[v] \in {"read", "write"} =>
                            pc'[v] = pc[v] /\ job'[v] = job[v] /\ snap'[v] = snap[v]
  BY <1>2, <1>3, <1>4 DEF Threads
<1>6. JobInv' /\ SnapInv'
  BY <1>5 DEF LInv, JobInv, SnapInv
<1>7. \A v \in Writers : pc'[v] = "write" /\ ~raced' => file.form # "unparsable"
  BY <1>1, <1>5 DEF LInv, EditInv
<1> QED
  BY <1>1, <1>3, <1>5, <1>6, <1>7, FileStays

LEMMA ExternalEditKeepsLists ==
    ASSUME IInv, LInv, NEW f \in Edits, ExternalEdit(f)
    PROVE  LInv'
<1>1. /\ f \in Files /\ file' = [content |-> f.content, form |-> f.form]
      /\ raced' = (raced \/ \E t \in Threads : pc[t] # "idle")
      /\ pc' = pc /\ snap' = snap /\ job' = job
  BY ConstantsAssumption DEF ExternalEdit, Replace, local
<1>2. file' = f
  BY <1>1 DEF Files
<1>3. JobInv' /\ SnapInv'
  BY <1>1 DEF LInv, JobInv, SnapInv
<1>4. ~raced' => EditInv'
  BY <1>1 DEF EditInv, Threads
<1> QED
  BY <1>1, <1>2, <1>3, <1>4 DEF LInv

(***************************************************************************)
(* This second invariant holds whatever the operations are.                *)
(***************************************************************************)
THEOREM ListsInvariant == Spec => []LInv
<1>1. Init => LInv
  <2> SUFFICES ASSUME Init PROVE LInv
    OBVIOUS
  <2>1. file \in Edits /\ file \in Files /\ \A w \in Writers : pc[w] = "idle"
    BY ConstantsAssumption DEF Init, Threads
  <2> QED
    BY <2>1 DEF Init, LInv, JobInv, SnapInv, EditInv
<1>2. IInv /\ LInv /\ [Next]_vars => LInv'
  <2> SUFFICES ASSUME IInv, LInv, [Next]_vars PROVE LInv'
    OBVIOUS
  <2>1. CASE Next
    BY <2>1, BeginKeepsLists, ReadKeepsLists, WriteKeepsLists, WriteFailsKeepsLists,
       OtherStepsKeepLists, ExternalEditKeepsLists DEF Next, Threads
  <2>2. CASE UNCHANGED vars
    BY <2>2 DEF vars, disk, local, LInv, JobInv, SnapInv, EditInv, Cleared, LastEdit
  <2> QED
    BY <2>1, <2>2
<1> QED
  BY <1>1, <1>2, InductiveInvariant, PTL DEF Spec

\* What an operation took off the other list is not there when it adds it.
LEMMA MovedIsOffTheOther ==
    ASSUME IInv, LInv, ~raced, NEW w \in Writers, pc[w] = "write", NEW p \in Moved(w)
    PROVE  /\ CurrentEdit(w).list \in Lists
           /\ p \notin file.content[Other(CurrentEdit(w).list)]
<1> DEFINE n == job[w].step
<1>1. job[w].op \in OpsOf[w] /\ n \in 1..Len(job[w].op.edits)
  BY DEF LInv, JobInv
<1>2. Len(job[w].op.edits) \in Nat /\ CurrentEdit(w).list \in Lists
  BY <1>1, EditTypes DEF CurrentEdit
<1>3. /\ n # 1 /\ LastEdit(w).list = Other(CurrentEdit(w).list)
      /\ p \in LastEdit(w).drop \ LastEdit(w).add
  BY DEF Moved, LastEdit, CurrentEdit
<1>4. Cleared(w) /\ file.form # "unparsable"
  BY DEF LInv, EditInv
<1> QED
  BY <1>1, <1>2, <1>3, <1>4 DEF Cleared

(***************************************************************************)
(* #179, #194, for any set of writers, operations and files: while edits   *)
(* do not overlap, what an operation takes off one list and puts on the    *)
(* other is on one list alone, and no edit but one that does not look at   *)
(* the other list puts a pattern on both (configwrite.mutate,              *)
(* OperatorApprove, movePattern, Generalize).                              *)
(***************************************************************************)
THEOREM OnOneList == Spec => OnOneListUnlessRaced
<1>1. IInv /\ LInv /\ [Next]_vars =>
        [\A w \in Writers :
            Write(w) /\ ~raced' =>
                OnBoth' \subseteq (OnBoth \cup CurrentEdit(w).add) \ Moved(w)]_vars
  <2> SUFFICES ASSUME IInv, LInv, NEW w \in Writers, Write(w), ~raced', NEW p \in OnBoth'
               PROVE  p \in (OnBoth \cup CurrentEdit(w).add) \ Moved(w)
    OBVIOUS
  <2> DEFINE e == CurrentEdit(w)
  <2>1. pc[w] = "write" /\ ~raced /\ snap[w] = file /\ file.content \in Contents
    BY DEF Write, IInv, ReadIsCurrent, LInv, Files
  <2>2. file'.content = Apply(e, file.content)
    BY <2>1 DEF Write, Replace
  <2>3. e.list \in Lists
    BY <2>1, EditTypes DEF LInv, JobInv, CurrentEdit
  <2> HIDE DEF e
  <2>4. /\ file'.content[e.list] = (file.content[e.list] \ e.drop) \cup e.add
        /\ \A l \in Lists \ {e.list} : file'.content[l] = file.content[l]
    BY <2>1, <2>2, <2>3, ApplyLists
  <2>5. p \in file'.content["allow"] /\ p \in file'.content["deny"]
    BY DEF OnBoth
  <2>6. p \in OnBoth \cup e.add
    BY <2>3, <2>4, <2>5 DEF OnBoth, Lists
  <2>7. p \notin Moved(w)
    <3> SUFFICES ASSUME p \in Moved(w) PROVE FALSE
      OBVIOUS
    <3>1. p \notin file.content[Other(e.list)]
      BY <2>1, MovedIsOffTheOther DEF e
    <3>2. Other(e.list) \in {"allow", "deny"} /\ Other(e.list) # e.list
      BY <2>3 DEF Other, Lists
    <3>3. file'.content[Other(e.list)] = file.content[Other(e.list)]
      BY <3>2, <2>4 DEF Lists
    <3> QED
      BY <3>1, <3>2, <3>3, <2>5
  <2> QED
    BY <2>6, <2>7 DEF e
<1> QED
  BY <1>1, InductiveInvariant, ListsInvariant, PTL DEF OnOneListUnlessRaced, Spec

-----------------------------------------------------------------------------
(***************************************************************************)
(* The daemon's copies.  While nothing raced, whatever does not follow the *)
(* file is on its way: the watcher has an event whose mtime it has not     *)
(* seen, or a reload has not come so far.  Edits of lines that compile do  *)
(* not change whether the file loads, so the badge waits for the watcher,  *)
(* or for whoever records a reload after an edit of others.                *)
(***************************************************************************)
ListsFollow == Loads(file) => lists = [l \in {"allow", "deny"} |-> file.content[l]]

CfgFollows == Loads(file) => cfg = file.content

BadgeFollows == badge <=> ~Loads(file)

Unseen == event /\ mtime # seen

At(T, L) == \E t \in T : pc[t] \in L

BadgeInv ==
    \/ BadgeFollows \/ unrecorded
    \/ At(Timers, {"load", "lists"})
    \/ Unseen /\ \A w \in Writers : pc[w] = "idle"

ReloadInv(t) ==
    /\ pc[t] \in {"lists", "config", "mark"} => snap[t] = file
    /\ pc[t] \in {"config", "mark"} => ListsFollow
    /\ pc[t] = "mark" => CfgFollows

CopyInv ==
    /\ ListsFollow \/ Unseen \/ At(Threads, {"load", "lists"})
    /\ CfgFollows \/ Unseen \/ At(Threads, {"load", "lists", "config"})
    /\ BadgeInv
    /\ \A t \in Threads : ReloadInv(t)

CInv ==
    /\ mtime \in Nat /\ seen \in 0..mtime
    /\ badge \in BOOLEAN
    /\ ~raced => CopyInv

\* Only thread t moves.
Moves(t) ==
    /\ \A u \in Threads \ {t} : pc'[u] = pc[u] /\ snap'[u] = snap[u]
    /\ raced => raced'

\* A writer is at its edits.
LEMMA EditingKeepsCopies ==
    ASSUME IInv, CInv, NEW w \in Writers, Moves(w), UNCHANGED <<disk, copies, watch>>,
           pc[w] \in {"idle", "read", "write"}, pc'[w] \in {"idle", "read", "write", "load"},
           pc[w] = "idle" /\ ~raced' => mtime = seen
    PROVE  CInv'
<1>1. UNCHANGED <<file, mtime, event, lists, cfg, seen, badge, unrecorded>>
  BY DEF disk, copies, watch
<1>2. SUFFICES ASSUME ~raced' PROVE CopyInv'
  BY <1>1 DEF CInv
<1>3. CopyInv /\ \A u \in Threads \ {w} : pc'[u] = pc[u] /\ snap'[u] = snap[u]
  BY <1>2 DEF CInv, Moves
<1>4. /\ At(Threads, {"load", "lists"}) => At(Threads, {"load", "lists"})'
      /\ At(Threads, {"load", "lists", "config"}) => At(Threads, {"load", "lists", "config"})'
  BY <1>3 DEF At
<1>5. At(Timers, {"load", "lists"}) => At(Timers, {"load", "lists"})'
  BY <1>3, ConstantsAssumption DEF At, Threads
<1>6. /\ (ListsFollow' <=> ListsFollow) /\ (CfgFollows' <=> CfgFollows)
      /\ (BadgeFollows' <=> BadgeFollows) /\ (Unseen' <=> Unseen)
  BY <1>1 DEF ListsFollow, CfgFollows, BadgeFollows, Unseen
<1>7. BadgeInv'
  <2>1. BadgeInv
    BY <1>3 DEF CopyInv
  <2>2. CASE BadgeFollows \/ unrecorded \/ At(Timers, {"load", "lists"})
    BY <2>2, <1>1, <1>5, <1>6 DEF BadgeInv
  <2>3. CASE Unseen /\ \A v \in Writers : pc[v] = "idle"
    BY <2>3, <1>2 DEF Unseen
  <2> QED
    BY <2>1, <2>2, <2>3 DEF BadgeInv
<1>8. ASSUME NEW u \in Threads PROVE ReloadInv(u)'
  BY <1>3, <1>6, <1>1 DEF CopyInv, ReloadInv
<1> QED
  BY <1>3, <1>4, <1>6, <1>7, <1>8 DEF CopyInv

LEMMA BeginReadKeepCopies ==
    ASSUME IInv, LInv, CInv, NEW w \in Writers,
           (\E o \in OpsOf[w] : Begin(w, o)) \/ Read(w) \/ WriteFails(w)
    PROVE  CInv'
<1>1. w \in Threads /\ pc \in [Threads -> Labels] /\ DOMAIN snap = Threads
  BY DEF IInv, Shapes, Threads
<1>2. UNCHANGED <<disk, copies, watch>> /\ (raced => raced')
  <2>1. CASE \E o \in OpsOf[w] : Begin(w, o)
    BY <2>1 DEF Begin
  <2>2. CASE Read(w)
    BY <2>2 DEF Read
  <2>3. CASE WriteFails(w)
    BY <2>3 DEF WriteFails
  <2> QED
    BY <2>1, <2>2, <2>3
<1>3. /\ pc[w] \in {"idle", "read", "write"}
      /\ pc[w] = "idle" /\ ~raced' => mtime = seen
  BY DEF Begin, Read, WriteFails
<1>4. snap' = snap \/ \E x : snap' = [snap EXCEPT ![w] = x]
  BY DEF Begin, Read, WriteFails
<1>5. /\ pc'[w] \in {"idle", "read", "write", "load"}
      /\ \A u \in Threads \ {w} : pc'[u] = pc[u]
  <2>1. CASE \E label \in {"read", "write"} : Goto(w, label)
    BY <2>1, <1>1 DEF Goto
  <2>2. CASE /\ pc[w] \in {"read", "write"}
             /\ \E changed, failed \in BOOLEAN : AfterEdit(w, changed, failed)
    BY <2>2, AfterEditJob
  <2> QED
    BY <2>1, <2>2 DEF Begin, Read, WriteFails
<1>6. Moves(w)
  BY <1>1, <1>2, <1>4, <1>5 DEF Moves
<1> QED
  BY <1>2, <1>3, <1>5, <1>6, EditingKeepsCopies

\* Whether the file loads does not depend on lines that compile.
LEMMA EditKeepsLoading ==
    ASSUME IInv, LInv, ~raced, NEW w \in Writers, pc[w] = "write",
           ~TouchesMalformed(CurrentEdit(w)),
           file' = [content |-> Apply(CurrentEdit(w), file.content), form |-> file.form]
    PROVE  Loads(file)' <=> Loads(file)
<1> DEFINE e == CurrentEdit(w)
<1>1. /\ job[w].op \in OpsOf[w] /\ job[w].step \in 1..Len(job[w].op.edits)
      /\ file.content \in Contents
  BY DEF LInv, JobInv, Files
<1>2. e.list \in Lists /\ e = job[w].op.edits[job[w].step]
  BY <1>1, EditTypes DEF CurrentEdit
<1>3. e.list # "declined" => (e.drop \cup e.add) \cap Malformed = {}
  BY DEF TouchesMalformed
<1>a. file'.content = Apply(e, file.content) /\ file'.form = file.form
  OBVIOUS
<1> HIDE DEF e
<1>4. /\ file'.content[e.list] = (file.content[e.list] \ e.drop) \cup e.add
      /\ \A l \in Lists \ {e.list} : file'.content[l] = file.content[l]
      /\ file'.form = file.form
  <2>1. /\ Apply(e, file.content)[e.list] = (file.content[e.list] \ e.drop) \cup e.add
        /\ \A l \in Lists \ {e.list} : Apply(e, file.content)[l] = file.content[l]
    BY <1>1, <1>2, ApplyLists
  <2> QED
    BY <1>a, <2>1
<1>5. \A q \in Malformed : \A l \in {"allow", "deny"} :
         q \in file'.content[l] <=> q \in file.content[l]
  BY <1>2, <1>3, <1>4 DEF Lists
<1> QED
  BY <1>4, <1>5 DEF Loads

LEMMA WriteKeepsCopies ==
    ASSUME IInv, LInv, CInv, NEW w \in Writers, Write(w)
    PROVE  CInv'
<1>a. /\ pc[w] = "write" /\ w \in Threads /\ raced' = (raced \/ OthersBusy(w))
      /\ AfterEdit(w, TRUE, FALSE) /\ UNCHANGED <<lists, cfg, seen, badge>>
      /\ unrecorded' = (unrecorded \/ TouchesMalformed(CurrentEdit(w)))
      /\ file' = [content |-> Apply(CurrentEdit(w), snap[w].content), form |-> snap[w].form]
      /\ mtime' = mtime + 1 /\ event' = TRUE
  BY DEF Write, Replace, copies, watch, Threads
<1>1. pc'[w] \in {"read", "load", "idle"} /\ \A t \in Threads \ {w} : pc'[t] = pc[t]
  BY <1>a, AfterEditJob
<1>2. mtime' \in Nat /\ seen' \in 0..mtime' /\ badge' \in BOOLEAN /\ Unseen'
  BY <1>a DEF CInv, Unseen
<1>3. SUFFICES ASSUME ~raced' PROVE CopyInv'
  BY <1>2 DEF CInv
<1>4. /\ ~raced /\ snap[w] = file
      /\ \A t \in Threads \ {w} : pc[t] = "idle"
  BY <1>3, <1>a DEF IInv, ReadIsCurrent, OthersBusy
<1>5. BadgeInv'
  <2> SUFFICES ASSUME ~unrecorded' PROVE BadgeInv'
    BY DEF BadgeInv
  <2>1. BadgeInv /\ ~unrecorded /\ ~TouchesMalformed(CurrentEdit(w))
    BY <1>4, <1>a DEF CInv, CopyInv
  <2>2. ~At(Timers, {"load", "lists"})
    BY <1>4, <1>a, ConstantsAssumption DEF At, Threads
  <2>3. BadgeFollows
    BY <2>1, <2>2, <1>a DEF BadgeInv
  <2>4. Loads(file)' <=> Loads(file)
    BY <1>4, <1>a, EditKeepsLoading
  <2>5. BadgeFollows'
    BY <2>3, <2>4, <1>a DEF BadgeFollows
  <2> QED
    BY <2>5 DEF BadgeInv
<1>6. \A t \in Threads : ReloadInv(t)'
  BY <1>1, <1>4 DEF ReloadInv
<1> QED
  BY <1>2, <1>5, <1>6 DEF CopyInv

LEMMA ExternalEditKeepsCopies ==
    ASSUME IInv, CInv, NEW f, ExternalEdit(f)
    PROVE  CInv'
<1>a. /\ raced' = (raced \/ \E t \in Threads : pc[t] # "idle")
      /\ UNCHANGED <<lists, cfg, seen, badge, unrecorded, pc>>
      /\ mtime' = mtime + 1 /\ event' = TRUE
  BY DEF ExternalEdit, Replace, copies, watch
<1>1. mtime' \in Nat /\ seen' \in 0..mtime' /\ badge' \in BOOLEAN /\ Unseen'
  BY <1>a DEF CInv, Unseen
<1>2. SUFFICES ASSUME ~raced' PROVE CopyInv'
  BY <1>1 DEF CInv
<1>3. \A t \in Threads : pc'[t] = "idle"
  BY <1>2, <1>a
<1>4. BadgeInv'
  BY <1>1, <1>3 DEF BadgeInv, Threads
<1>5. \A t \in Threads : ReloadInv(t)'
  BY <1>3 DEF ReloadInv
<1> QED
  BY <1>1, <1>4, <1>5 DEF CopyInv

LEMMA TimerFiresKeepsCopies ==
    ASSUME IInv, CInv, NEW t \in Timers, TimerFires(t)
    PROVE  CInv'
<1>a. /\ event /\ pc[t] = "idle" /\ t \in Threads /\ seen' = mtime /\ raced' = raced
      /\ UNCHANGED <<file, mtime, lists, cfg, badge, unrecorded, snap>>
      /\ pc'[t] = (IF mtime # seen THEN "load" ELSE "idle")
      /\ \A u \in Threads \ {t} : pc'[u] = pc[u]
  BY DEF TimerFires, Goto, copies, local, Threads, IInv, Shapes
<1>1. mtime' \in Nat /\ seen' \in 0..mtime' /\ badge' \in BOOLEAN
  BY <1>a DEF CInv
<1>2. SUFFICES ASSUME ~raced' PROVE CopyInv'
  BY <1>1 DEF CInv
<1>3. CopyInv
  BY <1>2, <1>a DEF CInv
<1>4. /\ Unseen \/ At(Threads, {"load", "lists"}) => At(Threads, {"load", "lists"})'
      /\ Unseen \/ At(Threads, {"load", "lists", "config"})
            => At(Threads, {"load", "lists", "config"})'
      /\ Unseen \/ At(Timers, {"load", "lists"}) => At(Timers, {"load", "lists"})'
  BY <1>a DEF At, Unseen, Threads
<1>5. /\ (ListsFollow' <=> ListsFollow) /\ (CfgFollows' <=> CfgFollows)
      /\ (BadgeFollows' <=> BadgeFollows)
  BY <1>a DEF ListsFollow, CfgFollows, BadgeFollows
<1>6. BadgeInv => BadgeInv'
  BY <1>a, <1>4, <1>5 DEF BadgeInv
<1>7. \A u \in Threads : ReloadInv(u)'
  BY <1>a, <1>3, <1>5 DEF CopyInv, ReloadInv
<1> QED
  BY <1>3, <1>4, <1>5, <1>6, <1>7 DEF CopyInv

\* A reload goes on with what the file holds.
LEMMA ReloadKeepsCopies ==
    ASSUME IInv, CInv, NEW t \in Threads, ReloadStep(t)
    PROVE  CInv'
<1>a. /\ file' = file /\ mtime' = mtime /\ event' = event /\ raced' = raced
      /\ DOMAIN snap = Threads /\ pc \in [Threads -> Labels]
  BY DEF ReloadStep, Load, ReloadLists, ReloadConfig, MarkReloaded, disk, IInv, Shapes
<1>b. /\ \A u \in Threads \ {t} : pc'[u] = pc[u] /\ snap'[u] = snap[u]
  <2>1. \E label : Goto(t, label)
    BY DEF ReloadStep, Load, ReloadLists, ReloadConfig, MarkReloaded
  <2>2. snap' = snap \/ \E x : snap' = [snap EXCEPT ![t] = x]
    BY DEF ReloadStep, Load, ReloadLists, ReloadConfig, MarkReloaded, local
  <2> QED
    BY <2>1, <2>2, <1>a DEF Goto
<1>c. mtime' \in Nat /\ seen' \in 0..mtime' /\ badge' \in BOOLEAN
  <2>1. seen' = seen \/ seen' = mtime
    BY DEF ReloadStep, Load, ReloadLists, ReloadConfig, MarkReloaded, watch
  <2>2. badge' = badge \/ badge' \in BOOLEAN
    <3>1. Loads(snap[t]) \in BOOLEAN
      BY DEF Loads
    <3> QED
      BY <3>1 DEF ReloadStep, Load, ReloadLists, ReloadConfig, MarkReloaded, Record, watch
  <2> QED
    BY <2>1, <2>2, <1>a DEF CInv
<1>d. SUFFICES ASSUME ~raced' PROVE CopyInv'
  BY <1>c DEF CInv
<1>e. CopyInv /\ badge \in BOOLEAN /\ ReloadInv(t)
  BY <1>a, <1>d DEF CInv, CopyInv
<1>g. unrecorded' => unrecorded
  BY DEF ReloadStep, Load, ReloadLists, ReloadConfig, MarkReloaded, Record, watch
<1>h. unrecorded => unrecorded' \/ badge' = (~Loads(file))
  BY <1>e DEF ReloadStep, Load, ReloadLists, ReloadConfig, MarkReloaded, Record, watch, ReloadInv, Loads
<1>i. unrecorded => BadgeInv'
  <2>1. Loads(file)' <=> Loads(file)
    BY <1>a DEF Loads
  <2> QED
    BY <1>h, <2>1 DEF BadgeInv, BadgeFollows
<1>f. /\ \A u \in Timers : u \in Threads /\ u \notin Writers
      /\ \A w \in Writers : w \in Threads /\ w \notin Timers
  BY ConstantsAssumption DEF Threads
<1>1. CASE Load(t)
  <2>1. /\ UNCHANGED <<lists, cfg, seen>> /\ pc[t] = "load"
    BY <1>1 DEF Load, copies
  <2>2. /\ (ListsFollow' <=> ListsFollow) /\ (CfgFollows' <=> CfgFollows) /\ (Unseen' <=> Unseen)
        /\ (Loads(file)' <=> Loads(file))
    BY <1>a, <2>1 DEF ListsFollow, CfgFollows, Unseen, Loads
  <2>3. CASE file.form = "unparsable" /\ Record(t, TRUE) /\ Goto(t, "idle")
    <3>1. pc'[t] = "idle" /\ ~Loads(file)
      BY <2>3, <1>a DEF Goto, Loads
    <3>2. ListsFollow' /\ CfgFollows'
      BY <3>1, <2>2 DEF ListsFollow, CfgFollows
    <3>3. badge' = badge \/ BadgeFollows'
      BY <2>3, <3>1, <2>2 DEF Record, BadgeFollows
    <3>4. t \in Timers => BadgeFollows'
      BY <2>3, <3>1, <2>2 DEF Record, Records, BadgeFollows
    <3>5. BadgeInv => BadgeInv'
      <4>1. CASE BadgeFollows
        BY <4>1, <3>3, <2>2 DEF BadgeInv, BadgeFollows
      <4>2. CASE At(Timers, {"load", "lists"})
        BY <4>2, <3>4, <1>b, <1>f DEF BadgeInv, At
      <4>3. CASE Unseen /\ \A w \in Writers : pc[w] = "idle"
        BY <4>3, <2>1, <2>2, <1>b, <1>f DEF BadgeInv
      <4> QED
        BY <1>i, <4>1, <4>2, <4>3 DEF BadgeInv
    <3>6. \A u \in Threads : ReloadInv(u)'
      BY <3>1, <3>2, <1>a, <1>b, <1>e DEF CopyInv, ReloadInv
    <3> QED
      BY <3>2, <3>5, <3>6, <1>e DEF CopyInv
  <2>4. CASE UNCHANGED badge /\ Goto(t, "lists") /\ snap' = [snap EXCEPT ![t] = file]
    <3>1. pc'[t] = "lists" /\ snap'[t] = file
      BY <2>4, <1>a DEF Goto
    <3>2. /\ At(Threads, {"load", "lists"})' /\ At(Threads, {"load", "lists", "config"})'
          /\ At(Timers, {"load", "lists"}) => At(Timers, {"load", "lists"})'
      BY <3>1, <1>b, <1>f DEF At
    <3>3. BadgeInv => BadgeInv'
      <4>1. BadgeFollows => BadgeFollows'
        BY <2>2, <2>4 DEF BadgeFollows
      <4>2. t \in Writers => ~(\A w \in Writers : pc[w] = "idle")
        BY <2>1
      <4>3. t \notin Writers => \A w \in Writers : pc'[w] = pc[w]
        BY <1>b, <1>f
      <4> QED
        BY <1>i, <4>1, <4>2, <4>3, <3>2, <2>2 DEF BadgeInv
    <3>4. \A u \in Threads : ReloadInv(u)'
      BY <3>1, <2>2, <1>a, <1>b, <1>e DEF CopyInv, ReloadInv
    <3> QED
      BY <3>2, <3>3, <3>4, <1>e DEF CopyInv
  <2> QED
    BY <2>3, <2>4, <1>1 DEF Load
<1>2. CASE ReloadLists(t)
  <2>1. /\ pc[t] = "lists" /\ pc'[t] = "config" /\ snap' = snap /\ UNCHANGED <<cfg, seen>>
        /\ snap[t] = file
    BY <1>2, <1>a, <1>e DEF ReloadLists, Goto, local, ReloadInv
  <2>2. /\ (CfgFollows' <=> CfgFollows) /\ (Unseen' <=> Unseen) /\ (Loads(file)' <=> Loads(file))
    BY <1>a, <2>1 DEF CfgFollows, Unseen, Loads
  <2>3. ListsFollow'
    BY <1>2, <1>a, <2>1, <2>2 DEF ReloadLists, ListsFollow
  <2>4. /\ t \in Timers => BadgeFollows'
        /\ t \notin Timers => badge' = badge
    BY <1>2, <2>1, <2>2 DEF ReloadLists, Record, Records, BadgeFollows
  <2>5. At(Threads, {"load", "lists", "config"})'
    BY <2>1 DEF At
  <2>6. BadgeInv => BadgeInv'
    <3>1. CASE t \in Timers
      BY <3>1, <2>4 DEF BadgeInv
    <3>2. CASE t \notin Timers
      <4>1. t \in Writers /\ BadgeFollows => BadgeFollows'
        BY <3>2, <2>4, <2>2 DEF Threads, BadgeFollows
      <4>2. t \in Writers /\ ~(\A w \in Writers : pc[w] = "idle")
        BY <3>2, <2>1 DEF Threads
      <4>3. At(Timers, {"load", "lists"}) => At(Timers, {"load", "lists"})'
        BY <3>2, <1>b, <1>f DEF At
      <4> QED
        BY <1>i, <4>1, <4>2, <4>3 DEF BadgeInv
    <3> QED
      BY <3>1, <3>2
  <2>7. \A u \in Threads : ReloadInv(u)'
    BY <2>1, <2>2, <2>3, <1>a, <1>b, <1>e DEF CopyInv, ReloadInv
  <2> QED
    BY <2>3, <2>5, <2>6, <2>7, <1>e DEF CopyInv
<1>3. CASE ReloadConfig(t)
  <2>1. /\ pc[t] = "config" /\ snap[t] = file /\ ListsFollow
        /\ cfg' = file.content /\ UNCHANGED <<lists, seen, badge>>
        /\ pc'[t] = (IF t \in Writers THEN "mark" ELSE "idle")
        /\ t \in Writers => snap'[t] = file
    BY <1>3, <1>a, <1>e DEF ReloadConfig, Goto, watch, ReloadInv
  <2>2. /\ (ListsFollow' <=> ListsFollow) /\ (Unseen' <=> Unseen) /\ CfgFollows'
        /\ (BadgeFollows' <=> BadgeFollows)
    BY <1>a, <2>1 DEF ListsFollow, CfgFollows, Unseen, BadgeFollows
  <2>3. BadgeInv => BadgeInv'
    <3>1. At(Timers, {"load", "lists"}) => At(Timers, {"load", "lists"})'
      BY <2>1, <1>b, <1>f DEF At
    <3>2. (\A w \in Writers : pc[w] = "idle") => (\A w \in Writers : pc'[w] = "idle")
      BY <2>1, <1>b, <1>f
    <3> QED
      BY <1>i, <3>1, <3>2, <2>2 DEF BadgeInv
  <2>4. \A u \in Threads : ReloadInv(u)'
    BY <2>1, <2>2, <1>a, <1>b, <1>e DEF CopyInv, ReloadInv
  <2> QED
    BY <2>1, <2>2, <2>3, <2>4, <1>e DEF CopyInv
<1>4. CASE MarkReloaded(t)
  <2>1. /\ pc[t] = "mark" /\ pc'[t] = "idle" /\ snap[t] = file /\ ListsFollow /\ CfgFollows
        /\ seen' = mtime /\ UNCHANGED <<lists, cfg>> /\ Record(t, ~Loads(file))
    BY <1>4, <1>a, <1>e DEF MarkReloaded, Goto, copies, ReloadInv
  <2>2. /\ ListsFollow' /\ CfgFollows' /\ (Loads(file)' <=> Loads(file))
    BY <1>a, <2>1 DEF ListsFollow, CfgFollows, Loads
  <2>3. badge' = badge \/ BadgeFollows'
    BY <2>1, <2>2 DEF Record, BadgeFollows
  <2>4. At(Timers, {"load", "lists"}) => At(Timers, {"load", "lists"})'
    BY <2>1, <1>b, <1>f DEF At
  <2>5. BadgeInv => BadgeInv'
    <3>1. CASE t \in Timers
      <4>1. BadgeFollows'
        BY <3>1, <2>1, <2>2 DEF Record, Records, BadgeFollows
      <4> QED
        BY <4>1 DEF BadgeInv
    <3>2. CASE t \in Writers
      <4>1. ~(\A w \in Writers : pc[w] = "idle")
        BY <3>2, <2>1
      <4> QED
        BY <1>i, <4>1, <2>2, <2>3, <2>4 DEF BadgeInv, BadgeFollows
    <3> QED
      BY <3>1, <3>2 DEF Threads
  <2>6. \A u \in Threads : ReloadInv(u)'
    BY <2>1, <2>2, <1>a, <1>b, <1>e DEF CopyInv, ReloadInv
  <2> QED
    BY <2>2, <2>5, <2>6, <1>e DEF CopyInv
<1> QED
  BY <1>1, <1>2, <1>3, <1>4 DEF ReloadStep

LEMMA CopiesStay ==
    ASSUME CInv, UNCHANGED vars
    PROVE  CInv'
BY DEF vars, disk, copies, watch, local, CInv, CopyInv, ReloadInv, BadgeInv, At, Unseen,
       BadgeFollows, ListsFollow, CfgFollows

(***************************************************************************)
(* The third invariant.                                                    *)
(***************************************************************************)
THEOREM CopiesInvariant == Spec => []CInv
<1>1. Init => CInv
  <2> SUFFICES ASSUME Init PROVE CInv
    OBVIOUS
  <2>1. ListsFollow /\ CfgFollows /\ BadgeFollows
    BY DEF Init, ListsFollow, CfgFollows, BadgeFollows
  <2>2. \A t \in Threads : ReloadInv(t)
    BY DEF Init, ReloadInv
  <2>3. mtime = 0 /\ seen = 0 /\ badge = FALSE
    BY DEF Init
  <2>4. BadgeInv
    BY <2>1 DEF BadgeInv
  <2>5. CopyInv
    BY <2>1, <2>2, <2>4 DEF CopyInv
  <2>6. mtime \in Nat /\ seen \in 0..mtime
    BY <2>3
  <2>7. badge \in BOOLEAN
    BY <2>3, Zenon
  <2> QED
    BY <2>5, <2>6, <2>7 DEF CInv
<1>2. IInv /\ LInv /\ CInv /\ [Next]_vars => CInv'
  <2> SUFFICES ASSUME IInv, LInv, CInv, [Next]_vars PROVE CInv'
    OBVIOUS
  <2>1. CASE Next
    BY <2>1, BeginReadKeepCopies, WriteKeepsCopies, ReloadKeepsCopies, ExternalEditKeepsCopies,
       TimerFiresKeepsCopies DEF Next
  <2> QED
    BY <2>1, CopiesStay
<1> QED
  BY <1>1, <1>2, InductiveInvariant, ListsInvariant, PTL DEF Spec

(***************************************************************************)
(* #80, #129, #183, for any set of writers, timers, files and operations:  *)
(* when all is quiet and nothing raced, the daemon runs with what the file *)
(* says and the badge tells whether it loads, unless a line that does not  *)
(* compile was edited and no reload since then is on record                *)
(* (reloadAfterInternalWrite, maybeFireReload).                            *)
(***************************************************************************)
THEOREM DaemonFollowsFile == Spec => []DaemonFollowsFileUnlessRaced
<1>1. CInv => DaemonFollowsFileUnlessRaced
  <2> SUFFICES ASSUME CInv, Quiescent, ~raced
               PROVE  (BadgeFollows \/ unrecorded) /\ ListsFollow /\ CfgFollows
    BY DEF DaemonFollowsFileUnlessRaced, BadgeFollows, ListsFollow, CfgFollows
  <2>1. CopyInv /\ BadgeInv
    BY DEF CInv, CopyInv
  <2>2. ~Unseen /\ ~At(Threads, {"load", "lists"}) /\ ~At(Threads, {"load", "lists", "config"})
    BY DEF Quiescent, Unseen, At
  <2>3. ~At(Timers, {"load", "lists"})
    BY DEF Quiescent, At, Threads
  <2> QED
    BY <2>1, <2>2, <2>3 DEF CopyInv, BadgeInv
<1> QED
  BY <1>1, CopiesInvariant, PTL
=============================================================================
