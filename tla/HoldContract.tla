---------------------------- MODULE HoldContract ----------------------------
(***************************************************************************)
(* What the approval queue promises its callers, without locks, channels,  *)
(* timers or indexes: requests join holds, a hold gets one verdict, every  *)
(* request still in the hold gets that verdict, and an operator's verdict  *)
(* (nobody else's) is recorded on the lists at most once.                  *)
(***************************************************************************)
EXTENDS Integers, FiniteSets

CONSTANTS Requests, Keys, KeyOf, Verdicts, OperatorVerdicts,
          Left,       \* the answer to a client that disconnected
          Refused,    \* the answer when the queue is full
          None

VARIABLES cap,       \* how many holds may be pending
          member,    \* the hold a request joined
          verdict,   \* the decision of a hold
          answer,    \* what a request was told
          recorded   \* the holds whose verdict reached the operator's lists

vars == <<cap, member, verdict, answer, recorded>>

Init ==
    /\ cap \in Int
    /\ member = [r \in Requests |-> None]
    /\ verdict = [h \in Requests |-> None]
    /\ answer = [r \in Requests |-> None]
    /\ recorded = {}

(***************************************************************************)
(* A hold is pending while it has no verdict and someone still waits.      *)
(***************************************************************************)
Pending == {h \in Requests :
               /\ verdict[h] = None
               /\ \E r \in Requests : member[r] = h /\ answer[r] = None}

PendingFor(k) == {h \in Pending : KeyOf[h] = k}

Fresh(r) == member[r] = None /\ answer[r] = None

Join(r) ==
    /\ Fresh(r)
    /\ \E h \in PendingFor(KeyOf[r]) : member' = [member EXCEPT ![r] = h]
    /\ UNCHANGED <<cap, verdict, answer, recorded>>

Open(r) ==
    /\ Fresh(r)
    /\ PendingFor(KeyOf[r]) = {}
    /\ Cardinality(Pending) < cap
    /\ member' = [member EXCEPT ![r] = r]
    /\ UNCHANGED <<cap, verdict, answer, recorded>>

Refuse(r) ==
    /\ Fresh(r)
    /\ PendingFor(KeyOf[r]) = {}
    /\ Cardinality(Pending) >= cap
    /\ answer' = [answer EXCEPT ![r] = Refused]
    /\ UNCHANGED <<cap, member, verdict, recorded>>

Decide(H, d) ==
    /\ H \subseteq Pending
    /\ verdict' = [h \in Requests |-> IF h \in H THEN d ELSE verdict[h]]
    /\ UNCHANGED <<cap, member, answer, recorded>>

Answer(r) ==
    /\ member[r] # None
    /\ answer[r] = None
    /\ verdict[member[r]] # None
    /\ answer' = [answer EXCEPT ![r] = verdict[member[r]]]
    /\ UNCHANGED <<cap, member, verdict, recorded>>

Leave(r) ==
    /\ member[r] \in Pending
    /\ answer[r] = None
    /\ answer' = [answer EXCEPT ![r] = Left]
    /\ UNCHANGED <<cap, member, verdict, recorded>>

Record(h) ==
    /\ verdict[h] \in OperatorVerdicts
    /\ h \notin recorded
    /\ recorded' = recorded \cup {h}
    /\ UNCHANGED <<cap, member, verdict, answer>>

Resize ==
    /\ cap' \in Int
    /\ UNCHANGED <<member, verdict, answer, recorded>>

Next ==
    \/ \E r \in Requests : Join(r) \/ Open(r) \/ Refuse(r) \/ Answer(r) \/ Leave(r)
    \/ \E H \in SUBSET Requests, d \in Verdicts : Decide(H, d)
    \/ \E h \in Requests : Record(h)
    \/ Resize

Spec == Init /\ [][Next]_vars
====
