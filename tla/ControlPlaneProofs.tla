------------------------- MODULE ControlPlaneProofs -------------------------
(***************************************************************************)
(* Proofs about ControlPlane for any number of calls, operators, holds and *)
(* offers: what an answer says has happened (holdAction, mapSuggestionErr, *)
(* listEdit), and that an answered edit of the lists comes into force      *)
(* (listEdit, the persist callback, Manager.Accept, the reload).           *)
(***************************************************************************)
EXTENDS ControlPlane, TLAPS

Done == {"ok", "failed", "unchanged"}

Answers == Refusals \cup Done \cup {"none", "error", "nothing"}

Scanning == {"scanning", "scanned"}

\* A call that has had no effect, and has no answer.
Early == {"unmade", "sent"} \cup Scanning

Phases == Early \cup {"serving", "reply", "over"}

CallType ==
    [req : AllRequests \cup {None}, phase : Phases, waiting : BOOLEAN, answer : Answers]

Made(k) == call[k].phase # "unmade"

Deciding(k) == Made(k) /\ call[k].req.kind \in {"approve", "deny"}

Answering(k) == Made(k) /\ call[k].req.kind \in OfferKinds

(***************************************************************************)
(* The inductive invariant.  An answer is written when the effect is known *)
(* and never changed but to "error"; a hold that a call has decided stays  *)
(* decided by it; an offer is answered once it was made, it is not up when *)
(* it has been answered, or replaced, and its id is not given again.       *)
(***************************************************************************)
Shapes ==
    /\ call \in [Calls -> CallType]
    /\ effects \in [Calls -> Nat]
    /\ hold \in [Holds -> [state : {"pending", "left", "decided"}, by : Nat]]
    /\ offer \in Offers \cup {None}
    /\ spent \subseteq Offers
    /\ answeredBy \in [Offers -> SUBSET Calls]

AnswerInv(k) ==
    /\ call[k].phase \in Early \cup {"serving"} => call[k].answer \in {"none", "error"}
    /\ Made(k) /\ call[k].answer \in Refusals => effects[k] = 0
    /\ Made(k) /\ call[k].answer \in Done /\ call[k].req.kind # "scan" => effects[k] = 1

HoldInv(k) ==
    /\ Deciding(k) => (effects[k] = 1 <=> hold[About(k)] = HoldIs("decided", k))
    /\ Deciding(k) /\ call[k].answer = "not found" => hold[About(k)].state # "pending"
    /\ ~Made(k) => \A h \in Holds : hold[h] # HoldIs("decided", k)

AnsweringInv(k) ==
    /\ Answering(k) => About(k) \in spent
    /\ Made(k) /\ call[k].answer \in {"gone", "conflict"} => Answering(k) /\ offer # About(k)
    /\ Answering(k) /\ call[k].req.kind # "decline" /\ effects[k] = 1 => k \in answeredBy[About(k)]

CallInv(k) ==
    /\ effects[k] <= 1
    /\ Made(k) => call[k].req \in AllRequests
    /\ call[k].phase \in Early => effects[k] = 0
    /\ call[k].phase \in Scanning => call[k].req.kind = "scan"
    /\ call[k].phase = "serving" => effects[k] = 1
    /\ AnswerInv(k) /\ HoldInv(k) /\ AnsweringInv(k)

OfferInv ==
    /\ offer # None => offer \in spent
    /\ \A o \in Offers : answeredBy[o] # {} => o \in spent /\ offer # o
    /\ \A o \in Offers : \A j, k \in answeredBy[o] : j = k

IInv == Shapes /\ OfferInv /\ \A k \in Calls : CallInv(k)

-----------------------------------------------------------------------------
(***************************************************************************)
(* What a step leaves alone.                                               *)
(***************************************************************************)
\* No hold becomes pending, and none comes to be decided by k.
HoldsMove(k) ==
    \A h \in Holds : \/ hold'[h] = hold[h]
                     \/ /\ hold[h].state = "pending" /\ hold'[h].state # "pending"
                        /\ hold'[h] # HoldIs("decided", k)

\* What was offered is not offered again.
OffersMove ==
    /\ offer' = offer \/ offer' = None \/ offer' \in Offers \ spent
    /\ spent \subseteq spent'
    /\ \A o \in Offers : answeredBy[o] \subseteq answeredBy'[o]

Managed ==
    /\ offer' \in Offers \cup {None} /\ spent' \subseteq Offers
    /\ answeredBy' \in [Offers -> SUBSET Calls]
    /\ OffersMove /\ OfferInv'

LEMMA Abouts ==
    ASSUME NEW r \in AllRequests
    PROVE  /\ r.kind \in {"approve", "deny"} => r.about \in Holds
           /\ r.kind \in OfferKinds => r.about \in Offers
BY DEF AllRequests, OfferKinds

LEMMA HoldKept ==
    ASSUME IInv, NEW k \in Calls, call'[k] = call[k], effects'[k] = effects[k], HoldsMove(k)
    PROVE  HoldInv(k)'
<1>1. CallInv(k)
  BY DEF IInv
<1>2. Deciding(k) => About(k) \in Holds
  BY <1>1, Abouts DEF CallInv, Deciding, About
<1>3. ASSUME NEW h \in Holds
      PROVE  /\ hold'[h] = HoldIs("decided", k) <=> hold[h] = HoldIs("decided", k)
             /\ hold[h].state # "pending" => hold'[h].state # "pending"
  BY DEF HoldsMove, HoldIs
<1> QED
  BY <1>1, <1>2, <1>3 DEF CallInv, HoldInv, Made, Deciding, About

LEMMA OfferedKept ==
    ASSUME IInv, NEW o \in spent, OffersMove, offer # o
    PROVE  offer' # o /\ o \in spent'
BY ConstantsAssumption DEF IInv, Shapes, OffersMove

LEMMA AnsweringKept ==
    ASSUME IInv, NEW k \in Calls, call'[k] = call[k], effects'[k] = effects[k], OffersMove
    PROVE  AnsweringInv(k)'
<1>1. CallInv(k) /\ AnsweringInv(k)
  BY DEF IInv, CallInv
<1>2. Answering(k) => About(k) \in Offers
  BY <1>1, Abouts DEF CallInv, Answering, About
<1>3. About(k)' = About(k) /\ (Answering(k)' <=> Answering(k)) /\ (Made(k)' <=> Made(k))
  BY DEF Answering, Made, About
<1>4. Answering(k) => About(k) \in spent'
  BY <1>1 DEF AnsweringInv, OffersMove
<1>5. Made(k) /\ call[k].answer \in {"gone", "conflict"} => Answering(k) /\ offer' # About(k)
  BY <1>1, OfferedKept DEF AnsweringInv
<1>6. Answering(k) /\ call[k].req.kind # "decline" /\ effects[k] = 1 => k \in answeredBy'[About(k)]
  BY <1>1, <1>2 DEF AnsweringInv, OffersMove
<1> QED
  BY <1>3, <1>4, <1>5, <1>6 DEF AnsweringInv

LEMMA Kept ==
    ASSUME IInv, NEW k \in Calls, call'[k] = call[k], effects'[k] = effects[k], HoldsMove(k),
           OffersMove
    PROVE  CallInv(k)'
<1>1. CallInv(k)
  BY DEF IInv
<1>2. HoldInv(k)' /\ AnsweringInv(k)'
  BY HoldKept, AnsweringKept
<1> QED
  BY <1>1, <1>2 DEF CallInv, AnswerInv, Made

\* The offers are kept by steps that neither answer nor offer.
LEMMA OffersKept ==
    ASSUME IInv, offer' \in {offer, None}, UNCHANGED <<spent, answeredBy>>
    PROVE  Managed
BY ConstantsAssumption DEF IInv, Shapes, OfferInv, Managed, OffersMove

\* An offer that a scan has found.
LEMMA ProduceKeeps ==
    ASSUME IInv, Produce, answeredBy' = answeredBy
    PROVE  Managed
<1>1. CASE \E o \in Offers : Offer(o)
  <2>1. PICK o \in Offers : o \notin spent /\ offer' = o /\ spent' = spent \cup {o}
    BY <1>1 DEF Offer
  <2>2. OfferInv'
    BY <2>1 DEF IInv, OfferInv
  <2> QED
    BY <2>1, <2>2 DEF IInv, Shapes, Managed, OffersMove
<1>2. CASE UNCHANGED <<offer, spent>>
  BY <1>2, OffersKept
<1> QED
  BY <1>1, <1>2 DEF Produce

\* An offer that a call takes down.
LEMMA TakeDownKeeps ==
    ASSUME IInv, NEW k \in Calls, About(k) \in Offers, TakeDown(k)
    PROVE  Managed /\ k \in answeredBy'[About(k)]
<1> DEFINE o == About(k)
<1>1. /\ o \in Offers /\ offer = o /\ offer' = None /\ spent' = spent
      /\ answeredBy' = [answeredBy EXCEPT ![o] = @ \cup {k}]
      /\ answeredBy \in [Offers -> SUBSET Calls] /\ spent \subseteq Offers /\ OfferInv
  BY DEF TakeDown, IInv, Shapes
<1> HIDE DEF o
<1>2. offer # None /\ answeredBy[o] = {} /\ o \in spent
  BY <1>1, ConstantsAssumption DEF OfferInv
<1>3. /\ answeredBy'[o] = {k} /\ \A q \in Offers \ {o} : answeredBy'[q] = answeredBy[q]
      /\ answeredBy' \in [Offers -> SUBSET Calls]
  BY <1>1, <1>2
<1>4. OffersMove
  <2>1. \A q \in Offers : answeredBy[q] \subseteq answeredBy'[q]
    BY <1>2, <1>3
  <2> QED
    BY <1>1, <2>1 DEF OffersMove
<1>5. OfferInv'
  <2>1. \A q \in Offers : answeredBy'[q] # {} => q \in spent' /\ offer' # q
    BY <1>1, <1>2, <1>3, ConstantsAssumption DEF OfferInv
  <2>2. \A q \in Offers : \A i, j \in answeredBy'[q] : i = j
    BY <1>1, <1>3 DEF OfferInv
  <2> QED
    BY <1>1, <2>1, <2>2 DEF OfferInv
<1> QED
  BY <1>1, <1>3, <1>4, <1>5 DEF Managed, o

-----------------------------------------------------------------------------
(***************************************************************************)
(* The steps of one call.                                                  *)
(***************************************************************************)
\* Holds as they were, and one call with them.
LEMMA OneCall ==
    ASSUME IInv, NEW k \in Calls, hold' = hold, Managed,
           call' \in [Calls -> CallType], effects' \in [Calls -> Nat],
           \A j \in Calls \ {k} : call'[j] = call[j] /\ effects'[j] = effects[j],
           CallInv(k)'
    PROVE  IInv'
<1>1. ASSUME NEW j \in Calls \ {k}
      PROVE  CallInv(j)'
  BY Kept DEF HoldsMove, Managed
<1>2. Shapes' /\ OfferInv'
  BY DEF IInv, Shapes, Managed
<1> QED
  BY <1>1, <1>2 DEF IInv

LEMMA MakeKeeps ==
    ASSUME IInv, NEW k \in Calls, NEW r \in Requests, Make(k, r)
    PROVE  IInv'
<1>1. /\ UNCHANGED <<hold, offer, spent, effects, answeredBy>>
      /\ call' = [call EXCEPT ![k] = [req |-> r, phase |-> "sent", waiting |-> TRUE,
                                      answer |-> "none"]]
      /\ call[k].phase = "unmade" /\ r \in AllRequests
      /\ r.kind \in OfferKinds => r.about \in spent
  BY ConstantsAssumption DEF Make, stateVars, manager, historyVars
<1>2. CallInv(k) /\ call \in [Calls -> CallType] /\ effects \in [Calls -> Nat]
  BY DEF IInv, Shapes
<1>3. /\ call' \in [Calls -> CallType] /\ effects' \in [Calls -> Nat]
      /\ \A j \in Calls \ {k} : call'[j] = call[j] /\ effects'[j] = effects[j]
  BY <1>1, <1>2 DEF CallType, Phases, Early, Answers
<1>4. /\ call'[k].req = r /\ call'[k].phase = "sent" /\ call'[k].answer = "none"
      /\ effects'[k] = 0
  BY <1>1, <1>2 DEF CallInv, Early
<1>5. AnswerInv(k)'
  BY <1>4 DEF AnswerInv, Refusals, Done
<1>6. HoldInv(k)'
  <2>1. \A h \in Holds : hold'[h] # HoldIs("decided", k)
    BY <1>1, <1>2 DEF CallInv, HoldInv, Made
  <2>2. Deciding(k)' => hold'[About(k)'] # HoldIs("decided", k)
    BY <1>1, <1>4, <2>1, Abouts DEF Deciding, About
  <2> QED
    BY <1>4, <2>2 DEF HoldInv, Made
<1>7. AnsweringInv(k)'
  BY <1>1, <1>4 DEF AnsweringInv, Answering, About
<1>8. CallInv(k)'
  BY <1>1, <1>4, <1>5, <1>6, <1>7 DEF CallInv, Scanning, Early
<1> QED
  BY <1>1, <1>3, <1>8, OneCall, OffersKept

\* A step of a call that has no effect: how far it is, and its answer.
Onward(k, phase, waiting, answer) ==
    /\ call' = [call EXCEPT ![k].phase = phase, ![k].waiting = waiting, ![k].answer = answer]
    /\ UNCHANGED <<hold, effects, answeredBy>>

LEMMA OnwardKeeps ==
    ASSUME IInv, NEW k \in Calls, NEW phase \in Phases, NEW waiting \in BOOLEAN,
           NEW answer \in Answers, Onward(k, phase, waiting, answer), Managed, Made(k),
           phase # "unmade",
           phase \in Early => effects[k] = 0,
           phase \in Scanning => call[k].req.kind = "scan",
           phase = "serving" => effects[k] = 1,
           phase \in Early \cup {"serving"} => answer \in {"none", "error"},
           answer \in Refusals => effects[k] = 0,
           answer \in Done /\ call[k].req.kind # "scan" => effects[k] = 1,
           Deciding(k) /\ answer = "not found" => hold[About(k)].state # "pending",
           answer \in {"gone", "conflict"} => Answering(k) /\ offer' # About(k)
    PROVE  IInv'
<1>1. CallInv(k) /\ call \in [Calls -> CallType]
  BY DEF IInv, Shapes
<1>2. /\ call'[k].phase = phase /\ call'[k].answer = answer /\ call'[k].req = call[k].req
      /\ UNCHANGED <<hold, effects, answeredBy>>
      /\ \A j \in Calls \ {k} : call'[j] = call[j]
  BY <1>1 DEF Onward, CallType
<1>3. call' \in [Calls -> CallType]
  <2>1. call' = [call EXCEPT ![k] = [@ EXCEPT !.phase = phase, !.waiting = waiting,
                                              !.answer = answer]]
    BY DEF Onward
  <2>2. call[k] \in CallType
    BY <1>1
  <2>3. [call[k] EXCEPT !.phase = phase, !.waiting = waiting, !.answer = answer] \in CallType
    BY <2>2 DEF CallType
  <2> QED
    BY <1>1, <2>1, <2>3
<1>4. /\ Made(k)' /\ About(k)' = About(k)
      /\ Deciding(k)' <=> Deciding(k)
      /\ Answering(k)' <=> Answering(k)
  BY <1>2 DEF Made, Deciding, Answering, About
<1>5. AnswerInv(k)'
  BY <1>2, <1>4 DEF AnswerInv
<1>6. HoldInv(k)'
  BY <1>1, <1>2, <1>4 DEF CallInv, HoldInv
<1>7. AnsweringInv(k)'
  <2>1. Answering(k) => About(k) \in spent'
    BY <1>1 DEF CallInv, AnsweringInv, Managed, OffersMove
  <2> QED
    BY <1>1, <1>2, <1>4, <2>1 DEF CallInv, AnsweringInv
<1>8. CallInv(k)'
  BY <1>1, <1>2, <1>4, <1>5, <1>6, <1>7 DEF CallInv, Made
<1> QED
  BY <1>2, <1>3, <1>8, OneCall DEF IInv, Shapes

-----------------------------------------------------------------------------
(***************************************************************************)
(* The client.                                                             *)
(***************************************************************************)
LEMMA LoseKeeps ==
    ASSUME IInv, NEW k \in Calls, Lose(k)
    PROVE  IInv'
<1>1. call[k] \in CallType /\ CallInv(k)
  BY DEF IInv, Shapes
<1> DEFINE answer == IF call[k].waiting THEN "error" ELSE call[k].answer
<1>2. Onward(k, "over", FALSE, answer) /\ Managed
  BY OffersKept DEF Lose, Onward, stateVars, manager, historyVars
<1>3. answer \in {"none", "error"} /\ Made(k)
  BY <1>1 DEF Lose, CallInv, AnswerInv, Made, Early
<1> HIDE DEF answer
<1> QED
  BY <1>2, <1>3, OnwardKeeps DEF Phases, Early, Scanning, Answers, Refusals, Done

LEMMA GiveUpKeeps ==
    ASSUME IInv, NEW k \in Calls, GiveUp(k)
    PROVE  IInv'
<1>1. call[k] \in CallType /\ CallInv(k)
  BY DEF IInv, Shapes
<1> DEFINE phase == IF call[k].phase = "reply" THEN "over" ELSE call[k].phase
<1>2. Onward(k, phase, FALSE, "error") /\ Managed
  BY OffersKept DEF GiveUp, Onward, stateVars, manager, historyVars
<1>3. /\ phase \in Phases /\ phase # "unmade" /\ Made(k)
      /\ phase \in Early => effects[k] = 0
      /\ phase \in Scanning => call[k].req.kind = "scan"
      /\ phase = "serving" => effects[k] = 1
  BY <1>1 DEF GiveUp, UnderWay, CallInv, Made, Phases, Early, Scanning
<1> HIDE DEF phase
<1> QED
  BY <1>2, <1>3, OnwardKeeps DEF Answers, Refusals, Done

LEMMA ToldKeeps ==
    ASSUME IInv, NEW k \in Calls, Told(k)
    PROVE  IInv'
<1>1. call[k] \in CallType /\ CallInv(k)
  BY DEF IInv, Shapes
<1>2. Onward(k, "over", FALSE, call[k].answer) /\ Managed /\ offer' = offer
  <2>1. call' = [call EXCEPT ![k].phase = "over", ![k].waiting = FALSE]
    BY DEF Told
  <2>2. call' = [call EXCEPT ![k].phase = "over", ![k].waiting = FALSE,
                             ![k].answer = call[k].answer]
    BY <1>1, <2>1 DEF IInv, Shapes, CallType
  <2> QED
    BY <2>2, OffersKept DEF Told, Onward, stateVars, manager, historyVars
<1>3. call[k].answer \in Answers /\ Made(k)
  BY <1>1 DEF Told, CallType, Made
<1> QED
  BY <1>1, <1>2, <1>3, OnwardKeeps
  DEF CallInv, AnswerInv, HoldInv, AnsweringInv, Phases, Early, Scanning

-----------------------------------------------------------------------------
(***************************************************************************)
(* The daemon.                                                             *)
(***************************************************************************)
\* An answer that changes nothing else.
LEMMA ReplyKeeps ==
    ASSUME IInv, NEW k \in Calls, NEW answer \in Answers, Reply(k, answer),
           UNCHANGED <<hold, offer, spent, effects, answeredBy>>, Made(k),
           answer \in Refusals => effects[k] = 0,
           answer \in Done /\ call[k].req.kind # "scan" => effects[k] = 1,
           Deciding(k) /\ answer = "not found" => hold[About(k)].state # "pending",
           answer \in {"gone", "conflict"} => Answering(k) /\ offer # About(k)
    PROVE  IInv'
<1>1. call[k] \in CallType /\ CallInv(k)
  BY DEF IInv, Shapes
<1> DEFINE phase == IF call[k].waiting THEN "reply" ELSE "over"
           told == IF call[k].waiting THEN answer ELSE call[k].answer
<1>2. Onward(k, phase, call[k].waiting, told) /\ Managed
  <2>1. call' = [call EXCEPT ![k].phase = phase, ![k].answer = told]
    BY DEF Reply
  <2>2. call' = [call EXCEPT ![k].phase = phase, ![k].waiting = call[k].waiting,
                             ![k].answer = told]
    BY <1>1, <2>1 DEF IInv, Shapes, CallType
  <2> QED
    BY <2>2, OffersKept DEF Onward
<1>3. phase \in {"reply", "over"} /\ told \in {answer, call[k].answer}
  OBVIOUS
<1>4. /\ call[k].waiting \in BOOLEAN /\ told \in Answers
  BY <1>1, <1>3 DEF CallType
<1> HIDE DEF phase, told
<1>5. /\ told \in Refusals => effects[k] = 0
      /\ told \in Done /\ call[k].req.kind # "scan" => effects[k] = 1
      /\ Deciding(k) /\ told = "not found" => hold[About(k)].state # "pending"
      /\ told \in {"gone", "conflict"} => Answering(k) /\ offer' # About(k)
  BY <1>1, <1>3 DEF CallInv, AnswerInv, HoldInv, AnsweringInv
<1> QED
  BY <1>2, <1>3, <1>4, <1>5, OnwardKeeps DEF Phases, Early, Scanning

\* A call that has its effect: at once, or by an edit that it begins.
Effect(k, phase, answer) ==
    /\ TakesEffect(k)
    /\ call[k].phase = "sent"
    /\ call' = [call EXCEPT ![k].phase = phase, ![k].answer = answer]

LEMMA EffectShapes ==
    ASSUME IInv, NEW k \in Calls, NEW phase \in Phases, NEW answer \in Answers,
           Effect(k, phase, answer)
    PROVE  /\ call' \in [Calls -> CallType] /\ effects' \in [Calls -> Nat]
           /\ effects'[k] = 1 /\ call'[k].phase = phase /\ call'[k].answer = answer
           /\ call'[k].req = call[k].req
           /\ call[k].req \in AllRequests
           /\ \A j \in Calls \ {k} : call'[j] = call[j] /\ effects'[j] = effects[j]
<1>1. /\ call \in [Calls -> CallType] /\ effects \in [Calls -> Nat] /\ effects[k] = 0
      /\ call[k].req \in AllRequests
  BY DEF IInv, Shapes, CallInv, Effect, Made, Early
<1>2. call' = [call EXCEPT ![k] = [@ EXCEPT !.phase = phase, !.answer = answer]]
  BY DEF Effect
<1>3. /\ [call[k] EXCEPT !.phase = phase, !.answer = answer] \in CallType
      /\ [call[k] EXCEPT !.phase = phase, !.answer = answer].phase = phase
      /\ [call[k] EXCEPT !.phase = phase, !.answer = answer].answer = answer
      /\ [call[k] EXCEPT !.phase = phase, !.answer = answer].req = call[k].req
  BY <1>1 DEF CallType
<1>4. effects' = [effects EXCEPT ![k] = @ + 1]
  BY DEF Effect, TakesEffect
<1> QED
  BY <1>1, <1>2, <1>3, <1>4

\* The handler that begins an edit, and the one that answers at once.
LEMMA EditIsEffect ==
    ASSUME IInv, NEW k \in Calls, call[k].phase = "sent", TakesEffect(k),
           call' = [call EXCEPT ![k].phase = "serving"]
    PROVE  /\ Effect(k, "serving", call[k].answer)
           /\ call[k].answer \in {"none", "error"}
<1>1. call \in [Calls -> CallType] /\ CallInv(k)
  BY DEF IInv, Shapes
<1>2. call' = [call EXCEPT ![k].phase = "serving", ![k].answer = call[k].answer]
  BY <1>1 DEF CallType
<1> QED
  BY <1>1, <1>2 DEF Effect, CallInv, AnswerInv, Early

LEMMA ReplyIsEffect ==
    ASSUME IInv, NEW k \in Calls, call[k].phase = "sent", TakesEffect(k), Reply(k, "ok")
    PROVE  \E phase \in {"reply", "over"}, answer \in {"ok", "none", "error"} :
              Effect(k, phase, answer)
<1> DEFINE phase == IF call[k].waiting THEN "reply" ELSE "over"
           answer == IF call[k].waiting THEN "ok" ELSE call[k].answer
<1>1. Effect(k, phase, answer)
  BY DEF Effect, Reply
<1>2. phase \in {"reply", "over"} /\ answer \in {"ok", "none", "error"}
  BY DEF IInv, CallInv, AnswerInv, Early
<1> QED
  BY <1>1, <1>2

\* What a call that has had its effect must satisfy.
LEMMA EffectInv ==
    ASSUME IInv, NEW k \in Calls, Made(k), call'[k].req = call[k].req, OffersMove,
           effects'[k] = 1, call'[k].phase \in {"serving", "reply", "over"},
           call'[k].phase = "serving" => call'[k].answer # "ok",
           call'[k].answer \in {"ok", "none", "error"},
           Deciding(k) => hold'[About(k)] = HoldIs("decided", k),
           Answering(k) /\ call[k].req.kind # "decline" => k \in answeredBy'[About(k)]
    PROVE  CallInv(k)'
<1>1. CallInv(k) /\ call[k].req \in AllRequests
  BY DEF IInv, CallInv
<1>2. /\ Made(k)' /\ About(k)' = About(k)
      /\ Deciding(k)' <=> Deciding(k)
      /\ Answering(k)' <=> Answering(k)
  BY DEF Made, Deciding, Answering, About
<1>3. AnswerInv(k)'
  BY DEF AnswerInv, Early, Scanning, Refusals
<1>4. HoldInv(k)'
  BY <1>2 DEF HoldInv, HoldIs
<1>5. AnsweringInv(k)'
  BY <1>1, <1>2 DEF CallInv, AnsweringInv, OffersMove
<1>6. call'[k].phase \notin Early /\ call'[k].phase \notin Scanning
  BY DEF Early, Scanning
<1> QED
  BY <1>1, <1>2, <1>3, <1>4, <1>5, <1>6 DEF CallInv

\* An effect on no hold.
LEMMA EffectKeeps ==
    ASSUME IInv, NEW k \in Calls, NEW phase \in {"serving", "reply", "over"},
           NEW answer \in {"ok", "none", "error"}, Effect(k, phase, answer),
           phase = "serving" => answer # "ok",
           call[k].req.kind \notin {"approve", "deny"}, hold' = hold, Managed,
           call[k].req.kind \in {"accept", "skip"} => k \in answeredBy'[About(k)]
    PROVE  IInv'
<1>1. phase \in Phases /\ answer \in Answers
  BY DEF Phases, Answers, Done
<1>2. /\ call' \in [Calls -> CallType] /\ effects' \in [Calls -> Nat]
      /\ effects'[k] = 1 /\ call'[k].phase = phase /\ call'[k].answer = answer
      /\ call'[k].req = call[k].req /\ call[k].req \in AllRequests
      /\ \A j \in Calls \ {k} : call'[j] = call[j] /\ effects'[j] = effects[j]
  BY <1>1, EffectShapes
<1>3. /\ Made(k) /\ ~Deciding(k)
      /\ Answering(k) /\ call[k].req.kind # "decline" => k \in answeredBy'[About(k)]
  BY DEF Effect, Made, Deciding, Answering, OfferKinds
<1>4. CallInv(k)'
  BY <1>2, <1>3, EffectInv DEF Managed
<1> QED
  BY <1>2, <1>4, OneCall

LEMMA ListEditKeeps ==
    ASSUME IInv, NEW k \in Calls, ListEdit(k)
    PROVE  IInv'
<1>1. /\ call[k].phase = "sent" /\ call[k].req.kind \in {"add", "remove"} /\ TakesEffect(k)
      /\ call' = [call EXCEPT ![k].phase = "serving"] /\ UNCHANGED <<hold, offer, spent, answeredBy>>
  BY DEF ListEdit, Arrived, Edit, stateVars, manager
<1>2. Managed
  BY <1>1, OffersKept
<1> QED
  BY <1>1, <1>2, EditIsEffect, EffectKeeps

LEMMA ConsoleEditKeeps ==
    ASSUME IInv, NEW k \in Calls, ConsoleEdit(k)
    PROVE  IInv'
<1>1. /\ call[k].phase = "sent" /\ call[k].req.kind \in {"add", "move", "remove"}
      /\ UNCHANGED <<hold, offer, spent, answeredBy>>
      /\ \/ Reply(k, "invalid") /\ effects' = effects
         \/ TakesEffect(k) /\ call' = [call EXCEPT ![k].phase = "serving"]
  BY DEF ConsoleEdit, Arrived, Edit, stateVars, manager, historyVars
<1>2. CASE Reply(k, "invalid") /\ effects' = effects
  <2>1. effects[k] = 0 /\ Made(k)
    BY <1>1 DEF IInv, CallInv, Made, Early
  <2> QED
    BY <1>1, <1>2, <2>1, ReplyKeeps DEF Answers, Refusals, Done
<1>3. CASE TakesEffect(k) /\ call' = [call EXCEPT ![k].phase = "serving"]
  <2>1. Managed
    BY <1>1, OffersKept
  <2> QED
    BY <1>1, <1>3, <2>1, EditIsEffect, EffectKeeps
<1> QED
  BY <1>1, <1>2, <1>3

LEMMA OpenModeKeeps ==
    ASSUME IInv, NEW k \in Calls, OpenMode(k)
    PROVE  IInv'
<1>1. /\ call[k].phase = "sent" /\ call[k].req.kind \in {"open", "close"} /\ TakesEffect(k)
      /\ Reply(k, "ok") /\ UNCHANGED <<hold, offer, spent, answeredBy>>
  BY DEF OpenMode, Arrived, manager
<1>2. Managed
  BY <1>1, OffersKept
<1> QED
  BY <1>1, <1>2, ReplyIsEffect, EffectKeeps

-----------------------------------------------------------------------------
(***************************************************************************)
(* The answers to an offer, and scans.                                     *)
(***************************************************************************)
LEMMA RefusalKeeps ==
    ASSUME IInv, NEW k \in Calls, call[k].phase = "sent", call[k].req.kind \in OfferKinds,
           SuggestionRefusal(k)
    PROVE  IInv'
<1>1. effects[k] = 0 /\ Made(k) /\ Answering(k) /\ ~Deciding(k)
  BY DEF IInv, CallInv, Made, Answering, Deciding, Early, OfferKinds
<1>2. PICK answer \in {"gone", "conflict"} : Reply(k, answer)
  BY DEF SuggestionRefusal
<1>3. /\ answer \in Answers /\ answer \notin Done /\ offer # About(k)
      /\ UNCHANGED <<hold, offer, spent, effects, answeredBy>>
  BY DEF Answers, Refusals, Done, SuggestionRefusal, stateVars, manager, historyVars
<1> QED
  BY <1>1, <1>2, <1>3, ReplyKeeps

\* A call whose offer is up, and that takes it down.
LEMMA TakesDown ==
    ASSUME IInv, NEW k \in Calls, call[k].phase = "sent", call[k].req.kind \in OfferKinds, TakeDown(k)
    PROVE  TakesEffect(k) /\ hold' = hold /\ Managed /\ k \in answeredBy'[About(k)]
<1>1. About(k) \in Offers
  BY Abouts DEF IInv, CallInv, Made, About
<1> QED
  BY <1>1, TakeDownKeeps DEF TakeDown

LEMMA AcceptKeeps ==
    ASSUME IInv, NEW k \in Calls, SuggestionAccept(k)
    PROVE  IInv'
<1>1. /\ call[k].phase = "sent" /\ call[k].req.kind = "accept"
      /\ call[k].req.kind \in OfferKinds
  BY DEF SuggestionAccept, Arrived, OfferKinds
<1>2. CASE SuggestionRefusal(k)
  BY <1>1, <1>2, RefusalKeeps
<1>3. CASE TakeDown(k) /\ call' = [call EXCEPT ![k].phase = "serving"]
  BY <1>1, <1>3, TakesDown, EditIsEffect, EffectKeeps
<1> QED
  BY <1>2, <1>3 DEF SuggestionAccept, Edit

LEMMA DeclineKeeps ==
    ASSUME IInv, NEW k \in Calls, SuggestionDecline(k)
    PROVE  IInv'
<1>1. /\ call[k].phase = "sent" /\ call[k].req.kind = "decline"
      /\ call[k].req.kind \in OfferKinds
  BY DEF SuggestionDecline, Arrived, OfferKinds
<1>2. CASE SuggestionRefusal(k)
  BY <1>1, <1>2, RefusalKeeps
<1>3. CASE TakesEffect(k) /\ Reply(k, "ok") /\ UNCHANGED <<stateVars, answeredBy>>
  <2>1. UNCHANGED <<hold, offer, spent, answeredBy>>
    BY <1>3 DEF stateVars, manager
  <2>2. Managed
    BY <2>1, OffersKept
  <2> QED
    BY <1>1, <1>3, <2>1, <2>2, ReplyIsEffect, EffectKeeps
<1>4. CASE TakeDown(k) /\ call' = [call EXCEPT ![k].phase = "serving"]
  BY <1>1, <1>4, TakesDown, EditIsEffect, EffectKeeps
<1> QED
  BY <1>2, <1>3, <1>4 DEF SuggestionDecline, Edit

LEMMA SkipKeeps ==
    ASSUME IInv, NEW k \in Calls, SuggestionSkip(k)
    PROVE  IInv'
<1>1. /\ call[k].phase = "sent" /\ call[k].req.kind = "skip"
      /\ call[k].req.kind \in OfferKinds
  BY DEF SuggestionSkip, Arrived, OfferKinds
<1>2. CASE SuggestionRefusal(k)
  BY <1>1, <1>2, RefusalKeeps
<1>3. CASE TakeDown(k) /\ Reply(k, "ok")
  BY <1>1, <1>3, TakesDown, ReplyIsEffect, EffectKeeps
<1> QED
  BY <1>2, <1>3 DEF SuggestionSkip

LEMMA SuggestNowKeeps ==
    ASSUME IInv, NEW k \in Calls, SuggestNow(k)
    PROVE  IInv'
<1>1. PICK phase \in Scanning : call' = [call EXCEPT ![k].phase = phase]
  BY DEF SuggestNow, Scanning
<1>2. /\ call[k].phase = "sent" /\ call[k].req.kind = "scan"
      /\ offer' \in {offer, None} /\ UNCHANGED <<hold, spent, effects, answeredBy>>
  BY DEF SuggestNow, Arrived, historyVars
<1>3. /\ call \in [Calls -> CallType] /\ CallInv(k) /\ Made(k) /\ effects[k] = 0
      /\ call[k].answer \in {"none", "error"}
  BY <1>2 DEF IInv, Shapes, CallInv, AnswerInv, Made, Early
<1>4. Onward(k, phase, call[k].waiting, call[k].answer) /\ call[k].waiting \in BOOLEAN
  BY <1>1, <1>2, <1>3 DEF Onward, CallType
<1>5. Managed
  BY <1>2, OffersKept
<1>6. /\ phase \in Phases /\ phase # "unmade" /\ phase # "serving"
      /\ call[k].answer \in Answers /\ call[k].answer \notin Refusals
      /\ call[k].answer \notin Done /\ call[k].answer \notin {"gone", "conflict", "not found"}
  BY <1>3 DEF Phases, Early, Scanning, Answers, Refusals, Done
<1> QED
  BY <1>2, <1>3, <1>4, <1>5, <1>6, OnwardKeeps

LEMMA ScanEndsKeeps ==
    ASSUME IInv, NEW k \in Calls, ScanEnds(k)
    PROVE  IInv'
<1>1. /\ call[k].phase = "scanning" /\ call' = [call EXCEPT ![k].phase = "scanned"]
      /\ Produce /\ UNCHANGED <<hold, effects, answeredBy>>
  BY DEF ScanEnds, historyVars
<1>2. /\ call \in [Calls -> CallType] /\ Made(k) /\ effects[k] = 0
      /\ call[k].req.kind = "scan" /\ call[k].answer \in {"none", "error"}
  BY <1>1 DEF IInv, Shapes, CallInv, AnswerInv, Made, Early, Scanning
<1>3. Onward(k, "scanned", call[k].waiting, call[k].answer) /\ call[k].waiting \in BOOLEAN
  BY <1>1, <1>2 DEF Onward, CallType
<1>4. Managed
  BY <1>1, ProduceKeeps
<1>5. /\ "scanned" \in Phases /\ "scanned" # "unmade" /\ "scanned" # "serving"
      /\ call[k].answer \in Answers /\ call[k].answer \notin Refusals
      /\ call[k].answer \notin Done /\ call[k].answer \notin {"gone", "conflict", "not found"}
  BY <1>2 DEF Phases, Early, Scanning, Answers, Refusals, Done
<1> QED
  BY <1>1, <1>2, <1>3, <1>4, <1>5, OnwardKeeps

LEMMA ScanKeeps ==
    ASSUME IInv, NEW k \in Calls, SuggestionScan(k)
    PROVE  IInv'
<1>1. /\ call[k].phase = "scanned"
      /\ UNCHANGED <<hold, offer, spent, effects, answeredBy>>
  BY DEF SuggestionScan, stateVars, manager, historyVars
<1>2. PICK answer \in {"nothing", "ok"} : Reply(k, answer)
  BY DEF SuggestionScan
<1>3. Made(k) /\ effects[k] = 0 /\ call[k].req.kind = "scan"
  BY <1>1 DEF IInv, CallInv, Made, Early, Scanning
<1> QED
  BY <1>1, <1>2, <1>3, ReplyKeeps DEF Answers, Refusals, Done

-----------------------------------------------------------------------------
(***************************************************************************)
(* The calls that decide a hold, and those that edited the file.           *)
(***************************************************************************)
LEMMA DecideKeeps ==
    ASSUME IInv, NEW k \in Calls, Deciding(k), hold[About(k)].state = "pending",
           hold' = [hold EXCEPT ![About(k)] = HoldIs("decided", k)],
           Effect(k, "serving", call[k].answer), call[k].answer \in {"none", "error"},
           UNCHANGED <<offer, spent, answeredBy>>
    PROVE  IInv'
<1>1. call[k].answer \in Answers /\ "serving" \in Phases /\ Managed
  BY OffersKept DEF Phases, Answers
<1>2. /\ call' \in [Calls -> CallType] /\ effects' \in [Calls -> Nat]
      /\ effects'[k] = 1 /\ call'[k].phase = "serving" /\ call'[k].answer = call[k].answer
      /\ call'[k].req = call[k].req /\ call[k].req \in AllRequests
      /\ \A j \in Calls \ {k} : call'[j] = call[j] /\ effects'[j] = effects[j]
  BY <1>1, EffectShapes
<1>3. /\ About(k) \in Holds /\ k \in Nat /\ Made(k) /\ ~Answering(k)
      /\ hold \in [Holds -> [state : {"pending", "left", "decided"}, by : Nat]]
  BY <1>2, Abouts, ConstantsAssumption DEF IInv, Shapes, Deciding, Answering, OfferKinds, About
<1>4. Shapes'
  BY <1>1, <1>2, <1>3 DEF IInv, Shapes, Managed, HoldIs
<1>5. CallInv(k)'
  <2>1. hold'[About(k)] = HoldIs("decided", k)
    BY <1>3
  <2> QED
    BY <1>1, <1>2, <1>3, <2>1, EffectInv DEF Managed
<1>6. ASSUME NEW j \in Calls \ {k}
      PROVE  CallInv(j)'
  <2>1. HoldsMove(j)
    BY <1>3 DEF HoldsMove, HoldIs
  <2> QED
    BY <1>1, <1>2, <2>1, Kept DEF Managed
<1> QED
  BY <1>1, <1>4, <1>5, <1>6 DEF IInv, Managed

LEMMA HoldActionKeeps ==
    ASSUME IInv, NEW k \in Calls, HoldAction(k)
    PROVE  IInv'
<1>1. /\ call[k].phase = "sent" /\ call[k].req.kind \in {"approve", "deny"}
      /\ UNCHANGED <<offer, spent, answeredBy>> /\ Deciding(k)
  BY DEF HoldAction, Arrived, Deciding, Made, manager
<1>2. CASE hold[About(k)].state = "pending"
  <2>1. /\ hold' = [hold EXCEPT ![About(k)] = HoldIs("decided", k)]
        /\ TakesEffect(k) /\ call' = [call EXCEPT ![k].phase = "serving"]
    BY <1>2 DEF HoldAction, Edit
  <2> QED
    BY <1>1, <1>2, <2>1, EditIsEffect, DecideKeeps
<1>3. CASE hold[About(k)].state # "pending"
  <2>1. Reply(k, "not found") /\ UNCHANGED <<hold, effects>>
    BY <1>3 DEF HoldAction, historyVars
  <2>2. effects[k] = 0 /\ Made(k) /\ "not found" \in Answers /\ "not found" \notin Done
    BY <1>1 DEF IInv, CallInv, Made, Early, Answers, Refusals, Done
  <2> QED
    BY <1>1, <1>3, <2>1, <2>2, ReplyKeeps
<1> QED
  BY <1>2, <1>3

LEMMA ServedKeeps ==
    ASSUME IInv, NEW k \in Calls, Served(k)
    PROVE  IInv'
<1>1. call[k].phase = "serving" /\ UNCHANGED <<hold, offer, spent, effects, answeredBy>>
  BY DEF Served, stateVars, manager, historyVars
<1>2. PICK answer \in Done : Reply(k, answer)
  BY DEF Served, Done
<1>3. effects[k] = 1 /\ Made(k)
  BY <1>1 DEF IInv, CallInv, Made
<1>4. answer \in Answers /\ answer \notin Refusals
  BY DEF Answers, Refusals, Done
<1> QED
  BY <1>1, <1>2, <1>3, <1>4, ReplyKeeps DEF Refusals

-----------------------------------------------------------------------------
(***************************************************************************)
(* The rest of the daemon.                                                 *)
(***************************************************************************)
\* Steps that no call takes.
LEMMA NoCall ==
    ASSUME IInv, UNCHANGED <<call, effects>>, Managed,
           hold' \in [Holds -> [state : {"pending", "left", "decided"}, by : Nat]],
           \A k \in Calls : HoldsMove(k)
    PROVE  IInv'
<1>1. \A k \in Calls : CallInv(k)'
  BY Kept DEF Managed
<1> QED
  BY <1>1 DEF IInv, Shapes, Managed

LEMMA ManagerAlone ==
    ASSUME IInv, UNCHANGED <<call, effects, hold>>, Managed
    PROVE  IInv'
BY NoCall DEF IInv, Shapes, HoldsMove

LEMMA NothingTold ==
    ASSUME IInv, UNCHANGED <<call, effects, hold, offer, spent, answeredBy>>
    PROVE  IInv'
BY OffersKept, ManagerAlone

LEMMA HoldEndsKeeps ==
    ASSUME IInv, NEW h \in Holds, HoldEnds(h)
    PROVE  IInv'
<1>1. /\ hold[h].state = "pending" /\ hold' = [hold EXCEPT ![h] = HoldIs("left", 0)]
      /\ UNCHANGED <<call, effects, offer, spent, answeredBy>>
  BY DEF HoldEnds, historyVars, manager
<1>2. hold' \in [Holds -> [state : {"pending", "left", "decided"}, by : Nat]]
  BY <1>1 DEF IInv, Shapes, HoldIs
<1>3. Managed
  BY <1>1, OffersKept
<1>4. \A k \in Calls : HoldsMove(k)
  BY <1>1 DEF IInv, Shapes, HoldsMove, HoldIs
<1> QED
  BY <1>1, <1>2, <1>3, <1>4, NoCall

LEMMA TickKeeps ==
    ASSUME IInv, Tick \/ TickEnds \/ revalidateActive
    PROVE  IInv'
<1>1. UNCHANGED <<call, effects, hold, answeredBy>>
  BY DEF Tick, TickEnds, revalidateActive, historyVars
<1>2. CASE Tick \/ revalidateActive
  BY <1>1, <1>2, OffersKept, ManagerAlone DEF Tick, revalidateActive
<1>3. CASE TickEnds
  BY <1>1, <1>3, ProduceKeeps, ManagerAlone DEF TickEnds
<1> QED
  BY <1>2, <1>3

LEMMA RestartKeeps ==
    ASSUME IInv, Restart
    PROVE  IInv'
<1>1. /\ offer' = None /\ UNCHANGED <<spent, effects, answeredBy>>
      /\ hold' = [h \in Holds |-> IF hold[h].state = "pending" THEN HoldIs("left", 0)
                                                                ELSE hold[h]]
  BY DEF Restart
<1>2. Managed /\ OffersMove /\ \A k \in Calls : HoldsMove(k)
  BY <1>1, OffersKept DEF HoldsMove, HoldIs, Managed
<1>3. ASSUME NEW k \in Calls
      PROVE  \/ call'[k] = call[k]
             \/ /\ call[k].phase \in UnderWay
                /\ call'[k] \in CallType /\ call'[k].phase = "over"
                /\ call'[k].req = call[k].req
                /\ call'[k].answer \in {"error", call[k].answer}
  <2>1. call[k] \in CallType
    BY DEF IInv, Shapes
  <2>2. CASE call[k].phase \in UnderWay
    <3>1. call'[k] = [call[k] EXCEPT !.phase = "over", !.waiting = FALSE,
                        !.answer = IF call[k].waiting THEN "error" ELSE call[k].answer]
      BY <2>1, <2>2 DEF Restart, CallType
    <3> QED
      BY <2>1, <2>2, <3>1 DEF CallType, Phases, Answers
  <2>3. CASE call[k].phase \notin UnderWay
    BY <2>3 DEF Restart
  <2> QED
    BY <2>2, <2>3
<1>4. Shapes'
  <2>1. DOMAIN call' = Calls /\ call' = [k \in Calls |-> call'[k]]
    BY DEF Restart
  <2>2. \A k \in Calls : call'[k] \in CallType
    BY <1>3 DEF IInv, Shapes
  <2> QED
    BY <1>1, <1>2, <2>1, <2>2 DEF IInv, Shapes, HoldIs, Managed
<1>5. ASSUME NEW k \in Calls
      PROVE  CallInv(k)'
  <2>1. CASE call'[k] = call[k]
    BY <1>1, <1>2, <2>1, Kept
  <2>2. CASE /\ call[k].phase \in UnderWay
             /\ call'[k].phase = "over" /\ call'[k].req = call[k].req
             /\ call'[k].answer \in {"error", call[k].answer}
    <3>1. CallInv(k) /\ Made(k) /\ Made(k)' /\ effects'[k] = effects[k]
      BY <1>1, <2>2 DEF IInv, Made, UnderWay
    <3>2. /\ Deciding(k)' <=> Deciding(k)
          /\ Answering(k)' <=> Answering(k)
          /\ About(k)' = About(k)
          /\ Deciding(k) => About(k) \in Holds
          /\ Answering(k) => About(k) \in Offers /\ About(k) \in spent
      BY <2>2, <3>1, Abouts DEF CallInv, AnsweringInv, Deciding, Answering, Made, About
    <3>3. ASSUME Deciding(k)
          PROVE  /\ hold'[About(k)] = HoldIs("decided", k)
                       <=> hold[About(k)] = HoldIs("decided", k)
                 /\ hold[About(k)].state # "pending" => hold'[About(k)].state # "pending"
      BY <1>2, <3>2, <3>3 DEF HoldsMove, HoldIs
    <3>4. /\ call'[k].answer # "error" => call'[k].answer = call[k].answer
          /\ "error" \notin Refusals /\ "error" \notin Done
          /\ call'[k].phase \notin Early /\ call'[k].phase \notin Scanning
      BY <2>2 DEF Refusals, Done, Early, Scanning
    <3>5. AnswerInv(k)'
      BY <2>2, <3>1, <3>4 DEF CallInv, AnswerInv
    <3>6. HoldInv(k)'
      BY <3>1, <3>2, <3>3, <3>4 DEF CallInv, HoldInv
    <3>7. AnsweringInv(k)'
      <4>1. Answering(k) => offer' # About(k)
        BY <1>1, <3>2, ConstantsAssumption
      <4>2. call'[k].answer \in {"gone", "conflict"} => Answering(k)
        BY <3>1, <3>4 DEF CallInv, AnsweringInv
      <4>3. Answering(k) /\ call[k].req.kind # "decline" /\ effects[k] = 1
               => k \in answeredBy[About(k)]
        BY <3>1 DEF CallInv, AnsweringInv
      <4> QED
        BY <1>1, <2>2, <3>1, <3>2, <4>1, <4>2, <4>3 DEF AnsweringInv
    <3> QED
      BY <2>2, <3>1, <3>4, <3>5, <3>6, <3>7 DEF CallInv
  <2> QED
    BY <1>3, <2>1, <2>2
<1> QED
  BY <1>2, <1>4, <1>5 DEF IInv, Managed

-----------------------------------------------------------------------------
LEMMA InitIInv == Init => IInv
<1> SUFFICES ASSUME Init PROVE IInv
  OBVIOUS
<1>1. /\ hold = [h \in Holds |-> HoldIs("pending", 0)] /\ offer = None /\ spent = {}
      /\ call = [k \in Calls |-> Unmade] /\ effects = [k \in Calls |-> 0]
      /\ answeredBy = [o \in Offers |-> {}]
  BY DEF Init
<1>2. Shapes
  BY <1>1 DEF Shapes, HoldIs, Unmade, CallType, Phases, Early, Answers
<1>3. ASSUME NEW k \in Calls
      PROVE  CallInv(k)
  <2>1. /\ call[k].phase = "unmade" /\ call[k].answer = "none" /\ effects[k] = 0
        /\ ~Made(k) /\ ~Deciding(k) /\ ~Answering(k)
    BY <1>1 DEF Unmade, Made, Deciding, Answering
  <2>2. \A h \in Holds : hold[h] # HoldIs("decided", k)
    BY <1>1 DEF HoldIs
  <2> QED
    BY <2>1, <2>2 DEF CallInv, AnswerInv, HoldInv, AnsweringInv, Scanning
<1>4. OfferInv
  BY <1>1 DEF OfferInv
<1> QED
  BY <1>2, <1>3, <1>4 DEF IInv

LEMMA ServeKeeps ==
    ASSUME IInv, NEW k \in Calls, Serve(k)
    PROVE  IInv'
<1>1. ASSUME EditFile(k) \/ ReloadFile(k)
      PROVE  IInv'
  BY <1>1, NothingTold DEF EditFile, ReloadFile, stateVars, manager, historyVars
<1> QED
  BY <1>1, HoldActionKeeps, ListEditKeeps, ConsoleEditKeeps, OpenModeKeeps, AcceptKeeps,
     DeclineKeeps, SkipKeeps, SuggestNowKeeps, ScanEndsKeeps, ScanKeeps, ServedKeeps DEF Serve

LEMMA NextKeeps == IInv /\ [Next]_vars => IInv'
<1> SUFFICES ASSUME IInv, [Next]_vars PROVE IInv'
  OBVIOUS
<1>1. ASSUME NEW k \in Calls,
             (\E r \in Requests : Make(k, r)) \/ Lose(k) \/ GiveUp(k) \/ Serve(k) \/ Told(k)
      PROVE  IInv'
  BY <1>1, MakeKeeps, LoseKeeps, GiveUpKeeps, ServeKeeps, ToldKeeps
<1>2. ASSUME NEW t \in Timers, ReloadFile(t)
      PROVE  IInv'
  BY <1>2, NothingTold DEF ReloadFile, stateVars, manager, historyVars
<1>3. ASSUME NEW h \in Holds, HoldEnds(h)
      PROVE  IInv'
  BY <1>3, HoldEndsKeeps
<1>4. CASE Tick \/ TickEnds \/ revalidateActive
  BY <1>4, TickKeeps
<1>5. CASE WindowEnds
  BY <1>5, NothingTold DEF WindowEnds, manager, historyVars
<1>6. CASE Restart
  BY <1>6, RestartKeeps
<1>7. CASE UNCHANGED vars
  BY <1>7, NothingTold DEF vars, stateVars, manager, historyVars
<1> QED
  BY <1>1, <1>2, <1>3, <1>4, <1>5, <1>6, <1>7 DEF Next

(***************************************************************************)
(* The invariant above holds whatever the network, the timeouts, other     *)
(* operators, scans and a restart do (holdAction, mapSuggestionErr,        *)
(* listEdit, Manager.Accept, Decline, Skip, SuggestNow and Tick).          *)
(***************************************************************************)
THEOREM InductiveInvariant == Spec => []IInv
BY InitIInv, NextKeeps, PTL DEF Spec

(***************************************************************************)
(* For any number of calls, holds, offers, scans and restarts: what a call *)
(* is refused did not happen, what it is told of did; no two calls are     *)
(* both told that they decided the same hold, or answered the same offer,  *)
(* and an offer that was answered, or that a call was told is gone or has  *)
(* given way to another, never comes up again (control.go,                 *)
(* mapSuggestionErr, Manager.SuggestNow, produce).                         *)
(***************************************************************************)
THEOREM AnswersAreTrue == Spec => []AnswersTellTheTruth
<1>1. IInv => AnswersTellTheTruth
  <2> SUFFICES ASSUME IInv PROVE AnswersTellTheTruth
    OBVIOUS
  <2>1. ASSUME NEW k \in Calls, Made(k)
        PROVE  LET a == call[k].answer
                   kind == call[k].req.kind
               IN  /\ a \in Refusals => effects[k] = 0
                   /\ a = "ok" /\ kind # "scan" => effects[k] > 0
                   /\ kind \in {"approve", "deny"} =>
                         /\ effects[k] > 0 <=> hold[About(k)] = HoldIs("decided", k)
                         /\ a = "not found" => hold[About(k)].state # "pending"
                   /\ a \in {"gone", "conflict"} => offer # About(k)
                   /\ kind \in {"accept", "skip"} /\ a \in {"ok", "failed"} =>
                         k \in answeredBy[About(k)]
    <3>1. /\ CallInv(k) /\ (effects[k] > 0 <=> effects[k] = 1)
          /\ AnswerInv(k) /\ HoldInv(k) /\ AnsweringInv(k)
      BY DEF IInv, Shapes, CallInv
    <3> QED
      BY <2>1, <3>1
      DEF AnswerInv, HoldInv, AnsweringInv, Deciding, Answering, Done, OfferKinds
  <2>2. \A o \in Offers : answeredBy[o] # {} =>
          /\ offer # o
          /\ \A j, k \in answeredBy[o] : j = k
    BY DEF IInv, OfferInv
  <2> QED
    BY <2>1, <2>2 DEF AnswersTellTheTruth, Made
<1> QED
  BY <1>1, InductiveInvariant, PTL

-----------------------------------------------------------------------------
(***************************************************************************)
(* An answered edit is in force.                                           *)
(***************************************************************************)
Threads == Calls \cup Timers

ListKinds == {"approve", "deny", "add", "remove", "move", "accept"}

EditKinds == ListKinds \cup {"decline"}

\* The edits that a request asks for, and the patterns that they are about: none when
\* it is the row of a declined suggestion that is written.
LineOfRequest(r) ==
    IF r.kind \in {"approve", "deny"}
       THEN Line(IF r.kind = "approve" THEN "allow" ELSE "deny", LineOf[r.about])
       ELSE r.about

EditsOf(r) ==
    IF r.kind = "decline"
       THEN <<Store!Edit("declined", {}, {Gist[r.about].row})>>
    ELSE IF r.kind = "accept"
       THEN <<Store!Edit(Gist[r.about].list, Gist[r.about].sources, {Gist[r.about].pattern})>>
    ELSE IF r.kind = "remove" /\ r.surface = "attach"
       THEN <<Store!Edit(r.about.list, {r.about.pattern}, {})>>
    ELSE IF r.kind = "remove"
       THEN <<Store!Edit("allow", {r.about.pattern}, {}), Store!Edit("deny", {r.about.pattern}, {})>>
       ELSE Operator(LineOfRequest(r).list, LineOfRequest(r).pattern)

Touched(r) ==
    IF r.kind = "decline" THEN {}
    ELSE IF r.kind = "accept" THEN Gist[r.about].sources \cup {Gist[r.about].pattern}
                              ELSE {LineOfRequest(r).pattern}

\* What an edit that was made has made of p.
Settles(e, content, p) ==
    /\ p \in e.add => p \in content[e.list]
    /\ p \in e.drop \ e.add => p \notin content[e.list]

Settled(r, n, p) == \A i \in 1..n : Settles(EditsOf(r)[i], file.content, p)

Editing(k) == pc[k] \in {"read", "write"}

(***************************************************************************)
(* The inductive invariant, as long as nothing raced.  The matcher's lists *)
(* are the file's, or will be; a job's edits are those of its call; and    *)
(* what the last edit of a pattern has made of it so far is in the file.   *)
(***************************************************************************)
FileInv ==
    /\ DOMAIN pc = Threads /\ DOMAIN snap = Threads /\ DOMAIN job = Calls
    /\ DOMAIN wrote = Calls /\ DOMAIN lastEdit = Patterns
    /\ \A p \in Patterns : lastEdit[p] \in Calls \cup {None}
    /\ mtime \in Nat /\ seen \in 0..mtime
    /\ file.form = "good" /\ DOMAIN file.content = {"allow", "deny", "declined"}

ListNames == {"allow", "deny", "declined"}

Follows == Store!Loads(file) => lists = [l \in {"allow", "deny"} |-> file.content[l]]

ListsInv ==
    \/ Follows
    \/ event /\ mtime # seen
    \/ \E t \in Threads : pc[t] \in {"load", "lists"}

ReadInv(t) ==
    /\ pc[t] \in {"write", "lists", "config", "mark"} => snap[t] = file
    /\ pc[t] \in {"config", "mark"} => Follows

JobInv(k) ==
    /\ pc[k] # "idle" => call[k].phase = "serving"
    /\ Editing(k) => /\ call[k].req.kind \in EditKinds
                     /\ job[k].op.edits = EditsOf(call[k].req)
                     /\ job[k].step \in 1..Len(EditsOf(call[k].req))

Ended(k) ==
    \/ call[k].phase = "serving" /\ ~Editing(k)
    \/ call[k].answer \in {"ok", "unchanged"}

LastInv(p, k) ==
    /\ call[k].phase \in {"serving", "reply", "over"}
    /\ call[k].req.kind \in EditKinds /\ p \in Touched(call[k].req)
    /\ Editing(k) => Settled(call[k].req, job[k].step - 1, p)
    /\ Ended(k) => wrote[k] = "failed" \/ Settled(call[k].req, Len(EditsOf(call[k].req)), p)
    /\ \A j \in Calls \ {k} : Editing(j) => p \notin Touched(call[j].req)

ForceInv ==
    /\ FileInv /\ ListsInv
    /\ \A t \in Threads : ReadInv(t)
    /\ \A k \in Calls : JobInv(k)
    /\ \A p \in Patterns, k \in Calls : lastEdit[p] = k => LastInv(p, k)

-----------------------------------------------------------------------------
(***************************************************************************)
(* What a request's edits do.                                              *)
(***************************************************************************)
LEMMA OperatorShape ==
    ASSUME NEW list \in {"allow", "deny"}, NEW p
    PROVE  LET other == IF list = "allow" THEN "deny" ELSE "allow"
           IN  Operator(list, p) = <<Store!Edit(other, {p}, {}), Store!Edit(list, {}, {p})>>
BY DEF Operator, Store!OperatorApprove, Store!OperatorDeny

LEMMA EditsShape ==
    ASSUME NEW r \in AllRequests, r.kind \in EditKinds
    PROVE  /\ Len(EditsOf(r)) \in 1..2
           /\ \A i \in 1..Len(EditsOf(r)) :
                 \/ /\ EditsOf(r)[i].list \in {"allow", "deny"}
                    /\ EditsOf(r)[i].drop \subseteq Touched(r)
                    /\ EditsOf(r)[i].add \subseteq Touched(r)
                 \/ r.kind = "decline" /\ EditsOf(r)[i].list = "declined"
           /\ \A i, j \in 1..Len(EditsOf(r)) : i # j => EditsOf(r)[i].list # EditsOf(r)[j].list
<1>1. CASE r.kind = "accept"
  <2>1. r.about \in Offers
    BY <1>1, Abouts DEF OfferKinds
  <2>2. Gist[r.about].list \in {"allow", "deny"}
    BY <2>1, ConstantsAssumption
  <2> QED
    BY <1>1, <2>2 DEF EditsOf, Touched, Store!Edit
<1>2. CASE r.kind = "remove"
  <2>1. r.about.list \in {"allow", "deny"} /\ Touched(r) = {r.about.pattern}
    BY <1>2 DEF AllRequests, Touched, LineOfRequest
  <2>2. CASE r.surface = "attach"
    BY <1>2, <2>1, <2>2 DEF EditsOf, Store!Edit
  <2>3. CASE r.surface # "attach"
    BY <1>2, <2>1, <2>3 DEF EditsOf, Store!Edit
  <2> QED
    BY <2>2, <2>3
<1>3. CASE r.kind \in {"approve", "deny", "add", "move"}
  <2> DEFINE list == LineOfRequest(r).list
             p == LineOfRequest(r).pattern
             other == IF list = "allow" THEN "deny" ELSE "allow"
  <2>1. list \in {"allow", "deny"}
    BY <1>3 DEF LineOfRequest, Line, AllRequests
  <2>2. EditsOf(r) = Operator(list, p) /\ Touched(r) = {p}
    BY <1>3 DEF EditsOf, Touched
  <2> HIDE DEF list, p
  <2>3. EditsOf(r) = <<Store!Edit(other, {p}, {}), Store!Edit(list, {}, {p})>>
    BY <2>1, <2>2, OperatorShape
  <2>4. other \in {"allow", "deny"} /\ other # list
    BY <2>1
  <2> QED
    BY <2>1, <2>2, <2>3, <2>4 DEF Store!Edit
<1>4. CASE r.kind = "decline"
  BY <1>4 DEF EditsOf, Store!Edit
<1> QED
  BY <1>1, <1>2, <1>3, <1>4 DEF EditKinds, ListKinds

LEMMA Applied ==
    ASSUME NEW e, NEW c, DOMAIN c = ListNames, e.list \in ListNames
    PROVE  /\ DOMAIN Store!Apply(e, c) = ListNames
           /\ Store!Apply(e, c)[e.list] = (c[e.list] \ e.drop) \cup e.add
           /\ \A l \in ListNames \ {e.list} : Store!Apply(e, c)[l] = c[l]
BY DEF Store!Apply, ListNames

\* The n-th edit of a request settles what it is about, and leaves settled what the
\* edits before it did.
LEMMA OwnEdit ==
    ASSUME NEW r \in AllRequests, r.kind \in EditKinds, NEW n \in 1..Len(EditsOf(r)), NEW p,
           NEW c, DOMAIN c = ListNames,
           \A i \in 1..(n - 1) : Settles(EditsOf(r)[i], c, p)
    PROVE  \A i \in 1..n : Settles(EditsOf(r)[i], Store!Apply(EditsOf(r)[n], c), p)
<1> DEFINE e == EditsOf(r)[n]
           d == Store!Apply(e, c)
<1>1. /\ e.list \in ListNames /\ Len(EditsOf(r)) \in Nat
      /\ \A i \in 1..Len(EditsOf(r)) : EditsOf(r)[i].list \in ListNames
      /\ \A i \in 1..Len(EditsOf(r)) : i # n => EditsOf(r)[i].list # e.list
  BY EditsShape DEF ListNames
<1>2. /\ d[e.list] = (c[e.list] \ e.drop) \cup e.add
      /\ \A l \in ListNames \ {e.list} : d[l] = c[l]
  BY <1>1, Applied
<1>3. Settles(e, d, p)
  BY <1>2 DEF Settles
<1>4. ASSUME NEW i \in 1..(n - 1)
      PROVE  Settles(EditsOf(r)[i], d, p)
  <2>1. i \in 1..Len(EditsOf(r)) /\ i # n
    BY <1>1
  <2>2. EditsOf(r)[i].list \in ListNames \ {e.list}
    BY <1>1, <2>1
  <2>3. d[EditsOf(r)[i].list] = c[EditsOf(r)[i].list]
    BY <1>2, <2>2
  <2> QED
    BY <2>3 DEF Settles
<1> HIDE DEF d, e
<1>5. \A i \in 1..n : i = n \/ i \in 1..(n - 1)
  BY <1>1
<1>6. \A i \in 1..n : Settles(EditsOf(r)[i], d, p)
  BY <1>3, <1>4, <1>5 DEF e
<1> QED
  BY <1>6 DEF d, e

\* An edit of other patterns, or of the declined rows, leaves p as it is.
LEMMA OtherEdit ==
    ASSUME NEW e, NEW f, NEW p, NEW c, DOMAIN c = ListNames,
           e.list \in ListNames, f.list \in {"allow", "deny"},
           e.list = "declined" \/ (p \notin e.drop /\ p \notin e.add)
    PROVE  Settles(f, Store!Apply(e, c), p) <=> Settles(f, c, p)
<1>1. p \in Store!Apply(e, c)[f.list] <=> p \in c[f.list]
  BY Applied DEF ListNames
<1> QED
  BY <1>1 DEF Settles

-----------------------------------------------------------------------------
(***************************************************************************)
(* What keeps the parts of the invariant.                                  *)
(***************************************************************************)
LEMMA ListsKept ==
    ASSUME ListsInv, UNCHANGED <<file, lists, event, mtime, seen>>,
           \A t \in Threads : pc[t] \in {"load", "lists"} => pc'[t] \in {"load", "lists"}
    PROVE  ListsInv'
<1>1. Follows' <=> Follows
  BY DEF Follows, Store!Loads
<1> QED
  BY <1>1 DEF ListsInv

LEMMA ReadKept ==
    ASSUME NEW t, ReadInv(t), UNCHANGED <<file, lists>>, pc'[t] = pc[t], snap'[t] = snap[t]
    PROVE  ReadInv(t)'
<1>1. Follows' <=> Follows
  BY DEF Follows, Store!Loads
<1> QED
  BY <1>1 DEF ReadInv

LEMMA JobKept ==
    ASSUME NEW k \in Calls, JobInv(k), call'[k] = call[k],
           pc'[k] # "idle" => pc[k] # "idle",
           Editing(k)' => Editing(k) /\ job'[k] = job[k]
    PROVE  JobInv(k)'
BY DEF JobInv

\* The file is the same, and nobody takes up an edit or ends one.
LEMMA LastKept ==
    ASSUME NEW p, NEW k \in Calls, LastInv(p, k), file' = file,
           call'[k].req = call[k].req, call'[k].phase \in {"serving", "reply", "over"},
           Editing(k)' => Editing(k) /\ job'[k] = job[k],
           Ended(k)' => Ended(k), wrote'[k] = wrote[k],
           \A j \in Calls : Editing(j)' => Editing(j) /\ call'[j].req = call[j].req
    PROVE  LastInv(p, k)'
<1>1. \A r, n : Settled(r, n, p)' <=> Settled(r, n, p)
  BY DEF Settled
<1> QED
  BY <1>1 DEF LastInv

-----------------------------------------------------------------------------
(***************************************************************************)
(* Steps that leave the file and its copies alone.                         *)
(***************************************************************************)
CallMoves(k) ==
    \/ call'[k] = call[k]
    \/ /\ call[k].phase \in Early /\ call'[k].phase # "serving"
    \/ /\ call[k].phase \in {"serving", "reply", "over"} /\ call'[k].req = call[k].req
       /\ call'[k].phase \in {"serving", "reply", "over"}
       /\ call'[k].phase = "serving" <=> call[k].phase = "serving"
       /\ call'[k].answer \in {call[k].answer, "error"}
    \/ /\ call[k].phase = "serving" /\ pc[k] = "idle" /\ call'[k].req = call[k].req
       /\ call'[k].phase \in {"reply", "over"}

Elsewhere ==
    /\ UNCHANGED <<storeVars, wrote, lastEdit>>
    /\ \A k \in Calls : CallMoves(k)

LEMMA ElsewhereKeeps ==
    ASSUME ForceInv, Elsewhere
    PROVE  ForceInv'
<1>1. /\ UNCHANGED <<file, mtime, lists, seen, event, pc, job, snap, wrote, lastEdit>>
      /\ FileInv /\ ListsInv
      /\ \A t \in Threads : ReadInv(t)
      /\ \A k \in Calls : JobInv(k) /\ CallMoves(k)
  BY DEF ForceInv, Elsewhere, storeVars
<1>2. FileInv'
  BY <1>1 DEF FileInv
<1>3. ListsInv'
  BY <1>1, ListsKept
<1>4. \A t \in Threads : ReadInv(t)'
  BY <1>1, ReadKept
<1>5. ASSUME NEW k \in Calls
      PROVE  /\ JobInv(k)'
             /\ Editing(k)' => Editing(k) /\ call'[k].req = call[k].req
  <2>1. JobInv(k) /\ CallMoves(k) /\ (Editing(k)' <=> Editing(k))
    BY <1>1 DEF Editing
  <2>2. pc[k] # "idle" => /\ call[k].phase = "serving" /\ call'[k].phase = "serving"
                          /\ call'[k].req = call[k].req
    BY <2>1 DEF JobInv, CallMoves, Early, Scanning
  <2>3. Editing(k) => pc[k] # "idle"
    BY DEF Editing
  <2> QED
    BY <1>1, <2>1, <2>2, <2>3 DEF JobInv
<1>6. ASSUME NEW p \in Patterns, NEW k \in Calls, lastEdit'[p] = k
      PROVE  LastInv(p, k)'
  <2>1. LastInv(p, k) /\ CallMoves(k) /\ JobInv(k)
    BY <1>1, <1>6 DEF ForceInv
  <2>2. call[k].phase \in {"serving", "reply", "over"}
    BY <2>1 DEF LastInv
  <2>3. /\ call'[k].req = call[k].req /\ call'[k].phase \in {"serving", "reply", "over"}
        /\ Ended(k)' => Ended(k)
    BY <1>1, <2>1, <2>2 DEF CallMoves, Ended, Editing, Early, Scanning
  <2>4. Editing(k)' => Editing(k) /\ job'[k] = job[k]
    BY <1>1, <1>5
  <2> QED
    BY <1>1, <1>5, <2>1, <2>3, <2>4, LastKept
<1> QED
  BY <1>2, <1>3, <1>4, <1>5, <1>6 DEF ForceInv

LEMMA OneCallMoves ==
    ASSUME IInv, NEW k \in Calls, UNCHANGED <<storeVars, wrote, lastEdit>>, CallMoves(k),
           \A j \in Calls \ {k} : call'[j] = call[j]
    PROVE  Elsewhere
BY DEF Elsewhere, CallMoves

LEMMA ReplyMoves ==
    ASSUME IInv, NEW k \in Calls, NEW answer, Reply(k, answer),
           call[k].phase \in Early \/ (call[k].phase = "serving" /\ pc[k] = "idle"),
           UNCHANGED <<storeVars, wrote, lastEdit>>
    PROVE  Elsewhere
<1>1. call \in [Calls -> CallType]
  BY DEF IInv, Shapes
<1>2. /\ call'[k].req = call[k].req /\ call'[k].phase \in {"reply", "over"}
      /\ \A j \in Calls \ {k} : call'[j] = call[j]
  BY <1>1 DEF Reply, CallType
<1>3. CallMoves(k)
  BY <1>2 DEF CallMoves
<1> QED
  BY <1>2, <1>3, OneCallMoves

LEMMA ClientElsewhere ==
    ASSUME IInv, NEW k \in Calls, (\E r \in Requests : Make(k, r)) \/ Lose(k) \/ GiveUp(k) \/ Told(k)
    PROVE  Elsewhere
<1>1. /\ call \in [Calls -> CallType] /\ UNCHANGED <<storeVars, wrote, lastEdit>>
      /\ \A j \in Calls \ {k} : call'[j] = call[j]
  BY DEF IInv, Shapes, Make, Lose, GiveUp, Told, historyVars
<1>2. ASSUME \E r \in Requests : Make(k, r)
      PROVE  CallMoves(k)
  BY <1>1, <1>2 DEF Make, CallMoves, Early
<1>3. ASSUME Lose(k)
      PROVE  CallMoves(k)
  BY <1>1, <1>3 DEF Lose, CallMoves, CallType, Early
<1>4. ASSUME GiveUp(k)
      PROVE  CallMoves(k)
  <2>1. /\ call'[k].req = call[k].req /\ call'[k].answer = "error"
        /\ call'[k].phase = IF call[k].phase = "reply" THEN "over" ELSE call[k].phase
        /\ call[k].phase \in Early \cup {"serving", "reply"}
    BY <1>1, <1>4 DEF GiveUp, UnderWay, CallType, Early, Scanning
  <2> QED
    BY <2>1 DEF CallMoves, Early, Scanning
<1>5. ASSUME Told(k)
      PROVE  CallMoves(k)
  <2>1. /\ call'[k].req = call[k].req /\ call'[k].answer = call[k].answer
        /\ call'[k].phase = "over" /\ call[k].phase = "reply"
    BY <1>1, <1>5 DEF Told, CallType
  <2> QED
    BY <2>1 DEF CallMoves
<1> QED
  BY <1>1, <1>2, <1>3, <1>4, <1>5, OneCallMoves

LEMMA OthersElsewhere ==
    ASSUME \/ (\E h \in Holds : HoldEnds(h)) \/ WindowEnds
           \/ Tick \/ TickEnds \/ revalidateActive \/ UNCHANGED vars
    PROVE  Elsewhere
BY DEF Elsewhere, CallMoves, HoldEnds, Tick, TickEnds, revalidateActive, WindowEnds, historyVars,
       vars

-----------------------------------------------------------------------------
(***************************************************************************)
(* A handler begins the edits of its request, or leaves the file alone.    *)
(***************************************************************************)
Begins(k) ==
    /\ call[k].phase = "sent" /\ call[k].req.kind \in EditKinds
    /\ \E op : op.edits = EditsOf(call[k].req) /\ Edit(k, op, Touched(call[k].req))

LEMMA HoldActionBegins ==
    ASSUME IInv, NEW k \in Calls, HoldAction(k)
    PROVE  Begins(k) \/ Elsewhere
<1> DEFINE r == call[k].req
           list == IF r.kind = "approve" THEN "allow" ELSE "deny"
           op == Store!Op(Operator(list, LineOf[r.about]), "last changed", FALSE)
<1>1. call[k].phase = "sent" /\ r.kind \in {"approve", "deny"}
  BY DEF HoldAction, Arrived
<1>2. CASE hold[About(k)].state = "pending"
  <2>1. Edit(k, op, {LineOf[r.about]})
    BY <1>2 DEF HoldAction, About
  <2>2. op.edits = Operator(list, LineOf[r.about])
    BY DEF Store!Op
  <2>3. LineOfRequest(r) = Line(list, LineOf[r.about])
    BY <1>1 DEF LineOfRequest
  <2> HIDE DEF op, list
  <2>4. op.edits = EditsOf(r) /\ Touched(r) = {LineOf[r.about]}
    BY <1>1, <2>2, <2>3 DEF EditsOf, Touched, Line
  <2> QED
    BY <1>1, <2>1, <2>4 DEF Begins, EditKinds, ListKinds
<1>3. CASE hold[About(k)].state # "pending"
  BY <1>1, <1>3, ReplyMoves DEF HoldAction, historyVars, Early
<1> QED
  BY <1>2, <1>3

LEMMA ListEditBegins ==
    ASSUME IInv, NEW k \in Calls, ListEdit(k)
    PROVE  Begins(k)
<1> DEFINE r == call[k].req
           l == r.about
           op == IF r.kind = "add"
                    THEN Store!Op(Operator(l.list, l.pattern), "last changed", FALSE)
                    ELSE Store!RemoveFrom(l.list, l.pattern)
<1>1. /\ call[k].phase = "sent" /\ r.kind \in {"add", "remove"} /\ r.surface = "attach"
      /\ Edit(k, op, {l.pattern})
  BY DEF ListEdit, Arrived, About, Remote
<1>2. Touched(r) = {l.pattern}
  BY <1>1 DEF Touched, LineOfRequest
<1>3. op.edits = EditsOf(r)
  <2>1. CASE r.kind = "add"
    BY <2>1 DEF EditsOf, LineOfRequest, Store!Op
  <2>2. CASE r.kind = "remove"
    BY <2>2, <1>1 DEF EditsOf, Store!RemoveFrom, Store!Op
  <2> QED
    BY <1>1, <2>1, <2>2
<1> HIDE DEF op
<1> QED
  BY <1>1, <1>2, <1>3 DEF Begins, EditKinds, ListKinds

LEMMA ConsoleEditBegins ==
    ASSUME IInv, NEW k \in Calls, ConsoleEdit(k)
    PROVE  Begins(k) \/ Elsewhere
<1> DEFINE r == call[k].req
           l == r.about
<1>1. /\ call[k].phase = "sent" /\ r.kind \in {"add", "move", "remove"}
      /\ r.surface # "attach"
  BY DEF ConsoleEdit, Arrived, Remote
<1>2. CASE Reply(k, "invalid") /\ UNCHANGED <<storeVars, historyVars>>
  BY <1>1, <1>2, ReplyMoves DEF historyVars, Early
<1>3. ASSUME NEW op, Edit(k, op, {l.pattern}), op.edits = EditsOf(r)
      PROVE  Begins(k)
  <2>1. Touched(r) = {l.pattern}
    BY <1>1 DEF Touched, LineOfRequest
  <2> QED
    BY <1>1, <1>3, <2>1 DEF Begins, EditKinds, ListKinds
<1>4. ASSUME ~(Reply(k, "invalid") /\ UNCHANGED <<storeVars, historyVars>>)
      PROVE  Edit(k, CASE r.kind = "add" ->
                            Store!Op(Operator(l.list, l.pattern), "last changed", TRUE)
                       [] r.kind = "move" ->
                            Store!Op(Operator(l.list, l.pattern), "always", TRUE)
                       [] r.kind = "remove" -> Store!ConsoleRemove(l.pattern),
                  {l.pattern})
  BY <1>4 DEF ConsoleEdit, About
<1>5. ASSUME Edit(k, CASE r.kind = "add" ->
                            Store!Op(Operator(l.list, l.pattern), "last changed", TRUE)
                       [] r.kind = "move" ->
                            Store!Op(Operator(l.list, l.pattern), "always", TRUE)
                       [] r.kind = "remove" -> Store!ConsoleRemove(l.pattern),
                  {l.pattern})
      PROVE  Begins(k)
  <2>1. CASE r.kind \in {"add", "move"}
    <3>1. PICK reload : Edit(k, Store!Op(Operator(l.list, l.pattern), reload, TRUE), {l.pattern})
      BY <1>5, <2>1
    <3>2. Store!Op(Operator(l.list, l.pattern), reload, TRUE).edits = EditsOf(r)
      BY <2>1 DEF Store!Op, EditsOf, LineOfRequest
    <3> QED
      BY <3>1, <3>2, <1>3
  <2>2. CASE r.kind = "remove"
    <3>1. Edit(k, Store!ConsoleRemove(l.pattern), {l.pattern})
      BY <1>5, <2>2
    <3>2. Store!ConsoleRemove(l.pattern).edits = EditsOf(r)
      BY <1>1, <2>2 DEF Store!Op, Store!ConsoleRemove, EditsOf
    <3> QED
      BY <3>1, <3>2, <1>3
  <2> QED
    BY <1>1, <2>1, <2>2
<1> QED
  BY <1>2, <1>4, <1>5

LEMMA RefusalElsewhere ==
    ASSUME IInv, NEW k \in Calls, call[k].phase = "sent", SuggestionRefusal(k)
    PROVE  Elsewhere
<1>1. PICK answer : Reply(k, answer)
  BY DEF SuggestionRefusal
<1> QED
  BY <1>1, ReplyMoves DEF SuggestionRefusal, historyVars, Early

LEMMA AcceptBegins ==
    ASSUME IInv, NEW k \in Calls, SuggestionAccept(k)
    PROVE  Begins(k) \/ Elsewhere
<1> DEFINE r == call[k].req
           g == Gist[r.about]
           op == Store!Generalize(g.list, g.pattern, g.sources)
<1>1. call[k].phase = "sent" /\ r.kind = "accept"
  BY DEF SuggestionAccept, Arrived
<1>2. CASE SuggestionRefusal(k)
  BY <1>1, <1>2, RefusalElsewhere
<1>3. CASE ~SuggestionRefusal(k)
  <2>1. Edit(k, op, g.sources \cup {g.pattern})
    BY <1>3 DEF SuggestionAccept, About
  <2>2. op.edits = EditsOf(r) /\ Touched(r) = g.sources \cup {g.pattern}
    BY <1>1 DEF Store!Generalize, Store!Op, EditsOf, Touched
  <2> HIDE DEF op
  <2> QED
    BY <1>1, <2>1, <2>2 DEF Begins, EditKinds, ListKinds
<1> QED
  BY <1>2, <1>3

LEMMA DeclineBegins ==
    ASSUME IInv, NEW k \in Calls, SuggestionDecline(k)
    PROVE  Begins(k) \/ Elsewhere
<1> DEFINE r == call[k].req
           op == Store!AddDeclinedSuggestion(Gist[r.about].row)
<1>1. call[k].phase = "sent" /\ r.kind = "decline"
  BY DEF SuggestionDecline, Arrived
<1>2. CASE SuggestionRefusal(k)
  BY <1>1, <1>2, RefusalElsewhere
<1>3. CASE Reply(k, "ok") /\ UNCHANGED <<storeVars, wrote, lastEdit>>
  BY <1>1, <1>3, ReplyMoves DEF Early
<1>4. CASE Edit(k, op, {})
  <2>1. op.edits = EditsOf(r) /\ Touched(r) = {}
    BY <1>1 DEF Store!AddDeclinedSuggestion, Store!Op, EditsOf, Touched
  <2> HIDE DEF op
  <2> QED
    BY <1>1, <1>4, <2>1 DEF Begins, EditKinds
<1> QED
  BY <1>2, <1>3, <1>4 DEF SuggestionDecline, About

LEMMA ScanMoves ==
    ASSUME IInv, NEW k \in Calls, SuggestNow(k) \/ ScanEnds(k)
    PROVE  Elsewhere
<1>1. /\ call \in [Calls -> CallType] /\ UNCHANGED <<storeVars, wrote, lastEdit>>
      /\ call[k].phase \in {"sent", "scanning"}
      /\ \E phase \in Scanning : call' = [call EXCEPT ![k].phase = phase]
  BY DEF IInv, Shapes, SuggestNow, ScanEnds, Arrived, historyVars, Scanning
<1>2. call'[k].phase # "serving" /\ \A j \in Calls \ {k} : call'[j] = call[j]
  BY <1>1 DEF CallType, Scanning
<1>3. CallMoves(k)
  BY <1>1, <1>2 DEF CallMoves, Early, Scanning
<1> QED
  BY <1>1, <1>2, <1>3, OneCallMoves

LEMMA OtherHandlers ==
    ASSUME IInv, NEW k \in Calls,
           OpenMode(k) \/ SuggestionSkip(k) \/ SuggestionScan(k) \/ Served(k)
    PROVE  Elsewhere
<1>1. PICK answer : Reply(k, answer)
  BY DEF OpenMode, SuggestionSkip, SuggestionRefusal, SuggestionScan, Served
<1>2. UNCHANGED <<storeVars, wrote, lastEdit>>
  BY DEF OpenMode, SuggestionSkip, SuggestionRefusal, SuggestionScan, Served, historyVars
<1>3. call[k].phase \in Early \/ (call[k].phase = "serving" /\ pc[k] = "idle")
  BY DEF OpenMode, SuggestionSkip, SuggestionScan, Served, Arrived, Early, Scanning
<1> QED
  BY <1>1, <1>2, <1>3, ReplyMoves

LEMMA BeginsKeeps ==
    ASSUME IInv, ForceInv, NEW k \in Calls, Begins(k)
    PROVE  ForceInv'
<1>1. PICK op : op.edits = EditsOf(call[k].req) /\ Edit(k, op, Touched(call[k].req))
  BY DEF Begins
<1> DEFINE r == call[k].req
<1>2. /\ pc[k] = "idle" /\ pc' = [pc EXCEPT ![k] = "read"]
      /\ job' = [job EXCEPT ![k] = Store!Job(op, 1, FALSE, FALSE)]
      /\ UNCHANGED <<file, mtime, lists, seen, event, snap, wrote>>
      /\ call' = [call EXCEPT ![k].phase = "serving"]
      /\ lastEdit' = [p \in Patterns |-> IF p \notin Touched(r) THEN lastEdit[p]
                                         ELSE IF Store!OthersBusy(k) THEN None ELSE k]
  BY <1>1 DEF Edit, Store!Begin, Store!Goto, Store!disk, Store!copies, Store!watch
<1>3. /\ FileInv /\ ListsInv /\ k \in Threads
      /\ call \in [Calls -> CallType] /\ r \in AllRequests
      /\ call[k].phase = "sent" /\ r.kind \in EditKinds
      /\ call[k].answer \in {"none", "error"}
  BY DEF ForceInv, Threads, IInv, Shapes, CallInv, AnswerInv, Early, Begins, Made
<1>4. /\ call'[k].phase = "serving" /\ call'[k].req = r /\ call'[k].answer = call[k].answer
      /\ \A j \in Calls \ {k} : call'[j] = call[j]
      /\ pc'[k] = "read" /\ \A t \in Threads \ {k} : pc'[t] = pc[t]
      /\ job'[k].op = op /\ job'[k].step = 1
      /\ \A j \in Calls \ {k} : job'[j] = job[j]
  BY <1>2, <1>3 DEF CallType, FileInv, Store!Job
<1>5. Len(EditsOf(r)) \in 1..2
  BY <1>3, EditsShape
<1>6. FileInv'
  <2>1. \A p \in Patterns : lastEdit'[p] \in Calls \cup {None}
    BY <1>2, <1>3 DEF FileInv
  <2> QED
    BY <1>2, <1>3, <2>1 DEF FileInv
<1>7. ListsInv'
  <2>1. \A t \in Threads : pc[t] \in {"load", "lists"} => pc'[t] \in {"load", "lists"}
    BY <1>2, <1>4
  <2> QED
    BY <1>2, <1>3, <2>1, ListsKept
<1>8. ASSUME NEW t \in Threads
      PROVE  ReadInv(t)'
  <2>1. CASE t = k
    BY <1>4, <2>1 DEF ReadInv
  <2>2. CASE t # k
    BY <1>2, <1>4, <2>2, ReadKept DEF ForceInv
  <2> QED
    BY <2>1, <2>2
<1>9. ASSUME NEW j \in Calls
      PROVE  JobInv(j)'
  <2>1. CASE j = k
    <3>1. /\ call'[k].phase = "serving" /\ call'[k].req.kind \in EditKinds
          /\ job'[k].op.edits = EditsOf(call'[k].req)
      BY <1>1, <1>3, <1>4
    <3>2. job'[k].step \in 1..Len(EditsOf(call'[k].req))
      <4>1. job'[k].step = 1 /\ EditsOf(call'[k].req) = EditsOf(r)
        BY <1>4
      <4>2. ASSUME NEW n \in 1..2
            PROVE  1 \in 1..n
        OBVIOUS
      <4>3. 1 \in 1..Len(EditsOf(r))
        BY <1>5, <4>2, Zenon
      <4> QED
        BY <4>1, <4>3
    <3> QED
      BY <2>1, <3>1, <3>2 DEF JobInv
  <2>2. CASE j # k
    BY <1>4, <2>2, JobKept DEF ForceInv, Editing, Threads
  <2> QED
    BY <2>1, <2>2
<1>10. ASSUME NEW p \in Patterns, NEW i \in Calls, lastEdit'[p] = i
       PROVE  LastInv(p, i)'
  <2>1. \A j \in Calls \ {k} : Editing(j)' <=> Editing(j)
    BY <1>4 DEF Editing, Threads
  <2>2. CASE p \in Touched(r)
    <3>1. i = k /\ ~Store!OthersBusy(k)
      BY <1>2, <1>10, <2>2, ConstantsAssumption
    <3>2. \A j \in Calls \ {k} : ~Editing(j)
      BY <3>1 DEF Store!OthersBusy, Store!Threads, Editing
    <3>3. Settled(call[k].req, job[k].step - 1, p)'
      <4>1. 1..(job'[k].step - 1) = {}
        BY <1>4
      <4> QED
        BY <4>1 DEF Settled
    <3>4. Editing(k)' /\ ~Ended(k)'
      BY <1>3, <1>4 DEF Editing, Ended
    <3> QED
      <4>1. /\ call'[k].phase \in {"serving", "reply", "over"} /\ call'[k].req.kind \in EditKinds
            /\ p \in Touched(call'[k].req)
        BY <1>3, <1>4, <2>2
      <4>2. \A j \in Calls \ {k} : ~Editing(j)'
        BY <2>1, <3>2
      <4> QED
        BY <3>1, <3>3, <3>4, <4>1, <4>2 DEF LastInv
  <2>3. CASE p \notin Touched(r)
    <3>1. LastInv(p, i)
      BY <1>2, <1>10, <2>3 DEF ForceInv
    <3>2. i # k
      BY <1>3, <3>1 DEF LastInv
    <3>3. \A q, n : Settled(q, n, p)' <=> Settled(q, n, p)
      BY <1>2 DEF Settled
    <3>4. /\ call'[i] = call[i] /\ job'[i] = job[i] /\ wrote'[i] = wrote[i]
          /\ Editing(i)' <=> Editing(i)
          /\ Ended(i)' <=> Ended(i)
      BY <1>2, <1>4, <2>1, <3>2 DEF Ended
    <3>5. \A j \in Calls \ {i} : Editing(j)' => p \notin Touched(call'[j].req)
      BY <1>4, <2>1, <2>3, <3>1 DEF LastInv
    <3> QED
      BY <3>1, <3>3, <3>4, <3>5 DEF LastInv
  <2> QED
    BY <2>2, <2>3
<1> QED
  BY <1>6, <1>7, <1>8, <1>9, <1>10 DEF ForceInv

-----------------------------------------------------------------------------
(***************************************************************************)
(* The edits of the file.                                                  *)
(***************************************************************************)
LEMMA AfterEditIs ==
    ASSUME FileInv, NEW k \in Calls, NEW changed, NEW failed, Store!AfterEdit(k, changed, failed)
    PROVE  \E label \in {"read", "load", "idle"} :
              /\ pc' = [pc EXCEPT ![k] = label]
              /\ DOMAIN job' = Calls /\ \A j \in Calls \ {k} : job'[j] = job[j]
              /\ label = "read" => /\ Store!MoreEdits(k)
                                   /\ job'[k].op = job[k].op /\ job'[k].step = job[k].step + 1
              /\ label # "read" => failed \/ ~Store!MoreEdits(k)
<1>1. CASE Store!MoreEdits(k) /\ job' = [job EXCEPT ![k] = Store!Job(job[k].op, job[k].step + 1,
                                            job[k].changed \/ changed, job[k].failed \/ failed)]
           /\ Store!Goto(k, "read")
  BY <1>1 DEF Store!Goto, Store!Job, FileInv
<1>2. CASE (~Store!MoreEdits(k) \/ failed) /\ Store!Goto(k, "load") /\ UNCHANGED job
  BY <1>2 DEF Store!Goto, FileInv
<1>3. CASE (~Store!MoreEdits(k) \/ failed) /\ Store!Goto(k, "idle") /\ job' = [job EXCEPT ![k] = None]
  BY <1>3 DEF Store!Goto, FileInv
<1> QED
  BY <1>1, <1>2, <1>3 DEF Store!AfterEdit

\* What a call k at the file does not touch: the other calls' part.
Alone(k) ==
    /\ UNCHANGED <<call, lastEdit>>
    /\ DOMAIN pc' = Threads /\ DOMAIN job' = Calls
    /\ \A t \in Threads \ {k} : pc'[t] = pc[t]
    /\ \A j \in Calls \ {k} : job'[j] = job[j] /\ wrote'[j] = wrote[j]

LEMMA OthersJobs ==
    ASSUME ForceInv, NEW k \in Calls, Alone(k), NEW j \in Calls \ {k}
    PROVE  /\ Editing(j)' <=> Editing(j)
           /\ Ended(j)' <=> Ended(j)
           /\ JobInv(j)'
<1>1. pc'[j] = pc[j] /\ job'[j] = job[j] /\ call'[j] = call[j] /\ JobInv(j)
  BY DEF Alone, Threads, ForceInv
<1> QED
  BY <1>1 DEF Editing, Ended, JobInv

\* The edit k is at has been made, or there was nothing to change.
Makes(k) ==
    /\ Editing(k) /\ Alone(k)
    /\ file'.content = Store!Apply(Store!CurrentEdit(k), file.content)
    /\ \E changed : Store!AfterEdit(k, changed, FALSE)

LEMMA MadeEdit ==
    ASSUME IInv, ForceInv, NEW k \in Calls, Makes(k)
    PROVE  /\ JobInv(k)'
           /\ \A p \in Patterns, i \in Calls : lastEdit'[p] = i => LastInv(p, i)'
<1>0. PICK r, n : r = call[k].req /\ n = job[k].step
  OBVIOUS
<1> DEFINE e == EditsOf(r)[n]
           Now(q, m, p) == \A i \in 1..m : Settles(EditsOf(q)[i], file'.content, p)
<1>1. /\ JobInv(k) /\ FileInv /\ Editing(k) /\ pc[k] # "idle"
      /\ r.kind \in EditKinds /\ job[k].op.edits = EditsOf(r) /\ n \in 1..Len(EditsOf(r))
      /\ call[k].phase = "serving"
  BY <1>0 DEF ForceInv, JobInv, Makes, Editing
<1>2. r \in AllRequests /\ call[k].answer \in {"none", "error"}
  BY <1>0, <1>1 DEF IInv, CallInv, AnswerInv, Made
<1>3. DOMAIN file.content = ListNames /\ Len(EditsOf(r)) \in Nat
  BY <1>1, <1>2, EditsShape DEF FileInv, ListNames
<1>4. file'.content = Store!Apply(e, file.content)
  BY <1>0, <1>1 DEF Makes, Store!CurrentEdit
<1>5. PICK label \in {"read", "load", "idle"} :
              /\ pc' = [pc EXCEPT ![k] = label]
              /\ DOMAIN job' = Calls /\ \A j \in Calls \ {k} : job'[j] = job[j]
              /\ label = "read" => /\ Store!MoreEdits(k)
                                   /\ job'[k].op = job[k].op /\ job'[k].step = n + 1
              /\ label # "read" => ~Store!MoreEdits(k)
  BY <1>0, <1>1, AfterEditIs, Zenon DEF Makes
<1>6. /\ pc'[k] = label /\ call'[k] = call[k] /\ call' = call /\ lastEdit' = lastEdit
      /\ Store!MoreEdits(k) <=> n < Len(EditsOf(r))
  BY <1>0, <1>1, <1>5 DEF FileInv, Threads, Makes, Alone, Store!MoreEdits
<1>7. JobInv(k)'
  <2>1. label = "read" => job'[k].step \in 1..Len(EditsOf(r)) /\ job'[k].op.edits = EditsOf(r)
    BY <1>1, <1>3, <1>5, <1>6
  <2> QED
    BY <1>0, <1>1, <1>5, <1>6, <2>1 DEF JobInv, Editing
<1>8. ASSUME NEW p \in Patterns, lastEdit'[p] = k
      PROVE  LastInv(p, k)'
  <2>1. LastInv(p, k)
    BY <1>6, <1>8 DEF ForceInv
  <2>2. \A i \in 1..(n - 1) : Settles(EditsOf(r)[i], file.content, p)
    BY <1>0, <1>1, <2>1 DEF LastInv, Settled
  <2>3. \A i \in 1..n : Settles(EditsOf(r)[i], file'.content, p)
    BY <1>1, <1>2, <1>3, <1>4, <2>2, OwnEdit
  <2>4. Now(r, n, p)
    BY <2>3
  <2>5. Editing(k)' => job'[k].step - 1 = n
    BY <1>1, <1>3, <1>5, <1>6 DEF Editing
  <2>6. Ended(k)' => Len(EditsOf(r)) = n
    <3>1. Ended(k)' => label # "read"
      BY <1>2, <1>6 DEF Ended, Editing
    <3> QED
      BY <1>1, <1>3, <1>5, <1>6, <3>1
  <2>7. \A j \in Calls \ {k} : Editing(j)' => p \notin Touched(call'[j].req)
    BY <1>6, <2>1, OthersJobs DEF LastInv, Makes
  <2> QED
    BY <1>0, <1>6, <2>1, <2>4, <2>5, <2>6, <2>7 DEF LastInv, Settled
<1>9. ASSUME NEW p \in Patterns, NEW i \in Calls \ {k}, lastEdit'[p] = i
      PROVE  LastInv(p, i)'
  <2>0. PICK q : q = call[i].req
    OBVIOUS
  <2>1. LastInv(p, i) /\ JobInv(i) /\ p \notin Touched(r)
    BY <1>0, <1>1, <1>6, <1>9 DEF ForceInv, LastInv
  <2>2. e.list \in ListNames /\ (e.list = "declined" \/ (p \notin e.drop /\ p \notin e.add))
    BY <1>1, <1>2, <2>1, EditsShape DEF ListNames
  <2>3. q \in AllRequests /\ q.kind \in EditKinds /\ q.kind # "decline"
    BY <2>0, <2>1 DEF LastInv, IInv, CallInv, Made, Touched
  <2>4. ASSUME NEW m \in Int, m <= Len(EditsOf(q)), Settled(q, m, p)
        PROVE  Now(q, m, p)
    <3>1. Len(EditsOf(q)) \in Nat
      BY <2>3, EditsShape
    <3>2. ASSUME NEW x \in 1..m
          PROVE  Settles(EditsOf(q)[x], file'.content, p)
      <4>1. x \in 1..Len(EditsOf(q)) /\ Settles(EditsOf(q)[x], file.content, p)
        BY <2>4, <3>1 DEF Settled
      <4>2. EditsOf(q)[x].list \in {"allow", "deny"}
        BY <2>3, <4>1, EditsShape
      <4> QED
        BY <1>3, <1>4, <2>2, <4>1, <4>2, OtherEdit
    <3> QED
      BY <3>2
  <2>5. Len(EditsOf(q)) \in Int
    BY <2>3, EditsShape
  <2> HIDE DEF Now
  <2>6. Editing(i) => Now(q, job[i].step - 1, p)
    <3>1. SUFFICES ASSUME Editing(i)
                   PROVE  Now(q, job[i].step - 1, p)
      OBVIOUS
    <3>2. job[i].step - 1 \in Int /\ job[i].step - 1 <= Len(EditsOf(q))
      BY <2>0, <2>1, <2>5, <3>1 DEF JobInv
    <3>3. Settled(q, job[i].step - 1, p)
      BY <2>0, <2>1, <3>1 DEF LastInv
    <3> QED
      BY <2>4, <3>2, <3>3
  <2>7. Ended(i) => wrote[i] = "failed" \/ Now(q, Len(EditsOf(q)), p)
    BY <2>0, <2>1, <2>4, <2>5 DEF LastInv
  <2>8. \A j \in Calls \ {i} : Editing(j)' => p \notin Touched(call'[j].req)
    <3>1. \A j \in Calls \ {k} : Editing(j)' => Editing(j)
      BY OthersJobs DEF Makes
    <3> QED
      BY <1>0, <1>6, <2>1, <3>1 DEF LastInv
  <2>9. /\ call'[i] = call[i] /\ job'[i] = job[i] /\ wrote'[i] = wrote[i]
        /\ Editing(i)' <=> Editing(i)
        /\ Ended(i)' <=> Ended(i)
    BY <1>6, OthersJobs DEF Makes, Alone
  <2>10. /\ Editing(i)' => Settled(call[i].req, job[i].step - 1, p)'
         /\ Ended(i)' => wrote'[i] = "failed"
                         \/ Settled(call[i].req, Len(EditsOf(call[i].req)), p)'
    BY <2>0, <2>6, <2>7, <2>9 DEF Now, Settled
  <2> QED
    BY <2>1, <2>8, <2>9, <2>10 DEF LastInv
<1> QED
  BY <1>7, <1>8, <1>9

LEMMA MovesAt ==
    ASSUME ForceInv, NEW k \in Calls, Alone(k), UNCHANGED <<file, lists, event, mtime, seen>>,
           pc[k] \in {"read", "write"},
           \A t \in Threads \ {k} : snap'[t] = snap[t], DOMAIN snap' = Threads,
           DOMAIN wrote' = Calls, pc'[k] \in {"read", "write", "load", "idle"},
           pc'[k] = "write" => snap'[k] = file
    PROVE  FileInv' /\ ListsInv' /\ \A t \in Threads : ReadInv(t)'
<1>1. FileInv'
  BY DEF ForceInv, FileInv, Alone
<1>2. ListsInv'
  <2>1. \A t \in Threads : pc[t] \in {"load", "lists"} => pc'[t] \in {"load", "lists"}
    BY DEF Alone
  <2> QED
    BY <2>1, ListsKept DEF ForceInv
<1>3. ASSUME NEW t \in Threads \ {k}
      PROVE  ReadInv(t)'
  BY <1>3, ReadKept DEF ForceInv, Alone
<1>4. ReadInv(k)'
  BY DEF ReadInv
<1> QED
  BY <1>1, <1>2, <1>3, <1>4

LEMMA NotedIs ==
    ASSUME FileInv, NEW k \in Calls, NEW what, Noted(k, what)
    PROVE  /\ DOMAIN wrote' = Calls /\ \A j \in Calls \ {k} : wrote'[j] = wrote[j]
           /\ what = "failed" => wrote'[k] = "failed"
BY DEF FileInv, Noted

\* The edits of the other calls go on as they were.
LEMMA NothingMade ==
    ASSUME IInv, ForceInv, NEW k \in Calls, Alone(k), file' = file, Editing(k),
           Editing(k)' => job'[k] = job[k],
           ~Editing(k)' => wrote'[k] = "failed"
    PROVE  \A p \in Patterns, i \in Calls : lastEdit'[p] = i => LastInv(p, i)'
<1>1. ASSUME NEW j \in Calls
      PROVE  Editing(j)' => Editing(j) /\ call'[j].req = call[j].req
  BY OthersJobs DEF Alone
<1>2. call[k].phase = "serving" /\ call[k].answer \in {"none", "error"}
  BY DEF ForceInv, JobInv, Editing, IInv, CallInv, AnswerInv
<1>3. ASSUME NEW p \in Patterns, NEW i \in Calls, lastEdit'[p] = i
      PROVE  LastInv(p, i)'
  <2>1. LastInv(p, i) /\ call'[i] = call[i]
    BY <1>3 DEF Alone, ForceInv
  <2>2. CASE i # k
    <3>1. job'[i] = job[i] /\ wrote'[i] = wrote[i] /\ (Ended(i)' <=> Ended(i))
      BY <2>2, OthersJobs DEF Alone
    <3> QED
      BY <1>1, <2>1, <3>1, LastKept DEF LastInv
  <2>3. CASE i = k /\ Editing(k)'
    <3>1. ~Ended(k)'
      BY <1>2, <2>1, <2>3 DEF Ended
    <3> QED
      BY <1>1, <2>1, <2>3, <3>1 DEF LastInv, Settled
  <2>4. CASE i = k /\ ~Editing(k)'
    BY <1>1, <2>1, <2>4 DEF LastInv
  <2> QED
    BY <2>2, <2>3, <2>4
<1> QED
  BY <1>3

LEMMA EditFileKeeps ==
    ASSUME IInv, ForceInv, NEW k \in Calls, EditFile(k), ~raced'
    PROVE  ForceInv'
<1>1. /\ FileInv /\ k \in Threads /\ JobInv(k) /\ UNCHANGED <<call, lastEdit>>
      /\ file.form = "good"
  BY DEF EditFile, ForceInv, FileInv, Threads
<1>2. ASSUME NEW label, pc' = [pc EXCEPT ![k] = label], DOMAIN job' = Calls,
             \A j \in Calls \ {k} : job'[j] = job[j]
      PROVE  Alone(k) /\ pc'[k] = label
  <2>1. \A j \in Calls \ {k} : wrote'[j] = wrote[j]
    BY <1>1, NotedIs DEF EditFile
  <2> QED
    BY <1>1, <1>2, <2>1 DEF Alone, FileInv
<1>3. DOMAIN wrote' = Calls
  BY <1>1, NotedIs DEF EditFile
<1>4. ASSUME NEW j \in Calls \ {k}, Alone(k)
      PROVE  JobInv(j)'
  BY <1>4, OthersJobs
\* There is nothing to change.
<1>5. CASE /\ pc[k] = "read" /\ Store!Apply(Store!CurrentEdit(k), file.content) = file.content
           /\ Store!AfterEdit(k, FALSE, FALSE)
           /\ UNCHANGED <<snap, file, mtime, lists, seen, event>>
  <2>1. PICK label \in {"read", "load", "idle"} :
              /\ pc' = [pc EXCEPT ![k] = label]
              /\ DOMAIN job' = Calls /\ \A j \in Calls \ {k} : job'[j] = job[j]
    BY <1>1, <1>5, AfterEditIs
  <2>2. Alone(k) /\ pc'[k] = label
    BY <1>2, <2>1
  <2>3. Makes(k)
    BY <1>5, <2>2 DEF Makes, Editing
  <2>4. FileInv' /\ ListsInv' /\ \A t \in Threads : ReadInv(t)'
    <3>1. pc'[k] \in {"read", "write", "load", "idle"} /\ pc'[k] # "write"
      BY <2>2
    <3> QED
      BY <1>1, <1>3, <1>5, <2>2, <3>1, MovesAt DEF FileInv
  <2> QED
    BY <1>4, <2>2, <2>3, <2>4, MadeEdit DEF ForceInv
\* There is something to write.
<1>6. CASE /\ pc[k] = "read" /\ Store!Goto(k, "write") /\ snap' = [snap EXCEPT ![k] = file]
           /\ UNCHANGED <<job, file, mtime, lists, seen, event>>
  <2>1. Alone(k) /\ pc'[k] = "write"
    BY <1>1, <1>2, <1>6 DEF Store!Goto, FileInv
  <2>2. snap'[k] = file /\ DOMAIN snap' = Threads /\ \A t \in Threads \ {k} : snap'[t] = snap[t]
    BY <1>1, <1>6 DEF FileInv
  <2>3. FileInv' /\ ListsInv' /\ \A t \in Threads : ReadInv(t)'
    BY <1>3, <1>6, <2>1, <2>2, MovesAt
  <2>4. JobInv(k)' /\ Editing(k) /\ Editing(k)'
    BY <1>1, <1>6, <2>1 DEF JobInv, Editing
  <2> QED
    BY <1>4, <1>6, <2>1, <2>3, <2>4, NothingMade DEF ForceInv
\* The new file takes the place of the old one.
<1>7. CASE Store!Write(k)
  <2>1. /\ pc[k] = "write" /\ Store!AfterEdit(k, TRUE, FALSE)
        /\ file' = [content |-> Store!Apply(Store!CurrentEdit(k), snap[k].content),
                    form |-> snap[k].form]
        /\ mtime' = mtime + 1 /\ event' = TRUE /\ seen' = seen /\ lists' = lists
        /\ snap' = [snap EXCEPT ![k] = None]
        /\ ~Store!OthersBusy(k)
    BY <1>7 DEF Store!Write, Store!Replace, Store!copies, Store!watch
  <2>2. snap[k] = file
    BY <1>1, <2>1 DEF ForceInv, ReadInv
  <2>3. PICK label \in {"read", "load", "idle"} :
              /\ pc' = [pc EXCEPT ![k] = label]
              /\ DOMAIN job' = Calls /\ \A j \in Calls \ {k} : job'[j] = job[j]
    BY <1>1, <2>1, AfterEditIs
  <2>4. Alone(k) /\ pc'[k] = label
    BY <1>2, <2>3
  <2>5. Makes(k)
    BY <2>1, <2>2, <2>4 DEF Makes, Editing
  <2>6. Store!CurrentEdit(k).list \in ListNames
    <3>1. /\ call[k].req.kind \in EditKinds /\ job[k].op.edits = EditsOf(call[k].req)
          /\ job[k].step \in 1..Len(EditsOf(call[k].req)) /\ call[k].phase = "serving"
      BY <1>1, <2>1 DEF JobInv, Editing
    <3>2. call[k].req \in AllRequests
      BY <3>1 DEF IInv, CallInv, Made
    <3> QED
      BY <3>1, <3>2, EditsShape DEF Store!CurrentEdit, ListNames
  <2>7. FileInv'
    <3>1. DOMAIN file'.content = {"allow", "deny", "declined"} /\ file'.form = "good"
      BY <1>1, <2>1, <2>2, <2>6, Applied DEF FileInv, ListNames
    <3>2. mtime' \in Nat /\ seen' \in 0..mtime'
      BY <1>1, <2>1 DEF FileInv
    <3> QED
      BY <1>1, <1>3, <2>1, <2>4, <3>1, <3>2 DEF FileInv, Alone
  <2>8. ListsInv'
    <3>1. mtime' # seen'
      BY <1>1, <2>1 DEF FileInv
    <3> QED
      BY <2>1, <3>1 DEF ListsInv
  <2>9. ASSUME NEW t \in Threads
        PROVE  ReadInv(t)'
    <3>1. t # k => pc'[t] = "idle"
      BY <2>1, <2>4 DEF Store!OthersBusy, Store!Threads, Threads, Alone
    <3> QED
      BY <2>4, <3>1 DEF ReadInv
  <2> QED
    BY <1>4, <2>4, <2>5, <2>7, <2>8, <2>9, MadeEdit DEF ForceInv
\* The new file could not be written.
<1>8. CASE Store!WriteFails(k) /\ Noted(k, "failed")
  <2>1. /\ pc[k] = "write" /\ Store!AfterEdit(k, FALSE, TRUE) /\ ~Store!MoreEdits(k)
        /\ snap' = [snap EXCEPT ![k] = None]
        /\ UNCHANGED <<file, mtime, lists, seen, event>>
    BY <1>8 DEF Store!WriteFails, Store!disk, Store!copies, Store!watch
  <2>2. PICK label \in {"load", "idle"} :
              /\ pc' = [pc EXCEPT ![k] = label]
              /\ DOMAIN job' = Calls /\ \A j \in Calls \ {k} : job'[j] = job[j]
    BY <1>1, <2>1, AfterEditIs
  <2>3. Alone(k) /\ pc'[k] = label
    BY <1>2, <2>2
  <2>4. wrote'[k] = "failed"
    BY <1>1, <1>8, NotedIs
  <2>5. FileInv' /\ ListsInv' /\ \A t \in Threads : ReadInv(t)'
    <3>1. /\ DOMAIN snap' = Threads /\ \A t \in Threads \ {k} : snap'[t] = snap[t]
          /\ pc'[k] \in {"read", "write", "load", "idle"} /\ pc'[k] # "write"
      BY <1>1, <2>1, <2>3 DEF FileInv
    <3> QED
      BY <1>3, <2>1, <2>3, <3>1, MovesAt
  <2>6. Editing(k) /\ ~Editing(k)' /\ JobInv(k)'
    BY <1>1, <2>1, <2>3 DEF Editing, JobInv
  <2> QED
    BY <1>4, <2>1, <2>3, <2>4, <2>5, <2>6, NothingMade DEF ForceInv
<1>9. CASE Store!Read(k) /\ Noted(k, "nothing")
  <2>1. UNCHANGED <<file, mtime, lists, seen, event>>
    BY <1>9 DEF Store!Read, Store!disk, Store!copies, Store!watch
  <2> QED
    BY <1>1, <1>5, <1>6, <1>9, <2>1 DEF Store!Read
<1> QED
  BY <1>1, <1>7, <1>8, <1>9 DEF EditFile

-----------------------------------------------------------------------------
(***************************************************************************)
(* Reloads.                                                                *)
(***************************************************************************)
\* A reload ends no edit and begins none.
Reloads(t) ==
    /\ UNCHANGED <<call, wrote, lastEdit, file, mtime>>
    /\ pc[t] \notin {"read", "write"} /\ pc'[t] \notin {"read", "write"}
    /\ t \in Calls => pc[t] # "idle"
    /\ DOMAIN pc' = Threads /\ \A u \in Threads \ {t} : pc'[u] = pc[u]
    /\ DOMAIN job' = Calls /\ \A k \in Calls \ {t} : job'[k] = job[k]
    /\ DOMAIN snap' = Threads /\ \A u \in Threads \ {t} : snap'[u] = snap[u]

LEMMA ReloadsKeep ==
    ASSUME ForceInv, NEW t \in Threads, Reloads(t), seen' \in {seen, mtime},
           ListsInv', \A u \in Threads : ReadInv(u)'
    PROVE  ForceInv'
<1>1. FileInv'
  BY DEF ForceInv, FileInv, Reloads
<1>2. ASSUME NEW k \in Calls
      PROVE  /\ Editing(k)' => Editing(k) /\ job'[k] = job[k]
             /\ Editing(k)' <=> Editing(k)
             /\ JobInv(k)'
  <2>1. k \in Threads
    BY DEF Threads
  <2>2. CASE k = t
    <3>1. ~Editing(k)' /\ ~Editing(k)
      BY <2>2 DEF Reloads, Editing
    <3>2. call'[k] = call[k] /\ pc[k] # "idle"
      BY <2>2 DEF Reloads
    <3> QED
      BY <3>1, <3>2, JobKept DEF ForceInv
  <2>3. CASE k # t
    <3>1. pc'[k] = pc[k] /\ job'[k] = job[k] /\ call'[k] = call[k]
      BY <2>1, <2>3 DEF Reloads
    <3> QED
      BY <3>1, JobKept DEF ForceInv, Editing
  <2> QED
    BY <2>2, <2>3
<1>3. ASSUME NEW p \in Patterns, NEW k \in Calls, lastEdit'[p] = k
      PROVE  LastInv(p, k)'
  <2>1. LastInv(p, k) /\ call'[k] = call[k] /\ wrote'[k] = wrote[k]
    BY <1>3 DEF Reloads, ForceInv
  <2>2. Ended(k)' => Ended(k)
    BY <1>2, <2>1 DEF Ended
  <2>3. \A j \in Calls : Editing(j)' => Editing(j) /\ call'[j].req = call[j].req
    BY <1>2 DEF Reloads
  <2> QED
    BY <1>2, <2>1, <2>2, <2>3, LastKept DEF Reloads, LastInv
<1> QED
  BY <1>1, <1>2, <1>3 DEF ForceInv

LEMMA OthersRead ==
    ASSUME ForceInv, NEW t \in Threads, Reloads(t), UNCHANGED <<file, lists>>,
           NEW u \in Threads \ {t}
    PROVE  ReadInv(u)'
BY ReadKept DEF ForceInv, Reloads

LEMMA ReloadFileKeeps ==
    ASSUME ForceInv, NEW t \in Threads, ReloadFile(t)
    PROVE  ForceInv'
<1>1. /\ FileInv /\ ListsInv /\ ReadInv(t) /\ file.form = "good"
      /\ UNCHANGED <<call, wrote, lastEdit>>
  BY DEF ReloadFile, ForceInv, FileInv, historyVars
<1>2. CASE Store!Load(t)
  <2>1. /\ pc[t] = "load" /\ snap' = [snap EXCEPT ![t] = file] /\ pc' = [pc EXCEPT ![t] = "lists"]
        /\ UNCHANGED <<file, mtime, event, lists, seen, job>>
    BY <1>1, <1>2 DEF Store!Load, Store!Goto, Store!disk, Store!copies
  <2>2. Reloads(t) /\ snap'[t] = file /\ pc'[t] = "lists"
    BY <1>1, <2>1 DEF Reloads, FileInv
  <2>3. ListsInv'
    BY <2>2 DEF ListsInv
  <2>4. ReadInv(t)'
    BY <2>1, <2>2 DEF ReadInv
  <2> QED
    BY <2>1, <2>2, <2>3, <2>4, OthersRead, ReloadsKeep
<1>3. CASE Store!ReloadLists(t)
  <2>1. /\ pc[t] = "lists" /\ pc' = [pc EXCEPT ![t] = "config"]
        /\ IF Store!Loads(snap[t])
              THEN lists' = [l \in {"allow", "deny"} |-> snap[t].content[l]]
              ELSE UNCHANGED lists
        /\ UNCHANGED <<file, mtime, event, seen, job, snap>>
    BY <1>3 DEF Store!ReloadLists, Store!Goto, Store!disk, Store!local
  <2>2. Reloads(t) /\ pc'[t] = "config" /\ snap[t] = file
    BY <1>1, <2>1 DEF Reloads, FileInv, ReadInv
  <2>3. Follows'
    BY <2>1, <2>2 DEF Follows, Store!Loads
  <2>4. ASSUME NEW u \in Threads
        PROVE  ReadInv(u)'
    <3>1. CASE u = t
      BY <2>1, <2>2, <2>3, <3>1 DEF ReadInv
    <3>2. CASE u # t
      BY <2>1, <2>2, <2>3, <3>2 DEF Reloads, ForceInv, ReadInv
    <3> QED
      BY <3>1, <3>2
  <2> QED
    BY <2>1, <2>2, <2>3, <2>4, ReloadsKeep DEF ListsInv
<1>4. CASE Store!ReloadConfig(t)
  <2> DEFINE label == IF t \in Calls THEN "mark" ELSE "idle"
             read == IF t \in Calls THEN snap[t] ELSE None
  <2>1. /\ pc[t] = "config" /\ snap' = [snap EXCEPT ![t] = read] /\ pc' = [pc EXCEPT ![t] = label]
        /\ UNCHANGED <<file, mtime, event, lists, seen, job>>
    BY <1>4 DEF Store!ReloadConfig, Store!Goto, Store!disk, Store!watch
  <2>2. label \in {"mark", "idle"} /\ (label = "mark" => read = snap[t])
    OBVIOUS
  <2> HIDE DEF label, read
  <2>3. Reloads(t) /\ pc'[t] = label /\ snap'[t] = read
    BY <1>1, <2>1, <2>2 DEF Reloads, FileInv
  <2>4. ListsInv'
    BY <1>1, <2>1, <2>3, ListsKept DEF Reloads
  <2>5. ReadInv(t)'
    <3>1. snap[t] = file /\ Follows
      BY <1>1, <2>1 DEF ReadInv
    <3>2. Follows'
      BY <2>1, <3>1 DEF Follows, Store!Loads
    <3> QED
      BY <2>1, <2>2, <2>3, <3>1, <3>2 DEF ReadInv
  <2> QED
    BY <2>1, <2>3, <2>4, <2>5, OthersRead, ReloadsKeep
<1>5. CASE Store!MarkReloaded(t)
  <2>1. /\ pc[t] = "mark" /\ snap' = [snap EXCEPT ![t] = None] /\ pc' = [pc EXCEPT ![t] = "idle"]
        /\ seen' = mtime
        /\ job' = IF t \in Calls THEN [job EXCEPT ![t] = None] ELSE job
        /\ UNCHANGED <<file, mtime, event, lists>>
    BY <1>5 DEF Store!MarkReloaded, Store!Goto, Store!EndJob, Store!disk, Store!copies
  <2>2. Reloads(t) /\ pc'[t] = "idle"
    BY <1>1, <2>1 DEF Reloads, FileInv
  <2>3. Follows'
    BY <1>1, <2>1 DEF ReadInv, Follows, Store!Loads
  <2>4. ReadInv(t)'
    BY <2>2 DEF ReadInv
  <2> QED
    BY <2>1, <2>2, <2>3, <2>4, OthersRead, ReloadsKeep DEF ListsInv
<1>6. CASE t \in Timers /\ Store!TimerFires(t)
  <2>1. /\ pc[t] = "idle" /\ event' = FALSE /\ seen' = mtime
        /\ pc' = [pc EXCEPT ![t] = IF mtime # seen THEN "load" ELSE "idle"]
        /\ UNCHANGED <<file, mtime, lists, job, snap>>
    BY <1>6 DEF Store!TimerFires, Store!Goto, Store!copies, Store!local
  <2>2. t \notin Calls
    BY <1>6, ConstantsAssumption
  <2>3. Reloads(t) /\ pc'[t] = IF mtime # seen THEN "load" ELSE "idle"
    BY <1>1, <2>1, <2>2 DEF Reloads, FileInv
  <2>4. ListsInv'
    <3>1. CASE mtime # seen
      BY <2>3, <3>1 DEF ListsInv
    <3>2. CASE mtime = seen
      <4>1. CASE Follows
        BY <2>1, <4>1 DEF ListsInv, Follows, Store!Loads
      <4>2. CASE \E u \in Threads : pc[u] \in {"load", "lists"}
        BY <2>1, <2>3, <4>2 DEF ListsInv, Reloads
      <4> QED
        BY <1>1, <3>2, <4>1, <4>2 DEF ListsInv
    <3> QED
      BY <3>1, <3>2
  <2>5. ReadInv(t)'
    BY <2>3 DEF ReadInv
  <2> QED
    BY <2>1, <2>3, <2>4, <2>5, OthersRead, ReloadsKeep
<1> QED
  BY <1>2, <1>3, <1>4, <1>5, <1>6 DEF ReloadFile, Store!ReloadStep

-----------------------------------------------------------------------------
(***************************************************************************)
(* The restart, the first state and the theorem.                           *)
(***************************************************************************)
LEMMA RestartForce ==
    ASSUME IInv, ForceInv, Restart
    PROVE  ForceInv'
<1>1. /\ lists' = [l \in {"allow", "deny"} |-> file.content[l]]
      /\ seen' = mtime
      /\ pc' = [t \in Threads |-> "idle"] /\ job' = [k \in Calls |-> None]
      /\ snap' = [t \in Threads |-> None]
      /\ UNCHANGED <<file, mtime, wrote, lastEdit>>
  BY DEF Restart, Threads
<1>2. FileInv'
  BY <1>1 DEF ForceInv, FileInv
<1>3. ListsInv'
  BY <1>1 DEF ListsInv, Follows
<1>4. \A t \in Threads : ReadInv(t)'
  BY <1>1 DEF ReadInv
<1>5. \A k \in Calls : JobInv(k)' /\ ~Editing(k)'
  BY <1>1 DEF JobInv, Editing, Threads
<1>6. ASSUME NEW p \in Patterns, NEW k \in Calls, lastEdit'[p] = k
      PROVE  LastInv(p, k)'
  <2>1. LastInv(p, k) /\ call[k] \in CallType
    BY <1>1, <1>6 DEF ForceInv, IInv, Shapes
  <2>2. /\ call'[k].req = call[k].req /\ call'[k].phase = "over"
        /\ call'[k].answer \in {"error", call[k].answer}
    <3>1. CASE call[k].phase = "over"
      BY <2>1, <3>1 DEF Restart, UnderWay
    <3>2. CASE call[k].phase \in UnderWay
      <4>1. call'[k] = [call[k] EXCEPT !.phase = "over", !.waiting = FALSE,
                          !.answer = IF call[k].waiting THEN "error" ELSE call[k].answer]
        BY <2>1, <3>2 DEF Restart, CallType
      <4> QED
        BY <2>1, <4>1 DEF CallType
    <3> QED
      BY <2>1, <3>1, <3>2 DEF LastInv, UnderWay
  <2>3. Ended(k)' => Ended(k)
    BY <2>2 DEF Ended
  <2> QED
    BY <1>1, <1>5, <2>1, <2>2, <2>3, LastKept
<1> QED
  BY <1>2, <1>3, <1>4, <1>5, <1>6 DEF ForceInv

LEMMA InitForce == Init => ForceInv
<1> SUFFICES ASSUME Init PROVE ForceInv
  OBVIOUS
<1>1. /\ file \in Files0 /\ Store!Loads(file) /\ mtime = 0 /\ seen = 0
      /\ lists = [l \in {"allow", "deny"} |-> file.content[l]]
      /\ pc = [t \in Threads |-> "idle"] /\ job = [k \in Calls |-> None]
      /\ snap = [t \in Threads |-> None] /\ wrote = [k \in Calls |-> "nothing"]
      /\ lastEdit = [p \in Patterns |-> None]
  BY DEF Init, Store!Init, Store!Threads, Threads
<1>2. file.form = "good" /\ DOMAIN file.content = {"allow", "deny", "declined"}
  BY <1>1, ConstantsAssumption DEF Store!Loads, Store!Files, Store!Contents, Store!Lists
<1>3. FileInv
  BY <1>1, <1>2 DEF FileInv
<1>4. ListsInv /\ \A t \in Threads : ReadInv(t)
  BY <1>1 DEF ListsInv, Follows, ReadInv
<1>5. \A k \in Calls : JobInv(k)
  BY <1>1 DEF JobInv, Editing, Threads
<1>6. \A p \in Patterns, k \in Calls : lastEdit[p] # k
  BY <1>1, ConstantsAssumption
<1> QED
  BY <1>3, <1>4, <1>5, <1>6 DEF ForceInv

LEMMA RacedStays ==
    ASSUME [Next]_vars
    PROVE  raced => raced'
<1>1. ASSUME NEW k \in Calls, Serve(k)
      PROVE  raced => raced'
  <2>1. CASE \/ HoldAction(k) \/ ListEdit(k) \/ ConsoleEdit(k)
             \/ SuggestionAccept(k) \/ SuggestionDecline(k)
    BY <2>1 DEF HoldAction, ListEdit, ConsoleEdit, SuggestionAccept, SuggestionDecline,
                SuggestionRefusal, Edit, Store!Begin, storeVars
  <2>2. CASE EditFile(k)
    BY <2>2 DEF EditFile, Store!Read, Store!Write, Store!WriteFails
  <2>3. CASE ReloadFile(k)
    BY <2>3 DEF ReloadFile, Store!ReloadStep, Store!Load, Store!ReloadLists, Store!ReloadConfig,
                Store!MarkReloaded, Store!TimerFires
  <2>4. CASE \/ OpenMode(k) \/ SuggestionSkip(k) \/ SuggestNow(k) \/ ScanEnds(k)
             \/ SuggestionScan(k) \/ Served(k)
    BY <2>4 DEF OpenMode, SuggestionSkip, SuggestionRefusal, SuggestNow, ScanEnds,
                SuggestionScan, Served, storeVars
  <2> QED
    BY <1>1, <2>1, <2>2, <2>3, <2>4 DEF Serve
<1>2. ASSUME NEW t \in Timers, ReloadFile(t)
      PROVE  raced => raced'
  BY <1>2 DEF ReloadFile, Store!ReloadStep, Store!Load, Store!ReloadLists, Store!ReloadConfig,
              Store!MarkReloaded, Store!TimerFires
<1> QED
  BY <1>1, <1>2
  DEF Next, Make, Lose, GiveUp, Told, HoldEnds, Tick, TickEnds, revalidateActive, WindowEnds,
      Restart, storeVars, vars

ForceOrRaced == raced \/ ForceInv

LEMMA NextForce ==
    ASSUME IInv, ForceOrRaced, [Next]_vars
    PROVE  ForceOrRaced'
<1> SUFFICES ASSUME ForceInv, ~raced'
             PROVE  ForceInv'
  BY RacedStays DEF ForceOrRaced
<1>1. ASSUME NEW k \in Calls, Serve(k)
      PROVE  ForceInv'
  <2>1. CASE \/ HoldAction(k) \/ ListEdit(k) \/ ConsoleEdit(k)
             \/ SuggestionAccept(k) \/ SuggestionDecline(k)
    BY <2>1, HoldActionBegins, ListEditBegins, ConsoleEditBegins, AcceptBegins, DeclineBegins,
       BeginsKeeps, ElsewhereKeeps
  <2>2. CASE \/ OpenMode(k) \/ SuggestionSkip(k) \/ SuggestNow(k) \/ ScanEnds(k)
             \/ SuggestionScan(k) \/ Served(k)
    BY <2>2, OtherHandlers, ScanMoves, ElsewhereKeeps
  <2>3. CASE EditFile(k)
    BY <2>3, EditFileKeeps
  <2>4. CASE ReloadFile(k)
    BY <2>4, ReloadFileKeeps DEF Threads
  <2> QED
    BY <1>1, <2>1, <2>2, <2>3, <2>4 DEF Serve
<1>2. ASSUME NEW k \in Calls, (\E r \in Requests : Make(k, r)) \/ Lose(k) \/ GiveUp(k) \/ Told(k)
      PROVE  ForceInv'
  BY <1>2, ClientElsewhere, ElsewhereKeeps
<1>3. ASSUME NEW t \in Timers, ReloadFile(t)
      PROVE  ForceInv'
  BY <1>3, ReloadFileKeeps DEF Threads
<1>4. ASSUME \/ (\E h \in Holds : HoldEnds(h)) \/ WindowEnds
             \/ Tick \/ TickEnds \/ revalidateActive \/ UNCHANGED vars
      PROVE  ForceInv'
  BY <1>4, OthersElsewhere, ElsewhereKeeps
<1>5. CASE Restart
  BY <1>5, RestartForce
<1> QED
  BY <1>1, <1>2, <1>3, <1>4, <1>5 DEF Next

\* What the edits of a request come to.
LEMMA SettledIsListed ==
    ASSUME NEW k \in Calls, NEW p, call[k].req \in AllRequests, call[k].req.kind \in EditKinds,
           p \in Touched(call[k].req),
           Settled(call[k].req, Len(EditsOf(call[k].req)), p),
           lists = [l \in {"allow", "deny"} |-> file.content[l]]
    PROVE  Listed(k, p)
<1>0. PICK r : r = call[k].req
  OBVIOUS
<1>1. \A i \in 1..Len(EditsOf(r)) : Settles(EditsOf(r)[i], file.content, p)
  BY <1>0 DEF Settled
<1>2. CASE r.kind = "accept"
  <2> DEFINE g == Gist[r.about]
  <2>1. r.about \in Offers /\ g.list \in {"allow", "deny"}
    BY <1>0, <1>2, Abouts, ConstantsAssumption DEF OfferKinds
  <2>2. EditsOf(r) = <<Store!Edit(g.list, g.sources, {g.pattern})>> /\ p \in g.sources \cup {g.pattern}
    BY <1>0, <1>2 DEF EditsOf, Touched
  <2>3. p \in file.content[g.list] <=> p = g.pattern
    BY <1>1, <2>2 DEF Settles, Store!Edit
  <2>4. p \in lists[g.list] <=> p = g.pattern
    BY <2>1, <2>3
  <2> QED
    BY <1>0, <1>2, <2>4 DEF Listed, About
<1>3. CASE r.kind = "remove"
  <2>1. r.about.list \in {"allow", "deny"} /\ p = r.about.pattern
    BY <1>0, <1>3 DEF AllRequests, Touched, LineOfRequest
  <2>2. p \notin file.content[r.about.list]
    <3>1. CASE r.surface = "attach"
      BY <1>1, <1>3, <2>1, <3>1 DEF EditsOf, Settles, Store!Edit
    <3>2. CASE r.surface # "attach"
      BY <1>1, <1>3, <2>1, <3>2 DEF EditsOf, Settles, Store!Edit
    <3> QED
      BY <3>1, <3>2
  <2>3. p \notin lists[r.about.list]
    BY <2>1, <2>2
  <2> QED
    BY <1>0, <1>3, <2>3 DEF Listed, About
<1>4. CASE r.kind \in {"approve", "deny", "add", "move"}
  <2> DEFINE list == LineOfRequest(r).list
             other == IF list = "allow" THEN "deny" ELSE "allow"
  <2>1. list \in {"allow", "deny"}
    BY <1>0, <1>4 DEF LineOfRequest, Line, AllRequests
  <2>2. EditsOf(r) = Operator(list, p)
    BY <1>0, <1>4 DEF EditsOf, Touched
  <2>3. \A l : l = list => p \in lists[l] /\ p \notin lists[IF l = "allow" THEN "deny" ELSE "allow"]
    <3> HIDE DEF list
    <3>1. EditsOf(r) = <<Store!Edit(other, {p}, {}), Store!Edit(list, {}, {p})>>
      BY <2>1, <2>2, OperatorShape
    <3>2. p \notin file.content[other] /\ p \in file.content[list]
      BY <1>1, <3>1 DEF Settles, Store!Edit
    <3> QED
      BY <2>1, <3>2
  <2>4. list = CASE r.kind = "approve" -> "allow"
                 [] r.kind = "deny" -> "deny"
                 [] r.kind \in {"add", "move", "remove"} -> r.about.list
                 [] r.kind = "accept" -> Gist[r.about].list
    BY <1>4 DEF LineOfRequest, Line
  <2> HIDE DEF list
  <2> QED
    BY <1>0, <1>4, <2>3, <2>4 DEF Listed, About
<1> QED
  BY <1>0, <1>2, <1>3, <1>4 DEF EditKinds, ListKinds, Touched

\* For any calls, patterns, writers of the file and restarts: an edit that an operator
\* was told of, and that nobody made again, is what requests are matched with once all
\* is quiet (holdAction, listEdit, the console's edits, Manager.Accept, and the reloads
\* in run.go), unless edits overlapped or the file does not load.
THEOREM EditsAreInForce == Spec => []AnsweredEditIsInForce
<1>1. IInv /\ ForceOrRaced => AnsweredEditIsInForce
  <2> SUFFICES ASSUME IInv, ForceOrRaced, NEW p \in Patterns, lastEdit[p] # None,
                      call[lastEdit[p]].phase = "over",
                      call[lastEdit[p]].answer \in {"ok", "unchanged"},
                      wrote[lastEdit[p]] # "failed", ~raced, Store!Quiescent, Store!Loads(file)
               PROVE  Listed(lastEdit[p], p)
    BY DEF AnsweredEditIsInForce
  <2>1. ForceInv
    BY DEF ForceOrRaced
  <2>2. PICK k \in Calls : lastEdit[p] = k
    BY <2>1 DEF ForceInv, FileInv
  <2>3. LastInv(p, k) /\ Ended(k) /\ wrote[k] # "failed"
    BY <2>1, <2>2 DEF ForceInv, Ended
  <2>4. Settled(call[k].req, Len(EditsOf(call[k].req)), p)
    BY <2>3 DEF LastInv
  <2>5. call[k].req \in AllRequests
    BY <2>3 DEF LastInv, IInv, CallInv, Made
  <2>6. lists = [l \in {"allow", "deny"} |-> file.content[l]]
    BY <2>1 DEF ForceInv, ListsInv, Follows, Store!Quiescent, Store!Threads, Threads
  <2> QED
    BY <2>2, <2>3, <2>4, <2>5, <2>6, SettledIsListed DEF LastInv
<1>2. Init => ForceOrRaced
  BY InitForce DEF ForceOrRaced
<1>3. IInv /\ ForceOrRaced /\ [Next]_vars => ForceOrRaced'
  BY NextForce
<1> QED
  BY <1>1, <1>2, <1>3, InductiveInvariant, PTL DEF Spec
=============================================================================
