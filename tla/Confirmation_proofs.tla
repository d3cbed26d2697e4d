------------------------ MODULE Confirmation_proofs ------------------------
(***************************************************************************)
(* Proofs about Confirmation for any workers, actors, tokens and messages. *)
(***************************************************************************)
EXTENDS Confirmation, TLAPS

IndInv == TypeOK /\ ControlOK /\ ClaimsOK /\ LateOK

-----------------------------------------------------------------------------
(* Lemmas on messages and on the stage the engine begins with.             *)

\* Messages are told apart from the message of an idle worker.
LEMMA MessageNotNone ==
    \A m \in Message : m # NoMessage /\ m.intent \in Intents
  BY DEF Message, NoMessage, Intents

\* A message keeps its type when a cancel notes the token it has cleared.
LEMMA NotedMessage ==
    ASSUME NEW m \in Message, NEW t \in Tokens
    PROVE  /\ [m EXCEPT !.event = t] \in Message
           /\ [m EXCEPT !.event = t].intent = m.intent
           /\ [m EXCEPT !.event = t].late = m.late
           /\ [m EXCEPT !.event = t].event = t
  BY DEF Message, ControlEvents

\* What Begin does for each kind of message.
LEMMA BeginEffect ==
    ASSUME TypeOK, ControlOK, NEW w \in Workers, Begin(w),
           pc[w] \in {"resave", "bind"}
    PROVE  \/ Done(w)
           \/ /\ UNCHANGED <<msg, session, copy>>
              /\ \/ msg[w].intent = "read" /\ Goto(w, "save")
                 \/ /\ msg[w].intent = "cancel" /\ copy[w] \in Tokens
                    /\ Goto(w, "clear")
                 \/ msg[w].intent = "request" /\ Goto(w, "propose")
                 \/ msg[w].intent = "confirm" /\ Goto(w, "look")
  <1>1. msg[w] \in Message
    BY DEF TypeOK, ControlOK, WorkerOK
  <1>2. msg[w].intent \in {"read", "cancel", "request", "confirm"}
    BY <1>1 DEF Message, Intents, ControlOK, WorkerOK
  <1>3. copy[w] \in Tokens \cup {NoToken}
    BY DEF TypeOK
  <1>4. CASE msg[w].intent = "cancel"
    BY <1>3, <1>4 DEF Begin, FirstStage
  <1>5. CASE msg[w].intent = "read"
    BY <1>5 DEF Begin, FirstStage
  <1>6. CASE msg[w].intent = "request"
    BY <1>6 DEF Begin, FirstStage
  <1>7. CASE msg[w].intent = "confirm"
    BY <1>7 DEF Begin, FirstStage
  <1> QED
    BY <1>2, <1>4, <1>5, <1>6, <1>7

-----------------------------------------------------------------------------
(* Every step of a worker preserves the invariant.                         *)

LEMMA ReadIndexStep ==
    ASSUME IndInv, NEW w \in Workers, ReadIndex(w)
    PROVE  IndInv'
  <1> USE ConfirmationAssumption, MessageNotNone
          DEF IndInv, ReadIndex, Done, Goto, SetCopy, storeVars, tokenVars,
              workerVars, historyVars
  <1>1. TypeOK'
    BY DEF TypeOK, ControlOK, WorkerOK, Stages
  <1>2. ControlOK'
    BY DEF TypeOK, ControlOK, WorkerOK
  <1>3. ClaimsOK'
    BY DEF TypeOK, ControlOK, WorkerOK, ClaimsOK
  <1>4. LateOK'
    BY DEF TypeOK, ControlOK, WorkerOK, LateOK
  <1> QED
    BY <1>1, <1>2, <1>3, <1>4

LEMMA LoadStep ==
    ASSUME IndInv, NEW w \in Workers, Load(w)
    PROVE  IndInv'
  <1> USE ConfirmationAssumption, MessageNotNone
          DEF IndInv, Load, Done, Goto, SetCopy, storeVars, tokenVars,
              workerVars, historyVars
  <1>1. TypeOK'
    BY DEF TypeOK, ControlOK, WorkerOK, Stages
  <1>2. ControlOK'
    BY DEF TypeOK, ControlOK, WorkerOK
  <1>3. ClaimsOK'
    BY DEF TypeOK, ControlOK, WorkerOK, ClaimsOK
  <1>4. LateOK'
    BY DEF TypeOK, ControlOK, WorkerOK, LateOK
  <1> QED
    BY <1>1, <1>2, <1>3, <1>4

LEMMA ResaveStep ==
    ASSUME IndInv, NEW w \in Workers, Resave(w)
    PROVE  IndInv'
  <1> USE ConfirmationAssumption, MessageNotNone
          DEF IndInv, Resave, Done, Goto, SetCopy, storeVars, tokenVars,
              workerVars, historyVars
  <1>0. \/ Done(w)
        \/ /\ UNCHANGED <<msg, session, copy>>
           /\ \/ msg[w].intent = "read" /\ Goto(w, "save")
              \/ /\ msg[w].intent = "cancel" /\ copy[w] \in Tokens
                 /\ Goto(w, "clear")
              \/ msg[w].intent = "request" /\ Goto(w, "propose")
              \/ msg[w].intent = "confirm" /\ Goto(w, "look")
    BY BeginEffect
  <1>1. TypeOK'
    BY <1>0 DEF TypeOK, ControlOK, WorkerOK, Stages
  <1>2. ControlOK'
    BY <1>0 DEF TypeOK, ControlOK, WorkerOK
  <1>3. ClaimsOK'
    BY <1>0 DEF TypeOK, ControlOK, WorkerOK, ClaimsOK
  <1>4. LateOK'
    BY <1>0 DEF TypeOK, ControlOK, WorkerOK, LateOK
  <1> QED
    BY <1>1, <1>2, <1>3, <1>4

LEMMA CreateStep ==
    ASSUME IndInv, NEW w \in Workers, Create(w)
    PROVE  IndInv'
  <1> USE ConfirmationAssumption, MessageNotNone
          DEF IndInv, Create, Done, Goto, SetCopy, storeVars, tokenVars,
              workerVars, historyVars
  <1>1. TypeOK'
    BY DEF TypeOK, ControlOK, WorkerOK, Stages
  <1>2. ControlOK'
    BY DEF TypeOK, ControlOK, WorkerOK
  <1>3. ClaimsOK'
    BY DEF TypeOK, ControlOK, WorkerOK, ClaimsOK
  <1>4. LateOK'
    BY DEF TypeOK, ControlOK, WorkerOK, LateOK
  <1> QED
    BY <1>1, <1>2, <1>3, <1>4

LEMMA BindStep ==
    ASSUME IndInv, NEW w \in Workers, Bind(w)
    PROVE  IndInv'
  <1> USE ConfirmationAssumption, MessageNotNone
          DEF IndInv, Bind, Done, Goto, SetCopy, storeVars, tokenVars,
              workerVars, historyVars
  <1>0. \/ Done(w)
        \/ /\ UNCHANGED <<msg, session, copy>>
           /\ \/ msg[w].intent = "read" /\ Goto(w, "save")
              \/ /\ msg[w].intent = "cancel" /\ copy[w] \in Tokens
                 /\ Goto(w, "clear")
              \/ msg[w].intent = "request" /\ Goto(w, "propose")
              \/ msg[w].intent = "confirm" /\ Goto(w, "look")
    BY BeginEffect
  <1>1. TypeOK'
    BY <1>0 DEF TypeOK, ControlOK, WorkerOK, Stages
  <1>2. ControlOK'
    BY <1>0 DEF TypeOK, ControlOK, WorkerOK
  <1>3. ClaimsOK'
    BY <1>0 DEF TypeOK, ControlOK, WorkerOK, ClaimsOK
  <1>4. LateOK'
    BY <1>0 DEF TypeOK, ControlOK, WorkerOK, LateOK
  <1> QED
    BY <1>1, <1>2, <1>3, <1>4

LEMMA SaveStep ==
    ASSUME IndInv, NEW w \in Workers, Save(w)
    PROVE  IndInv'
  <1> USE ConfirmationAssumption, MessageNotNone
          DEF IndInv, Save, Done, Goto, SetCopy, storeVars, tokenVars,
              workerVars, historyVars
  <1>1. TypeOK'
    BY DEF TypeOK, ControlOK, WorkerOK, Stages
  <1>2. ControlOK'
    BY DEF TypeOK, ControlOK, WorkerOK
  <1>3. ClaimsOK'
    BY DEF TypeOK, ControlOK, WorkerOK, ClaimsOK
  <1>4. LateOK'
    BY DEF TypeOK, ControlOK, WorkerOK, LateOK
  <1> QED
    BY <1>1, <1>2, <1>3, <1>4

LEMMA AnswerWithoutSaveStep ==
    ASSUME IndInv, NEW w \in Workers, AnswerWithoutSave(w)
    PROVE  IndInv'
  <1> USE ConfirmationAssumption, MessageNotNone
          DEF IndInv, AnswerWithoutSave, Done, Goto, SetCopy, storeVars, tokenVars,
              workerVars, historyVars
  <1>1. TypeOK'
    BY DEF TypeOK, ControlOK, WorkerOK, Stages
  <1>2. ControlOK'
    BY DEF TypeOK, ControlOK, WorkerOK
  <1>3. ClaimsOK'
    BY DEF TypeOK, ControlOK, WorkerOK, ClaimsOK
  <1>4. LateOK'
    BY DEF TypeOK, ControlOK, WorkerOK, LateOK
  <1> QED
    BY <1>1, <1>2, <1>3, <1>4

LEMMA ClearStep ==
    ASSUME IndInv, NEW w \in Workers, Clear(w)
    PROVE  IndInv'
  <1> USE ConfirmationAssumption, MessageNotNone
          DEF IndInv, Clear, Done, Goto, SetCopy, storeVars, tokenVars,
              workerVars, historyVars
  <1>0. /\ msg[w] \in Message /\ copy[w] \in Tokens
        /\ msg'[w] \in Message /\ msg'[w].intent = msg[w].intent
        /\ msg'[w].late = msg[w].late /\ msg'[w].event = copy[w]
    BY NotedMessage DEF TypeOK, ControlOK, WorkerOK
  <1>1. TypeOK'
    BY <1>0 DEF TypeOK, ControlOK, WorkerOK, Stages
  <1>2. ControlOK'
    BY <1>0 DEF TypeOK, ControlOK, WorkerOK
  <1>3. ClaimsOK'
    BY <1>0 DEF TypeOK, ControlOK, WorkerOK, ClaimsOK
  <1>4. LateOK'
    BY <1>0 DEF TypeOK, ControlOK, WorkerOK, LateOK
  <1> QED
    BY <1>1, <1>2, <1>3, <1>4

LEMMA ProposeStep ==
    ASSUME IndInv, NEW w \in Workers, Propose(w)
    PROVE  IndInv'
  <1> USE ConfirmationAssumption, MessageNotNone
          DEF IndInv, Propose, Done, Goto, SetCopy, storeVars, tokenVars,
              workerVars, historyVars
  <1>0. PICK t \in Tokens :
            /\ requester' = [requester EXCEPT ![t] = msg[w].actor]
            /\ pending' = pending \cup {t} /\ copy' = [copy EXCEPT ![w] = t]
    OBVIOUS
  <1>9. msg[w] \in Message /\ msg[w].actor \in Actors
    BY DEF TypeOK, ControlOK, WorkerOK, Message
  <1>1. TypeOK'
    BY <1>0, <1>9 DEF TypeOK, ControlOK, WorkerOK, Stages
  <1>2. ControlOK'
    BY <1>0, <1>9 DEF TypeOK, ControlOK, WorkerOK
  <1>3. ClaimsOK'
    BY DEF TypeOK, ControlOK, WorkerOK, ClaimsOK
  <1>4. LateOK'
    BY DEF TypeOK, ControlOK, WorkerOK, LateOK
  <1> QED
    BY <1>1, <1>2, <1>3, <1>4

LEMMA LookStep ==
    ASSUME IndInv, NEW w \in Workers, Look(w)
    PROVE  IndInv'
  <1> USE ConfirmationAssumption, MessageNotNone
          DEF IndInv, Look, HasExpired, Done, Goto, SetCopy, storeVars, tokenVars,
              workerVars, historyVars
  <1>1. TypeOK'
    BY DEF TypeOK, ControlOK, WorkerOK, Stages
  <1>2. ControlOK'
    BY DEF TypeOK, ControlOK, WorkerOK
  <1>3. ClaimsOK'
    BY DEF TypeOK, ControlOK, WorkerOK, ClaimsOK
  <1>4. LateOK'
    BY DEF TypeOK, ControlOK, WorkerOK, LateOK
  <1> QED
    BY <1>1, <1>2, <1>3, <1>4

LEMMA DiscardStep ==
    ASSUME IndInv, NEW w \in Workers, Discard(w)
    PROVE  IndInv'
  <1> USE ConfirmationAssumption, MessageNotNone
          DEF IndInv, Discard, Done, Goto, SetCopy, storeVars, tokenVars,
              workerVars, historyVars
  <1>1. TypeOK'
    BY DEF TypeOK, ControlOK, WorkerOK, Stages
  <1>2. ControlOK'
    BY DEF TypeOK, ControlOK, WorkerOK
  <1>3. ClaimsOK'
    BY DEF TypeOK, ControlOK, WorkerOK, ClaimsOK
  <1>4. LateOK'
    BY DEF TypeOK, ControlOK, WorkerOK, LateOK
  <1> QED
    BY <1>1, <1>2, <1>3, <1>4

LEMMA ConsumeStep ==
    ASSUME IndInv, NEW w \in Workers, Consume(w)
    PROVE  IndInv'
  <1> USE ConfirmationAssumption, MessageNotNone
          DEF IndInv, Consume, Done, Goto, SetCopy, storeVars, tokenVars,
              workerVars, historyVars
  <1>1. TypeOK'
    BY DEF TypeOK, ControlOK, WorkerOK, Stages
  <1>2. ControlOK'
    BY DEF TypeOK, ControlOK, WorkerOK
  <1>3. ClaimsOK'
    BY DEF TypeOK, ControlOK, WorkerOK, ClaimsOK
  <1>4. LateOK'
    BY DEF TypeOK, ControlOK, WorkerOK, LateOK
  <1> QED
    BY <1>1, <1>2, <1>3, <1>4

LEMMA SettleStep ==
    ASSUME IndInv, NEW w \in Workers, Settle(w)
    PROVE  IndInv'
  <1> USE ConfirmationAssumption, MessageNotNone
          DEF IndInv, Settle, ControlEvents, Done, Goto, SetCopy, storeVars, tokenVars,
              workerVars, historyVars
  <1>1. TypeOK'
    BY DEF TypeOK, ControlOK, WorkerOK, Stages
  <1>2. ControlOK'
    BY DEF TypeOK, ControlOK, WorkerOK
  <1>3. ClaimsOK'
    BY DEF TypeOK, ControlOK, WorkerOK, ClaimsOK
  <1>4. LateOK'
    BY DEF TypeOK, ControlOK, WorkerOK, LateOK
  <1> QED
    BY <1>1, <1>2, <1>3, <1>4

LEMMA ClaimStep ==
    ASSUME IndInv, NEW w \in Workers, Claim(w)
    PROVE  IndInv'
  <1> USE ConfirmationAssumption, MessageNotNone
          DEF IndInv, Claim, ClaimKey, Done, Goto, SetCopy, storeVars, tokenVars,
              workerVars, historyVars
  <1>1. TypeOK'
    BY DEF TypeOK, ControlOK, WorkerOK, Stages
  <1>2. ControlOK'
    BY DEF TypeOK, ControlOK, WorkerOK
  <1>3. ClaimsOK'
    BY DEF TypeOK, ControlOK, WorkerOK, ClaimsOK
  <1>4. LateOK'
    BY DEF TypeOK, ControlOK, WorkerOK, LateOK
  <1> QED
    BY <1>1, <1>2, <1>3, <1>4

LEMMA EvaluateStep ==
    ASSUME IndInv, NEW w \in Workers, Evaluate(w)
    PROVE  IndInv'
  <1> USE ConfirmationAssumption, MessageNotNone
          DEF IndInv, Evaluate, Done, Goto, SetCopy, storeVars, tokenVars,
              workerVars, historyVars
  <1>1. TypeOK'
    BY DEF TypeOK, ControlOK, WorkerOK, Stages
  <1>2. ControlOK'
    BY DEF TypeOK, ControlOK, WorkerOK
  <1>3. ClaimsOK'
    BY DEF TypeOK, ControlOK, WorkerOK, ClaimsOK
  <1>4. LateOK'
    BY DEF TypeOK, ControlOK, WorkerOK, LateOK
  <1> QED
    BY <1>1, <1>2, <1>3, <1>4

LEMMA MutateStep ==
    ASSUME IndInv, NEW w \in Workers, Mutate(w)
    PROVE  IndInv'
  <1> USE ConfirmationAssumption, MessageNotNone
          DEF IndInv, Mutate, Done, Goto, SetCopy, storeVars, tokenVars,
              workerVars, historyVars
  <1>1. TypeOK'
    BY DEF TypeOK, ControlOK, WorkerOK, Stages
  <1>2. ControlOK'
    BY DEF TypeOK, ControlOK, WorkerOK
  <1>3. ClaimsOK'
    BY DEF TypeOK, ControlOK, WorkerOK, ClaimsOK
  <1>4. LateOK'
    BY DEF TypeOK, ControlOK, WorkerOK, LateOK
  <1> QED
    BY <1>1, <1>2, <1>3, <1>4

-----------------------------------------------------------------------------
(* Messages, time and crashes.                                             *)

LEMMA ReceiveStep ==
    ASSUME IndInv, NEW w \in Workers, Receive(w)
    PROVE  IndInv'
  <1> USE ConfirmationAssumption, MessageNotNone
          DEF IndInv, Arrive, Goto, storeVars, tokenVars
  <1>1. PICK m \in Message :
            /\ Arrive(w, m)
            /\ pc[w] = "idle"
            /\ msg' = [msg EXCEPT ![w] = m]
            /\ m.late => m.intent = "confirm" /\ m.event \in expired
            /\ m.intent = "confirm" => m.event \in Tokens
            /\ \/ Goto(w, "index") /\ m.intent # "direct"
               \/ Goto(w, "claim") /\ m.event \in ControlEvents /\ ~m.late
            /\ wanted' \subseteq wanted \cup Tokens
    <2>1. CASE \E a \in Actors : ReceiveChat(w, a)
      BY <2>1 DEF ReceiveChat, Message, Intents
    <2>2. CASE \E a \in Actors, t \in Tokens : ReceiveConfirm(w, a, t)
      <3>1. PICK a \in Actors, t \in Tokens : ReceiveConfirm(w, a, t)
        BY <2>2
      <3> DEFINE m == [intent |-> "confirm", actor |-> a, event |-> t,
                       late |-> t \in expired, revoked |-> t \in told]
      <3>2. m \in Message
        BY DEF Message, Intents, ControlEvents
      <3>3. Arrive(w, m) /\ Goto(w, "index") /\ wanted' \subseteq wanted \cup Tokens
        BY <3>1 DEF ReceiveConfirm
      <3> QED
        BY <3>2, <3>3
    <2>3. CASE \E a \in Actors, d \in DirectIds : ReceiveDirect(w, a, d)
      BY <2>3 DEF ReceiveDirect, Message, Intents, ControlEvents
    <2> QED
      BY <2>1, <2>2, <2>3 DEF Receive
  <1>2. TypeOK'
    BY <1>1 DEF TypeOK, Stages
  <1>3. ControlOK'
    BY <1>1 DEF TypeOK, ControlOK, WorkerOK
  <1>4. ClaimsOK'
    BY <1>1 DEF TypeOK, ClaimsOK
  <1>5. LateOK'
    BY <1>1 DEF TypeOK, ControlOK, WorkerOK, LateOK
  <1> QED
    BY <1>2, <1>3, <1>4, <1>5

LEMMA CrashStep ==
    ASSUME IndInv, NEW w \in Workers, Crash(w)
    PROVE  IndInv'
  <1> USE ConfirmationAssumption, MessageNotNone
          DEF IndInv, Crash, Done, storeVars, tokenVars
  <1>1. TypeOK'
    BY DEF TypeOK, Stages
  <1>2. ControlOK'
    BY DEF TypeOK, ControlOK, WorkerOK
  <1>3. ClaimsOK'
    BY DEF TypeOK, ClaimsOK
  <1>4. LateOK'
    BY DEF TypeOK, LateOK
  <1> QED
    BY <1>1, <1>2, <1>3, <1>4

LEMMA TimeStep ==
    ASSUME IndInv, NEW t \in Tokens, Expire(t) \/ Purge(t)
    PROVE  IndInv'
  <1> USE DEF IndInv, Expire, Purge, storeVars, tokenVars, workerVars, historyVars
  <1>1. TypeOK'
    BY DEF TypeOK
  <1>2. ControlOK'
    BY DEF ControlOK, WorkerOK
  <1>3. ClaimsOK'
    BY DEF ClaimsOK
  <1>4. LateOK'
    BY DEF LateOK
  <1> QED
    BY <1>1, <1>2, <1>3, <1>4

LEMMA InitOK == Init => IndInv
  <1> SUFFICES ASSUME Init PROVE IndInv
    OBVIOUS
  <1> USE ConfirmationAssumption DEF Init
  <1>1. TypeOK
    BY DEF TypeOK, Stages
  <1>2. ControlOK /\ ClaimsOK /\ LateOK
    BY DEF ControlOK, WorkerOK, ClaimsOK, LateOK
  <1> QED
    BY <1>1, <1>2 DEF IndInv

LEMMA StutterOK ==
    ASSUME IndInv, UNCHANGED vars
    PROVE  IndInv'
  <1> USE DEF IndInv, vars, storeVars, tokenVars, workerVars, historyVars
  <1>1. TypeOK'
    BY DEF TypeOK
  <1>2. ControlOK'
    BY DEF ControlOK, WorkerOK
  <1>3. ClaimsOK' /\ LateOK'
    BY DEF ClaimsOK, LateOK
  <1> QED
    BY <1>1, <1>2, <1>3

\* The types are right, a claim is held by one worker until its action has run,
\* and late confirmations stop at the check of their token.
THEOREM Inductive == Spec => []IndInv
  <1>1. ASSUME IndInv, [Next]_vars PROVE IndInv'
    <2>1. ASSUME NEW w \in Workers, Handle(w) PROVE IndInv'
      BY <1>1, <2>1, ReadIndexStep, LoadStep, ResaveStep, CreateStep, BindStep,
         SaveStep, AnswerWithoutSaveStep, ClearStep, ProposeStep, LookStep,
         DiscardStep, ConsumeStep, SettleStep, ClaimStep, EvaluateStep,
         MutateStep DEF Handle
    <2> QED
      BY <1>1, <2>1, ReceiveStep, CrashStep, TimeStep, StutterOK DEF Next
  <1> QED
    BY <1>1, InitOK, PTL DEF Spec

\* Every variable of the confirmation protocol keeps its type.
THEOREM TypeCorrect == Spec => []TypeOK
  <1>1. IndInv => TypeOK
    BY DEF IndInv
  <1> QED
    BY <1>1, Inductive, PTL

\* No control event is carried out twice, whatever the workers interleave,
\* repeat or lose (consume_pending_control, authorize_and_record, _mutate).
THEOREM OnceOnly == Spec => []RunsOnce
  <1>1. IndInv => RunsOnce
    BY DEF IndInv, ClaimsOK, RunsOnce
  <1> QED
    BY <1>1, Inductive, PTL

\* No confirmation that arrives after its token has expired is carried out
\* (_handle_confirm).
THEOREM NeverLate == Spec => []ExpiredNeverRuns
  <1>1. IndInv => ExpiredNeverRuns
    BY DEF IndInv, LateOK, ExpiredNeverRuns
  <1> QED
    BY <1>1, Inductive, PTL

-----------------------------------------------------------------------------
(* A confirmation is not lost.                                             *)

\* The action of t has run, or it is on record why it has not.
Settled(t) == runs[t] = 1 \/ t \in denied \cup cancelled \cup expired \cup crashed

\* A worker has taken t and is on its way to the action.
TakenStages == {"settle", "claim", "evaluate", "mutate"}
Taken(t) == \E v \in Workers : pc[v] \in TakenStages /\ msg[v].event = t

\* A worker has claimed t.
Claimed(t) == \E v \in Workers : pc[v] \in {"evaluate", "mutate"} /\ msg[v].event = t

\* A worker is handling a confirmation of t by its requester.
ConfirmStages == {"index", "load", "resave", "create", "bind", "look", "consume"}
Confirming(t) ==
    \E v \in Workers : /\ pc[v] \in ConfirmStages /\ msg[v].event = t
                       /\ msg[v].intent = "confirm" /\ msg[v].actor = requester[t]

\* The record of a requested token stays until a worker takes it, or for a reason.
RecordsKept ==
    \A t \in Tokens :
        requester[t] # Nobody => t \in pending \/ Settled(t) \/ Taken(t)

\* A claimed token runs, or for a reason it does not.
ClaimsRun == \A t \in Tokens \cap claims : Settled(t) \/ Claimed(t)

\* A wanted token is settled, taken, or still on its way.
WantedKept ==
    \A t \in wanted :
        requester[t] # Nobody /\ (Settled(t) \/ Taken(t) \/ Confirming(t))

\* A worker that discards a token has seen that it has expired.
DiscardsExpired ==
    \A w \in Workers : pc[w] = "discard" => msg[w].event \in expired

\* ConfirmedRuns is about workers at rest; inductive is what it comes from: a
\* token is always somewhere, in its record, in a worker's hands, or settled.
KeptInv == RecordsKept /\ ClaimsRun /\ WantedKept /\ DiscardsExpired

\* What a step may do to a token: from its record to a worker's hands, from
\* there to the claim, and from anywhere to being settled.
Forward ==
    \A t \in Tokens :
        /\ Settled(t) => Settled(t)'
        /\ Taken(t) => Taken(t)' \/ Settled(t)'
        /\ Claimed(t) => Claimed(t)' \/ Settled(t)'
        /\ Confirming(t) => Confirming(t)' \/ Taken(t)' \/ Settled(t)'
        /\ t \in pending => t \in pending' \/ Taken(t)' \/ Settled(t)'
        /\ t \in claims' => t \in claims \/ Claimed(t)'

LEMMA ForwardKeeps ==
    ASSUME TypeOK, KeptInv, Forward, DiscardsExpired',
           requester' = requester,
           \A t \in wanted' : t \in wanted \/ (requester[t] # Nobody /\ Confirming(t)')
    PROVE  KeptInv'
  BY Zenon DEF KeptInv, RecordsKept, ClaimsRun, WantedKept, Forward, TypeOK

\* The other workers keep their stage and message.
Others(w) ==
    \A v \in Workers \ {w} : pc'[v] = pc[v] /\ msg'[v] = msg[v]

\* A worker that has taken nothing leaves what the others have taken.
LEMMA OthersCarry ==
    ASSUME NEW w \in Workers, Others(w), NEW t \in Tokens, pc[w] \notin TakenStages
    PROVE  /\ Taken(t) => Taken(t)'
           /\ Claimed(t) => Claimed(t)'
  BY DEF Others, Taken, Claimed, TakenStages

\* A confirmation is still on its way when the one that made it is.
LEMMA ConfirmingStays ==
    ASSUME NEW w \in Workers, Others(w), NEW t \in Tokens, requester' = requester,
           \/ pc[w] \notin ConfirmStages \/ msg[w].intent # "confirm" \/ msg[w].event # t
           \/ pc'[w] \in ConfirmStages /\ msg'[w] = msg[w]
    PROVE  Confirming(t) => Confirming(t)'
  BY DEF Others, Confirming

\* What is settled stays settled while no action runs.
LEMMA SettledStays ==
    ASSUME NEW t, runs' = runs, denied \subseteq denied', cancelled \subseteq cancelled',
           expired \subseteq expired', crashed \subseteq crashed'
    PROVE  Settled(t) => Settled(t)'
  BY DEF Settled

\* The stages before the engine looks at the token.
EarlyStep(w) ==
    \/ ReadIndex(w) \/ Load(w) \/ Resave(w) \/ Create(w) \/ Bind(w)
    \/ Save(w) \/ AnswerWithoutSave(w) \/ Clear(w)

LEMMA EarlyKept ==
    ASSUME IndInv, KeptInv, NEW w \in Workers, EarlyStep(w)
    PROVE  KeptInv'
  <1> USE DEF IndInv, EarlyStep
  <1>1. /\ runs' = runs /\ denied' = denied /\ expired' = expired /\ crashed' = crashed
        /\ requester' = requester /\ wanted' = wanted /\ claims' = claims
        /\ cancelled \subseteq cancelled' /\ pending \subseteq pending' \cup cancelled'
    BY DEF ReadIndex, Load, Resave, Create, Bind, Save, AnswerWithoutSave, Clear,
       storeVars, tokenVars, historyVars
  <1>2. /\ Others(w)
        /\ pc[w] \notin TakenStages /\ pc'[w] # "discard"
        /\ \/ pc[w] \notin ConfirmStages \/ msg[w].intent # "confirm"
           \/ pc'[w] \in ConfirmStages /\ msg'[w] = msg[w]
    <2>1. CASE ReadIndex(w) \/ Load(w) \/ Create(w)
      BY <2>1 DEF ReadIndex, Load, Create, Others, Goto, TypeOK, TakenStages, ConfirmStages
    <2>2. CASE Resave(w) \/ Bind(w)
      <3>1. \/ Done(w) /\ msg[w].intent = "cancel"
            \/ /\ UNCHANGED <<msg, session, copy>>
               /\ \/ msg[w].intent = "read" /\ Goto(w, "save")
                  \/ msg[w].intent = "cancel" /\ Goto(w, "clear")
                  \/ msg[w].intent = "request" /\ Goto(w, "propose")
                  \/ msg[w].intent = "confirm" /\ Goto(w, "look")
        <4>1. Begin(w) /\ pc[w] \in {"resave", "bind"}
          BY <2>2 DEF Resave, Bind
        <4>2. Done(w) => msg[w].intent = "cancel"
          BY <4>1 DEF Begin, FirstStage, Done, Goto, TypeOK, ControlOK, WorkerOK, Message, Intents
        <4> QED
          BY <4>1, <4>2, BeginEffect
      <3>2. pc[w] \in {"resave", "bind"}
        BY <2>2 DEF Resave, Bind
      <3> QED
        BY <3>1, <3>2 DEF Done, Others, Goto, TypeOK, TakenStages, ConfirmStages
    <2>3. CASE Save(w) \/ AnswerWithoutSave(w)
      BY <2>3 DEF Save, AnswerWithoutSave, Done, Others, TypeOK, TakenStages, ConfirmStages
    <2>4. CASE Clear(w)
      BY <2>4 DEF Clear, Goto, Others, TypeOK, TakenStages, ConfirmStages
    <2> QED
      BY <2>1, <2>2, <2>3, <2>4
  <1>3. DiscardsExpired'
    BY <1>1, <1>2 DEF KeptInv, DiscardsExpired, Others
  <1>4. Forward
    <2> SUFFICES ASSUME NEW t \in Tokens
                 PROVE  /\ Settled(t) => Settled(t)'
                        /\ Taken(t) => Taken(t)'
                        /\ Claimed(t) => Claimed(t)'
                        /\ Confirming(t) => Confirming(t)'
                        /\ t \in pending => t \in pending' \/ Settled(t)'
      BY <1>1, Zenon DEF Forward
    <2>1. t \in pending => t \in pending' \/ Settled(t)'
      BY <1>1 DEF Settled
    <2> QED
      BY <1>1, <1>2, <2>1, SettledStays, OthersCarry, ConfirmingStays
  <1> QED
    BY <1>1, <1>3, <1>4, ForwardKeeps

\* A new token has its record.
LEMMA ProposeKept ==
    ASSUME IndInv, KeptInv, NEW w \in Workers, Propose(w)
    PROVE  KeptInv'
  <1> USE DEF IndInv
  <1>1. PICK k \in Tokens :
            /\ requester[k] = Nobody
            /\ requester' = [requester EXCEPT ![k] = msg[w].actor]
            /\ pending' = pending \cup {k}
    BY DEF Propose
  <1>2. /\ runs' = runs /\ denied' = denied /\ cancelled' = cancelled
        /\ expired' = expired /\ crashed' = crashed /\ wanted' = wanted
        /\ claims' = claims /\ pc[w] = "propose" /\ pc'[w] = "save" /\ msg' = msg
        /\ Others(w)
    BY DEF Propose, historyVars, Goto, Others, TypeOK
  <1>3. ASSUME NEW t \in Tokens
        PROVE  /\ Settled(t)' = Settled(t)
               /\ Taken(t) => Taken(t)'
               /\ Claimed(t) => Claimed(t)'
               /\ t # k => requester'[t] = requester[t]
               /\ t # k /\ Confirming(t) => Confirming(t)'
    <2>1. Settled(t)' = Settled(t)
      BY <1>2 DEF Settled
    <2>2. (Taken(t) => Taken(t)') /\ (Claimed(t) => Claimed(t)')
      BY <1>2, OthersCarry DEF TakenStages
    <2>3. t # k => requester'[t] = requester[t]
      BY <1>1 DEF TypeOK
    <2>4. t # k /\ Confirming(t) => Confirming(t)'
      BY <1>2, <2>3 DEF Confirming, Others, ConfirmStages
    <2> QED
      BY <2>1, <2>2, <2>3, <2>4
  <1>4. RecordsKept'
    BY <1>1, <1>3 DEF KeptInv, RecordsKept
  <1>5. ClaimsRun'
    BY <1>2, <1>3 DEF KeptInv, ClaimsRun
  <1>6. k \notin wanted /\ wanted \subseteq Tokens
    BY <1>1 DEF KeptInv, WantedKept, TypeOK
  <1>7. WantedKept'
    BY <1>2, <1>3, <1>6 DEF KeptInv, WantedKept
  <1>8. DiscardsExpired'
    BY <1>2 DEF KeptInv, DiscardsExpired, Others
  <1> QED
    BY <1>4, <1>5, <1>7, <1>8 DEF KeptInv

\* Nothing of what a step keeps, when it only moves worker w.
LEMMA StoreKeptForward ==
    ASSUME KeptInv, NEW w \in Workers, Others(w), NEW t \in Tokens,
           requester' = requester,
           runs' = runs, denied \subseteq denied', cancelled \subseteq cancelled',
           expired \subseteq expired', crashed \subseteq crashed'
    PROVE  /\ Settled(t) => Settled(t)'
           /\ pc[w] \notin TakenStages =>
                  (Taken(t) => Taken(t)') /\ (Claimed(t) => Claimed(t)')
           /\ msg[w].event # t =>
                  /\ Taken(t) => Taken(t)'
                  /\ Claimed(t) => Claimed(t)'
                  /\ Confirming(t) => Confirming(t)'
           /\ pc[w] \notin ConfirmStages => (Confirming(t) => Confirming(t)')
  <1>1. Settled(t) => Settled(t)'
    BY SettledStays
  <1>2. msg[w].event # t => (Taken(t) => Taken(t)') /\ (Claimed(t) => Claimed(t)')
    BY DEF Others, Taken, Claimed
  <1> QED
    BY <1>1, <1>2, OthersCarry, ConfirmingStays

\* Only a token that was requested is confirmed by its requester.
LEMMA ConfirmingRequested ==
    ASSUME TypeOK, ControlOK, NEW t \in Tokens, Confirming(t)
    PROVE  requester[t] # Nobody
  <1>1. PICK v \in Workers : pc[v] \in ConfirmStages /\ msg[v].actor = requester[t]
    BY DEF Confirming
  <1>2. msg[v] \in Message
    BY <1>1 DEF TypeOK, ControlOK, WorkerOK, ConfirmStages
  <1> QED
    BY <1>1, <1>2, ConfirmationAssumption DEF Message

\* A worker that looks in vain finds the token settled or in other hands.
LEMMA LookKept ==
    ASSUME IndInv, KeptInv, NEW w \in Workers, Look(w)
    PROVE  KeptInv'
  <1> USE DEF IndInv
  <1>1. /\ runs' = runs /\ denied' = denied /\ cancelled' = cancelled
        /\ expired' = expired /\ crashed' = crashed /\ wanted' = wanted
        /\ claims' = claims /\ pending' = pending /\ requester' = requester
        /\ pc[w] = "look" /\ Others(w)
    BY DEF Look, storeVars, tokenVars, historyVars, Goto, Done, Others, TypeOK
  <1>2. DiscardsExpired'
    BY <1>1 DEF KeptInv, DiscardsExpired, Others, Look, HasExpired, Goto, Done, TypeOK
  <1>3. ASSUME NEW t \in Tokens, Confirming(t)
        PROVE  Confirming(t)' \/ Taken(t)' \/ Settled(t)'
    <2>1. CASE msg[w].event # t
      BY <1>1, <1>3, <2>1, StoreKeptForward
    <2>2. CASE msg[w].event = t
      <3>1. CASE t \in expired
        BY <1>1, <3>1 DEF Settled
      <3>2. CASE t \notin expired /\ Found(w) /\ requester[t] = msg[w].actor
        <4>1. pc'[w] = "consume" /\ msg'[w] = msg[w]
          BY <2>2, <3>2 DEF Look, HasExpired, Goto, TypeOK
        <4> QED
          BY <1>1, <1>3, <4>1, ConfirmingStays DEF ConfirmStages
      <3>3. CASE t \notin expired /\ Found(w) /\ requester[t] # msg[w].actor
        BY <1>1, <1>3, <3>3 DEF Confirming, Others
      <3>4. CASE ~Found(w)
        <4>1. t \notin pending
          BY <2>2, <3>4 DEF Found
        <4>2. requester[t] # Nobody
          BY <1>3, ConfirmingRequested
        <4>3. Settled(t) \/ Taken(t)
          BY <4>1, <4>2 DEF KeptInv, RecordsKept
        <4> QED
          BY <1>1, <4>3, StoreKeptForward DEF TakenStages
      <3> QED
        BY <3>1, <3>2, <3>3, <3>4
    <2> QED
      BY <2>1, <2>2
  <1>4. Forward
    BY <1>1, <1>3, StoreKeptForward DEF Forward, TakenStages
  <1> QED
    BY <1>1, <1>2, <1>4, ForwardKeeps

\* The token a worker discards has expired.
LEMMA DiscardKept ==
    ASSUME IndInv, KeptInv, NEW w \in Workers, Discard(w)
    PROVE  KeptInv'
  <1> USE DEF IndInv
  <1>1. /\ runs' = runs /\ denied' = denied /\ cancelled' = cancelled
        /\ expired' = expired /\ crashed' = crashed /\ wanted' = wanted
        /\ claims' = claims /\ pending' = pending \ {msg[w].event}
        /\ requester' = requester
        /\ pc[w] = "discard" /\ pc'[w] = "save" /\ Others(w)
        /\ msg[w].event \in expired
    BY DEF Discard, tokenVars, historyVars, Goto, Others, TypeOK, KeptInv, DiscardsExpired
  <1>2. DiscardsExpired'
    BY <1>1 DEF KeptInv, DiscardsExpired, Others
  <1>3. \A t \in Tokens : t \in pending => t \in pending' \/ Settled(t)'
    BY <1>1 DEF Settled
  <1>4. Forward
    BY <1>1, <1>3, StoreKeptForward DEF Forward, TakenStages, ConfirmStages
  <1> QED
    BY <1>1, <1>2, <1>4, ForwardKeeps

\* Of the workers that confirm a token the one that takes its record goes on.
LEMMA ConsumeKept ==
    ASSUME IndInv, KeptInv, NEW w \in Workers, Consume(w)
    PROVE  KeptInv'
  <1> USE DEF IndInv
  <1>1. /\ runs' = runs /\ denied' = denied /\ cancelled' = cancelled
        /\ expired' = expired /\ crashed' = crashed /\ wanted' = wanted
        /\ claims' = claims /\ pending' = pending \ {msg[w].event}
        /\ requester' = requester
        /\ pc[w] = "consume" /\ pc'[w] # "discard" /\ Others(w)
    BY DEF Consume, tokenVars, historyVars, Goto, Done, Others, TypeOK
  <1>2. DiscardsExpired'
    BY <1>1 DEF KeptInv, DiscardsExpired, Others
  <1>3. ASSUME NEW t \in Tokens, t = msg[w].event, Found(w)
        PROVE  Taken(t)'
    <2>1. pc'[w] = "settle" /\ msg'[w] = msg[w]
      BY <1>3 DEF Consume, Goto, TypeOK
    <2>2. msg'[w].event = t
      BY <1>3, <2>1
    <2> QED
      BY <2>1, <2>2 DEF Taken, TakenStages
  <1>4. ASSUME NEW t \in Tokens, t \in pending
        PROVE  t \in pending' \/ Taken(t)'
    <2>1. CASE t # msg[w].event
      BY <1>1, <1>4, <2>1
    <2>2. CASE t = msg[w].event
      BY <1>3, <1>4, <2>2 DEF Found
    <2> QED
      BY <2>1, <2>2
  <1>5. ASSUME NEW t \in Tokens, Confirming(t)
        PROVE  Confirming(t)' \/ Taken(t)' \/ Settled(t)'
    <2>1. CASE msg[w].event # t
      BY <1>1, <1>5, <2>1, StoreKeptForward
    <2>2. CASE msg[w].event = t /\ Found(w)
      BY <1>3, <2>2
    <2>3. CASE msg[w].event = t /\ ~Found(w)
      <3>1. t \notin pending /\ requester[t] # Nobody
        BY <1>5, <2>3, ConfirmingRequested DEF Found
      <3>2. Settled(t) \/ Taken(t)
        BY <3>1 DEF KeptInv, RecordsKept
      <3> QED
        BY <1>1, <3>2, StoreKeptForward DEF TakenStages
    <2> QED
      BY <2>1, <2>2, <2>3
  <1>6. Forward
    BY <1>1, <1>4, <1>5, StoreKeptForward DEF Forward, TakenStages
  <1> QED
    BY <1>1, <1>2, <1>6, ForwardKeeps

\* From the record to the claim, with the message in hand.
LEMMA SettleKept ==
    ASSUME IndInv, KeptInv, NEW w \in Workers, Settle(w)
    PROVE  KeptInv'
  <1> USE DEF IndInv
  <1>1. /\ runs' = runs /\ denied' = denied /\ cancelled' = cancelled
        /\ expired' = expired /\ crashed' = crashed /\ wanted' = wanted
        /\ claims' = claims /\ pending' = pending /\ requester' = requester
        /\ pc[w] = "settle" /\ pc'[w] = "claim" /\ msg' = msg /\ Others(w)
    BY DEF Settle, tokenVars, historyVars, Goto, Others, TypeOK
  <1>2. DiscardsExpired'
    BY <1>1 DEF KeptInv, DiscardsExpired, Others
  <1>3. \A t \in Tokens : /\ Taken(t) => Taken(t)'
                          /\ Claimed(t) => Claimed(t)'
    BY <1>1 DEF Taken, Claimed, TakenStages, Others
  <1>4. Forward
    BY <1>1, <1>3, StoreKeptForward DEF Forward, ConfirmStages
  <1> QED
    BY <1>1, <1>2, <1>4, ForwardKeeps

\* A worker that finds its token claimed leaves it to the one that has claimed it.
LEMMA ClaimKept ==
    ASSUME IndInv, KeptInv, NEW w \in Workers, Claim(w)
    PROVE  KeptInv'
  <1> USE DEF IndInv
  <1>1. /\ runs' = runs /\ denied' = denied /\ cancelled' = cancelled
        /\ expired' = expired /\ crashed' = crashed /\ wanted' = wanted
        /\ pending' = pending /\ requester' = requester
        /\ pc[w] = "claim" /\ pc'[w] # "discard" /\ Others(w)
    BY DEF Claim, tokenVars, historyVars, Goto, Done, Others, TypeOK
  <1>2. DiscardsExpired'
    BY <1>1 DEF KeptInv, DiscardsExpired, Others
  <1>3. \/ /\ claims' = claims \cup {msg[w].event}
           /\ pc'[w] = "evaluate" /\ msg' = msg
        \/ /\ msg[w].event \in claims /\ claims' = claims
    BY DEF Claim, ClaimKey, Goto, TypeOK
  <1>4. ASSUME NEW t \in Tokens, t \in claims'
        PROVE  t \in claims \/ Claimed(t)'
    BY <1>3, <1>4 DEF Claimed
  <1>5. ASSUME NEW t \in Tokens, Claimed(t)
        PROVE  Claimed(t)'
    BY <1>1, <1>5 DEF Claimed, Others
  <1>6. ASSUME NEW t \in Tokens, Taken(t)
        PROVE  Taken(t)' \/ Settled(t)'
    <2>1. CASE msg[w].event # t
      BY <1>1, <1>6, <2>1, StoreKeptForward
    <2>2. CASE msg[w].event = t /\ claims' = claims /\ t \in claims
      <3>1. Settled(t) \/ Claimed(t)
        BY <2>2 DEF KeptInv, ClaimsRun
      <3>2. Claimed(t)' => Taken(t)'
        BY DEF Claimed, Taken, TakenStages
      <3> QED
        BY <1>1, <1>5, <3>1, <3>2, SettledStays
    <2>3. CASE msg[w].event = t /\ pc'[w] = "evaluate" /\ msg' = msg
      BY <2>3 DEF Taken, TakenStages
    <2> QED
      BY <1>3, <2>1, <2>2, <2>3
  <1>7. Forward
    BY <1>1, <1>4, <1>5, <1>6, StoreKeptForward DEF Forward, ConfirmStages
  <1> QED
    BY <1>1, <1>2, <1>7, ForwardKeeps

\* The policy lets the action run or is on record as having refused it.
LEMMA EvaluateKept ==
    ASSUME IndInv, KeptInv, NEW w \in Workers, Evaluate(w)
    PROVE  KeptInv'
  <1> USE DEF IndInv
  <1>1. /\ runs' = runs /\ denied \subseteq denied' /\ cancelled' = cancelled
        /\ expired' = expired /\ crashed' = crashed /\ wanted' = wanted
        /\ claims' = claims /\ pending' = pending /\ requester' = requester
        /\ pc[w] = "evaluate" /\ pc'[w] # "discard" /\ Others(w)
    BY DEF Evaluate, storeVars, tokenVars, Goto, Done, Others, TypeOK
  <1>2. DiscardsExpired'
    BY <1>1 DEF KeptInv, DiscardsExpired, Others
  <1>3. (pc'[w] = "mutate" /\ msg' = msg) \/ msg[w].event \in denied'
    BY DEF Evaluate, Goto, TypeOK
  <1>4. ASSUME NEW t \in Tokens
        PROVE  /\ Taken(t) => Taken(t)' \/ Settled(t)'
               /\ Claimed(t) => Claimed(t)' \/ Settled(t)'
    <2>1. CASE msg[w].event # t
      BY <1>1, <2>1, StoreKeptForward
    <2>2. CASE msg[w].event = t /\ msg[w].event \in denied'
      BY <2>2 DEF Settled
    <2>3. CASE msg[w].event = t /\ pc'[w] = "mutate" /\ msg' = msg
      BY <2>3 DEF Taken, Claimed, TakenStages
    <2> QED
      BY <1>3, <2>1, <2>2, <2>3
  <1>5. Forward
    BY <1>1, <1>4, StoreKeptForward DEF Forward, ConfirmStages
  <1> QED
    BY <1>1, <1>2, <1>5, ForwardKeeps

\* The action runs.
LEMMA MutateKept ==
    ASSUME IndInv, KeptInv, NEW w \in Workers, Mutate(w)
    PROVE  KeptInv'
  <1> USE DEF IndInv
  <1>1. /\ denied' = denied /\ cancelled' = cancelled
        /\ expired' = expired /\ crashed' = crashed /\ wanted' = wanted
        /\ claims' = claims /\ pending' = pending /\ requester' = requester
        /\ pc[w] = "mutate" /\ pc'[w] # "discard" /\ Others(w)
    BY DEF Mutate, storeVars, tokenVars, Goto, Done, Others, TypeOK
  <1>2. DiscardsExpired'
    BY <1>1 DEF KeptInv, DiscardsExpired, Others
  <1>3. msg[w].event \in ControlEvents /\ runs[msg[w].event] = 0
    BY <1>1 DEF ControlOK, WorkerOK, ClaimsOK
  <1>4. /\ runs'[msg[w].event] = 1
        /\ \A t \in Tokens : t # msg[w].event => runs'[t] = runs[t]
    BY <1>3 DEF Mutate, TypeOK, ControlEvents
  <1>5. ASSUME NEW t \in Tokens
        PROVE  /\ Settled(t) => Settled(t)'
               /\ Taken(t) => Taken(t)' \/ Settled(t)'
               /\ Claimed(t) => Claimed(t)' \/ Settled(t)'
               /\ Confirming(t) => Confirming(t)'
    <2>1. CASE msg[w].event = t
      BY <1>1, <1>4, <2>1, ConfirmingStays DEF Settled, ConfirmStages
    <2>2. CASE msg[w].event # t
      <3>1. Settled(t) => Settled(t)'
        BY <1>1, <1>4, <2>2 DEF Settled
      <3>2. (Taken(t) => Taken(t)') /\ (Claimed(t) => Claimed(t)')
        BY <1>1, <2>2 DEF Taken, Claimed, Others
      <3> QED
        BY <1>1, <2>2, <3>1, <3>2, ConfirmingStays
    <2> QED
      BY <2>1, <2>2
  <1>6. Forward
    BY <1>1, <1>5, Zenon DEF Forward
  <1> QED
    BY <1>1, <1>2, <1>6, ForwardKeeps

\* A confirmation by the requester makes the token wanted and is on its way.
LEMMA ReceiveKept ==
    ASSUME IndInv, KeptInv, NEW w \in Workers, Receive(w)
    PROVE  KeptInv'
  <1> USE DEF IndInv
  <1>1. /\ runs' = runs /\ denied' = denied /\ cancelled' = cancelled
        /\ expired' = expired /\ crashed' = crashed
        /\ claims' = claims /\ pending' = pending /\ requester' = requester
        /\ pc[w] = "idle" /\ pc'[w] # "discard" /\ Others(w)
    BY DEF Receive, ReceiveChat, ReceiveConfirm, ReceiveDirect, Arrive, storeVars,
       tokenVars, Goto, Others, TypeOK
  <1>2. DiscardsExpired'
    BY <1>1 DEF KeptInv, DiscardsExpired, Others
  <1>3. Forward
    BY <1>1, StoreKeptForward DEF Forward, TakenStages, ConfirmStages
  <1>4. ASSUME NEW t \in wanted', t \notin wanted
        PROVE  requester[t] # Nobody /\ Confirming(t)'
    <2>1. PICK a \in Actors : ReceiveConfirm(w, a, t) /\ requester[t] = a /\ t \in Tokens
      BY <1>4 DEF Receive, ReceiveChat, ReceiveConfirm, ReceiveDirect
    <2>2. /\ pc'[w] = "index" /\ msg'[w].event = t
          /\ msg'[w].intent = "confirm" /\ msg'[w].actor = a
      BY <2>1 DEF ReceiveConfirm, Arrive, Goto, TypeOK
    <2> QED
      BY <1>1, <2>1, <2>2, ConfirmationAssumption DEF Confirming, ConfirmStages
  <1> QED
    BY <1>1, <1>2, <1>3, <1>4, ForwardKeeps

\* A crash is on record with what it cut short.
LEMMA CrashKept ==
    ASSUME IndInv, KeptInv, NEW w \in Workers, Crash(w)
    PROVE  KeptInv'
  <1> USE DEF IndInv
  <1>1. /\ runs' = runs /\ denied' = denied /\ cancelled' = cancelled
        /\ expired' = expired /\ crashed \subseteq crashed' /\ wanted' = wanted
        /\ claims' = claims /\ pending' = pending /\ requester' = requester
        /\ pc'[w] # "discard" /\ Others(w)
        /\ crashed' = crashed \cup ({msg[w].event} \cap ControlEvents)
    BY DEF Crash, storeVars, tokenVars, Done, Others, TypeOK
  <1>2. DiscardsExpired'
    BY <1>1 DEF KeptInv, DiscardsExpired, Others
  <1>3. ASSUME NEW t \in Tokens
        PROVE  /\ Taken(t) => Taken(t)' \/ Settled(t)'
               /\ Claimed(t) => Claimed(t)' \/ Settled(t)'
               /\ Confirming(t) => Confirming(t)' \/ Settled(t)'
    <2>1. CASE msg[w].event # t
      BY <1>1, <2>1, StoreKeptForward
    <2>2. CASE msg[w].event = t
      BY <1>1, <2>2 DEF Settled, ControlEvents
    <2> QED
      BY <2>1, <2>2
  <1>4. Forward
    BY <1>1, <1>3, SettledStays DEF Forward
  <1> QED
    BY <1>1, <1>2, <1>4, ForwardKeeps

\* Time only settles tokens.
LEMMA TimeKept ==
    ASSUME IndInv, KeptInv, NEW k \in Tokens, Expire(k) \/ Purge(k)
    PROVE  KeptInv'
  <1>1. /\ runs' = runs /\ denied' = denied /\ cancelled' = cancelled
        /\ expired \subseteq expired' /\ crashed' = crashed /\ wanted' = wanted
        /\ claims' = claims /\ pending \subseteq pending' \cup expired'
        /\ requester' = requester /\ pc' = pc /\ msg' = msg
    BY DEF Expire, Purge, storeVars, tokenVars, workerVars, historyVars
  <1>2. DiscardsExpired'
    BY <1>1 DEF KeptInv, DiscardsExpired
  <1>3. Forward
    BY <1>1 DEF Forward, Settled, Taken, Claimed, Confirming
  <1> QED
    BY <1>1, <1>2, <1>3, ForwardKeeps DEF IndInv

LEMMA StutterKept ==
    ASSUME KeptInv, UNCHANGED vars
    PROVE  KeptInv'
  BY DEF vars, storeVars, tokenVars, workerVars, historyVars, KeptInv, RecordsKept,
     ClaimsRun, WantedKept, DiscardsExpired, Settled, Taken, Claimed, Confirming

\* A confirmation is not lost: when every worker is at rest, a token that its
\* requester has confirmed has run, or was refused, cancelled, expired or in
\* the hands of a worker that crashed, whatever older copies of the session
\* other messages have written meanwhile (_handle_confirm,
\* consume_pending_control, authorize_and_record).
THEOREM NotLost == Spec => []ConfirmedRuns
  <1>1. Init => KeptInv
    BY DEF Init, KeptInv, RecordsKept, ClaimsRun, WantedKept, DiscardsExpired
  <1>2. IndInv /\ KeptInv /\ [Next]_vars => KeptInv'
    <2> SUFFICES ASSUME IndInv, KeptInv, [Next]_vars
                 PROVE  KeptInv'
      OBVIOUS
    <2>1. ASSUME NEW w \in Workers, Handle(w) PROVE KeptInv'
      BY <2>1, EarlyKept, ProposeKept, LookKept, DiscardKept, ConsumeKept,
         SettleKept, ClaimKept, EvaluateKept, MutateKept DEF Handle, EarlyStep
    <2> QED
      BY <2>1, ReceiveKept, CrashKept, TimeKept, StutterKept DEF Next
  <1>3. KeptInv => ConfirmedRuns
    <2> SUFFICES ASSUME KeptInv, \A w \in Workers : pc[w] = "idle", NEW t \in wanted
                 PROVE  Settled(t)
      BY DEF ConfirmedRuns, Settled
    <2> QED
      BY DEF KeptInv, WantedKept, Taken, Confirming, TakenStages, ConfirmStages
  <1> QED
    BY <1>1, <1>2, <1>3, Inductive, PTL DEF Spec

=============================================================================
