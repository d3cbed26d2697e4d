------------------------ MODULE AgentRuntime_proofs ------------------------
(***************************************************************************)
(* Proofs about AgentRuntime for any threads, requests, retries and calls. *)
(***************************************************************************)
EXTENDS AgentRuntime, TLAPS

\* What a thread's stage says of its call.
CallFits(t) ==
    /\ pc[t] \in {"send", "wait"} => call[t].action \in Actions \cup {"get", "poll"}
    /\ pc[t] \in {"invoke", "project"} => call[t].action \in Actions \cup {"get"}
    /\ pc[t] = "announce" => call[t].action \in Actions
    /\ pc[t] \in {"dedupe", "apply", "emit"} => call[t].action = "event"
    /\ pc[t] \in {"dedupe", "apply"} => call[t].n \in 1..Len(agentEvents)
    /\ pc[t] = "idle" => attempt[t] = 0
    /\ pc[t] = "send" => attempt[t] <= Retries
    /\ pc[t] # "wait" => reply[t] = NoReply

CallsFit == \A t \in Threads : CallFits(t)

\* The thread holds an answer that says the agent did what it was asked.
HoldsSuccess(t) ==
    /\ call[t].action \in Actions
    /\ \/ pc[t] \in {"project", "announce"}
       \/ pc[t] = "wait" /\ reply[t] # NoReply /\ reply[t].code = "ok"

\* Every success anyone holds, in a reply, in the cache or as an answer to the
\* caller, is of an action the agent has carried out.
SuccessHappened ==
    /\ AcknowledgedHappened
    /\ \A c \in cache : c[1] \in carried
    /\ \A t \in Threads : HoldsSuccess(t) => Key(t) \in carried

\* The thread is about to emit an event that is not in the log yet.
Emits(t) == pc[t] \in {"apply", "emit"}

\* Every event in the log or in the hands of a thread has been remembered, and
\* an event in a thread's hands is in nobody else's and not in the log.
OneHolder ==
    /\ EventsOnce
    /\ \A k \in DOMAIN log : log[k] \in seen
    /\ \A t \in Threads : Emits(t) =>
          call[t].n \in seen /\ \A k \in DOMAIN log : log[k] # call[t].n
    /\ \A t, u \in Threads :
          Emits(t) /\ Emits(u) /\ t # u => call[t].n # call[u].n

IndInv == TypeOK /\ CallsFit /\ SuccessHappened /\ OneHolder

-----------------------------------------------------------------------------
(* Lemmas on calls.                                                        *)

\* A control call names its request.
LEMMA KeyType ==
    ASSUME NEW c \in Calls, c.action \in Actions
    PROVE  c.req \in Requests
  BY DEF Calls, NoCall, Actions

\* A delivery names the number of its event.
LEMMA EventNumber ==
    ASSUME NEW c \in Calls, c.action = "event"
    PROVE  c.n \in Nat
  BY DEF Calls, NoCall, Actions

\* The calls threads start with.
LEMMA CallType ==
    /\ NoCall \in Calls /\ NoCall.action = "none"
    /\ \A key \in Keys : [action |-> key[1], req |-> key[2]] \in Calls
    /\ [action |-> "get"] \in Calls
    /\ [action |-> "poll"] \in Calls
    /\ \A n \in Nat : [action |-> "event", n |-> n] \in Calls
  BY DEF Calls, NoCall, Keys

\* The key of a control call in flight.
LEMMA KeyOfCall ==
    ASSUME TypeOK, NEW t \in Threads, call[t].action \in Actions
    PROVE  Key(t) \in Keys
  <1>1. call[t] \in Calls
    BY DEF TypeOK
  <1> QED
    BY <1>1, KeyType DEF Key, Keys

\* What the end of a call changes.
LEMMA DoneEffect ==
    ASSUME TypeOK, NEW t \in Threads, Done(t)
    PROVE  /\ pc' \in [Threads -> Stages] /\ call' \in [Threads -> Calls]
           /\ attempt' \in [Threads -> 0..(Retries + 1)]
           /\ data' \in [Threads -> Status] /\ items' \in [Threads -> SUBSET Nat]
           /\ pc'[t] = "idle" /\ call'[t] = NoCall /\ attempt'[t] = 0
           /\ \A u \in Threads \ {t} : /\ pc'[u] = pc[u] /\ call'[u] = call[u]
                                      /\ attempt'[u] = attempt[u]
  BY RuntimeAssumption, CallType DEF TypeOK, Done, Stages, Status

\* What a change of stage alone changes.
LEMMA GotoEffect ==
    ASSUME TypeOK, NEW t \in Threads, NEW stage \in Stages, Goto(t, stage)
    PROVE  /\ pc' \in [Threads -> Stages] /\ pc'[t] = stage
           /\ \A u \in Threads \ {t} : pc'[u] = pc[u]
  BY DEF TypeOK, Goto

\* What a move of the agent changes.
LEMMA ActsEffect ==
    ASSUME TypeOK, NEW key \in Keys, AgentActs(key)
    PROVE  /\ agent' \in Status /\ agentEvents' \in Seq(Status)
           /\ Len(agentEvents) \in Nat
           /\ Len(agentEvents') = Len(agentEvents) + 1
           /\ carried' = carried \cup {key} /\ carried' \subseteq Keys
  <1>1. Target[key[1]] \in Status
    BY DEF Keys, Actions, Target, Status
  <1> QED
    BY <1>1 DEF TypeOK, AgentActs, AgentMoves

\* A step of a thread that neither remembers nor emits an event, nor comes to
\* hold one, keeps every event in one pair of hands.
LEMMA OneHolderKept ==
    ASSUME OneHolder, NEW t \in Threads, UNCHANGED <<seen, log>>,
           pc'[t] \notin {"apply", "emit"},
           \A u \in Threads \ {t} : pc'[u] = pc[u] /\ call'[u] = call[u]
    PROVE  OneHolder'
  BY DEF OneHolder, EventsOnce, Emits

-----------------------------------------------------------------------------
(* Every step preserves the invariant.                                     *)

LEMMA AgentEndsStep ==
    ASSUME IndInv, AgentEnds
    PROVE  IndInv'
  <1> USE RuntimeAssumption, KeyType, EventNumber, CallType
          DEF IndInv, AgentEnds, AgentMoves, agentVars, netVars, hubVars, threadVars
  <1>1. TypeOK'
    BY DEF TypeOK, CallsFit, CallFits, Stages, Status, Reply
  <1>2. CallsFit'
    BY DEF TypeOK, CallsFit, CallFits, Actions, Keys
  <1>3. SuccessHappened'
    BY DEF TypeOK, CallsFit, CallFits, SuccessHappened, AcknowledgedHappened,
           HoldsSuccess, Key, Keys, CacheKey, Actions
  <1>4. OneHolder'
    BY DEF TypeOK, CallsFit, CallFits, OneHolder, EventsOnce, Emits
  <1> QED
    BY <1>1, <1>2, <1>3, <1>4

LEMMA StartControlStep ==
    ASSUME IndInv, NEW t \in Threads, StartControl(t)
    PROVE  IndInv'
  <1> USE RuntimeAssumption DEF IndInv, agentVars, netVars, hubVars, threadVars
  <1>0. PICK key \in Keys :
           /\ Enter(t, [action |-> key[1], req |-> key[2]])
           /\ \/ Goto(t, "invoke") /\ UNCHANGED data
              \/ Goto(t, "send") /\ UNCHANGED data
              \/ /\ Goto(t, "project")
                 /\ \E c \in cache : /\ c[1] = key
                                     /\ data' = [data EXCEPT ![t] = c[2]]
    BY DEF StartControl, CacheKey
  <1>1. key[1] \in Actions /\ key = <<key[1], key[2]>>
    BY DEF Keys
  <1>2. /\ pc[t] = "idle" /\ calls' = calls + 1
        /\ UNCHANGED <<adapter, agent, agentEvents, carried, reply, late, cache,
                       shown, seen, log, attempt, items, acked>>
        /\ call' \in [Threads -> Calls]
        /\ call'[t].action = key[1] /\ Key(t)' = key
        /\ \A u \in Threads \ {t} : call'[u] = call[u]
    BY <1>0, <1>1, CallType DEF Enter, TypeOK, Key
  <1> DEFINE Started ==
        /\ pc' \in [Threads -> Stages]
        /\ pc'[t] \in {"invoke", "send", "project"}
        /\ \A u \in Threads \ {t} : pc'[u] = pc[u]
        /\ data' \in [Threads -> Status]
        /\ pc'[t] = "project" => key \in carried
  <1>3. Started
    <2>1. CASE Goto(t, "invoke") /\ UNCHANGED data
      BY <2>1, GotoEffect DEF TypeOK, Stages
    <2>2. CASE Goto(t, "send") /\ UNCHANGED data
      BY <2>2, GotoEffect DEF TypeOK, Stages
    <2>3. ASSUME Goto(t, "project"), NEW c \in cache, c[1] = key,
                 data' = [data EXCEPT ![t] = c[2]]
          PROVE  Started
      BY <2>3, GotoEffect DEF TypeOK, Stages, SuccessHappened
    <2> QED
      BY <1>0, <2>1, <2>2, <2>3
  <1>4. TypeOK'
    BY <1>2, <1>3 DEF TypeOK
  <1>5. CallsFit'
    BY <1>1, <1>2, <1>3 DEF TypeOK, CallsFit, CallFits, Actions
  <1>6. SuccessHappened'
    BY <1>2, <1>3 DEF SuccessHappened, AcknowledgedHappened, HoldsSuccess, Key
  <1>7. OneHolder'
    BY <1>2, <1>3, OneHolderKept
  <1> QED
    BY <1>4, <1>5, <1>6, <1>7

LEMMA StartGetStep ==
    ASSUME IndInv, NEW t \in Threads, StartGet(t)
    PROVE  IndInv'
  <1> USE RuntimeAssumption, KeyType, EventNumber, CallType
          DEF IndInv, StartGet, Enter, Goto, agentVars, netVars, hubVars, threadVars
  <1>1. TypeOK'
    BY DEF TypeOK, CallsFit, CallFits, Stages, Status, Reply
  <1>2. CallsFit'
    BY DEF TypeOK, CallsFit, CallFits, Actions, Keys
  <1>3. SuccessHappened'
    BY DEF TypeOK, CallsFit, CallFits, SuccessHappened, AcknowledgedHappened,
           HoldsSuccess, Key, Keys, CacheKey, Actions
  <1>4. OneHolder'
    BY DEF TypeOK, CallsFit, CallFits, OneHolder, EventsOnce, Emits
  <1> QED
    BY <1>1, <1>2, <1>3, <1>4

LEMMA StartPollStep ==
    ASSUME IndInv, NEW t \in Threads, StartPoll(t)
    PROVE  IndInv'
  <1> USE RuntimeAssumption, KeyType, EventNumber, CallType
          DEF IndInv, StartPoll, Enter, Goto, agentVars, netVars, hubVars, threadVars
  <1>1. TypeOK'
    BY DEF TypeOK, CallsFit, CallFits, Stages, Status, Reply
  <1>2. CallsFit'
    BY DEF TypeOK, CallsFit, CallFits, Actions, Keys
  <1>3. SuccessHappened'
    BY DEF TypeOK, CallsFit, CallFits, SuccessHappened, AcknowledgedHappened,
           HoldsSuccess, Key, Keys, CacheKey, Actions
  <1>4. OneHolder'
    BY DEF TypeOK, CallsFit, CallFits, OneHolder, EventsOnce, Emits
  <1> QED
    BY <1>1, <1>2, <1>3, <1>4

LEMMA StartEventStep ==
    ASSUME IndInv, NEW t \in Threads, StartEvent(t)
    PROVE  IndInv'
  <1> USE RuntimeAssumption, KeyType, EventNumber, CallType
          DEF IndInv, StartEvent, Enter, Goto, agentVars, netVars, hubVars, threadVars
  <1>1. TypeOK'
    BY DEF TypeOK, CallsFit, CallFits, Stages, Status, Reply
  <1>2. CallsFit'
    BY DEF TypeOK, CallsFit, CallFits, Actions, Keys
  <1>3. SuccessHappened'
    BY DEF TypeOK, CallsFit, CallFits, SuccessHappened, AcknowledgedHappened,
           HoldsSuccess, Key, Keys, CacheKey, Actions
  <1>4. OneHolder'
    BY DEF TypeOK, CallsFit, CallFits, OneHolder, EventsOnce, Emits
  <1> QED
    BY <1>1, <1>2, <1>3, <1>4

LEMMA SendStep ==
    ASSUME IndInv, NEW t \in Threads, Send(t)
    PROVE  IndInv'
  <1> USE RuntimeAssumption, KeyType, EventNumber, CallType
          DEF IndInv, Send, Goto, agentVars, netVars, hubVars, threadVars
  <1>1. TypeOK'
    <2>1. attempt[t] + 1 \in 0..(Retries + 1)
      BY DEF TypeOK, CallsFit, CallFits
    <2>2. attempt' \in [Threads -> 0..(Retries + 1)]
      BY <2>1 DEF TypeOK
    <2> QED
      BY <2>2 DEF TypeOK, Stages
  <1>2. CallsFit'
    BY DEF TypeOK, CallsFit, CallFits, Actions, Keys
  <1>3. SuccessHappened'
    BY DEF TypeOK, CallsFit, CallFits, SuccessHappened, AcknowledgedHappened,
           HoldsSuccess, Key, Keys, CacheKey, Actions
  <1>4. OneHolder'
    BY DEF TypeOK, CallsFit, CallFits, OneHolder, EventsOnce, Emits
  <1> QED
    BY <1>1, <1>2, <1>3, <1>4

LEMMA AgentServesStep ==
    ASSUME IndInv, NEW t \in Threads, AgentServes(t)
    PROVE  IndInv'
  <1> USE RuntimeAssumption DEF IndInv, hubVars, threadVars
  <1>1. /\ pc[t] = "wait" /\ reply[t] = NoReply
        /\ UNCHANGED <<adapter, late, cache, shown, seen, log, pc, call, attempt,
                       data, items, acked, calls>>
    BY DEF AgentServes
  <1>2. /\ agent' \in Status /\ agentEvents' \in Seq(Status)
        /\ Len(agentEvents) \in Nat /\ Len(agentEvents') \in Nat
        /\ Len(agentEvents') >= Len(agentEvents)
        /\ carried \subseteq carried' /\ carried' \subseteq Keys
    <2>1. CASE call[t].action \in Actions /\ AgentActs(Key(t))
      BY <2>1, ActsEffect, KeyOfCall
    <2>2. CASE UNCHANGED agentVars
      BY <2>2 DEF TypeOK, agentVars
    <2> QED
      BY <2>1, <2>2 DEF AgentServes
  <1>3. /\ reply' \in [Threads -> Reply \cup {NoReply}]
        /\ \A u \in Threads \ {t} : reply'[u] = reply[u]
    <2>1. \E r \in Reply : reply' = [reply EXCEPT ![t] = r]
      BY <1>2 DEF AgentServes, Answer, AnswerOk, Reply
    <2> QED
      BY <2>1 DEF TypeOK
  <1>4. call[t].action \in Actions /\ reply'[t].code = "ok" => Key(t) \in carried'
    <2>1. CASE call[t].action \in Actions /\ AgentActs(Key(t))
      BY <2>1, ActsEffect, KeyOfCall
    <2>2. CASE reply' = [reply EXCEPT ![t] = [code |-> "refused"]]
      BY <2>2 DEF TypeOK
    <2>3. CASE reply' = [reply EXCEPT ![t] = [code |-> "error"]]
      BY <2>3 DEF TypeOK
    <2>4. CASE call[t].action \in {"get", "poll"}
      BY <2>4 DEF Actions
    <2> QED
      BY <2>1, <2>2, <2>3, <2>4 DEF AgentServes, Answer
  <1>5. TypeOK'
    BY <1>1, <1>2, <1>3 DEF TypeOK
  <1>6. CallsFit'
    BY <1>1, <1>2, <1>3 DEF CallsFit, CallFits
  <1>7. SuccessHappened'
    BY <1>1, <1>2, <1>3, <1>4 DEF SuccessHappened, AcknowledgedHappened,
       HoldsSuccess, Key
  <1>8. OneHolder'
    BY <1>1 DEF OneHolder, EventsOnce, Emits
  <1> QED
    BY <1>5, <1>6, <1>7, <1>8

LEMMA AgentServesLateStep ==
    ASSUME IndInv, NEW key \in Keys, AgentServesLate(key)
    PROVE  IndInv'
  <1> USE RuntimeAssumption, KeyType, EventNumber, CallType
          DEF IndInv, AgentServesLate, agentVars, netVars, hubVars, threadVars
  <1>a. /\ agent' \in Status /\ agentEvents' \in Seq(Status)
        /\ Len(agentEvents) \in Nat /\ Len(agentEvents') \in Nat
        /\ Len(agentEvents') >= Len(agentEvents)
        /\ carried \subseteq carried' /\ carried' \subseteq Keys
    BY ActsEffect DEF TypeOK
  <1>1. TypeOK'
    BY <1>a DEF TypeOK, CallsFit, CallFits, Stages, Status, Reply
  <1>2. CallsFit'
    BY <1>a DEF TypeOK, CallsFit, CallFits, Actions, Keys
  <1>3. SuccessHappened'
    BY <1>a DEF TypeOK, CallsFit, CallFits, SuccessHappened, AcknowledgedHappened,
           HoldsSuccess, Key, Keys, CacheKey, Actions
  <1>4. OneHolder'
    BY DEF TypeOK, CallsFit, CallFits, OneHolder, EventsOnce, Emits
  <1> QED
    BY <1>1, <1>2, <1>3, <1>4

LEMMA TimeoutStep ==
    ASSUME IndInv, NEW t \in Threads, Timeout(t)
    PROVE  IndInv'
  <1> USE RuntimeAssumption, KeyType, EventNumber, CallType
          DEF IndInv, Timeout, TimesOut, Retry, agentVars, netVars, hubVars, threadVars
  <1>0. /\ pc' \in [Threads -> Stages] /\ call' \in [Threads -> Calls]
        /\ attempt' \in [Threads -> 0..(Retries + 1)]
        /\ data' \in [Threads -> Status] /\ items' \in [Threads -> SUBSET Nat]
        /\ \A u \in Threads \ {t} : /\ pc'[u] = pc[u] /\ call'[u] = call[u]
                                   /\ attempt'[u] = attempt[u]
        /\ \/ /\ pc'[t] = "send" /\ call'[t] = call[t]
              /\ attempt'[t] = attempt[t] /\ attempt[t] <= Retries
           \/ pc'[t] = "idle" /\ attempt'[t] = 0
    BY DoneEffect, GotoEffect DEF TypeOK, Stages
  <1>a. late' \in [Keys -> Nat]
    BY KeyOfCall DEF TypeOK
  <1>1. TypeOK'
    BY <1>0, <1>a DEF TypeOK, CallsFit, CallFits, Stages, Status, Reply
  <1>2. CallsFit'
    <2>0. /\ pc[t] = "wait" /\ agentEvents' = agentEvents
          /\ reply'[t] = NoReply
          /\ \A u \in Threads \ {t} : reply'[u] = reply[u]
          /\ CallFits(t) /\ \A u \in Threads \ {t} : CallFits(u)
      BY DEF TypeOK, CallsFit
    <2> HIDE DEF IndInv, Timeout, TimesOut, Retry
    <2>1. CallFits(t)'
      BY <1>0, <2>0 DEF CallFits
    <2>2. ASSUME NEW u \in Threads \ {t}
          PROVE  CallFits(u)'
      <3>1. /\ pc'[u] = pc[u] /\ call'[u] = call[u] /\ attempt'[u] = attempt[u]
            /\ reply'[u] = reply[u] /\ agentEvents' = agentEvents /\ CallFits(u)
        BY <1>0, <2>0
      <3> QED
        BY ONLY <3>1 DEF CallFits
    <2> QED
      BY <2>1, <2>2 DEF CallsFit
  <1>3. SuccessHappened'
    BY <1>0 DEF TypeOK, CallsFit, CallFits, SuccessHappened, AcknowledgedHappened,
           HoldsSuccess, Key, Keys, CacheKey, Actions
  <1>4. OneHolder'
    BY <1>0, OneHolderKept DEF TypeOK
  <1> QED
    BY <1>1, <1>2, <1>3, <1>4

LEMMA ServerErrorStep ==
    ASSUME IndInv, NEW t \in Threads, ServerError(t)
    PROVE  IndInv'
  <1> USE RuntimeAssumption, KeyType, EventNumber, CallType
          DEF IndInv, ServerError, Retry, agentVars, netVars, hubVars, threadVars
  <1>0. /\ pc' \in [Threads -> Stages] /\ call' \in [Threads -> Calls]
        /\ attempt' \in [Threads -> 0..(Retries + 1)]
        /\ data' \in [Threads -> Status] /\ items' \in [Threads -> SUBSET Nat]
        /\ \A u \in Threads \ {t} : /\ pc'[u] = pc[u] /\ call'[u] = call[u]
                                   /\ attempt'[u] = attempt[u]
        /\ \/ /\ pc'[t] = "send" /\ call'[t] = call[t]
              /\ attempt'[t] = attempt[t] /\ attempt[t] <= Retries
           \/ pc'[t] = "idle" /\ attempt'[t] = 0
    BY DoneEffect, GotoEffect DEF TypeOK, Stages
  <1>1. TypeOK'
    BY <1>0 DEF TypeOK, CallsFit, CallFits, Stages, Status, Reply
  <1>2. CallsFit'
    <2>0. /\ pc[t] = "wait" /\ agentEvents' = agentEvents
          /\ reply'[t] = NoReply
          /\ \A u \in Threads \ {t} : reply'[u] = reply[u]
          /\ CallFits(t) /\ \A u \in Threads \ {t} : CallFits(u)
      BY DEF TypeOK, CallsFit
    <2> HIDE DEF IndInv, ServerError, Retry
    <2>1. CallFits(t)'
      BY <1>0, <2>0 DEF CallFits
    <2>2. ASSUME NEW u \in Threads \ {t}
          PROVE  CallFits(u)'
      <3>1. /\ pc'[u] = pc[u] /\ call'[u] = call[u] /\ attempt'[u] = attempt[u]
            /\ reply'[u] = reply[u] /\ agentEvents' = agentEvents /\ CallFits(u)
        BY <1>0, <2>0
      <3> QED
        BY ONLY <3>1 DEF CallFits
    <2> QED
      BY <2>1, <2>2 DEF CallsFit
  <1>3. SuccessHappened'
    BY <1>0 DEF TypeOK, CallsFit, CallFits, SuccessHappened, AcknowledgedHappened,
           HoldsSuccess, Key, Keys, CacheKey, Actions
  <1>4. OneHolder'
    BY <1>0, OneHolderKept DEF TypeOK
  <1> QED
    BY <1>1, <1>2, <1>3, <1>4

LEMMA RefusedStep ==
    ASSUME IndInv, NEW t \in Threads, Refused(t)
    PROVE  IndInv'
  <1> USE RuntimeAssumption, KeyType, EventNumber, CallType
          DEF IndInv, Refused, Done, agentVars, netVars, hubVars, threadVars
  <1>1. TypeOK'
    BY DEF TypeOK, CallsFit, CallFits, Stages, Status, Reply
  <1>2. CallsFit'
    BY DEF TypeOK, CallsFit, CallFits, Actions, Keys
  <1>3. SuccessHappened'
    BY DEF TypeOK, CallsFit, CallFits, SuccessHappened, AcknowledgedHappened,
           HoldsSuccess, Key, Keys, CacheKey, Actions
  <1>4. OneHolder'
    BY DEF TypeOK, CallsFit, CallFits, OneHolder, EventsOnce, Emits
  <1> QED
    BY <1>1, <1>2, <1>3, <1>4

LEMMA AcceptedStep ==
    ASSUME IndInv, NEW t \in Threads, Accepted(t)
    PROVE  IndInv'
  <1> USE RuntimeAssumption, KeyType, EventNumber, CallType
          DEF IndInv, Accepted, Goto, agentVars, netVars, hubVars, threadVars
  <1>0. reply[t].status \in Status /\ reply[t].events \in Nat
    BY DEF TypeOK, Reply
  <1>a. cache' \subseteq Keys \X Status
    BY <1>0, KeyOfCall DEF TypeOK, CacheKey
  <1>b. items' \in [Threads -> SUBSET Nat]
    BY <1>0 DEF TypeOK
  <1>1. TypeOK'
    BY <1>0, <1>a, <1>b DEF TypeOK, CallsFit, CallFits, Stages, Status, Reply
  <1>2. CallsFit'
    BY DEF TypeOK, CallsFit, CallFits, Actions, Keys
  <1>3. SuccessHappened'
    BY DEF TypeOK, CallsFit, CallFits, SuccessHappened, AcknowledgedHappened,
           HoldsSuccess, Key, Keys, CacheKey, Actions
  <1>4. OneHolder'
    BY DEF TypeOK, CallsFit, CallFits, OneHolder, EventsOnce, Emits
  <1> QED
    BY <1>1, <1>2, <1>3, <1>4

LEMMA InvokeStep ==
    ASSUME IndInv, NEW t \in Threads, Invoke(t)
    PROVE  IndInv'
  <1> USE RuntimeAssumption, KeyType, EventNumber, CallType
          DEF IndInv, Invoke, agentVars, netVars, hubVars, threadVars
  <1>0. \/ call[t].action \in Actions /\ AgentActs(Key(t))
        \/ UNCHANGED <<agent, agentEvents, carried>>
    OBVIOUS
  <1>a. /\ agent' \in Status /\ agentEvents' \in Seq(Status)
        /\ Len(agentEvents) \in Nat /\ Len(agentEvents') \in Nat
        /\ Len(agentEvents') >= Len(agentEvents)
        /\ carried \subseteq carried' /\ carried' \subseteq Keys
    <2>1. CASE call[t].action \in Actions /\ AgentActs(Key(t))
      <3>1. Key(t) \in Keys
        BY <2>1, KeyOfCall
      <3> QED
        BY <2>1, <3>1, ActsEffect
    <2>2. CASE UNCHANGED <<agent, agentEvents, carried>>
      BY <2>2 DEF TypeOK
    <2> QED
      BY <1>0, <2>1, <2>2
  <1> DEFINE Invoked ==
        /\ pc' \in [Threads -> Stages] /\ call' \in [Threads -> Calls]
        /\ attempt' \in [Threads -> 0..(Retries + 1)]
        /\ data' \in [Threads -> Status] /\ items' \in [Threads -> SUBSET Nat]
        /\ \A u \in Threads \ {t} : /\ pc'[u] = pc[u] /\ call'[u] = call[u]
                                   /\ attempt'[u] = attempt[u]
        /\ \/ /\ pc'[t] = "project" /\ call'[t] = call[t]
              /\ call[t].action \in Actions => Key(t) \in carried'
           \/ pc'[t] = "idle" /\ attempt'[t] = 0 /\ call'[t] = NoCall
  <1>b. Invoked
    <2>1. CASE Done(t)
      BY <2>1, DoneEffect
    <2>2. ASSUME AgentActs(Key(t)), call[t].action \in Actions,
                 data' = [data EXCEPT ![t] = agent'],
                 Goto(t, "project"), UNCHANGED <<call, attempt, items>>
          PROVE  Invoked
      <3>1. Key(t) \in carried'
        BY <2>2, ActsEffect, KeyOfCall
      <3>2. data' \in [Threads -> Status]
        BY <1>a, <2>2 DEF TypeOK
      <3>3. /\ pc' \in [Threads -> Stages] /\ pc'[t] = "project"
            /\ \A u \in Threads \ {t} : pc'[u] = pc[u]
        BY <2>2, GotoEffect DEF Stages
      <3> QED
        BY <2>2, <3>1, <3>2, <3>3 DEF TypeOK
    <2>3. ASSUME call[t].action = "get",
                 data' = [data EXCEPT ![t] = agent],
                 Goto(t, "project"), UNCHANGED <<call, attempt, items>>
          PROVE  Invoked
      BY <2>3, GotoEffect DEF TypeOK, Stages, Actions
    <2> QED
      BY <2>1, <2>2, <2>3
  <1>1. TypeOK'
    BY <1>a, <1>b DEF TypeOK, CallsFit, CallFits, Stages, Status, Reply
  <1>2. CallsFit'
    BY <1>a, <1>b DEF TypeOK, CallsFit, CallFits, Actions, Keys
  <1>3. SuccessHappened'
    BY <1>a, <1>b DEF TypeOK, CallsFit, CallFits, SuccessHappened, AcknowledgedHappened,
           HoldsSuccess, Key, Keys, CacheKey, Actions
  <1>4. OneHolder'
    BY <1>b, OneHolderKept DEF TypeOK
  <1> QED
    BY <1>1, <1>2, <1>3, <1>4

LEMMA ProjectStep ==
    ASSUME IndInv, NEW t \in Threads, Project(t)
    PROVE  IndInv'
  <1> USE RuntimeAssumption, KeyType, EventNumber, CallType
          DEF IndInv, Project, agentVars, netVars, hubVars, threadVars
  <1>0. /\ pc' \in [Threads -> Stages] /\ call' \in [Threads -> Calls]
        /\ attempt' \in [Threads -> 0..(Retries + 1)]
        /\ data' \in [Threads -> Status] /\ items' \in [Threads -> SUBSET Nat]
        /\ \A u \in Threads \ {t} : /\ pc'[u] = pc[u] /\ call'[u] = call[u]
                                   /\ attempt'[u] = attempt[u]
        /\ \/ /\ pc'[t] = "announce" /\ call'[t] = call[t]
              /\ call[t].action \in Actions
           \/ pc'[t] = "idle" /\ attempt'[t] = 0 /\ call'[t] = NoCall
    BY DoneEffect, GotoEffect DEF TypeOK, Stages
  <1>a. /\ acked' \subseteq acked \cup {Key(t)}
        /\ acked' = acked \/ call[t].action \in Actions
    OBVIOUS
  <1>b. acked' \subseteq Keys
    BY <1>a, KeyOfCall DEF TypeOK
  <1>1. TypeOK'
    BY <1>0, <1>b DEF TypeOK, CallsFit, CallFits, Stages, Status, Reply
  <1>2. CallsFit'
    BY <1>0 DEF TypeOK, CallsFit, CallFits, Actions, Keys
  <1>3. SuccessHappened'
    BY <1>0, <1>a DEF TypeOK, CallsFit, CallFits, SuccessHappened, AcknowledgedHappened,
           HoldsSuccess, Key, Keys, CacheKey, Actions
  <1>4. OneHolder'
    BY <1>0, OneHolderKept DEF TypeOK
  <1> QED
    BY <1>1, <1>2, <1>3, <1>4

LEMMA AnnounceStep ==
    ASSUME IndInv, NEW t \in Threads, Announce(t)
    PROVE  IndInv'
  <1> USE RuntimeAssumption, KeyType, EventNumber, CallType
          DEF IndInv, Announce, agentVars, netVars, hubVars, threadVars
  <1>0. Key(t) \in Keys
    BY KeyOfCall DEF CallsFit, CallFits
  <1>a. /\ pc' \in [Threads -> Stages] /\ call' \in [Threads -> Calls]
        /\ attempt' \in [Threads -> 0..(Retries + 1)]
        /\ data' \in [Threads -> Status] /\ items' \in [Threads -> SUBSET Nat]
        /\ pc'[t] = "idle" /\ call'[t] = NoCall /\ attempt'[t] = 0
        /\ \A u \in Threads \ {t} : /\ pc'[u] = pc[u] /\ call'[u] = call[u]
                                   /\ attempt'[u] = attempt[u]
    BY DoneEffect
  <1>1. TypeOK'
    BY <1>0, <1>a DEF TypeOK, CallsFit, CallFits, Stages, Status, Reply
  <1>2. CallsFit'
    BY <1>a DEF TypeOK, CallsFit, CallFits, Actions, Keys
  <1>3. SuccessHappened'
    BY <1>a DEF TypeOK, CallsFit, CallFits, SuccessHappened, AcknowledgedHappened,
           HoldsSuccess, Key, Keys, CacheKey, Actions
  <1>4. OneHolder'
    BY <1>a, OneHolderKept DEF TypeOK
  <1> QED
    BY <1>1, <1>2, <1>3, <1>4

LEMMA RememberStep ==
    ASSUME IndInv, NEW t \in Threads, Remember(t)
    PROVE  IndInv'
  <1> USE RuntimeAssumption, KeyType, EventNumber, CallType
          DEF IndInv, agentVars, netVars, hubVars, threadVars
  <1>a. /\ pc[t] = "remember"
        /\ UNCHANGED <<adapter, agent, agentEvents, carried, reply, late, cache,
                       shown, log, acked, calls>>
    BY DEF Remember
  <1>1. CASE Done(t) /\ UNCHANGED seen
    <2>1. TypeOK'
      BY <1>a, <1>1, DoneEffect DEF TypeOK
    <2>2. CallsFit'
      BY <1>a, <1>1, DoneEffect DEF TypeOK, CallsFit, CallFits, Actions
    <2>3. SuccessHappened'
      BY <1>a, <1>1, DoneEffect DEF TypeOK, SuccessHappened, AcknowledgedHappened,
         HoldsSuccess, Key
    <2>4. OneHolder'
      BY <1>a, <1>1, DoneEffect, OneHolderKept
    <2> QED
      BY <2>1, <2>2, <2>3, <2>4
  <1>2. ASSUME NEW n \in items[t], IsNew(n), seen' = Remembered(t, n),
               call' = [call EXCEPT ![t] = [action |-> "event", n |-> n]],
               Goto(t, "emit"), items' = [items EXCEPT ![t] = @ \ {n}],
               UNCHANGED <<attempt, data>>
        PROVE  IndInv'
    <2>0. n \in Nat
      BY DEF TypeOK
    <2>a. /\ pc'[t] = "emit" /\ call'[t].action = "event" /\ call'[t].n = n
          /\ \A u \in Threads \ {t} : pc'[u] = pc[u] /\ call'[u] = call[u]
      BY <1>2 DEF Goto, TypeOK
    <2>1. TypeOK'
      BY <1>a, <1>2, <2>0 DEF TypeOK, Goto, Stages, Remembered
    <2>2. CallsFit'
      BY <1>a, <1>2, <2>a DEF TypeOK, CallsFit, CallFits
    <2>3. SuccessHappened'
      BY <1>a, <1>2, <2>a DEF TypeOK, SuccessHappened, AcknowledgedHappened,
         HoldsSuccess, Key, Actions
    <2>4. OneHolder'
      BY <1>a, <1>2, <2>a DEF OneHolder, EventsOnce, Emits, IsNew, Remembered
    <2> QED
      BY <2>1, <2>2, <2>3, <2>4
  <1>3. ASSUME NEW n \in items[t], UNCHANGED <<seen, call, pc>>,
               items' = [items EXCEPT ![t] = @ \ {n}],
               UNCHANGED <<attempt, data>>
        PROVE  IndInv'
    <2>1. TypeOK'
      BY <1>a, <1>3 DEF TypeOK
    <2>2. CallsFit'
      BY <1>a, <1>3 DEF CallsFit, CallFits
    <2>3. SuccessHappened'
      BY <1>a, <1>3 DEF SuccessHappened, AcknowledgedHappened, HoldsSuccess, Key
    <2>4. OneHolder'
      BY <1>a, <1>3 DEF OneHolder, EventsOnce, Emits
    <2> QED
      BY <2>1, <2>2, <2>3, <2>4
  <1> QED
    BY <1>1, <1>2, <1>3 DEF Remember

LEMMA DedupeStep ==
    ASSUME IndInv, NEW t \in Threads, Dedupe(t)
    PROVE  IndInv'
  <1> USE RuntimeAssumption, KeyType, EventNumber, CallType
          DEF IndInv, agentVars, netVars, hubVars, threadVars
  <1>a. /\ pc[t] = "dedupe" /\ call[t].action = "event" /\ call[t].n \in Nat
        /\ UNCHANGED <<adapter, agent, agentEvents, carried, reply, late, cache,
                       shown, log, acked, calls>>
    BY DEF Dedupe, CallsFit, CallFits, TypeOK
  <1>1. CASE Done(t) /\ UNCHANGED seen
    <2>1. TypeOK'
      BY <1>a, <1>1, DoneEffect DEF TypeOK
    <2>2. CallsFit'
      BY <1>a, <1>1, DoneEffect DEF TypeOK, CallsFit, CallFits, Actions
    <2>3. SuccessHappened'
      BY <1>a, <1>1, DoneEffect DEF TypeOK, SuccessHappened, AcknowledgedHappened,
         HoldsSuccess, Key
    <2>4. OneHolder'
      BY <1>a, <1>1, DoneEffect, OneHolderKept
    <2> QED
      BY <2>1, <2>2, <2>3, <2>4
  <1>2. CASE /\ IsNew(call[t].n) /\ seen' = seen \cup {call[t].n}
             /\ Goto(t, "apply") /\ UNCHANGED <<call, attempt, data, items>>
    <2>a. pc'[t] = "apply" /\ \A u \in Threads \ {t} : pc'[u] = pc[u]
      BY <1>2 DEF Goto, TypeOK
    <2>1. TypeOK'
      BY <1>a, <1>2 DEF TypeOK, Goto, Stages
    <2>2. CallsFit'
      BY <1>a, <1>2, <2>a DEF TypeOK, CallsFit, CallFits
    <2>3. SuccessHappened'
      BY <1>a, <1>2, <2>a DEF TypeOK, SuccessHappened, AcknowledgedHappened,
         HoldsSuccess, Key, Actions
    <2>4. OneHolder'
      BY <1>a, <1>2, <2>a DEF OneHolder, EventsOnce, Emits, IsNew
    <2> QED
      BY <2>1, <2>2, <2>3, <2>4
  <1> QED
    BY <1>1, <1>2 DEF Dedupe, Remembered

LEMMA ApplyStep ==
    ASSUME IndInv, NEW t \in Threads, Apply(t)
    PROVE  IndInv'
  <1> USE RuntimeAssumption, KeyType, EventNumber, CallType
          DEF IndInv, Apply, Goto, agentVars, netVars, hubVars, threadVars
  <1>1. TypeOK'
    BY DEF TypeOK, CallsFit, CallFits, Stages, Status, Reply
  <1>2. CallsFit'
    BY DEF TypeOK, CallsFit, CallFits, Actions, Keys
  <1>3. SuccessHappened'
    BY DEF TypeOK, CallsFit, CallFits, SuccessHappened, AcknowledgedHappened,
           HoldsSuccess, Key, Keys, CacheKey, Actions
  <1>4. OneHolder'
    BY DEF TypeOK, CallsFit, CallFits, OneHolder, EventsOnce, Emits
  <1> QED
    BY <1>1, <1>2, <1>3, <1>4

LEMMA EmitStep ==
    ASSUME IndInv, NEW t \in Threads, Emit(t)
    PROVE  IndInv'
  <1> USE RuntimeAssumption, KeyType, EventNumber, CallType
          DEF IndInv, Emit, agentVars, netVars, hubVars, threadVars
  <1>0. /\ pc' \in [Threads -> Stages] /\ call' \in [Threads -> Calls]
        /\ attempt' \in [Threads -> 0..(Retries + 1)]
        /\ data' \in [Threads -> Status] /\ items' \in [Threads -> SUBSET Nat]
        /\ \A u \in Threads \ {t} : /\ pc'[u] = pc[u] /\ call'[u] = call[u]
                                   /\ attempt'[u] = attempt[u]
        /\ \/ pc'[t] = "remember"
           \/ pc'[t] = "idle" /\ attempt'[t] = 0
    <2>1. CASE adapter = "http"
      <3>1. /\ pc' \in [Threads -> Stages] /\ pc'[t] = "remember"
            /\ \A u \in Threads \ {t} : pc'[u] = pc[u]
        BY <2>1, GotoEffect DEF Stages
      <3>2. /\ call' = [call EXCEPT ![t] = [action |-> "poll"]]
            /\ UNCHANGED <<attempt, data, items>>
        BY <2>1
      <3> QED
        BY <3>1, <3>2 DEF TypeOK
    <2>2. CASE adapter # "http"
      BY <2>2, DoneEffect
    <2> QED
      BY <2>1, <2>2
  <1>a. call[t].n \in Nat /\ log \in Seq(Nat) /\ log' = Append(log, call[t].n)
    BY DEF TypeOK, CallsFit, CallFits
  <1>b. /\ DOMAIN log' = DOMAIN log \cup {Len(log) + 1}
        /\ \A k \in DOMAIN log : log'[k] = log[k]
        /\ log'[Len(log) + 1] = call[t].n
    BY <1>a
  <1>1. TypeOK'
    BY <1>0, <1>a DEF TypeOK, CallsFit, CallFits, Stages, Status, Reply
  <1>2. CallsFit'
    BY <1>0 DEF TypeOK, CallsFit, CallFits, Actions, Keys
  <1>3. SuccessHappened'
    BY <1>0 DEF TypeOK, CallsFit, CallFits, SuccessHappened, AcknowledgedHappened,
           HoldsSuccess, Key, Keys, CacheKey, Actions
  <1>4. OneHolder'
    <2>1. UNCHANGED seen /\ Emits(t) /\ ~Emits(t)'
      BY <1>0 DEF Emits
    <2>2. \A u \in Threads \ {t} : call'[u] = call[u] /\ (Emits(u)' <=> Emits(u))
      BY <1>0 DEF Emits
    <2>3. /\ call[t].n \in seen
          /\ \A k \in DOMAIN log : log[k] # call[t].n
          /\ \A u \in Threads \ {t} : Emits(u) => call[u].n # call[t].n
      BY <2>1 DEF OneHolder
    <2>4. EventsOnce' /\ \A k \in DOMAIN log' : log'[k] \in seen
      BY <1>b, <2>3 DEF OneHolder, EventsOnce
    <2>5. \A u \in Threads : Emits(u)' =>
             call'[u].n \in seen /\ \A k \in DOMAIN log' : log'[k] # call'[u].n
      BY <1>b, <2>1, <2>2, <2>3 DEF OneHolder
    <2> QED
      BY <2>1, <2>2, <2>4, <2>5 DEF OneHolder
  <1> QED
    BY <1>1, <1>2, <1>3, <1>4

-----------------------------------------------------------------------------
(* The theorems.                                                           *)

\* The invariant holds at the start.
LEMMA InitialState ==
    Init => IndInv
  <1> SUFFICES ASSUME Init PROVE IndInv
    OBVIOUS
  <1>1. TypeOK
    BY RuntimeAssumption, CallType DEF Init, TypeOK, Status, Stages
  <1>2. CallsFit /\ SuccessHappened /\ OneHolder
    BY CallType DEF Init, CallsFit, CallFits, SuccessHappened, AcknowledgedHappened,
       HoldsSuccess, OneHolder, EventsOnce, Emits, Actions
  <1> QED
    BY <1>1, <1>2 DEF IndInv

\* So does a step that changes nothing.
LEMMA StutteringStep ==
    ASSUME IndInv, UNCHANGED vars
    PROVE  IndInv'
  <1> USE DEF vars, agentVars, netVars, hubVars, threadVars
  <1>1. TypeOK'
    BY DEF IndInv, TypeOK
  <1>2. CallsFit' /\ SuccessHappened'
    BY DEF IndInv, CallsFit, CallFits, SuccessHappened, AcknowledgedHappened,
       HoldsSuccess, Key
  <1>3. OneHolder'
    BY DEF IndInv, OneHolder, EventsOnce, Emits
  <1> QED
    BY <1>1, <1>2, <1>3 DEF IndInv

\* The invariant holds in every reachable state.
THEOREM Inductive ==
    Spec => []IndInv
  <1>1. ASSUME IndInv, Next
        PROVE  IndInv'
    <2>1. ASSUME NEW t \in Threads, Start(t)
          PROVE  IndInv'
      BY <1>1, <2>1, StartControlStep, StartGetStep, StartPollStep, StartEventStep
         DEF Start
    <2>2. ASSUME NEW t \in Threads, Step(t)
          PROVE  IndInv'
      BY <1>1, <2>2, SendStep, TimeoutStep, ServerErrorStep, RefusedStep,
         AcceptedStep, InvokeStep, ProjectStep, AnnounceStep, RememberStep,
         DedupeStep, ApplyStep, EmitStep DEF Step
    <2>3. ASSUME NEW t \in Threads, AgentServes(t)
          PROVE  IndInv'
      BY <1>1, <2>3, AgentServesStep
    <2>4. ASSUME NEW key \in Keys, AgentServesLate(key)
          PROVE  IndInv'
      BY <1>1, <2>4, AgentServesLateStep
    <2>5. CASE AgentEnds
      BY <1>1, <2>5, AgentEndsStep
    <2> QED
      BY <1>1, <2>1, <2>2, <2>3, <2>4, <2>5 DEF Next
  <1>2. IndInv /\ [Next]_vars => IndInv'
    BY <1>1, StutteringStep
  <1> QED
    BY InitialState, <1>2, PTL DEF Spec

\* Every variable keeps its type.
THEOREM TypeCorrect ==
    Spec => []TypeOK
  BY Inductive, PTL DEF IndInv

\* No caller is told that an action succeeded which the agent has not carried
\* out for that request: through timeouts, retries, late requests and the
\* idempotency cache of http_transport.py.
THEOREM SuccessIsTrue ==
    Spec => []AcknowledgedHappened
  <1>1. IndInv => AcknowledgedHappened
    BY DEF IndInv, SuccessHappened
  <1> QED
    BY <1>1, Inductive, PTL

\* No event of the agent enters the hub's log twice, for any number of polls,
\* deliveries and threads: remember_event_id and ingest_event hand each event
\* to one thread.
THEOREM LoggedOnce ==
    Spec => []EventsOnce
  <1>1. IndInv => EventsOnce
    BY DEF IndInv, OneHolder
  <1> QED
    BY <1>1, Inductive, PTL

-----------------------------------------------------------------------------
(* No event that was remembered is lost.                                   *)

\* Remembering an event and appending it to the log are two steps: between
\* them the thread that has remembered it has it in hand.
SeenKept ==
    \A n \in seen : \/ \E k \in DOMAIN log : log[k] = n
                    \/ \E t \in Threads : Emits(t) /\ call[t].n = n

\* The other threads stay where they are, in the calls they are in.
Others(t) == \A u \in Threads \ {t} : pc'[u] = pc[u] /\ call'[u] = call[u]

\* A step of a thread with no event in hand loses none.
LEMMA EmptyHanded ==
    ASSUME SeenKept, NEW t \in Threads, ~Emits(t), Others(t), UNCHANGED <<seen, log>>
    PROVE  SeenKept'
  BY DEF SeenKept, Others, Emits

\* Starting a call.
LEMMA StartKept ==
    ASSUME IndInv, SeenKept, NEW t \in Threads, Start(t)
    PROVE  SeenKept'
  <1>1. /\ pc[t] = "idle" /\ UNCHANGED <<seen, log>>
        /\ \A u \in Threads \ {t} : call'[u] = call[u]
    BY DEF Start, StartControl, StartGet, StartPoll, StartEvent, Enter, hubVars,
       IndInv, TypeOK
  <1>2. \A u \in Threads \ {t} : pc'[u] = pc[u]
    BY DEF Start, StartControl, StartGet, StartPoll, StartEvent, Goto, IndInv, TypeOK
  <1> QED
    BY <1>1, <1>2, EmptyHanded DEF Others, Emits

\* Waiting for an answer, and projecting it.
LEMMA AnswerKept ==
    ASSUME IndInv, SeenKept, NEW t \in Threads,
           \/ Send(t) \/ Timeout(t) \/ ServerError(t) \/ Refused(t) \/ Accepted(t)
           \/ Invoke(t) \/ Project(t) \/ Announce(t)
    PROVE  SeenKept'
  <1> USE DEF IndInv
  <1>1. pc[t] \notin {"apply", "emit"} /\ UNCHANGED <<seen, log>>
    BY DEF Send, Timeout, TimesOut, ServerError, Retry, Refused, Accepted, Invoke,
       Project, Announce, hubVars
  <1>2. CASE Done(t)
    BY <1>1, <1>2, DoneEffect, EmptyHanded DEF Others, Emits
  <1>3. CASE call' = call /\ \E stage \in Stages : Goto(t, stage)
    BY <1>1, <1>3, GotoEffect, EmptyHanded DEF Others, Emits
  <1> QED
    BY <1>2, <1>3 DEF Send, Timeout, ServerError, Retry, Refused, Accepted, Invoke,
       Project, Announce, Stages

\* An event that is remembered is in the hands of the thread that remembers it.
LEMMA RememberKept ==
    ASSUME IndInv, SeenKept, NEW t \in Threads, Remember(t)
    PROVE  SeenKept'
  <1>1. pc[t] = "remember" /\ log' = log
    BY DEF Remember
  <1>2. CASE Done(t) /\ UNCHANGED seen
    BY <1>1, <1>2, DoneEffect, EmptyHanded DEF Others, Emits, IndInv
  <1>3. ASSUME NEW n \in items[t], seen' = seen \cup {n},
               call' = [call EXCEPT ![t] = [action |-> "event", n |-> n]],
               Goto(t, "emit")
        PROVE  SeenKept'
    <2>1. /\ Emits(t)' /\ call'[t].n = n /\ ~Emits(t)
          /\ \A u \in Threads \ {t} : pc'[u] = pc[u] /\ call'[u] = call[u]
      BY <1>1, <1>3 DEF IndInv, TypeOK, Goto, Emits
    <2> QED
      BY <1>1, <1>3, <2>1 DEF SeenKept, Emits
  <1>4. CASE UNCHANGED <<seen, call, pc>>
    BY <1>1, <1>4 DEF SeenKept, Emits
  <1> QED
    BY <1>2, <1>3, <1>4 DEF Remember, Remembered

\* So is an event that is delivered and new.
LEMMA DedupeKept ==
    ASSUME IndInv, SeenKept, NEW t \in Threads, Dedupe(t)
    PROVE  SeenKept'
  <1>1. pc[t] = "dedupe" /\ log' = log
    BY DEF Dedupe
  <1>2. CASE Done(t) /\ UNCHANGED seen
    BY <1>1, <1>2, DoneEffect, EmptyHanded DEF Others, Emits, IndInv
  <1>3. CASE seen' = seen \cup {call[t].n} /\ Goto(t, "apply") /\ call' = call
    <2>1. /\ Emits(t)' /\ ~Emits(t) /\ call' = call
          /\ \A u \in Threads \ {t} : pc'[u] = pc[u]
      BY <1>1, <1>3 DEF IndInv, TypeOK, Goto, Emits
    <2> QED
      BY <1>1, <1>3, <2>1 DEF SeenKept, Emits
  <1> QED
    BY <1>2, <1>3 DEF Dedupe, Remembered

\* The status is projected with the event still in hand.
LEMMA ApplyKept ==
    ASSUME IndInv, SeenKept, NEW t \in Threads, Apply(t)
    PROVE  SeenKept'
  <1>1. /\ UNCHANGED <<seen, log, call>> /\ Emits(t)'
        /\ \A u \in Threads \ {t} : pc'[u] = pc[u]
    BY DEF IndInv, TypeOK, Apply, Goto, Emits
  <1> QED
    BY <1>1 DEF SeenKept, Emits

\* The event goes from the thread's hands into the log.
LEMMA EmitKept ==
    ASSUME IndInv, SeenKept, NEW t \in Threads, Emit(t)
    PROVE  SeenKept'
  <1>1. call[t].n \in Nat /\ log \in Seq(Nat) /\ log' = Append(log, call[t].n)
    BY EventNumber DEF IndInv, TypeOK, CallsFit, CallFits, Emit
  <1>2. /\ DOMAIN log \subseteq DOMAIN log' /\ Len(log) + 1 \in DOMAIN log'
        /\ \A k \in DOMAIN log : log'[k] = log[k]
        /\ log'[Len(log) + 1] = call[t].n
    BY <1>1
  <1>3. UNCHANGED seen /\ Others(t)
    <2>1. CASE Done(t)
      BY <2>1, DoneEffect DEF Emit, Others, IndInv
    <2>2. CASE Goto(t, "remember") /\ call' = [call EXCEPT ![t] = [action |-> "poll"]]
      BY <2>2 DEF Emit, Others, IndInv, TypeOK, Goto
    <2> QED
      BY <2>1, <2>2 DEF Emit
  <1> QED
    BY <1>2, <1>3 DEF SeenKept, Others, Emits

\* An event that the hub remembers as seen, and will therefore never take
\* again, is in the hub's log as soon as no thread is busy with it
\* (list_events, ingest_event, remember_event_id and emit_event).
THEOREM SeenReachesLog ==
    Spec => []EventsNotLost
  <1>1. Init => SeenKept
    BY DEF Init, SeenKept
  <1>2. IndInv /\ SeenKept /\ [Next]_vars => SeenKept'
    <2> SUFFICES ASSUME IndInv, SeenKept, [Next]_vars
                 PROVE  SeenKept'
      OBVIOUS
    <2>1. ASSUME NEW t \in Threads, Start(t) \/ Step(t)
          PROVE  SeenKept'
      BY <2>1, StartKept, AnswerKept, RememberKept, DedupeKept, ApplyKept, EmitKept
         DEF Step
    <2>2. CASE UNCHANGED <<seen, log, pc, call>>
      BY <2>2 DEF SeenKept, Emits
    <2>3. ASSUME NEW t \in Threads, AgentServes(t)
          PROVE  SeenKept'
      BY <2>2, <2>3 DEF AgentServes, hubVars, threadVars
    <2>4. ASSUME NEW key \in Keys, AgentServesLate(key)
          PROVE  SeenKept'
      BY <2>2, <2>4 DEF AgentServesLate, hubVars, threadVars
    <2>5. CASE AgentEnds \/ UNCHANGED vars
      BY <2>2, <2>5 DEF AgentEnds, vars, hubVars, threadVars
    <2> QED
      BY <2>1, <2>3, <2>4, <2>5 DEF Next
  <1>3. SeenKept => EventsNotLost
    BY DEF SeenKept, EventsNotLost, Emits
  <1> QED
    BY <1>1, <1>2, <1>3, Inductive, PTL DEF Spec

=============================================================================
