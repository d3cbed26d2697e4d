---------------------------- MODULE AgentRuntime ----------------------------
(***************************************************************************)
(* How the hub controls and observes an execution that the agent runtime   *)
(* owns.  get_runtime_adapter chooses one of two adapters at startup:      *)
(* HttpAgentRuntimeAdapter over HttpTransportClient (adapters/             *)
(* http_adapter.py, http_transport.py), with timeouts, retries and polled  *)
(* events, or InProcessAgentRuntimeAdapter (adapters/agent_runtime.py),    *)
(* which calls the runtime and is called back with its events.             *)
(*                                                                         *)
(* The agent is outside the repository: it is modelled by what the         *)
(* adapters and the fake agent of tests/test_http_transport.py expect of   *)
(* it.  There is one execution.                                            *)
(***************************************************************************)
EXTENDS Lifecycle, Integers, Sequences, FiniteSets

CONSTANTS
    Threads,      \* hub threads that use the adapter
    Requests,     \* request ids; a caller may repeat one
    Adapters,     \* the adapters the hub may be configured with
    Retries,      \* connect_retries
    NoReply,
    MaxCalls      \* bound: calls of the adapter

Actions == {"pause", "resume", "cancel"}

Keys == Actions \X Requests

ASSUME RuntimeAssumption ==
    /\ Adapters \subseteq {"http", "inprocess"}
    /\ Retries \in Nat

VARIABLES
    adapter,      \* the adapter in use
    agent,        \* external: the status of the execution in the agent
    agentEvents,  \* external: the status each event of the agent reports
    carried,      \* history: the keys the agent has carried out
    reply,        \* the reply to the thread's current request
    late,         \* control requests given up that may still reach the agent
    cache,        \* _idempotency_cache
    shown,        \* the status the hub's store shows
    seen,         \* _seen_event_ids
    log,          \* the agent's events in the hub's event log
    pc,           \* where each thread is
    call,         \* the call it is in
    attempt,      \* attempts of the current request
    data,         \* the status it has been answered
    items,        \* the events it has still to project
    acked,        \* history: the keys whose callers were answered with success
    calls         \* calls so far

agentVars == <<agent, agentEvents, carried>>
netVars == <<reply, late>>
hubVars == <<cache, shown, seen, log>>
threadVars == <<pc, call, attempt, data, items>>
vars == <<adapter, agentVars, netVars, hubVars, threadVars, acked, calls>>

-----------------------------------------------------------------------------
(* The agent.                                                              *)

Target == [pause |-> "paused", resume |-> "running", cancel |-> "cancelled"]

\* The agent answers 409 to anything else.
AgentAllows(action) ==
    CASE action = "pause"  -> agent = "running"
      [] action = "resume" -> agent = "paused"
      [] action = "cancel" -> agent \notin TerminalStatus

AgentMoves(status) ==
    /\ agent' = status
    /\ agentEvents' = Append(agentEvents, status)

\* The agent carries out a control action.
AgentActs(key) ==
    /\ AgentAllows(key[1])
    /\ AgentMoves(Target[key[1]])
    /\ carried' = carried \cup {key}

\* The job ends by itself.
AgentEnds ==
    /\ agent = "running"
    /\ AgentMoves("succeeded")
    /\ UNCHANGED <<adapter, carried, netVars, hubVars, threadVars, acked, calls>>

-----------------------------------------------------------------------------
(* Calls.                                                                  *)

NoCall == [action |-> "none"]

Calls == {NoCall} \cup [action : Actions, req : Requests]
             \cup [action : {"get", "poll"}] \cup [action : {"event"}, n : Nat]

Key(t) == <<call[t].action, call[t].req>>

Stages == {"idle", "send", "wait", "invoke", "project", "announce",
           "remember", "dedupe", "apply", "emit"}

Done(t) ==
    /\ pc' = [pc EXCEPT ![t] = "idle"]
    /\ call' = [call EXCEPT ![t] = NoCall]
    /\ attempt' = [attempt EXCEPT ![t] = 0]
    /\ data' = [data EXCEPT ![t] = "queued"]
    /\ items' = [items EXCEPT ![t] = {}]

Goto(t, stage) == pc' = [pc EXCEPT ![t] = stage]

Init ==
    /\ adapter \in Adapters
    /\ agent = "running"
    /\ agentEvents = <<>>
    /\ carried = {}
    /\ reply = [t \in Threads |-> NoReply]
    /\ late = [key \in Keys |-> 0]
    /\ cache = {}
    /\ shown = "running"
    /\ seen = {}
    /\ log = <<>>
    /\ pc = [t \in Threads |-> "idle"]
    /\ call = [t \in Threads |-> NoCall]
    /\ attempt = [t \in Threads |-> 0]
    /\ data = [t \in Threads |-> "queued"]
    /\ items = [t \in Threads |-> {}]
    /\ acked = {}
    /\ calls = 0

Enter(t, c) ==
    /\ pc[t] = "idle" /\ calls < MaxCalls
    /\ calls' = calls + 1
    /\ call' = [call EXCEPT ![t] = c]
    /\ UNCHANGED <<adapter, agentVars, netVars, hubVars, attempt,
                   items, acked>>

\* Mutant: the cache forgets which action the key is for.
CacheKeyByRequest(key) == key[2]

\* The key of the idempotency cache: method, path and Idempotency-Key.
CacheKey(key) == key

\* pause, resume, cancel.  Over HTTP a key that was answered before is not
\* sent again, but its old answer is projected again.
StartControl(t) ==
    \E key \in Keys :
        /\ Enter(t, [action |-> key[1], req |-> key[2]])
        /\ \/ /\ adapter = "inprocess"
              /\ Goto(t, "invoke") /\ UNCHANGED data
           \/ /\ adapter = "http" /\ \A c \in cache : c[1] # CacheKey(key)
              /\ Goto(t, "send") /\ UNCHANGED data
           \/ /\ adapter = "http"
              /\ \E c \in cache : /\ c[1] = CacheKey(key)
                                  /\ data' = [data EXCEPT ![t] = c[2]]
              /\ Goto(t, "project")

\* get_execution, sync_execution.
StartGet(t) ==
    /\ Enter(t, [action |-> "get"])
    /\ Goto(t, IF adapter = "http" THEN "send" ELSE "invoke")
    /\ UNCHANGED data

\* list_events over HTTP.
StartPoll(t) ==
    /\ adapter = "http"
    /\ Enter(t, [action |-> "poll"])
    /\ Goto(t, "send")
    /\ UNCHANGED data

\* _on_agent_event: the runtime delivers an event, late or again.
StartEvent(t) ==
    /\ adapter = "inprocess"
    /\ \E n \in 1..Len(agentEvents) : Enter(t, [action |-> "event", n |-> n])
    /\ Goto(t, "dedupe")
    /\ UNCHANGED data

-----------------------------------------------------------------------------
(* HttpTransportClient.request.                                            *)

Send(t) ==
    /\ pc[t] = "send"
    /\ attempt' = [attempt EXCEPT ![t] = @ + 1]
    /\ Goto(t, "wait")
    /\ UNCHANGED <<adapter, agentVars, netVars, hubVars, call, data, items, acked,
                   calls>>

Answer(t, r) == reply' = [reply EXCEPT ![t] = r]

AnswerOk(t) ==
    Answer(t, [code |-> "ok", status |-> agent', events |-> Len(agentEvents')])

\* The agent answers the request the thread waits for.
AgentServes(t) ==
    /\ pc[t] = "wait" /\ reply[t] = NoReply
    /\ \/ /\ call[t].action \in Actions
          /\ AgentActs(Key(t))
          /\ AnswerOk(t)
       \/ /\ call[t].action \in Actions
          /\ ~AgentAllows(call[t].action)
          /\ Answer(t, [code |-> "refused"])
          /\ UNCHANGED agentVars
       \/ /\ call[t].action \in {"get", "poll"}
          /\ UNCHANGED agentVars
          /\ AnswerOk(t)
       \/ /\ Answer(t, [code |-> "error"])
          /\ UNCHANGED agentVars
    /\ UNCHANGED <<adapter, late, hubVars, threadVars, acked, calls>>

\* A request the hub has given up reaches the agent; nobody hears the answer.
AgentServesLate(key) ==
    /\ late[key] > 0
    /\ late' = [late EXCEPT ![key] = @ - 1]
    /\ \/ AgentActs(key)
       \/ ~AgentAllows(key[1]) /\ UNCHANGED agentVars
    /\ UNCHANGED <<adapter, reply, hubVars, threadVars, acked, calls>>

\* The next attempt, or TransportUnavailable after the last.
Retry(t) ==
    /\ IF attempt[t] <= Retries
       THEN Goto(t, "send") /\ UNCHANGED <<call, attempt, data, items>>
       ELSE Done(t)
    /\ reply' = [reply EXCEPT ![t] = NoReply]
    /\ UNCHANGED <<adapter, agentVars, hubVars, acked, calls>>

\* Mutant: only control requests have a timeout.
TimesOutControl(t) == pc[t] = "wait" /\ call[t].action \in Actions

TimesOut(t) == pc[t] = "wait"

\* The request, or its answer, is still on its way.
Timeout(t) ==
    /\ TimesOut(t)
    /\ late' = IF reply[t] = NoReply /\ call[t].action \in Actions
               THEN [late EXCEPT ![Key(t)] = @ + 1] ELSE late
    /\ Retry(t)

ServerError(t) ==
    /\ pc[t] = "wait" /\ reply[t] = [code |-> "error"]
    /\ Retry(t)
    /\ UNCHANGED late

\* 404, 409, 401 and 403 are raised at once.
Refused(t) ==
    /\ pc[t] = "wait" /\ reply[t] = [code |-> "refused"]
    /\ reply' = [reply EXCEPT ![t] = NoReply]
    /\ Done(t)
    /\ UNCHANGED <<adapter, agentVars, late, hubVars, acked, calls>>

Accepted(t) ==
    /\ pc[t] = "wait" /\ reply[t] # NoReply /\ reply[t].code = "ok"
    /\ reply' = [reply EXCEPT ![t] = NoReply]
    /\ cache' = IF call[t].action \in Actions
                THEN {c \in cache : c[1] # CacheKey(Key(t))}
                        \cup {<<CacheKey(Key(t)), reply[t].status>>}
                ELSE cache
    /\ data' = [data EXCEPT ![t] = reply[t].status]
    /\ items' = IF call[t].action = "poll"
                THEN [items EXCEPT ![t] = 1..reply[t].events] ELSE items
    /\ Goto(t, IF call[t].action = "poll" THEN "remember" ELSE "project")
    /\ UNCHANGED <<adapter, agentVars, late, shown, seen, log, call,
                   attempt, acked, calls>>

-----------------------------------------------------------------------------
(* The in-process adapter calls the runtime.                               *)

Invoke(t) ==
    /\ pc[t] = "invoke"
    /\ \/ /\ call[t].action \in Actions
          /\ AgentActs(Key(t))
          /\ data' = [data EXCEPT ![t] = agent']
          /\ Goto(t, "project")
          /\ UNCHANGED <<call, attempt, items>>
       \/ /\ call[t].action \in Actions
          /\ ~AgentAllows(call[t].action)
          /\ Done(t)
          /\ UNCHANGED agentVars
       \/ /\ call[t].action = "get"
          /\ data' = [data EXCEPT ![t] = agent]
          /\ Goto(t, "project")
          /\ UNCHANGED <<agentVars, call, attempt, items>>
    /\ UNCHANGED <<adapter, netVars, hubVars, acked, calls>>

-----------------------------------------------------------------------------
(* Projection into the store.                                              *)

\* The answer is projected; the in-process adapter then announces the action.
Project(t) ==
    /\ pc[t] = "project"
    /\ shown' = data[t]
    /\ IF adapter = "inprocess" /\ call[t].action \in Actions
       THEN Goto(t, "announce") /\ UNCHANGED <<call, attempt, data, items, acked>>
       ELSE /\ Done(t)
            /\ acked' = IF call[t].action \in Actions THEN acked \cup {Key(t)}
                        ELSE acked
    /\ UNCHANGED <<adapter, agentVars, netVars, cache, seen, log, calls>>

\* The hub's own event; the log of this module holds the agent's only.
Announce(t) ==
    /\ pc[t] = "announce"
    /\ acked' = acked \cup {Key(t)}
    /\ Done(t)
    /\ UNCHANGED <<adapter, agentVars, netVars, hubVars, calls>>

\* Mutant: duplicates are looked for in the event log.
NewInLog(n) == \A k \in DOMAIN log : log[k] # n

IsNew(n) == n \notin seen

\* Mutant: the whole answer is remembered at once.
RememberAll(t, n) == seen \cup items[t]

Remembered(t, n) == seen \cup {n}

\* list_events goes through the answer in the agent's order, whatever it is.
Remember(t) ==
    /\ pc[t] = "remember"
    /\ \/ /\ items[t] = {}
          /\ Done(t)
          /\ UNCHANGED seen
       \/ \E n \in items[t] :
             /\ IF IsNew(n)
                THEN /\ seen' = Remembered(t, n)
                     /\ call' = [call EXCEPT ![t] = [action |-> "event", n |-> n]]
                     /\ Goto(t, "emit")
                ELSE UNCHANGED <<seen, call, pc>>
             /\ items' = [items EXCEPT ![t] = @ \ {n}]
             /\ UNCHANGED <<attempt, data>>
    /\ UNCHANGED <<adapter, agentVars, netVars, cache, shown, log,
                   acked, calls>>

\* ingest_event drops an event it has seen.
Dedupe(t) ==
    /\ pc[t] = "dedupe"
    /\ IF IsNew(call[t].n)
       THEN /\ seen' = Remembered(t, call[t].n)
            /\ Goto(t, "apply")
            /\ UNCHANGED <<call, attempt, data, items>>
       ELSE Done(t) /\ UNCHANGED seen
    /\ UNCHANGED <<adapter, agentVars, netVars, cache, shown, log,
                   acked, calls>>

\* ingest_event gives the projected execution the status of the event.
Apply(t) ==
    /\ pc[t] = "apply"
    /\ shown' = agentEvents[call[t].n]
    /\ Goto(t, "emit")
    /\ UNCHANGED <<adapter, agentVars, netVars, cache, seen, log, call,
                   attempt, data, items, acked, calls>>

\* The event is emitted; list_events goes on with the next.
Emit(t) ==
    /\ pc[t] = "emit"
    /\ log' = Append(log, call[t].n)
    /\ IF adapter = "http"
       THEN /\ Goto(t, "remember")
            /\ call' = [call EXCEPT ![t] = [action |-> "poll"]]
            /\ UNCHANGED <<attempt, data, items>>
       ELSE Done(t)
    /\ UNCHANGED <<adapter, agentVars, netVars, cache, shown, seen,
                   acked, calls>>

Start(t) == StartControl(t) \/ StartGet(t) \/ StartPoll(t) \/ StartEvent(t)

Step(t) ==
    \/ Send(t) \/ Timeout(t) \/ ServerError(t) \/ Refused(t) \/ Accepted(t)
    \/ Invoke(t) \/ Project(t) \/ Announce(t)
    \/ Remember(t) \/ Dedupe(t) \/ Apply(t) \/ Emit(t)

Next ==
    \/ \E t \in Threads : Start(t) \/ Step(t)
    \/ \E t \in Threads : AgentServes(t)
    \/ \E key \in Keys : AgentServesLate(key)
    \/ AgentEnds

Spec == Init /\ [][Next]_vars

\* The hub's threads run, and a wait ends with the timeout at the latest.
\* Nothing is assumed of the agent and the network.
FairSpec == Spec /\ \A t \in Threads : WF_vars(Step(t))

-----------------------------------------------------------------------------
(* Properties.                                                             *)

Reply ==
    [code : {"ok"}, status : Status, events : Nat] \cup [code : {"refused", "error"}]

TypeOK ==
    /\ adapter \in Adapters
    /\ agent \in Status
    /\ agentEvents \in Seq(Status)
    /\ carried \subseteq Keys
    /\ reply \in [Threads -> Reply \cup {NoReply}]
    /\ late \in [Keys -> Nat]
    /\ cache \subseteq Keys \X Status
    /\ shown \in Status
    /\ seen \subseteq Nat
    /\ log \in Seq(Nat)
    /\ pc \in [Threads -> Stages]
    /\ call \in [Threads -> Calls]
    /\ attempt \in [Threads -> 0..(Retries + 1)]
    /\ data \in [Threads -> Status]
    /\ items \in [Threads -> SUBSET Nat]
    /\ acked \subseteq Keys
    /\ calls \in Nat

\* A caller that is told its action succeeded is told the truth: the agent has
\* carried out that action for that request, whether the answer came from the
\* wire, from a retry or from the idempotency cache.
AcknowledgedHappened == acked \subseteq carried

\* An event of the agent enters the hub's log at most once, however often and
\* by however many threads it is polled or delivered.
EventsOnce == \A j, k \in DOMAIN log : log[j] = log[k] => j = k

\* An event that was remembered as seen is not lost: when no thread is busy it
\* is in the log.
EventsNotLost ==
    (\A t \in Threads : pc[t] = "idle") =>
        \A n \in seen : \E k \in DOMAIN log : log[k] = n

\* Every call returns, even when the agent never answers.
CallsEnd == \A t \in Threads : pc[t] # "idle" ~> pc[t] = "idle"

=============================================================================
