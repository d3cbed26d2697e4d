---------------------------- MODULE Confirmation ----------------------------
(***************************************************************************)
(* How a control action asked for in a chat thread is confirmed and run:   *)
(* YasinInterface (interface/engine.py), the sessions and pending tokens   *)
(* of SessionStore (interface/session.py) and ControlAPI.handle with       *)
(* PolicyEngine.authorize_and_record (execution/control_api.py,            *)
(* execution/policies.py).                                                 *)
(*                                                                         *)
(* Workers (threads, or processes over the file backend) handle messages   *)
(* of one chat thread and requests of Control API clients.  All they share *)
(* is the SharedState store; each of its operations is atomic, and between *)
(* two of them a worker acts on the copy of the session it has loaded.     *)
(* Every worker may crash between two operations.                          *)
(***************************************************************************)
EXTENDS Naturals, FiniteSets

CONSTANTS
    Workers,      \* who handles messages
    Actors,       \* who sends them
    Sessions,     \* session ids
    Tokens,       \* confirmation tokens (uuids, never used twice)
    DirectIds,    \* control_event_ids that Control API clients choose
    NoSession, NoToken, NoEvent, Nobody, Missing,
    MaxMessages   \* bound: messages received

\* The control_event_id of a confirmed token is nl-<token>: never a client's.
ControlEvents == Tokens \cup DirectIds

ASSUME ConfirmationAssumption ==
    /\ Tokens \cap DirectIds = {}
    /\ NoToken \notin Tokens /\ Missing \notin Tokens \cup {NoToken}
    /\ NoEvent \notin ControlEvents
    /\ Nobody \notin Actors

VARIABLES
    index,      \* yasin_session_by_thread: the session of the chat thread
    sessions,   \* yasin_sessions: the pending token of each saved session
    pending,    \* yasin_pending_control: the tokens that have a record
    claims,     \* control_events: the claimed event ids
    requester,  \* the actor in a token's payload
    expired,    \* tokens whose expires_at has passed
    pc,         \* where each worker is
    msg,        \* the message it handles
    session,    \* the session it has loaded
    copy,       \* pending_confirmation of its copy of that session
    received,   \* number of messages received
    runs,       \* history: how often each control event was carried out
    denied,     \* history: control events the policy refused
    wanted,     \* history: tokens their requester has confirmed
    cancelled,  \* history: tokens a cancel has cleared
    told,       \* history: cancelled tokens whose sender has the reply
    crashed     \* history: control events whose handling was cut short

storeVars == <<index, sessions, pending, claims>>
tokenVars == <<requester, expired>>
workerVars == <<pc, msg, session, copy>>
historyVars == <<runs, denied, wanted, cancelled, told, crashed>>
vars == <<storeVars, tokenVars, workerVars, received, historyVars>>

-----------------------------------------------------------------------------
Intents == {"read", "cancel", "request", "confirm", "direct"}

\* event is the control event the message asks for; for a cancel, the token it
\* has cleared.  late and revoked are history fields: when the message arrived
\* the token had expired, or its cancellation had been acknowledged.
Message ==
    [intent : Intents, actor : Actors, event : ControlEvents \cup {NoEvent},
     late : BOOLEAN, revoked : BOOLEAN]

NoMessage == [intent |-> "none"]

Stages == {"idle", "index", "load", "resave", "create", "bind", "clear",
           "propose", "look", "discard", "consume", "settle", "save",
           "claim", "evaluate", "mutate"}

\* The worker is done with its message.
Done(w) ==
    /\ pc' = [pc EXCEPT ![w] = "idle"]
    /\ msg' = [msg EXCEPT ![w] = NoMessage]
    /\ session' = [session EXCEPT ![w] = NoSession]
    /\ copy' = [copy EXCEPT ![w] = NoToken]

Goto(w, stage) == pc' = [pc EXCEPT ![w] = stage]

\* The worker sets pending_confirmation of its copy.
SetCopy(w, token) == copy' = [copy EXCEPT ![w] = token]

Init ==
    /\ index = NoSession
    /\ sessions = [s \in Sessions |-> Missing]
    /\ pending = {}
    /\ claims = {}
    /\ requester = [t \in Tokens |-> Nobody]
    /\ expired = {}
    /\ pc = [w \in Workers |-> "idle"]
    /\ msg = [w \in Workers |-> NoMessage]
    /\ session = [w \in Workers |-> NoSession]
    /\ copy = [w \in Workers |-> NoToken]
    /\ received = 0
    /\ runs = [e \in ControlEvents |-> 0]
    /\ denied = {}
    /\ wanted = {}
    /\ cancelled = {}
    /\ told = {}
    /\ crashed = {}

-----------------------------------------------------------------------------
(* Messages arrive: questions, requests, confirmations and cancellations    *)
(* in the chat, requests to the Control API; each may be delivered again.   *)

Arrive(w, m) ==
    /\ pc[w] = "idle" /\ received < MaxMessages
    /\ received' = received + 1
    /\ msg' = [msg EXCEPT ![w] = m]
    /\ UNCHANGED <<storeVars, tokenVars, session, copy, runs, denied,
                   cancelled, told, crashed>>

ReceiveChat(w, a) ==
    /\ \E i \in {"read", "cancel", "request"} :
           Arrive(w, [intent |-> i, actor |-> a, event |-> NoEvent,
                      late |-> FALSE, revoked |-> FALSE])
    /\ Goto(w, "index")
    /\ UNCHANGED wanted

ReceiveConfirm(w, a, t) ==
    /\ Arrive(w, [intent |-> "confirm", actor |-> a, event |-> t,
                  late |-> t \in expired, revoked |-> t \in told])
    /\ Goto(w, "index")
    /\ wanted' = IF requester[t] = a THEN wanted \cup {t} ELSE wanted

ReceiveDirect(w, a, d) ==
    /\ Arrive(w, [intent |-> "direct", actor |-> a, event |-> d,
                  late |-> FALSE, revoked |-> FALSE])
    /\ Goto(w, "claim")
    /\ UNCHANGED wanted

-----------------------------------------------------------------------------
(* get_or_create_for_thread.                                               *)

\* What the engine does first for each kind of message, once it has a session.
FirstStage(m, token) ==
    CASE m.intent = "read"    -> "save"
      [] m.intent = "cancel"  -> IF token = NoToken THEN "idle" ELSE "clear"
      [] m.intent = "request" -> "propose"
      [] m.intent = "confirm" -> "look"

\* The engine takes over.  A cancel that finds nothing pending is answered.
Begin(w) ==
    IF FirstStage(msg[w], copy[w]) = "idle" THEN Done(w)
    ELSE /\ Goto(w, FirstStage(msg[w], copy[w]))
         /\ UNCHANGED <<msg, session, copy>>

ReadIndex(w) ==
    /\ pc[w] = "index"
    /\ session' = [session EXCEPT ![w] = index]
    /\ Goto(w, IF index = NoSession THEN "create" ELSE "load")
    /\ UNCHANGED <<storeVars, tokenVars, msg, copy, received, historyVars>>

Load(w) ==
    /\ pc[w] = "load"
    /\ SetCopy(w, sessions[session[w]])
    /\ Goto(w, "resave")
    /\ UNCHANGED <<storeVars, tokenVars, msg, session, received, historyVars>>

\* The loaded session is written back at once, to refresh its time to live.
Resave(w) ==
    /\ pc[w] = "resave"
    /\ sessions' = [sessions EXCEPT ![session[w]] = copy[w]]
    /\ Begin(w)
    /\ UNCHANGED <<index, pending, claims, tokenVars, received, historyVars>>

\* A thread without a session gets one: it is saved, then indexed.
Create(w) ==
    /\ pc[w] = "create"
    /\ \E s \in {x \in Sessions : sessions[x] = Missing} :
           /\ sessions' = [sessions EXCEPT ![s] = NoToken]
           /\ session' = [session EXCEPT ![w] = s]
    /\ Goto(w, "bind")
    /\ UNCHANGED <<index, pending, claims, tokenVars, msg, copy, received,
                   historyVars>>

Bind(w) ==
    /\ pc[w] = "bind"
    /\ index' = session[w]
    /\ Begin(w)
    /\ UNCHANGED <<sessions, pending, claims, tokenVars, received,
                   historyVars>>

-----------------------------------------------------------------------------
(* YasinInterface.handle.                                                  *)

\* The session is saved and the message answered.
Save(w) ==
    /\ pc[w] = "save"
    /\ sessions' = [sessions EXCEPT ![session[w]] = copy[w]]
    /\ told' = IF msg[w].intent = "cancel" THEN told \cup {msg[w].event} ELSE told
    /\ Done(w)
    /\ UNCHANGED <<index, pending, claims, tokenVars, received, runs, denied,
                   wanted, cancelled, crashed>>

\* A question the AI provider fails on is answered without a save, and a
\* request without an execution, operation or identity is refused.
AnswerWithoutSave(w) ==
    /\ \/ pc[w] = "save" /\ msg[w].intent = "read"
       \/ pc[w] = "propose"
    /\ Done(w)
    /\ UNCHANGED <<storeVars, tokenVars, received, historyVars>>

\* A cancel deletes the record of the token in its copy of the session.
Clear(w) ==
    /\ pc[w] = "clear"
    /\ pending' = pending \ {copy[w]}
    /\ cancelled' = cancelled \cup {copy[w]}
    /\ msg' = [msg EXCEPT ![w].event = copy[w]]
    /\ SetCopy(w, NoToken)
    /\ Goto(w, "save")
    /\ UNCHANGED <<index, sessions, claims, tokenVars, session, received,
                   runs, denied, wanted, told, crashed>>

\* A control request gets a fresh token, with a record of its own and a place
\* in the session.
Propose(w) ==
    /\ pc[w] = "propose"
    /\ \E t \in {x \in Tokens : requester[x] = Nobody} :
           /\ requester' = [requester EXCEPT ![t] = msg[w].actor]
           /\ pending' = pending \cup {t}
           /\ SetCopy(w, t)
    /\ Goto(w, "save")
    /\ UNCHANGED <<index, sessions, claims, expired, msg, session, received,
                   historyVars>>

-----------------------------------------------------------------------------
(* _handle_confirm.                                                        *)

\* Mutant: the token of the session copy is believed without its expires_at.
ExpiredInStore(w) == msg[w].event \in expired \cap pending

HasExpired(w) == msg[w].event \in expired

\* Mutant: the session alone is asked.
FoundInSession(w) == copy[w] = msg[w].event

\* The pending action is the token's record or what the session copy says.
Found(w) == msg[w].event \in pending \/ copy[w] = msg[w].event

Look(w) ==
    /\ pc[w] = "look"
    /\ \/ /\ Found(w) /\ HasExpired(w)
          /\ Goto(w, "discard")
          /\ UNCHANGED <<msg, session, copy>>
       \/ /\ Found(w) /\ ~HasExpired(w)
          /\ requester[msg[w].event] = msg[w].actor
          /\ Goto(w, "consume")
          /\ UNCHANGED <<msg, session, copy>>
       \/ /\ ~Found(w)
             \/ (~HasExpired(w) /\ requester[msg[w].event] # msg[w].actor)
          /\ Done(w)
    /\ UNCHANGED <<storeVars, tokenVars, received, historyVars>>

Discard(w) ==
    /\ pc[w] = "discard"
    /\ pending' = pending \ {msg[w].event}
    /\ SetCopy(w, NoToken)
    /\ Goto(w, "save")
    /\ UNCHANGED <<index, sessions, claims, tokenVars, msg, session, received,
                   historyVars>>

\* consume_pending_control: of several workers one takes the record (its get
\* and its compare_and_set are one step: a record never comes back).  Without
\* it the worker goes on only when its session copy has the token.
Consume(w) ==
    /\ pc[w] = "consume"
    /\ pending' = pending \ {msg[w].event}
    /\ IF Found(w)
       THEN Goto(w, "settle") /\ UNCHANGED <<msg, session, copy>>
       ELSE Done(w)
    /\ UNCHANGED <<index, sessions, claims, tokenVars, received, historyVars>>

Settle(w) ==
    /\ pc[w] = "settle"
    /\ sessions' = [sessions EXCEPT ![session[w]] = NoToken]
    /\ SetCopy(w, NoToken)
    /\ Goto(w, "claim")
    /\ UNCHANGED <<index, pending, claims, tokenVars, msg, session, received,
                   historyVars>>

-----------------------------------------------------------------------------
(* ControlAPI.handle with authorize_and_record.                            *)

\* Mutant: duplicates are looked for in the worker's own memory.
ClaimKeyOfWorker(w) == <<w, msg[w].event>>

\* Mutant: the event id is made from the session, not from the token.
ClaimKeyOfSession(w) ==
    IF msg[w].intent = "confirm" THEN session[w] ELSE msg[w].event

\* The key under which the request is claimed.
ClaimKey(w) == msg[w].event

Claim(w) ==
    /\ pc[w] = "claim"
    /\ \/ /\ ClaimKey(w) \notin claims
          /\ claims' = claims \cup {ClaimKey(w)}
          /\ Goto(w, "evaluate")
          /\ UNCHANGED <<msg, session, copy>>
       \/ /\ ClaimKey(w) \in claims
          /\ Done(w)
          /\ UNCHANGED claims
    /\ UNCHANGED <<index, sessions, pending, tokenVars, received, historyVars>>

\* The policy decides by the role of the requester; the row it audits is not
\* modelled.
Evaluate(w) ==
    /\ pc[w] = "evaluate"
    /\ \/ /\ Goto(w, "mutate")
          /\ UNCHANGED <<msg, session, copy, denied>>
       \/ /\ denied' = denied \cup {msg[w].event}
          /\ Done(w)
    /\ UNCHANGED <<storeVars, tokenVars, received, runs, wanted, cancelled,
                   told, crashed>>

\* _mutate calls the execution store or the agent runtime, and reports what
\* they answer.
Mutate(w) ==
    /\ pc[w] = "mutate"
    /\ runs' = [runs EXCEPT ![msg[w].event] = @ + 1]
    /\ Done(w)
    /\ UNCHANGED <<storeVars, tokenVars, received, denied, wanted, cancelled,
                   told, crashed>>

-----------------------------------------------------------------------------
(* Time and crashes.                                                       *)

Expire(t) ==
    /\ requester[t] # Nobody /\ t \notin expired
    /\ expired' = expired \cup {t}
    /\ UNCHANGED <<storeVars, requester, workerVars, received, historyVars>>

\* The record's own time to live, set a little later, runs out.
Purge(t) ==
    /\ t \in expired \cap pending
    /\ pending' = pending \ {t}
    /\ UNCHANGED <<index, sessions, claims, tokenVars, workerVars, received,
                   historyVars>>

Crash(w) ==
    /\ pc[w] # "idle"
    /\ crashed' = crashed \cup ({msg[w].event} \cap ControlEvents)
    /\ Done(w)
    /\ UNCHANGED <<storeVars, tokenVars, received, runs, denied, wanted,
                   cancelled, told>>

Receive(w) ==
    \E a \in Actors : \/ ReceiveChat(w, a)
                      \/ \E t \in Tokens : ReceiveConfirm(w, a, t)
                      \/ \E d \in DirectIds : ReceiveDirect(w, a, d)

Handle(w) ==
    \/ ReadIndex(w) \/ Load(w) \/ Resave(w) \/ Create(w) \/ Bind(w)
    \/ Save(w) \/ AnswerWithoutSave(w) \/ Clear(w) \/ Propose(w)
    \/ Look(w) \/ Discard(w) \/ Consume(w) \/ Settle(w)
    \/ Claim(w) \/ Evaluate(w) \/ Mutate(w)

Next ==
    \/ \E w \in Workers : Receive(w) \/ Handle(w) \/ Crash(w)
    \/ \E t \in Tokens : Expire(t) \/ Purge(t)

Spec == Init /\ [][Next]_vars

-----------------------------------------------------------------------------
(* Properties.                                                             *)

TypeOK ==
    /\ index \in Sessions \cup {NoSession}
    /\ sessions \in [Sessions -> Tokens \cup {NoToken, Missing}]
    /\ pending \subseteq Tokens
    /\ claims \subseteq ControlEvents
    /\ requester \in [Tokens -> Actors \cup {Nobody}]
    /\ expired \subseteq Tokens
    /\ pc \in [Workers -> Stages]
    /\ msg \in [Workers -> Message \cup {NoMessage}]
    /\ session \in [Workers -> Sessions \cup {NoSession}]
    /\ copy \in [Workers -> Tokens \cup {NoToken}]
    /\ received \in Nat
    /\ runs \in [ControlEvents -> Nat]
    /\ denied \subseteq ControlEvents
    /\ wanted \subseteq Tokens
    /\ cancelled \subseteq Tokens
    /\ told \subseteq Tokens
    /\ crashed \subseteq ControlEvents

\* What a worker knows at each stage about its session, copy and message.
WorkerOK(w) ==
    /\ pc[w] = "idle" <=> msg[w] = NoMessage
    /\ pc[w] \in {"index", "load", "resave", "create", "bind"}
           => msg[w].intent # "direct"
    /\ pc[w] \in {"load", "bind"}
           => session[w] \in Sessions /\ sessions[session[w]] # Missing
    /\ pc[w] = "clear" => copy[w] \in Tokens /\ msg[w].intent = "cancel"
    /\ pc[w] = "propose" => msg[w].intent = "request"
    /\ pc[w] # "idle" /\ msg[w].intent = "confirm" => msg[w].event \in Tokens
    /\ pc[w] = "save" /\ msg[w].intent = "cancel" => msg[w].event \in Tokens
    /\ pc[w] \in {"look", "discard", "consume", "settle"}
           => msg[w].event \in Tokens
    /\ pc[w] \in {"claim", "evaluate", "mutate"}
           => msg[w].event \in ControlEvents

ControlOK ==
    /\ index # NoSession => sessions[index] # Missing
    /\ \A w \in Workers : WorkerOK(w)

\* A worker between its claim and the end of the action holds the claim alone,
\* and the action has not run yet.
ClaimsOK ==
    /\ \A w \in Workers : pc[w] \in {"evaluate", "mutate"} =>
           /\ msg[w].event \in claims
           /\ runs[msg[w].event] = 0
           /\ \A v \in Workers \ {w} :
                  pc[v] \in {"evaluate", "mutate"} => msg[v].event # msg[w].event
    /\ \A e \in ControlEvents :
           runs[e] <= 1 /\ (runs[e] # 0 => e \in claims)

\* A late confirmation gets no further than the check of its token.
LateOK ==
    \A w \in Workers : pc[w] # "idle" /\ msg[w].late =>
        /\ msg[w].intent = "confirm" /\ msg[w].event \in expired
        /\ pc[w] \notin {"consume", "settle", "claim", "evaluate", "mutate"}

\* A control event is carried out at most once, however often it is delivered,
\* to however many workers, and wherever they crash.  (consume_pending_control
\* alone does not give this: a stale copy of the session can bring a consumed
\* token back, and the claim in authorize_and_record stops it.)
RunsOnce == \A e \in ControlEvents : runs[e] <= 1

\* A confirmation is not lost: when every worker is at rest, a token that its
\* requester has confirmed has run, or was refused by the policy, cancelled,
\* expired, or in the hands of a worker that crashed, even if other messages
\* wrote older copies of the session meanwhile.
ConfirmedRuns ==
    (\A w \in Workers : pc[w] = "idle") =>
        \A t \in wanted :
            runs[t] = 1 \/ t \in denied \cup cancelled \cup expired \cup crashed

\* A confirmation that arrives after the token has expired is never carried
\* out, whether its record or only a copy in the session is left.
ExpiredNeverRuns ==
    \A w \in Workers : pc[w] = "mutate" => ~msg[w].late

\* "Pending control action cancelled.": a confirmation that arrives after that
\* reply is never carried out.
CancelledNeverRuns ==
    \A w \in Workers : pc[w] = "mutate" => ~msg[w].revoked

=============================================================================
