------------------------------ MODULE KeyValue ------------------------------
(***************************************************************************)
(* What the shared state promises its callers, whichever backend keeps it: *)
(* a call takes effect at one instant between its start and its return.    *)
(* An entry lapses when its TTL runs out; only a call that was under way   *)
(* at that moment may still act on it.  Nothing else is ever lost, but for *)
(* what a process keeps to itself when it ends.                            *)
(***************************************************************************)
EXTENDS Naturals

CONSTANTS
    Workers,     \* who calls
    Processes,
    ProcOf,      \* the process of a worker
    Locations,   \* <<process or "disk", key>>: where a value can be
    Values,
    Nil          \* no value

VARIABLES
    kv,      \* the live value at each location
    ask,     \* the call each worker has under way
    reply,   \* its outcome, once it has taken effect
    late,    \* a value that lapsed while the worker's call was under way
    blind,   \* workers whose call could not read its key
    mishaps  \* entries that ran out, calls that failed, processes that ended

kvVars == <<kv, ask, reply, late, blind, mishaps>>

-----------------------------------------------------------------------------
Ops == {"get", "set", "delete", "cas", "acquire", "release"}
Maybe == Values \cup {Nil}

NoCall == [op |-> "none"]
Calls == [op : Ops, at : Locations, old : Maybe, new : Maybe]
Reply(kind, value) == [kind |-> kind, value |-> value]
Pending == Reply("pending", Nil)

KVInit ==
    /\ kv \in [Locations -> Maybe]
    /\ ask = [w \in Workers |-> NoCall]
    /\ reply = [w \in Workers |-> Pending]
    /\ late = [w \in Workers |-> Nil]
    /\ blind = {}
    /\ mishaps = 0

Invoke(w) ==
    /\ ask[w] = NoCall
    /\ ask' \in [Workers -> Calls \cup {NoCall}]
    /\ ask'[w] # NoCall
    /\ \A x \in Workers \ {w} : ask'[x] = ask[x]
    /\ UNCHANGED <<kv, reply, late, blind, mishaps>>

\* Whether a call that finds value v goes through, and what it leaves.
Succeeds(c, v) ==
    CASE c.op = "cas" -> v = c.old
      [] c.op = "acquire" -> v \in {Nil, c.new}
      [] c.op = "release" -> v = c.new
      [] OTHER -> TRUE
Leaves(c, v) ==
    CASE c.op \in {"set", "cas", "acquire"} -> c.new
      [] c.op \in {"delete", "release"} -> Nil
      [] OTHER -> v

Take(w) ==
    /\ ask[w] # NoCall /\ reply[w] = Pending
    /\ LET c == ask[w] IN
       \E v \in {kv[c.at], late[w]} \cup {Nil} :
          /\ \/ UNCHANGED <<blind, mishaps>>
             \/ blind' = blind \cup {w} /\ mishaps' = mishaps + 1
          /\ v = Nil => kv[c.at] = Nil \/ w \in blind'
          /\ IF Succeeds(c, v)
             THEN /\ kv' = IF c.op = "get" THEN kv
                           ELSE [kv EXCEPT ![c.at] = Leaves(c, v)]
                  /\ reply' = [reply EXCEPT ![w] =
                                 Reply("ok", IF c.op = "get" THEN v ELSE Nil)]
             ELSE /\ reply' = [reply EXCEPT ![w] = Reply("no", Nil)]
                  /\ kv' = kv
    /\ UNCHANGED <<ask, late>>

\* The backend failed; nothing has changed.
Raise(w) ==
    /\ ask[w] # NoCall /\ reply[w] = Pending
    /\ reply' = [reply EXCEPT ![w] = Reply("error", Nil)]
    /\ mishaps' = mishaps + 1
    /\ UNCHANGED <<kv, ask, late, blind>>

Respond(w) ==
    /\ reply[w] # Pending
    /\ ask' = [ask EXCEPT ![w] = NoCall]
    /\ reply' = [reply EXCEPT ![w] = Pending]
    /\ late' = [late EXCEPT ![w] = Nil]
    /\ blind' = blind \ {w}
    /\ UNCHANGED <<kv, mishaps>>

RunOut(l) ==
    /\ kv[l] # Nil
    /\ kv' = [kv EXCEPT ![l] = Nil]
    /\ late' = [w \in Workers |->
                  IF ask[w] # NoCall /\ ask[w].at = l THEN kv[l] ELSE late[w]]
    /\ mishaps' = mishaps + 1
    /\ UNCHANGED <<ask, reply, blind>>

\* A call cannot read its key: noted at once, whatever becomes of it.
Blinded(w) ==
    /\ ask[w] # NoCall /\ reply[w] = Pending
    /\ blind' = blind \cup {w}
    /\ mishaps' = mishaps + 1
    /\ UNCHANGED <<kv, ask, reply, late>>

\* A process ends, with the calls under way in it and what only it has kept.
Vanish(p) ==
    LET W == {w \in Workers : ProcOf[w] = p}
    IN /\ kv' = [l \in Locations |-> IF l[1] = p THEN Nil ELSE kv[l]]
       /\ ask' = [w \in Workers |-> IF w \in W THEN NoCall ELSE ask[w]]
       /\ reply' = [w \in Workers |-> IF w \in W THEN Pending ELSE reply[w]]
       /\ late' = [w \in Workers |-> IF w \in W THEN Nil ELSE late[w]]
       /\ blind' = blind \ W
       /\ mishaps' = mishaps + 1

KVNext ==
    \/ \E w \in Workers : Invoke(w) \/ Take(w) \/ Blinded(w) \/ Raise(w) \/ Respond(w)
    \/ \E l \in Locations : RunOut(l)
    \/ \E p \in Processes : Vanish(p)

KVSpec == KVInit /\ [][KVNext]_kvVars

=============================================================================
