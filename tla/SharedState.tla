---------------------------- MODULE SharedState ----------------------------
(***************************************************************************)
(* storage/shared_state.py and the callers that take decisions with it:    *)
(* the lease of reconcile (execution/reconciliation.py), the claim of a    *)
(* control event (execution/policies.py) or of a click                     *)
(* (integrations/slack/interactive.py), and the records of SessionStore    *)
(* (interface/session.py), which are set, read, deleted or consumed.       *)
(*                                                                         *)
(* The file backend keeps a file per key: a call holds the process's RLock *)
(* and the key's flock while it reads, writes <key>.tmp and renames it.    *)
(* The memory backend keeps a dictionary per process under the RLock.      *)
(* At any point calls fail, entries run out and processes crash.           *)
(***************************************************************************)
EXTENDS Naturals, FiniteSets

CONSTANTS
    Workers,     \* threads
    Processes,
    ProcOf,      \* the process of a worker
    Leases,      \* the key of NS_RECONCILE_LOCKS, if it is used
    Clicks,      \* keys of yasin_slack_interaction_dedupe
    Events,      \* keys of NS_CONTROL_EVENTS
    Records,     \* keys of the session namespaces
    Values,      \* bound: uuids and payloads, numbered
    InUse,       \* bound: how many of the keys are used in one behaviour
    MaxFaults,   \* bound: failures, entries that run out, crashes
    Nil, Nobody

Claims == Clicks \cup Events
Keys == Leases \cup Claims \cup Records
Disk == "disk"
Locations == (Processes \cup {Disk}) \X Keys

ASSUME SharedStateAssumption ==
    /\ ProcOf \in [Workers -> Processes]
    /\ Disk \notin Processes
    /\ Values \subseteq Nat /\ 1 \in Values /\ Nil \notin Values
    /\ Nobody \notin Workers
    /\ MaxFaults \in Nat /\ InUse \in Nat
    /\ \A k1, k2 \in Leases : k1 = k2
    /\ Leases \cap (Claims \cup Records) = {}
    /\ Clicks \cap Events = {} /\ Claims \cap Records = {}

VARIABLES
    backend,   \* YASIN_SHARED_STATE_BACKEND
    inUse,     \* the keys that are used
    entry,     \* what is stored at each location
    tmp,       \* <key>.tmp
    flock,     \* who holds the lock of a key's file
    mutex,     \* who holds a process's RLock
    pc,        \* where each worker is
    call,      \* the call it has under way
    reply,     \* its outcome
    token,     \* the owner of its lease, or the payload it has read
    faults,
    late,      \* history: a value that lapsed while the worker's call ran
    blind,     \* history: workers whose call could not read its file
    misread,   \* history: locations that could not be read at some time
    overdue,   \* history: workers whose lease has lapsed or failed
    acted      \* history: how often a claim was won since it was last free,
               \* or a record consumed since it was last set

config == <<backend, inUse>>
stored == <<config, entry, tmp, flock, mutex>>
history == <<late, blind, misread, overdue, acted>>
vars == <<stored, pc, call, reply, token, faults, history>>

-----------------------------------------------------------------------------
Maybe == Values \cup {Nil}
Entry(state, value) == [state |-> state, value |-> value]
Absent == Entry("absent", Nil)
Entries == [state : {"absent", "torn", "live", "lapsed"}, value : Maybe]

Ops == {"get", "set", "delete", "cas", "acquire", "release"}
NoCall == [op |-> "none"]
Calls == [op : Ops, at : Locations, old : Maybe, new : Maybe]
Reply(kind, value) == [kind |-> kind, value |-> value]
Pending == Reply("pending", Nil)
Replies == [kind : {"pending", "ok", "no", "error"}, value : Maybe]

\* "body": the pass of reconcile.  "loaded", "consumed": consume_pending_control
\* before its compare_and_set, and before its delete.
Stages == {"idle", "mutex", "flock", "read", "write", "replace", "unlink",
           "unlock", "body", "loaded", "consumed"}

TypeOK ==
    /\ backend \in {"memory", "file"}
    /\ inUse \subseteq Keys
    /\ entry \in [Locations -> Entries]
    /\ tmp \in [Keys -> Entries]
    /\ flock \in [Keys -> Workers \cup {Nobody}]
    /\ mutex \in [Processes -> Workers \cup {Nobody}]
    /\ pc \in [Workers -> Stages]
    /\ call \in [Workers -> Calls \cup {NoCall}]
    /\ reply \in [Workers -> Replies]
    /\ token \in [Workers -> Maybe]
    /\ faults \in 0..MaxFaults
    /\ late \in [Workers -> Maybe]
    /\ blind \subseteq Workers
    /\ misread \subseteq Locations
    /\ overdue \subseteq Workers
    /\ acted \in [Locations -> 0..2]

\* Earlier processes may have left an entry, or a file nobody can parse.
Init ==
    /\ backend \in {"memory", "file"}
    /\ inUse \in {K \in SUBSET Keys : Cardinality(K) = InUse}
    /\ \E k \in inUse, e \in {Absent, Entry("torn", Nil), Entry("live", 1)} :
          entry = [l \in Locations |->
                     IF l = <<Disk, k>> /\ backend = "file" THEN e ELSE Absent]
    /\ acted = [l \in Locations |->
                  IF entry[l].state = "live" /\ l[2] \in Claims THEN 1 ELSE 0]
    /\ tmp = [k \in Keys |-> Absent]
    /\ flock = [k \in Keys |-> Nobody]
    /\ mutex = [p \in Processes |-> Nobody]
    /\ pc = [w \in Workers |-> "idle"]
    /\ call = [w \in Workers |-> NoCall]
    /\ reply = [w \in Workers |-> Pending]
    /\ token = [w \in Workers |-> Nil]
    /\ late = [w \in Workers |-> Nil]
    /\ faults = 0 /\ blind = {} /\ misread = {} /\ overdue = {}

-----------------------------------------------------------------------------
(* The callers.                                                            *)

Where(w, k) == <<IF backend = "file" THEN Disk ELSE ProcOf[w], k>>

\* A uuid or payload not seen before among those of its key: only those are
\* ever compared.
Used(k) ==
    {entry[l].value : l \in {x \in Locations : x[2] = k}} \cup {tmp[k].value}
      \cup {token[w] : w \in {x \in Workers : k \in Leases \cup Records}}
      \cup {call[w].new : w \in {x \in Workers : call[x] # NoCall /\ call[x].at[2] = k}}
Fresh(k) == CHOOSE v \in Values \ Used(k) : \A u \in Values \ Used(k) : v <= u

Ask(w, from, op, k, old, new) ==
    /\ pc[w] = from
    /\ pc' = [pc EXCEPT ![w] = "mutex"]
    /\ call' = [call EXCEPT ![w] =
                  [op |-> op, at |-> Where(w, k), old |-> old, new |-> new]]
    /\ UNCHANGED <<stored, reply, token, faults, history>>

\* reconcile: a lease for 30 s, the pass, the release of its own lease.
Reconcile(w) == \E k \in Leases \cap inUse : Ask(w, "idle", "acquire", k, Nil, Fresh(k))
EndPass(w) == \E k \in Leases \cap inUse : Ask(w, "body", "release", k, Nil, token[w])

\* InteractionDeduper.already_processed; authorize_and_record, whose claims
\* are only ever compared with None.
Click(w) == \E k \in Clicks \cap inUse : Ask(w, "idle", "acquire", k, Nil, Fresh(k))
Handle(w) == \E k \in Events \cap inUse : Ask(w, "idle", "cas", k, Nil, 1)

\* SessionStore.
SaveRecord(w) == \E k \in Records \cap inUse : Ask(w, "idle", "set", k, Nil, Fresh(k))
LoadRecord(w) == \E k \in Records \cap inUse : Ask(w, "idle", "get", k, Nil, Nil)
ClearRecord(w) ==
    \E k \in Records \cap inUse, from \in {"idle", "consumed"} :
       Ask(w, from, "delete", k, Nil, Nil)
ConsumeRecord(w) ==
    \E k \in Records \cap inUse : Ask(w, "loaded", "cas", k, token[w], Nil)

\* The caller goes on.  A pass begins even when try_acquire raised; a click
\* or an event whose claim raised is not acted upon.
After(c, r) ==
    CASE c.at[2] \in Leases /\ c.op = "acquire" /\ r.kind # "no" -> {"body"}
      [] c.op = "get" /\ r.value # Nil -> {"loaded", "idle"}
      [] c.op = "cas" /\ c.at[2] \in Records /\ r.kind = "ok" -> {"consumed"}
      [] OTHER -> {"idle"}

-----------------------------------------------------------------------------
(* The store.                                                              *)

\* What _read makes of an entry, and _purge.
Found(e) == IF e.state = "live" THEN e.value ELSE Nil

\* Mutant: release does not ask whose lease it is.
AcceptsAny(c, v) ==
    CASE c.op = "cas" -> v = c.old
      [] c.op = "acquire" -> v \in {Nil, c.new}
      [] OTHER -> TRUE

Accepts(c, v) ==
    CASE c.op = "cas" -> v = c.old
      [] c.op = "acquire" -> v \in {Nil, c.new}
      [] c.op = "release" -> v = c.new
      [] OTHER -> TRUE

\* The count of an acceptance, for the history.
Counted(c) ==
    CASE c.at[2] \in Claims \/ c.op = "cas" -> IF acted[c.at] < 2 THEN acted[c.at] + 1 ELSE 2
      [] c.op = "set" -> 0
      [] OTHER -> acted[c.at]
Written(c, e) ==
    /\ entry' = [entry EXCEPT ![c.at] = e]
    /\ acted' = [acted EXCEPT ![c.at] = Counted(c)]

Goto(w, stage) == pc' = [pc EXCEPT ![w] = stage]
Answer(w, kind, value) ==
    /\ reply' = [reply EXCEPT ![w] = Reply(kind, value)]
    /\ Goto(w, "unlock")

\* with self._lock
Enter(w) ==
    /\ pc[w] = "mutex"
    /\ mutex[ProcOf[w]] = Nobody
    /\ mutex' = [mutex EXCEPT ![ProcOf[w]] = w]
    /\ Goto(w, IF backend = "file" THEN "flock" ELSE "read")
    /\ UNCHANGED <<config, entry, tmp, flock, call, reply, token, faults, history>>

\* The first statement of the function that runs under the file lock.
First(op) ==
    CASE op = "set" -> "write" [] op = "delete" -> "unlink" [] OTHER -> "read"

\* Mutant: the lock is opened, never taken.
LockOpened(w) ==
    /\ pc[w] = "flock"
    /\ Goto(w, First(call[w].op))
    /\ UNCHANGED <<stored, call, reply, token, faults, history>>

\* _with_file_lock
Lock(w) ==
    /\ pc[w] = "flock"
    /\ LET k == call[w].at[2] IN
       /\ flock[k] = Nobody
       /\ flock' = [flock EXCEPT ![k] = w]
    /\ Goto(w, First(call[w].op))
    /\ UNCHANGED <<config, entry, tmp, mutex, call, reply, token, faults, history>>

\* What follows once value v was read.
Decide(w, v) ==
    LET c == call[w] IN
    CASE c.op = "get" -> Answer(w, "ok", v)
      [] ~Accepts(c, v) -> Answer(w, "no", Nil)
      [] OTHER -> /\ Goto(w, IF c.op = "release" THEN "unlink" ELSE "write")
                  /\ UNCHANGED reply

\* _read: an entry that has run out is unlinked.
Read(w) ==
    /\ backend = "file" /\ pc[w] = "read"
    /\ LET l == call[w].at IN
       /\ Decide(w, Found(entry[l]))
       /\ entry' = IF entry[l].state = "lapsed"
                   THEN [entry EXCEPT ![l] = Absent] ELSE entry
    /\ UNCHANGED <<config, tmp, flock, mutex, call, token, faults, history>>

\* _read returns None when the file cannot be read.
ReadFails(w) ==
    /\ backend = "file" /\ pc[w] = "read"
    /\ faults < MaxFaults /\ faults' = faults + 1
    /\ Decide(w, Nil)
    /\ blind' = blind \cup {w}
    /\ misread' = misread \cup {call[w].at}
    /\ UNCHANGED <<stored, call, token, late, overdue, acted>>

\* Mutant: the key's own file is opened for writing.
WriteInPlace(w) ==
    /\ pc[w] = "write"
    /\ tmp' = [tmp EXCEPT ![call[w].at[2]] = Entry("live", call[w].new)]
    /\ entry' = [entry EXCEPT ![call[w].at] = Entry("torn", Nil)]
    /\ Goto(w, "replace")
    /\ UNCHANGED <<config, flock, mutex, call, reply, token, faults, history>>

\* _write: the file beside it, then os.replace.
Write(w) ==
    /\ pc[w] = "write"
    /\ tmp' = [tmp EXCEPT ![call[w].at[2]] = Entry("live", call[w].new)]
    /\ Goto(w, "replace")
    /\ UNCHANGED <<config, entry, flock, mutex, call, reply, token, faults, history>>

Replace(w) ==
    /\ pc[w] = "replace"
    /\ LET k == call[w].at[2] IN
       /\ Written(call[w], tmp[k])
       /\ tmp' = [tmp EXCEPT ![k] = Absent]
    /\ Answer(w, "ok", Nil)
    /\ UNCHANGED <<config, flock, mutex, call, token, faults,
                   late, blind, misread, overdue>>

\* delete, release
Unlink(w) ==
    /\ pc[w] = "unlink"
    /\ entry' = [entry EXCEPT ![call[w].at] = Absent]
    /\ Answer(w, "ok", Nil)
    /\ UNCHANGED <<config, tmp, flock, mutex, call, token, faults, history>>

\* Mutant: the locks are not given back when the function raises.
WriteRaises(w) ==
    /\ pc[w] \in {"write", "replace", "unlink"}
    /\ faults < MaxFaults /\ faults' = faults + 1
    /\ Goto(w, "idle")
    /\ call' = [call EXCEPT ![w] = NoCall]
    /\ UNCHANGED <<stored, reply, token, history>>

\* A write, a rename or an unlink raises.
WriteFails(w) ==
    /\ pc[w] \in {"write", "replace", "unlink"}
    /\ faults < MaxFaults /\ faults' = faults + 1
    /\ Answer(w, "error", Nil)
    /\ UNCHANGED <<stored, call, token, history>>

\* MemorySharedState: a whole operation under the lock.
Remember(w) ==
    /\ backend = "memory" /\ pc[w] = "read"
    /\ LET c == call[w]
           v == Found(entry[c.at])
       IN /\ Answer(w, IF Accepts(c, v) THEN "ok" ELSE "no",
                    IF c.op = "get" THEN v ELSE Nil)
          /\ IF c.op = "get" \/ ~Accepts(c, v)
             THEN UNCHANGED <<entry, acted>>
             ELSE Written(c, IF c.op \in {"delete", "release"}
                             THEN Absent ELSE Entry("live", c.new))
    /\ UNCHANGED <<config, tmp, flock, mutex, call, token, faults,
                   late, blind, misread, overdue>>

\* Both locks are given back and the caller goes on.
Return(w) ==
    /\ pc[w] = "unlock"
    /\ LET c == call[w]
           k == c.at[2]
           r == reply[w]
       IN /\ flock' = [flock EXCEPT ![k] = IF @ = w THEN Nobody ELSE @]
          /\ \E next \in After(c, r) :
                /\ Goto(w, next)
                /\ token' = [token EXCEPT ![w] =
                               CASE next = "body" -> c.new
                                 [] next = "loaded" -> r.value
                                 [] OTHER -> Nil]
                /\ overdue' = CASE next = "body" /\ r.kind = "error" -> overdue \cup {w}
                                [] next = "idle" -> overdue \ {w}
                                [] OTHER -> overdue
    /\ mutex' = [mutex EXCEPT ![ProcOf[w]] = Nobody]
    /\ call' = [call EXCEPT ![w] = NoCall]
    /\ reply' = [reply EXCEPT ![w] = Pending]
    /\ late' = [late EXCEPT ![w] = Nil]
    /\ blind' = blind \ {w}
    /\ UNCHANGED <<config, entry, tmp, faults, misread, acted>>

-----------------------------------------------------------------------------
(* The world.                                                              *)

\* The worker has, or is about to be told that it has, the lease v.
Holds(w, l, v) ==
    \/ pc[w] = "body" /\ token[w] = v /\ l[1] = Where(w, l[2])[1]
    \/ call[w] # NoCall /\ call[w].at = l /\ call[w].new = v

\* expires_at passes.
Lapse(l) ==
    /\ Found(entry[l]) # Nil
    /\ faults < MaxFaults /\ faults' = faults + 1
    /\ entry' = [entry EXCEPT ![l].state = "lapsed"]
    /\ late' = [w \in Workers |->
                  IF call[w] # NoCall /\ call[w].at = l THEN entry[l].value
                  ELSE late[w]]
    /\ overdue' = overdue \cup
         {w \in Workers : l[2] \in Leases /\ Holds(w, l, entry[l].value)}
    /\ acted' = IF l[2] \in Claims THEN [acted EXCEPT ![l] = 0] ELSE acted
    /\ UNCHANGED <<config, tmp, flock, mutex, pc, call, reply, token,
                   blind, misread>>

\* A process ends and is started again; the kernel gives its locks back.
Crash(p) ==
    LET lost == {w \in Workers : ProcOf[w] = p}
        gone(l) == backend = "memory" /\ l[1] = p
        keep(f, none) == [w \in Workers |-> IF w \in lost THEN none ELSE f[w]]
    IN /\ faults < MaxFaults /\ faults' = faults + 1
       /\ pc' = keep(pc, "idle")
       /\ call' = keep(call, NoCall)
       /\ reply' = keep(reply, Pending)
       /\ token' = keep(token, Nil)
       /\ late' = keep(late, Nil)
       /\ mutex' = [mutex EXCEPT ![p] = Nobody]
       /\ flock' = [k \in Keys |-> IF flock[k] \in lost THEN Nobody ELSE flock[k]]
       /\ entry' = [l \in Locations |-> IF gone(l) THEN Absent ELSE entry[l]]
       /\ acted' = [l \in Locations |-> IF gone(l) THEN 0 ELSE acted[l]]
       /\ blind' = blind \ lost
       /\ overdue' = overdue \ lost
       /\ UNCHANGED <<config, tmp, misread>>

Step(w) ==
    \/ Enter(w) \/ Lock(w) \/ Read(w) \/ ReadFails(w) \/ Write(w) \/ Replace(w)
    \/ Unlink(w) \/ WriteFails(w) \/ Remember(w) \/ Return(w)

Begin(w) ==
    \/ Reconcile(w) \/ EndPass(w) \/ Click(w) \/ Handle(w)
    \/ SaveRecord(w) \/ LoadRecord(w) \/ ClearRecord(w) \/ ConsumeRecord(w)

Next ==
    \/ \E w \in Workers : Begin(w) \/ Step(w)
    \/ \E l \in Locations : Lapse(l)
    \/ \E p \in Processes : Crash(p)

Spec == Init /\ [][Next]_vars

-----------------------------------------------------------------------------
(* Properties.                                                             *)

Contents == [l \in Locations |-> Found(entry[l])]

Abstract == INSTANCE KeyValue WITH kv <- Contents, ask <- call, mishaps <- faults

\* Every call takes effect at one instant between its start and its return,
\* in either backend, although it reads, writes and renames files in steps and
\* may be cut short at each of them; only a call that was under way when an
\* entry ran out, or could not read its file, may act as if it had (not) seen it.
ImplementsKeyValue == Abstract!KVSpec

\* A pass of reconcile whose lease has neither run out nor failed has its lease
\* in the store: no late release of an earlier pass has taken it away, and no
\* other worker has got it.
LeaseIntact ==
    \A w \in Workers, k \in Leases : LET l == Where(w, k) IN
       pc[w] = "body" /\ w \notin overdue /\ l \notin misread
         => entry[l] = Entry("live", token[w])

\* A click or an event is acted upon once while its claim lasts, and a pending
\* confirmation is consumed once, whatever fails or crashes on the way, unless
\* its file could not be read.
ActedOnce == \A l \in Locations \ misread : acted[l] <= 1

\* Whoever holds the lock of a key's file or of a process is in a call for that
\* key, past the point where it took the lock: no failure and no crash leaves a
\* lock behind, and nobody works on a file without its lock.
LocksMatchCalls ==
    \A w \in Workers :
       LET working == pc[w] \in {"read", "write", "replace", "unlink", "unlock"}
       IN /\ mutex[ProcOf[w]] = w <=> working \/ pc[w] = "flock"
          /\ \A k \in Keys :
                flock[k] = w <=> working /\ backend = "file" /\ call[w].at[2] = k

=============================================================================
