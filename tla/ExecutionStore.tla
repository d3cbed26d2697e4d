--------------------------- MODULE ExecutionStore ---------------------------
(***************************************************************************)
(* The execution store of the hub: ExecutionObserverStore                  *)
(* (observer/execution_store.py) with the durability hooks that            *)
(* observer/lifecycle_ext.py installs over it.                             *)
(*                                                                         *)
(* An operation is a sequence of critical sections of the store's RLock    *)
(* with unlocked work between them, so each thread carries a program       *)
(* counter.  A transition is: the wrapper reads the status it will audit;  *)
(* the status changes under the lock; two events are emitted, each in two  *)
(* critical sections (the number is drawn, the event is appended); the     *)
(* object is serialised, written to <id>.tmp and renamed to <id>.json; an  *)
(* audit row is recorded.                                                  *)
(*                                                                         *)
(* Snapshots are Python objects shared by reference: complete() and fail() *)
(* change the current object in place and a persisting thread serialises   *)
(* the object it holds, so the store is modelled as the sequence of the    *)
(* objects stored under an id, the last one being the current one.         *)
(***************************************************************************)
EXTENDS Lifecycle, Integers, Sequences, FiniteSets

CONSTANTS
    Threads,       \* the threads that call the store
    Ids,           \* execution ids
    Results,       \* what complete() may be given
    NoResult,      \* result is None
    Projections,   \* snapshots the agent runtime may report (upsert_execution)
    NoThread,      \* the RLock is free
    Durable,       \* a durable directory is configured (backend "file")
    DiskFaults,    \* file operations may fail (disk full, permissions)
    Absent, Empty, Torn, \* a file that does not exist, is empty, does not parse
    MaxObjects,    \* bound: objects stored per id since the process started
    MaxHistory,    \* bound: length of a snapshot's history
    MaxRestarts    \* bound: restarts of the hub

VARIABLES
    objects,     \* objects[e]: the objects stored under e, the last is current
    lock,        \* holder of the RLock between two steps of one thread
    seq,         \* _seq
    events,      \* _events, ordered by their sequence number
    pc,          \* where each thread is
    call,        \* the call each thread is in
    obj,         \* index in objects[call.id] of the object the thread holds
    emitting,    \* the event types the thread has still to emit
    ticket,      \* the sequence number the thread has drawn and not yet used
    auditFrom,   \* the "from" status the thread will audit
    image,       \* the snapshot the thread has serialised
    fd,          \* what the thread's open file is by now: <id>.tmp, <id>.json
    sweep,       \* recover_stale: the stale executions still to be failed
    reported,    \* recover_stale: the executions its findings name
    raised,      \* the operation whose InvalidTransitionError the thread got
    tmp,         \* content of <id>.tmp
    durable,     \* content of <id>.json
    degraded,    \* get_execution_persistence_status() is "degraded"
    audited,     \* the lifecycle rows this process has written to the audit store
    unsaved,     \* history variable: objects <<id, index>> that failed to be saved
    restarts     \* number of restarts so far

threadVars == <<pc, call, obj>>
logVars == <<seq, events, emitting, ticket>>
auditVars == <<auditFrom, audited>>
fileVars == <<image, fd, tmp, durable, degraded, unsaved>>
sweepVars == <<sweep, reported>>
vars == <<objects, lock, threadVars, logVars, auditVars, fileVars, sweepVars,
          raised, restarts>>

-----------------------------------------------------------------------------
(* Snapshots.                                                              *)

\* origin is a history field: the operation that stored the object.
Snapshot ==
    [status : Status, history : Seq(Status), error : BOOLEAN,
     result : Results \cup {NoResult}, cancel_requested : BOOLEAN,
     origin : {"create", "transition", "project", "reload"}]

Event == [sequence : Nat, id : Ids, obj : Nat, type : EventTypes]

IsTerminal(snap) == snap.status \in TerminalStatus

Known(e) == objects[e] # <<>>

Current(e) == objects[e][Len(objects[e])]

\* What upsert_execution is given is a snapshot, and not one of a transition.
ASSUME ProjectionsAssumption ==
    Projections \subseteq {snap \in Snapshot : snap.origin = "project"}

\* The snapshot create_execution builds.
NewSnapshot ==
    [status |-> "queued", history |-> <<"queued">>, error |-> FALSE,
     result |-> NoResult, cancel_requested |-> FALSE, origin |-> "create"]

\* Mutant: the result is not carried over to the new snapshot.
MovedWithoutResult(rec, target) ==
    [rec EXCEPT !.status = target, !.history = Append(@, target),
                !.result = NoResult, !.origin = "transition"]

\* The snapshot _transition builds from the current one.
Moved(rec, target) ==
    [rec EXCEPT !.status = target,
                !.history = Append(@, target),
                !.cancel_requested = @ \/ target = "cancelled",
                !.origin = "transition"]

\* A file that is missing, empty or torn is told from one that parses.
ASSUME ContentsAssumption ==
    /\ {Absent, Empty, Torn} \cap Snapshot = {}
    /\ Absent \notin {Empty, Torn}

-----------------------------------------------------------------------------
(* Calls.                                                                  *)

\* start and resume are the same operation: a transition to "running".
Target == [start |-> "running", pause |-> "paused", cancel |-> "cancelled",
           complete |-> "succeeded", fail |-> "failed"]

Moves == DOMAIN Target

NoCall == [op |-> "none"]

Calls == {NoCall} \cup [op : Moves \cup {"create", "project"}, id : Ids]

Stages == {"idle", "wrap", "transition", "emit", "append", "serialise", "open",
           "write", "replace", "audit", "sweep"}

\* A critical section can run when no other thread holds the RLock.
CanLock(t) == lock \in {NoThread, t}

\* The public methods are called with executions that exist; an unknown id
\* raises KeyError and changes nothing.
MayCall(t, e) ==
    /\ pc[t] = "idle"
    /\ Known(e)
    /\ Len(objects[e]) < MaxObjects
    /\ Len(Current(e).history) < MaxHistory

\* Thread t enters operation op on e and goes to stage.
Enter(t, op, e, stage) ==
    /\ call' = [call EXCEPT ![t] = [op |-> op, id |-> e]]
    /\ pc' = [pc EXCEPT ![t] = stage]
    /\ raised' = [raised EXCEPT ![t] = "none"]

\* Mutant: the lock that complete holds is not given back.
ReturnKeepingLock(t) ==
    /\ pc' = [pc EXCEPT ![t] = IF reported[t] = {} THEN "idle" ELSE "sweep"]
    /\ call' = [call EXCEPT ![t] = NoCall]
    /\ obj' = [obj EXCEPT ![t] = 0]
    /\ auditFrom' = [auditFrom EXCEPT ![t] = "queued"]
    /\ UNCHANGED lock

\* The call of t is over: inside recover_stale the loop goes on.
Return(t) ==
    /\ pc' = [pc EXCEPT ![t] = IF reported[t] = {} THEN "idle" ELSE "sweep"]
    /\ call' = [call EXCEPT ![t] = NoCall]
    /\ obj' = [obj EXCEPT ![t] = 0]
    /\ auditFrom' = [auditFrom EXCEPT ![t] = "queued"]
    /\ lock' = IF lock = t THEN NoThread ELSE lock

\* Replace the current object of e by snap, in place.
Mutate(e, snap) ==
    objects' = [objects EXCEPT ![e] = [@ EXCEPT ![Len(@)] = snap]]

\* Store a new object under e and let t hold it.
Store(t, e, snap) ==
    /\ objects' = [objects EXCEPT ![e] = Append(@, snap)]
    /\ obj' = [obj EXCEPT ![t] = Len(objects[e]) + 1]

-----------------------------------------------------------------------------
Init ==
    /\ objects = [e \in Ids |-> <<>>]
    /\ lock = NoThread
    /\ seq = 0
    /\ events = {}
    /\ pc = [t \in Threads |-> "idle"]
    /\ call = [t \in Threads |-> NoCall]
    /\ obj = [t \in Threads |-> 0]
    /\ emitting = [t \in Threads |-> <<>>]
    /\ ticket = [t \in Threads |-> 0]
    /\ auditFrom = [t \in Threads |-> "queued"]
    /\ image = [t \in Threads |-> Absent]
    /\ fd = [t \in Threads |-> "closed"]
    /\ sweep = [t \in Threads |-> {}]
    /\ reported = [t \in Threads |-> {}]
    /\ raised = [t \in Threads |-> "none"]
    /\ tmp = [e \in Ids |-> Absent]
    /\ durable = [e \in Ids |-> Absent]
    /\ degraded = FALSE
    /\ audited = {}
    /\ unsaved = {}
    /\ restarts = 0

-----------------------------------------------------------------------------
(* The entry of each operation.                                            *)

\* create_execution: every caller passes a fresh id.  The snapshot is stored,
\* then persisted, then announced.
Create(t, e) ==
    /\ pc[t] = "idle" /\ CanLock(t)
    /\ ~Known(e) /\ durable[e] = Absent /\ tmp[e] = Absent
    /\ Enter(t, "create", e, "serialise")
    /\ Store(t, e, NewSnapshot)
    /\ emitting' = [emitting EXCEPT ![t] = <<"execution.created">>]
    /\ UNCHANGED <<lock, seq, events, ticket, auditVars, fileVars, sweepVars,
                   restarts>>

\* upsert_execution with a snapshot of the agent runtime: it replaces the
\* current object whatever its status is, or makes the execution known.
Project(t, e) ==
    /\ pc[t] = "idle" /\ CanLock(t)
    /\ Len(objects[e]) < MaxObjects
    /\ Enter(t, "project", e, "serialise")
    /\ \E snap \in Projections : Store(t, e, snap)
    /\ UNCHANGED <<lock, logVars, auditVars, fileVars, sweepVars, restarts>>

\* start, resume and pause go straight to the wrapper of _transition.
CallMove(t, e) ==
    /\ MayCall(t, e)
    /\ \E op \in {"start", "pause"} : Enter(t, op, e, "wrap")
    /\ UNCHANGED <<objects, lock, obj, logVars, auditVars, fileVars,
                   sweepVars, restarts>>

\* cancel has something to do.
CancelNeeded(rec) == ~IsTerminal(rec)

\* cancel returns at once when the execution is terminal; otherwise it drops
\* the lock and asks for the transition.
CallCancel(t, e) ==
    /\ MayCall(t, e) /\ CanLock(t)
    /\ CancelNeeded(Current(e))
    /\ Enter(t, "cancel", e, "wrap")
    /\ UNCHANGED <<objects, lock, obj, logVars, auditVars, fileVars,
                   sweepVars, restarts>>

\* complete writes the result into the current object, even of a terminal
\* execution, drops the lock and asks for the transition.
CallComplete(t, e) ==
    /\ MayCall(t, e) /\ CanLock(t)
    /\ ~Current(e).cancel_requested \/ IsTerminal(Current(e))
    /\ \E r \in Results : Mutate(e, [Current(e) EXCEPT !.result = r])
    /\ Enter(t, "complete", e, "wrap")
    /\ UNCHANGED <<lock, obj, logVars, auditVars, fileVars, sweepVars,
                   restarts>>

\* complete on an execution whose cancellation is requested cancels it: the
\* whole cancel runs inside complete's critical section.
CompleteHonoursCancel(t, e) ==
    /\ MayCall(t, e) /\ CanLock(t)
    /\ Current(e).cancel_requested /\ ~IsTerminal(Current(e))
    /\ lock' = t
    /\ Enter(t, "cancel", e, "wrap")
    /\ UNCHANGED <<objects, obj, logVars, auditVars, fileVars, sweepVars,
                   restarts>>

\* fail writes the error into the current object; a terminal execution is
\* returned as it is, otherwise the transition follows.  recover_stale calls
\* it for each execution of its list.
FailEntry(t, e) ==
    /\ CanLock(t)
    /\ Mutate(e, [Current(e) EXCEPT !.error = TRUE])
    /\ IF IsTerminal(Current(e))
       THEN UNCHANGED <<pc, call, raised>>
       ELSE Enter(t, "fail", e, "wrap")
    /\ UNCHANGED <<lock, obj, reported, logVars, auditVars, fileVars,
                   restarts>>

CallFail(t, e) ==
    /\ MayCall(t, e)
    /\ FailEntry(t, e)
    /\ UNCHANGED sweep

\* recover_stale takes the list of the stale executions under the lock.
BeginSweep(t) ==
    /\ pc[t] = "idle" /\ CanLock(t)
    /\ \E stale \in SUBSET {e \in Ids : Known(e) /\ ~IsTerminal(Current(e))} :
           /\ stale # {}
           /\ sweep' = [sweep EXCEPT ![t] = stale]
           /\ reported' = [reported EXCEPT ![t] = stale]
    /\ pc' = [pc EXCEPT ![t] = "sweep"]
    /\ raised' = [raised EXCEPT ![t] = "none"]
    /\ UNCHANGED <<objects, lock, call, obj, logVars, auditVars, fileVars,
                   restarts>>

SweepFail(t) ==
    /\ pc[t] = "sweep"
    /\ \E e \in sweep[t] :
           /\ FailEntry(t, e)
           /\ sweep' = [sweep EXCEPT ![t] = @ \ {e}]

EndSweep(t) ==
    /\ pc[t] = "sweep" /\ sweep[t] = {}
    /\ pc' = [pc EXCEPT ![t] = "idle"]
    /\ reported' = [reported EXCEPT ![t] = {}]
    /\ UNCHANGED <<objects, lock, call, obj, sweep, logVars, auditVars,
                   fileVars, raised, restarts>>

-----------------------------------------------------------------------------
(* The transition.                                                         *)

\* The wrapper reads the status it will write in the audit row.
ReadAuditFrom(t) ==
    /\ pc[t] = "wrap" /\ CanLock(t)
    /\ auditFrom' = [auditFrom EXCEPT ![t] = Current(call[t].id).status]
    /\ pc' = [pc EXCEPT ![t] = "transition"]
    /\ UNCHANGED <<objects, lock, call, obj, audited, logVars, fileVars,
                   sweepVars, raised, restarts>>

\* Mutant: the transition is checked against the status the wrapper read.
StatusReadByWrapper(t) == auditFrom[t]

\* The status the transition is checked against.
StatusToLeave(t) == Current(call[t].id).status

\* Mutant: the event is named after the status the wrapper read.
AnnounceFromWrapper(t, target) ==
    <<EventType(auditFrom[t], target), "execution.state_changed">>

\* The events the transition owes.
Announcements(t, target) ==
    <<EventType(StatusToLeave(t), target), "execution.state_changed">>

\* The status changes and the thread owes two events.
Transition(t) ==
    LET e == call[t].id
        target == Target[call[t].op]
    IN  /\ pc[t] = "transition" /\ CanLock(t)
        /\ target \in Allowed[StatusToLeave(t)]
        /\ Store(t, e, Moved(Current(e), target))
        /\ emitting' = [emitting EXCEPT ![t] = Announcements(t, target)]
        /\ pc' = [pc EXCEPT ![t] = "emit"]
        /\ UNCHANGED <<lock, seq, events, call, ticket, auditVars, fileVars,
                       sweepVars, raised, restarts>>

\* InvalidTransitionError; recover_stale swallows it.
Reject(t) ==
    /\ pc[t] = "transition" /\ CanLock(t)
    /\ Target[call[t].op] \notin Allowed[StatusToLeave(t)]
    /\ Return(t)
    /\ raised' = [raised EXCEPT ![t] =
                      IF reported[t] = {} THEN call[t].op ELSE "none"]
    /\ UNCHANGED <<objects, audited, logVars, fileVars, sweepVars, restarts>>

\* Mutant: events are numbered by the length of the log.
TicketFromLog == Cardinality(events) + 1

\* The next sequence number.
NextTicket == seq + 1

\* emit_event, first critical section: the sequence number is drawn.
DrawTicket(t) ==
    /\ pc[t] = "emit" /\ CanLock(t)
    /\ seq' = NextTicket
    /\ ticket' = [ticket EXCEPT ![t] = NextTicket]
    /\ pc' = [pc EXCEPT ![t] = "append"]
    /\ UNCHANGED <<objects, lock, events, call, obj, emitting, auditVars,
                   fileVars, sweepVars, raised, restarts>>

\* emit_event, second critical section: the event is appended.  A transition
\* is persisted after its last event; create_execution is over.
AppendEvent(t) ==
    /\ pc[t] = "append" /\ CanLock(t)
    /\ events' = events \cup
           {[sequence |-> ticket[t], id |-> call[t].id, obj |-> obj[t],
             type |-> Head(emitting[t])]}
    /\ ticket' = [ticket EXCEPT ![t] = 0]
    /\ emitting' = [emitting EXCEPT ![t] = Tail(@)]
    /\ \/ /\ Len(emitting[t]) > 1
          /\ pc' = [pc EXCEPT ![t] = "emit"]
          /\ UNCHANGED <<lock, call, obj, auditFrom>>
       \/ /\ Len(emitting[t]) = 1 /\ call[t].op \in Moves
          /\ pc' = [pc EXCEPT ![t] = "serialise"]
          /\ UNCHANGED <<lock, call, obj, auditFrom>>
       \/ /\ Len(emitting[t]) = 1 /\ call[t].op = "create"
          /\ Return(t)
    /\ UNCHANGED <<objects, seq, audited, fileVars, sweepVars, raised,
                   restarts>>

-----------------------------------------------------------------------------
(* _persist_execution, outside the lock: serialise, open <id>.tmp (which   *)
(* truncates it), write and close, rename to <id>.json.  Two threads that  *)
(* persist the same id share <id>.tmp; a rename moves the file that        *)
(* another thread has open.                                                *)

\* Mutant: the snapshot before the transition is saved.
SnapshotBefore(t) ==
    objects[call[t].id][IF obj[t] = 1 THEN 1 ELSE obj[t] - 1]

\* The object the thread saves.
SnapshotToSave(t) == objects[call[t].id][obj[t]]

Serialise(t) ==
    /\ pc[t] = "serialise" /\ Durable
    /\ image' = [image EXCEPT ![t] = SnapshotToSave(t)]
    /\ pc' = [pc EXCEPT ![t] = "open"]
    /\ UNCHANGED <<objects, lock, call, obj, fd, tmp, durable, degraded,
                   unsaved, logVars, auditVars, sweepVars, raised, restarts>>

\* Mutant: <id>.json is written in place.
OpenInPlace(t) ==
    /\ pc[t] = "open"
    /\ durable' = [durable EXCEPT ![call[t].id] = Empty]
    /\ tmp' = [tmp EXCEPT ![call[t].id] = Empty]
    /\ fd' = [fd EXCEPT ![t] = "durable"]
    /\ pc' = [pc EXCEPT ![t] = "write"]
    /\ UNCHANGED <<objects, lock, call, obj, image, degraded, unsaved,
                   logVars, auditVars, sweepVars, raised, restarts>>

OpenTmp(t) ==
    /\ pc[t] = "open"
    /\ tmp' = [tmp EXCEPT ![call[t].id] = Empty]
    /\ fd' = [fd EXCEPT ![t] = "tmp"]
    /\ pc' = [pc EXCEPT ![t] = "write"]
    /\ UNCHANGED <<objects, lock, call, obj, image, durable, degraded,
                   unsaved, logVars, auditVars, sweepVars, raised, restarts>>

\* What a file may hold after snap is written over old from its start: what
\* is left of a longer content makes it unreadable.
Overlay(old, snap) == IF old \in {Empty, snap} THEN {snap} ELSE {snap, Torn}

\* The content of the file that thread t has open, and its replacement.
OpenContent(t) ==
    CASE fd[t] = "tmp"     -> tmp[call[t].id]
      [] fd[t] = "durable" -> durable[call[t].id]
      [] OTHER             -> Empty

SetOpenContent(t, content) ==
    /\ tmp' = IF fd[t] = "tmp" THEN [tmp EXCEPT ![call[t].id] = content] ELSE tmp
    /\ durable' = IF fd[t] = "durable"
                  THEN [durable EXCEPT ![call[t].id] = content] ELSE durable

WriteTmp(t) ==
    /\ pc[t] = "write"
    /\ \E content \in Overlay(OpenContent(t), image[t]) : SetOpenContent(t, content)
    /\ fd' = [fd EXCEPT ![t] = "closed"]
    /\ pc' = [pc EXCEPT ![t] = "replace"]
    /\ UNCHANGED <<objects, lock, call, obj, image, degraded, unsaved,
                   logVars, auditVars, sweepVars, raised, restarts>>

\* After the persist: create_execution emits its event, upsert_execution
\* returns, a transition is audited.
AfterPersist(t) ==
    /\ image' = [image EXCEPT ![t] = Absent]
    /\ \/ /\ call[t].op = "create"
          /\ pc' = [pc EXCEPT ![t] = "emit"]
          /\ UNCHANGED <<lock, call, obj, auditFrom>>
       \/ /\ call[t].op = "project"
          /\ Return(t)
       \/ /\ call[t].op \in Moves
          /\ pc' = [pc EXCEPT ![t] = "audit"]
          /\ UNCHANGED <<lock, call, obj, auditFrom>>

\* Where the file that a thread has open for e is after the rename.
Renamed(e) ==
    [t \in Threads |->
        IF fd[t] = "closed" \/ call[t].id # e THEN fd[t]
        ELSE IF fd[t] = "tmp" THEN "durable" ELSE "unlinked"]

\* Without a durable directory _persist_execution returns at once.
SkipPersist(t) ==
    /\ pc[t] = "serialise" /\ ~Durable
    /\ AfterPersist(t)
    /\ UNCHANGED <<objects, fd, tmp, durable, degraded, unsaved, audited,
                   logVars, sweepVars, raised, restarts>>

Replace(t) ==
    LET e == call[t].id
    IN  /\ pc[t] = "replace"
        /\ tmp[e] # Absent
        /\ durable' = [durable EXCEPT ![e] = tmp[e]]
        /\ tmp' = [tmp EXCEPT ![e] = Absent]
        /\ fd' = Renamed(e)
        /\ degraded' = FALSE
        /\ unsaved' = {u \in unsaved : u[1] # e \/ u[2] > obj[t]}
        /\ AfterPersist(t)
        /\ UNCHANGED <<objects, audited, logVars, sweepVars, raised,
                       restarts>>

\* An OSError of the open, the write or the rename is counted and swallowed;
\* the failing write may have left part of its text in the file.
PersistFails(t) ==
    /\ DiskFaults \/ (pc[t] = "replace" /\ tmp[call[t].id] = Absent)
    /\ \/ /\ pc[t] \in {"open", "replace"}
          /\ UNCHANGED <<tmp, durable>>
       \/ /\ pc[t] = "write"
          /\ \E content \in {OpenContent(t), Torn} : SetOpenContent(t, content)
    /\ fd' = [fd EXCEPT ![t] = "closed"]
    /\ degraded' = TRUE
    /\ unsaved' = unsaved \cup {<<call[t].id, obj[t]>>}
    /\ AfterPersist(t)
    /\ UNCHANGED <<objects, audited, logVars, sweepVars, raised, restarts>>

\* The row of a transition.
AuditRow(t) == [id |-> call[t].id, obj |-> obj[t], from |-> auditFrom[t]]

\* The lifecycle row is written to the audit store; a failure is swallowed.
Audit(t) ==
    /\ pc[t] = "audit"
    /\ \/ audited' = audited \cup {AuditRow(t)}
       \/ DiskFaults /\ UNCHANGED audited
    /\ Return(t)
    /\ UNCHANGED <<objects, logVars, fileVars, sweepVars, raised, restarts>>

-----------------------------------------------------------------------------
\* Mutant: the status is read under a wrong key and defaults to "queued".
ReloadedQueued(content) ==
    IF content \in {Absent, Empty, Torn} THEN <<>>
    ELSE <<[content EXCEPT !.status = "queued", !.origin = "reload"]>>

\* What load_durable stores for a file: nothing when it does not parse.
Reloaded(content) ==
    IF content \in {Absent, Empty, Torn} THEN <<>>
    ELSE <<[content EXCEPT !.origin = "reload"]>>

\* The hub stops at any point and starts again: load_durable reads the files
\* that parse; events, sequence numbers and the degraded signal start afresh.
Restart ==
    /\ restarts < MaxRestarts
    /\ restarts' = restarts + 1
    /\ objects' = [e \in Ids |-> Reloaded(durable[e])]
    /\ lock' = NoThread
    /\ seq' = 0
    /\ events' = {}
    /\ pc' = [t \in Threads |-> "idle"]
    /\ call' = [t \in Threads |-> NoCall]
    /\ obj' = [t \in Threads |-> 0]
    /\ emitting' = [t \in Threads |-> <<>>]
    /\ ticket' = [t \in Threads |-> 0]
    /\ auditFrom' = [t \in Threads |-> "queued"]
    /\ image' = [t \in Threads |-> Absent]
    /\ fd' = [t \in Threads |-> "closed"]
    /\ sweep' = [t \in Threads |-> {}]
    /\ reported' = [t \in Threads |-> {}]
    /\ raised' = [t \in Threads |-> "none"]
    /\ degraded' = FALSE
    /\ audited' = {}
    /\ unsaved' = {}
    /\ UNCHANGED <<tmp, durable>>

\* A thread enters an operation.
Call(t) ==
    \/ \E e \in Ids : \/ Create(t, e) \/ Project(t, e) \/ CallMove(t, e)
                      \/ CallCancel(t, e) \/ CallComplete(t, e)
                      \/ CompleteHonoursCancel(t, e) \/ CallFail(t, e)
    \/ BeginSweep(t)

\* A thread goes on with the operation it is in.
Step(t) ==
    \/ SweepFail(t) \/ EndSweep(t)
    \/ ReadAuditFrom(t) \/ Transition(t) \/ Reject(t)
    \/ DrawTicket(t) \/ AppendEvent(t)
    \/ Serialise(t) \/ SkipPersist(t)
    \/ OpenTmp(t) \/ WriteTmp(t) \/ Replace(t) \/ PersistFails(t)
    \/ Audit(t)

Next == (\E t \in Threads : Call(t) \/ Step(t)) \/ Restart

Spec == Init /\ [][Next]_vars

\* The operating system runs every thread that is inside an operation.
FairSpec == Spec /\ \A t \in Threads : WF_vars(Step(t))

-----------------------------------------------------------------------------
(* Properties.                                                             *)

FileContent == Snapshot \cup {Absent, Empty, Torn}

TypeOK ==
    /\ objects \in [Ids -> Seq(Snapshot)]
    /\ lock \in Threads \cup {NoThread}
    /\ seq \in Nat
    /\ events \subseteq Event
    /\ pc \in [Threads -> Stages]
    /\ call \in [Threads -> Calls]
    /\ obj \in [Threads -> Nat]
    /\ emitting \in [Threads -> Seq(EventTypes)]
    /\ ticket \in [Threads -> Nat]
    /\ auditFrom \in [Threads -> Status]
    /\ image \in [Threads -> FileContent]
    /\ fd \in [Threads -> {"closed", "tmp", "durable", "unlinked"}]
    /\ sweep \in [Threads -> SUBSET Ids]
    /\ reported \in [Threads -> SUBSET Ids]
    /\ raised \in [Threads -> Moves \cup {"none"}]
    /\ tmp \in [Ids -> FileContent]
    /\ durable \in [Ids -> FileContent]
    /\ degraded \in BOOLEAN
    /\ audited \subseteq [id : Ids, obj : Nat, from : Status]
    /\ unsaved \subseteq Ids \X Nat
    /\ restarts \in Nat

\* Inside an operation a thread knows its execution, holds an object of it and,
\* while it publishes, has an event to emit.
ThreadOK(t) ==
    /\ call[t] = NoCall <=> pc[t] \in {"idle", "sweep"}
    /\ call[t] # NoCall => Known(call[t].id)
    /\ pc[t] \in {"wrap", "transition"} => call[t].op \in Moves
    /\ pc[t] \in {"emit", "append", "serialise", "open", "write", "replace", "audit"}
           => obj[t] \in DOMAIN objects[call[t].id]
    /\ pc[t] \in {"emit", "append"} => emitting[t] # <<>>
    /\ call[t] # NoCall /\ call[t].op = "create" => emitting[t] # <<>>
    /\ \A e \in sweep[t] : Known(e)

ControlOK == \A t \in Threads : ThreadOK(t)

\* The numbers drawn and not yet used are no event's, and nobody else's.
TicketsOK ==
    /\ \A x \in events : x.sequence <= seq
    /\ \A t \in Threads : pc[t] = "append" =>
           /\ ticket[t] <= seq
           /\ \A x \in events : x.sequence # ticket[t]
           /\ \A u \in Threads \ {t} : pc[u] = "append" => ticket[u] # ticket[t]

\* Whatever the threads interleave, the object that follows a terminal one is
\* never the work of a transition, and every transition goes along the
\* lifecycle from the object it replaces.  (_transition checks and stores in
\* one critical section; its callers checked in an earlier one.)
LifecycleRespected ==
    \A e \in Ids : \A k \in 2..Len(objects[e]) :
        objects[e][k].origin = "transition" =>
            objects[e][k].status \in Allowed[objects[e][k - 1].status]

\* Two events never carry the same number, although the number is drawn in
\* one critical section and used in another.
EventSequencesUnique ==
    \A x, y \in events : x.sequence = y.sequence => x = y

\* The events on object k of e.
EventsOf(e, k) == {x \in events : x.id = e /\ x.obj = k}

Publishing(t, e, k) ==
    pc[t] \in {"emit", "append"} /\ call[t].id = e /\ obj[t] = k

\* No transition is lost to the event log: as soon as no thread is publishing
\* it, both its events are there, and the event that names it says what
\* happened between the object it replaced and the new one.
TransitionsPublished ==
    \A e \in Ids : \A k \in 2..Len(objects[e]) :
        objects[e][k].origin = "transition" =>
            \/ \E t \in Threads : Publishing(t, e, k)
            \/ {x.type : x \in EventsOf(e, k)} =
                   {EventType(objects[e][k - 1].status, objects[e][k].status),
                    "execution.state_changed"}

\* A success carries a result and a failure an error, although they are
\* written into one object and carried over by the transition that follows,
\* with any other transition in between.
OutcomeRecorded ==
    \A e \in Ids : \A k \in 1..Len(objects[e]) :
        LET snap == objects[e][k]
        IN  snap.origin \in {"transition", "reload"} =>
                /\ snap.status = "succeeded" => snap.result # NoResult
                /\ snap.status = "failed" => snap.error

\* The history of an object is a path of the lifecycle that ends in its status.
PathsOf(e) ==
    \A k \in 1..Len(objects[e]) :
        LET h == objects[e][k].history
        IN  /\ h # <<>> /\ h[1] = "queued" /\ h[Len(h)] = objects[e][k].status
            /\ \A n \in 1..(Len(h) - 1) : h[n + 1] \in Allowed[h[n]]

\* Every execution keeps such a history across concurrent transitions, crashes
\* and reloads.  (It holds without reports of the agent runtime, which replace
\* the history by what ingest_event has put together.)
HistoryIsPath == \A e \in Ids : PathsOf(e)

\* When no call is running, what a restart would load has the status the hub
\* shows, unless saving that status failed.
DurableAtRest ==
    (\A t \in Threads : pc[t] = "idle") =>
        \A e \in Ids :
            Known(e) /\ (\A u \in unsaved : u[1] # e) =>
                /\ durable[e] \notin {Absent, Empty, Torn}
                /\ durable[e].status = Current(e).status

\* However persisting threads interleave on <id>.tmp, a file that parses holds
\* an object that was stored under its id and not a mixture of several.
FileWasStored ==
    \A e \in Ids :
        durable[e] \notin {Absent, Empty, Torn} =>
            \E k \in DOMAIN objects[e] :
                /\ objects[e][k].status = durable[e].status
                /\ objects[e][k].history = durable[e].history

\* A crash at any instant finds a file that is absent or parses.
DurableReadable == \A e \in Ids : durable[e] \notin {Empty, Torn}

\* Every operation returns: the lock is always given back.
CallsReturn == \A t \in Threads : pc[t] # "idle" ~> pc[t] = "idle"

=============================================================================
