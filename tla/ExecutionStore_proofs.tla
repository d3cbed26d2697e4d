----------------------- MODULE ExecutionStore_proofs -----------------------
(***************************************************************************)
(* Proofs about ExecutionStore for any threads, ids and bounds: the types  *)
(* hold, events never share a sequence number, no interleaving leaves the  *)
(* lifecycle, what objects and files may hold, that no transition is lost  *)
(* to the event log, and that the store implements ExecutionLifecycle.     *)
(***************************************************************************)
EXTENDS ExecutionStoreRefinement, SequenceTheorems, TLAPS

\* Type correctness is not inductive alone: that the current object of a call's
\* execution exists and that a publishing thread has an event to emit is the
\* work of ControlOK.
IndInv == TypeOK /\ ControlOK

-----------------------------------------------------------------------------
(* Lemmas on the operators the store is built from.                        *)

\* What is left of a sequence of two or more.
LEMMA TailNotEmpty ==
    ASSUME NEW S, NEW s \in Seq(S), Len(s) > 1
    PROVE  Tail(s) # <<>>
  <1>1. Len(s) \in Nat /\ Len(s) # 0 /\ Len(s) - 1 # 0
    OBVIOUS
  <1>2. s # <<>>
    BY <1>1, EmptySeq
  <1>3. Len(Tail(s)) # 0
    BY <1>1, <1>2, HeadTailProperties
  <1> QED
    BY <1>3, EmptySeq

\* The current object of a known execution is a snapshot.
LEMMA CurrentSnapshot ==
    ASSUME TypeOK, NEW e \in Ids, Known(e)
    PROVE  /\ Len(objects[e]) \in Nat \ {0}
           /\ Current(e) \in Snapshot
  <1>1. objects[e] \in Seq(Snapshot)
    BY DEF TypeOK
  <1>2. objects[e] # <<>>
    BY DEF Known
  <1> QED
    BY <1>1, <1>2 DEF Current

\* The lifecycle leads from states to states.
LEMMA AllowedType ==
    /\ \A s \in Status : Allowed[s] \subseteq Status
    /\ \A s \in Status : s \in TerminalStatus => Allowed[s] = {}
  BY DEF Allowed, Status, TerminalStatus

LEMMA EventTypeType ==
    ASSUME NEW from \in Status, NEW to \in Status
    PROVE  EventType(from, to) \in EventTypes
  BY DEF EventType, EventTypes, Status

\* A moved snapshot is a snapshot with the target's status.
LEMMA MovedType ==
    ASSUME NEW rec \in Snapshot, NEW target \in Status
    PROVE  /\ Moved(rec, target) \in Snapshot
           /\ Moved(rec, target).status = target
           /\ Moved(rec, target).origin = "transition"
  <1>1. Append(rec.history, target) \in Seq(Status)
    BY DEF Snapshot
  <1> QED
    BY <1>1 DEF Moved, Snapshot

\* Storing an object keeps the type and the other objects.
LEMMA StoreType ==
    ASSUME TypeOK, NEW t \in Threads, NEW e \in Ids, NEW snap \in Snapshot,
           Store(t, e, snap)
    PROVE  /\ objects' \in [Ids -> Seq(Snapshot)]
           /\ obj' \in [Threads -> Nat]
           /\ obj'[t] \in DOMAIN objects'[e]
           /\ objects'[e] # <<>>
           /\ \A f \in Ids : /\ DOMAIN objects[f] \subseteq DOMAIN objects'[f]
                             /\ objects[f] # <<>> => objects'[f] # <<>>
                             /\ f # e => objects'[f] = objects[f]
  <1>1. objects[e] \in Seq(Snapshot)
    BY DEF TypeOK
  <1>2. /\ Append(objects[e], snap) \in Seq(Snapshot)
        /\ Len(Append(objects[e], snap)) = Len(objects[e]) + 1
        /\ Append(objects[e], snap) # <<>>
    BY <1>1
  <1>3. \A f \in Ids : objects'[f] = IF f = e THEN Append(objects[e], snap)
                                     ELSE objects[f]
    BY DEF Store, TypeOK
  <1>4. obj' \in [Threads -> Nat] /\ obj'[t] = Len(objects[e]) + 1
    BY <1>1 DEF Store, TypeOK
  <1>5. objects' \in [Ids -> Seq(Snapshot)]
    BY <1>2 DEF Store, TypeOK
  <1>6. DOMAIN objects[e] = 1..Len(objects[e])
    BY <1>1
  <1>7. DOMAIN objects'[e] = 1..(Len(objects[e]) + 1)
    <2>1. objects'[e] \in Seq(Snapshot) /\ Len(objects'[e]) = Len(objects[e]) + 1
      BY <1>2, <1>3
    <2> QED
      BY <2>1
  <1> QED
    BY <1>1, <1>2, <1>3, <1>4, <1>5, <1>6, <1>7

\* Changing the current object in place keeps the type and the shape.
LEMMA MutateType ==
    ASSUME TypeOK, NEW e \in Ids, NEW snap \in Snapshot, Known(e),
           Mutate(e, snap)
    PROVE  /\ objects' \in [Ids -> Seq(Snapshot)]
           /\ \A f \in Ids : /\ DOMAIN objects'[f] = DOMAIN objects[f]
                             /\ Len(objects'[f]) = Len(objects[f])
                             /\ objects[f] # <<>> => objects'[f] # <<>>
           /\ objects'[e] = [objects[e] EXCEPT ![Len(objects[e])] = snap]
           /\ \A f \in Ids \ {e} : objects'[f] = objects[f]
  <1>1. objects[e] \in Seq(Snapshot) /\ objects[e] # <<>>
    BY DEF TypeOK, Known
  <1> DEFINE new == [objects[e] EXCEPT ![Len(objects[e])] = snap]
  <1>2. /\ new \in Seq(Snapshot)
        /\ Len(new) = Len(objects[e])
        /\ new # <<>>
    BY <1>1
  <1>3. \A f \in Ids : objects'[f] = IF f = e THEN new ELSE objects[f]
    BY DEF Mutate, TypeOK
  <1>4. objects' \in [Ids -> Seq(Snapshot)]
    BY <1>2 DEF Mutate, TypeOK
  <1> QED
    BY <1>1, <1>2, <1>3, <1>4

\* The operations that are transitions, and where they lead.
LEMMA MovesAre ==
    /\ Moves = {"start", "pause", "cancel", "complete", "fail"}
    /\ \A op \in Moves : Target[op] \in Status
  BY DEF Moves, Target, Status

\* Entering an operation keeps the types.
LEMMA EnterType ==
    ASSUME TypeOK, NEW t \in Threads, NEW e \in Ids, NEW stage \in Stages,
           NEW op \in Moves \cup {"create", "project"},
           Enter(t, op, e, stage)
    PROVE  /\ call' \in [Threads -> Calls]
           /\ pc' \in [Threads -> Stages]
           /\ raised' \in [Threads -> Moves \cup {"none"}]
           /\ call'[t] # NoCall /\ call'[t].op = op /\ call'[t].id = e
           /\ pc'[t] = stage
           /\ \A u \in Threads \ {t} : call'[u] = call[u] /\ pc'[u] = pc[u]
  <1>1. [op |-> op, id |-> e] \in Calls
    BY DEF Calls
  <1>2. [op |-> op, id |-> e] # NoCall
    BY MovesAre DEF NoCall
  <1> QED
    BY <1>1, <1>2 DEF Enter, TypeOK

\* Returning from an operation keeps the types.
LEMMA ReturnType ==
    ASSUME TypeOK, NEW t \in Threads, Return(t)
    PROVE  /\ pc' \in [Threads -> Stages]
           /\ call' \in [Threads -> Calls]
           /\ obj' \in [Threads -> Nat]
           /\ auditFrom' \in [Threads -> Status]
           /\ lock' \in Threads \cup {NoThread}
           /\ call'[t] = NoCall /\ pc'[t] \in {"idle", "sweep"}
           /\ \A u \in Threads \ {t} : /\ call'[u] = call[u] /\ pc'[u] = pc[u]
                                       /\ obj'[u] = obj[u]
  <1>1. NoCall \in Calls
    BY DEF Calls
  <1>2. (IF reported[t] = {} THEN "idle" ELSE "sweep") \in Stages
    BY DEF Stages
  <1>3. "queued" \in Status
    BY DEF Status
  <1> QED
    BY <1>1, <1>2, <1>3 DEF Return, TypeOK

-----------------------------------------------------------------------------
(* Type correctness.                                                       *)

\* What one thread's step leaves alone.
OthersKept(t) ==
    \A u \in Threads \ {t} :
        /\ pc'[u] = pc[u] /\ call'[u] = call[u] /\ obj'[u] = obj[u]
        /\ emitting'[u] = emitting[u] /\ sweep'[u] = sweep[u]

\* Objects are stored, replaced in place, never removed while the hub runs.
ObjectsKept ==
    \A f \in Ids : /\ DOMAIN objects[f] \subseteq DOMAIN objects'[f]
                   /\ objects[f] # <<>> => objects'[f] # <<>>

\* The other threads stay where ThreadOK wants them.
LEMMA ControlStep ==
    ASSUME TypeOK, ControlOK, NEW t \in Threads, OthersKept(t), ObjectsKept,
           ThreadOK(t)'
    PROVE  ControlOK'
  <1>1. ASSUME NEW u \in Threads, u # t
        PROVE  ThreadOK(u)'
    <2>1. ThreadOK(u)
      BY DEF ControlOK
    <2>2. /\ pc'[u] = pc[u] /\ call'[u] = call[u] /\ obj'[u] = obj[u]
          /\ emitting'[u] = emitting[u] /\ sweep'[u] = sweep[u]
      BY <1>1 DEF OthersKept
    <2>3. call[u] # NoCall => call[u].id \in Ids
      BY DEF TypeOK, Calls
    <2>4. pc[u] \notin {"idle", "sweep"} => call[u].id \in Ids
      BY <2>1, <2>3 DEF ThreadOK
    <2>5. sweep[u] \subseteq Ids
      BY DEF TypeOK
    <2> QED
      BY <2>1, <2>2, <2>3, <2>4, <2>5 DEF ThreadOK, ObjectsKept, Known
  <1> QED
    BY <1>1 DEF ControlOK

\* Entering a transition leaves every thread where ThreadOK wants it.
LEMMA EntryControl ==
    ASSUME IndInv, NEW t \in Threads, NEW e \in Ids, NEW op \in Moves,
           Enter(t, op, e, "wrap"), Known(e), ObjectsKept,
           obj' = obj, emitting' = emitting,
           sweep'[t] \subseteq sweep[t],
           \A u \in Threads \ {t} : sweep'[u] = sweep[u]
    PROVE  ControlOK'
  <1> USE DEF IndInv
  <1>1. "wrap" \in Stages
    BY DEF Stages
  <1>2. /\ call'[t] # NoCall /\ pc'[t] = "wrap"
        /\ call'[t].op = op /\ call'[t].id = e
        /\ \A u \in Threads \ {t} : call'[u] = call[u] /\ pc'[u] = pc[u]
    BY <1>1, EnterType
  <1>3. OthersKept(t)
    BY <1>2 DEF OthersKept
  <1>4. ThreadOK(t)'
    <2>1. \A f \in sweep'[t] : objects'[f] # <<>>
      BY DEF ControlOK, ThreadOK, Known, ObjectsKept, TypeOK
    <2>2. op # "create"
      BY MovesAre
    <2>3. objects'[e] # <<>>
      BY DEF Known, ObjectsKept
    <2> QED
      BY <1>2, <2>1, <2>2, <2>3 DEF ThreadOK, Known
  <1> QED
    BY <1>3, <1>4, ControlStep

LEMMA CreateStep ==
    ASSUME IndInv, NEW t \in Threads, NEW e \in Ids, Create(t, e)
    PROVE  IndInv'
  <1> USE DEF IndInv
  <1>1. NewSnapshot \in Snapshot
    BY DEF NewSnapshot, Snapshot, Status
  <1>2. Store(t, e, NewSnapshot) /\ Enter(t, "create", e, "serialise")
    BY DEF Create
  <1>3. "serialise" \in Stages
    BY DEF Stages
  <1>4. emitting' \in [Threads -> Seq(EventTypes)] /\ emitting'[t] # <<>>
    <2>1. <<"execution.created">> \in Seq(EventTypes)
      BY DEF EventTypes
    <2> QED
      BY <2>1 DEF Create, TypeOK
  <1>5. TypeOK'
    BY <1>1, <1>2, <1>3, <1>4, StoreType, EnterType
       DEF TypeOK, Create, auditVars, fileVars, sweepVars
  <1>6. ObjectsKept
    BY <1>1, <1>2, StoreType DEF ObjectsKept
  <1>7. OthersKept(t)
    BY <1>2 DEF OthersKept, Create, Enter, Store, TypeOK, sweepVars
  <1>8. ThreadOK(t)'
    <2>1. \A f \in sweep'[t] : objects'[f] # <<>>
      BY <1>6 DEF ControlOK, ThreadOK, Known, ObjectsKept, Create, sweepVars, TypeOK
    <2>2. /\ call'[t] # NoCall /\ pc'[t] = "serialise"
          /\ call'[t].op = "create" /\ call'[t].id = e
      BY <1>2, <1>3, EnterType
    <2>3. objects'[e] # <<>> /\ obj'[t] \in DOMAIN objects'[e]
      BY <1>1, <1>2, StoreType
    <2> QED
      BY <1>4, <2>1, <2>2, <2>3 DEF ThreadOK, Known
  <1> QED
    BY <1>5, <1>6, <1>7, <1>8, ControlStep

LEMMA ProjectStep ==
    ASSUME IndInv, NEW t \in Threads, NEW e \in Ids, Project(t, e)
    PROVE  IndInv'
  <1> USE DEF IndInv
  <1>1. PICK snap \in Projections : Store(t, e, snap)
    BY DEF Project
  <1>2. snap \in Snapshot
    BY ProjectionsAssumption
  <1>3. Enter(t, "project", e, "serialise") /\ "serialise" \in Stages
    BY DEF Project, Stages
  <1>4. TypeOK'
    BY <1>1, <1>2, <1>3, StoreType, EnterType
       DEF TypeOK, Project, logVars, auditVars, fileVars, sweepVars
  <1>5. ObjectsKept
    BY <1>1, <1>2, StoreType DEF ObjectsKept
  <1>6. OthersKept(t)
    BY <1>1, <1>3 DEF OthersKept, Project, Enter, Store, TypeOK, sweepVars, logVars
  <1>7. ThreadOK(t)'
    <2>1. \A f \in sweep'[t] : objects'[f] # <<>>
      BY <1>5 DEF ControlOK, ThreadOK, Known, ObjectsKept, Project, sweepVars, TypeOK
    <2>2. /\ call'[t] # NoCall /\ pc'[t] = "serialise"
          /\ call'[t].op = "project" /\ call'[t].id = e
      BY <1>3, EnterType
    <2>3. objects'[e] # <<>> /\ obj'[t] \in DOMAIN objects'[e]
      BY <1>1, <1>2, StoreType
    <2> QED
      BY <2>1, <2>2, <2>3 DEF ThreadOK, Known
  <1> QED
    BY <1>4, <1>5, <1>6, <1>7, ControlStep

LEMMA CallMoveStep ==
    ASSUME IndInv, NEW t \in Threads, NEW e \in Ids, CallMove(t, e)
    PROVE  IndInv'
  <1> USE DEF IndInv
  <1>1. PICK op \in {"start", "pause"} : Enter(t, op, e, "wrap")
    BY DEF CallMove
  <1>2. op \in Moves /\ "wrap" \in Stages
    BY MovesAre DEF Stages
  <1>3. TypeOK'
    BY <1>1, <1>2, EnterType
       DEF TypeOK, CallMove, logVars, auditVars, fileVars, sweepVars
  <1>4. ControlOK'
    BY <1>1, <1>2, EntryControl
       DEF CallMove, MayCall, ObjectsKept, logVars, sweepVars
  <1> QED
    BY <1>3, <1>4

LEMMA CallCancelStep ==
    ASSUME IndInv, NEW t \in Threads, NEW e \in Ids, CallCancel(t, e)
    PROVE  IndInv'
  <1> USE DEF IndInv
  <1>1. /\ "cancel" \in Moves /\ "wrap" \in Stages
        /\ Enter(t, "cancel", e, "wrap")
    BY MovesAre DEF Stages, CallCancel
  <1>2. TypeOK'
    BY <1>1, EnterType
       DEF TypeOK, CallCancel, logVars, auditVars, fileVars, sweepVars
  <1>3. ControlOK'
    BY <1>1, EntryControl
       DEF CallCancel, MayCall, ObjectsKept, logVars, sweepVars
  <1> QED
    BY <1>2, <1>3

LEMMA CompleteHonoursCancelStep ==
    ASSUME IndInv, NEW t \in Threads, NEW e \in Ids, CompleteHonoursCancel(t, e)
    PROVE  IndInv'
  <1> USE DEF IndInv
  <1>1. /\ "cancel" \in Moves /\ "wrap" \in Stages
        /\ Enter(t, "cancel", e, "wrap")
    BY MovesAre DEF Stages, CompleteHonoursCancel
  <1>2. TypeOK'
    BY <1>1, EnterType
       DEF TypeOK, CompleteHonoursCancel, logVars, auditVars, fileVars, sweepVars
  <1>3. ControlOK'
    BY <1>1, EntryControl
       DEF CompleteHonoursCancel, MayCall, ObjectsKept, logVars, sweepVars
  <1> QED
    BY <1>2, <1>3

LEMMA CallCompleteStep ==
    ASSUME IndInv, NEW t \in Threads, NEW e \in Ids, CallComplete(t, e)
    PROVE  IndInv'
  <1> USE DEF IndInv
  <1>1. /\ "complete" \in Moves /\ "wrap" \in Stages
        /\ Enter(t, "complete", e, "wrap")
    BY MovesAre DEF Stages, CallComplete
  <1>2. PICK r \in Results : Mutate(e, [Current(e) EXCEPT !.result = r])
    BY DEF CallComplete
  <1>3. Known(e)
    BY DEF CallComplete, MayCall
  <1>4. [Current(e) EXCEPT !.result = r] \in Snapshot
    BY <1>3, CurrentSnapshot DEF Snapshot
  <1>5. objects' \in [Ids -> Seq(Snapshot)] /\ ObjectsKept
    BY <1>2, <1>3, <1>4, MutateType DEF ObjectsKept
  <1>6. TypeOK'
    BY <1>1, <1>5, EnterType
       DEF TypeOK, CallComplete, logVars, auditVars, fileVars, sweepVars
  <1>7. ControlOK'
    BY <1>1, <1>3, <1>5, EntryControl DEF CallComplete, logVars, sweepVars
  <1> QED
    BY <1>6, <1>7

\* The entry of fail, called from outside or by recover_stale.
LEMMA FailEntryStep ==
    ASSUME IndInv, NEW t \in Threads, NEW e \in Ids, Known(e), FailEntry(t, e),
           sweep' \in [Threads -> SUBSET Ids],
           sweep'[t] \subseteq sweep[t],
           \A u \in Threads \ {t} : sweep'[u] = sweep[u]
    PROVE  IndInv'
  <1> USE DEF IndInv
  <1>1. Mutate(e, [Current(e) EXCEPT !.error = TRUE])
    BY DEF FailEntry
  <1>2. [Current(e) EXCEPT !.error = TRUE] \in Snapshot
    BY CurrentSnapshot DEF Snapshot
  <1>3. objects' \in [Ids -> Seq(Snapshot)] /\ ObjectsKept
    BY <1>1, <1>2, MutateType DEF ObjectsKept
  <1>4. CASE IsTerminal(Current(e))
    <2>1. UNCHANGED <<pc, call, raised, obj, emitting>>
      BY <1>4 DEF FailEntry, logVars
    <2>2. TypeOK'
      BY <1>3, <2>1 DEF TypeOK, FailEntry, logVars, auditVars, fileVars
    <2>3. OthersKept(t)
      BY <2>1 DEF OthersKept
    <2>4. ThreadOK(t)'
      <3>1. call[t] # NoCall => call[t].id \in Ids
        BY DEF TypeOK, Calls
      <3>2. ThreadOK(t)
        BY DEF ControlOK
      <3>3. pc[t] \notin {"idle", "sweep"} => call[t].id \in Ids
        BY <3>1, <3>2 DEF ThreadOK
      <3>4. \A f \in sweep'[t] : objects'[f] # <<>>
        BY <1>3, <3>2 DEF ThreadOK, Known, ObjectsKept, TypeOK
      <3> QED
        BY <1>3, <2>1, <3>1, <3>2, <3>3, <3>4 DEF ThreadOK, ObjectsKept, Known
    <2> QED
      BY <1>3, <2>2, <2>3, <2>4, ControlStep
  <1>5. CASE ~IsTerminal(Current(e))
    <2>1. /\ "fail" \in Moves /\ "wrap" \in Stages
          /\ Enter(t, "fail", e, "wrap")
      BY <1>5, MovesAre DEF Stages, FailEntry
    <2>2. TypeOK'
      BY <1>3, <2>1, EnterType
         DEF TypeOK, FailEntry, logVars, auditVars, fileVars
    <2>3. ControlOK'
      BY <1>3, <2>1, EntryControl DEF FailEntry, logVars
    <2> QED
      BY <2>2, <2>3
  <1> QED
    BY <1>4, <1>5

LEMMA CallFailStep ==
    ASSUME IndInv, NEW t \in Threads, NEW e \in Ids, CallFail(t, e)
    PROVE  IndInv'
  BY FailEntryStep DEF CallFail, MayCall, IndInv, TypeOK

LEMMA SweepFailStep ==
    ASSUME IndInv, NEW t \in Threads, SweepFail(t)
    PROVE  IndInv'
  <1>1. PICK e \in sweep[t] : /\ FailEntry(t, e)
                             /\ sweep' = [sweep EXCEPT ![t] = @ \ {e}]
    BY DEF SweepFail
  <1>2. e \in Ids /\ Known(e)
    BY DEF IndInv, TypeOK, ControlOK, ThreadOK
  <1>3. /\ sweep' \in [Threads -> SUBSET Ids]
        /\ sweep'[t] \subseteq sweep[t]
        /\ \A u \in Threads \ {t} : sweep'[u] = sweep[u]
    BY <1>1 DEF IndInv, TypeOK
  <1> QED
    BY <1>1, <1>2, <1>3, FailEntryStep

\* The list is taken in one critical section.
LEMMA BeginSweepStep ==
    ASSUME IndInv, NEW t \in Threads, BeginSweep(t)
    PROVE  IndInv'
  <1> USE DEF IndInv
  <1>1. PICK stale \in SUBSET {e \in Ids : Known(e) /\ ~IsTerminal(Current(e))} :
            /\ sweep' = [sweep EXCEPT ![t] = stale]
            /\ reported' = [reported EXCEPT ![t] = stale]
    BY DEF BeginSweep
  <1>2. "sweep" \in Stages
    BY DEF Stages
  <1>3. TypeOK'
    BY <1>1, <1>2 DEF TypeOK, BeginSweep, logVars, auditVars, fileVars
  <1>4. OthersKept(t)
    BY <1>1 DEF OthersKept, BeginSweep, TypeOK, logVars
  <1>5. ObjectsKept
    BY DEF ObjectsKept, BeginSweep
  <1>6. ThreadOK(t)'
    BY <1>1 DEF ControlOK, ThreadOK, BeginSweep, TypeOK, Known, logVars
  <1> QED
    BY <1>3, <1>4, <1>5, <1>6, ControlStep

LEMMA EndSweepStep ==
    ASSUME IndInv, NEW t \in Threads, EndSweep(t)
    PROVE  IndInv'
  <1> USE DEF IndInv
  <1>1. "idle" \in Stages
    BY DEF Stages
  <1>2. TypeOK'
    BY <1>1 DEF TypeOK, EndSweep, logVars, auditVars, fileVars
  <1>3. OthersKept(t)
    BY DEF OthersKept, EndSweep, TypeOK, logVars
  <1>4. ObjectsKept
    BY DEF ObjectsKept, EndSweep
  <1>5. ThreadOK(t)'
    BY DEF ControlOK, ThreadOK, EndSweep, TypeOK, Known, logVars
  <1> QED
    BY <1>2, <1>3, <1>4, <1>5, ControlStep

\* What ThreadOK says of a thread that is inside an operation.
LEMMA Inside ==
    ASSUME IndInv, NEW t \in Threads, pc[t] \notin {"idle", "sweep"}
    PROVE  /\ call[t] # NoCall /\ call[t] \in Calls
           /\ call[t].id \in Ids /\ Known(call[t].id)
           /\ call[t].op \in Moves \cup {"create", "project"}
           /\ pc[t] \in {"wrap", "transition"} => call[t].op \in Moves
  BY DEF IndInv, TypeOK, ControlOK, ThreadOK, Calls

\* The status a transition leaves is a state of the lifecycle.
LEMMA StatusToLeaveType ==
    ASSUME IndInv, NEW t \in Threads, pc[t] \notin {"idle", "sweep"}
    PROVE  StatusToLeave(t) \in Status
  <1>1. Current(call[t].id) \in Snapshot
    BY Inside, CurrentSnapshot DEF IndInv
  <1> QED
    BY <1>1 DEF StatusToLeave, Snapshot

LEMMA ReadAuditFromStep ==
    ASSUME IndInv, NEW t \in Threads, ReadAuditFrom(t)
    PROVE  IndInv'
  <1> USE DEF IndInv
  <1>1. pc[t] = "wrap" /\ "transition" \in Stages
    BY DEF ReadAuditFrom, Stages
  <1>2. Current(call[t].id).status \in Status
    BY <1>1, StatusToLeaveType DEF StatusToLeave
  <1>3. TypeOK'
    BY <1>1, <1>2 DEF TypeOK, ReadAuditFrom, logVars, fileVars, sweepVars
  <1>4. OthersKept(t)
    BY DEF OthersKept, ReadAuditFrom, TypeOK, logVars, sweepVars
  <1>5. ObjectsKept
    BY DEF ObjectsKept, ReadAuditFrom
  <1>6. ThreadOK(t)'
    BY <1>1 DEF ControlOK, ThreadOK, ReadAuditFrom, TypeOK, Known, logVars, sweepVars
  <1> QED
    BY <1>3, <1>4, <1>5, <1>6, ControlStep

LEMMA TransitionStep ==
    ASSUME IndInv, NEW t \in Threads, Transition(t)
    PROVE  IndInv'
  <1> USE DEF IndInv
  <1> DEFINE e == call[t].id
             target == Target[call[t].op]
             snap == Moved(Current(e), target)
  <1>1. pc[t] = "transition" /\ "emit" \in Stages
    BY DEF Transition, Stages
  <1>2. e \in Ids /\ Known(e) /\ call[t].op \in Moves /\ call[t] # NoCall
    BY <1>1, Inside
  <1>3. target \in Status /\ StatusToLeave(t) \in Status
    BY <1>1, <1>2, MovesAre, StatusToLeaveType
  <1>4. snap \in Snapshot /\ Store(t, e, snap)
    BY <1>2, <1>3, CurrentSnapshot, MovedType DEF Transition
  <1>5. /\ Announcements(t, target) \in Seq(EventTypes)
        /\ Announcements(t, target) # <<>>
    <2>1. "execution.state_changed" \in EventTypes
      BY DEF EventTypes
    <2>2. EventType(StatusToLeave(t), target) \in EventTypes
      BY <1>3, EventTypeType
    <2> QED
      BY <2>1, <2>2 DEF Announcements
  <1>6. /\ emitting' \in [Threads -> Seq(EventTypes)] /\ emitting'[t] # <<>>
        /\ pc' \in [Threads -> Stages] /\ pc'[t] = "emit"
        /\ UNCHANGED <<call, sweep>>
    BY <1>1, <1>5 DEF Transition, TypeOK, sweepVars
  <1>7. TypeOK'
    BY <1>2, <1>4, <1>6, StoreType
       DEF TypeOK, Transition, auditVars, fileVars, sweepVars
  <1>8. ObjectsKept
    BY <1>2, <1>4, StoreType DEF ObjectsKept
  <1>9. OthersKept(t)
    BY <1>4 DEF OthersKept, Transition, Store, TypeOK, sweepVars
  <1>10. ThreadOK(t)'
    <2>1. \A f \in sweep'[t] : objects'[f] # <<>>
      BY <1>6, <1>8 DEF ControlOK, ThreadOK, Known, ObjectsKept, TypeOK
    <2>2. objects'[e] # <<>> /\ obj'[t] \in DOMAIN objects'[e]
      BY <1>2, <1>4, StoreType
    <2>3. call'[t] = call[t]
      BY <1>6
    <2> QED
      BY <1>2, <1>6, <2>1, <2>2, <2>3 DEF ThreadOK, Known
  <1> QED
    BY <1>7, <1>8, <1>9, <1>10, ControlStep

\* A step that ends a call and touches no object leaves every thread right.
LEMMA ReturnControl ==
    ASSUME IndInv, NEW t \in Threads, Return(t), UNCHANGED <<objects, sweep>>,
           \A u \in Threads \ {t} : emitting'[u] = emitting[u]
    PROVE  ControlOK'
  <1> USE DEF IndInv
  <1>1. OthersKept(t)
    BY ReturnType DEF OthersKept
  <1>2. ObjectsKept
    BY DEF ObjectsKept
  <1>3. ThreadOK(t)'
    BY ReturnType DEF ControlOK, ThreadOK, Known
  <1> QED
    BY <1>1, <1>2, <1>3, ControlStep

LEMMA RejectStep ==
    ASSUME IndInv, NEW t \in Threads, Reject(t)
    PROVE  IndInv'
  <1> USE DEF IndInv
  <1>1. pc[t] = "transition" /\ Return(t)
    BY DEF Reject
  <1>2. (IF reported[t] = {} THEN call[t].op ELSE "none") \in Moves \cup {"none"}
    BY <1>1, Inside
  <1>3. TypeOK'
    BY <1>1, <1>2, ReturnType DEF TypeOK, Reject, logVars, fileVars, sweepVars
  <1>4. ControlOK'
    BY <1>1, ReturnControl DEF Reject, logVars, sweepVars
  <1> QED
    BY <1>3, <1>4

LEMMA DrawTicketStep ==
    ASSUME IndInv, NEW t \in Threads, DrawTicket(t)
    PROVE  IndInv'
  <1> USE DEF IndInv
  <1>1. "append" \in Stages /\ NextTicket \in Nat
    BY DEF Stages, NextTicket, TypeOK
  <1>2. TypeOK'
    BY <1>1 DEF TypeOK, DrawTicket, auditVars, fileVars, sweepVars
  <1>3. OthersKept(t)
    BY DEF OthersKept, DrawTicket, TypeOK, sweepVars
  <1>4. ObjectsKept
    BY DEF ObjectsKept, DrawTicket
  <1>5. ThreadOK(t)'
    BY DEF ControlOK, ThreadOK, DrawTicket, TypeOK, Known, sweepVars
  <1> QED
    BY <1>2, <1>3, <1>4, <1>5, ControlStep

LEMMA AppendEventStep ==
    ASSUME IndInv, NEW t \in Threads, AppendEvent(t)
    PROVE  IndInv'
  <1> USE DEF IndInv
  <1>1. pc[t] = "append" /\ {"emit", "serialise"} \subseteq Stages
    BY DEF AppendEvent, Stages
  <1>2. /\ emitting[t] \in Seq(EventTypes) /\ emitting[t] # <<>>
        /\ obj[t] \in DOMAIN objects[call[t].id]
    BY <1>1 DEF ControlOK, ThreadOK, TypeOK
  <1>3. /\ Head(emitting[t]) \in EventTypes
        /\ Tail(emitting[t]) \in Seq(EventTypes)
        /\ Len(emitting[t]) > 1 => Tail(emitting[t]) # <<>>
    BY <1>2, TailNotEmpty
  <1>4. events' \subseteq Event
    <2>1. call[t].id \in Ids /\ obj[t] \in Nat /\ ticket[t] \in Nat
      BY <1>1, Inside DEF TypeOK
    <2>2. [sequence |-> ticket[t], id |-> call[t].id, obj |-> obj[t],
           type |-> Head(emitting[t])] \in Event
      BY <1>3, <2>1 DEF Event
    <2> QED
      BY <2>2 DEF AppendEvent, TypeOK
  <1>5. /\ emitting' \in [Threads -> Seq(EventTypes)]
        /\ emitting'[t] = Tail(emitting[t])
        /\ \A u \in Threads \ {t} : emitting'[u] = emitting[u]
        /\ ticket' \in [Threads -> Nat]
    BY <1>3 DEF AppendEvent, TypeOK
  <1>6. UNCHANGED <<objects, seq, audited, fileVars, sweepVars, raised, restarts>>
    BY DEF AppendEvent
  <1>7. CASE /\ Len(emitting[t]) > 1
             /\ pc' = [pc EXCEPT ![t] = "emit"]
             /\ UNCHANGED <<lock, call, obj, auditFrom>>
    <2>1. TypeOK'
      BY <1>1, <1>4, <1>5, <1>6, <1>7 DEF TypeOK, fileVars, sweepVars
    <2>2. OthersKept(t) /\ ObjectsKept
      BY <1>5, <1>6, <1>7 DEF OthersKept, ObjectsKept, TypeOK, sweepVars
    <2>3. ThreadOK(t)'
      BY <1>1, <1>2, <1>3, <1>5, <1>6, <1>7
         DEF ControlOK, ThreadOK, TypeOK, Known, sweepVars
    <2> QED
      BY <2>1, <2>2, <2>3, ControlStep
  <1>8. CASE /\ Len(emitting[t]) = 1 /\ call[t].op \in Moves
             /\ pc' = [pc EXCEPT ![t] = "serialise"]
             /\ UNCHANGED <<lock, call, obj, auditFrom>>
    <2>1. TypeOK'
      BY <1>1, <1>4, <1>5, <1>6, <1>8 DEF TypeOK, fileVars, sweepVars
    <2>2. OthersKept(t) /\ ObjectsKept
      BY <1>5, <1>6, <1>8 DEF OthersKept, ObjectsKept, TypeOK, sweepVars
    <2>3. ThreadOK(t)'
      <3>1. call[t].op # "create"
        BY <1>8, MovesAre
      <3> QED
        BY <1>1, <1>2, <1>6, <1>8, <3>1
           DEF ControlOK, ThreadOK, TypeOK, Known, sweepVars
    <2> QED
      BY <2>1, <2>2, <2>3, ControlStep
  <1>9. CASE Return(t)
    <2>1. TypeOK'
      BY <1>4, <1>5, <1>6, <1>9, ReturnType DEF TypeOK, fileVars, sweepVars
    <2>2. ControlOK'
      BY <1>5, <1>6, <1>9, ReturnControl DEF sweepVars
    <2> QED
      BY <2>1, <2>2
  <1> QED
    BY <1>7, <1>8, <1>9 DEF AppendEvent

-----------------------------------------------------------------------------
(* Persistence.                                                            *)

\* A step from one stage of _persist_execution to the next one.
LEMMA StageControl ==
    ASSUME IndInv, NEW t \in Threads, NEW stage \in Stages,
           pc[t] \in {"serialise", "open", "write", "replace"},
           pc' = [pc EXCEPT ![t] = stage],
           \/ stage \in {"open", "write", "replace"}
           \/ stage = "emit" /\ emitting[t] # <<>>
           \/ stage = "audit",
           UNCHANGED <<objects, call, obj, emitting, sweep>>
    PROVE  ControlOK' /\ pc' \in [Threads -> Stages]
  <1> USE DEF IndInv
  <1>1. OthersKept(t) /\ ObjectsKept
    BY DEF OthersKept, ObjectsKept, TypeOK
  <1>2. ThreadOK(t)'
    BY DEF ControlOK, ThreadOK, TypeOK, Known
  <1> QED
    BY <1>1, <1>2, ControlStep DEF TypeOK

\* Where _persist_execution goes back to.
LEMMA AfterPersistControl ==
    ASSUME IndInv, NEW t \in Threads, AfterPersist(t),
           pc[t] \in {"serialise", "open", "write", "replace"},
           UNCHANGED <<objects, emitting, sweep>>
    PROVE  /\ ControlOK'
           /\ pc' \in [Threads -> Stages]
           /\ call' \in [Threads -> Calls]
           /\ obj' \in [Threads -> Nat]
           /\ auditFrom' \in [Threads -> Status]
           /\ lock' \in Threads \cup {NoThread}
           /\ image' \in [Threads -> FileContent]
  <1> USE DEF IndInv
  <1>1. image' \in [Threads -> FileContent]
    BY DEF AfterPersist, TypeOK, FileContent
  <1>2. CASE /\ call[t].op = "create"
             /\ pc' = [pc EXCEPT ![t] = "emit"]
             /\ UNCHANGED <<lock, call, obj, auditFrom>>
    <2>1. "emit" \in Stages /\ emitting[t] # <<>>
      BY <1>2, Inside DEF Stages, ControlOK, ThreadOK
    <2> QED
      BY <1>1, <1>2, <2>1, StageControl DEF TypeOK
  <1>3. CASE Return(t)
    BY <1>1, <1>3, ReturnType, ReturnControl
  <1>4. CASE /\ pc' = [pc EXCEPT ![t] = "audit"]
             /\ UNCHANGED <<lock, call, obj, auditFrom>>
    <2>1. "audit" \in Stages
      BY DEF Stages
    <2> QED
      BY <1>1, <1>4, <2>1, StageControl DEF TypeOK
  <1> QED
    BY <1>2, <1>3, <1>4 DEF AfterPersist

LEMMA SerialiseStep ==
    ASSUME IndInv, NEW t \in Threads, Serialise(t)
    PROVE  IndInv'
  <1> USE DEF IndInv
  <1>1. pc[t] = "serialise" /\ "open" \in Stages
    BY DEF Serialise, Stages
  <1>2. SnapshotToSave(t) \in FileContent
    <2>1. objects[call[t].id] \in Seq(Snapshot)
      BY <1>1, Inside DEF TypeOK
    <2>2. obj[t] \in DOMAIN objects[call[t].id]
      BY <1>1 DEF ControlOK, ThreadOK
    <2> QED
      BY <2>1, <2>2 DEF SnapshotToSave, FileContent
  <1>3. ControlOK' /\ pc' \in [Threads -> Stages]
    BY <1>1, StageControl DEF Serialise, logVars, sweepVars
  <1>4. TypeOK'
    BY <1>2, <1>3 DEF TypeOK, Serialise, logVars, auditVars, sweepVars
  <1> QED
    BY <1>3, <1>4

LEMMA OpenTmpStep ==
    ASSUME IndInv, NEW t \in Threads, OpenTmp(t)
    PROVE  IndInv'
  <1> USE DEF IndInv
  <1>1. pc[t] = "open" /\ "write" \in Stages /\ Empty \in FileContent
    BY DEF OpenTmp, Stages, FileContent
  <1>2. ControlOK' /\ pc' \in [Threads -> Stages]
    BY <1>1, StageControl DEF OpenTmp, logVars, sweepVars
  <1>3. TypeOK'
    BY <1>1, <1>2 DEF TypeOK, OpenTmp, logVars, auditVars, sweepVars
  <1> QED
    BY <1>2, <1>3

\* Writing into the open file keeps the types of the files.
LEMMA SetOpenContentType ==
    ASSUME IndInv, NEW t \in Threads, NEW content \in FileContent,
           SetOpenContent(t, content)
    PROVE  tmp' \in [Ids -> FileContent] /\ durable' \in [Ids -> FileContent]
  BY DEF IndInv, TypeOK, SetOpenContent

LEMMA OpenContentType ==
    ASSUME IndInv, NEW t \in Threads, pc[t] \notin {"idle", "sweep"}
    PROVE  OpenContent(t) \in FileContent
  BY Inside DEF IndInv, TypeOK, OpenContent, FileContent

LEMMA WriteTmpStep ==
    ASSUME IndInv, NEW t \in Threads, WriteTmp(t)
    PROVE  IndInv'
  <1> USE DEF IndInv
  <1>1. pc[t] = "write" /\ "replace" \in Stages
    BY DEF WriteTmp, Stages
  <1>2. PICK content \in Overlay(OpenContent(t), image[t]) :
            SetOpenContent(t, content)
    BY DEF WriteTmp
  <1>3. content \in FileContent
    BY <1>2 DEF Overlay, FileContent, TypeOK
  <1>4. tmp' \in [Ids -> FileContent] /\ durable' \in [Ids -> FileContent]
    BY <1>2, <1>3, SetOpenContentType
  <1>5. ControlOK' /\ pc' \in [Threads -> Stages]
    BY <1>1, StageControl DEF WriteTmp, logVars, sweepVars
  <1>6. TypeOK'
    BY <1>4, <1>5 DEF TypeOK, WriteTmp, logVars, auditVars, sweepVars
  <1> QED
    BY <1>5, <1>6

LEMMA SkipPersistStep ==
    ASSUME IndInv, NEW t \in Threads, SkipPersist(t)
    PROVE  IndInv'
  <1> USE DEF IndInv
  <1>1. pc[t] = "serialise" /\ AfterPersist(t)
    BY DEF SkipPersist
  <1>2. UNCHANGED <<objects, emitting, sweep>>
    BY DEF SkipPersist, logVars, sweepVars
  <1>3. TypeOK'
    BY <1>1, <1>2, AfterPersistControl DEF TypeOK, SkipPersist, logVars, sweepVars
  <1> QED
    BY <1>1, <1>2, <1>3, AfterPersistControl

LEMMA ReplaceStep ==
    ASSUME IndInv, NEW t \in Threads, Replace(t)
    PROVE  IndInv'
  <1> USE DEF IndInv
  <1> DEFINE e == call[t].id
  <1>1. pc[t] = "replace" /\ AfterPersist(t)
    BY DEF Replace
  <1>2. UNCHANGED <<objects, emitting, sweep>>
    BY DEF Replace, logVars, sweepVars
  <1>3. /\ tmp' \in [Ids -> FileContent]
        /\ durable' \in [Ids -> FileContent]
    BY <1>1, Inside DEF Replace, TypeOK, FileContent
  <1>4. fd' \in [Threads -> {"closed", "tmp", "durable", "unlinked"}]
    BY DEF Replace, TypeOK, Renamed
  <1>5. degraded' \in BOOLEAN /\ unsaved' \subseteq Ids \X Nat
    BY DEF Replace, TypeOK
  <1>6. TypeOK'
    BY <1>1, <1>2, <1>3, <1>4, <1>5, AfterPersistControl
       DEF TypeOK, Replace, logVars, sweepVars
  <1> QED
    BY <1>1, <1>2, <1>6, AfterPersistControl

LEMMA PersistFailsStep ==
    ASSUME IndInv, NEW t \in Threads, PersistFails(t)
    PROVE  IndInv'
  <1> USE DEF IndInv
  <1>1. pc[t] \in {"open", "write", "replace"} /\ AfterPersist(t)
    BY DEF PersistFails
  <1>2. UNCHANGED <<objects, emitting, sweep>>
    BY DEF PersistFails, logVars, sweepVars
  <1>3. tmp' \in [Ids -> FileContent] /\ durable' \in [Ids -> FileContent]
    <2>1. CASE UNCHANGED <<tmp, durable>>
      BY <2>1 DEF TypeOK
    <2>2. CASE \E content \in {OpenContent(t), Torn} : SetOpenContent(t, content)
      <3>1. {OpenContent(t), Torn} \subseteq FileContent
        BY <1>1, OpenContentType DEF FileContent
      <3> QED
        BY <2>2, <3>1, SetOpenContentType
    <2> QED
      BY <2>1, <2>2 DEF PersistFails
  <1>4. fd' \in [Threads -> {"closed", "tmp", "durable", "unlinked"}]
    BY DEF PersistFails, TypeOK
  <1>5. degraded' \in BOOLEAN /\ unsaved' \subseteq Ids \X Nat
    <2>1. <<call[t].id, obj[t]>> \in Ids \X Nat
      BY <1>1, Inside DEF TypeOK
    <2> QED
      BY <2>1 DEF PersistFails, TypeOK
  <1>6. TypeOK'
    BY <1>1, <1>2, <1>3, <1>4, <1>5, AfterPersistControl
       DEF TypeOK, PersistFails, logVars, sweepVars
  <1> QED
    BY <1>1, <1>2, <1>6, AfterPersistControl

LEMMA AuditStep ==
    ASSUME IndInv, NEW t \in Threads, Audit(t)
    PROVE  IndInv'
  <1> USE DEF IndInv
  <1>1. pc[t] = "audit" /\ Return(t)
    BY DEF Audit
  <1>2. audited' \subseteq [id : Ids, obj : Nat, from : Status]
    <2>1. call[t].id \in Ids /\ obj[t] \in Nat /\ auditFrom[t] \in Status
      BY <1>1, Inside DEF TypeOK
    <2>2. AuditRow(t) \in [id : Ids, obj : Nat, from : Status]
      BY <2>1 DEF AuditRow
    <2> QED
      BY <2>2 DEF Audit, TypeOK
  <1>3. TypeOK'
    BY <1>1, <1>2, ReturnType DEF TypeOK, Audit, logVars, fileVars, sweepVars
  <1>4. ControlOK'
    BY <1>1, ReturnControl DEF Audit, logVars, sweepVars
  <1> QED
    BY <1>3, <1>4

-----------------------------------------------------------------------------
(* Restart and the initial states.                                         *)

LEMMA ReloadedType ==
    ASSUME NEW content \in FileContent
    PROVE  Reloaded(content) \in Seq(Snapshot)
  <1>1. CASE content \in {Absent, Empty, Torn}
    BY <1>1 DEF Reloaded
  <1>2. CASE content \notin {Absent, Empty, Torn}
    <2>1. [content EXCEPT !.origin = "reload"] \in Snapshot
      BY <1>2 DEF FileContent, Snapshot
    <2> QED
      BY <1>2, <2>1 DEF Reloaded
  <1> QED
    BY <1>1, <1>2

LEMMA RestartStep ==
    ASSUME IndInv, Restart
    PROVE  IndInv'
  <1> USE DEF IndInv
  <1>1. objects' \in [Ids -> Seq(Snapshot)]
    BY ReloadedType DEF Restart, TypeOK
  <1>2. /\ "idle" \in Stages /\ NoCall \in Calls /\ "queued" \in Status
        /\ <<>> \in Seq(EventTypes) /\ Absent \in FileContent
    BY DEF Stages, Calls, Status, FileContent
  <1>3. /\ lock' \in Threads \cup {NoThread} /\ seq' \in Nat /\ restarts' \in Nat
        /\ events' = {} /\ audited' = {} /\ unsaved' = {}
        /\ degraded' \in BOOLEAN
    <2>1. degraded' \in BOOLEAN
      BY DEF Restart
    <2> QED
      BY <2>1 DEF Restart, TypeOK
  <1>4. /\ pc' \in [Threads -> Stages] /\ call' \in [Threads -> Calls]
        /\ obj' \in [Threads -> Nat] /\ ticket' \in [Threads -> Nat]
        /\ emitting' \in [Threads -> Seq(EventTypes)]
        /\ auditFrom' \in [Threads -> Status]
        /\ image' \in [Threads -> FileContent]
    BY <1>2 DEF Restart
  <1>5. /\ fd' \in [Threads -> {"closed", "tmp", "durable", "unlinked"}]
        /\ sweep' \in [Threads -> SUBSET Ids]
        /\ reported' \in [Threads -> SUBSET Ids]
        /\ raised' \in [Threads -> Moves \cup {"none"}]
        /\ tmp' \in [Ids -> FileContent] /\ durable' \in [Ids -> FileContent]
    BY DEF Restart, TypeOK
  <1>6. TypeOK'
    BY <1>1, <1>3, <1>4, <1>5 DEF TypeOK
  <1>7. ControlOK'
    BY DEF Restart, ControlOK, ThreadOK
  <1> QED
    BY <1>6, <1>7

LEMMA InitOK == Init => IndInv
  <1> SUFFICES ASSUME Init PROVE IndInv
    OBVIOUS
  <1>1. /\ "idle" \in Stages /\ NoCall \in Calls /\ "queued" \in Status
        /\ <<>> \in Seq(EventTypes) /\ Absent \in FileContent
        /\ <<>> \in Seq(Snapshot)
    BY DEF Stages, Calls, Status, FileContent
  <1>2. TypeOK
    BY <1>1 DEF Init, TypeOK
  <1>3. ControlOK
    BY DEF Init, ControlOK, ThreadOK
  <1> QED
    BY <1>2, <1>3 DEF IndInv

LEMMA StutterOK ==
    ASSUME IndInv, UNCHANGED vars
    PROVE  IndInv'
  <1> USE DEF vars, threadVars, logVars, auditVars, fileVars, sweepVars
  <1>1. TypeOK'
    BY DEF IndInv, TypeOK
  <1>2. ControlOK'
    BY DEF IndInv, ControlOK, ThreadOK, Known
  <1> QED
    BY <1>1, <1>2 DEF IndInv

LEMMA StepOK ==
    ASSUME IndInv, [Next]_vars
    PROVE  IndInv'
  <1>1. ASSUME NEW t \in Threads, Call(t) PROVE IndInv'
    BY <1>1, CreateStep, ProjectStep, CallMoveStep, CallCancelStep,
       CallCompleteStep, CompleteHonoursCancelStep, CallFailStep,
       BeginSweepStep DEF Call
  <1>2. ASSUME NEW t \in Threads, Step(t) PROVE IndInv'
    BY <1>2, SweepFailStep, EndSweepStep, ReadAuditFromStep, TransitionStep,
       RejectStep, DrawTicketStep, AppendEventStep, SerialiseStep,
       SkipPersistStep, OpenTmpStep, WriteTmpStep, ReplaceStep,
       PersistFailsStep, AuditStep DEF Step
  <1> QED
    BY <1>1, <1>2, RestartStep, StutterOK DEF Next

\* The types are right, and a thread inside an operation knows its execution,
\* holds an object of it and has an event to emit while it publishes
\* (create_execution, _transition, emit_event and the wrappers).
THEOREM Inductive == Spec => []IndInv
  <1> QED
    BY InitOK, StepOK, PTL DEF Spec

\* Every variable of the store keeps its type.
THEOREM TypeCorrect == Spec => []TypeOK
  <1>1. IndInv => TypeOK
    BY DEF IndInv
  <1> QED
    BY <1>1, Inductive, PTL

-----------------------------------------------------------------------------
(* Sequence numbers.                                                       *)

\* EventSequencesUnique is not inductive: an event gets the number its thread
\* drew earlier, so the numbers drawn and not yet used must be nobody else's.
SeqInv == TicketsOK /\ EventSequencesUnique

\* A step that draws and uses no number.
LEMMA SeqFrame ==
    ASSUME SeqInv, UNCHANGED <<seq, events, ticket>>,
           \A u \in Threads : pc'[u] = "append" => pc[u] = "append"
    PROVE  SeqInv'
  BY DEF SeqInv, TicketsOK, EventSequencesUnique

\* A thread that moves to any other stage.
LEMMA NotAppending ==
    ASSUME TypeOK, NEW t \in Threads, NEW stage,
           pc' = [pc EXCEPT ![t] = stage], stage # "append"
    PROVE  \A u \in Threads : pc'[u] = "append" => pc[u] = "append"
  BY DEF TypeOK

LEMMA ReturnNotAppending ==
    ASSUME TypeOK, NEW t \in Threads, Return(t)
    PROVE  \A u \in Threads : pc'[u] = "append" => pc[u] = "append"
  BY NotAppending DEF Return

LEMMA AfterPersistNotAppending ==
    ASSUME TypeOK, NEW t \in Threads, AfterPersist(t)
    PROVE  \A u \in Threads : pc'[u] = "append" => pc[u] = "append"
  BY NotAppending, ReturnNotAppending DEF AfterPersist

LEMMA CallSeq ==
    ASSUME IndInv, SeqInv, NEW t \in Threads, Call(t)
    PROVE  SeqInv'
  <1> USE DEF IndInv, logVars
  <1>1. ASSUME NEW e \in Ids, Create(t, e) PROVE SeqInv'
    BY <1>1, SeqFrame, NotAppending DEF Create, Enter
  <1>2. ASSUME NEW e \in Ids, Project(t, e) PROVE SeqInv'
    BY <1>2, SeqFrame, NotAppending DEF Project, Enter
  <1>3. ASSUME NEW e \in Ids, CallMove(t, e) PROVE SeqInv'
    BY <1>3, SeqFrame, NotAppending DEF CallMove, Enter
  <1>4. ASSUME NEW e \in Ids, CallCancel(t, e) PROVE SeqInv'
    BY <1>4, SeqFrame, NotAppending DEF CallCancel, Enter
  <1>5. ASSUME NEW e \in Ids, CallComplete(t, e) PROVE SeqInv'
    BY <1>5, SeqFrame, NotAppending DEF CallComplete, Enter
  <1>6. ASSUME NEW e \in Ids, CompleteHonoursCancel(t, e) PROVE SeqInv'
    BY <1>6, SeqFrame, NotAppending DEF CompleteHonoursCancel, Enter
  <1>7. ASSUME NEW e \in Ids, CallFail(t, e) PROVE SeqInv'
    BY <1>7, SeqFrame, NotAppending DEF CallFail, FailEntry, Enter
  <1>8. CASE BeginSweep(t)
    BY <1>8, SeqFrame, NotAppending DEF BeginSweep
  <1> QED
    BY <1>1, <1>2, <1>3, <1>4, <1>5, <1>6, <1>7, <1>8 DEF Call

\* emit_event, first critical section: the number is new.
LEMMA DrawTicketSeq ==
    ASSUME IndInv, SeqInv, NEW t \in Threads, DrawTicket(t)
    PROVE  SeqInv'
  <1>1. /\ seq \in Nat /\ seq' = seq + 1 /\ events' = events
        /\ ticket' = [ticket EXCEPT ![t] = seq + 1] /\ ticket \in [Threads -> Nat]
        /\ pc' = [pc EXCEPT ![t] = "append"] /\ pc \in [Threads -> Stages]
    BY DEF DrawTicket, NextTicket, IndInv, TypeOK
  <1>2. \A x \in events : x.sequence \in Nat /\ x.sequence <= seq
    BY DEF IndInv, TypeOK, Event, SeqInv, TicketsOK
  <1>3. \A x \in events' : x.sequence <= seq'
    BY <1>1, <1>2
  <1>4. ASSUME NEW u \in Threads, pc'[u] = "append"
        PROVE  /\ ticket'[u] <= seq'
               /\ \A x \in events' : x.sequence # ticket'[u]
               /\ \A v \in Threads \ {u} : pc'[v] = "append" => ticket'[v] # ticket'[u]
    <2>1. \A v \in Threads \ {t} :
              pc'[v] = "append" => ticket'[v] = ticket[v] /\ ticket[v] <= seq
      BY <1>1 DEF SeqInv, TicketsOK
    <2>2. CASE u = t
      <3>1. ticket'[t] = seq + 1
        BY <1>1
      <3> QED
        BY <1>1, <1>2, <2>1, <2>2, <3>1
    <2>3. CASE u # t
      <3>1. ticket'[u] = ticket[u] /\ pc[u] = "append" /\ ticket'[t] = seq + 1
        BY <1>1, <1>4, <2>3
      <3>2. /\ ticket[u] <= seq
            /\ \A x \in events : x.sequence # ticket[u]
            /\ \A v \in Threads \ {u} : pc[v] = "append" => ticket[v] # ticket[u]
        BY <3>1 DEF SeqInv, TicketsOK
      <3>3. ticket'[t] # ticket'[u]
        BY <1>1, <3>1, <3>2
      <3>4. \A v \in Threads \ {u, t} : pc'[v] = "append" => ticket'[v] # ticket'[u]
        BY <1>1, <3>1, <3>2
      <3> QED
        BY <1>1, <3>1, <3>2, <3>3, <3>4
    <2> QED
      BY <2>2, <2>3
  <1>5. EventSequencesUnique'
    BY <1>1 DEF SeqInv, EventSequencesUnique
  <1> QED
    BY <1>3, <1>4, <1>5 DEF SeqInv, TicketsOK

\* emit_event, second critical section: the event takes the number drawn.
LEMMA AppendEventSeq ==
    ASSUME IndInv, SeqInv, NEW t \in Threads, AppendEvent(t)
    PROVE  SeqInv'
  <1> DEFINE new == [sequence |-> ticket[t], id |-> call[t].id, obj |-> obj[t],
                     type |-> Head(emitting[t])]
  <1>1. pc[t] = "append" /\ events' = events \cup {new} /\ seq' = seq
    BY DEF AppendEvent
  <1>2. \A u \in Threads : pc'[u] = "append" => u # t /\ pc[u] = "append"
    <2>1. CASE Return(t)
      BY <2>1 DEF Return, IndInv, TypeOK
    <2>2. CASE \E stage \in {"emit", "serialise"} : pc' = [pc EXCEPT ![t] = stage]
      BY <2>2 DEF IndInv, TypeOK
    <2> QED
      BY <2>1, <2>2 DEF AppendEvent
  <1>3. \A u \in Threads \ {t} : ticket'[u] = ticket[u]
    BY DEF AppendEvent, IndInv, TypeOK
  <1>4. /\ ticket[t] <= seq
        /\ \A x \in events : x.sequence # ticket[t]
        /\ \A u \in Threads \ {t} : pc[u] = "append" => ticket[u] # ticket[t]
    BY <1>1 DEF SeqInv, TicketsOK
  <1>5. new.sequence = ticket[t]
    OBVIOUS
  <1>6. TicketsOK'
    BY <1>1, <1>2, <1>3, <1>4, <1>5 DEF SeqInv, TicketsOK
  <1>7. EventSequencesUnique'
    BY <1>1, <1>4, <1>5 DEF SeqInv, EventSequencesUnique
  <1> QED
    BY <1>6, <1>7 DEF SeqInv

LEMMA StepSeq ==
    ASSUME IndInv, SeqInv, NEW t \in Threads, Step(t)
    PROVE  SeqInv'
  <1> USE DEF IndInv, logVars
  <1>1. CASE SweepFail(t)
    BY <1>1, SeqFrame, NotAppending DEF SweepFail, FailEntry, Enter
  <1>2. CASE EndSweep(t)
    BY <1>2, SeqFrame, NotAppending DEF EndSweep
  <1>3. CASE ReadAuditFrom(t)
    BY <1>3, SeqFrame, NotAppending DEF ReadAuditFrom
  <1>4. CASE Transition(t)
    BY <1>4, SeqFrame, NotAppending DEF Transition
  <1>5. CASE Reject(t)
    BY <1>5, SeqFrame, ReturnNotAppending DEF Reject
  <1>6. CASE DrawTicket(t)
    BY <1>6, DrawTicketSeq
  <1>7. CASE AppendEvent(t)
    BY <1>7, AppendEventSeq
  <1>8. CASE Serialise(t)
    BY <1>8, SeqFrame, NotAppending DEF Serialise
  <1>9. CASE SkipPersist(t)
    BY <1>9, SeqFrame, AfterPersistNotAppending DEF SkipPersist
  <1>10. CASE OpenTmp(t)
    BY <1>10, SeqFrame, NotAppending DEF OpenTmp
  <1>11. CASE WriteTmp(t)
    BY <1>11, SeqFrame, NotAppending DEF WriteTmp
  <1>12. CASE Replace(t)
    BY <1>12, SeqFrame, AfterPersistNotAppending DEF Replace
  <1>13. CASE PersistFails(t)
    BY <1>13, SeqFrame, AfterPersistNotAppending DEF PersistFails
  <1>14. CASE Audit(t)
    BY <1>14, SeqFrame, ReturnNotAppending DEF Audit
  <1> QED
    BY <1>1, <1>2, <1>3, <1>4, <1>5, <1>6, <1>7, <1>8, <1>9, <1>10, <1>11,
       <1>12, <1>13, <1>14 DEF Step

\* Two events never carry the same number, whatever the threads interleave
\* between the two critical sections of emit_event.
THEOREM SequencesUnique == Spec => []EventSequencesUnique
  <1>1. Init => SeqInv
    BY DEF Init, SeqInv, TicketsOK, EventSequencesUnique
  <1>2. IndInv /\ SeqInv /\ [Next]_vars => SeqInv'
    <2> SUFFICES ASSUME IndInv, SeqInv, [Next]_vars PROVE SeqInv'
      OBVIOUS
    <2>1. CASE \E t \in Threads : Call(t) \/ Step(t)
      BY <2>1, CallSeq, StepSeq
    <2>2. CASE Restart
      BY <2>2 DEF Restart, SeqInv, TicketsOK, EventSequencesUnique
    <2>3. CASE UNCHANGED vars
      BY <2>3, SeqFrame DEF vars, threadVars, logVars
    <2> QED
      BY <2>1, <2>2, <2>3 DEF Next
  <1>3. SeqInv => EventSequencesUnique
    BY DEF SeqInv
  <1> QED
    BY <1>1, <1>2, <1>3, Inductive, PTL DEF Spec

-----------------------------------------------------------------------------
(* The lifecycle.                                                          *)

\* A sequence of at most one element has no second one.
LEMMA NoSecond == 2..Len(<<>>) = {} /\ \A x : 2..Len(<<x>>) = {}
  <1>1. Len(<<>>) = 0 /\ \A x : Len(<<x>>) = 1
    OBVIOUS
  <1>2. 2..0 = {} /\ 2..1 = {}
    OBVIOUS
  <1> QED
    BY <1>1, <1>2, Zenon

\* Storing an object that respects the lifecycle keeps LifecycleRespected.
LEMMA StoreRespects ==
    ASSUME TypeOK, LifecycleRespected, NEW t \in Threads, NEW e \in Ids,
           NEW snap \in Snapshot, Store(t, e, snap),
           snap.origin = "transition" =>
               Known(e) /\ snap.status \in Allowed[Current(e).status]
    PROVE  LifecycleRespected'
  <1>1. objects[e] \in Seq(Snapshot) /\ Len(objects[e]) \in Nat
    BY DEF TypeOK
  <1>2. \A f \in Ids : objects'[f] = IF f = e THEN Append(objects[e], snap)
                                     ELSE objects[f]
    BY DEF Store, TypeOK
  <1>3. ASSUME NEW k \in 2..Len(objects'[e]), objects'[e][k].origin = "transition"
        PROVE  objects'[e][k].status \in Allowed[objects'[e][k - 1].status]
    <2>1. /\ Len(objects'[e]) = Len(objects[e]) + 1
          /\ \A n \in 1..Len(objects[e]) : objects'[e][n] = objects[e][n]
          /\ objects'[e][Len(objects[e]) + 1] = snap
      <3>1. objects'[e] = Append(objects[e], snap)
        BY <1>2
      <3> QED
        BY <1>1, <3>1, AppendProperties
    <2>2. CASE k = Len(objects[e]) + 1
      <3>1. k - 1 = Len(objects[e]) /\ Len(objects[e]) \in 1..Len(objects[e])
        BY <1>1, <1>3, <2>1, <2>2
      <3> QED
        BY <1>3, <2>1, <2>2, <3>1 DEF Current
    <2>3. CASE k # Len(objects[e]) + 1
      <3>1. k \in 2..Len(objects[e]) /\ k \in 1..Len(objects[e])
            /\ k - 1 \in 1..Len(objects[e])
        BY <1>1, <2>1, <2>3
      <3> QED
        BY <1>3, <2>1, <3>1 DEF LifecycleRespected
    <2> QED
      BY <2>2, <2>3
  <1> QED
    BY <1>2, <1>3 DEF LifecycleRespected

\* Writing a result or an error into the current object leaves its status.
LEMMA MutateRespects ==
    ASSUME TypeOK, LifecycleRespected, NEW e \in Ids, NEW snap \in Snapshot,
           Known(e), Mutate(e, snap),
           snap.status = Current(e).status, snap.origin = Current(e).origin
    PROVE  LifecycleRespected'
  <1>1. objects[e] \in Seq(Snapshot) /\ Len(objects[e]) \in Nat
    BY DEF TypeOK
  <1>2. /\ Len(objects'[e]) = Len(objects[e])
        /\ objects'[e] = [objects[e] EXCEPT ![Len(objects[e])] = snap]
        /\ \A f \in Ids \ {e} : objects'[f] = objects[f]
    BY MutateType
  <1>3. \A n \in 1..Len(objects[e]) :
            /\ objects'[e][n].status = objects[e][n].status
            /\ objects'[e][n].origin = objects[e][n].origin
    BY <1>1, <1>2 DEF Current
  <1>4. ASSUME NEW k \in 2..Len(objects'[e]), objects'[e][k].origin = "transition"
        PROVE  objects'[e][k].status \in Allowed[objects'[e][k - 1].status]
    <2>1. k \in 2..Len(objects[e]) /\ k \in 1..Len(objects[e])
          /\ k - 1 \in 1..Len(objects[e])
      BY <1>1, <1>2
    <2> QED
      BY <1>3, <1>4, <2>1 DEF LifecycleRespected
  <1> QED
    BY <1>2, <1>4 DEF LifecycleRespected

LEMMA SameObjects ==
    ASSUME LifecycleRespected, UNCHANGED objects
    PROVE  LifecycleRespected'
  BY DEF LifecycleRespected

\* The entry of fail writes an error.
LEMMA FailEntryRespects ==
    ASSUME TypeOK, LifecycleRespected, NEW t \in Threads, NEW e \in Ids,
           Known(e), FailEntry(t, e)
    PROVE  LifecycleRespected'
  <1> DEFINE snap == [Current(e) EXCEPT !.error = TRUE]
  <1>1. /\ snap \in Snapshot
        /\ snap.status = Current(e).status /\ snap.origin = Current(e).origin
    BY CurrentSnapshot DEF Snapshot
  <1> QED
    BY <1>1, MutateRespects DEF FailEntry

LEMMA CallRespects ==
    ASSUME IndInv, LifecycleRespected, NEW t \in Threads, Call(t)
    PROVE  LifecycleRespected'
  <1> USE DEF IndInv
  <1>1. ASSUME NEW e \in Ids, Create(t, e) PROVE LifecycleRespected'
    <2>1. NewSnapshot \in Snapshot /\ NewSnapshot.origin # "transition"
      BY DEF NewSnapshot, Snapshot, Status
    <2> QED
      BY <1>1, <2>1, StoreRespects DEF Create
  <1>2. ASSUME NEW e \in Ids, Project(t, e) PROVE LifecycleRespected'
    <2>1. PICK snap \in Projections : Store(t, e, snap)
      BY <1>2 DEF Project
    <2>2. snap \in Snapshot /\ snap.origin # "transition"
      BY ProjectionsAssumption
    <2> QED
      BY <2>1, <2>2, StoreRespects
  <1>3. ASSUME NEW e \in Ids, CallComplete(t, e) PROVE LifecycleRespected'
    <2>1. PICK r \in Results : Mutate(e, [Current(e) EXCEPT !.result = r])
      BY <1>3 DEF CallComplete
    <2> DEFINE snap == [Current(e) EXCEPT !.result = r]
    <2>2. Known(e)
      BY <1>3 DEF CallComplete, MayCall
    <2>3. /\ snap \in Snapshot
          /\ snap.status = Current(e).status /\ snap.origin = Current(e).origin
      BY <2>2, CurrentSnapshot DEF Snapshot
    <2> QED
      BY <2>1, <2>2, <2>3, MutateRespects
  <1>4. ASSUME NEW e \in Ids, CallFail(t, e) PROVE LifecycleRespected'
    BY <1>4, FailEntryRespects DEF CallFail, MayCall
  <1>5. ASSUME NEW e \in Ids,
               CallMove(t, e) \/ CallCancel(t, e) \/ CompleteHonoursCancel(t, e)
        PROVE  LifecycleRespected'
    BY <1>5, SameObjects DEF CallMove, CallCancel, CompleteHonoursCancel
  <1>6. CASE BeginSweep(t)
    BY <1>6, SameObjects DEF BeginSweep
  <1> QED
    BY <1>1, <1>2, <1>3, <1>4, <1>5, <1>6 DEF Call

LEMMA StepRespects ==
    ASSUME IndInv, LifecycleRespected, NEW t \in Threads, Step(t)
    PROVE  LifecycleRespected'
  <1> USE DEF IndInv
  <1>1. CASE SweepFail(t)
    <2>1. PICK e \in sweep[t] : FailEntry(t, e)
      BY <1>1 DEF SweepFail
    <2>2. e \in Ids /\ Known(e)
      BY DEF TypeOK, ControlOK, ThreadOK
    <2> QED
      BY <2>1, <2>2, FailEntryRespects
  <1>2. CASE Transition(t)
    <2> DEFINE e == call[t].id
               target == Target[call[t].op]
    <2>1. /\ e \in Ids /\ Known(e) /\ target \in Status
          /\ Store(t, e, Moved(Current(e), target))
          /\ target \in Allowed[Current(e).status]
      BY <1>2, Inside, MovesAre DEF Transition, StatusToLeave
    <2>2. /\ Moved(Current(e), target) \in Snapshot
          /\ Moved(Current(e), target).status = target
      BY <2>1, CurrentSnapshot, MovedType
    <2> QED
      BY <2>1, <2>2, StoreRespects
  <1>3. CASE \/ EndSweep(t) \/ ReadAuditFrom(t) \/ Reject(t)
             \/ DrawTicket(t) \/ AppendEvent(t)
             \/ Serialise(t) \/ SkipPersist(t)
             \/ OpenTmp(t) \/ WriteTmp(t) \/ Replace(t) \/ PersistFails(t)
             \/ Audit(t)
    <2>1. UNCHANGED objects
      BY <1>3 DEF EndSweep, ReadAuditFrom, Reject, DrawTicket, AppendEvent,
         Serialise, SkipPersist, OpenTmp, WriteTmp, Replace, PersistFails, Audit
    <2> QED
      BY <2>1, SameObjects
  <1> QED
    BY <1>1, <1>2, <1>3 DEF Step

\* Every transition goes along the lifecycle from the object it replaces:
\* _transition checks and stores in one critical section, so no interleaving
\* of cancel, complete, fail, recover_stale and upsert_execution gets past it.
THEOREM LifecycleSafe == Spec => []LifecycleRespected
  <1>1. Init => LifecycleRespected
    BY DEF Init, LifecycleRespected
  <1>2. IndInv /\ LifecycleRespected /\ [Next]_vars => LifecycleRespected'
    <2> SUFFICES ASSUME IndInv, LifecycleRespected, [Next]_vars
                 PROVE  LifecycleRespected'
      OBVIOUS
    <2>1. CASE \E t \in Threads : Call(t) \/ Step(t)
      BY <2>1, CallRespects, StepRespects
    <2>2. CASE Restart
      <3>1. ASSUME NEW e \in Ids PROVE 2..Len(objects'[e]) = {}
        <4>1. \/ objects'[e] = <<>>
              \/ objects'[e] = <<[durable[e] EXCEPT !.origin = "reload"]>>
          BY <2>2 DEF Restart, Reloaded
        <4> QED
          BY <4>1, NoSecond
      <3> QED
        BY <3>1 DEF LifecycleRespected
    <2>3. CASE UNCHANGED vars
      BY <2>3, SameObjects DEF vars
    <2> QED
      BY <2>1, <2>2, <2>3 DEF Next
  <1> QED
    BY <1>1, <1>2, Inductive, PTL DEF Spec

-----------------------------------------------------------------------------
(* What the objects and the files may hold: histories that are paths of    *)
(* the lifecycle, final states with their outcome, files that hold what an *)
(* object said and, for one thread, files that are whole and up to date.   *)

\* What a file may hold when every snapshot in it is one of G.
Files(G) == G \cup {Absent, Empty, Torn}

\* Where a thread holds a serialised snapshot.
HoldsImage == {"open", "write", "replace"}

\* Every snapshot of an execution of N in memory, in a thread's hands or on disk
\* is one of G: a restart turns files into objects, so a property of the objects
\* alone is not inductive.
Stored(N, G) ==
    /\ \A e \in N : /\ objects[e] \in Seq(G)
                    /\ tmp[e] \in Files(G)
                    /\ durable[e] \in Files(G)
    /\ \A t \in Threads :
           pc[t] \in HoldsImage /\ call[t].id \in N => image[t] \in Files(G)

\* What threads hold to save comes from an execution of N as a snapshot of G.
ImagesGo(N, G) ==
    \A t \in Threads : pc'[t] \in HoldsImage =>
        \/ pc[t] \in HoldsImage /\ UNCHANGED <<call[t], image[t]>>
        \/ call'[t].id \in N => image'[t] \in Files(G)

\* The agent runtime reports nothing of the executions of N.
Spared(N) == \A t \in Threads, e \in N : ~Project(t, e)

\* The snapshots of G stay in G under everything but a transition and a report
\* of the agent runtime.
Closed(G) ==
    /\ G \subseteq Snapshot
    /\ NewSnapshot \in G
    /\ \A rec \in G : /\ \A r \in Results : [rec EXCEPT !.result = r] \in G
                      /\ [rec EXCEPT !.error = TRUE] \in G
                      /\ [rec EXCEPT !.origin = "reload"] \in G

\* What the transition of thread t stores.
ToStore(t) == Moved(Current(call[t].id), Target[call[t].op])

-----------------------------------------------------------------------------
(* Containment, for any closed set of snapshots.                           *)

LEMMA StoredFrame ==
    ASSUME NEW N, NEW G, Stored(N, G), ImagesGo(N, G),
           \A e \in N : /\ objects'[e] \in Seq(G)
                        /\ tmp'[e] \in Files(G)
                        /\ durable'[e] \in Files(G)
    PROVE  Stored(N, G)'
  BY DEF Stored, ImagesGo

\* A thread that is not about to save leaves the others' images alone.
LEMMA NotSaving ==
    ASSUME NEW N, NEW G, NEW t \in Threads, pc'[t] \notin HoldsImage,
           \A u \in Threads \ {t} : UNCHANGED <<pc[u], call[u], image[u]>>
    PROVE  ImagesGo(N, G)
  BY DEF ImagesGo

LEMMA CurrentStored ==
    ASSUME NEW N, NEW G, Stored(N, G), NEW e \in N, Known(e)
    PROVE  Current(e) \in G
  <1>1. objects[e] \in Seq(G) /\ objects[e] # <<>>
    BY DEF Stored, Known
  <1> QED
    BY <1>1 DEF Current

LEMMA StoreStored ==
    ASSUME NEW N \in SUBSET Ids, NEW G, TypeOK, Stored(N, G), ImagesGo(N, G),
           NEW t \in Threads, NEW e \in Ids, NEW snap, e \in N => snap \in G,
           Store(t, e, snap), UNCHANGED <<tmp, durable>>
    PROVE  Stored(N, G)'
  <1>1. ASSUME NEW f \in N
        PROVE  objects'[f] \in Seq(G)
    <2>1. objects[f] \in Seq(G)
      BY DEF Stored
    <2>2. CASE f = e
      <3>1. Append(objects[e], snap) \in Seq(G)
        BY <2>1, <2>2
      <3> QED
        BY <2>2, <3>1 DEF Store, TypeOK
    <2>3. CASE f # e
      BY <2>1, <2>3 DEF Store, TypeOK
    <2> QED
      BY <2>2, <2>3
  <1> QED
    BY <1>1, StoredFrame DEF Stored

LEMMA MutateStored ==
    ASSUME NEW N \in SUBSET Ids, NEW G, TypeOK, Stored(N, G), ImagesGo(N, G),
           NEW e \in Ids, NEW snap, e \in N => snap \in G, Known(e),
           Mutate(e, snap), UNCHANGED <<tmp, durable>>
    PROVE  Stored(N, G)'
  <1>1. ASSUME NEW f \in N
        PROVE  objects'[f] \in Seq(G)
    <2>1. objects[f] \in Seq(G)
      BY DEF Stored
    <2>2. CASE f = e
      <3>1. objects[e] \in Seq(G) /\ objects[e] # <<>> /\ snap \in G
        BY <2>1, <2>2 DEF Known
      <3>2. [objects[e] EXCEPT ![Len(objects[e])] = snap] \in Seq(G)
        BY <3>1
      <3> QED
        BY <2>2, <3>2 DEF Mutate, TypeOK
    <2>3. CASE f # e
      BY <2>1, <2>3 DEF Mutate, TypeOK
    <2> QED
      BY <2>2, <2>3
  <1> QED
    BY <1>1, StoredFrame DEF Stored

LEMMA FailEntryStored ==
    ASSUME NEW N \in SUBSET Ids, NEW G, Closed(G), TypeOK, Stored(N, G),
           NEW t \in Threads, NEW e \in Ids, Known(e), FailEntry(t, e),
           pc[t] \notin HoldsImage
    PROVE  Stored(N, G)'
  <1>1. e \in N => [Current(e) EXCEPT !.error = TRUE] \in G
    BY CurrentStored DEF Closed
  <1>2. ImagesGo(N, G)
    <2>1. CASE IsTerminal(Current(e))
      BY <2>1, NotSaving DEF FailEntry, fileVars
    <2>2. CASE ~IsTerminal(Current(e))
      <3>1. Enter(t, "fail", e, "wrap") /\ UNCHANGED image
        BY <2>2 DEF FailEntry, fileVars
      <3>2. /\ pc'[t] = "wrap"
            /\ \A u \in Threads \ {t} : call'[u] = call[u] /\ pc'[u] = pc[u]
        BY <3>1, EnterType, MovesAre DEF Stages
      <3> QED
        BY <3>1, <3>2, NotSaving DEF HoldsImage
    <2> QED
      BY <2>1, <2>2
  <1> QED
    BY <1>1, <1>2, MutateStored DEF FailEntry, fileVars

\* Entering an operation saves nothing yet.
LEMMA EntryImages ==
    ASSUME NEW N, NEW G, TypeOK, NEW t \in Threads, NEW e \in Ids,
           NEW stage \in {"wrap", "serialise"},
           NEW op \in Moves \cup {"create", "project"},
           Enter(t, op, e, stage), UNCHANGED image
    PROVE  ImagesGo(N, G)
  <1>1. stage \in Stages /\ stage \notin HoldsImage
    BY DEF Stages, HoldsImage
  <1>2. /\ pc'[t] = stage
        /\ \A u \in Threads \ {t} : call'[u] = call[u] /\ pc'[u] = pc[u]
    BY <1>1, EnterType
  <1> QED
    BY <1>1, <1>2, NotSaving

LEMMA CallStored ==
    ASSUME NEW N \in SUBSET Ids, NEW G, Closed(G), Spared(N), IndInv, Stored(N, G),
           NEW t \in Threads, Call(t)
    PROVE  Stored(N, G)'
  <1> USE DEF fileVars
  <1>1. ASSUME NEW e \in Ids, Create(t, e) PROVE Stored(N, G)'
    <2>1. ImagesGo(N, G)
      BY <1>1, EntryImages DEF Create, IndInv
    <2> QED
      BY <1>1, <2>1, StoreStored DEF Create, Closed, IndInv
  <1>2. ASSUME NEW e \in Ids, Project(t, e) PROVE Stored(N, G)'
    <2>1. e \notin N
      BY <1>2 DEF Spared
    <2>2. ImagesGo(N, G)
      BY <1>2, EntryImages DEF Project, IndInv
    <2>3. PICK snap \in Projections : Store(t, e, snap)
      BY <1>2 DEF Project
    <2> QED
      BY <1>2, <2>1, <2>2, <2>3, StoreStored DEF Project, IndInv
  <1>3. ASSUME NEW e \in Ids, CallComplete(t, e) PROVE Stored(N, G)'
    <2>1. PICK r \in Results : Mutate(e, [Current(e) EXCEPT !.result = r])
      BY <1>3 DEF CallComplete
    <2>2. Known(e)
      BY <1>3 DEF CallComplete, MayCall
    <2>3. e \in N => [Current(e) EXCEPT !.result = r] \in G
      BY <2>2, CurrentStored DEF Closed
    <2>4. ImagesGo(N, G)
      BY <1>3, EntryImages, MovesAre DEF CallComplete, IndInv
    <2> QED
      BY <1>3, <2>1, <2>2, <2>3, <2>4, MutateStored DEF CallComplete, IndInv
  <1>4. ASSUME NEW e \in Ids, CallFail(t, e) PROVE Stored(N, G)'
    BY <1>4, FailEntryStored DEF CallFail, MayCall, IndInv, HoldsImage
  <1>5. ASSUME NEW e \in Ids,
               CallMove(t, e) \/ CallCancel(t, e) \/ CompleteHonoursCancel(t, e)
        PROVE  Stored(N, G)'
    <2>1. UNCHANGED <<objects, image, tmp, durable>>
      BY <1>5 DEF CallMove, CallCancel, CompleteHonoursCancel
    <2>2. ImagesGo(N, G)
      BY <1>5, <2>1, EntryImages, MovesAre
      DEF CallMove, CallCancel, CompleteHonoursCancel, IndInv
    <2> QED
      BY <2>1, <2>2, StoredFrame DEF Stored
  <1>6. CASE BeginSweep(t)
    <2>1. UNCHANGED <<objects, image, tmp, durable, call>>
      BY <1>6 DEF BeginSweep
    <2>2. pc' = [pc EXCEPT ![t] = "sweep"]
      BY <1>6 DEF BeginSweep
    <2>3. ImagesGo(N, G)
      BY <2>1, <2>2, NotSaving DEF HoldsImage, IndInv, TypeOK
    <2> QED
      BY <2>1, <2>3, StoredFrame DEF Stored
  <1> QED
    BY <1>1, <1>2, <1>3, <1>4, <1>5, <1>6 DEF Call

\* Who has saved holds nothing any more.
LEMMA AfterPersistStored ==
    ASSUME NEW N, NEW G, IndInv, NEW t \in Threads, AfterPersist(t)
    PROVE  ImagesGo(N, G)
  <1>1. \A u \in Threads \ {t} : image'[u] = image[u]
    BY DEF AfterPersist, IndInv, TypeOK
  <1>2. CASE Return(t)
    <2>1. /\ pc'[t] \in {"idle", "sweep"}
          /\ \A u \in Threads \ {t} : call'[u] = call[u] /\ pc'[u] = pc[u]
      BY <1>2, ReturnType DEF IndInv
    <2> QED
      BY <1>1, <2>1, NotSaving DEF HoldsImage
  <1>3. CASE /\ \E stage \in {"emit", "audit"} : pc' = [pc EXCEPT ![t] = stage]
             /\ UNCHANGED call
    <2>1. /\ pc'[t] \in {"emit", "audit"}
          /\ \A u \in Threads \ {t} : call'[u] = call[u] /\ pc'[u] = pc[u]
      BY <1>3 DEF IndInv, TypeOK
    <2> QED
      BY <1>1, <2>1, NotSaving DEF HoldsImage
  <1> QED
    BY <1>2, <1>3 DEF AfterPersist

\* Writing a snapshot of G, or what a failure leaves, into the open file.
LEMMA SetOpenContentStored ==
    ASSUME NEW N \in SUBSET Ids, NEW G, TypeOK, Stored(N, G), NEW t \in Threads,
           NEW content, call[t].id \in N => content \in Files(G),
           SetOpenContent(t, content)
    PROVE  \A e \in N : tmp'[e] \in Files(G) /\ durable'[e] \in Files(G)
  <1> SUFFICES ASSUME NEW e \in N
               PROVE  tmp'[e] \in Files(G) /\ durable'[e] \in Files(G)
    OBVIOUS
  <1>1. tmp[e] \in Files(G) /\ durable[e] \in Files(G)
    BY DEF Stored
  <1>2. tmp'[e] = tmp[e] \/ (e = call[t].id /\ tmp'[e] = content)
    BY DEF SetOpenContent, TypeOK
  <1>3. durable'[e] = durable[e] \/ (e = call[t].id /\ durable'[e] = content)
    BY DEF SetOpenContent, TypeOK
  <1> QED
    BY <1>1, <1>2, <1>3

LEMMA PersistStored ==
    ASSUME NEW N \in SUBSET Ids, NEW G, IndInv, Stored(N, G), NEW t \in Threads,
           \/ Serialise(t) \/ SkipPersist(t) \/ OpenTmp(t) \/ WriteTmp(t)
           \/ Replace(t) \/ PersistFails(t)
    PROVE  Stored(N, G)'
  <1>0. /\ \A e \in N : /\ objects[e] \in Seq(G)
                        /\ tmp[e] \in Files(G) /\ durable[e] \in Files(G)
        /\ pc[t] \in HoldsImage /\ call[t].id \in N => image[t] \in Files(G)
    BY DEF Stored
  <1>1. CASE Serialise(t)
    <2>1. obj[t] \in DOMAIN objects[call[t].id]
      BY <1>1 DEF Serialise, IndInv, ControlOK, ThreadOK
    <2>2. call[t].id \in N => SnapshotToSave(t) \in Files(G)
      <3> SUFFICES ASSUME call[t].id \in N PROVE SnapshotToSave(t) \in G
        BY DEF Files
      <3>1. objects[call[t].id] \in Seq(G)
        BY <1>0
      <3> QED
        BY <2>1, <3>1 DEF SnapshotToSave
    <2>3. /\ image'[t] = SnapshotToSave(t) /\ call' = call
          /\ \A u \in Threads \ {t} : image'[u] = image[u] /\ pc'[u] = pc[u]
      BY <1>1 DEF Serialise, IndInv, TypeOK
    <2>4. ImagesGo(N, G)
      BY <2>2, <2>3 DEF ImagesGo
    <2> QED
      BY <1>0, <1>1, <2>4, StoredFrame DEF Serialise
  <1>2. CASE SkipPersist(t)
    BY <1>0, <1>2, AfterPersistStored, StoredFrame DEF SkipPersist
  <1>3. CASE OpenTmp(t)
    <2>1. ImagesGo(N, G)
      BY <1>3 DEF OpenTmp, ImagesGo, HoldsImage, IndInv, TypeOK
    <2>2. \A e \in N : tmp'[e] \in {tmp[e], Empty}
      BY <1>3 DEF OpenTmp, IndInv, TypeOK
    <2> QED
      BY <1>0, <1>3, <2>1, <2>2, StoredFrame DEF OpenTmp, Files
  <1>4. CASE WriteTmp(t)
    <2>1. PICK content \in Overlay(OpenContent(t), image[t]) :
              SetOpenContent(t, content)
      BY <1>4 DEF WriteTmp
    <2>2. call[t].id \in N => content \in Files(G)
      BY <1>0, <1>4, <2>1 DEF WriteTmp, Overlay, Files, HoldsImage
    <2>3. \A e \in N : tmp'[e] \in Files(G) /\ durable'[e] \in Files(G)
      BY <2>1, <2>2, SetOpenContentStored DEF IndInv
    <2>4. ImagesGo(N, G)
      BY <1>4 DEF WriteTmp, ImagesGo, HoldsImage, IndInv, TypeOK
    <2> QED
      BY <1>0, <1>4, <2>3, <2>4, StoredFrame DEF WriteTmp
  <1>5. CASE Replace(t)
    <2>1. ASSUME NEW e \in N
          PROVE  tmp'[e] \in Files(G) /\ durable'[e] \in Files(G)
      <3>1. /\ tmp'[e] \in {tmp[e], Absent}
            /\ durable'[e] \in {durable[e], tmp[e]}
        BY <1>5 DEF Replace, IndInv, TypeOK
      <3> QED
        BY <1>0, <3>1 DEF Files
    <2> QED
      BY <1>0, <1>5, <2>1, AfterPersistStored, StoredFrame DEF Replace
  <1>6. CASE PersistFails(t)
    <2>1. ASSUME NEW content \in {OpenContent(t), Torn}, SetOpenContent(t, content)
          PROVE  \A e \in N : tmp'[e] \in Files(G) /\ durable'[e] \in Files(G)
      <3>1. call[t].id \in N => content \in Files(G)
        BY <1>0, <2>1 DEF OpenContent, Files
      <3> QED
        BY <2>1, <3>1, SetOpenContentStored DEF IndInv
    <2>2. \A e \in N : tmp'[e] \in Files(G) /\ durable'[e] \in Files(G)
      BY <1>0, <1>6, <2>1 DEF PersistFails
    <2> QED
      BY <1>0, <1>6, <2>2, AfterPersistStored, StoredFrame DEF PersistFails
  <1> QED
    BY <1>1, <1>2, <1>3, <1>4, <1>5, <1>6

LEMMA StepStored ==
    ASSUME NEW N \in SUBSET Ids, NEW G, Closed(G), IndInv, Stored(N, G),
           NEW t \in Threads, Step(t),
           Transition(t) /\ call[t].id \in N => ToStore(t) \in G
    PROVE  Stored(N, G)'
  <1> USE DEF fileVars
  <1>1. CASE SweepFail(t)
    <2>1. PICK e \in sweep[t] : FailEntry(t, e)
      BY <1>1 DEF SweepFail
    <2>2. e \in Ids /\ Known(e)
      BY DEF IndInv, TypeOK, ControlOK, ThreadOK
    <2> QED
      BY <1>1, <2>1, <2>2, FailEntryStored DEF SweepFail, IndInv, HoldsImage
  <1>2. CASE Transition(t)
    <2>1. call[t].id \in Ids
      BY <1>2, Inside DEF Transition
    <2>2. Store(t, call[t].id, ToStore(t)) /\ UNCHANGED <<tmp, durable, image, call>>
      BY <1>2 DEF Transition, ToStore
    <2>3. pc' = [pc EXCEPT ![t] = "emit"]
      BY <1>2 DEF Transition
    <2>4. ImagesGo(N, G)
      BY <2>2, <2>3, NotSaving DEF HoldsImage, IndInv, TypeOK
    <2> QED
      BY <1>2, <2>1, <2>2, <2>4, StoreStored DEF IndInv
  <1>3. CASE \/ EndSweep(t) \/ ReadAuditFrom(t) \/ Reject(t)
             \/ DrawTicket(t) \/ AppendEvent(t) \/ Audit(t)
    <2>1. UNCHANGED <<objects, tmp, durable, image>>
      BY <1>3 DEF EndSweep, ReadAuditFrom, Reject, DrawTicket, AppendEvent, Audit
    <2>2. CASE Return(t)
      <3>1. /\ pc'[t] \in {"idle", "sweep"}
            /\ \A u \in Threads \ {t} : call'[u] = call[u] /\ pc'[u] = pc[u]
        BY <2>2, ReturnType DEF IndInv
      <3>2. ImagesGo(N, G)
        BY <2>1, <3>1, NotSaving DEF HoldsImage
      <3> QED
        BY <2>1, <3>2, StoredFrame DEF Stored
    <2>3. ASSUME NEW stage \in {"idle", "transition", "append", "emit", "serialise"},
                 pc' = [pc EXCEPT ![t] = stage], UNCHANGED call
          PROVE  Stored(N, G)'
      <3>1. /\ pc'[t] = stage
            /\ \A u \in Threads \ {t} : pc'[u] = pc[u]
        BY <2>3 DEF IndInv, TypeOK
      <3>2. ImagesGo(N, G)
        BY <2>1, <2>3, <3>1, NotSaving DEF HoldsImage
      <3> QED
        BY <2>1, <3>2, StoredFrame DEF Stored
    <2> QED
      BY <1>3, <2>2, <2>3
      DEF EndSweep, ReadAuditFrom, Reject, DrawTicket, AppendEvent, Audit
  <1> QED
    BY <1>1, <1>2, <1>3, PersistStored DEF Step

LEMMA RestartStored ==
    ASSUME NEW N \in SUBSET Ids, NEW G, Closed(G), Stored(N, G), Restart
    PROVE  Stored(N, G)'
  <1>1. ASSUME NEW e \in N PROVE Reloaded(durable[e]) \in Seq(G)
    <2>1. CASE durable[e] \in {Absent, Empty, Torn}
      BY <2>1 DEF Reloaded
    <2>2. CASE durable[e] \notin {Absent, Empty, Torn}
      <3>1. [durable[e] EXCEPT !.origin = "reload"] \in G
        BY <2>2 DEF Stored, Files, Closed
      <3> QED
        BY <2>2, <3>1 DEF Reloaded
    <2> QED
      BY <2>1, <2>2
  <1>2. ImagesGo(N, G)
    BY DEF Restart, ImagesGo, HoldsImage
  <1>3. \A e \in N : objects'[e] = Reloaded(durable[e])
    BY DEF Restart
  <1> QED
    BY <1>1, <1>2, <1>3, StoredFrame DEF Restart, Stored

LEMMA InitStored ==
    ASSUME NEW N \in SUBSET Ids, NEW G, Init
    PROVE  Stored(N, G)
  <1>1. <<>> \in Seq(G)
    OBVIOUS
  <1> QED
    BY <1>1 DEF Init, Stored, Files, HoldsImage

\* Every step keeps the executions that the agent runtime does not report on
\* within a closed set of snapshots that their transitions do not leave.
LEMMA NextStored ==
    ASSUME NEW N \in SUBSET Ids, NEW G, Closed(G), IndInv, Stored(N, G),
           [Next /\ Spared(N)]_vars,
           \A t \in Threads : Transition(t) /\ call[t].id \in N => ToStore(t) \in G
    PROVE  Stored(N, G)'
  <1>1. CASE Spared(N) /\ \E t \in Threads : Call(t) \/ Step(t)
    BY <1>1, CallStored, StepStored
  <1>2. CASE Restart
    BY <1>2, RestartStored
  <1>3. CASE UNCHANGED vars
    BY <1>3 DEF vars, threadVars, fileVars, Stored
  <1> QED
    BY <1>1, <1>2, <1>3 DEF Next

\* A hub without an agent runtime is told nothing.
LEMMA NoReports ==
    ASSUME Projections = {}
    PROVE  Spared(Ids)
  BY DEF Spared, Project

\* A transition starts from a stored object and leads where the lifecycle
\* allows.
LEMMA TransitionFrom ==
    ASSUME NEW N \in SUBSET Ids, NEW G, IndInv, Stored(N, G), NEW t \in Threads,
           Transition(t), call[t].id \in N
    PROVE  /\ call[t].op \in Moves
           /\ Current(call[t].id) \in G
           /\ Target[call[t].op] \in Status
           /\ Target[call[t].op] \in Allowed[Current(call[t].id).status]
  <1>1. /\ pc[t] = "transition"
        /\ Target[call[t].op] \in Allowed[Current(call[t].id).status]
    BY DEF Transition, StatusToLeave
  <1>2. Known(call[t].id) /\ call[t].op \in Moves
    BY <1>1, Inside
  <1> QED
    BY <1>1, <1>2, CurrentStored, MovesAre

-----------------------------------------------------------------------------
(* Histories.                                                              *)

\* The history begins where jobs begin, follows the lifecycle and ends in the
\* status.
IsPath(snap) ==
    LET h == snap.history
    IN  /\ h # <<>> /\ h[1] = "queued" /\ h[Len(h)] = snap.status
        /\ \A n \in 1..(Len(h) - 1) : h[n + 1] \in Allowed[h[n]]

PathSnapshots == {snap \in Snapshot : IsPath(snap)}

\* Nothing but a transition touches the status or the history.
LEMMA PathsClosed == Closed(PathSnapshots)
  <1>1. NewSnapshot \in PathSnapshots
    <2>1. NewSnapshot \in Snapshot
      BY DEF NewSnapshot, Snapshot, Status
    <2>2. /\ NewSnapshot.history = <<"queued">>
          /\ NewSnapshot.status = "queued"
      BY DEF NewSnapshot
    <2>3. IsPath(NewSnapshot)
      BY <2>2 DEF IsPath
    <2> QED
      BY <2>1, <2>3 DEF PathSnapshots
  <1>2. ASSUME NEW rec \in PathSnapshots, NEW other \in Snapshot,
               other.history = rec.history, other.status = rec.status
        PROVE  other \in PathSnapshots
    BY <1>2 DEF PathSnapshots, IsPath
  <1>3. ASSUME NEW rec \in PathSnapshots
        PROVE  /\ \A r \in Results : [rec EXCEPT !.result = r] \in PathSnapshots
               /\ [rec EXCEPT !.error = TRUE] \in PathSnapshots
               /\ [rec EXCEPT !.origin = "reload"] \in PathSnapshots
    <2>1. rec \in Snapshot
      BY DEF PathSnapshots
    <2>2. ASSUME NEW r \in Results
          PROVE  [rec EXCEPT !.result = r] \in PathSnapshots
      <3>1. [rec EXCEPT !.result = r] \in Snapshot
        BY <2>1 DEF Snapshot
      <3>2. /\ [rec EXCEPT !.result = r].history = rec.history
            /\ [rec EXCEPT !.result = r].status = rec.status
        BY <2>1 DEF Snapshot
      <3> QED
        BY <1>2, <3>1, <3>2
    <2>3. [rec EXCEPT !.error = TRUE] \in PathSnapshots
      <3>1. [rec EXCEPT !.error = TRUE] \in Snapshot
        BY <2>1 DEF Snapshot
      <3>2. /\ [rec EXCEPT !.error = TRUE].history = rec.history
            /\ [rec EXCEPT !.error = TRUE].status = rec.status
        BY <2>1 DEF Snapshot
      <3> QED
        BY <1>2, <3>1, <3>2
    <2>4. [rec EXCEPT !.origin = "reload"] \in PathSnapshots
      <3>1. [rec EXCEPT !.origin = "reload"] \in Snapshot
        BY <2>1 DEF Snapshot
      <3>2. /\ [rec EXCEPT !.origin = "reload"].history = rec.history
            /\ [rec EXCEPT !.origin = "reload"].status = rec.status
        BY <2>1 DEF Snapshot
      <3> QED
        BY <1>2, <3>1, <3>2
    <2> QED
      BY <2>2, <2>3, <2>4
  <1>4. PathSnapshots \subseteq Snapshot
    BY DEF PathSnapshots
  <1> QED
    BY <1>1, <1>3, <1>4 DEF Closed

\* A transition extends the path by one step of the lifecycle.
LEMMA MovedIsPath ==
    ASSUME NEW rec \in PathSnapshots, NEW target \in Status,
           target \in Allowed[rec.status]
    PROVE  Moved(rec, target) \in PathSnapshots
  <1> DEFINE h == rec.history
             g == Moved(rec, target).history
  <1>1. /\ rec \in Snapshot /\ h \in Seq(Status)
        /\ h # <<>> /\ h[1] = "queued" /\ h[Len(h)] = rec.status
        /\ \A n \in 1..(Len(h) - 1) : h[n + 1] \in Allowed[h[n]]
    BY DEF PathSnapshots, IsPath, Snapshot
  <1>2. /\ Moved(rec, target) \in Snapshot
        /\ Moved(rec, target).status = target
    BY <1>1, MovedType
  <1>3. g = Append(h, target)
    BY <1>1 DEF Moved, Snapshot
  <1> HIDE DEF h, g
  <1>4. /\ Len(h) \in Nat \ {0} /\ Len(g) = Len(h) + 1 /\ g # <<>>
        /\ g[Len(h) + 1] = target
        /\ \A n \in 1..Len(h) : g[n] = h[n]
    BY <1>1, <1>3
  <1>5. g[1] = "queued" /\ g[Len(g)] = target
    BY <1>1, <1>4
  <1>6. ASSUME NEW n \in 1..(Len(g) - 1)
        PROVE  g[n + 1] \in Allowed[g[n]]
    <2>1. CASE n = Len(h)
      <3>1. g[n + 1] = target /\ g[n] = rec.status
        BY <1>1, <1>4, <2>1
      <3> QED
        BY <3>1
    <2>2. CASE n # Len(h)
      <3>1. n \in 1..(Len(h) - 1) /\ n \in 1..Len(h) /\ n + 1 \in 1..Len(h)
        BY <1>4, <1>6, <2>2
      <3> QED
        BY <1>1, <1>4, <3>1
    <2> QED
      BY <2>1, <2>2
  <1>7. IsPath(Moved(rec, target))
    BY <1>2, <1>4, <1>5, <1>6 DEF IsPath, g
  <1> QED
    BY <1>2, <1>7 DEF PathSnapshots

\* The three facts behind the theorems on histories.
SparedInv(N) == IndInv /\ Stored(N, PathSnapshots)

LEMMA SparedInit ==
    ASSUME NEW N \in SUBSET Ids, Init
    PROVE  SparedInv(N)
  BY InitStored, InitOK DEF SparedInv

LEMMA SparedStep ==
    ASSUME NEW N \in SUBSET Ids, SparedInv(N), [Next /\ Spared(N)]_vars
    PROVE  SparedInv(N)'
  <1> USE DEF SparedInv
  <1>1. ASSUME NEW t \in Threads, Transition(t), call[t].id \in N
        PROVE  ToStore(t) \in PathSnapshots
    BY <1>1, TransitionFrom, MovedIsPath DEF ToStore
  <1>2. IndInv'
    BY StepOK
  <1> QED
    BY <1>1, <1>2, PathsClosed, NextStored

LEMMA SparedPaths ==
    ASSUME NEW N \in SUBSET Ids, SparedInv(N)
    PROVE  \A e \in N : PathsOf(e)
  <1>1. ASSUME NEW e \in N, NEW k \in 1..Len(objects[e])
        PROVE  IsPath(objects[e][k])
    <2>1. objects[e] \in Seq(PathSnapshots)
      BY DEF SparedInv, Stored
    <2>2. objects[e][k] \in PathSnapshots
      BY <2>1
    <2> QED
      BY <2>2 DEF PathSnapshots
  <1> QED
    BY <1>1 DEF PathsOf, IsPath

\* Whatever the agent runtime reports of other executions, those it does not
\* report on keep a history that is a path of the lifecycle and ends in the
\* status, across concurrent transitions, in-place writes, threads that share
\* temporary files, crashes and reloads.
\* (_transition, load_durable, _persist_execution.)
THEOREM SparedHistorySafe ==
    ASSUME NEW N \in SUBSET Ids
    PROVE  Init /\ [][Next /\ Spared(N)]_vars => [](\A e \in N : PathsOf(e))
  <1>1. Init => SparedInv(N)
    BY SparedInit
  <1>2. SparedInv(N) /\ [Next /\ Spared(N)]_vars => SparedInv(N)'
    BY SparedStep
  <1>3. SparedInv(N) => \A e \in N : PathsOf(e)
    BY SparedPaths
  <1> QED
    BY <1>1, <1>2, <1>3, PTL

\* In a hub without an agent runtime that is every execution.
THEOREM HistorySafe ==
    ASSUME Projections = {}
    PROVE  Spec => []HistoryIsPath
  <1>1. Init => SparedInv(Ids)
    BY SparedInit
  <1>2. SparedInv(Ids) /\ [Next]_vars => SparedInv(Ids)'
    BY NoReports, SparedStep
  <1>3. SparedInv(Ids) => HistoryIsPath
    BY SparedPaths DEF HistoryIsPath
  <1> QED
    BY <1>1, <1>2, <1>3, PTL DEF Spec

-----------------------------------------------------------------------------
(* Outcomes.                                                               *)

\* A success has a result, a failure an error.
OutcomeSnapshots ==
    {snap \in Snapshot : /\ snap.status = "succeeded" => snap.result # NoResult
                         /\ snap.status = "failed" => snap.error}

\* Between the write of complete or fail into the current object and the
\* transition that copies it, the current object may be another one: it has
\* the result or the error all the same.
WrittenFor(t) ==
    pc[t] \in {"wrap", "transition"} =>
        /\ call[t].op = "complete" => Current(call[t].id).result # NoResult
        /\ call[t].op = "fail" => Current(call[t].id).error

Written == \A t \in Threads : WrittenFor(t)

OutcomeInv == Stored(Ids, OutcomeSnapshots) /\ Written

\* No execution loses its result or its error.
OutcomeKept ==
    \A e \in Ids : Known(e) =>
        /\ Current(e).result # NoResult => Current(e)'.result # NoResult
        /\ Current(e).error => Current(e)'.error

LEMMA OutcomesClosed ==
    ASSUME NoResult \notin Results
    PROVE  Closed(OutcomeSnapshots)
  <1>1. NewSnapshot \in OutcomeSnapshots
    BY DEF NewSnapshot, OutcomeSnapshots, Snapshot, Status
  <1>2. ASSUME NEW rec \in OutcomeSnapshots, NEW r \in Results
        PROVE  [rec EXCEPT !.result = r] \in OutcomeSnapshots
    BY DEF OutcomeSnapshots, Snapshot
  <1>3. ASSUME NEW rec \in OutcomeSnapshots
        PROVE  /\ [rec EXCEPT !.error = TRUE] \in OutcomeSnapshots
               /\ [rec EXCEPT !.origin = "reload"] \in OutcomeSnapshots
    BY DEF OutcomeSnapshots, Snapshot
  <1>4. OutcomeSnapshots \subseteq Snapshot
    BY DEF OutcomeSnapshots
  <1> QED
    BY <1>1, <1>2, <1>3, <1>4 DEF Closed

\* The object a store makes current, for one id and for the others.
LEMMA StoreCurrent ==
    ASSUME TypeOK, NEW t \in Threads, NEW e \in Ids, NEW snap \in Snapshot,
           Store(t, e, snap)
    PROVE  /\ Current(e)' = snap
           /\ \A f \in Ids \ {e} : Current(f)' = Current(f)
  <1>1. objects[e] \in Seq(Snapshot)
    BY DEF TypeOK
  <1>2. objects'[e] = Append(objects[e], snap)
    BY DEF Store, TypeOK
  <1>3. \A f \in Ids \ {e} : objects'[f] = objects[f]
    BY DEF Store, TypeOK
  <1>4. objects'[e][Len(objects'[e])] = snap
    BY <1>1, <1>2
  <1> QED
    BY <1>3, <1>4 DEF Current

LEMMA MutateCurrent ==
    ASSUME TypeOK, NEW e \in Ids, NEW snap \in Snapshot, Known(e),
           Mutate(e, snap)
    PROVE  /\ Current(e)' = snap
           /\ \A f \in Ids \ {e} : Current(f)' = Current(f)
  <1>1. objects[e] \in Seq(Snapshot) /\ objects[e] # <<>>
    BY DEF TypeOK, Known
  <1>2. /\ objects'[e] = [objects[e] EXCEPT ![Len(objects[e])] = snap]
        /\ Len(objects'[e]) = Len(objects[e])
        /\ \A f \in Ids \ {e} : objects'[f] = objects[f]
    BY MutateType
  <1>3. objects'[e][Len(objects'[e])] = snap
    BY <1>1, <1>2
  <1> QED
    BY <1>2, <1>3 DEF Current

\* A step that starts no complete or fail and loses no outcome.
LEMMA WrittenFrame ==
    ASSUME IndInv, Written, OutcomeKept,
           \A u \in Threads : pc'[u] \in {"wrap", "transition"} =>
               \/ pc[u] \in {"wrap", "transition"} /\ call'[u] = call[u]
               \/ WrittenFor(u)'
    PROVE  Written'
  <1>1. ASSUME NEW u \in Threads, pc[u] \in {"wrap", "transition"},
               call'[u] = call[u]
        PROVE  WrittenFor(u)'
    <2>1. PICK e \in Ids : e = call[u].id /\ Known(e)
      BY <1>1, Inside
    <2>2. /\ call[u].op = "complete" => Current(e).result # NoResult
          /\ call[u].op = "fail" => Current(e).error
      BY <1>1, <2>1 DEF Written, WrittenFor
    <2>3. /\ call[u].op = "complete" => Current(e)'.result # NoResult
          /\ call[u].op = "fail" => Current(e)'.error
      BY <2>1, <2>2 DEF OutcomeKept
    <2>4. call'[u].id = e /\ Current(call[u].id)' = Current(e)'
      BY <1>1, <2>1 DEF Current
    <2> QED
      BY <1>1, <2>3, <2>4 DEF WrittenFor
  <1> QED
    BY <1>1 DEF Written, WrittenFor

LEMMA StoreKept ==
    ASSUME TypeOK, NEW t \in Threads, NEW e \in Ids, NEW snap \in Snapshot,
           Store(t, e, snap),
           Known(e) => /\ Current(e).result # NoResult => snap.result # NoResult
                       /\ Current(e).error => snap.error
    PROVE  OutcomeKept
  <1>1. /\ Current(e)' = snap
        /\ \A f \in Ids \ {e} : Current(f)' = Current(f)
    BY StoreCurrent
  <1> QED
    BY <1>1 DEF OutcomeKept

LEMMA MutateKept ==
    ASSUME TypeOK, NEW e \in Ids, NEW snap \in Snapshot, Known(e),
           Mutate(e, snap),
           Current(e).result # NoResult => snap.result # NoResult,
           Current(e).error => snap.error
    PROVE  OutcomeKept
  <1>1. /\ Current(e)' = snap
        /\ \A f \in Ids \ {e} : Current(f)' = Current(f)
    BY MutateCurrent
  <1> QED
    BY <1>1 DEF OutcomeKept

LEMMA SameKept ==
    ASSUME UNCHANGED objects
    PROVE  OutcomeKept
  BY DEF OutcomeKept, Current

\* A thread that enters an operation which writes no outcome.
LEMMA OtherEntry ==
    ASSUME IndInv, Written, OutcomeKept, NEW t \in Threads, NEW e \in Ids,
           NEW op \in {"start", "pause", "cancel"}, Enter(t, op, e, "wrap")
    PROVE  Written'
  <1>1. /\ call'[t].op = op
        /\ \A u \in Threads \ {t} : call'[u] = call[u] /\ pc'[u] = pc[u]
    BY EnterType, MovesAre DEF IndInv, Stages
  <1>2. WrittenFor(t)'
    BY <1>1 DEF WrittenFor
  <1> QED
    BY <1>1, <1>2, WrittenFrame

\* A thread that moves away from the transition.
LEMMA StageWritten ==
    ASSUME IndInv, Written, OutcomeKept, NEW t \in Threads,
           pc'[t] \in {"wrap", "transition"} =>
               pc[t] \in {"wrap", "transition"} /\ call'[t] = call[t],
           \A u \in Threads \ {t} : call'[u] = call[u] /\ pc'[u] = pc[u]
    PROVE  Written'
  BY WrittenFrame

LEMMA FailEntryWritten ==
    ASSUME IndInv, Written, NEW t \in Threads, NEW e \in Ids, Known(e),
           FailEntry(t, e), pc[t] \in {"idle", "sweep"}
    PROVE  Written'
  <1> DEFINE snap == [Current(e) EXCEPT !.error = TRUE]
  <1>1. Current(e) \in Snapshot
    BY CurrentSnapshot DEF IndInv
  <1>2. /\ snap \in Snapshot /\ snap.error = TRUE
        /\ snap.result = Current(e).result
    BY <1>1 DEF Snapshot
  <1>3. Mutate(e, snap)
    BY DEF FailEntry
  <1> HIDE DEF snap
  <1>4. OutcomeKept
    BY <1>2, <1>3, MutateKept DEF IndInv
  <1>5. Current(e)' = snap
    BY <1>2, <1>3, MutateCurrent DEF IndInv
  <1>6. CASE IsTerminal(Current(e))
    BY <1>4, <1>6, WrittenFrame DEF FailEntry
  <1>7. CASE ~IsTerminal(Current(e))
    <2>1. Enter(t, "fail", e, "wrap")
      BY <1>7 DEF FailEntry
    <2>2. /\ call'[t].op = "fail" /\ call'[t].id = e
          /\ \A u \in Threads \ {t} : call'[u] = call[u] /\ pc'[u] = pc[u]
      BY <2>1, EnterType, MovesAre DEF IndInv, Stages
    <2>3. Current(call[t].id)' = Current(e)'
      BY <2>2 DEF Current
    <2>4. Current(e)'.error
      BY <1>2, <1>5
    <2>5. WrittenFor(t)'
      BY <2>2, <2>3, <2>4 DEF WrittenFor
    <2> QED
      BY <1>4, <2>2, <2>5, WrittenFrame
  <1> QED
    BY <1>6, <1>7

LEMMA CallWritten ==
    ASSUME Projections = {}, NoResult \notin Results,
           IndInv, Written, NEW t \in Threads, Call(t)
    PROVE  Written'
  <1>1. ASSUME NEW e \in Ids, Create(t, e) PROVE Written'
    <2>1. NewSnapshot \in Snapshot
      BY DEF NewSnapshot, Snapshot, Status
    <2>2. OutcomeKept
      BY <1>1, <2>1, StoreKept DEF Create, IndInv
    <2>3. /\ pc'[t] = "serialise"
          /\ \A u \in Threads \ {t} : call'[u] = call[u] /\ pc'[u] = pc[u]
      BY <1>1, EnterType DEF Create, IndInv, Stages
    <2> QED
      BY <2>2, <2>3, StageWritten
  <1>2. ASSUME NEW e \in Ids, Project(t, e) PROVE Written'
    BY <1>2 DEF Project
  <1>3. ASSUME NEW e \in Ids, CallComplete(t, e) PROVE Written'
    <2>1. PICK r \in Results : Mutate(e, [Current(e) EXCEPT !.result = r])
      BY <1>3 DEF CallComplete
    <2> DEFINE snap == [Current(e) EXCEPT !.result = r]
    <2>2. Known(e) /\ Enter(t, "complete", e, "wrap")
      BY <1>3 DEF CallComplete, MayCall
    <2>3. Current(e) \in Snapshot
      BY <2>2, CurrentSnapshot DEF IndInv
    <2>4. /\ snap \in Snapshot /\ snap.result = r
          /\ snap.error = Current(e).error
      BY <2>3 DEF Snapshot
    <2>5. Mutate(e, snap)
      BY <2>1
    <2> HIDE DEF snap
    <2>6. OutcomeKept
      BY <2>2, <2>4, <2>5, MutateKept DEF IndInv
    <2>7. Current(e)' = snap
      BY <2>2, <2>4, <2>5, MutateCurrent DEF IndInv
    <2>8. /\ call'[t].op = "complete" /\ call'[t].id = e
          /\ \A u \in Threads \ {t} : call'[u] = call[u] /\ pc'[u] = pc[u]
      BY <2>2, EnterType, MovesAre DEF IndInv, Stages
    <2>9. Current(call[t].id)' = Current(e)'
      BY <2>8 DEF Current
    <2>10. WrittenFor(t)'
      BY <2>4, <2>7, <2>8, <2>9 DEF WrittenFor
    <2> QED
      BY <2>6, <2>8, <2>10, WrittenFrame
  <1>4. ASSUME NEW e \in Ids, CallFail(t, e) PROVE Written'
    BY <1>4, FailEntryWritten DEF CallFail, MayCall
  <1>5. ASSUME NEW e \in Ids,
               CallMove(t, e) \/ CallCancel(t, e) \/ CompleteHonoursCancel(t, e)
        PROVE  Written'
    BY <1>5, SameKept, OtherEntry
       DEF CallMove, CallCancel, CompleteHonoursCancel
  <1>6. CASE BeginSweep(t)
    BY <1>6, SameKept, StageWritten DEF BeginSweep, IndInv, TypeOK
  <1> QED
    BY <1>1, <1>2, <1>3, <1>4, <1>5, <1>6 DEF Call

\* Where Return and AfterPersist leave the threads.
LEMMA ReturnWritten ==
    ASSUME IndInv, Written, NEW t \in Threads, UNCHANGED objects,
           Return(t) \/ AfterPersist(t)
    PROVE  Written'
  <1>1. CASE Return(t)
    BY <1>1, SameKept, StageWritten, ReturnType DEF IndInv
  <1>2. CASE /\ \E stage \in {"emit", "audit"} : pc' = [pc EXCEPT ![t] = stage]
             /\ UNCHANGED call
    BY <1>2, SameKept, StageWritten DEF IndInv, TypeOK
  <1> QED
    BY <1>1, <1>2 DEF AfterPersist

\* A transition carries the outcome over to the object it stores.
LEMMA TransitionWritten ==
    ASSUME IndInv, Written, NEW t \in Threads, Transition(t)
    PROVE  Written'
  <1> DEFINE e == call[t].id
             snap == ToStore(t)
  <1>1. e \in Ids /\ Known(e) /\ Target[call[t].op] \in Status
    BY Inside, MovesAre DEF Transition
  <1>2. Current(e) \in Snapshot
    BY <1>1, CurrentSnapshot DEF IndInv
  <1>3. /\ snap \in Snapshot
        /\ snap.result = Current(e).result /\ snap.error = Current(e).error
    BY <1>1, <1>2, MovedType DEF ToStore, Moved, Snapshot
  <1>4. Store(t, e, snap) /\ pc' = [pc EXCEPT ![t] = "emit"] /\ call' = call
    BY DEF Transition, ToStore
  <1> HIDE DEF snap
  <1>5. OutcomeKept
    BY <1>1, <1>3, <1>4, StoreKept DEF IndInv
  <1> QED
    BY <1>4, <1>5, StageWritten DEF IndInv, TypeOK

LEMMA StepWritten ==
    ASSUME IndInv, Written, NEW t \in Threads, Step(t)
    PROVE  Written'
  <1>1. CASE SweepFail(t)
    <2>1. PICK e \in sweep[t] : FailEntry(t, e)
      BY <1>1 DEF SweepFail
    <2>2. e \in Ids /\ Known(e) /\ pc[t] = "sweep"
      BY <1>1 DEF SweepFail, IndInv, TypeOK, ControlOK, ThreadOK
    <2> QED
      BY <2>1, <2>2, FailEntryWritten
  <1>2. CASE Transition(t)
    BY <1>2, TransitionWritten
  <1>3. CASE \/ EndSweep(t) \/ ReadAuditFrom(t) \/ DrawTicket(t)
             \/ Serialise(t) \/ OpenTmp(t) \/ WriteTmp(t)
    <2>1. UNCHANGED <<objects, call>>
      BY <1>3 DEF EndSweep, ReadAuditFrom, DrawTicket, Serialise, OpenTmp,
         WriteTmp
    <2>2. \/ pc[t] = "wrap" /\ pc' = [pc EXCEPT ![t] = "transition"]
          \/ \E stage \in {"idle", "append", "open", "write", "replace"} :
                 pc' = [pc EXCEPT ![t] = stage]
      BY <1>3 DEF EndSweep, ReadAuditFrom, DrawTicket, Serialise, OpenTmp,
         WriteTmp
    <2>3. pc \in [Threads -> Stages]
      BY DEF IndInv, TypeOK
    <2> QED
      BY <2>1, <2>2, <2>3, SameKept, StageWritten
  <1>4. CASE AppendEvent(t)
    <2>1. UNCHANGED objects
      BY <1>4 DEF AppendEvent
    <2>2. CASE /\ \E stage \in {"emit", "serialise"} : pc' = [pc EXCEPT ![t] = stage]
               /\ UNCHANGED call
      BY <2>1, <2>2, SameKept, StageWritten DEF IndInv, TypeOK
    <2>3. CASE Return(t)
      BY <2>1, <2>3, ReturnWritten
    <2> QED
      BY <1>4, <2>2, <2>3 DEF AppendEvent
  <1>5. CASE \/ Reject(t) \/ SkipPersist(t) \/ Replace(t) \/ PersistFails(t)
             \/ Audit(t)
    BY <1>5, ReturnWritten DEF Reject, SkipPersist, Replace, PersistFails, Audit
  <1> QED
    BY <1>1, <1>2, <1>3, <1>4, <1>5 DEF Step

\* The status a transition stores has its outcome.
LEMMA MovedOutcome ==
    ASSUME IndInv, OutcomeInv, NEW t \in Threads, Transition(t)
    PROVE  ToStore(t) \in OutcomeSnapshots
  <1> DEFINE rec == Current(call[t].id)
             op == call[t].op
  <1>1. rec \in OutcomeSnapshots /\ op \in Moves /\ Target[op] \in Status
    <2>1. call[t].id \in Ids
      BY Inside DEF Transition
    <2> QED
      BY <2>1, TransitionFrom DEF OutcomeInv
  <1>2. /\ op = "complete" => rec.result # NoResult
        /\ op = "fail" => rec.error
    BY DEF OutcomeInv, Written, WrittenFor, Transition
  <1>3. /\ Target[op] = "succeeded" => op = "complete"
        /\ Target[op] = "failed" => op = "fail"
    BY <1>1, MovesAre DEF Target
  <1> HIDE DEF rec, op
  <1>4. /\ rec \in Snapshot
        /\ Moved(rec, Target[op]) \in Snapshot
        /\ Moved(rec, Target[op]).status = Target[op]
    BY <1>1, MovedType DEF OutcomeSnapshots
  <1>5. /\ Moved(rec, Target[op]).result = rec.result
        /\ Moved(rec, Target[op]).error = rec.error
    BY <1>4 DEF Moved, Snapshot
  <1>6. Moved(rec, Target[op]) \in OutcomeSnapshots
    BY <1>2, <1>3, <1>4, <1>5 DEF OutcomeSnapshots
  <1> QED
    BY <1>6 DEF ToStore, rec, op

\* A success carries a result and a failure an error, although complete and
\* fail write them into one object in one critical section and the transition
\* that copies them follows in another, with transitions of other threads in
\* between, crashes and reloads: provided the agent runtime does not replace
\* the object meanwhile.  (complete, fail, _transition, load_durable.)
THEOREM OutcomeSafe ==
    ASSUME Projections = {}, NoResult \notin Results
    PROVE  Spec => []OutcomeRecorded
  <1>1. Init => OutcomeInv
    <2>1. Init => Written
      BY DEF Init, Written, WrittenFor
    <2> QED
      BY <2>1, InitStored DEF OutcomeInv
  <1>2. IndInv /\ OutcomeInv /\ [Next]_vars => OutcomeInv'
    <2> SUFFICES ASSUME IndInv, OutcomeInv, [Next]_vars
                 PROVE  OutcomeInv'
      OBVIOUS
    <2>1. Stored(Ids, OutcomeSnapshots)'
      BY MovedOutcome, OutcomesClosed, NoReports, NextStored DEF OutcomeInv
    <2>2. Written'
      <3>1. CASE \E t \in Threads : Call(t) \/ Step(t)
        BY <3>1, CallWritten, StepWritten DEF OutcomeInv
      <3>2. CASE Restart
        BY <3>2 DEF Restart, Written, WrittenFor
      <3>3. CASE UNCHANGED vars
        BY <3>3, SameKept, WrittenFrame DEF vars, threadVars, OutcomeInv
      <3> QED
        BY <3>1, <3>2, <3>3 DEF Next
    <2> QED
      BY <2>1, <2>2 DEF OutcomeInv
  <1>3. ASSUME OutcomeInv
        PROVE  OutcomeRecorded
    <2>1. ASSUME NEW e \in Ids, NEW k \in 1..Len(objects[e])
          PROVE  objects[e][k] \in OutcomeSnapshots
      <3>1. objects[e] \in Seq(OutcomeSnapshots)
        BY <1>3 DEF OutcomeInv, Stored
      <3> QED
        BY <3>1
    <2> QED
      BY <2>1 DEF OutcomeRecorded, OutcomeSnapshots
  <1> QED
    BY <1>1, <1>2, <1>3, Inductive, PTL DEF Spec

-----------------------------------------------------------------------------
(* Files.                                                                  *)

\* A content that parses has the status and the history of one of objs.
StoredIn(objs, content) ==
    content \notin {Absent, Empty, Torn} =>
        \E k \in DOMAIN objs : /\ objs[k].status = content.status
                              /\ objs[k].history = content.history

\* Where the file of a thread is open or written.
OwnsFile == {"write", "replace"}

\* <id>.tmp survives a restart, whose objects need not hold what it holds: but
\* a thread that will rename it has truncated it first, so it says what an
\* object said only while some thread is past the open.
FileInv ==
    /\ \A e \in Ids : StoredIn(objects[e], durable[e])
    /\ \A t \in Threads : pc[t] \in HoldsImage =>
           StoredIn(objects[call[t].id], image[t])
    /\ \A t \in Threads : pc[t] \in OwnsFile =>
           StoredIn(objects[call[t].id], tmp[call[t].id])

\* No object of new lost the status and the history it has in old.
Extends(new, old) ==
    \A k \in DOMAIN old : /\ k \in DOMAIN new
                          /\ new[k].status = old[k].status
                          /\ new[k].history = old[k].history

ObjectsExtend == \A e \in Ids : Extends(objects'[e], objects[e])

LEMMA ExtendsStored ==
    ASSUME NEW new, NEW old, NEW content, Extends(new, old),
           StoredIn(old, content)
    PROVE  StoredIn(new, content)
  BY DEF Extends, StoredIn

LEMMA StoreExtends ==
    ASSUME TypeOK, NEW t \in Threads, NEW e \in Ids, NEW snap,
           Store(t, e, snap)
    PROVE  ObjectsExtend
  <1>1. objects[e] \in Seq(Snapshot)
    BY DEF TypeOK
  <1>2. \A f \in Ids : objects'[f] = IF f = e THEN Append(objects[e], snap)
                                     ELSE objects[f]
    BY DEF Store, TypeOK
  <1>3. Extends(Append(objects[e], snap), objects[e])
    BY <1>1 DEF Extends
  <1> QED
    BY <1>2, <1>3 DEF ObjectsExtend, Extends

LEMMA MutateExtends ==
    ASSUME TypeOK, NEW e \in Ids, NEW snap, Known(e), Mutate(e, snap),
           snap.status = Current(e).status, snap.history = Current(e).history
    PROVE  ObjectsExtend
  <1>1. objects[e] \in Seq(Snapshot) /\ objects[e] # <<>>
    BY DEF TypeOK, Known
  <1> DEFINE new == [objects[e] EXCEPT ![Len(objects[e])] = snap]
  <1>2. \A f \in Ids : objects'[f] = IF f = e THEN new ELSE objects[f]
    BY DEF Mutate, TypeOK
  <1>3. Extends(new, objects[e])
    BY <1>1 DEF Extends, Current
  <1> QED
    BY <1>2, <1>3 DEF ObjectsExtend, Extends

LEMMA SameExtends ==
    ASSUME UNCHANGED objects
    PROVE  ObjectsExtend
  BY DEF ObjectsExtend, Extends

LEMMA FailEntryExtends ==
    ASSUME TypeOK, NEW t \in Threads, NEW e \in Ids, Known(e), FailEntry(t, e)
    PROVE  ObjectsExtend
  <1> DEFINE snap == [Current(e) EXCEPT !.error = TRUE]
  <1>1. /\ snap.status = Current(e).status
        /\ snap.history = Current(e).history
    BY CurrentSnapshot DEF Snapshot
  <1> QED
    BY <1>1, MutateExtends DEF FailEntry

\* Calls and steps lose no object.
LEMMA CallExtends ==
    ASSUME TypeOK, NEW t \in Threads, Call(t)
    PROVE  ObjectsExtend
  <1>1. ASSUME NEW e \in Ids, Create(t, e) PROVE ObjectsExtend
    BY <1>1, StoreExtends DEF Create
  <1>2. ASSUME NEW e \in Ids, Project(t, e) PROVE ObjectsExtend
    BY <1>2, StoreExtends DEF Project
  <1>3. ASSUME NEW e \in Ids, CallComplete(t, e) PROVE ObjectsExtend
    <2>1. PICK r \in Results : Mutate(e, [Current(e) EXCEPT !.result = r])
      BY <1>3 DEF CallComplete
    <2> DEFINE snap == [Current(e) EXCEPT !.result = r]
    <2>2. Known(e)
      BY <1>3 DEF CallComplete, MayCall
    <2>3. /\ snap.status = Current(e).status
          /\ snap.history = Current(e).history
      BY <2>2, CurrentSnapshot DEF Snapshot
    <2> QED
      BY <2>1, <2>2, <2>3, MutateExtends
  <1>4. ASSUME NEW e \in Ids, CallFail(t, e) PROVE ObjectsExtend
    BY <1>4, FailEntryExtends DEF CallFail, MayCall
  <1>5. ASSUME NEW e \in Ids,
               CallMove(t, e) \/ CallCancel(t, e) \/ CompleteHonoursCancel(t, e)
        PROVE  ObjectsExtend
    BY <1>5, SameExtends DEF CallMove, CallCancel, CompleteHonoursCancel
  <1>6. CASE BeginSweep(t)
    BY <1>6, SameExtends DEF BeginSweep
  <1> QED
    BY <1>1, <1>2, <1>3, <1>4, <1>5, <1>6 DEF Call

\* What a step has to show of the files and of the threads that hold them.
LEMMA FileStep ==
    ASSUME IndInv, FileInv, ObjectsExtend,
           \A e \in Ids : StoredIn(objects[e], durable'[e]),
           \A e \in Ids : tmp'[e] = tmp[e] \/ StoredIn(objects[e], tmp'[e]),
           \A u \in Threads : pc'[u] \in HoldsImage =>
               /\ call'[u] = call[u]
               /\ pc[u] \in HoldsImage \cup {"serialise"}
               /\ \/ pc[u] \in HoldsImage /\ image'[u] = image[u]
                  \/ StoredIn(objects[call[u].id], image'[u]),
           \A u \in Threads : pc'[u] \in OwnsFile =>
               \/ pc[u] \in OwnsFile
               \/ StoredIn(objects[call[u].id], tmp'[call[u].id])
    PROVE  FileInv'
  <1>1. ASSUME NEW e \in Ids PROVE StoredIn(objects'[e], durable'[e])
    BY ExtendsStored DEF ObjectsExtend
  <1>2. ASSUME NEW u \in Threads, pc'[u] \in HoldsImage
        PROVE  /\ call'[u] = call[u] /\ call[u].id \in Ids
               /\ StoredIn(objects'[call[u].id], image'[u])
    <2>1. call'[u] = call[u] /\ call[u].id \in Ids
      BY <1>2, Inside DEF HoldsImage
    <2>2. StoredIn(objects[call[u].id], image'[u])
      BY <1>2 DEF FileInv
    <2> QED
      BY <2>1, <2>2, ExtendsStored DEF ObjectsExtend
  <1>3. ASSUME NEW u \in Threads, pc'[u] \in OwnsFile
        PROVE  StoredIn(objects'[call'[u].id], tmp'[call'[u].id])
    <2>1. PICK e \in Ids : e = call[u].id /\ call'[u] = call[u]
      BY <1>2, <1>3 DEF HoldsImage, OwnsFile
    <2>2. StoredIn(objects[e], tmp'[e])
      BY <1>3, <2>1 DEF FileInv
    <2> QED
      BY <2>1, <2>2, ExtendsStored DEF ObjectsExtend
  <1> QED
    BY <1>1, <1>2, <1>3 DEF FileInv

\* A step that leaves the files alone and takes no thread into a persist.
LEMMA FileFrame ==
    ASSUME IndInv, FileInv, ObjectsExtend, UNCHANGED <<tmp, durable>>,
           \A u \in Threads : pc'[u] \in HoldsImage =>
               pc'[u] = pc[u] /\ call'[u] = call[u] /\ image'[u] = image[u]
    PROVE  FileInv'
  BY FileStep DEF FileInv, HoldsImage, OwnsFile

\* The same, for one thread's step.
LEMMA FileThread ==
    ASSUME IndInv, FileInv, ObjectsExtend, UNCHANGED <<tmp, durable, image>>,
           NEW t \in Threads, pc'[t] \notin HoldsImage,
           \A u \in Threads \ {t} : call'[u] = call[u] /\ pc'[u] = pc[u]
    PROVE  FileInv'
  BY FileFrame

LEMMA FailEntryFiles ==
    ASSUME IndInv, FileInv, NEW t \in Threads, NEW e \in Ids, Known(e),
           FailEntry(t, e), pc[t] \in {"idle", "sweep"}
    PROVE  FileInv'
  <1>1. ObjectsExtend
    BY FailEntryExtends DEF IndInv
  <1>2. CASE IsTerminal(Current(e))
    BY <1>1, <1>2, FileFrame DEF FailEntry, fileVars
  <1>3. CASE ~IsTerminal(Current(e))
    <2>1. /\ pc'[t] = "wrap"
          /\ \A u \in Threads \ {t} : call'[u] = call[u] /\ pc'[u] = pc[u]
      BY <1>3, EnterType, MovesAre DEF FailEntry, IndInv, Stages
    <2> QED
      BY <1>1, <2>1, FileThread DEF FailEntry, fileVars, HoldsImage
  <1> QED
    BY <1>2, <1>3

LEMMA CallFiles ==
    ASSUME IndInv, FileInv, NEW t \in Threads, Call(t)
    PROVE  FileInv'
  <1>1. ObjectsExtend
    BY CallExtends DEF IndInv
  <1>2. ASSUME NEW e \in Ids, NEW op \in Moves \cup {"create", "project"},
               NEW stage \in {"serialise", "wrap"}, Enter(t, op, e, stage),
               UNCHANGED fileVars
        PROVE  FileInv'
    <2>1. /\ pc'[t] = stage
          /\ \A u \in Threads \ {t} : call'[u] = call[u] /\ pc'[u] = pc[u]
      BY <1>2, EnterType DEF IndInv, Stages
    <2> QED
      BY <1>1, <1>2, <2>1, FileThread DEF fileVars, HoldsImage
  <1>3. ASSUME NEW e \in Ids, CallFail(t, e) PROVE FileInv'
    BY <1>3, FailEntryFiles DEF CallFail, MayCall
  <1>4. ASSUME NEW e \in Ids,
               \/ Create(t, e) \/ Project(t, e) \/ CallMove(t, e)
               \/ CallCancel(t, e) \/ CallComplete(t, e)
               \/ CompleteHonoursCancel(t, e)
        PROVE  FileInv'
    BY <1>2, <1>4, MovesAre
       DEF Create, Project, CallMove, CallCancel, CallComplete,
           CompleteHonoursCancel
  <1>5. CASE BeginSweep(t)
    BY <1>1, <1>5, FileThread
       DEF BeginSweep, IndInv, TypeOK, fileVars, HoldsImage
  <1> QED
    BY <1>3, <1>4, <1>5 DEF Call

\* Where Return and AfterPersist leave the threads.
LEMMA ReturnLeaves ==
    ASSUME IndInv, NEW t \in Threads, Return(t) \/ AfterPersist(t)
    PROVE  /\ pc'[t] \notin HoldsImage \cup {"serialise"}
           /\ \A u \in Threads \ {t} : call'[u] = call[u] /\ pc'[u] = pc[u]
  <1>1. CASE Return(t)
    BY <1>1 DEF Return, HoldsImage, IndInv, TypeOK
  <1>2. CASE /\ \E stage \in {"emit", "audit"} : pc' = [pc EXCEPT ![t] = stage]
             /\ UNCHANGED call
    BY <1>2 DEF HoldsImage, IndInv, TypeOK
  <1> QED
    BY <1>1, <1>2 DEF AfterPersist

LEMMA AfterPersistImage ==
    ASSUME IndInv, NEW t \in Threads, AfterPersist(t)
    PROVE  \A u \in Threads \ {t} : image'[u] = image[u]
  BY DEF AfterPersist, IndInv, TypeOK

\* Writing what an object said, or nothing that parses, keeps every file.
LEMMA SetOpenContentFiles ==
    ASSUME IndInv, FileInv, NEW t \in Threads, NEW content,
           pc[t] \in OwnsFile, StoredIn(objects[call[t].id], content),
           SetOpenContent(t, content)
    PROVE  /\ \A e \in Ids : StoredIn(objects[e], durable'[e])
           /\ \A e \in Ids : tmp'[e] = tmp[e] \/ StoredIn(objects[e], tmp'[e])
  <1>1. PICK i \in Ids : i = call[t].id
    BY Inside DEF OwnsFile
  <1>2. \A e \in Ids : /\ tmp'[e] = tmp[e] \/ (e = i /\ tmp'[e] = content)
                       /\ durable'[e] = durable[e] \/ (e = i /\ durable'[e] = content)
    BY <1>1 DEF SetOpenContent, IndInv, TypeOK
  <1> QED
    BY <1>1, <1>2 DEF FileInv

LEMMA PersistFiles ==
    ASSUME IndInv, FileInv, NEW t \in Threads,
           \/ Serialise(t) \/ SkipPersist(t) \/ OpenTmp(t) \/ WriteTmp(t)
           \/ Replace(t) \/ PersistFails(t)
    PROVE  FileInv'
  <1> DEFINE i == call[t].id
  <1> USE DEF HoldsImage, OwnsFile
  <1>0. ObjectsExtend /\ pc \in [Threads -> Stages]
    BY SameExtends DEF Serialise, SkipPersist, OpenTmp, WriteTmp, Replace,
       PersistFails, IndInv, TypeOK
  <1>1. CASE Serialise(t)
    <2>1. obj[t] \in DOMAIN objects[i]
      BY <1>1 DEF Serialise, IndInv, ControlOK, ThreadOK
    <2>2. StoredIn(objects[i], SnapshotToSave(t))
      BY <2>1 DEF StoredIn, SnapshotToSave
    <2>3. /\ pc[t] = "serialise" /\ pc'[t] = "open" /\ UNCHANGED <<tmp, durable, call>>
          /\ image'[t] = SnapshotToSave(t)
          /\ \A u \in Threads \ {t} : pc'[u] = pc[u] /\ image'[u] = image[u]
      BY <1>0, <1>1 DEF Serialise, IndInv, TypeOK
    <2> QED
      BY <1>0, <2>2, <2>3, FileStep DEF FileInv
  <1>2. CASE SkipPersist(t)
    <2>1. UNCHANGED <<tmp, durable>>
      BY <1>2 DEF SkipPersist
    <2> QED
      BY <1>0, <1>2, <2>1, ReturnLeaves, AfterPersistImage, FileFrame
         DEF SkipPersist
  <1>3. CASE OpenTmp(t)
    <2>1. PICK e \in Ids : e = i
      BY <1>3, Inside DEF OpenTmp
    <2>2. /\ pc[t] = "open" /\ pc'[t] = "write"
          /\ UNCHANGED <<durable, call, image>>
          /\ tmp'[e] = Empty /\ \A f \in Ids \ {e} : tmp'[f] = tmp[f]
          /\ \A u \in Threads \ {t} : pc'[u] = pc[u]
      BY <1>0, <1>3, <2>1 DEF OpenTmp, IndInv, TypeOK
    <2>3. StoredIn(objects[e], tmp'[e])
      BY <2>2 DEF StoredIn
    <2> QED
      BY <1>0, <2>1, <2>2, <2>3, FileStep DEF FileInv
  <1>4. CASE WriteTmp(t)
    <2>1. PICK content \in Overlay(OpenContent(t), image[t]) :
              SetOpenContent(t, content)
      BY <1>4 DEF WriteTmp
    <2>2. StoredIn(objects[i], content)
      <3>1. content = image[t] \/ content = Torn
        BY <2>1 DEF Overlay
      <3>2. StoredIn(objects[i], image[t])
        BY <1>4 DEF WriteTmp, FileInv
      <3> QED
        BY <3>1, <3>2 DEF StoredIn
    <2>3. /\ \A e \in Ids : StoredIn(objects[e], durable'[e])
          /\ \A e \in Ids : tmp'[e] = tmp[e] \/ StoredIn(objects[e], tmp'[e])
      BY <1>4, <2>1, <2>2, SetOpenContentFiles DEF WriteTmp
    <2>4. /\ pc[t] = "write" /\ pc'[t] = "replace" /\ UNCHANGED <<call, image>>
          /\ \A u \in Threads \ {t} : pc'[u] = pc[u]
      BY <1>0, <1>4 DEF WriteTmp
    <2> QED
      BY <1>0, <2>3, <2>4, FileStep
  <1>5. CASE Replace(t)
    <2>1. PICK e \in Ids : e = i
      BY <1>5, Inside DEF Replace
    <2>2. /\ pc[t] = "replace" /\ AfterPersist(t)
          /\ durable'[e] = tmp[e] /\ tmp'[e] = Absent
          /\ \A f \in Ids \ {e} : durable'[f] = durable[f] /\ tmp'[f] = tmp[f]
      BY <1>5, <2>1 DEF Replace, IndInv, TypeOK
    <2>3. \A f \in Ids : StoredIn(objects[f], durable'[f])
      BY <2>1, <2>2 DEF FileInv
    <2>4. \A f \in Ids : tmp'[f] = tmp[f] \/ StoredIn(objects[f], tmp'[f])
      BY <2>2 DEF StoredIn
    <2> QED
      BY <1>0, <2>2, <2>3, <2>4, ReturnLeaves, AfterPersistImage, FileStep
  <1>6. CASE PersistFails(t)
    <2>1. /\ \A e \in Ids : StoredIn(objects[e], durable'[e])
          /\ \A e \in Ids : tmp'[e] = tmp[e] \/ StoredIn(objects[e], tmp'[e])
      <3>1. CASE UNCHANGED <<tmp, durable>>
        BY <3>1 DEF FileInv
      <3>2. ASSUME pc[t] = "write", NEW content \in {OpenContent(t), Torn},
                   SetOpenContent(t, content)
            PROVE  /\ \A e \in Ids : StoredIn(objects[e], durable'[e])
                   /\ \A e \in Ids : tmp'[e] = tmp[e] \/ StoredIn(objects[e], tmp'[e])
        <4>1. i \in Ids
          BY <3>2, Inside
        <4>2. StoredIn(objects[i], content)
          BY <3>2, <4>1 DEF FileInv, OpenContent, StoredIn
        <4> QED
          BY <3>2, <4>2, SetOpenContentFiles
      <3> QED
        BY <1>6, <3>1, <3>2 DEF PersistFails
    <2>2. AfterPersist(t)
      BY <1>6 DEF PersistFails
    <2> QED
      BY <1>0, <2>1, <2>2, ReturnLeaves, AfterPersistImage, FileStep
  <1> QED
    BY <1>1, <1>2, <1>3, <1>4, <1>5, <1>6

LEMMA StepFiles ==
    ASSUME IndInv, FileInv, NEW t \in Threads, Step(t)
    PROVE  FileInv'
  <1> USE DEF fileVars
  <1>0. pc \in [Threads -> Stages]
    BY DEF IndInv, TypeOK
  <1>1. CASE SweepFail(t)
    <2>1. PICK e \in sweep[t] : FailEntry(t, e)
      BY <1>1 DEF SweepFail
    <2>2. e \in Ids /\ Known(e) /\ pc[t] = "sweep"
      BY <1>1 DEF SweepFail, IndInv, TypeOK, ControlOK, ThreadOK
    <2> QED
      BY <2>1, <2>2, FailEntryFiles
  <1>2. CASE Transition(t)
    <2>1. call[t].id \in Ids
      BY <1>2, Inside DEF Transition
    <2>2. ObjectsExtend
      BY <1>2, <2>1, StoreExtends DEF Transition, IndInv
    <2> QED
      BY <1>0, <1>2, <2>2, FileThread DEF Transition, HoldsImage
  <1>3. CASE EndSweep(t) \/ ReadAuditFrom(t) \/ DrawTicket(t)
    <2>1. UNCHANGED <<objects, call, tmp, durable, image>>
      BY <1>3 DEF EndSweep, ReadAuditFrom, DrawTicket
    <2>2. \E stage \in {"idle", "transition", "append"} :
              pc' = [pc EXCEPT ![t] = stage]
      BY <1>3 DEF EndSweep, ReadAuditFrom, DrawTicket
    <2> QED
      BY <1>0, <2>1, <2>2, SameExtends, FileThread DEF HoldsImage
  <1>4. CASE AppendEvent(t)
    <2>1. UNCHANGED <<objects, tmp, durable, image>>
      BY <1>4 DEF AppendEvent
    <2>2. CASE /\ \E stage \in {"emit", "serialise"} : pc' = [pc EXCEPT ![t] = stage]
               /\ UNCHANGED call
      BY <1>0, <2>1, <2>2, SameExtends, FileThread DEF HoldsImage
    <2>3. CASE Return(t)
      BY <2>1, <2>3, SameExtends, ReturnLeaves, FileThread
    <2> QED
      BY <1>4, <2>2, <2>3 DEF AppendEvent
  <1>5. CASE Reject(t) \/ Audit(t)
    <2>1. UNCHANGED <<objects, tmp, durable, image>> /\ Return(t)
      BY <1>5 DEF Reject, Audit
    <2> QED
      BY <2>1, SameExtends, ReturnLeaves, FileThread
  <1> QED
    BY <1>1, <1>2, <1>3, <1>4, <1>5, PersistFiles DEF Step

\* A restart makes objects of the files that parse.
LEMMA RestartFiles ==
    ASSUME TypeOK, Restart
    PROVE  FileInv'
  <1>1. ASSUME NEW e \in Ids PROVE StoredIn(objects'[e], durable'[e])
    <2>1. objects'[e] = Reloaded(durable[e]) /\ durable' = durable
      BY DEF Restart
    <2>2. CASE durable[e] \in {Absent, Empty, Torn}
      BY <2>1, <2>2 DEF StoredIn
    <2>3. CASE durable[e] \notin {Absent, Empty, Torn}
      <3> DEFINE rec == [durable[e] EXCEPT !.origin = "reload"]
      <3>1. durable[e] \in Snapshot
        BY <2>3 DEF TypeOK, FileContent
      <3>2. rec.status = durable[e].status /\ rec.history = durable[e].history
        BY <3>1 DEF Snapshot
      <3>3. objects'[e] = <<rec>>
        BY <2>1, <2>3 DEF Reloaded
      <3> HIDE DEF rec
      <3>4. 1 \in DOMAIN objects'[e] /\ objects'[e][1] = rec
        BY <3>3
      <3> QED
        BY <2>1, <3>2, <3>4 DEF StoredIn
    <2> QED
      BY <2>2, <2>3
  <1> QED
    BY <1>1 DEF Restart, FileInv, HoldsImage, OwnsFile

\* However persisting threads interleave on <id>.tmp, and whenever the hub
\* stops, an <id>.json that parses holds the status and the history of an
\* object stored under that id, never a mixture and never another job's.
\* (_persist_execution, load_durable.)
THEOREM FilesHoldObjects == Spec => []FileWasStored
  <1>1. Init => FileInv
    BY DEF Init, FileInv, StoredIn, HoldsImage, OwnsFile
  <1>2. IndInv /\ FileInv /\ [Next]_vars => FileInv'
    <2> SUFFICES ASSUME IndInv, FileInv, [Next]_vars
                 PROVE  FileInv'
      OBVIOUS
    <2>1. CASE \E t \in Threads : Call(t) \/ Step(t)
      BY <2>1, CallFiles, StepFiles
    <2>2. CASE Restart
      BY <2>2, RestartFiles DEF IndInv
    <2>3. CASE UNCHANGED vars
      BY <2>3 DEF vars, threadVars, fileVars, FileInv
    <2> QED
      BY <2>1, <2>2, <2>3 DEF Next
  <1>3. FileInv => FileWasStored
    BY DEF FileInv, StoredIn, FileWasStored
  <1> QED
    BY <1>1, <1>2, <1>3, Inductive, PTL DEF Spec

-----------------------------------------------------------------------------
(* Files, when one thread calls the store.                                 *)

OneThread == \A t, u \in Threads : t = u

\* Up to the rename, the only copy of the snapshot the thread saves is its own
\* <id>.tmp: empty after the open, whole after the write.
ReadyToSave(t) ==
    /\ pc[t] \in HoldsImage => image[t] \in Snapshot
    /\ pc[t] = "write" => fd[t] = "tmp" /\ tmp[call[t].id] = Empty
    /\ pc[t] = "replace" => tmp[call[t].id] = image[t]

ReadableInv == DurableReadable /\ \A t \in Threads : ReadyToSave(t)

\* Only a persist takes a thread to a serialised snapshot or touches a file.
LEMMA FailEntryKeepsFiles ==
    ASSUME IndInv, NEW t \in Threads, NEW e \in Ids, FailEntry(t, e),
           pc[t] \in {"idle", "sweep"}
    PROVE  UNCHANGED fileVars /\ pc'[t] \in {"idle", "sweep", "wrap"}
  <1>1. pc \in [Threads -> Stages]
    BY DEF IndInv, TypeOK
  <1> QED
    BY <1>1 DEF FailEntry, Enter

LEMMA CallKeepsFiles ==
    ASSUME IndInv, NEW t \in Threads, Call(t)
    PROVE  /\ UNCHANGED fileVars
           /\ pc[t] = "idle"
           /\ pc'[t] \in {"idle", "serialise", "wrap", "sweep"}
  <1>1. pc \in [Threads -> Stages]
    BY DEF IndInv, TypeOK
  <1>2. ASSUME NEW e \in Ids, CallFail(t, e)
        PROVE  /\ UNCHANGED fileVars /\ pc[t] = "idle"
               /\ pc'[t] \in {"idle", "sweep", "wrap"}
    BY <1>2, FailEntryKeepsFiles DEF CallFail, MayCall
  <1>3. ASSUME NEW e \in Ids,
               \/ Create(t, e) \/ Project(t, e) \/ CallMove(t, e)
               \/ CallCancel(t, e) \/ CallComplete(t, e)
               \/ CompleteHonoursCancel(t, e)
        PROVE  /\ UNCHANGED fileVars /\ pc[t] = "idle"
               /\ pc'[t] \in {"serialise", "wrap"}
    BY <1>1, <1>3
       DEF Create, Project, CallMove, CallCancel, CallComplete,
           CompleteHonoursCancel, MayCall, Enter
  <1>4. CASE BeginSweep(t)
    BY <1>1, <1>4 DEF BeginSweep
  <1> QED
    BY <1>2, <1>3, <1>4 DEF Call

LEMMA StepKeepsFiles ==
    ASSUME IndInv, NEW t \in Threads,
           \/ SweepFail(t) \/ EndSweep(t) \/ ReadAuditFrom(t) \/ Transition(t)
           \/ Reject(t) \/ DrawTicket(t) \/ AppendEvent(t) \/ Audit(t)
    PROVE  UNCHANGED fileVars /\ pc'[t] \notin HoldsImage
  <1> USE DEF HoldsImage
  <1>1. pc \in [Threads -> Stages]
    BY DEF IndInv, TypeOK
  <1>2. CASE SweepFail(t)
    <2>1. PICK e \in sweep[t] : FailEntry(t, e)
      BY <1>2 DEF SweepFail
    <2>2. e \in Ids /\ pc[t] = "sweep"
      BY <1>2 DEF SweepFail, IndInv, TypeOK
    <2> QED
      BY <2>1, <2>2, FailEntryKeepsFiles
  <1>3. CASE Reject(t) \/ Audit(t)
    BY <1>3, ReturnLeaves DEF Reject, Audit
  <1>4. CASE AppendEvent(t)
    <2>1. CASE Return(t)
      BY <1>4, <2>1, ReturnLeaves DEF AppendEvent
    <2>2. CASE ~Return(t)
      BY <1>1, <1>4, <2>2 DEF AppendEvent
    <2> QED
      BY <2>1, <2>2
  <1>5. CASE EndSweep(t) \/ ReadAuditFrom(t) \/ Transition(t) \/ DrawTicket(t)
    BY <1>1, <1>5 DEF EndSweep, ReadAuditFrom, Transition, DrawTicket
  <1> QED
    BY <1>2, <1>3, <1>4, <1>5

LEMMA ReadableFrame ==
    ASSUME OneThread, ReadableInv, NEW t \in Threads, pc'[t] \notin HoldsImage,
           UNCHANGED durable
    PROVE  ReadableInv'
  <1>1. \A u \in Threads : pc'[u] \notin HoldsImage
    BY DEF OneThread
  <1> QED
    BY <1>1 DEF ReadableInv, DurableReadable, ReadyToSave, HoldsImage

\* The content of the open file of the only thread that writes.
LEMMA OnlyWriter ==
    ASSUME ReadableInv, NEW t \in Threads, NEW content, pc[t] = "write",
           SetOpenContent(t, content)
    PROVE  /\ UNCHANGED durable
           /\ tmp' = [tmp EXCEPT ![call[t].id] = content]
           /\ OpenContent(t) = Empty
  <1>1. fd[t] = "tmp" /\ tmp[call[t].id] = Empty
    BY DEF ReadableInv, ReadyToSave
  <1> QED
    BY <1>1 DEF SetOpenContent, OpenContent

LEMMA PersistReadable ==
    ASSUME OneThread, IndInv, ReadableInv, NEW t \in Threads,
           \/ Serialise(t) \/ SkipPersist(t) \/ OpenTmp(t) \/ WriteTmp(t)
           \/ Replace(t) \/ PersistFails(t)
    PROVE  ReadableInv'
  <1>0. PICK i : i = call[t].id
    OBVIOUS
  <1>1. /\ i \in Ids /\ pc \in [Threads -> Stages] /\ tmp \in [Ids -> FileContent]
        /\ image \in [Threads -> FileContent] /\ durable \in [Ids -> FileContent]
        /\ fd \in [Threads -> {"closed", "tmp", "durable", "unlinked"}]
    BY <1>0, Inside
       DEF IndInv, TypeOK, Serialise, SkipPersist, OpenTmp, WriteTmp, Replace,
           PersistFails
  <1>2. ASSUME DurableReadable', ReadyToSave(t)'
        PROVE  ReadableInv'
    BY <1>2 DEF ReadableInv, OneThread
  <1>3. ReadyToSave(t) /\ DurableReadable
    BY DEF ReadableInv
  <1>4. CASE Serialise(t)
    <2>1. obj[t] \in DOMAIN objects[i] /\ objects[i] \in Seq(Snapshot)
      BY <1>0, <1>1, <1>4 DEF Serialise, IndInv, ControlOK, ThreadOK, TypeOK
    <2>2. SnapshotToSave(t) \in Snapshot
      BY <1>0, <2>1 DEF SnapshotToSave
    <2>3. pc'[t] = "open" /\ image'[t] \in Snapshot /\ UNCHANGED durable
      BY <1>1, <1>4, <2>2 DEF Serialise
    <2> QED
      BY <1>2, <1>3, <2>3 DEF ReadyToSave, DurableReadable
  <1>5. CASE SkipPersist(t)
    BY <1>5, ReturnLeaves, ReadableFrame DEF SkipPersist
  <1>6. CASE OpenTmp(t)
    <2>1. /\ pc[t] = "open" /\ pc'[t] = "write" /\ image' = image /\ UNCHANGED durable
          /\ fd'[t] = "tmp" /\ call' = call /\ tmp'[i] = Empty
      BY <1>0, <1>1, <1>6 DEF OpenTmp
    <2> QED
      BY <1>0, <1>2, <1>3, <2>1 DEF ReadyToSave, DurableReadable, HoldsImage
  <1>7. CASE WriteTmp(t)
    <2>1. PICK content \in Overlay(OpenContent(t), image[t]) :
              SetOpenContent(t, content)
      BY <1>7 DEF WriteTmp
    <2>2. /\ pc[t] = "write" /\ pc'[t] = "replace"
          /\ image' = image /\ call' = call
      BY <1>1, <1>7 DEF WriteTmp
    <2>3. /\ UNCHANGED durable /\ tmp' = [tmp EXCEPT ![i] = content]
          /\ OpenContent(t) = Empty
      BY <1>0, <2>1, <2>2, OnlyWriter
    <2>4. tmp'[i] = image[t]
      BY <1>1, <2>1, <2>3 DEF Overlay
    <2> QED
      BY <1>0, <1>2, <1>3, <2>2, <2>3, <2>4
         DEF ReadyToSave, DurableReadable, HoldsImage
  <1>8. CASE Replace(t)
    <2>1. pc[t] = "replace" /\ AfterPersist(t)
      BY <1>8 DEF Replace
    <2>2. tmp[i] \in Snapshot
      BY <1>0, <1>3, <2>1 DEF ReadyToSave, HoldsImage
    <2>3. durable' = [durable EXCEPT ![i] = tmp[i]]
      BY <1>0, <1>8 DEF Replace
    <2>4. DurableReadable'
      BY <1>1, <1>3, <2>2, <2>3, ContentsAssumption DEF DurableReadable
    <2>5. ReadyToSave(t)'
      BY <2>1, ReturnLeaves DEF ReadyToSave, HoldsImage
    <2> QED
      BY <1>2, <2>4, <2>5
  <1>9. CASE PersistFails(t)
    <2>1. AfterPersist(t)
      BY <1>9 DEF PersistFails
    <2>2. UNCHANGED durable
      BY <1>9, OnlyWriter DEF PersistFails
    <2> QED
      BY <2>1, <2>2, ReturnLeaves, ReadableFrame
  <1> QED
    BY <1>4, <1>5, <1>6, <1>7, <1>8, <1>9

LEMMA ReadableStep ==
    ASSUME OneThread, IndInv, ReadableInv, [Next]_vars
    PROVE  ReadableInv'
  <1>1. ASSUME NEW t \in Threads, Call(t) PROVE ReadableInv'
    BY <1>1, CallKeepsFiles, ReadableFrame DEF fileVars, HoldsImage
  <1>2. ASSUME NEW t \in Threads, Step(t) PROVE ReadableInv'
    BY <1>2, StepKeepsFiles, ReadableFrame, PersistReadable DEF Step, fileVars
  <1>3. CASE Restart
    BY <1>3 DEF Restart, ReadableInv, DurableReadable, ReadyToSave, HoldsImage
  <1>4. CASE UNCHANGED vars
    BY <1>4 DEF vars, threadVars, fileVars, ReadableInv, DurableReadable,
       ReadyToSave
  <1> QED
    BY <1>1, <1>2, <1>3, <1>4 DEF Next

LEMMA ReadableInit ==
    ASSUME Init
    PROVE  ReadableInv
  BY ContentsAssumption
     DEF Init, ReadableInv, DurableReadable, ReadyToSave, HoldsImage

\* As long as one thread calls the store, a crash at any instant, or
\* any failure of the disk, finds <id>.json absent or whole: it is only ever
\* replaced by a rename of a file that was written to its end.
\* (_persist_execution.)
THEOREM AlwaysReadable ==
    ASSUME OneThread
    PROVE  Spec => []DurableReadable
  <1>1. IndInv /\ ReadableInv /\ [Next]_vars => ReadableInv'
    BY ReadableStep
  <1>2. ReadableInv => DurableReadable
    BY DEF ReadableInv
  <1> QED
    BY <1>1, <1>2, ReadableInit, Inductive, PTL DEF Spec

-----------------------------------------------------------------------------
(* What is on disk when nobody calls.                                      *)

\* The stages of a thread that stored an object and has still to save it.
Saving(t) ==
    \/ pc[t] \in HoldsImage \cup {"serialise"}
    \/ pc[t] \in {"emit", "append"} /\ call[t].op \in Moves

\* What the thread saves is the current object of its execution.
SavesLatest(t) ==
    /\ Saving(t) => obj[t] = Len(objects[call[t].id])
    /\ pc[t] \in HoldsImage => image[t].status = Current(call[t].id).status

OnDisk(e) ==
    durable[e] \notin {Absent, Empty, Torn} /\ durable[e].status = Current(e).status

Unsaved(e) == \E u \in unsaved : u[1] = e

\* The current status of e is on disk, failed to be saved, or will be saved.
Accounted(e) ==
    Known(e) => \/ Unsaved(e)
                \/ \E t \in Threads : Saving(t) /\ call[t].id = e
                \/ OnDisk(e)

LatestInv ==
    /\ \A e \in Ids : Accounted(e)
    /\ \A t \in Threads : SavesLatest(t)

\* Storing or changing the object of one execution, files untouched, by a
\* thread that saves nothing before.
LEMMA AccountedFrame ==
    ASSUME OneThread, LatestInv, NEW t \in Threads, ~Saving(t),
           UNCHANGED <<durable, unsaved>>, NEW e \in Ids,
           Known(e)' => Known(e) /\ Current(e)'.status = Current(e).status
    PROVE  Accounted(e)'
  <1>1. \A u \in Threads : ~Saving(u)
    BY DEF OneThread
  <1>2. Known(e) => Unsaved(e) \/ OnDisk(e)
    BY <1>1 DEF LatestInv, Accounted
  <1> QED
    BY <1>2 DEF Accounted, Unsaved, OnDisk

\* A thread that stores an object and goes to save it.
LEMMA StoreAccounted ==
    ASSUME OneThread, IndInv, LatestInv, NEW t \in Threads, ~Saving(t),
           NEW e \in Ids, NEW snap \in Snapshot, Store(t, e, snap),
           UNCHANGED <<durable, unsaved>>, Saving(t)', call'[t].id = e,
           pc'[t] \notin HoldsImage
    PROVE  LatestInv'
  <1>1. /\ objects[e] \in Seq(Snapshot)
        /\ objects'[e] = Append(objects[e], snap)
        /\ \A f \in Ids \ {e} : objects'[f] = objects[f]
        /\ obj'[t] = Len(objects[e]) + 1
    BY DEF Store, IndInv, TypeOK
  <1>2. Len(objects'[e]) = Len(objects[e]) + 1
    BY <1>1
  <1>3. SavesLatest(t)'
    BY <1>1, <1>2 DEF SavesLatest
  <1>4. ASSUME NEW f \in Ids, f # e PROVE Accounted(f)'
    BY <1>1, <1>4, AccountedFrame DEF Known, Current
  <1>5. Accounted(e)'
    BY DEF Accounted
  <1> QED
    BY <1>3, <1>4, <1>5 DEF LatestInv, OneThread

\* A thread that saves nothing, before and after.
LEMMA NothingToSave ==
    ASSUME OneThread, LatestInv, NEW t \in Threads, ~Saving(t), ~Saving(t)',
           UNCHANGED <<durable, unsaved>>,
           \A e \in Ids : Known(e)' =>
               Known(e) /\ Current(e)'.status = Current(e).status
    PROVE  LatestInv'
  <1>1. \A e \in Ids : Accounted(e)'
    BY AccountedFrame
  <1>2. SavesLatest(t)'
    BY DEF SavesLatest, Saving
  <1> QED
    BY <1>1, <1>2 DEF LatestInv, OneThread

\* Changing the current object in place leaves every status.
LEMMA MutateStatus ==
    ASSUME TypeOK, NEW e \in Ids, NEW snap \in Snapshot, Known(e),
           Mutate(e, snap), snap.status = Current(e).status
    PROVE  \A f \in Ids : Known(f)' =>
               Known(f) /\ Current(f)'.status = Current(f).status
  <1>1. /\ Current(e)' = snap
        /\ \A f \in Ids \ {e} : Current(f)' = Current(f)
    BY MutateCurrent
  <1>2. \A f \in Ids : DOMAIN objects'[f] = DOMAIN objects[f]
    BY MutateType
  <1>3. \A f \in Ids : Known(f)' => Known(f)
    BY <1>2, MutateType DEF Known, TypeOK
  <1> QED
    BY <1>1, <1>3

LEMMA FailEntryLatest ==
    ASSUME OneThread, IndInv, LatestInv, NEW t \in Threads, NEW e \in Ids,
           Known(e), FailEntry(t, e), pc[t] \in {"idle", "sweep"}
    PROVE  LatestInv'
  <1> DEFINE snap == [Current(e) EXCEPT !.error = TRUE]
  <1>1. Current(e) \in Snapshot
    BY CurrentSnapshot DEF IndInv
  <1>2. snap \in Snapshot /\ snap.status = Current(e).status
    BY <1>1 DEF Snapshot
  <1>3. Mutate(e, snap)
    BY DEF FailEntry
  <1> HIDE DEF snap
  <1>4. \A f \in Ids : Known(f)' =>
            Known(f) /\ Current(f)'.status = Current(f).status
    BY <1>2, <1>3, MutateStatus DEF IndInv
  <1>5. ~Saving(t) /\ ~Saving(t)' /\ UNCHANGED <<durable, unsaved>>
    BY FailEntryKeepsFiles DEF Saving, HoldsImage, fileVars
  <1> QED
    BY <1>4, <1>5, NothingToSave

LEMMA CallLatest ==
    ASSUME OneThread, IndInv, LatestInv, NEW t \in Threads, Call(t)
    PROVE  LatestInv'
  <1>0. /\ ~Saving(t) /\ UNCHANGED <<durable, unsaved>> /\ pc[t] = "idle"
        /\ pc'[t] \in {"idle", "serialise", "wrap", "sweep"}
    BY CallKeepsFiles DEF Saving, HoldsImage, fileVars
  <1>1. ASSUME NEW e \in Ids, NEW snap \in Snapshot,
               NEW op \in {"create", "project"},
               Store(t, e, snap), Enter(t, op, e, "serialise")
        PROVE  LatestInv'
    <2>1. pc'[t] = "serialise" /\ call'[t].id = e
      BY <1>1, EnterType DEF IndInv, Stages
    <2>2. Saving(t)' /\ pc'[t] \notin HoldsImage
      BY <2>1 DEF Saving, HoldsImage
    <2> QED
      BY <1>0, <1>1, <2>1, <2>2, StoreAccounted
  <1>2. ASSUME NEW e \in Ids, Create(t, e) PROVE LatestInv'
    <2>1. NewSnapshot \in Snapshot
      BY DEF NewSnapshot, Snapshot, Status
    <2> QED
      BY <1>1, <1>2, <2>1 DEF Create
  <1>3. ASSUME NEW e \in Ids, Project(t, e) PROVE LatestInv'
    BY <1>1, <1>3, ProjectionsAssumption DEF Project
  <1>4. ASSUME NEW e \in Ids, CallComplete(t, e) PROVE LatestInv'
    <2>1. PICK r \in Results : Mutate(e, [Current(e) EXCEPT !.result = r])
      BY <1>4 DEF CallComplete
    <2> DEFINE snap == [Current(e) EXCEPT !.result = r]
    <2>2. Known(e) /\ Enter(t, "complete", e, "wrap")
      BY <1>4 DEF CallComplete, MayCall
    <2>3. Current(e) \in Snapshot
      BY <2>2, CurrentSnapshot DEF IndInv
    <2>4. snap \in Snapshot /\ snap.status = Current(e).status
      BY <2>3 DEF Snapshot
    <2>5. Mutate(e, snap)
      BY <2>1
    <2> HIDE DEF snap
    <2>6. \A f \in Ids : Known(f)' =>
              Known(f) /\ Current(f)'.status = Current(f).status
      BY <2>2, <2>4, <2>5, MutateStatus DEF IndInv
    <2>7. ~Saving(t)'
      BY <2>2, EnterType, MovesAre DEF IndInv, Stages, Saving, HoldsImage
    <2> QED
      BY <1>0, <2>6, <2>7, NothingToSave
  <1>5. ASSUME NEW e \in Ids, CallFail(t, e) PROVE LatestInv'
    BY <1>5, FailEntryLatest DEF CallFail, MayCall
  <1>6. ASSUME \/ BeginSweep(t)
               \/ \E e \in Ids : \/ CallMove(t, e) \/ CallCancel(t, e)
                                 \/ CompleteHonoursCancel(t, e)
        PROVE  LatestInv'
    <2>1. pc'[t] \in {"wrap", "sweep"} /\ UNCHANGED objects
      BY <1>6 DEF BeginSweep, CallMove, CallCancel, CompleteHonoursCancel,
         Enter, IndInv, TypeOK
    <2>2. ~Saving(t)'
      BY <2>1 DEF Saving, HoldsImage
    <2>3. \A f \in Ids : Known(f)' =>
              Known(f) /\ Current(f)'.status = Current(f).status
      BY <2>1 DEF Known, Current
    <2> QED
      BY <1>0, <2>2, <2>3, NothingToSave
  <1> QED
    BY <1>2, <1>3, <1>4, <1>5, <1>6 DEF Call

\* A thread that goes on saving what it saves.
LEMMA SavingFrame ==
    ASSUME OneThread, IndInv, LatestInv, NEW t \in Threads, Saving(t), Saving(t)',
           UNCHANGED <<objects, call, obj, durable, unsaved>>,
           pc'[t] \in HoldsImage =>
               \/ pc[t] \in HoldsImage /\ image'[t] = image[t]
               \/ image'[t] = SnapshotToSave(t)
    PROVE  LatestInv'
  <1>1. \A u \in Threads : u = t
    BY DEF OneThread
  <1>2. \A e \in Ids : Accounted(e)'
    BY <1>1 DEF LatestInv, Accounted, Known, Unsaved, OnDisk, Current
  <1>3. SavesLatest(t)'
    BY DEF LatestInv, SavesLatest, SnapshotToSave, Current
  <1> QED
    BY <1>1, <1>2, <1>3 DEF LatestInv

\* A thread that ends a persist.
LEMMA PersistEnds ==
    ASSUME OneThread, IndInv, LatestInv, NEW t \in Threads,
           pc[t] \in HoldsImage, AfterPersist(t), UNCHANGED objects,
           NEW i \in Ids, i = call[t].id,
           Known(i) => (Unsaved(i) \/ OnDisk(i))',
           \A e \in Ids \ {i} : durable'[e] = durable[e] /\ (Unsaved(e) => Unsaved(e)')
    PROVE  LatestInv'
  <1>1. \A u \in Threads : u = t
    BY DEF OneThread
  <1>2. ASSUME NEW e \in Ids, e # i PROVE Accounted(e)'
    BY <1>1, <1>2 DEF LatestInv, Accounted, Known, OnDisk, Current
  <1>3. Accounted(i)'
    BY DEF Accounted, Known
  <1>4. ~Saving(t)'
    <2>1. pc'[t] \notin HoldsImage \cup {"serialise"}
      BY ReturnLeaves
    <2>2. CASE Return(t)
      BY <2>2 DEF Return, Saving, HoldsImage, IndInv, TypeOK
    <2>3. CASE pc' = [pc EXCEPT ![t] = "audit"]
      BY <2>3 DEF Saving, HoldsImage, IndInv, TypeOK
    <2>4. CASE call[t].op = "create" /\ UNCHANGED call
      BY <2>1, <2>4, MovesAre DEF Saving
    <2> QED
      BY <2>2, <2>3, <2>4 DEF AfterPersist
  <1>5. SavesLatest(t)'
    BY <1>4 DEF SavesLatest, Saving
  <1> QED
    BY <1>1, <1>2, <1>3, <1>5 DEF LatestInv

LEMMA PersistLatest ==
    ASSUME OneThread, Durable = TRUE, IndInv, ReadableInv, LatestInv,
           NEW t \in Threads,
           \/ Serialise(t) \/ SkipPersist(t) \/ OpenTmp(t) \/ WriteTmp(t)
           \/ Replace(t) \/ PersistFails(t)
    PROVE  LatestInv'
  <1>0. PICK i : i = call[t].id
    OBVIOUS
  <1>1. /\ i \in Ids /\ pc \in [Threads -> Stages] /\ call[t] # NoCall
        /\ image \in [Threads -> FileContent] /\ durable \in [Ids -> FileContent]
        /\ Saving(t) /\ unsaved \subseteq Ids \X Nat
    BY <1>0, Inside
       DEF IndInv, TypeOK, Serialise, SkipPersist, OpenTmp, WriteTmp, Replace,
           PersistFails, Saving, HoldsImage
  <1>2. obj[t] = Len(objects[i])
    BY <1>0, <1>1 DEF LatestInv, SavesLatest
  <1>3. CASE Serialise(t)
    <2>1. /\ pc'[t] = "open" /\ image'[t] = SnapshotToSave(t)
          /\ UNCHANGED <<objects, call, obj, durable, unsaved>>
      BY <1>1, <1>3 DEF Serialise
    <2> QED
      BY <1>1, <2>1, SavingFrame DEF Saving, HoldsImage
  <1>4. CASE OpenTmp(t)
    <2>1. /\ pc[t] = "open" /\ pc'[t] = "write" /\ image'[t] = image[t]
          /\ UNCHANGED <<objects, call, obj, durable, unsaved>>
      BY <1>1, <1>4 DEF OpenTmp
    <2> QED
      BY <1>1, <2>1, SavingFrame DEF Saving, HoldsImage
  <1>5. CASE WriteTmp(t)
    <2>1. /\ pc[t] = "write" /\ pc'[t] = "replace" /\ image'[t] = image[t]
          /\ UNCHANGED <<objects, call, obj, unsaved>>
      BY <1>1, <1>5 DEF WriteTmp
    <2>2. UNCHANGED durable
      BY <1>5, OnlyWriter DEF WriteTmp
    <2> QED
      BY <1>1, <2>1, <2>2, SavingFrame DEF Saving, HoldsImage
  <1>6. CASE Replace(t)
    <2>1. /\ pc[t] = "replace" /\ AfterPersist(t) /\ UNCHANGED objects
          /\ durable' = [durable EXCEPT ![i] = tmp[i]]
          /\ unsaved' = {u \in unsaved : u[1] # i \/ u[2] > obj[t]}
      BY <1>0, <1>6 DEF Replace
    <2>2. tmp[i] = image[t] /\ image[t] \in Snapshot
      BY <1>0, <2>1 DEF ReadableInv, ReadyToSave, HoldsImage
    <2>3. image[t].status = Current(i).status
      BY <1>0, <2>1 DEF LatestInv, SavesLatest, HoldsImage
    <2>4. OnDisk(i)'
      <3>1. durable'[i] = image[t] /\ Current(i)' = Current(i)
        BY <1>1, <2>1, <2>2 DEF Current
      <3>2. image[t] \notin {Absent, Empty, Torn}
        BY <2>2, ContentsAssumption
      <3> QED
        BY <2>3, <3>1, <3>2 DEF OnDisk
    <2>5. \A e \in Ids \ {i} :
              durable'[e] = durable[e] /\ (Unsaved(e) => Unsaved(e)')
      BY <1>1, <2>1 DEF Unsaved
    <2> QED
      BY <1>0, <1>1, <2>1, <2>4, <2>5, PersistEnds DEF HoldsImage
  <1>7. CASE PersistFails(t)
    <2>1. /\ pc[t] \in {"open", "write", "replace"} /\ AfterPersist(t)
          /\ UNCHANGED objects
          /\ unsaved' = unsaved \cup {<<i, obj[t]>>}
      BY <1>0, <1>7 DEF PersistFails
    <2>2. UNCHANGED durable
      BY <1>7, OnlyWriter DEF PersistFails
    <2>3. Unsaved(i)'
      <3>1. <<i, obj[t]>> \in unsaved' /\ <<i, obj[t]>>[1] = i
        BY <2>1
      <3> QED
        BY <3>1 DEF Unsaved
    <2>4. \A e \in Ids : Unsaved(e) => Unsaved(e)'
      BY <2>1 DEF Unsaved
    <2> QED
      BY <1>0, <1>1, <2>1, <2>2, <2>3, <2>4, PersistEnds DEF HoldsImage
  <1>8. ~SkipPersist(t)
    BY DEF SkipPersist
  <1> QED
    BY <1>3, <1>4, <1>5, <1>6, <1>7, <1>8

LEMMA TransitionLatest ==
    ASSUME OneThread, IndInv, LatestInv, NEW t \in Threads, Transition(t)
    PROVE  LatestInv'
  <1>1. PICK e \in Ids : e = call[t].id /\ Known(e) /\ call[t].op \in Moves
    BY Inside DEF Transition
  <1> DEFINE snap == Moved(Current(e), Target[call[t].op])
  <1>2. snap \in Snapshot
    BY <1>1, CurrentSnapshot, MovedType, MovesAre DEF IndInv
  <1>3. /\ pc[t] = "transition" /\ pc' = [pc EXCEPT ![t] = "emit"] /\ call' = call
        /\ Store(t, e, snap) /\ UNCHANGED <<durable, unsaved>>
    BY <1>1 DEF Transition, fileVars
  <1> HIDE DEF snap
  <1>4. pc'[t] = "emit"
    BY <1>3 DEF IndInv, TypeOK
  <1>5. ~Saving(t) /\ Saving(t)' /\ pc'[t] \notin HoldsImage /\ call'[t].id = e
    BY <1>1, <1>3, <1>4 DEF Saving, HoldsImage
  <1> QED
    BY <1>2, <1>3, <1>5, StoreAccounted

LEMMA StepLatest ==
    ASSUME OneThread, Durable = TRUE, IndInv, ReadableInv, LatestInv,
           NEW t \in Threads, Step(t)
    PROVE  LatestInv'
  <1>0. pc \in [Threads -> Stages]
    BY DEF IndInv, TypeOK
  <1>1. CASE SweepFail(t)
    <2>1. PICK e \in sweep[t] : FailEntry(t, e)
      BY <1>1 DEF SweepFail
    <2>2. e \in Ids /\ Known(e) /\ pc[t] = "sweep"
      BY <1>1 DEF SweepFail, IndInv, TypeOK, ControlOK, ThreadOK
    <2> QED
      BY <2>1, <2>2, FailEntryLatest
  <1>2. CASE Transition(t)
    BY <1>2, TransitionLatest
  <1>3. ASSUME UNCHANGED <<objects, fileVars>>, ~Saving(t), ~Saving(t)'
        PROVE  LatestInv'
    BY <1>3, NothingToSave DEF fileVars, Known, Current
  <1>4. ASSUME UNCHANGED <<objects, call, obj, fileVars>>, Saving(t), Saving(t)',
               pc'[t] \notin HoldsImage
        PROVE  LatestInv'
    BY <1>4, SavingFrame DEF fileVars
  <1>5. CASE EndSweep(t) \/ ReadAuditFrom(t)
    <2>1. /\ UNCHANGED <<objects, fileVars>>
          /\ pc[t] \in {"sweep", "wrap"} /\ pc'[t] \in {"idle", "transition"}
      BY <1>0, <1>5 DEF EndSweep, ReadAuditFrom, fileVars
    <2> QED
      BY <1>3, <2>1 DEF Saving, HoldsImage
  <1>6. CASE Reject(t) \/ Audit(t)
    <2>1. /\ UNCHANGED <<objects, fileVars>>
          /\ pc[t] \in {"transition", "audit"} /\ pc'[t] \in {"idle", "sweep"}
      BY <1>0, <1>6 DEF Reject, Audit, Return, fileVars
    <2> QED
      BY <1>3, <2>1 DEF Saving, HoldsImage
  <1>7. CASE DrawTicket(t) \/ AppendEvent(t)
    <2>1. UNCHANGED <<objects, fileVars>> /\ pc[t] \in {"emit", "append"}
      BY <1>7 DEF DrawTicket, AppendEvent, fileVars
    <2>2. CASE /\ pc'[t] \in {"emit", "append"} \/ (pc'[t] = "serialise" /\ call[t].op \in Moves)
               /\ UNCHANGED <<call, obj>>
      BY <1>3, <1>4, <2>1, <2>2 DEF Saving, HoldsImage
    <2>3. CASE call[t].op = "create" /\ Return(t)
      <3>1. pc'[t] \in {"idle", "sweep"}
        BY <1>0, <2>3 DEF Return
      <3> QED
        BY <1>3, <2>1, <2>3, <3>1, MovesAre DEF Saving, HoldsImage
    <2> QED
      BY <1>0, <1>7, <2>2, <2>3 DEF DrawTicket, AppendEvent
  <1> QED
    BY <1>1, <1>2, <1>5, <1>6, <1>7, PersistLatest DEF Step

LEMMA RestartLatest ==
    ASSUME TypeOK, Restart
    PROVE  LatestInv'
  <1>1. ASSUME NEW e \in Ids, Known(e)' PROVE OnDisk(e)'
    <2>1. objects'[e] = Reloaded(durable[e]) /\ durable' = durable
      BY DEF Restart
    <2>2. durable[e] \notin {Absent, Empty, Torn}
      BY <1>1, <2>1 DEF Reloaded, Known
    <2> DEFINE rec == [durable[e] EXCEPT !.origin = "reload"]
    <2>3. rec.status = durable[e].status
      BY <2>2 DEF TypeOK, FileContent, Snapshot
    <2>4. objects'[e] = <<rec>>
      BY <2>1, <2>2 DEF Reloaded
    <2> HIDE DEF rec
    <2>5. objects'[e][Len(objects'[e])] = rec
      BY <2>4
    <2> QED
      BY <2>1, <2>2, <2>3, <2>5 DEF OnDisk, Current
  <1>2. \A t \in Threads : ~Saving(t)'
    BY DEF Restart, Saving, HoldsImage
  <1> QED
    BY <1>1, <1>2 DEF LatestInv, Accounted, SavesLatest, Saving

\* As long as one thread calls the store, the last word on disk is the status
\* the hub shows as soon as no call is running, unless saving it failed and
\* was counted: the persist of every operation comes after the status change
\* it saves and before the operation returns, and nothing the operation does
\* afterwards changes the status again.  (create_execution, _transition,
\* upsert_execution, _persist_execution, load_durable.)
THEOREM DiskKeepsUp ==
    ASSUME OneThread, Durable = TRUE
    PROVE  Spec => []DurableAtRest
  <1>1. Init => LatestInv
    BY DEF Init, LatestInv, Accounted, Known, SavesLatest, Saving, HoldsImage
  <1>2. IndInv /\ ReadableInv /\ LatestInv /\ [Next]_vars => LatestInv'
    <2> SUFFICES ASSUME IndInv, ReadableInv, LatestInv, [Next]_vars
                 PROVE  LatestInv'
      OBVIOUS
    <2>1. CASE \E t \in Threads : Call(t) \/ Step(t)
      BY <2>1, CallLatest, StepLatest
    <2>2. CASE Restart
      BY <2>2, RestartLatest DEF IndInv
    <2>3. CASE UNCHANGED vars
      BY <2>3 DEF vars, threadVars, fileVars, LatestInv, Accounted, Known,
         Unsaved, OnDisk, Current, SavesLatest, Saving
    <2> QED
      BY <2>1, <2>2, <2>3 DEF Next
  <1>3. IndInv /\ ReadableInv /\ [Next]_vars => ReadableInv'
    BY ReadableStep
  <1>4. LatestInv => DurableAtRest
    <2> SUFFICES ASSUME LatestInv, \A t \in Threads : pc[t] = "idle",
                        NEW e \in Ids, Known(e), \A u \in unsaved : u[1] # e
                 PROVE  OnDisk(e)
      BY DEF DurableAtRest, OnDisk
    <2> QED
      BY DEF LatestInv, Accounted, Unsaved, Saving, HoldsImage
  <1> QED
    BY <1>1, <1>2, <1>3, <1>4, ReadableInit, Inductive, PTL DEF Spec

-----------------------------------------------------------------------------
(* The event log: no transition is lost to it, and the store implements    *)
(* ExecutionLifecycle.                                                     *)

\* The type that names the transition which stored object k of e.
Named(e, k) == EventType(objects[e][k - 1].status, objects[e][k].status)

\* The stages in which an operation that owes announcements can be.
CreateStages == {"serialise", "open", "write", "replace", "emit", "append"}
MoveStages == {"emit", "append"}

\* What a thread owes follows from where it is: a creation is announced last,
\* a transition first by the event that names it.
Owing(t) ==
    LET e == call[t].id
    IN  \/ emitting[t] = <<>>
        \/ /\ call[t].op = "create" /\ pc[t] \in CreateStages
           /\ emitting[t] = <<"execution.created">>
           /\ objects[e][obj[t]].origin # "transition"
        \/ /\ call[t].op \in Moves /\ pc[t] \in MoveStages
           /\ obj[t] > 1 /\ objects[e][obj[t]].origin = "transition"
           /\ emitting[t] \in {<<Named(e, obj[t]), "execution.state_changed">>,
                               <<"execution.state_changed">>}

AllOwing == \A t \in Threads : Owing(t)

\* Two threads never owe announcements of the same object.
OwnersDiffer ==
    \A t, u \in Threads :
        t # u /\ emitting[t] # <<>> /\ emitting[u] # <<>> =>
            call[t].id # call[u].id \/ obj[t] # obj[u]

\* An event is about a stored object, and tells the truth about a transition.
EventsTrue ==
    \A x \in events :
        /\ x.obj \in DOMAIN objects[x.id]
        /\ x.obj > 1 /\ objects[x.id][x.obj].origin = "transition" =>
               x.type \in {Named(x.id, x.obj), "execution.state_changed"}

\* What has been announced is no longer owed.
NotOwed ==
    \A x \in events : \A t \in Threads : <<x.id, x.obj, x.type>> \notin OwedBy(t)

\* Event y on object k of e is in the log, or some thread owes it.
Pending(e, k, y) ==
    \/ \E x \in events : x.id = e /\ x.obj = k /\ x.type = y
    \/ \E t \in Threads : <<e, k, y>> \in OwedBy(t)

NothingForgotten ==
    \A e \in Ids : \A k \in 2..Len(objects[e]) :
        objects[e][k].origin = "transition" =>
            Pending(e, k, Named(e, k)) /\ Pending(e, k, "execution.state_changed")

\* TransitionsPublished speaks of the log alone; what makes it inductive is the
\* bookkeeping of what each thread still owes.
PublishInv ==
    AllOwing /\ OwnersDiffer /\ EventsTrue /\ NotOwed /\ NothingForgotten

-----------------------------------------------------------------------------
(* What a thread owes.                                                     *)

Owed(c, o, types) == {<<c.id, o, types[k]>> : k \in 1..Len(types)}

\* The announcements owed for no, one and two types.
LEMMA OwedNone ==
    ASSUME NEW c, NEW o
    PROVE  Owed(c, o, <<>>) = {}
  <1>1. 1..Len(<<>>) = {}
    OBVIOUS
  <1> QED
    BY <1>1, Zenon DEF Owed

LEMMA OwedOne ==
    ASSUME NEW c, NEW o, NEW y
    PROVE  Owed(c, o, <<y>>) = {<<c.id, o, y>>}
  <1> DEFINE s == <<y>>
  <1>1. 1..Len(s) = {1} /\ s[1] = y
    OBVIOUS
  <1> HIDE DEF s
  <1>2. Owed(c, o, s) = {<<c.id, o, y>>}
    BY <1>1, Zenon DEF Owed
  <1> QED
    BY <1>2 DEF s

LEMMA OwedTwo ==
    ASSUME NEW c, NEW o, NEW y, NEW z
    PROVE  Owed(c, o, <<y, z>>) = {<<c.id, o, y>>, <<c.id, o, z>>}
  <1> DEFINE s == <<y, z>>
  <1>1. 1..Len(s) = {1, 2} /\ s[1] = y /\ s[2] = z
    OBVIOUS
  <1> HIDE DEF s
  <1>2. Owed(c, o, s) = {<<c.id, o, y>>, <<c.id, o, z>>}
    BY <1>1, Zenon DEF Owed
  <1> QED
    BY <1>2 DEF s

LEMMA OwedByIs ==
    ASSUME NEW t
    PROVE  OwedBy(t) = Owed(call[t], obj[t], emitting[t])
  BY DEF OwedBy, Owed

\* The event that names a transition is not execution.state_changed.
LEMMA NamedApart ==
    ASSUME NEW from \in Status, NEW to \in Allowed[from]
    PROVE  EventType(from, to) # "execution.state_changed"
  BY DEF EventType, Allowed, Status

-----------------------------------------------------------------------------
(* Frames: what a step of one thread leaves of the bookkeeping.            *)

\* Stored objects stay and keep their status and origin.
ObjectsStable ==
    \A e \in Ids : \A k \in DOMAIN objects[e] :
        /\ k \in DOMAIN objects'[e]
        /\ objects'[e][k].status = objects[e][k].status
        /\ objects'[e][k].origin = objects[e][k].origin

\* The objects that a step adds are not the work of a transition.
NoMove ==
    \A e \in Ids : \A k \in DOMAIN objects'[e] :
        k \notin DOMAIN objects[e] => objects'[e][k].origin # "transition"

\* Thread u owes what it owed, or owes nothing.
Stays(u) ==
    /\ emitting'[u] = emitting[u]
    /\ \/ emitting[u] = <<>>
       \/ /\ call'[u] = call[u] /\ obj'[u] = obj[u]
          /\ call[u].op = "create" => pc'[u] \in CreateStages
          /\ call[u].op \in Moves => pc'[u] \in MoveStages

\* A thread that owes an announcement holds the object it is about.
LEMMA OwesObject ==
    ASSUME IndInv, NEW t \in Threads, Owing(t), emitting[t] # <<>>
    PROVE  /\ call[t].id \in Ids
           /\ obj[t] \in DOMAIN objects[call[t].id]
  <1>1. pc[t] \in CreateStages \cup MoveStages
    BY DEF Owing
  <1>2. ThreadOK(t) /\ call[t] \in Calls
    BY DEF IndInv, ControlOK, TypeOK
  <1>3. call[t] # NoCall
    BY <1>1, <1>2 DEF ThreadOK, CreateStages, MoveStages
  <1> QED
    BY <1>1, <1>2, <1>3 DEF ThreadOK, CreateStages, MoveStages, Calls

LEMMA ObjectDomain ==
    ASSUME TypeOK, NEW e \in Ids
    PROVE  /\ objects[e] \in Seq(Snapshot)
           /\ Len(objects[e]) \in Nat
           /\ DOMAIN objects[e] = 1..Len(objects[e])
           /\ 2..Len(objects[e]) \subseteq DOMAIN objects[e]
           /\ \A k \in 2..Len(objects[e]) : k - 1 \in DOMAIN objects[e]
  BY DEF TypeOK

\* The name of a transition does not change.
LEMMA NamedStable ==
    ASSUME TypeOK, ObjectsStable, NEW e \in Ids, NEW k \in DOMAIN objects[e], k > 1
    PROVE  /\ objects'[e][k].origin = objects[e][k].origin
           /\ Named(e, k)' = Named(e, k)
  <1>1. k \in DOMAIN objects[e] /\ k - 1 \in DOMAIN objects[e]
    BY ObjectDomain
  <1> QED
    BY <1>1 DEF ObjectsStable, Named

\* A thread that stays owes the same.
LEMMA StaysOwing ==
    ASSUME IndInv, NEW u \in Threads, Owing(u), ObjectsStable, Stays(u)
    PROVE  /\ Owing(u)'
           /\ OwedBy(u)' = OwedBy(u)
  <1>1. CASE emitting[u] = <<>>
    <2>1. emitting'[u] = <<>>
      BY <1>1 DEF Stays
    <2>2. OwedBy(u) = {} /\ OwedBy(u)' = {}
      <3>1. /\ OwedBy(u) = Owed(call[u], obj[u], <<>>)
            /\ OwedBy(u)' = Owed(call'[u], obj'[u], <<>>)
        BY <1>1, <2>1, Zenon DEF OwedBy, Owed
      <3> QED
        BY <3>1, OwedNone
    <2> QED
      BY <2>1, <2>2 DEF Owing
  <1>2. CASE emitting[u] # <<>>
    <2>1. call'[u] = call[u] /\ obj'[u] = obj[u] /\ emitting'[u] = emitting[u]
      BY <1>2 DEF Stays
    <2>2. OwedBy(u)' = OwedBy(u)
      BY <2>1 DEF OwedBy
    <2>3. PICK e \in Ids : e = call[u].id /\ obj[u] \in DOMAIN objects[e]
      BY <1>2, OwesObject
    <2>4. PICK k \in DOMAIN objects[e] : k = obj[u]
      BY <2>3
    <2>5. /\ objects'[e][k].origin = objects[e][k].origin
          /\ k > 1 => EventType(objects'[e][k - 1].status, objects'[e][k].status)
                          = EventType(objects[e][k - 1].status, objects[e][k].status)
      BY NamedStable DEF IndInv, ObjectsStable, Named
    <2>6. call'[u].id = e /\ obj'[u] = k
      BY <2>1, <2>3, <2>4
    <2>7. CASE call[u].op = "create"
      <3>1. /\ emitting[u] = <<"execution.created">>
            /\ objects[e][k].origin # "transition"
        BY <1>2, <2>3, <2>4, <2>7, MovesAre DEF Owing
      <3>2. /\ pc'[u] \in CreateStages /\ call'[u].op = "create"
            /\ emitting'[u] = <<"execution.created">>
        BY <1>2, <2>1, <2>7, <3>1 DEF Stays
      <3>3. objects'[call'[u].id][obj'[u]].origin # "transition"
        BY <2>5, <2>6, <3>1
      <3>4. Owing(u)'
        BY <3>2, <3>3, Zenon DEF Owing
      <3> QED
        BY <2>2, <3>4
    <2>8. CASE call[u].op \in Moves
      <3>1. /\ k > 1 /\ objects[e][k].origin = "transition"
            /\ emitting[u] \in {<<Named(e, k), "execution.state_changed">>,
                                <<"execution.state_changed">>}
        BY <1>2, <2>3, <2>4, <2>8, MovesAre DEF Owing
      <3>2. pc'[u] \in MoveStages /\ call'[u].op \in Moves
        BY <1>2, <2>1, <2>8 DEF Stays
      <3>3. emitting'[u] \in {<<EventType(objects'[e][k - 1].status, objects'[e][k].status),
                                "execution.state_changed">>,
                              <<"execution.state_changed">>}
        BY <2>1, <2>5, <3>1 DEF Named
      <3>4. /\ obj'[u] > 1 /\ objects'[call'[u].id][obj'[u]].origin = "transition"
            /\ emitting'[u] \in
                   {<<EventType(objects'[call'[u].id][obj'[u] - 1].status,
                                objects'[call'[u].id][obj'[u]].status),
                      "execution.state_changed">>,
                    <<"execution.state_changed">>}
        BY <2>5, <2>6, <3>1, <3>3
      <3>5. Owing(u)'
        BY <3>2, <3>4, Zenon DEF Owing, Named
      <3> QED
        BY <2>2, <3>5
    <2>9. call[u].op = "create" \/ call[u].op \in Moves
      BY <1>2 DEF Owing
    <2> QED
      BY <2>2, <2>7, <2>8, <2>9
  <1> QED
    BY <1>1, <1>2

\* No event, and the events stay true.
LEMMA EventsStay ==
    ASSUME TypeOK, EventsTrue, ObjectsStable, events' = events
    PROVE  EventsTrue'
  <1> SUFFICES ASSUME NEW x \in events
               PROVE  /\ x.obj \in DOMAIN objects'[x.id]
                      /\ x.obj > 1 /\ objects'[x.id][x.obj].origin = "transition" =>
                             x.type \in {Named(x.id, x.obj)', "execution.state_changed"}
    BY Zenon DEF EventsTrue
  <1>1. x.id \in Ids /\ x.obj \in DOMAIN objects[x.id]
    BY DEF TypeOK, Event, EventsTrue
  <1> QED
    BY <1>1, NamedStable DEF ObjectsStable, EventsTrue

\* Two threads that stay still differ.
LEMMA OwnersStay ==
    ASSUME OwnersDiffer, NEW t \in Threads, NEW u \in Threads, t # u,
           Stays(t), Stays(u)
    PROVE  emitting'[t] # <<>> /\ emitting'[u] # <<>> =>
               call'[t].id # call'[u].id \/ obj'[t] # obj'[u]
  BY DEF OwnersDiffer, Stays

\* What was announced or owed is so after a step in which every thread stays.
QuietStep ==
    /\ events' = events /\ ObjectsStable /\ NoMove
    /\ \A u \in Threads : Stays(u)

LEMMA QuietPublish ==
    ASSUME IndInv, IndInv', PublishInv, QuietStep
    PROVE  PublishInv'
  <1> USE DEF PublishInv, QuietStep
  <1>1. \A u \in Threads : Owing(u)' /\ OwedBy(u)' = OwedBy(u)
    BY StaysOwing DEF AllOwing
  <1>2. AllOwing' /\ EventsTrue'
    BY <1>1, EventsStay DEF AllOwing, IndInv
  <1>3. OwnersDiffer'
    BY OwnersStay DEF OwnersDiffer
  <1>4. NotOwed'
    BY <1>1 DEF NotOwed
  <1>5. ASSUME NEW e \in Ids, NEW k \in 2..Len(objects'[e]),
               objects'[e][k].origin = "transition"
        PROVE  Pending(e, k, Named(e, k))' /\ Pending(e, k, "execution.state_changed")'
    <2>1. k \in DOMAIN objects'[e]
      BY ObjectDomain DEF IndInv, TypeOK
    <2>2. k \in DOMAIN objects[e]
      BY <1>5, <2>1 DEF NoMove
    <2>3. k \in 2..Len(objects[e])
      BY <1>5, <2>2, ObjectDomain DEF IndInv
    <2>4. objects[e][k].origin = "transition" /\ Named(e, k)' = Named(e, k)
      BY <1>5, <2>2, <2>3, NamedStable DEF IndInv
    <2>5. Pending(e, k, Named(e, k)) /\ Pending(e, k, "execution.state_changed")
      BY <2>3, <2>4 DEF NothingForgotten
    <2>6. ASSUME NEW y, Pending(e, k, y)
          PROVE  (\E x \in events' : x.id = e /\ x.obj = k /\ x.type = y)
                 \/ \E t \in Threads : <<e, k, y>> \in OwedBy(t)'
      BY <1>1, <2>6 DEF Pending
    <2> QED
      BY <2>4, <2>5, <2>6 DEF Pending
  <1>6. NothingForgotten'
    BY <1>5 DEF NothingForgotten
  <1> QED
    BY <1>2, <1>3, <1>4, <1>6

-----------------------------------------------------------------------------
(* The steps that neither move an execution nor announce anything.         *)

LEMMA SameStable ==
    ASSUME TypeOK, UNCHANGED objects
    PROVE  ObjectsStable /\ NoMove
  BY DEF ObjectsStable, NoMove

\* Writing a result or an error into the current object.
LEMMA MutateStable ==
    ASSUME TypeOK, NEW e \in Ids, NEW snap \in Snapshot, Known(e), Mutate(e, snap),
           snap.status = Current(e).status, snap.origin = Current(e).origin
    PROVE  /\ ObjectsStable /\ NoMove
           /\ \A f \in Ids : /\ Len(objects'[f]) = Len(objects[f])
                             /\ (objects'[f] # <<>>) = (objects[f] # <<>>)
  <1>1. /\ objects'[e] = [objects[e] EXCEPT ![Len(objects[e])] = snap]
        /\ \A f \in Ids : /\ DOMAIN objects'[f] = DOMAIN objects[f]
                          /\ Len(objects'[f]) = Len(objects[f])
        /\ \A f \in Ids \ {e} : objects'[f] = objects[f]
    BY MutateType
  <1>2. \A k \in DOMAIN objects[e] : /\ objects'[e][k].status = objects[e][k].status
                                     /\ objects'[e][k].origin = objects[e][k].origin
    BY <1>1, ObjectDomain DEF Current
  <1>3. objects'[e] # <<>>
    BY MutateType DEF Known
  <1> QED
    BY <1>1, <1>2, <1>3 DEF ObjectsStable, NoMove, Known

\* Storing an object adds one, at the index the thread holds.
LEMMA StoreStable ==
    ASSUME TypeOK, NEW t \in Threads, NEW e \in Ids, NEW snap \in Snapshot,
           Store(t, e, snap)
    PROVE  /\ ObjectsStable
           /\ obj'[t] = Len(objects[e]) + 1 /\ obj'[t] \notin DOMAIN objects[e]
           /\ obj'[t] \in DOMAIN objects'[e] /\ objects'[e][obj'[t]] = snap
           /\ Len(objects'[e]) = Len(objects[e]) + 1
           /\ \A f \in Ids : \A k \in DOMAIN objects'[f] :
                  k \notin DOMAIN objects[f] => f = e /\ k = obj'[t]
           /\ \A f \in Ids \ {e} : objects'[f] = objects[f]
  <1>1. /\ objects[e] \in Seq(Snapshot) /\ Len(objects[e]) \in Nat
        /\ DOMAIN objects[e] = 1..Len(objects[e])
    BY ObjectDomain
  <1>2. \A f \in Ids : objects'[f] = IF f = e THEN Append(objects[e], snap)
                                     ELSE objects[f]
    BY DEF Store, TypeOK
  <1>3. obj'[t] = Len(objects[e]) + 1
    BY DEF Store, TypeOK
  <1>4. /\ Len(objects'[e]) = Len(objects[e]) + 1
        /\ DOMAIN objects'[e] = 1..(Len(objects[e]) + 1)
        /\ \A n \in 1..Len(objects[e]) : objects'[e][n] = objects[e][n]
        /\ objects'[e][Len(objects[e]) + 1] = snap
    <2>1. objects'[e] = Append(objects[e], snap)
      BY <1>2
    <2>2. objects'[e] \in Seq(Snapshot) /\ Len(objects'[e]) = Len(objects[e]) + 1
      BY <1>1, <2>1
    <2>3. DOMAIN objects'[e] = 1..(Len(objects[e]) + 1)
      BY <1>1, <2>2
    <2> QED
      BY <1>1, <2>1, <2>2, <2>3, AppendProperties
  <1> QED
    BY <1>1, <1>2, <1>3, <1>4 DEF ObjectsStable

\* A thread outside the stages of create_execution and emit_event owes nothing.
LEMMA OutsideOwesNothing ==
    ASSUME AllOwing, NEW t \in Threads, pc[t] \notin CreateStages
    PROVE  emitting[t] = <<>>
  BY DEF AllOwing, Owing, CreateStages, MoveStages

\* The threads that do not take the step stay.
LEMMA OthersStay ==
    ASSUME AllOwing, NEW t \in Threads, OthersKept(t)
    PROVE  \A u \in Threads \ {t} : Stays(u)
  BY MovesAre DEF OthersKept, Stays, AllOwing, Owing

\* One step touches one thread.
LEMMA CallOthers ==
    ASSUME IndInv, NEW t \in Threads, Call(t)
    PROVE  OthersKept(t)
  <1> USE DEF IndInv, TypeOK, OthersKept, Enter, logVars, sweepVars
  <1>1. ASSUME NEW e \in Ids, Create(t, e) PROVE OthersKept(t)
    BY <1>1 DEF Create, Store
  <1>2. ASSUME NEW e \in Ids, Project(t, e) PROVE OthersKept(t)
    BY <1>2 DEF Project, Store
  <1>3. ASSUME NEW e \in Ids, CallMove(t, e) PROVE OthersKept(t)
    BY <1>3 DEF CallMove
  <1>4. ASSUME NEW e \in Ids, CallCancel(t, e) PROVE OthersKept(t)
    BY <1>4 DEF CallCancel
  <1>5. ASSUME NEW e \in Ids, CallComplete(t, e) PROVE OthersKept(t)
    BY <1>5 DEF CallComplete
  <1>6. ASSUME NEW e \in Ids, CompleteHonoursCancel(t, e) PROVE OthersKept(t)
    BY <1>6 DEF CompleteHonoursCancel
  <1>7. ASSUME NEW e \in Ids, CallFail(t, e) PROVE OthersKept(t)
    BY <1>7 DEF CallFail, FailEntry
  <1>8. CASE BeginSweep(t)
    <2>1. /\ \A u \in Threads \ {t} : sweep'[u] = sweep[u]
          /\ pc' = [pc EXCEPT ![t] = "sweep"]
          /\ UNCHANGED <<call, obj, emitting>>
      BY <1>8 DEF BeginSweep
    <2> QED
      BY <2>1
  <1> QED
    BY <1>1, <1>2, <1>3, <1>4, <1>5, <1>6, <1>7, <1>8 DEF Call

LEMMA StepOthers ==
    ASSUME IndInv, NEW t \in Threads, Step(t)
    PROVE  OthersKept(t)
  <1> USE DEF IndInv, TypeOK, OthersKept, Return, logVars, sweepVars
  <1>1. CASE SweepFail(t)
    BY <1>1 DEF SweepFail, FailEntry, Enter
  <1>2. CASE EndSweep(t) \/ ReadAuditFrom(t) \/ Reject(t) \/ Audit(t)
    BY <1>2 DEF EndSweep, ReadAuditFrom, Reject, Audit
  <1>3. CASE Transition(t)
    BY <1>3 DEF Transition, Store
  <1>4. CASE DrawTicket(t)
    BY <1>4 DEF DrawTicket
  <1>5. CASE AppendEvent(t)
    BY <1>5 DEF AppendEvent
  <1>6. CASE Serialise(t) \/ OpenTmp(t) \/ WriteTmp(t)
    BY <1>6 DEF Serialise, OpenTmp, WriteTmp
  <1>7. CASE SkipPersist(t) \/ Replace(t) \/ PersistFails(t)
    <2>1. AfterPersist(t) /\ UNCHANGED <<emitting, sweep>>
      BY <1>7 DEF SkipPersist, Replace, PersistFails
    <2> QED
      BY <2>1 DEF AfterPersist
  <1> QED
    BY <1>1, <1>2, <1>3, <1>4, <1>5, <1>6, <1>7 DEF Step

\* Thread t owes nothing before the step and changes nothing of what is owed.
LEMMA QuietOutside ==
    ASSUME IndInv, AllOwing, NEW t \in Threads, Call(t) \/ Step(t),
           pc[t] \notin CreateStages, events' = events, emitting' = emitting,
           ObjectsStable, NoMove
    PROVE  QuietStep
  <1>1. Stays(t)
    BY OutsideOwesNothing DEF Stays
  <1>2. \A u \in Threads \ {t} : Stays(u)
    BY CallOthers, StepOthers, OthersStay
  <1> QED
    BY <1>1, <1>2 DEF QuietStep

\* The entries of the operations that store nothing, and recover_stale.
QuietCall(t) ==
    \/ \E e \in Ids : \/ CallMove(t, e) \/ CallCancel(t, e) \/ CallComplete(t, e)
                      \/ CompleteHonoursCancel(t, e) \/ CallFail(t, e)
    \/ BeginSweep(t)

\* No object is added under any id.
SameLives ==
    \A e \in Ids : /\ Len(objects'[e]) = Len(objects[e])
                   /\ (objects'[e] # <<>>) = (objects[e] # <<>>)

LEMMA FailEntryQuiet ==
    ASSUME TypeOK, NEW t \in Threads, NEW e \in Ids, Known(e), FailEntry(t, e)
    PROVE  /\ ObjectsStable /\ NoMove /\ SameLives
           /\ events' = events /\ emitting' = emitting
  <1> DEFINE snap == [Current(e) EXCEPT !.error = TRUE]
  <1>1. /\ snap \in Snapshot
        /\ snap.status = Current(e).status /\ snap.origin = Current(e).origin
    BY CurrentSnapshot DEF Snapshot
  <1>2. Mutate(e, snap)
    BY DEF FailEntry
  <1>3. ObjectsStable /\ NoMove /\ SameLives
    BY <1>1, <1>2, MutateStable DEF SameLives
  <1> QED
    BY <1>3 DEF FailEntry, logVars

LEMMA QuietCallStep ==
    ASSUME IndInv, AllOwing, NEW t \in Threads, QuietCall(t)
    PROVE  QuietStep /\ SameLives
  <1> USE DEF IndInv
  <1>1. pc[t] \notin CreateStages
    BY DEF QuietCall, CallMove, CallCancel, CallComplete, CompleteHonoursCancel,
       CallFail, BeginSweep, MayCall, CreateStages
  <1>2. events' = events /\ emitting' = emitting
    BY DEF QuietCall, CallMove, CallCancel, CallComplete, CompleteHonoursCancel,
       CallFail, FailEntry, BeginSweep, logVars
  <1>3. ObjectsStable /\ NoMove /\ SameLives
    <2>1. ASSUME NEW e \in Ids, CallComplete(t, e)
          PROVE  ObjectsStable /\ NoMove /\ SameLives
      <3>1. PICK r \in Results : Mutate(e, [Current(e) EXCEPT !.result = r])
        BY <2>1 DEF CallComplete
      <3> DEFINE snap == [Current(e) EXCEPT !.result = r]
      <3>2. Known(e)
        BY <2>1 DEF CallComplete, MayCall
      <3>3. /\ snap \in Snapshot
            /\ snap.status = Current(e).status /\ snap.origin = Current(e).origin
        BY <3>2, CurrentSnapshot DEF Snapshot
      <3> QED
        BY <3>1, <3>2, <3>3, MutateStable DEF SameLives
    <2>2. ASSUME NEW e \in Ids, CallFail(t, e)
          PROVE  ObjectsStable /\ NoMove /\ SameLives
      BY <2>2, FailEntryQuiet DEF CallFail, MayCall
    <2>3. ASSUME NEW e \in Ids,
                 CallMove(t, e) \/ CallCancel(t, e) \/ CompleteHonoursCancel(t, e)
          PROVE  UNCHANGED objects
      BY <2>3 DEF CallMove, CallCancel, CompleteHonoursCancel
    <2>4. CASE BeginSweep(t)
      BY <2>4, SameStable DEF BeginSweep, SameLives
    <2> QED
      BY <2>1, <2>2, <2>3, <2>4, SameStable DEF QuietCall, SameLives
  <1>4. Call(t)
    BY DEF QuietCall, Call
  <1> QED
    BY <1>1, <1>2, <1>3, <1>4, QuietOutside

\* upsert_execution stores an object that is not the work of a transition.
LEMMA ProjectQuiet ==
    ASSUME IndInv, AllOwing, NEW t \in Threads, NEW e \in Ids, Project(t, e)
    PROVE  QuietStep
  <1> USE DEF IndInv
  <1>1. PICK snap \in Projections : Store(t, e, snap)
    BY DEF Project
  <1>2. snap \in Snapshot /\ snap.origin # "transition"
    BY ProjectionsAssumption
  <1>3. ObjectsStable /\ NoMove
    BY <1>1, <1>2, StoreStable DEF NoMove
  <1>4. pc[t] \notin CreateStages /\ events' = events /\ emitting' = emitting
    BY DEF Project, CreateStages, logVars
  <1>5. Call(t)
    BY DEF Call
  <1> QED
    BY <1>3, <1>4, <1>5, QuietOutside

\* The steps inside an operation that neither move nor announce.
QuietInside(t) ==
    \/ SweepFail(t) \/ EndSweep(t) \/ ReadAuditFrom(t) \/ Reject(t)
    \/ DrawTicket(t) \/ Serialise(t) \/ SkipPersist(t)
    \/ OpenTmp(t) \/ WriteTmp(t) \/ Replace(t) \/ PersistFails(t) \/ Audit(t)

LEMMA QuietInsideStep ==
    ASSUME IndInv, AllOwing, NEW t \in Threads, QuietInside(t)
    PROVE  QuietStep /\ SameLives
  <1> USE DEF IndInv
  <1>1. Step(t)
    BY DEF QuietInside, Step
  <1>2. CASE SweepFail(t)
    <2>1. PICK e \in sweep[t] : FailEntry(t, e)
      BY <1>2 DEF SweepFail
    <2>2. e \in Ids /\ Known(e) /\ pc[t] \notin CreateStages
      BY <1>2 DEF TypeOK, ControlOK, ThreadOK, SweepFail, CreateStages
    <2> QED
      BY <1>1, <2>1, <2>2, FailEntryQuiet, QuietOutside
  <1>3. CASE ~SweepFail(t)
    <2>1. UNCHANGED objects /\ events' = events /\ emitting' = emitting
      BY <1>3 DEF QuietInside, EndSweep, ReadAuditFrom, Reject, DrawTicket,
         Serialise, SkipPersist, OpenTmp, WriteTmp, Replace, PersistFails,
         Audit, logVars
    <2>2. ObjectsStable /\ NoMove /\ SameLives
      BY <2>1, SameStable DEF SameLives
    <2>3. CASE EndSweep(t) \/ ReadAuditFrom(t) \/ Reject(t) \/ Audit(t)
      <3>1. pc[t] \notin CreateStages
        BY <2>3 DEF EndSweep, ReadAuditFrom, Reject, Audit, CreateStages
      <3> QED
        BY <1>1, <2>1, <2>2, <3>1, QuietOutside
    <2>4. CASE DrawTicket(t)
      BY <2>1, <2>2, <2>4, StepOthers, OthersStay, <1>1, MovesAre
         DEF QuietStep, Stays, DrawTicket, CreateStages, MoveStages, TypeOK
    <2>5. CASE Serialise(t) \/ OpenTmp(t) \/ WriteTmp(t)
      <3>1. /\ call'[t] = call[t] /\ obj'[t] = obj[t]
            /\ pc[t] \notin MoveStages /\ pc'[t] \in CreateStages
        BY <2>5 DEF Serialise, OpenTmp, WriteTmp, CreateStages, MoveStages, TypeOK
      <3>2. Stays(t)
        BY <2>1, <3>1, MovesAre DEF Stays, AllOwing, Owing
      <3> QED
        BY <1>1, <2>1, <2>2, <3>2, StepOthers, OthersStay DEF QuietStep
    <2>6. CASE SkipPersist(t) \/ Replace(t) \/ PersistFails(t)
      <3>1. pc[t] \notin MoveStages /\ AfterPersist(t)
        BY <2>6 DEF SkipPersist, Replace, PersistFails, MoveStages
      <3>2. call[t].op = "create" =>
                call'[t] = call[t] /\ obj'[t] = obj[t] /\ pc'[t] \in CreateStages
        BY <3>1, MovesAre DEF AfterPersist, CreateStages, TypeOK
      <3>3. Stays(t)
        BY <2>1, <3>1, <3>2, MovesAre DEF Stays, AllOwing, Owing
      <3> QED
        BY <1>1, <2>1, <2>2, <3>3, StepOthers, OthersStay DEF QuietStep
    <2> QED
      BY <1>3, <2>3, <2>4, <2>5, <2>6 DEF QuietInside
  <1> QED
    BY <1>2, <1>3

-----------------------------------------------------------------------------
(* The steps that make a thread owe announcements.                         *)

\* The announcements a thread owes are about the object it holds.
LEMMA OwedAbout ==
    ASSUME NEW t, NEW e, NEW k, NEW y, <<e, k, y>> \in OwedBy(t)
    PROVE  e = call[t].id /\ k = obj[t] /\ emitting[t] # <<>>
  <1>1. PICK n \in 1..Len(emitting[t]) : <<e, k, y>> = <<call[t].id, obj[t], emitting[t][n]>>
    BY DEF OwedBy
  <1>2. 1..Len(<<>>) = {}
    OBVIOUS
  <1> QED
    BY <1>1, <1>2

\* Thread t stores snap under e and starts to owe what belongs to it.
NewOwner(t, e, snap) ==
    /\ Store(t, e, snap) /\ OthersKept(t)
    /\ emitting[t] = <<>> /\ events' = events
    /\ call'[t].id = e /\ Owing(t)'
    /\ snap.origin = "transition" =>
           /\ Known(e)
           /\ <<e, obj'[t], Named(e, obj[t])'>> \in OwedBy(t)'
           /\ <<e, obj'[t], "execution.state_changed">> \in OwedBy(t)'

LEMMA NewOwnerPublish ==
    ASSUME IndInv, IndInv', PublishInv, NEW t \in Threads, NEW e \in Ids,
           NEW snap \in Snapshot, NewOwner(t, e, snap)
    PROVE  /\ PublishInv'
           /\ OwedBy(t) = {}
           /\ \A u \in Threads \ {t} : OwedBy(u)' = OwedBy(u)
  <1> USE DEF PublishInv, NewOwner
  <1>1. /\ ObjectsStable
        /\ obj'[t] = Len(objects[e]) + 1 /\ obj'[t] \notin DOMAIN objects[e]
        /\ objects'[e][obj'[t]] = snap
        /\ \A f \in Ids : \A k \in DOMAIN objects'[f] :
               k \notin DOMAIN objects[f] => f = e /\ k = obj'[t]
    BY StoreStable DEF IndInv
  <1>2. \A u \in Threads \ {t} : Stays(u)
    BY OthersStay
  <1>3. \A u \in Threads \ {t} : Owing(u)' /\ OwedBy(u)' = OwedBy(u)
    BY <1>1, <1>2, StaysOwing DEF AllOwing
  <1>4. OwedBy(t) = {}
    BY OwedNone, OwedByIs
  <1>5. AllOwing' /\ EventsTrue'
    BY <1>1, <1>3, EventsStay DEF AllOwing, IndInv
  <1>6. OwnersDiffer'
    <2>1. ASSUME NEW u \in Threads \ {t}, emitting'[u] # <<>>
          PROVE  call'[u].id # e \/ obj'[u] # obj'[t]
      <3>1. emitting[u] # <<>> /\ call'[u] = call[u] /\ obj'[u] = obj[u]
        BY <1>2, <2>1 DEF Stays
      <3> QED
        BY <1>1, <3>1, OwesObject DEF AllOwing
    <2>2. ASSUME NEW u \in Threads \ {t}, NEW v \in Threads \ {t}, u # v
          PROVE  emitting'[u] # <<>> /\ emitting'[v] # <<>> =>
                     call'[u].id # call'[v].id \/ obj'[u] # obj'[v]
      BY <1>2, <2>2, OwnersStay
    <2> QED
      BY <2>1, <2>2 DEF OwnersDiffer
  <1>7. NotOwed'
    <2>1. ASSUME NEW x \in events, <<x.id, x.obj, x.type>> \in OwedBy(t)'
          PROVE  FALSE
      <3>1. x.id = e /\ x.obj = obj'[t]
        <4>1. PICK n \in 1..Len(emitting'[t]) :
                  <<x.id, x.obj, x.type>> = <<call'[t].id, obj'[t], emitting'[t][n]>>
          BY <2>1 DEF OwedBy
        <4> QED
          BY <4>1
      <3>2. x.obj \in DOMAIN objects[x.id]
        BY DEF EventsTrue
      <3> QED
        BY <1>1, <3>1, <3>2
    <2> QED
      BY <1>3, <2>1 DEF NotOwed
  <1>8. ASSUME NEW f \in Ids, NEW k \in 2..Len(objects'[f]),
               objects'[f][k].origin = "transition"
        PROVE  Pending(f, k, Named(f, k))' /\ Pending(f, k, "execution.state_changed")'
    <2>1. k \in DOMAIN objects'[f]
      BY ObjectDomain DEF IndInv, TypeOK
    <2>2. CASE k \in DOMAIN objects[f]
      <3>1. k \in 2..Len(objects[f])
        BY <2>2, ObjectDomain DEF IndInv
      <3>2. objects[f][k].origin = "transition" /\ Named(f, k)' = Named(f, k)
        BY <1>1, <1>8, <2>2, <3>1, NamedStable DEF IndInv
      <3>3. Pending(f, k, Named(f, k)) /\ Pending(f, k, "execution.state_changed")
        BY <3>1, <3>2 DEF NothingForgotten
      <3>4. ASSUME NEW y, Pending(f, k, y)
            PROVE  (\E x \in events' : x.id = f /\ x.obj = k /\ x.type = y)
                   \/ \E u \in Threads : <<f, k, y>> \in OwedBy(u)'
        BY <1>3, <1>4, <3>4 DEF Pending
      <3> QED
        BY <3>2, <3>3, <3>4 DEF Pending
    <2>3. CASE k \notin DOMAIN objects[f]
      <3>1. f = e /\ k = obj'[t]
        BY <1>1, <2>1, <2>3
      <3>2. snap.origin = "transition"
        BY <1>1, <1>8, <3>1
      <3>3. Named(f, k)' = Named(e, obj[t])'
        BY <3>1 DEF Named
      <3> QED
        BY <3>1, <3>2, <3>3 DEF Pending
    <2> QED
      BY <2>2, <2>3
  <1>9. NothingForgotten'
    BY <1>8 DEF NothingForgotten
  <1> QED
    BY <1>3, <1>4, <1>5, <1>6, <1>7, <1>9

\* create_execution owes execution.created.
LEMMA CreateOwes ==
    ASSUME IndInv, AllOwing, NEW t \in Threads, NEW e \in Ids, Create(t, e)
    PROVE  /\ NewOwner(t, e, NewSnapshot)
           /\ NewSnapshot \in Snapshot
           /\ OwedBy(t)' = {<<e, obj'[t], "execution.created">>}
  <1> USE DEF IndInv
  <1>1. NewSnapshot \in Snapshot /\ NewSnapshot.origin # "transition"
    BY DEF NewSnapshot, Snapshot, Status
  <1>2. Store(t, e, NewSnapshot) /\ Enter(t, "create", e, "serialise") /\ events' = events
    BY DEF Create
  <1>3. OthersKept(t)
    BY CallOthers DEF Call
  <1>4. emitting[t] = <<>>
    BY OutsideOwesNothing DEF Create, CreateStages
  <1>5. emitting'[t] = <<"execution.created">>
    BY DEF Create, TypeOK
  <1>6. /\ call'[t].id = e /\ call'[t].op = "create" /\ pc'[t] = "serialise"
    BY <1>2 DEF Enter, TypeOK
  <1>7. objects'[e][obj'[t]].origin # "transition"
    BY <1>1, <1>2, StoreStable
  <1>8. objects'[call'[t].id][obj'[t]].origin # "transition" /\ pc'[t] \in CreateStages
    BY <1>6, <1>7 DEF CreateStages
  <1>9. Owing(t)'
    BY <1>5, <1>6, <1>8, Zenon DEF Owing
  <1>10. OwedBy(t)' = {<<e, obj'[t], "execution.created">>}
    <2>1. OwedBy(t)' = Owed(call'[t], obj'[t], <<"execution.created">>)
      BY <1>5, Zenon DEF OwedBy, Owed
    <2> QED
      BY <1>6, <2>1, OwedOne
  <1> QED
    BY <1>1, <1>2, <1>3, <1>4, <1>6, <1>9, <1>10 DEF NewOwner

\* _transition owes the event that names it and execution.state_changed.
LEMMA TransitionOwes ==
    ASSUME IndInv, AllOwing, NEW t \in Threads, Transition(t)
    PROVE  \E e \in Ids : \E target \in Status :
               /\ e = call[t].id
               /\ NewOwner(t, e, Moved(Current(e), target))
               /\ Moved(Current(e), target) \in Snapshot
               /\ Known(e) /\ Current(e) \in Snapshot /\ target \in Allowed[Current(e).status]
               /\ Moved(Current(e), target).status = target
               /\ OwedBy(t)' = {<<e, obj'[t], EventType(Current(e).status, target)>>,
                                <<e, obj'[t], "execution.state_changed">>}
  <1> USE DEF IndInv
  <1>1. call[t].id \in Ids /\ Known(call[t].id) /\ call[t].op \in Moves
    BY Inside DEF Transition, ControlOK, ThreadOK
  <1>2. PICK e \in Ids : e = call[t].id /\ Known(e)
    BY <1>1
  <1>3. PICK target \in Status : target = Target[call[t].op]
    BY <1>1, MovesAre
  <1> DEFINE snap == Moved(Current(e), target)
             named == EventType(Current(e).status, target)
  <1>4. /\ Store(t, e, snap) /\ target \in Allowed[Current(e).status]
        /\ emitting' = [emitting EXCEPT ![t] = <<named, "execution.state_changed">>]
        /\ pc' = [pc EXCEPT ![t] = "emit"]
        /\ call' = call /\ events' = events
    BY <1>2, <1>3 DEF Transition, StatusToLeave, Announcements
  <1>5. Current(e) \in Snapshot /\ Len(objects[e]) \in Nat \ {0}
    BY <1>2, CurrentSnapshot
  <1>6. snap \in Snapshot /\ snap.status = target /\ snap.origin = "transition"
    BY <1>5, MovedType
  <1>7. OthersKept(t) /\ emitting[t] = <<>>
    BY StepOthers, OutsideOwesNothing DEF Step, Transition, CreateStages
  <1>8. /\ call'[t].id = e /\ call'[t].op \in Moves /\ pc'[t] \in MoveStages
        /\ emitting'[t] = <<named, "execution.state_changed">>
    BY <1>1, <1>2, <1>4 DEF TypeOK, MoveStages
  <1>9. /\ ObjectsStable /\ obj'[t] = Len(objects[e]) + 1
        /\ objects'[e][obj'[t]] = snap
    BY <1>4, <1>6, StoreStable
  <1>10. obj'[t] > 1 /\ objects'[call'[t].id][obj'[t]].origin = "transition"
    BY <1>5, <1>6, <1>8, <1>9
  <1>11. Named(e, obj[t])' = named
    <2>1. obj'[t] - 1 = Len(objects[e]) /\ Len(objects[e]) \in DOMAIN objects[e]
      BY <1>5, <1>9, ObjectDomain
    <2>2. objects'[e][obj'[t] - 1].status = Current(e).status
      BY <1>9, <2>1 DEF ObjectsStable, Current
    <2> QED
      BY <1>6, <1>9, <2>2 DEF Named
  <1>12. Named(call[t].id, obj[t])' = named
    BY <1>8, <1>11 DEF Named
  <1>13. Owing(t)'
    BY <1>8, <1>10, <1>12, Zenon DEF Owing
  <1>14. OwedBy(t)' = {<<e, obj'[t], named>>, <<e, obj'[t], "execution.state_changed">>}
    <2> HIDE DEF named
    <2>1. OwedBy(t)' = Owed(call'[t], obj'[t], <<named, "execution.state_changed">>)
      BY <1>8, Zenon DEF OwedBy, Owed
    <2>2. Owed(call'[t], obj'[t], <<named, "execution.state_changed">>) =
              {<<call'[t].id, obj'[t], named>>,
               <<call'[t].id, obj'[t], "execution.state_changed">>}
      BY OwedTwo, Zenon
    <2> QED
      BY <1>8, <2>1, <2>2, Zenon
  <1>15. NewOwner(t, e, snap)
    BY <1>2, <1>4, <1>7, <1>8, <1>11, <1>13, <1>14 DEF NewOwner
  <1> QED
    BY <1>2, <1>4, <1>5, <1>6, <1>14, <1>15

-----------------------------------------------------------------------------
(* The step that announces.                                                *)

\* The announcement that AppendEvent makes.
Made(t) == <<call[t].id, obj[t], Head(emitting[t])>>

\* What is left to be announced, and by which types the object is announced.
LEMMA AppendOwes ==
    ASSUME IndInv, LifecycleRespected, AllOwing, NEW t \in Threads, AppendEvent(t)
    PROVE  /\ Owing(t)'
           /\ Made(t) \in OwedBy(t) /\ OwedBy(t)' = OwedBy(t) \ {Made(t)}
           /\ Head(emitting[t]) = "execution.state_changed" => OwedBy(t) = {Made(t)}
           /\ obj[t] > 1 /\ objects[call[t].id][obj[t]].origin = "transition" =>
                  Head(emitting[t]) \in {Named(call[t].id, obj[t]), "execution.state_changed"}
  <1> USE DEF IndInv
  <1> DEFINE e == call[t].id
             sc == "execution.state_changed"
  <1>1. /\ emitting[t] \in Seq(EventTypes) /\ emitting[t] # <<>>
        /\ emitting'[t] = Tail(emitting[t])
        /\ Owing(t)
    BY DEF AppendEvent, TypeOK, ControlOK, ThreadOK, AllOwing
  <1>2. CASE \E y : emitting[t] = <<y>>
    <2>1. PICK y : emitting[t] = <<y>>
      BY <1>2
    <2>2. Head(emitting[t]) = y /\ Tail(emitting[t]) = <<>>
      BY <2>1
    <2>3. OwedBy(t) = {Made(t)} /\ OwedBy(t)' = {}
      <3>1. /\ OwedBy(t) = Owed(call[t], obj[t], <<y>>)
            /\ OwedBy(t)' = Owed(call'[t], obj'[t], <<>>)
        BY <1>1, <2>1, <2>2, Zenon DEF OwedBy, Owed
      <3> QED
        BY <2>2, <3>1, OwedNone, OwedOne, Zenon DEF Made
    <2>4. Owing(t)'
      BY <1>1, <2>2, Zenon DEF Owing
    <2>5. obj[t] > 1 /\ objects[e][obj[t]].origin = "transition" =>
              y \in {Named(e, obj[t]), sc}
      <3>1. emitting[t] \in {<<Named(e, obj[t]), sc>>, <<sc>>} => y = sc
        BY <2>1
      <3> QED
        BY <1>1, <3>1 DEF Owing
    <2> QED
      BY <2>2, <2>3, <2>4, <2>5
  <1>3. CASE ~ \E y : emitting[t] = <<y>>
    <2>1. PICK f \in Ids : f = call[t].id /\ obj[t] \in DOMAIN objects[f]
      BY <1>1, OwesObject
    <2>2. PICK k \in DOMAIN objects[f] : k = obj[t]
      BY <2>1
    <2> DEFINE named == EventType(objects[f][k - 1].status, objects[f][k].status)
    <2>3. /\ call[t].op \in Moves /\ k > 1 /\ objects[f][k].origin = "transition"
          /\ emitting[t] \in {<<named, sc>>, <<sc>>}
      BY <1>1, <1>3, <2>1, <2>2 DEF Owing, Named
    <2>4. k \in 2..Len(objects[f]) /\ k \in DOMAIN objects[f] /\ k - 1 \in DOMAIN objects[f]
      BY <2>3, ObjectDomain
    <2>5. named # sc
      <3>1. objects[f][k].status \in Allowed[objects[f][k - 1].status]
        BY <2>3, <2>4 DEF LifecycleRespected
      <3>2. objects[f][k - 1].status \in Status
        <4>1. objects[f][k - 1] \in Snapshot
          BY <2>4, ObjectDomain
        <4> QED
          BY <4>1 DEF Snapshot
      <3> QED
        BY <3>1, <3>2, NamedApart
    <2> HIDE DEF named
    <2>6. emitting[t] = <<named, sc>>
      BY <1>3, <2>3
    <2>7. /\ Head(emitting[t]) = named /\ Tail(emitting[t]) = <<sc>>
          /\ Len(emitting[t]) = 2
      BY <2>6
    <2>8. /\ pc'[t] = "emit" /\ call'[t] = call[t] /\ obj'[t] = obj[t]
          /\ objects' = objects
      BY <2>7 DEF AppendEvent, TypeOK
    <2>9. Made(t) \in OwedBy(t) /\ OwedBy(t)' = OwedBy(t) \ {Made(t)}
      <3>1. /\ OwedBy(t) = Owed(call[t], obj[t], <<named, sc>>)
            /\ OwedBy(t)' = Owed(call[t], obj[t], <<sc>>)
        BY <1>1, <2>6, <2>7, <2>8, Zenon DEF OwedBy, Owed
      <3>2. /\ OwedBy(t) = {<<call[t].id, obj[t], named>>, <<call[t].id, obj[t], sc>>}
            /\ OwedBy(t)' = {<<call[t].id, obj[t], sc>>}
        <4>1. Owed(call[t], obj[t], <<named, sc>>) =
                  {<<call[t].id, obj[t], named>>, <<call[t].id, obj[t], sc>>}
          BY OwedTwo
        <4>2. Owed(call[t], obj[t], <<sc>>) = {<<call[t].id, obj[t], sc>>}
          BY OwedOne
        <4> QED
          BY <3>1, <4>1, <4>2, Zenon
      <3>3. Made(t) = <<call[t].id, obj[t], named>>
        BY <2>7 DEF Made
      <3> QED
        BY <2>5, <3>2, <3>3
    <2>10. /\ call'[t].op \in Moves /\ pc'[t] \in MoveStages /\ obj'[t] > 1
           /\ objects'[call'[t].id][obj'[t]].origin = "transition"
           /\ emitting'[t] = <<"execution.state_changed">>
      BY <1>1, <2>1, <2>2, <2>3, <2>7, <2>8 DEF MoveStages
    <2>11. Owing(t)'
      BY <2>10, Zenon DEF Owing
    <2>12. Head(emitting[t]) = Named(e, obj[t])
      BY <2>1, <2>2, <2>7 DEF Named, named
    <2> QED
      BY <2>5, <2>7, <2>9, <2>11, <2>12
  <1> QED
    BY <1>2, <1>3

\* A thread with more to announce goes on with the same object.
LEMMA MoreToAnnounce ==
    ASSUME TypeOK, NEW t \in Threads, AppendEvent(t),
           emitting[t] # <<>>, emitting'[t] # <<>>
    PROVE  call'[t] = call[t] /\ obj'[t] = obj[t]
  <1>1. emitting'[t] = Tail(emitting[t]) /\ emitting[t] \in Seq(EventTypes)
    BY DEF AppendEvent, TypeOK
  <1>2. CASE Len(emitting[t]) = 1
    <2>1. Len(Tail(emitting[t])) = 0 /\ Tail(emitting[t]) \in Seq(EventTypes)
      BY <1>1, <1>2, HeadTailProperties
    <2> QED
      BY <1>1, <2>1, EmptySeq
  <1>3. CASE Len(emitting[t]) # 1
    BY <1>3 DEF AppendEvent
  <1> QED
    BY <1>2, <1>3

LEMMA AppendPublish ==
    ASSUME IndInv, IndInv', LifecycleRespected, PublishInv,
           NEW t \in Threads, AppendEvent(t)
    PROVE  /\ PublishInv'
           /\ \A u \in Threads \ {t} : OwedBy(u)' = OwedBy(u) /\ Made(t) \notin OwedBy(u)
  <1> USE DEF PublishInv
  <1>1. /\ Owing(t)'
        /\ Made(t) \in OwedBy(t) /\ OwedBy(t)' = OwedBy(t) \ {Made(t)}
        /\ obj[t] > 1 /\ objects[call[t].id][obj[t]].origin = "transition" =>
               Head(emitting[t]) \in {Named(call[t].id, obj[t]), "execution.state_changed"}
    BY AppendOwes
  <1>2. /\ objects' = objects /\ ObjectsStable /\ NoMove /\ OthersKept(t)
        /\ emitting[t] # <<>> /\ Owing(t)
    BY SameStable, StepOthers DEF AppendEvent, IndInv, ControlOK, ThreadOK, AllOwing, Step
  <1>3. PICK e \in Ids : e = call[t].id /\ obj[t] \in DOMAIN objects[e]
    BY <1>2, OwesObject
  <1>4. \A u \in Threads \ {t} : Stays(u)
    BY <1>2, OthersStay
  <1>5. \A u \in Threads \ {t} : Owing(u)' /\ OwedBy(u)' = OwedBy(u)
    BY <1>2, <1>4, StaysOwing DEF AllOwing
  <1>6. \A u \in Threads \ {t} : Made(t) \notin OwedBy(u)
    BY <1>2, OwedAbout DEF OwnersDiffer, Made
  <1>7. PICK ev : /\ ev = [sequence |-> ticket[t], id |-> call[t].id,
                            obj |-> obj[t], type |-> Head(emitting[t])]
                   /\ events' = events \cup {ev}
    BY DEF AppendEvent
  <1>8. ev.id = e /\ ev.obj = obj[t] /\ <<ev.id, ev.obj, ev.type>> = Made(t)
    BY <1>3, <1>7 DEF Made
  <1>9. AllOwing'
    BY <1>1, <1>5 DEF AllOwing
  <1>10. OwnersDiffer'
    <2>1. ASSUME NEW u \in Threads \ {t}, emitting'[t] # <<>>, emitting'[u] # <<>>
          PROVE  call'[u].id # call'[t].id \/ obj'[u] # obj'[t]
      <3>1. /\ emitting[u] # <<>> /\ call'[u] = call[u] /\ obj'[u] = obj[u]
        BY <1>4, <2>1 DEF Stays
      <3>2. call'[t] = call[t] /\ obj'[t] = obj[t]
        BY <1>2, <2>1, MoreToAnnounce DEF IndInv
      <3> QED
        BY <1>2, <3>1, <3>2 DEF OwnersDiffer
    <2>2. ASSUME NEW u \in Threads \ {t}, NEW v \in Threads \ {t}, u # v
          PROVE  emitting'[u] # <<>> /\ emitting'[v] # <<>> =>
                     call'[u].id # call'[v].id \/ obj'[u] # obj'[v]
      BY <1>4, <2>2, OwnersStay
    <2> QED
      BY <2>1, <2>2 DEF OwnersDiffer
  <1>11. EventsTrue'
    <2>1. ASSUME NEW x \in events
          PROVE  /\ x.obj \in DOMAIN objects'[x.id]
                 /\ x.obj > 1 /\ objects'[x.id][x.obj].origin = "transition" =>
                        x.type \in {Named(x.id, x.obj)', "execution.state_changed"}
      BY <1>2 DEF EventsTrue, Named
    <2>2. /\ ev.obj \in DOMAIN objects'[ev.id]
          /\ ev.obj > 1 /\ objects'[ev.id][ev.obj].origin = "transition" =>
                 ev.type \in {Named(ev.id, ev.obj)', "execution.state_changed"}
      BY <1>1, <1>2, <1>3, <1>7, <1>8 DEF Named
    <2> QED
      BY <1>7, <2>1, <2>2 DEF EventsTrue
  <1>12. NotOwed'
    <2>1. ASSUME NEW u \in Threads PROVE <<ev.id, ev.obj, ev.type>> \notin OwedBy(u)'
      BY <1>1, <1>5, <1>6, <1>8
    <2>2. ASSUME NEW x \in events, NEW u \in Threads
          PROVE  <<x.id, x.obj, x.type>> \notin OwedBy(u)'
      BY <1>1, <1>5 DEF NotOwed
    <2> QED
      BY <1>7, <2>1, <2>2 DEF NotOwed
  <1>13. ASSUME NEW f \in Ids, NEW k \in 2..Len(objects'[f]),
                objects'[f][k].origin = "transition"
         PROVE  Pending(f, k, Named(f, k))' /\ Pending(f, k, "execution.state_changed")'
    <2>1. Pending(f, k, Named(f, k)) /\ Pending(f, k, "execution.state_changed")
      BY <1>2, <1>13 DEF NothingForgotten
    <2>2. Named(f, k)' = Named(f, k)
      BY <1>2 DEF Named
    <2>3. ASSUME NEW y, Pending(f, k, y)
          PROVE  (\E x \in events' : x.id = f /\ x.obj = k /\ x.type = y)
                 \/ \E u \in Threads : <<f, k, y>> \in OwedBy(u)'
      <3>1. CASE <<f, k, y>> = Made(t)
        BY <1>7, <1>8, <3>1
      <3>2. CASE <<f, k, y>> # Made(t)
        BY <1>1, <1>5, <1>7, <2>3, <3>2 DEF Pending
      <3> QED
        BY <3>1, <3>2
    <2> QED
      BY <2>1, <2>2, <2>3 DEF Pending
  <1>14. NothingForgotten'
    BY <1>13 DEF NothingForgotten
  <1> QED
    BY <1>5, <1>6, <1>9, <1>10, <1>11, <1>12, <1>14

-----------------------------------------------------------------------------
(* The invariant.                                                          *)

LEMMA PublishInit ==
    ASSUME Init
    PROVE  PublishInv
  <1>1. AllOwing /\ OwnersDiffer /\ EventsTrue /\ NotOwed
    BY DEF Init, AllOwing, Owing, OwnersDiffer, EventsTrue, NotOwed
  <1>2. \A e \in Ids : 2..Len(objects[e]) = {}
    BY NoSecond DEF Init
  <1> QED
    BY <1>1, <1>2 DEF PublishInv, NothingForgotten

LEMMA RestartLengths ==
    ASSUME Restart, NEW e \in Ids
    PROVE  /\ 2..Len(objects'[e]) = {}
           /\ Len(objects'[e]) \in {0, 1}
           /\ (objects'[e] # <<>>) = (Len(objects'[e]) = 1)
  <1>1. \/ objects'[e] = <<>>
        \/ objects'[e] = <<[durable[e] EXCEPT !.origin = "reload"]>>
    BY DEF Restart, Reloaded
  <1>2. CASE objects'[e] = <<>>
    BY <1>2, NoSecond
  <1>3. CASE objects'[e] = <<[durable[e] EXCEPT !.origin = "reload"]>>
    <2>1. PICK x : objects'[e] = <<x>>
      BY <1>3
    <2> QED
      BY <2>1, NoSecond
  <1> QED
    BY <1>1, <1>2, <1>3

LEMMA PublishRestart ==
    ASSUME Restart
    PROVE  /\ PublishInv' /\ events' = {}
           /\ \A t \in Threads : OwedBy(t)' = {}
  <1>1. events' = {} /\ \A t \in Threads : emitting'[t] = <<>>
    BY DEF Restart
  <1>2. AllOwing' /\ OwnersDiffer' /\ EventsTrue' /\ NotOwed'
    BY <1>1 DEF AllOwing, Owing, OwnersDiffer, EventsTrue, NotOwed
  <1>3. NothingForgotten'
    BY RestartLengths DEF NothingForgotten
  <1>4. ASSUME NEW t \in Threads PROVE OwedBy(t)' = {}
    <2>1. OwedBy(t)' = Owed(call'[t], obj'[t], <<>>)
      BY <1>1, Zenon DEF OwedBy, Owed
    <2> QED
      BY <2>1, OwedNone
  <1> QED
    BY <1>1, <1>2, <1>3, <1>4 DEF PublishInv

\* Nothing happens.
LEMMA StutterStays ==
    ASSUME IndInv, AllOwing, UNCHANGED vars
    PROVE  QuietStep /\ \A u \in Threads : OwedBy(u)' = OwedBy(u)
  <1> USE DEF vars, threadVars, logVars
  <1>1. ObjectsStable /\ NoMove
    BY SameStable DEF IndInv
  <1>2. ASSUME NEW u \in Threads PROVE Stays(u)
    BY MovesAre DEF Stays, AllOwing, Owing
  <1> QED
    BY <1>1, <1>2 DEF QuietStep, OwedBy

\* A step is one of these.
LEMMA StepKinds ==
    ASSUME NEW t \in Threads, Call(t) \/ Step(t)
    PROVE  \/ \E e \in Ids : Create(t, e) \/ Project(t, e)
           \/ Transition(t) \/ AppendEvent(t)
           \/ QuietCall(t) \/ QuietInside(t)
  BY DEF Call, Step, QuietCall, QuietInside

LEMMA PublishStep ==
    ASSUME IndInv, IndInv', LifecycleRespected, PublishInv, [Next]_vars
    PROVE  PublishInv'
  <1> USE DEF PublishInv
  <1>1. ASSUME NEW t \in Threads, NEW e \in Ids, Create(t, e)
        PROVE  PublishInv'
    <2>1. NewOwner(t, e, NewSnapshot) /\ NewSnapshot \in Snapshot
      BY <1>1, CreateOwes
    <2> QED
      BY <2>1, NewOwnerPublish
  <1>2. ASSUME NEW t \in Threads, Transition(t)
        PROVE  PublishInv'
    <2>1. PICK e \in Ids, target \in Status :
              /\ NewOwner(t, e, Moved(Current(e), target))
              /\ Moved(Current(e), target) \in Snapshot
      BY <1>2, TransitionOwes
    <2> QED
      BY <2>1, NewOwnerPublish
  <1>3. ASSUME NEW t \in Threads, AppendEvent(t)
        PROVE  PublishInv'
    BY <1>3, AppendPublish
  <1>4. ASSUME NEW t \in Threads, NEW e \in Ids, Project(t, e)
        PROVE  PublishInv'
    BY <1>4, ProjectQuiet, QuietPublish
  <1>5. ASSUME NEW t \in Threads, QuietCall(t) \/ QuietInside(t)
        PROVE  PublishInv'
    BY <1>5, QuietCallStep, QuietInsideStep, QuietPublish
  <1>6. CASE UNCHANGED vars
    BY <1>6, StutterStays, QuietPublish
  <1> QED
    BY <1>1, <1>2, <1>3, <1>4, <1>5, <1>6, StepKinds, PublishRestart DEF Next

LEMMA Bookkeeping == Spec => []PublishInv
  <1>1. Init => PublishInv
    BY PublishInit
  <1>2. IndInv /\ IndInv' /\ LifecycleRespected /\ PublishInv /\ [Next]_vars => PublishInv'
    BY PublishStep
  <1> QED
    BY <1>1, <1>2, Inductive, LifecycleSafe, PTL DEF Spec

\* When nobody publishes an object, everything about it is in the log.
LEMMA PublishedWhenQuiet ==
    ASSUME IndInv, PublishInv
    PROVE  TransitionsPublished
  <1> SUFFICES ASSUME NEW e \in Ids, NEW k \in 2..Len(objects[e]),
                      objects[e][k].origin = "transition",
                      \A t \in Threads : ~Publishing(t, e, k)
               PROVE  {x.type : x \in EventsOf(e, k)} =
                          {Named(e, k), "execution.state_changed"}
    BY DEF TransitionsPublished, Named
  <1>1. ASSUME NEW t \in Threads, NEW y, <<e, k, y>> \in OwedBy(t)
        PROVE  FALSE
    <2>1. e = call[t].id /\ k = obj[t] /\ emitting[t] # <<>>
      BY <1>1, OwedAbout
    <2>2. pc[t] \in MoveStages
      BY <2>1 DEF PublishInv, AllOwing, Owing
    <2> QED
      BY <2>1, <2>2 DEF Publishing, MoveStages
  <1>2. ASSUME NEW y \in {Named(e, k), "execution.state_changed"}
        PROVE  y \in {x.type : x \in EventsOf(e, k)}
    BY <1>1, <1>2 DEF PublishInv, NothingForgotten, Pending, EventsOf
  <1>3. ASSUME NEW x \in EventsOf(e, k)
        PROVE  x.type \in {Named(e, k), "execution.state_changed"}
    <2>1. x \in events /\ x.id = e /\ x.obj = k
      BY DEF EventsOf
    <2> QED
      BY <2>1 DEF PublishInv, EventsTrue
  <1> QED
    BY <1>2, <1>3

\* No transition is lost to the event log: once no thread is publishing it, the
\* log holds exactly the event that names it, after the statuses it really led
\* between, and execution.state_changed (_transition, emit_event, with
\* create_execution, recover_stale and upsert_execution interleaved).
THEOREM Published == Spec => []TransitionsPublished
  <1>1. IndInv /\ PublishInv => TransitionsPublished
    BY PublishedWhenQuiet
  <1> QED
    BY <1>1, Inductive, Bookkeeping, PTL

-----------------------------------------------------------------------------
(* The store implements the lifecycle.                                     *)

\* Both modules speak of the same statuses, moves and event types.
LEMMA SameLifecycle ==
    /\ Abstract!Status = Status
    /\ Abstract!Allowed = Allowed
    /\ \A from, to : Abstract!EventType(from, to) = EventType(from, to)
  BY DEF Abstract!Status, Status, Abstract!Allowed, Allowed, Abstract!EventType, EventType

\* What the lifecycle sees of the store.
Lives == [e \in Ids |-> LifeOf(e)]
Counts == [e \in Ids |-> Len(objects[e])]
AllOwed == UNION {OwedBy(t) : t \in Threads}

\* The life of every execution while its objects stay.
LEMMA LivesStay ==
    ASSUME TypeOK, ObjectsStable, NEW e \in Ids, Len(objects'[e]) = Len(objects[e]),
           (objects'[e] # <<>>) = (objects[e] # <<>>)
    PROVE  LifeOf(e)' = LifeOf(e)
  <1>1. CASE objects[e] = <<>>
    BY <1>1 DEF LifeOf, Known
  <1>2. CASE objects[e] # <<>>
    <2>1. Len(objects[e]) \in DOMAIN objects[e]
      BY <1>2, CurrentSnapshot, ObjectDomain DEF Known
    <2>2. objects'[e][Len(objects'[e])].status = objects[e][Len(objects[e])].status
      BY <2>1 DEF ObjectsStable
    <2> QED
      BY <1>2, <2>2 DEF LifeOf, Known, Current
  <1> QED
    BY <1>1, <1>2

LEMMA OwedStays ==
    ASSUME \A t \in Threads : OwedBy(t)' = OwedBy(t)
    PROVE  AllOwed' = AllOwed
  BY DEF AllOwed

\* A quiet step that adds no object changes nothing that the lifecycle shows.
LEMMA QuietRefines ==
    ASSUME IndInv, AllOwing, QuietStep, SameLives
    PROVE  UNCHANGED Abstract!lifeVars
  <1>1. \A e \in Ids : LifeOf(e)' = LifeOf(e) /\ Len(objects'[e]) = Len(objects[e])
    BY LivesStay DEF IndInv, QuietStep, SameLives
  <1>2. AllOwed' = AllOwed
    BY StaysOwing, OwedStays DEF QuietStep, AllOwing
  <1>3. Lives' = Lives
    BY <1>1 DEF Lives
  <1>4. Counts' = Counts
    BY <1>1 DEF Counts
  <1>5. {<<x.id, x.obj, x.type>> : x \in events}' = {<<x.id, x.obj, x.type>> : x \in events}
    BY DEF QuietStep
  <1> QED
    BY <1>2, <1>3, <1>4, <1>5 DEF Abstract!lifeVars, Lives, Counts, AllOwed

\* A new object is the execution's life from now on.
LEMMA StoredLife ==
    ASSUME TypeOK, NEW t \in Threads, NEW e \in Ids, NEW snap \in Snapshot,
           Store(t, e, snap)
    PROVE  /\ Lives' = [Lives EXCEPT ![e] = snap.status]
           /\ Counts' = [Counts EXCEPT ![e] = @ + 1]
           /\ obj'[t] = Counts[e] + 1
  <1>1. /\ obj'[t] = Len(objects[e]) + 1 /\ Len(objects'[e]) = Len(objects[e]) + 1
        /\ objects'[e][Len(objects'[e])] = snap /\ objects'[e] # <<>>
        /\ \A f \in Ids \ {e} : objects'[f] = objects[f]
    BY StoreStable, StoreType
  <1>2. LifeOf(e)' = snap.status
    BY <1>1 DEF LifeOf, Known, Current
  <1>3. \A f \in Ids \ {e} : LifeOf(f)' = LifeOf(f) /\ Len(objects'[f]) = Len(objects[f])
    BY <1>1 DEF LifeOf, Known, Current
  <1> QED
    BY <1>1, <1>2, <1>3 DEF Lives, Counts

LEMMA OwedGrows ==
    ASSUME NEW t \in Threads, OwedBy(t) = {},
           \A u \in Threads \ {t} : OwedBy(u)' = OwedBy(u)
    PROVE  AllOwed' = AllOwed \cup OwedBy(t)'
  BY DEF AllOwed

LEMMA OwedShrinks ==
    ASSUME NEW t \in Threads, NEW a, OwedBy(t)' = OwedBy(t) \ {a},
           \A u \in Threads \ {t} : OwedBy(u)' = OwedBy(u) /\ a \notin OwedBy(u)
    PROVE  AllOwed' = AllOwed \ {a}
  BY DEF AllOwed

\* create_execution is Born.
LEMMA CreateRefines ==
    ASSUME IndInv, IndInv', PublishInv, NEW t \in Threads, NEW e \in Ids, Create(t, e)
    PROVE  Abstract!Born(e)
  <1>1. /\ NewOwner(t, e, NewSnapshot) /\ NewSnapshot \in Snapshot
        /\ OwedBy(t)' = {<<e, obj'[t], "execution.created">>}
    BY CreateOwes DEF PublishInv
  <1>2. AllOwed' = AllOwed \cup {<<e, obj'[t], "execution.created">>}
    BY <1>1, NewOwnerPublish, OwedGrows
  <1>3. /\ Lives' = [Lives EXCEPT ![e] = "queued"]
        /\ Counts' = [Counts EXCEPT ![e] = @ + 1]
        /\ obj'[t] = Counts[e] + 1
    <2>1. NewSnapshot.status = "queued"
      BY DEF NewSnapshot
    <2> QED
      BY <1>1, <2>1, StoredLife DEF NewOwner, IndInv
  <1>4. Lives[e] = "absent"
    BY DEF Create, LifeOf, Lives
  <1>5. events' = events
    BY <1>1 DEF NewOwner
  <1> QED
    BY <1>2, <1>3, <1>4, <1>5 DEF Abstract!Born, Lives, Counts, AllOwed

\* _transition is Move.
LEMMA TransitionRefines ==
    ASSUME IndInv, IndInv', PublishInv, NEW t \in Threads, Transition(t)
    PROVE  \E e \in Ids : Abstract!Move(e)
  <1>1. PICK e \in Ids, target \in Status :
            /\ NewOwner(t, e, Moved(Current(e), target))
            /\ Moved(Current(e), target) \in Snapshot
            /\ Known(e) /\ Current(e) \in Snapshot
            /\ target \in Allowed[Current(e).status]
            /\ Moved(Current(e), target).status = target
            /\ OwedBy(t)' = {<<e, obj'[t], EventType(Current(e).status, target)>>,
                             <<e, obj'[t], "execution.state_changed">>}
    BY TransitionOwes DEF PublishInv
  <1>2. AllOwed' = AllOwed \cup
                       {<<e, obj'[t], EventType(Current(e).status, target)>>,
                        <<e, obj'[t], "execution.state_changed">>}
    BY <1>1, NewOwnerPublish, OwedGrows
  <1>3. /\ Lives' = [Lives EXCEPT ![e] = target]
        /\ Counts' = [Counts EXCEPT ![e] = @ + 1]
        /\ obj'[t] = Counts[e] + 1
    BY <1>1, StoredLife DEF NewOwner, IndInv
  <1>4. Lives[e] = Current(e).status
    BY <1>1 DEF LifeOf, Lives
  <1>5. events' = events /\ Current(e).status \in Status
    BY <1>1 DEF NewOwner, Snapshot
  <1>6. Abstract!Move(e)
    BY <1>1, <1>2, <1>3, <1>4, <1>5, SameLifecycle DEF Abstract!Move, Lives, Counts, AllOwed
  <1> QED
    BY <1>6

\* upsert_execution is Adopt.
LEMMA ProjectRefines ==
    ASSUME IndInv, PublishInv, NEW t \in Threads, NEW e \in Ids, Project(t, e)
    PROVE  Abstract!Adopt(e)
  <1>1. PICK snap \in Projections : Store(t, e, snap)
    BY DEF Project
  <1>2. snap \in Snapshot /\ snap.status \in Status
    BY ProjectionsAssumption DEF Snapshot
  <1>3. QuietStep
    BY ProjectQuiet DEF PublishInv
  <1>4. AllOwed' = AllOwed
    BY <1>3, StaysOwing, OwedStays DEF QuietStep, PublishInv, AllOwing
  <1>5. /\ Lives' = [Lives EXCEPT ![e] = snap.status]
        /\ Counts' = [Counts EXCEPT ![e] = @ + 1]
    BY <1>1, <1>2, StoredLife DEF IndInv
  <1>6. events' = events
    BY <1>3 DEF QuietStep
  <1> QED
    BY <1>2, <1>4, <1>5, <1>6, SameLifecycle DEF Abstract!Adopt, Lives, Counts, AllOwed

\* Appending an event is Announce.
LEMMA AppendRefines ==
    ASSUME IndInv, IndInv', LifecycleRespected, PublishInv,
           NEW t \in Threads, AppendEvent(t)
    PROVE  Abstract!Announce
  <1>1. /\ Made(t) \in OwedBy(t) /\ OwedBy(t)' = OwedBy(t) \ {Made(t)}
        /\ Head(emitting[t]) = "execution.state_changed" => OwedBy(t) = {Made(t)}
    BY AppendOwes DEF PublishInv
  <1>2. \A u \in Threads \ {t} : OwedBy(u)' = OwedBy(u) /\ Made(t) \notin OwedBy(u)
    BY AppendPublish
  <1>3. PICK a : a = Made(t)
    OBVIOUS
  <1>4. a[1] = call[t].id /\ a[2] = obj[t] /\ a[3] = Head(emitting[t])
    BY <1>3 DEF Made
  <1>5. AllOwed' = AllOwed \ {a}
    BY <1>1, <1>2, <1>3, OwedShrinks
  <1>6. a \in AllOwed
    BY <1>1, <1>3 DEF AllOwed
  <1>7. ASSUME a[3] = "execution.state_changed", NEW b \in AllOwed,
               b[1] = a[1], b[2] = a[2]
        PROVE  b = a
    <2>1. PICK u \in Threads : b \in OwedBy(u)
      BY <1>7 DEF AllOwed
    <2>2. b[1] = call[u].id /\ b[2] = obj[u] /\ emitting[u] # <<>>
      <3>1. PICK n \in 1..Len(emitting[u]) : b = <<call[u].id, obj[u], emitting[u][n]>>
        BY <2>1 DEF OwedBy
      <3>2. 1..Len(<<>>) = {}
        OBVIOUS
      <3> QED
        BY <3>1, <3>2
    <2>3. emitting[t] # <<>>
      BY DEF AppendEvent, IndInv, ControlOK, ThreadOK
    <2>4. u = t
      BY <1>4, <1>7, <2>2, <2>3 DEF PublishInv, OwnersDiffer
    <2> QED
      BY <1>1, <1>3, <1>4, <1>7, <2>1, <2>4
  <1>8. {<<x.id, x.obj, x.type>> : x \in events}' =
            {<<x.id, x.obj, x.type>> : x \in events} \cup {a}
    <2>1. PICK ev : /\ ev = [sequence |-> ticket[t], id |-> call[t].id,
                             obj |-> obj[t], type |-> Head(emitting[t])]
                    /\ events' = events \cup {ev}
      BY DEF AppendEvent
    <2>2. <<ev.id, ev.obj, ev.type>> = a
      BY <1>3, <2>1 DEF Made
    <2> QED
      BY <2>1, <2>2
  <1>9. a \notin {<<x.id, x.obj, x.type>> : x \in events}
    BY <1>1, <1>3 DEF PublishInv, NotOwed
  <1>10. objects' = objects
    BY DEF AppendEvent
  <1>11. /\ Lives' = Lives
         /\ Counts' = Counts
    BY <1>10 DEF LifeOf, Known, Current, Lives, Counts
  <1> QED
    BY <1>5, <1>6, <1>7, <1>8, <1>9, <1>11 DEF Abstract!Announce, Lives, Counts, AllOwed

\* A restart is Reborn.
LEMMA RestartRefines ==
    ASSUME IndInv, IndInv', Restart
    PROVE  Abstract!Reborn
  <1>1. events' = {} /\ AllOwed' = {}
    BY PublishRestart DEF AllOwed
  <1>2. ASSUME NEW e \in Ids PROVE LifeOf(e)' \in Status \cup {"absent"}
    <2>1. CASE objects'[e] = <<>>
      BY <2>1 DEF LifeOf, Known
    <2>2. CASE objects'[e] # <<>>
      <3>1. objects'[e] \in Seq(Snapshot)
        BY DEF IndInv, TypeOK
      <3>2. objects'[e][Len(objects'[e])] \in Snapshot
        BY <2>2, <3>1
      <3> QED
        BY <2>2, <3>2 DEF LifeOf, Known, Current, Snapshot
    <2> QED
      BY <2>1, <2>2
  <1>3. Lives' \in [Ids -> Status \cup {"absent"}]
    BY <1>2 DEF Lives
  <1>4. Counts' \in [Ids -> {0, 1}]
    BY RestartLengths DEF Counts
  <1>5. {<<x.id, x.obj, x.type>> : x \in events}' = {}
    BY <1>1
  <1> QED
    BY <1>1, <1>3, <1>4, <1>5, SameLifecycle DEF Abstract!Reborn, Lives, Counts, AllOwed

LEMMA InitRefines ==
    ASSUME Init
    PROVE  Abstract!LifeInit
  <1>1. \A e \in Ids : LifeOf(e) = "absent" /\ Len(objects[e]) = 0
    BY DEF Init, LifeOf, Known
  <1>2. ASSUME NEW t \in Threads PROVE OwedBy(t) = {}
    BY OwedNone, OwedByIs DEF Init
  <1>3. UNION {OwedBy(t) : t \in Threads} = {}
    BY <1>2
  <1>4. {<<x.id, x.obj, x.type>> : x \in events} = {}
    BY DEF Init
  <1> QED
    BY <1>1, <1>3, <1>4 DEF Abstract!LifeInit

LEMMA StepRefines ==
    ASSUME IndInv, IndInv', LifecycleRespected, PublishInv, [Next]_vars
    PROVE  [Abstract!LifeNext]_Abstract!lifeVars
  <1>1. ASSUME NEW t \in Threads, NEW e \in Ids, Create(t, e) \/ Project(t, e)
        PROVE  Abstract!LifeNext
    BY <1>1, CreateRefines, ProjectRefines DEF Abstract!LifeNext
  <1>2. ASSUME NEW t \in Threads, Transition(t)
        PROVE  Abstract!LifeNext
    BY <1>2, TransitionRefines DEF Abstract!LifeNext
  <1>3. ASSUME NEW t \in Threads, AppendEvent(t)
        PROVE  Abstract!LifeNext
    BY <1>3, AppendRefines DEF Abstract!LifeNext
  <1>4. ASSUME NEW t \in Threads, QuietCall(t) \/ QuietInside(t)
        PROVE  UNCHANGED Abstract!lifeVars
    BY <1>4, QuietCallStep, QuietInsideStep, QuietRefines DEF PublishInv
  <1>5. CASE Restart
    BY <1>5, RestartRefines DEF Abstract!LifeNext
  <1>6. CASE UNCHANGED vars
    <2>1. SameLives
      BY <1>6 DEF SameLives, vars
    <2> QED
      BY <1>6, <2>1, StutterStays, QuietRefines DEF PublishInv
  <1> QED
    BY <1>1, <1>2, <1>3, <1>4, <1>5, <1>6, StepKinds DEF Next

\* The store implements the lifecycle: whatever create_execution, the
\* transitions, upsert_execution, recover_stale and a restart interleave, an
\* execution is born queued, moves only along the lifecycle or is adopted as
\* reported, and every move is announced exactly once, first by the event that
\* names it and then by execution.state_changed.
THEOREM StoreImplements == Spec => ImplementsLifecycle
  <1>1. Init => Abstract!LifeInit
    BY InitRefines
  <1>2. IndInv /\ IndInv' /\ LifecycleRespected /\ PublishInv /\ [Next]_vars
            => [Abstract!LifeNext]_Abstract!lifeVars
    BY StepRefines
  <1> QED
    BY <1>1, <1>2, Inductive, LifecycleSafe, Bookkeeping, PTL
       DEF Spec, ImplementsLifecycle, Abstract!LifeSpec

=============================================================================
