---------------------- MODULE ExecutionStoreRefinement ----------------------
(***************************************************************************)
(* The execution store, with its threads and critical sections, implements *)
(* ExecutionLifecycle: the status of the current object is the job's life, *)
(* an event in the log is an announcement made, and what a thread has      *)
(* still to emit is an announcement owed.                                  *)
(***************************************************************************)
EXTENDS ExecutionStore

LifeOf(e) == IF Known(e) THEN Current(e).status ELSE "absent"

OwedBy(t) == {<<call[t].id, obj[t], emitting[t][k]>> : k \in 1..Len(emitting[t])}

Abstract ==
    INSTANCE ExecutionLifecycle WITH
        life <- [e \in Ids |-> LifeOf(e)],
        moves <- [e \in Ids |-> Len(objects[e])],
        owed <- UNION {OwedBy(t) : t \in Threads},
        announced <- {<<x.id, x.obj, x.type>> : x \in events}

\* Every step of the store is a step of the abstract lifecycle or leaves it
\* unchanged: each move is announced exactly once, by the event that names it
\* and then by state_changed.  (create_execution, _transition, emit_event.)
ImplementsLifecycle == Abstract!LifeSpec

=============================================================================
