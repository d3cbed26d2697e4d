------------------------- MODULE SharedState_proofs -------------------------
(***************************************************************************)
(* SharedState for any workers, processes, keys, values and faults: whose  *)
(* the locks are, that every call takes effect at one instant, that a pass *)
(* keeps its lease, and that nothing is acted upon twice.                  *)
(***************************************************************************)
EXTENDS SharedState, FiniteSetTheorems, TLAPS

Working(w) == pc[w] \in {"read", "write", "replace", "unlink", "unlock"}
InCall(w) == Working(w) \/ pc[w] \in {"mutex", "flock"}

\* What the locks depend on: values do not matter, but whoever is in a call
\* knows where the call goes, and only the file backend has file locks.
LockTypes ==
    /\ backend \in {"memory", "file"}
    /\ mutex \in [Processes -> Workers \cup {Nobody}]
    /\ flock \in [Keys -> Workers \cup {Nobody}]
    /\ pc \in [Workers -> Stages]
    /\ DOMAIN call = Workers
    /\ \A w \in Workers : InCall(w) => call[w].op \in Ops /\ call[w].at \in Locations
    /\ \A w \in Workers : pc[w] = "flock" => backend = "file"

LockInv == LockTypes /\ LocksMatchCalls

-----------------------------------------------------------------------------
(* Lemmas on steps.                                                        *)

\* A key and a process are known by the location of a call.
LEMMA KeyOfLocation ==
    ASSUME NEW l \in Locations
    PROVE  l[2] \in Keys
  BY DEF Locations

\* A step that takes and gives back no lock keeps the invariant when only one
\* worker moves and goes on as it was: in a call past its locks, or in none.
LEMMA LocksKept ==
    ASSUME LockInv, NEW w \in Workers, NEW stage \in Stages,
           UNCHANGED <<backend, flock, mutex>>,
           pc' = [pc EXCEPT ![w] = stage],
           DOMAIN call' = Workers,
           \A u \in Workers \ {w} : call'[u] = call[u],
           \/ /\ Working(w)
              /\ stage \in {"read", "write", "replace", "unlink", "unlock"}
              /\ call'[w] = call[w]
           \/ /\ ~Working(w) /\ pc[w] # "flock"
              /\ stage = "mutex"
              /\ call'[w].op \in Ops /\ call'[w].at \in Locations
    PROVE  LockInv'
  <1>1. LockTypes'
    BY DEF LockInv, LockTypes, InCall, Working, Stages
  <1>2. LocksMatchCalls'
    BY DEF LockInv, LockTypes, LocksMatchCalls, InCall, Working, Stages
  <1> QED
    BY <1>1, <1>2 DEF LockInv

\* A step that changes neither a lock nor a stage nor a call.
LEMMA LocksUntouched ==
    ASSUME LockInv, UNCHANGED <<backend, flock, mutex, pc, call>>
    PROVE  LockInv'
  BY DEF LockInv, LockTypes, LocksMatchCalls, InCall, Working

\* The callers: a worker outside a call begins one.
LEMMA AskStep ==
    ASSUME LockInv, NEW w \in Workers, NEW from \in {"idle", "body", "loaded", "consumed"},
           NEW op \in Ops, NEW k \in Keys, NEW old, NEW new, Ask(w, from, op, k, old, new)
    PROVE  LockInv'
  <1>1. Where(w, k) \in Locations
    BY SharedStateAssumption DEF Where, Locations
  <1>2. "mutex" \in Stages
    BY DEF Stages
  <1>3. call'[w].op = op /\ call'[w].at = Where(w, k)
    BY DEF LockInv, LockTypes, Ask
  <1>4. DOMAIN call' = Workers /\ \A u \in Workers \ {w} : call'[u] = call[u]
    BY DEF LockInv, LockTypes, Ask
  <1>5. ~Working(w) /\ pc[w] # "flock"
    BY DEF Ask, Working
  <1> QED
    BY <1>1, <1>2, <1>3, <1>4, <1>5, LocksKept DEF Ask, stored, config

\* Every caller of the store begins its calls that way.
LEMMA BeginStep ==
    ASSUME LockInv, NEW w \in Workers, Begin(w)
    PROVE  LockInv'
  <1>1. CASE Reconcile(w)
    BY <1>1, AskStep DEF Reconcile, Ops, Keys
  <1>2. CASE EndPass(w)
    BY <1>2, AskStep DEF EndPass, Ops, Keys
  <1>3. CASE Click(w)
    BY <1>3, AskStep DEF Click, Ops, Keys, Claims
  <1>4. CASE Handle(w)
    BY <1>4, AskStep DEF Handle, Ops, Keys, Claims
  <1>5. CASE SaveRecord(w)
    BY <1>5, AskStep DEF SaveRecord, Ops, Keys
  <1>6. CASE LoadRecord(w)
    BY <1>6, AskStep DEF LoadRecord, Ops, Keys
  <1>7. CASE ClearRecord(w)
    BY <1>7, AskStep DEF ClearRecord, Ops, Keys
  <1>8. CASE ConsumeRecord(w)
    BY <1>8, AskStep DEF ConsumeRecord, Ops, Keys
  <1> QED
    BY <1>1, <1>2, <1>3, <1>4, <1>5, <1>6, <1>7, <1>8 DEF Begin

-----------------------------------------------------------------------------
(* The steps that take and give back locks.                                *)

\* The process's lock is taken.
LEMMA EnterStep ==
    ASSUME LockInv, NEW w \in Workers, Enter(w)
    PROVE  LockInv'
  <1> USE SharedStateAssumption
  <1> DEFINE stage == IF backend = "file" THEN "flock" ELSE "read"
  <1>1. /\ pc[w] = "mutex" /\ pc' = [pc EXCEPT ![w] = stage]
        /\ mutex[ProcOf[w]] = Nobody
        /\ mutex' = [mutex EXCEPT ![ProcOf[w]] = w]
        /\ UNCHANGED <<backend, flock, call>>
    BY DEF Enter, Goto, config
  <1>2. stage \in {"flock", "read"} /\ (stage = "flock" <=> backend = "file")
    OBVIOUS
  <1> HIDE DEF stage
  <1>3. LockTypes'
    BY <1>1, <1>2 DEF LockInv, LockTypes, InCall, Working, Stages
  <1>4. ASSUME NEW u \in Workers
        PROVE  mutex'[ProcOf[u]] = u <=> Working(u)' \/ pc'[u] = "flock"
    <2>1. CASE u = w
      BY <1>1, <1>2, <2>1 DEF LockInv, LockTypes, Working, Stages
    <2>2. CASE u # w
      <3>1. pc'[u] = pc[u] /\ (Working(u)' <=> Working(u))
        BY <1>1, <2>2 DEF LockInv, LockTypes, Working
      <3>2. mutex'[ProcOf[u]] = u <=> mutex[ProcOf[u]] = u
        BY <1>1, <2>2 DEF LockInv, LockTypes
      <3>3. mutex[ProcOf[u]] = u <=> Working(u) \/ pc[u] = "flock"
        BY DEF LockInv, LocksMatchCalls, Working
      <3> QED
        BY <3>1, <3>2, <3>3
    <2> QED
      BY <2>1, <2>2
  <1>5. ASSUME NEW u \in Workers, NEW k \in Keys
        PROVE  flock'[k] = u <=> Working(u)' /\ backend' = "file" /\ call'[u].at[2] = k
    BY <1>1, <1>2, <1>5 DEF LockInv, LockTypes, LocksMatchCalls, Working, Stages
  <1> QED
    BY <1>3, <1>4, <1>5 DEF LockInv, LocksMatchCalls, Working

\* The key's file lock is taken.
LEMMA LockStep ==
    ASSUME LockInv, NEW w \in Workers, Lock(w)
    PROVE  LockInv'
  <1> USE SharedStateAssumption DEF Lock, Goto, config
  <1>1. call[w].at[2] \in Keys
    BY KeyOfLocation DEF LockInv, LockTypes, InCall
  <1>2. First(call[w].op) \in {"write", "unlink", "read"}
    BY DEF First
  <1>3. LockTypes'
    BY <1>1, <1>2 DEF LockInv, LockTypes, InCall, Working, Stages
  <1>4. ASSUME NEW u \in Workers
        PROVE  mutex'[ProcOf[u]] = u <=> Working(u)' \/ pc'[u] = "flock"
    BY <1>2, <1>4 DEF LockInv, LockTypes, LocksMatchCalls, Working, Stages
  <1>5. ASSUME NEW u \in Workers, NEW k \in Keys
        PROVE  flock'[k] = u <=> Working(u)' /\ backend' = "file" /\ call'[u].at[2] = k
    BY <1>1, <1>2, <1>5 DEF LockInv, LockTypes, LocksMatchCalls, Working, Stages
  <1> QED
    BY <1>3, <1>4, <1>5 DEF LockInv, LocksMatchCalls, Working

\* Where the caller goes on.
LEMMA AfterStages ==
    ASSUME NEW c, NEW r, NEW next \in After(c, r)
    PROVE  next \in {"body", "loaded", "consumed", "idle"}
  BY DEF After

\* Both locks are given back.
LEMMA ReturnStep ==
    ASSUME LockInv, NEW w \in Workers, Return(w)
    PROVE  LockInv'
  <1> USE SharedStateAssumption
  <1>1. PICK next \in After(call[w], reply[w]) : Goto(w, next)
    BY DEF Return
  <1>2. next \in {"body", "loaded", "consumed", "idle"}
    BY <1>1, AfterStages
  <1>3. call[w].at[2] \in Keys
    BY KeyOfLocation DEF LockInv, LockTypes, InCall, Working, Return
  <1>4. /\ pc[w] = "unlock" /\ pc' = [pc EXCEPT ![w] = next]
        /\ mutex' = [mutex EXCEPT ![ProcOf[w]] = Nobody]
        /\ flock' = [flock EXCEPT ![call[w].at[2]] = IF @ = w THEN Nobody ELSE @]
        /\ call' = [call EXCEPT ![w] = NoCall] /\ backend' = backend
    BY <1>1 DEF Return, Goto, config
  <1>5. LockTypes'
    BY <1>2, <1>3, <1>4 DEF LockInv, LockTypes, InCall, Working, Stages
  <1>6. ASSUME NEW u \in Workers
        PROVE  mutex'[ProcOf[u]] = u <=> Working(u)' \/ pc'[u] = "flock"
    BY <1>2, <1>4, <1>6 DEF LockInv, LockTypes, LocksMatchCalls, Working, Stages
  <1>7. ASSUME NEW u \in Workers, NEW k \in Keys
        PROVE  flock'[k] = u <=> Working(u)' /\ backend' = "file" /\ call'[u].at[2] = k
    BY <1>2, <1>3, <1>4, <1>7 DEF LockInv, LockTypes, LocksMatchCalls, Working, Stages
  <1> QED
    BY <1>5, <1>6, <1>7 DEF LockInv, LocksMatchCalls, Working

\* A process ends, and the kernel gives its locks back.
LEMMA CrashStep ==
    ASSUME LockInv, NEW p \in Processes, Crash(p)
    PROVE  LockInv'
  <1> USE SharedStateAssumption
  <1> DEFINE lost == {w \in Workers : ProcOf[w] = p}
  <1>1. /\ pc' = [w \in Workers |-> IF w \in lost THEN "idle" ELSE pc[w]]
        /\ call' = [w \in Workers |-> IF w \in lost THEN NoCall ELSE call[w]]
        /\ mutex' = [mutex EXCEPT ![p] = Nobody]
        /\ flock' = [k \in Keys |-> IF flock[k] \in lost THEN Nobody ELSE flock[k]]
        /\ backend' = backend
    BY DEF Crash, config
  <1>2. LockTypes'
    BY <1>1 DEF LockInv, LockTypes, InCall, Working, Stages
  <1>3. ASSUME NEW u \in Workers
        PROVE  mutex'[ProcOf[u]] = u <=> Working(u)' \/ pc'[u] = "flock"
    BY <1>1, <1>3 DEF LockInv, LockTypes, LocksMatchCalls, Working
  <1>4. ASSUME NEW u \in Workers, NEW k \in Keys
        PROVE  flock'[k] = u <=> Working(u)' /\ backend' = "file" /\ call'[u].at[2] = k
    BY <1>1, <1>4 DEF LockInv, LockTypes, LocksMatchCalls, Working
  <1> QED
    BY <1>2, <1>3, <1>4 DEF LockInv, LocksMatchCalls, Working

-----------------------------------------------------------------------------
(* The steps between them, which keep both locks.                          *)

\* What was read decides where the call goes on, with its locks.
LEMMA DecideStages ==
    ASSUME LockInv, NEW w \in Workers, NEW v, Decide(w, v)
    PROVE  \E stage \in {"unlock", "unlink", "write"} : pc' = [pc EXCEPT ![w] = stage]
  BY DEF Decide, Answer, Goto

\* A step under the locks.
LEMMA WorkingStep ==
    ASSUME LockInv, NEW w \in Workers,
           Read(w) \/ ReadFails(w) \/ Write(w) \/ Replace(w) \/ Unlink(w)
             \/ WriteFails(w) \/ Remember(w)
    PROVE  LockInv'
  <1>1. Working(w) /\ UNCHANGED <<backend, flock, mutex, call>>
    BY DEF Read, ReadFails, Write, Replace, Unlink, WriteFails, Remember, Working,
           stored, config
  <1>2. \E stage \in {"unlock", "unlink", "write", "replace"} :
           pc' = [pc EXCEPT ![w] = stage]
    BY DecideStages DEF Read, ReadFails, Write, Replace, Unlink, WriteFails, Remember,
                        Answer, Goto
  <1>3. PICK stage \in {"unlock", "unlink", "write", "replace"} :
           pc' = [pc EXCEPT ![w] = stage]
    BY <1>2
  <1>4. stage \in Stages
    BY DEF Stages
  <1>5. DOMAIN call' = Workers
    BY <1>1 DEF LockInv, LockTypes
  <1> QED
    BY <1>1, <1>3, <1>4, <1>5, LocksKept

-----------------------------------------------------------------------------
(* Locks and calls.                                                        *)

\* Nobody is in a call at the start.
LEMMA InitLocks == Init => LockInv
  <1> SUFFICES ASSUME Init PROVE LockInv
    OBVIOUS
  <1>1. LockTypes
    BY DEF Init, LockTypes, InCall, Working, Stages
  <1>2. LocksMatchCalls
    BY SharedStateAssumption DEF Init, LocksMatchCalls
  <1> QED
    BY <1>1, <1>2 DEF LockInv

\* Every step keeps the locks with their calls.
LEMMA NextLocks == LockInv /\ [Next]_vars => LockInv'
  <1> SUFFICES ASSUME LockInv, [Next]_vars PROVE LockInv'
    OBVIOUS
  <1>1. ASSUME NEW w \in Workers, Begin(w) PROVE LockInv'
    BY <1>1, BeginStep
  <1>2. ASSUME NEW w \in Workers, Step(w) PROVE LockInv'
    BY <1>2, EnterStep, LockStep, ReturnStep, WorkingStep DEF Step
  <1>3. ASSUME NEW l \in Locations, Lapse(l) PROVE LockInv'
    BY <1>3, LocksUntouched DEF Lapse, config
  <1>4. ASSUME NEW p \in Processes, Crash(p) PROVE LockInv'
    BY <1>4, CrashStep
  <1>5. CASE UNCHANGED vars
    BY <1>5, LocksUntouched DEF vars, stored, config
  <1> QED
    BY <1>1, <1>2, <1>3, <1>4, <1>5 DEF Next

\* Whatever fails or crashes, whoever holds the lock of a key's file or of a
\* process is in a call for that key, past the point where it took the lock.
THEOREM LocksSafe == Spec => []LocksMatchCalls
  <1>1. LockInv => LocksMatchCalls
    BY DEF LockInv
  <1> QED
    BY <1>1, InitLocks, NextLocks, PTL DEF Spec

-----------------------------------------------------------------------------
(* Fresh values.                                                           *)

\* A set of numbers that is not empty has a least one.
LEMMA LeastNatural ==
    ASSUME NEW T, T \subseteq Nat, T # {}
    PROVE  \E v \in T : \A u \in T : v <= u
  <1> DEFINE Less == {p \in Nat \X Nat : p[1] < p[2]}
  <1>1. IsWellFoundedOn(Less, Nat)
    <2>1. OpToRel(<, Nat) = Less
      BY Zenon DEF OpToRel
    <2> QED
      BY <2>1, NatLessThanWellFounded, Zenon
  <1>2. PICK v \in T : \A u \in T : <<u, v>> \notin Less
    <2> HIDE DEF Less
    <2> QED
      BY <1>1, WFMin, Zenon
  <1>3. \A u \in T : ~ (u < v)
    BY <1>2
  <1> QED
    BY <1>3

\* There are finitely many workers and processes, and uuids do not run out.
Plenty == IsFiniteSet(Workers) /\ IsFiniteSet(Processes) /\ ~IsFiniteSet(Values)

\* What is in use is finite.
LEMMA UsedFinite ==
    ASSUME Plenty, NEW k
    PROVE  IsFiniteSet(Used(k))
  <1> DEFINE L == {x \in Locations : x[2] = k}
             A == {entry[l].value : l \in L}
             W1 == {x \in Workers : k \in Leases \cup Records}
             B == {token[w] : w \in W1}
             W2 == {x \in Workers : call[x] # NoCall /\ call[x].at[2] = k}
             C == {call[w].new : w \in W2}
  <1>1. IsFiniteSet(L)
    <2>1. IsFiniteSet((Processes \cup {Disk}) \X {k})
      BY FS_Union, FS_Singleton, FS_Product DEF Plenty
    <2>2. L \subseteq (Processes \cup {Disk}) \X {k}
      BY DEF Locations
    <2> QED
      BY <2>1, <2>2, FS_Subset
  <1>2. IsFiniteSet(A)
    <2>1. [l \in L |-> entry[l].value] \in Surjection(L, A)
      BY DEF Surjection
    <2> HIDE DEF L, A
    <2> QED
      BY <1>1, <2>1, FS_Surjection
  <1>3. IsFiniteSet(W1) /\ IsFiniteSet(W2)
    BY FS_Subset DEF Plenty
  <1>4. IsFiniteSet(B)
    <2>1. [w \in W1 |-> token[w]] \in Surjection(W1, B)
      BY DEF Surjection
    <2> HIDE DEF W1, B
    <2> QED
      BY <1>3, <2>1, FS_Surjection
  <1>5. IsFiniteSet(C)
    <2>1. [w \in W2 |-> call[w].new] \in Surjection(W2, C)
      BY DEF Surjection
    <2> HIDE DEF W2, C
    <2> QED
      BY <1>3, <2>1, FS_Surjection
  <1>6. Used(k) = A \cup {tmp[k].value} \cup B \cup C
    BY DEF Used
  <1> HIDE DEF A, B, C
  <1>7. IsFiniteSet({tmp[k].value})
    BY FS_Singleton
  <1>8. IsFiniteSet(A \cup {tmp[k].value})
    BY <1>2, <1>7, FS_Union
  <1>9. IsFiniteSet(A \cup {tmp[k].value} \cup B)
    BY <1>4, <1>8, FS_Union
  <1> QED
    BY <1>5, <1>6, <1>9, FS_Union

\* So a fresh value is one that nobody has or has stored.
LEMMA FreshIsUnused ==
    ASSUME Plenty, NEW k
    PROVE  Fresh(k) \in Values \ Used(k)
  <1>1. Values \ Used(k) # {}
    <2>1. SUFFICES ASSUME Values \subseteq Used(k) PROVE FALSE
      OBVIOUS
    <2> QED
      BY <2>1, UsedFinite, FS_Subset DEF Plenty
  <1>2. Values \ Used(k) \subseteq Nat
    BY SharedStateAssumption
  <1>3. \E v \in Values \ Used(k) : \A u \in Values \ Used(k) : v <= u
    BY <1>1, <1>2, LeastNatural
  <1> QED
    BY <1>3 DEF Fresh

-----------------------------------------------------------------------------
(* What the values in the store, the calls and the callers' hands have to   *)
(* do with each other.                                                      *)

\* What each caller asks of the store.
Asks(c) ==
    /\ c.at[2] \in Leases => c.op \in {"acquire", "release"} /\ c.new \in Values
    /\ c.at[2] \in Clicks => c.op = "acquire" /\ c.new \in Values
    /\ c.at[2] \in Events => c.op = "cas" /\ c.old = Nil /\ c.new \in Values
    /\ c.at[2] \in Records =>
          \/ c.op = "set" /\ c.new \in Values
          \/ c.op \in {"get", "delete"}
          \/ c.op = "cas" /\ c.old \in Values /\ c.new = Nil

\* How far a call can be.
StageFits(w) ==
    /\ pc[w] \in {"write", "replace"} => call[w].op \in {"set", "cas", "acquire"}
    /\ pc[w] = "unlink" => call[w].op \in {"delete", "release"}
    /\ pc[w] \in {"write", "replace", "unlink"} => backend = "file"
    /\ pc[w] = "read" /\ backend = "file" => call[w].op \notin {"set", "delete"}
    /\ pc[w] = "replace" => tmp[call[w].at[2]] = Entry("live", call[w].new)

\* A call goes to the location where its worker finds the key, and has an
\* outcome only once it is through.
CallFits(w) ==
    /\ InCall(w) => /\ call[w] \in Calls /\ Asks(call[w])
                    /\ call[w].at = Where(w, call[w].at[2])
                    /\ StageFits(w)
    /\ ~InCall(w) => call[w] = NoCall
    /\ pc[w] = "unlock" <=> reply[w] # Pending
    /\ pc[w] \in {"body", "loaded"} => token[w] \in Values
    /\ w \in blind => InCall(w) /\ call[w].at \in misread

CallsFit == \A w \in Workers : CallFits(w)

\* What a call has decided by what it read still holds when it writes, or did
\* until its entry lapsed, or was decided without having seen the file.
DecisionStands(w) ==
    pc[w] \in {"write", "replace", "unlink"} =>
       LET c == call[w]
           v == Found(entry[c.at])
       IN \/ Accepts(c, v)
          \/ v = Nil /\ Accepts(c, late[w])
          \/ w \in blind /\ Accepts(c, Nil)

\* With the file backend everything is on the disk.
OnDisk == backend = "file" => \A l \in Locations : l[1] # Disk => entry[l] = Absent

ValuesInv == /\ TypeOK /\ LockInv /\ CallsFit /\ OnDisk
             /\ \A w \in Workers : DecisionStands(w)

-----------------------------------------------------------------------------
(* Steps of one worker.                                                    *)

\* Two workers past the file lock work on different keys.
LEMMA Exclusive ==
    ASSUME LockInv, backend = "file", NEW w \in Workers, NEW u \in Workers, w # u,
           Working(w), Working(u)
    PROVE  call[w].at[2] # call[u].at[2]
  <1>1. call[w].at[2] \in Keys /\ call[u].at[2] \in Keys
    BY KeyOfLocation DEF LockInv, LockTypes, InCall
  <1> QED
    BY <1>1 DEF LockInv, LocksMatchCalls, Working

\* The other workers stay as they are, and the store changes at most where w
\* works, under its lock.
Alone(w) ==
    \A u \in Workers \ {w} :
       /\ pc'[u] = pc[u] /\ call'[u] = call[u] /\ reply'[u] = reply[u]
       /\ token'[u] = token[u] /\ late'[u] = late[u]
       /\ (u \in blind' <=> u \in blind) /\ (u \in overdue' <=> u \in overdue)

WorksAtMost(w) ==
    /\ backend' = backend /\ misread \subseteq misread'
    /\ \A l \in Locations : entry'[l] = entry[l] \/ (Working(w) /\ l = call[w].at)
    /\ \A k \in Keys : tmp'[k] = tmp[k] \/ (Working(w) /\ k = call[w].at[2])

\* Then what holds of the others' calls goes on to hold.
LEMMA OthersFit ==
    ASSUME ValuesInv, NEW w \in Workers, Alone(w), WorksAtMost(w),
           NEW u \in Workers, u # w
    PROVE  CallFits(u)' /\ DecisionStands(u)'
  <1>1. /\ CallFits(u) /\ DecisionStands(u) /\ LockInv
        /\ pc'[u] = pc[u] /\ call'[u] = call[u] /\ reply'[u] = reply[u]
        /\ token'[u] = token[u] /\ late'[u] = late[u]
        /\ (u \in blind' <=> u \in blind)
        /\ backend' = backend /\ misread \subseteq misread'
    BY DEF ValuesInv, CallsFit, Alone, WorksAtMost
  <1>2. ASSUME pc[u] \in {"write", "replace", "unlink"}
        PROVE  /\ entry'[call[u].at] = entry[call[u].at]
               /\ tmp'[call[u].at[2]] = tmp[call[u].at[2]]
    <2>1. backend = "file" /\ Working(u) /\ call[u].at \in Locations
      BY <1>1, <1>2 DEF CallFits, InCall, Working, StageFits, Calls
    <2>2. Working(w) => call[w].at[2] # call[u].at[2]
      BY <1>1, <2>1, Exclusive
    <2> QED
      BY <2>1, <2>2, KeyOfLocation DEF WorksAtMost
  <1>3. CallFits(u)'
    BY <1>1, <1>2 DEF CallFits, InCall, Working, StageFits, Where
  <1>4. DecisionStands(u)'
    <2>1. CASE pc[u] \in {"write", "replace", "unlink"}
      BY <1>1, <1>2, <2>1 DEF DecisionStands, Found, Accepts
    <2>2. CASE pc[u] \notin {"write", "replace", "unlink"}
      BY <1>1, <2>2 DEF DecisionStands
    <2> QED
      BY <2>1, <2>2
  <1> QED
    BY <1>3, <1>4

\* So a step of one worker is right when it is right for its own call.
LEMMA OwnCallSuffices ==
    ASSUME ValuesInv, NEW w \in Workers, Alone(w), WorksAtMost(w),
           TypeOK', LockInv', OnDisk', CallFits(w)', DecisionStands(w)'
    PROVE  ValuesInv'
  BY OthersFit DEF ValuesInv, CallsFit

\* A worker's step that leaves the store's contents alone.
LEMMA OnDiskKept ==
    ASSUME OnDisk, UNCHANGED <<backend, entry>>
    PROVE  OnDisk'
  BY DEF OnDisk

-----------------------------------------------------------------------------
(* Calls begin.                                                            *)

\* A call that fits its caller begins.
LEMMA AskValues ==
    ASSUME ValuesInv, LockInv', NEW w \in Workers, ~InCall(w),
           NEW c \in Calls, Asks(c), c.at = Where(w, c.at[2]),
           pc' = [pc EXCEPT ![w] = "mutex"], call' = [call EXCEPT ![w] = c],
           UNCHANGED <<stored, reply, token, faults, history>>
    PROVE  ValuesInv'
  <1> USE DEF stored, config, history
  <1>1. TypeOK'
    BY DEF ValuesInv, TypeOK, Stages
  <1>2. pc'[w] = "mutex" /\ call'[w] = c
    BY DEF ValuesInv, TypeOK
  <1>3. Alone(w) /\ WorksAtMost(w)
    BY DEF ValuesInv, TypeOK, Alone, WorksAtMost
  <1>4. CallFits(w) /\ pc[w] # "unlock" /\ w \notin blind
    BY DEF ValuesInv, CallsFit, CallFits, InCall, Working
  <1>5. CallFits(w)'
    BY <1>2, <1>4 DEF CallFits, InCall, Working, StageFits, Where
  <1>6. DecisionStands(w)'
    BY <1>2 DEF DecisionStands
  <1>7. OnDisk'
    BY OnDiskKept DEF ValuesInv
  <1> QED
    BY <1>1, <1>3, <1>5, <1>6, <1>7, OwnCallSuffices

\* Every caller asks for what fits its key.
LEMMA BeginValues ==
    ASSUME ValuesInv, Plenty, NEW w \in Workers, Begin(w)
    PROVE  ValuesInv'
  <1>1. LockInv'
    BY BeginStep DEF ValuesInv
  <1> DEFINE C(op, k, old, new) ==
        [op |-> op, at |-> Where(w, k), old |-> old, new |-> new]
  <1>2. ASSUME NEW k \in Keys, NEW op \in Ops, NEW old \in Maybe, NEW new \in Maybe,
               NEW from \in {"idle", "body", "loaded", "consumed"},
               Ask(w, from, op, k, old, new),
               Asks(C(op, k, old, new))
        PROVE  ValuesInv'
    <2>1. Where(w, k) \in Locations /\ Where(w, k)[2] = k
      BY SharedStateAssumption DEF Where, Locations
    <2>2. C(op, k, old, new) \in Calls
      BY <2>1 DEF Calls
    <2>3. ~InCall(w)
      BY <1>2 DEF Ask, InCall, Working
    <2>4. C(op, k, old, new).at = Where(w, C(op, k, old, new).at[2])
      BY <2>1
    <2> QED
      BY <1>1, <1>2, <2>2, <2>3, <2>4, AskValues DEF Ask
  <1>3. \A k \in Keys : Fresh(k) \in Values /\ Fresh(k) \in Maybe
    BY FreshIsUnused DEF Maybe
  <1>4. ASSUME NEW k \in Keys
        PROVE  /\ Where(w, k)[2] = k
               /\ k \in Leases => k \notin Clicks /\ k \notin Events /\ k \notin Records
               /\ k \in Clicks => k \notin Events /\ k \notin Records
               /\ k \in Events => k \notin Records
    BY SharedStateAssumption DEF Where, Claims
  <1>5. Nil \in Maybe /\ 1 \in Maybe /\ 1 \in Values
    BY SharedStateAssumption DEF Maybe
  <1>6. token[w] \in Maybe /\ (pc[w] \in {"body", "loaded"} => token[w] \in Values)
    BY DEF ValuesInv, TypeOK, CallsFit, CallFits
  <1>7. Leases \subseteq Keys /\ Clicks \subseteq Keys /\ Events \subseteq Keys
        /\ Records \subseteq Keys
    BY DEF Keys, Claims
  <1>a. CASE Reconcile(w)
    <2>1. PICK k \in Leases \cap inUse : Ask(w, "idle", "acquire", k, Nil, Fresh(k))
      BY <1>a DEF Reconcile
    <2>2. Asks(C("acquire", k, Nil, Fresh(k)))
      BY <1>3, <1>4, <1>7 DEF Asks
    <2> QED
      BY <1>2, <1>3, <1>5, <1>7, <2>1, <2>2 DEF Ops
  <1>b. CASE EndPass(w)
    <2>1. PICK k \in Leases \cap inUse : Ask(w, "body", "release", k, Nil, token[w])
      BY <1>b DEF EndPass
    <2>2. Asks(C("release", k, Nil, token[w]))
      BY <1>4, <1>6, <1>7, <2>1 DEF Asks, Ask
    <2> QED
      BY <1>2, <1>5, <1>6, <1>7, <2>1, <2>2 DEF Ops
  <1>c. CASE Click(w)
    <2>1. PICK k \in Clicks \cap inUse : Ask(w, "idle", "acquire", k, Nil, Fresh(k))
      BY <1>c DEF Click
    <2>2. Asks(C("acquire", k, Nil, Fresh(k)))
      BY <1>3, <1>4, <1>7 DEF Asks
    <2> QED
      BY <1>2, <1>3, <1>5, <1>7, <2>1, <2>2 DEF Ops
  <1>d. CASE Handle(w)
    <2>1. PICK k \in Events \cap inUse : Ask(w, "idle", "cas", k, Nil, 1)
      BY <1>d DEF Handle
    <2>2. Asks(C("cas", k, Nil, 1))
      BY <1>4, <1>5, <1>7 DEF Asks
    <2> QED
      BY <1>2, <1>5, <1>7, <2>1, <2>2 DEF Ops
  <1>e. CASE SaveRecord(w)
    <2>1. PICK k \in Records \cap inUse : Ask(w, "idle", "set", k, Nil, Fresh(k))
      BY <1>e DEF SaveRecord
    <2>2. Asks(C("set", k, Nil, Fresh(k)))
      BY <1>3, <1>4, <1>7 DEF Asks
    <2> QED
      BY <1>2, <1>3, <1>5, <1>7, <2>1, <2>2 DEF Ops
  <1>f. CASE LoadRecord(w)
    <2>1. PICK k \in Records \cap inUse : Ask(w, "idle", "get", k, Nil, Nil)
      BY <1>f DEF LoadRecord
    <2>2. Asks(C("get", k, Nil, Nil))
      BY <1>4, <1>7 DEF Asks
    <2> QED
      BY <1>2, <1>5, <1>7, <2>1, <2>2 DEF Ops
  <1>g. CASE ClearRecord(w)
    <2>1. PICK k \in Records \cap inUse, from \in {"idle", "consumed"} :
             Ask(w, from, "delete", k, Nil, Nil)
      BY <1>g DEF ClearRecord
    <2>2. Asks(C("delete", k, Nil, Nil))
      BY <1>4, <1>7 DEF Asks
    <2> QED
      BY <1>2, <1>5, <1>7, <2>1, <2>2 DEF Ops
  <1>h. CASE ConsumeRecord(w)
    <2>1. PICK k \in Records \cap inUse : Ask(w, "loaded", "cas", k, token[w], Nil)
      BY <1>h DEF ConsumeRecord
    <2>2. Asks(C("cas", k, token[w], Nil))
      BY <1>4, <1>6, <1>7, <2>1 DEF Asks, Ask
    <2> QED
      BY <1>2, <1>5, <1>6, <1>7, <2>1, <2>2 DEF Ops
  <1> QED
    BY <1>a, <1>b, <1>c, <1>d, <1>e, <1>f, <1>g, <1>h DEF Begin

-----------------------------------------------------------------------------
(* Calls go on.                                                            *)

\* The facts about the call of a worker that is in one.
LEMMA CallOf ==
    ASSUME ValuesInv, NEW w \in Workers, InCall(w)
    PROVE  /\ call[w] \in Calls /\ Asks(call[w]) /\ StageFits(w)
           /\ call[w].at \in Locations /\ call[w].at[2] \in Keys
           /\ call[w].op \in Ops /\ call[w].new \in Maybe /\ call[w].old \in Maybe
           /\ call[w].at = Where(w, call[w].at[2])
           /\ DecisionStands(w) /\ CallFits(w)
  BY KeyOfLocation DEF ValuesInv, CallsFit, CallFits, Calls

\* The locks are taken.
LEMMA EnterValues ==
    ASSUME ValuesInv, NEW w \in Workers, Enter(w)
    PROVE  ValuesInv'
  <1> DEFINE stage == IF backend = "file" THEN "flock" ELSE "read"
  <1>1. /\ pc[w] = "mutex" /\ pc' = [pc EXCEPT ![w] = stage] /\ pc'[w] = stage
        /\ UNCHANGED <<backend, inUse, entry, tmp, flock, call, reply, token, faults,
                       late, blind, misread, overdue, acted>>
    BY DEF Enter, Goto, config, history, ValuesInv, TypeOK
  <1>2. stage \in {"flock", "read"} /\ (stage = "flock" <=> backend = "file")
    OBVIOUS
  <1> HIDE DEF stage
  <1>3. CallFits(w) /\ InCall(w)
    BY <1>1 DEF ValuesInv, CallsFit, InCall
  <1>4. LockInv'
    BY EnterStep DEF ValuesInv
  <1>5. TypeOK'
    <2>1. mutex' \in [Processes -> Workers \cup {Nobody}]
      BY <1>4 DEF LockInv, LockTypes
    <2> QED
      BY <1>1, <1>2, <2>1 DEF ValuesInv, TypeOK, Stages
  <1>6. Alone(w) /\ WorksAtMost(w)
    BY <1>1 DEF ValuesInv, TypeOK, Alone, WorksAtMost
  <1>7. CallFits(w)'
    BY <1>1, <1>2, <1>3 DEF CallFits, InCall, Working, StageFits, Where
  <1>8. DecisionStands(w)'
    BY <1>1, <1>2 DEF DecisionStands
  <1>9. OnDisk'
    BY <1>1, OnDiskKept DEF ValuesInv
  <1> QED
    BY <1>4, <1>5, <1>6, <1>7, <1>8, <1>9, OwnCallSuffices

\* The file lock is taken, and the function that runs under it begins.
LEMMA LockValues ==
    ASSUME ValuesInv, NEW w \in Workers, Lock(w)
    PROVE  ValuesInv'
  <1>1. /\ pc[w] = "flock" /\ pc' = [pc EXCEPT ![w] = First(call[w].op)]
        /\ pc'[w] = First(call[w].op)
        /\ UNCHANGED <<backend, inUse, entry, tmp, mutex, call, reply, token, faults,
                       late, blind, misread, overdue, acted>>
    BY DEF Lock, Goto, config, history, ValuesInv, TypeOK
  <1>2. InCall(w) /\ backend = "file"
    BY <1>1 DEF ValuesInv, InCall, LockInv, LockTypes
  <1>3. CallFits(w) /\ call[w].op \in Ops
    BY <1>2, CallOf
  <1>4. LockInv'
    BY LockStep DEF ValuesInv
  <1>a. \/ call[w].op = "set" /\ First(call[w].op) = "write"
        \/ call[w].op = "delete" /\ First(call[w].op) = "unlink"
        \/ call[w].op \notin {"set", "delete"} /\ First(call[w].op) = "read"
    BY DEF First
  <1>5. TypeOK'
    <2>1. flock' \in [Keys -> Workers \cup {Nobody}]
      BY <1>4 DEF LockInv, LockTypes
    <2> QED
      BY <1>1, <1>a, <2>1 DEF ValuesInv, TypeOK, Stages
  <1>6. Alone(w) /\ WorksAtMost(w)
    BY <1>1 DEF ValuesInv, TypeOK, Alone, WorksAtMost
  <1>7. CallFits(w)'
    BY <1>1, <1>2, <1>3, <1>a DEF CallFits, InCall, Working, StageFits, Where
  <1>8. DecisionStands(w)'
    <2>1. CASE First(call[w].op) = "read"
      BY <1>1, <2>1 DEF DecisionStands
    <2>2. CASE call[w].op \in {"set", "delete"}
      BY <1>1, <2>2 DEF DecisionStands, Accepts
    <2> QED
      BY <1>a, <2>1, <2>2
  <1>9. OnDisk'
    BY <1>1, OnDiskKept DEF ValuesInv
  <1> QED
    BY <1>4, <1>5, <1>6, <1>7, <1>8, <1>9, OwnCallSuffices

\* What a worker does once it has read v.
LEMMA DecideEffect ==
    ASSUME ValuesInv, NEW w \in Workers, pc[w] = "read", backend = "file",
           NEW v \in Maybe, Decide(w, v)
    PROVE  /\ pc' \in [Workers -> Stages] /\ reply' \in [Workers -> Replies]
           /\ \A u \in Workers \ {w} : pc'[u] = pc[u] /\ reply'[u] = reply[u]
           /\ \/ /\ pc'[w] = "unlock" /\ reply'[w] # Pending
                 /\ call[w].op = "get" /\ reply'[w] = Reply("ok", v)
              \/ /\ pc'[w] = "unlock" /\ reply'[w] # Pending
                 /\ call[w].op # "get" /\ ~Accepts(call[w], v)
                 /\ reply'[w] = Reply("no", Nil)
              \/ /\ pc'[w] = "write" /\ reply'[w] = Pending /\ reply' = reply
                 /\ call[w].op \in {"cas", "acquire"} /\ Accepts(call[w], v)
              \/ /\ pc'[w] = "unlink" /\ reply'[w] = Pending /\ reply' = reply
                 /\ call[w].op = "release" /\ Accepts(call[w], v)
  <1>1. /\ call[w].op \in Ops \ {"set", "delete"} /\ reply[w] = Pending
        /\ reply \in [Workers -> Replies] /\ pc \in [Workers -> Stages]
    BY CallOf DEF ValuesInv, TypeOK, CallFits, StageFits, InCall, Working
  <1>2. /\ Reply("ok", v) \in Replies /\ Reply("no", Nil) \in Replies
        /\ Reply("ok", v) # Pending /\ Reply("no", Nil) # Pending
    BY DEF Reply, Replies, Pending, Maybe
  <1>3. CASE call[w].op = "get"
    <2>1. /\ reply' = [reply EXCEPT ![w] = Reply("ok", v)]
          /\ pc' = [pc EXCEPT ![w] = "unlock"]
      BY <1>3 DEF Decide, Answer, Goto, Accepts
    <2> QED
      BY <1>1, <1>2, <1>3, <2>1 DEF Stages
  <1>4. CASE call[w].op # "get" /\ ~Accepts(call[w], v)
    <2>1. /\ reply' = [reply EXCEPT ![w] = Reply("no", Nil)]
          /\ pc' = [pc EXCEPT ![w] = "unlock"]
      BY <1>4 DEF Decide, Answer, Goto
    <2> QED
      BY <1>1, <1>2, <1>4, <2>1 DEF Stages
  <1>5. CASE call[w].op # "get" /\ Accepts(call[w], v)
    <2>1. reply' = reply
      BY <1>5 DEF Decide, Answer, Goto
    <2>2. CASE call[w].op = "release"
      <3>1. pc' = [pc EXCEPT ![w] = "unlink"]
        BY <1>5, <2>2 DEF Decide, Answer, Goto
      <3> QED
        BY <1>1, <1>5, <2>1, <2>2, <3>1 DEF Stages
    <2>3. CASE call[w].op # "release"
      <3>1. pc' = [pc EXCEPT ![w] = "write"]
        BY <1>5, <2>3 DEF Decide, Answer, Goto
      <3> QED
        BY <1>1, <1>5, <2>1, <2>3, <3>1 DEF Stages, Ops
    <2> QED
      BY <2>2, <2>3
  <1> QED
    BY <1>3, <1>4, <1>5

\* Values stay values.
LEMMA FoundType ==
    ASSUME TypeOK, NEW l \in Locations
    PROVE  Found(entry[l]) \in Maybe /\ entry[l] \in Entries
  BY DEF TypeOK, Found, Entries, Maybe

\* The file is read.
LEMMA ReadValues ==
    ASSUME ValuesInv, NEW w \in Workers, Read(w)
    PROVE  ValuesInv'
  <1>1. /\ pc[w] = "read" /\ backend = "file" /\ InCall(w) /\ Working(w)
        /\ UNCHANGED <<backend, inUse, tmp, flock, mutex, call, token, faults,
                       late, blind, misread, overdue, acted>>
    BY DEF Read, config, history, InCall, Working
  <1>2. /\ CallFits(w) /\ call[w].at \in Locations
        /\ Found(entry[call[w].at]) \in Maybe
    BY <1>1, CallOf, FoundType DEF ValuesInv
  <1>3. LockInv'
    BY WorkingStep DEF ValuesInv
  <1>4. /\ entry' \in [Locations -> Entries]
        /\ Found(entry'[call[w].at]) = Found(entry[call[w].at])
        /\ \A l \in Locations : l # call[w].at => entry'[l] = entry[l]
        /\ \A l \in Locations : entry[l] = Absent => entry'[l] = Absent
    <2>1. Absent \in Entries /\ Found(Absent) = Nil
      BY DEF Absent, Entry, Entries, Found, Maybe
    <2>2. entry \in [Locations -> Entries]
      BY DEF ValuesInv, TypeOK
    <2>3. CASE entry[call[w].at].state = "lapsed"
      <3>1. entry' = [entry EXCEPT ![call[w].at] = Absent]
        BY <2>3 DEF Read
      <3>2. Found(entry[call[w].at]) = Nil
        BY <2>3 DEF Found
      <3> QED
        BY <1>2, <2>1, <2>2, <3>1, <3>2
    <2>4. CASE entry[call[w].at].state # "lapsed"
      BY <2>2, <2>4 DEF Read
    <2> QED
      BY <2>3, <2>4
  <1>5. Decide(w, Found(entry[call[w].at]))
    BY DEF Read
  <1>6. TypeOK'
    BY <1>1, <1>2, <1>4, <1>5, DecideEffect DEF ValuesInv, TypeOK
  <1>7. Alone(w) /\ WorksAtMost(w)
    BY <1>1, <1>2, <1>4, <1>5, DecideEffect DEF Alone, WorksAtMost
  <1>8. CallFits(w)'
    BY <1>1, <1>2, <1>5, DecideEffect DEF CallFits, InCall, Working, StageFits, Where
  <1>9. DecisionStands(w)'
    BY <1>1, <1>2, <1>4, <1>5, DecideEffect DEF DecisionStands, Accepts
  <1>a. OnDisk'
    BY <1>1, <1>4 DEF ValuesInv, OnDisk
  <1> QED
    BY <1>3, <1>6, <1>7, <1>8, <1>9, <1>a, OwnCallSuffices

\* The file cannot be read.
LEMMA ReadFailsValues ==
    ASSUME ValuesInv, NEW w \in Workers, ReadFails(w)
    PROVE  ValuesInv'
  <1>1. /\ pc[w] = "read" /\ backend = "file" /\ InCall(w) /\ Working(w)
        /\ faults < MaxFaults /\ faults' = faults + 1
        /\ blind' = blind \cup {w} /\ misread' = misread \cup {call[w].at}
        /\ UNCHANGED <<backend, inUse, entry, tmp, flock, mutex, call, token,
                       late, overdue, acted>>
    BY DEF ReadFails, stored, config, InCall, Working
  <1>2. CallFits(w) /\ call[w].at \in Locations /\ Nil \in Maybe
    BY <1>1, CallOf DEF Maybe
  <1>3. LockInv'
    BY WorkingStep DEF ValuesInv
  <1>5. Decide(w, Nil)
    BY DEF ReadFails
  <1>6. TypeOK'
    <2>1. faults' \in 0..MaxFaults
      BY <1>1, SharedStateAssumption DEF ValuesInv, TypeOK
    <2> QED
      BY <1>1, <1>2, <1>5, <2>1, DecideEffect DEF ValuesInv, TypeOK
  <1>7. Alone(w) /\ WorksAtMost(w)
    BY <1>1, <1>2, <1>5, DecideEffect DEF Alone, WorksAtMost
  <1>8. CallFits(w)'
    BY <1>1, <1>2, <1>5, DecideEffect DEF CallFits, InCall, Working, StageFits, Where
  <1>9. DecisionStands(w)'
    BY <1>1, <1>2, <1>5, DecideEffect DEF DecisionStands, Accepts
  <1>a. OnDisk'
    BY <1>1, OnDiskKept DEF ValuesInv
  <1> QED
    BY <1>3, <1>6, <1>7, <1>8, <1>9, <1>a, OwnCallSuffices

\* The new contents are written beside the file.
LEMMA WriteValues ==
    ASSUME ValuesInv, NEW w \in Workers, Write(w)
    PROVE  ValuesInv'
  <1>1. /\ pc[w] = "write" /\ pc' = [pc EXCEPT ![w] = "replace"]
        /\ pc'[w] = "replace" /\ InCall(w) /\ Working(w)
        /\ tmp' = [tmp EXCEPT ![call[w].at[2]] = Entry("live", call[w].new)]
        /\ UNCHANGED <<backend, inUse, entry, flock, mutex, call, reply, token,
                       faults, late, blind, misread, overdue, acted>>
    BY DEF Write, Goto, config, history, InCall, Working, ValuesInv, TypeOK
  <1>2. /\ CallFits(w) /\ call[w].at[2] \in Keys /\ call[w].new \in Maybe
        /\ DecisionStands(w)
    BY <1>1, CallOf
  <1>3. LockInv'
    BY WorkingStep DEF ValuesInv
  <1>4. Entry("live", call[w].new) \in Entries
    BY <1>2 DEF Entry, Entries
  <1>5. TypeOK'
    BY <1>1, <1>2, <1>4 DEF ValuesInv, TypeOK, Stages
  <1>6. Alone(w) /\ WorksAtMost(w)
    BY <1>1, <1>2 DEF ValuesInv, TypeOK, Alone, WorksAtMost
  <1>7. CallFits(w)'
    <2>1. tmp'[call[w].at[2]] = Entry("live", call[w].new)
      BY <1>1, <1>2 DEF ValuesInv, TypeOK
    <2> QED
      BY <1>1, <1>2, <2>1 DEF CallFits, InCall, Working, StageFits, Where
  <1>8. DecisionStands(w)'
    BY <1>1, <1>2 DEF DecisionStands, Accepts, Found
  <1>9. OnDisk'
    BY <1>1, OnDiskKept DEF ValuesInv
  <1> QED
    BY <1>3, <1>5, <1>6, <1>7, <1>8, <1>9, OwnCallSuffices

\* A call that is through keeps its locks and has its outcome.
LEMMA ThroughValues ==
    ASSUME ValuesInv, NEW w \in Workers, Working(w), LockInv',
           pc' = [pc EXCEPT ![w] = "unlock"],
           NEW r \in Replies, r # Pending, reply' = [reply EXCEPT ![w] = r],
           UNCHANGED <<backend, inUse, call, token, late, blind, misread, overdue>>,
           mutex' \in [Processes -> Workers \cup {Nobody}],
           flock' \in [Keys -> Workers \cup {Nobody}],
           entry' \in [Locations -> Entries], tmp' \in [Keys -> Entries],
           faults' \in 0..MaxFaults, acted' \in [Locations -> 0..2],
           \A l \in Locations : l # call[w].at => entry'[l] = entry[l],
           \A k \in Keys : k # call[w].at[2] => tmp'[k] = tmp[k],
           backend = "file" => call[w].at[1] = Disk
    PROVE  ValuesInv'
  <1>1. pc'[w] = "unlock" /\ reply'[w] = r /\ InCall(w)
    BY DEF InCall, ValuesInv, TypeOK
  <1>2. CallFits(w)
    BY <1>1, CallOf
  <1>3. TypeOK'
    BY DEF ValuesInv, TypeOK, Stages
  <1>4. Alone(w) /\ WorksAtMost(w)
    BY DEF ValuesInv, TypeOK, Alone, WorksAtMost
  <1>5. CallFits(w)'
    BY <1>1, <1>2 DEF CallFits, InCall, Working, StageFits, Where
  <1>6. DecisionStands(w)'
    BY <1>1 DEF DecisionStands
  <1>7. OnDisk'
    BY DEF ValuesInv, OnDisk
  <1> QED
    BY <1>3, <1>4, <1>5, <1>6, <1>7, OwnCallSuffices

\* The outcomes a call can have.
LEMMA Outcomes ==
    /\ \A v \in Maybe : Reply("ok", v) \in Replies /\ Reply("ok", v) # Pending
    /\ Reply("ok", Nil) \in Replies /\ Reply("ok", Nil) # Pending
    /\ Reply("no", Nil) \in Replies /\ Reply("no", Nil) # Pending
    /\ Reply("error", Nil) \in Replies /\ Reply("error", Nil) # Pending
  BY DEF Reply, Replies, Pending, Maybe

\* With the file backend a call goes to the disk.
LEMMA GoesToDisk ==
    ASSUME ValuesInv, NEW w \in Workers, InCall(w), backend = "file"
    PROVE  call[w].at[1] = Disk
  BY CallOf DEF Where

\* The count stays in its range.
LEMMA CountType ==
    ASSUME TypeOK, NEW c, c.at \in Locations
    PROVE  Counted(c) \in 0..2
  <1>1. acted[c.at] \in 0..2
    BY DEF TypeOK
  <1>2. CASE acted[c.at] < 2
    BY <1>1, <1>2 DEF Counted
  <1>3. CASE ~(acted[c.at] < 2)
    BY <1>1, <1>3 DEF Counted
  <1> QED
    BY <1>2, <1>3

\* The new file takes the place of the old one.
LEMMA ReplaceValues ==
    ASSUME ValuesInv, NEW w \in Workers, Replace(w)
    PROVE  ValuesInv'
  <1>1. /\ pc[w] = "replace" /\ pc' = [pc EXCEPT ![w] = "unlock"]
        /\ reply' = [reply EXCEPT ![w] = Reply("ok", Nil)]
        /\ InCall(w) /\ Working(w)
        /\ tmp' = [tmp EXCEPT ![call[w].at[2]] = Absent]
        /\ entry' = [entry EXCEPT ![call[w].at] = tmp[call[w].at[2]]]
        /\ acted' = [acted EXCEPT ![call[w].at] = Counted(call[w])]
        /\ UNCHANGED <<backend, inUse, flock, mutex, call, token,
                       faults, late, blind, misread, overdue>>
    BY DEF Replace, Answer, Written, Goto, config, InCall, Working
  <1>2. call[w].at[2] \in Keys /\ call[w].at \in Locations
    BY <1>1, CallOf
  <1>3. LockInv'
    BY WorkingStep DEF ValuesInv
  <1>4. Absent \in Entries
    BY DEF Absent, Entry, Entries, Maybe
  <1>5. /\ entry' \in [Locations -> Entries] /\ tmp' \in [Keys -> Entries]
        /\ acted' \in [Locations -> 0..2]
        /\ mutex' \in [Processes -> Workers \cup {Nobody}]
        /\ flock' \in [Keys -> Workers \cup {Nobody}] /\ faults' \in 0..MaxFaults
    BY <1>1, <1>2, <1>4, CountType DEF ValuesInv, TypeOK
  <1>6. /\ \A l \in Locations : l # call[w].at => entry'[l] = entry[l]
        /\ \A k \in Keys : k # call[w].at[2] => tmp'[k] = tmp[k]
    BY <1>1 DEF ValuesInv, TypeOK
  <1> QED
    BY <1>1, <1>3, <1>5, <1>6, Outcomes, GoesToDisk, ThroughValues

\* The file is removed.
LEMMA UnlinkValues ==
    ASSUME ValuesInv, NEW w \in Workers, Unlink(w)
    PROVE  ValuesInv'
  <1>1. /\ pc[w] = "unlink" /\ pc' = [pc EXCEPT ![w] = "unlock"]
        /\ reply' = [reply EXCEPT ![w] = Reply("ok", Nil)]
        /\ InCall(w) /\ Working(w)
        /\ entry' = [entry EXCEPT ![call[w].at] = Absent]
        /\ UNCHANGED <<backend, inUse, tmp, flock, mutex, call, token,
                       faults, late, blind, misread, overdue, acted>>
    BY DEF Unlink, Answer, Goto, config, history, InCall, Working
  <1>3. LockInv'
    BY WorkingStep DEF ValuesInv
  <1>4. Absent \in Entries
    BY DEF Absent, Entry, Entries, Maybe
  <1>5. /\ entry' \in [Locations -> Entries] /\ tmp' \in [Keys -> Entries]
        /\ acted' \in [Locations -> 0..2]
        /\ mutex' \in [Processes -> Workers \cup {Nobody}]
        /\ flock' \in [Keys -> Workers \cup {Nobody}] /\ faults' \in 0..MaxFaults
    BY <1>1, <1>4 DEF ValuesInv, TypeOK
  <1>6. /\ \A l \in Locations : l # call[w].at => entry'[l] = entry[l]
        /\ \A k \in Keys : k # call[w].at[2] => tmp'[k] = tmp[k]
    BY <1>1 DEF ValuesInv, TypeOK
  <1> QED
    BY <1>1, <1>3, <1>5, <1>6, Outcomes, GoesToDisk, ThroughValues

\* A write, a rename or an unlink raises.
LEMMA WriteFailsValues ==
    ASSUME ValuesInv, NEW w \in Workers, WriteFails(w)
    PROVE  ValuesInv'
  <1>1. /\ pc[w] \in {"write", "replace", "unlink"}
        /\ pc' = [pc EXCEPT ![w] = "unlock"]
        /\ reply' = [reply EXCEPT ![w] = Reply("error", Nil)]
        /\ InCall(w) /\ Working(w) /\ faults < MaxFaults /\ faults' = faults + 1
        /\ UNCHANGED <<backend, inUse, entry, tmp, flock, mutex, call, token,
                       late, blind, misread, overdue, acted>>
    BY DEF WriteFails, Answer, Goto, stored, config, history, InCall, Working
  <1>3. LockInv'
    BY WorkingStep DEF ValuesInv
  <1>4. faults' \in 0..MaxFaults
    BY <1>1, SharedStateAssumption DEF ValuesInv, TypeOK
  <1>5. /\ entry' \in [Locations -> Entries] /\ tmp' \in [Keys -> Entries]
        /\ acted' \in [Locations -> 0..2]
        /\ mutex' \in [Processes -> Workers \cup {Nobody}]
        /\ flock' \in [Keys -> Workers \cup {Nobody}]
    BY <1>1 DEF ValuesInv, TypeOK
  <1> QED
    BY <1>1, <1>3, <1>4, <1>5, Outcomes, GoesToDisk, ThroughValues

\* The memory backend does all of it at once.
LEMMA RememberValues ==
    ASSUME ValuesInv, NEW w \in Workers, Remember(w)
    PROVE  ValuesInv'
  <1> DEFINE c == call[w]
             v == Found(entry[c.at])
             r == Reply(IF Accepts(c, v) THEN "ok" ELSE "no",
                        IF c.op = "get" THEN v ELSE Nil)
             e == IF c.op \in {"delete", "release"} THEN Absent ELSE Entry("live", c.new)
  <1>1. /\ pc[w] = "read" /\ backend = "memory" /\ pc' = [pc EXCEPT ![w] = "unlock"]
        /\ reply' = [reply EXCEPT ![w] = r]
        /\ InCall(w) /\ Working(w)
        /\ UNCHANGED <<backend, inUse, tmp, flock, mutex, call, token,
                       faults, late, blind, misread, overdue>>
    BY DEF Remember, Answer, Goto, config, InCall, Working
  <1>2. \/ UNCHANGED <<entry, acted>>
        \/ /\ entry' = [entry EXCEPT ![c.at] = e]
           /\ acted' = [acted EXCEPT ![c.at] = Counted(c)]
    BY DEF Remember, Written
  <1>3. c.at \in Locations /\ v \in Maybe /\ c.new \in Maybe
    BY <1>1, CallOf, FoundType DEF ValuesInv
  <1>4. r \in Replies /\ r # Pending
    BY <1>3 DEF Reply, Replies, Pending, Maybe
  <1>5. LockInv'
    BY WorkingStep DEF ValuesInv
  <1>6. e \in Entries
    BY <1>3 DEF Absent, Entry, Entries, Maybe
  <1> HIDE DEF r, e
  <1>7. Counted(c) \in 0..2
    BY <1>3, CountType DEF ValuesInv
  <1>8. /\ entry' \in [Locations -> Entries] /\ tmp' \in [Keys -> Entries]
        /\ acted' \in [Locations -> 0..2]
        /\ mutex' \in [Processes -> Workers \cup {Nobody}]
        /\ flock' \in [Keys -> Workers \cup {Nobody}] /\ faults' \in 0..MaxFaults
    BY <1>1, <1>2, <1>3, <1>6, <1>7 DEF ValuesInv, TypeOK
  <1>9. /\ \A l \in Locations : l # call[w].at => entry'[l] = entry[l]
        /\ \A k \in Keys : k # call[w].at[2] => tmp'[k] = tmp[k]
    BY <1>1, <1>2 DEF ValuesInv, TypeOK
  <1> QED
    BY <1>1, <1>4, <1>5, <1>8, <1>9, ThroughValues

\* The call returns and its worker goes on.
LEMMA ReturnEffect ==
    ASSUME ValuesInv, NEW w \in Workers, Return(w)
    PROVE  /\ pc[w] = "unlock" /\ InCall(w) /\ Working(w)
           /\ UNCHANGED <<backend, inUse, entry, tmp, faults, misread, acted>>
           /\ call' = [call EXCEPT ![w] = NoCall]
           /\ reply' = [reply EXCEPT ![w] = Pending]
           /\ late' = [late EXCEPT ![w] = Nil] /\ blind' = blind \ {w}
           /\ \E next \in {"body", "loaded", "consumed", "idle"} :
                /\ pc' = [pc EXCEPT ![w] = next]
                /\ next = "body" =>
                     /\ token' = [token EXCEPT ![w] = call[w].new]
                     /\ call[w].at[2] \in Leases /\ call[w].op = "acquire"
                     /\ reply[w].kind # "no"
                     /\ overdue' = IF reply[w].kind = "error" THEN overdue \cup {w}
                                   ELSE overdue
                /\ next = "loaded" =>
                     /\ token' = [token EXCEPT ![w] = reply[w].value]
                     /\ reply[w].value # Nil
                /\ next \notin {"body", "loaded"} => token' = [token EXCEPT ![w] = Nil]
                /\ next \notin {"body", "idle"} => overdue' = overdue
                /\ next = "idle" => overdue' = overdue \ {w}
  <1>1. PICK next \in After(call[w], reply[w]) :
           /\ Goto(w, next)
           /\ token' = [token EXCEPT ![w] = CASE next = "body" -> call[w].new
                                              [] next = "loaded" -> reply[w].value
                                              [] OTHER -> Nil]
           /\ overdue' = CASE next = "body" /\ reply[w].kind = "error" -> overdue \cup {w}
                           [] next = "idle" -> overdue \ {w}
                           [] OTHER -> overdue
    BY DEF Return
  <1>2. next \in {"body", "loaded", "consumed", "idle"}
    BY <1>1, AfterStages
  <1>3. /\ next = "body" => /\ call[w].at[2] \in Leases /\ call[w].op = "acquire"
                            /\ reply[w].kind # "no"
        /\ next = "loaded" => reply[w].value # Nil
    BY <1>1 DEF After
  <1>4. /\ pc[w] = "unlock" /\ InCall(w) /\ Working(w)
        /\ UNCHANGED <<backend, inUse, entry, tmp, faults, misread, acted>>
        /\ call' = [call EXCEPT ![w] = NoCall]
        /\ reply' = [reply EXCEPT ![w] = Pending]
        /\ late' = [late EXCEPT ![w] = Nil] /\ blind' = blind \ {w}
    BY DEF Return, config, InCall, Working
  <1>5. /\ pc' = [pc EXCEPT ![w] = next]
        /\ next = "body" => token' = [token EXCEPT ![w] = call[w].new]
        /\ next = "loaded" => token' = [token EXCEPT ![w] = reply[w].value]
        /\ next \notin {"body", "loaded"} => token' = [token EXCEPT ![w] = Nil]
    BY <1>1 DEF Goto
  <1>6. /\ next = "body" => overdue' = IF reply[w].kind = "error" THEN overdue \cup {w}
                                       ELSE overdue
        /\ next \notin {"body", "idle"} => overdue' = overdue
        /\ next = "idle" => overdue' = overdue \ {w}
    BY <1>1
  <1> QED
    BY <1>2, <1>3, <1>4, <1>5, <1>6

\* The outcome, if it is kept, is a value.
LEMMA ReturnValues ==
    ASSUME ValuesInv, NEW w \in Workers, Return(w)
    PROVE  ValuesInv'
  <1>1. /\ pc[w] = "unlock" /\ InCall(w) /\ Working(w)
        /\ UNCHANGED <<backend, inUse, entry, tmp, faults, misread, acted>>
        /\ call' = [call EXCEPT ![w] = NoCall]
        /\ reply' = [reply EXCEPT ![w] = Pending]
        /\ late' = [late EXCEPT ![w] = Nil] /\ blind' = blind \ {w}
    BY ReturnEffect
  <1>2. PICK next \in {"body", "loaded", "consumed", "idle"} :
           /\ pc' = [pc EXCEPT ![w] = next]
           /\ next = "body" =>
                /\ token' = [token EXCEPT ![w] = call[w].new]
                /\ call[w].at[2] \in Leases
           /\ next = "loaded" => /\ token' = [token EXCEPT ![w] = reply[w].value]
                                 /\ reply[w].value # Nil
           /\ next \notin {"body", "loaded"} => token' = [token EXCEPT ![w] = Nil]
    BY ReturnEffect
  <1>3. /\ overdue' \subseteq Workers
        /\ \A u \in Workers \ {w} : u \in overdue' <=> u \in overdue
    BY ReturnEffect DEF ValuesInv, TypeOK
  <1>4. reply[w] \in Replies /\ reply[w].value \in Maybe /\ Pending \in Replies
    BY DEF ValuesInv, TypeOK, Replies, Pending, Reply, Maybe
  <1>5. CallFits(w) /\ call[w].new \in Maybe /\ Asks(call[w])
    BY <1>1, CallOf
  <1>6. LockInv'
    BY ReturnStep DEF ValuesInv
  <1>7. \E v \in Maybe : /\ token' = [token EXCEPT ![w] = v]
                         /\ next \in {"body", "loaded"} => v \in Values
    BY <1>2, <1>4, <1>5 DEF Asks, Maybe
  <1>8. TypeOK'
    <2>1. mutex' \in [Processes -> Workers \cup {Nobody}]
          /\ flock' \in [Keys -> Workers \cup {Nobody}]
      BY <1>6 DEF LockInv, LockTypes
    <2>2. next \in Stages /\ Nil \in Maybe
      BY <1>2 DEF Stages, Maybe
    <2> QED
      BY <1>1, <1>2, <1>3, <1>4, <1>7, <2>1, <2>2 DEF ValuesInv, TypeOK
  <1>9. Alone(w) /\ WorksAtMost(w)
    BY <1>1, <1>2, <1>3, <1>7 DEF ValuesInv, TypeOK, Alone, WorksAtMost
  <1>a. CallFits(w)'
    <2>1. /\ pc'[w] = next /\ call'[w] = NoCall /\ reply'[w] = Pending
          /\ w \notin blind' /\ (next \in {"body", "loaded"} => token'[w] \in Values)
      BY <1>1, <1>2, <1>7 DEF ValuesInv, TypeOK
    <2> QED
      BY <1>2, <2>1 DEF CallFits, InCall, Working
  <1>b. DecisionStands(w)'
    BY <1>2 DEF ValuesInv, TypeOK, DecisionStands
  <1>c. OnDisk'
    BY <1>1, OnDiskKept DEF ValuesInv
  <1> QED
    BY <1>6, <1>8, <1>9, <1>a, <1>b, <1>c, OwnCallSuffices

-----------------------------------------------------------------------------
(* The world.                                                              *)

\* A call under way is not "no call".
LEMMA RealCall ==
    ASSUME NEW c \in Calls
    PROVE  c # NoCall
  BY DEF Calls, NoCall, Ops

\* An entry lapses under whatever calls are under way.
LEMMA LapseValues ==
    ASSUME ValuesInv, NEW l \in Locations, Lapse(l)
    PROVE  ValuesInv'
  <1>1. /\ Found(entry[l]) # Nil /\ faults < MaxFaults /\ faults' = faults + 1
        /\ entry' = [entry EXCEPT ![l].state = "lapsed"]
        /\ UNCHANGED <<backend, inUse, tmp, flock, mutex, pc, call, reply, token,
                       blind, misread>>
    BY DEF Lapse, config
  <1>2. /\ entry[l].state = "live" /\ Found(entry[l]) = entry[l].value
        /\ entry[l].value \in Maybe
    BY <1>1, FoundType DEF Found, ValuesInv
  <1>3. /\ Found(entry'[l]) = Nil /\ entry' \in [Locations -> Entries]
        /\ \A k \in Locations : k # l => entry'[k] = entry[k]
    <2>1. entry[l] \in Entries /\ entry \in [Locations -> Entries]
      BY DEF ValuesInv, TypeOK
    <2>2. [entry[l] EXCEPT !.state = "lapsed"] \in Entries
      BY <2>1 DEF Entries
    <2>3. entry' = [entry EXCEPT ![l] = [entry[l] EXCEPT !.state = "lapsed"]]
      BY <1>1
    <2>4. [entry[l] EXCEPT !.state = "lapsed"].state = "lapsed"
      BY <2>1 DEF Entries
    <2> QED
      BY <2>1, <2>2, <2>3, <2>4 DEF Found
  <1>4. LockInv'
    BY <1>1, LocksUntouched DEF ValuesInv
  <1>5. TypeOK'
    <2>1. faults' \in 0..MaxFaults
      BY <1>1, SharedStateAssumption DEF ValuesInv, TypeOK
    <2>2. late' \in [Workers -> Maybe]
      BY <1>2 DEF Lapse, ValuesInv, TypeOK
    <2>3. overdue' \subseteq Workers
      BY DEF Lapse, ValuesInv, TypeOK
    <2>4. acted' \in [Locations -> 0..2]
      BY DEF Lapse, ValuesInv, TypeOK
    <2> QED
      BY <1>1, <1>3, <2>1, <2>2, <2>3, <2>4 DEF ValuesInv, TypeOK
  <1>6. CallsFit'
    <2>1. ASSUME NEW u \in Workers PROVE CallFits(u)'
      <3>1. CallFits(u)
        BY DEF ValuesInv, CallsFit
      <3> QED
        BY <1>1, <3>1 DEF CallFits, InCall, Working, StageFits, Where
    <2> QED
      BY <2>1 DEF CallsFit
  <1>7. OnDisk'
    BY <1>1, <1>2, <1>3 DEF ValuesInv, OnDisk, Absent, Entry
  <1>8. ASSUME NEW u \in Workers PROVE DecisionStands(u)'
    <2>1. CASE pc[u] \notin {"write", "replace", "unlink"}
      BY <1>1, <2>1 DEF DecisionStands
    <2>2. CASE pc[u] \in {"write", "replace", "unlink"}
      <3>1. InCall(u)
        BY <2>2 DEF InCall, Working
      <3>2. call[u] # NoCall /\ call[u].at \in Locations /\ DecisionStands(u)
        BY <3>1, CallOf, RealCall
      <3>3. CASE call[u].at = l
        <4>1. late'[u] = Found(entry[l])
          BY <1>2, <3>2, <3>3 DEF Lapse
        <4> QED
          BY <1>1, <1>3, <2>2, <3>2, <3>3, <4>1 DEF DecisionStands, Accepts
      <3>4. CASE call[u].at # l
        <4>1. late'[u] = late[u]
          BY <3>4 DEF Lapse
        <4> QED
          BY <1>1, <1>3, <2>2, <3>2, <3>4, <4>1 DEF DecisionStands, Accepts
      <3> QED
        BY <3>3, <3>4
    <2> QED
      BY <2>1, <2>2
  <1> QED
    BY <1>4, <1>5, <1>6, <1>7, <1>8 DEF ValuesInv

\* A process ends.
LEMMA CrashEffect ==
    ASSUME ValuesInv, NEW p \in Processes, Crash(p)
    PROVE  /\ faults < MaxFaults /\ faults' = faults + 1
           /\ UNCHANGED <<backend, inUse, tmp, misread>>
           /\ \A w \in Workers : ProcOf[w] = p =>
                 /\ pc'[w] = "idle" /\ call'[w] = NoCall /\ reply'[w] = Pending
                 /\ token'[w] = Nil /\ late'[w] = Nil
                 /\ w \notin blind' /\ w \notin overdue'
           /\ \A w \in Workers : ProcOf[w] # p =>
                 /\ pc'[w] = pc[w] /\ call'[w] = call[w] /\ reply'[w] = reply[w]
                 /\ token'[w] = token[w] /\ late'[w] = late[w]
                 /\ (w \in blind' <=> w \in blind) /\ (w \in overdue' <=> w \in overdue)
           /\ \A l \in Locations :
                 \/ backend = "memory" /\ l[1] = p /\ entry'[l] = Absent /\ acted'[l] = 0
                 \/ ~(backend = "memory" /\ l[1] = p)
                      /\ entry'[l] = entry[l] /\ acted'[l] = acted[l]
  BY DEF Crash, config

\* What a crash leaves is as it was or as at the start.
LEMMA CrashValues ==
    ASSUME ValuesInv, NEW p \in Processes, Crash(p)
    PROVE  ValuesInv'
  <1>1. LockInv'
    BY CrashStep DEF ValuesInv
  <1>2. TypeOK'
    <2>1. faults' \in 0..MaxFaults
      BY SharedStateAssumption DEF ValuesInv, TypeOK, Crash
    <2>2. /\ Absent \in Entries /\ NoCall \in Calls \cup {NoCall} /\ Pending \in Replies
          /\ Nil \in Maybe /\ "idle" \in Stages
      BY DEF Absent, Entry, Entries, Maybe, Pending, Reply, Replies, Stages
    <2>3. /\ pc' \in [Workers -> Stages] /\ call' \in [Workers -> Calls \cup {NoCall}]
          /\ reply' \in [Workers -> Replies] /\ token' \in [Workers -> Maybe]
          /\ late' \in [Workers -> Maybe]
      BY <2>2 DEF ValuesInv, TypeOK, Crash
    <2>4. /\ entry' \in [Locations -> Entries] /\ acted' \in [Locations -> 0..2]
      BY <2>2 DEF ValuesInv, TypeOK, Crash
    <2>5. /\ mutex' \in [Processes -> Workers \cup {Nobody}]
          /\ flock' \in [Keys -> Workers \cup {Nobody}]
      BY <1>1 DEF LockInv, LockTypes
    <2>6. /\ blind' \subseteq Workers /\ overdue' \subseteq Workers
          /\ UNCHANGED <<backend, inUse, tmp, misread>>
      BY DEF ValuesInv, TypeOK, Crash, config
    <2> QED
      BY <2>1, <2>3, <2>4, <2>5, <2>6 DEF ValuesInv, TypeOK
  <1>3. ASSUME NEW u \in Workers PROVE CallFits(u)' /\ DecisionStands(u)'
    <2>1. CallFits(u) /\ DecisionStands(u)
      BY DEF ValuesInv, CallsFit
    <2>2. CASE ProcOf[u] = p
      <3>1. /\ pc'[u] = "idle" /\ call'[u] = NoCall /\ reply'[u] = Pending
            /\ u \notin blind'
        BY <2>2, CrashEffect
      <3> QED
        BY <3>1 DEF CallFits, InCall, Working, DecisionStands
    <2>3. CASE ProcOf[u] # p
      <3>1. /\ pc'[u] = pc[u] /\ call'[u] = call[u] /\ reply'[u] = reply[u]
            /\ token'[u] = token[u] /\ late'[u] = late[u]
            /\ (u \in blind' <=> u \in blind)
            /\ UNCHANGED <<backend, tmp, misread>>
        BY <2>3, CrashEffect
      <3>2. CallFits(u)'
        BY <2>1, <3>1 DEF CallFits, InCall, Working, StageFits, Where
      <3>3. CASE pc[u] \in {"write", "replace", "unlink"}
        <4>1. InCall(u)
          BY <3>3 DEF InCall, Working
        <4>2. backend = "file" /\ call[u].at \in Locations
          BY <3>3, <4>1, CallOf DEF StageFits
        <4>3. entry'[call[u].at] = entry[call[u].at]
          BY <4>2, CrashEffect
        <4>4. DecisionStands(u)'
          BY <2>1, <3>1, <4>3 DEF DecisionStands, Accepts, Found
        <4> QED
          BY <3>2, <4>4
      <3>4. CASE pc[u] \notin {"write", "replace", "unlink"}
        BY <3>1, <3>2, <3>4 DEF DecisionStands
      <3> QED
        BY <3>3, <3>4
    <2> QED
      BY <2>2, <2>3
  <1>4. OnDisk'
    <2>1. ASSUME NEW l \in Locations, backend = "file", l[1] # Disk
          PROVE  entry'[l] = Absent
      BY <2>1, CrashEffect DEF ValuesInv, OnDisk
    <2>2. backend' = backend
      BY CrashEffect
    <2> QED
      BY <2>1, <2>2 DEF OnDisk
  <1> QED
    BY <1>1, <1>2, <1>3, <1>4 DEF ValuesInv, CallsFit

-----------------------------------------------------------------------------
(* The invariant of the values.                                            *)

\* Nobody has asked for anything at the start.
LEMMA InitValues == Init => ValuesInv
  <1> SUFFICES ASSUME Init PROVE ValuesInv
    OBVIOUS
  <1>1. /\ Absent \in Entries /\ Entry("torn", Nil) \in Entries
        /\ Entry("live", 1) \in Entries /\ Pending \in Replies
        /\ Nil \in Maybe /\ "idle" \in Stages
    BY SharedStateAssumption
       DEF Absent, Entry, Entries, Maybe, Pending, Reply, Replies, Stages
  <1>2. PICK k \in inUse, e \in {Absent, Entry("torn", Nil), Entry("live", 1)} :
           entry = [l \in Locations |->
                      IF l = <<Disk, k>> /\ backend = "file" THEN e ELSE Absent]
    BY DEF Init
  <1>3. entry \in [Locations -> Entries] /\ acted \in [Locations -> 0..2]
    BY <1>1, <1>2 DEF Init
  <1>4. TypeOK
    <2>1. inUse \subseteq Keys /\ faults \in 0..MaxFaults
      BY SharedStateAssumption DEF Init
    <2> QED
      BY <1>1, <1>3, <2>1 DEF Init, TypeOK
  <1>5. OnDisk
    BY <1>2 DEF OnDisk
  <1>6. CallsFit
    BY DEF Init, CallsFit, CallFits, InCall, Working
  <1>7. \A w \in Workers : DecisionStands(w)
    BY DEF Init, DecisionStands
  <1> QED
    BY <1>4, <1>5, <1>6, <1>7, InitLocks DEF ValuesInv

\* Nothing happens.
LEMMA StutterValues ==
    ASSUME ValuesInv, UNCHANGED vars
    PROVE  ValuesInv'
  <1> USE DEF vars, stored, config, history
  <1>1. LockInv'
    BY LocksUntouched DEF ValuesInv
  <1>2. TypeOK' /\ OnDisk'
    BY DEF ValuesInv, TypeOK, OnDisk
  <1>3. ASSUME NEW u \in Workers PROVE CallFits(u)' /\ DecisionStands(u)'
    BY DEF ValuesInv, CallsFit, CallFits, InCall, Working, StageFits, Where,
           DecisionStands, Accepts, Found
  <1> QED
    BY <1>1, <1>2, <1>3 DEF ValuesInv, CallsFit

\* Every step of a call keeps the values.
LEMMA StepValues ==
    ASSUME ValuesInv, NEW w \in Workers, Step(w)
    PROVE  ValuesInv'
  BY EnterValues, LockValues, ReadValues, ReadFailsValues, WriteValues, ReplaceValues,
     UnlinkValues, WriteFailsValues, RememberValues, ReturnValues DEF Step

\* So does every step.
LEMMA NextValues ==
    ASSUME Plenty, ValuesInv, [Next]_vars
    PROVE  ValuesInv'
  BY BeginValues, StepValues, LapseValues, CrashValues, StutterValues DEF Next

\* Every value a caller compares, stores or is given is one that somebody
\* stored, every call is at a statement it can be at, and what a call has
\* decided under its lock still holds when it writes (try_acquire,
\* compare_and_set and release of FileSharedState and MemorySharedState).
THEOREM ValuesSafe == ASSUME Plenty PROVE Spec => []ValuesInv
  <1>1. ValuesInv /\ [Next]_vars => ValuesInv'
    BY NextValues
  <1> QED
    BY <1>1, InitValues, PTL DEF Spec

-----------------------------------------------------------------------------
(* Every call takes effect at one instant.                                 *)

\* The abstract specification names the same things.
LEMMA SameNames ==
    /\ Abstract!NoCall = NoCall /\ Abstract!Calls = Calls /\ Abstract!Maybe = Maybe
    /\ Abstract!Pending = Pending
    /\ \A kind, value : Abstract!Reply(kind, value) = Reply(kind, value)
  BY DEF Abstract!NoCall, NoCall, Abstract!Calls, Calls, Abstract!Ops, Ops,
         Abstract!Maybe, Maybe, Abstract!Pending, Pending, Abstract!Reply, Reply

\* The abstract specification accepts the same calls,
LEMMA SameAcceptance ==
    ASSUME NEW c, NEW v
    PROVE  Abstract!Succeeds(c, v) <=> Accepts(c, v)
  BY DEF Abstract!Succeeds, Accepts

\* and has them leave the same.
LEMMA WhatCallsLeave ==
    ASSUME NEW c, NEW v
    PROVE  /\ c.op \in {"set", "cas", "acquire"} => Abstract!Leaves(c, v) = c.new
           /\ c.op \in {"delete", "release"} => Abstract!Leaves(c, v) = Nil
  BY DEF Abstract!Leaves

\* What is stored, as a whole.
LEMMA ContentsAt ==
    ASSUME NEW l \in Locations
    PROVE  Contents[l] = Found(entry[l])
  BY DEF Contents

\* A step after which the same is found everywhere.
LEMMA ContentsKept ==
    ASSUME \A l \in Locations : Found(entry'[l]) = Found(entry[l])
    PROVE  Contents' = Contents
  BY Zenon DEF Contents, Found

\* A step that stores at one place.
LEMMA ContentsSet ==
    ASSUME NEW l \in Locations, NEW v, Found(entry'[l]) = v,
           \A k \in Locations : k # l => entry'[k] = entry[k]
    PROVE  Contents' = [Contents EXCEPT ![l] = v]
  BY DEF Contents, Found

\* A worker's step is the instant of its call when it ends the call with what
\* the abstract call would have answered and left.
LEMMA TakesEffect ==
    ASSUME ValuesInv, NEW w \in Workers, InCall(w), reply[w] = Pending,
           UNCHANGED <<call, late>>,
           \/ UNCHANGED <<blind, faults>>
           \/ blind' = blind \cup {w} /\ faults' = faults + 1,
           NEW v \in {Contents[call[w].at], late[w], Nil},
           v = Nil => Contents[call[w].at] = Nil \/ w \in blind',
           \/ /\ Accepts(call[w], v) /\ call[w].op = "get" /\ Contents' = Contents
              /\ reply' = [reply EXCEPT ![w] = Reply("ok", v)]
           \/ /\ Accepts(call[w], v) /\ call[w].op # "get"
              /\ Contents' = [Contents EXCEPT ![call[w].at] =
                                Abstract!Leaves(call[w], v)]
              /\ reply' = [reply EXCEPT ![w] = Reply("ok", Nil)]
           \/ /\ ~Accepts(call[w], v) /\ Contents' = Contents
              /\ reply' = [reply EXCEPT ![w] = Reply("no", Nil)]
    PROVE  Abstract!Take(w)
  <1>1. call[w] # Abstract!NoCall /\ reply[w] = Abstract!Pending
    BY CallOf, RealCall, SameNames
  <1>2. IF Abstract!Succeeds(call[w], v)
        THEN /\ Contents' = IF call[w].op = "get" THEN Contents
                            ELSE [Contents EXCEPT ![call[w].at] =
                                    Abstract!Leaves(call[w], v)]
             /\ reply' = [reply EXCEPT ![w] =
                            Abstract!Reply("ok", IF call[w].op = "get" THEN v ELSE Nil)]
        ELSE /\ reply' = [reply EXCEPT ![w] = Abstract!Reply("no", Nil)]
             /\ Contents' = Contents
    BY SameAcceptance, SameNames
  <1>3. v \in {Contents[call[w].at], late[w]} \cup {Nil}
    OBVIOUS
  <1> QED
    BY <1>1, <1>2, <1>3 DEF Abstract!Take

\* The abstract variables, and what leaves them alone.
Visible == <<Contents, call, reply, late, blind, faults>>

\* A caller asks.
LEMMA BeginRefines ==
    ASSUME ValuesInv, ValuesInv', NEW w \in Workers, Begin(w)
    PROVE  Abstract!Invoke(w)
  <1>1. \E from \in {"idle", "body", "loaded", "consumed"} : \E op, k, old, new :
           Ask(w, from, op, k, old, new)
    BY DEF Begin, Reconcile, EndPass, Click, Handle, SaveRecord, LoadRecord,
           ClearRecord, ConsumeRecord
  <1>2. PICK from \in {"idle", "body", "loaded", "consumed"} :
           \E op, k, old, new : Ask(w, from, op, k, old, new)
    BY <1>1
  <1>2a. PICK op, k, old, new : Ask(w, from, op, k, old, new)
    BY <1>2
  <1>3. /\ pc[w] = from /\ UNCHANGED <<entry, reply, late, blind, faults>>
        /\ pc' = [pc EXCEPT ![w] = "mutex"]
        /\ call' = [call EXCEPT ![w] =
                      [op |-> op, at |-> Where(w, k), old |-> old, new |-> new]]
    BY <1>2a DEF Ask, stored, config, history
  <1>4. ~InCall(w) /\ InCall(w)'
    BY <1>3 DEF ValuesInv, TypeOK, InCall, Working
  <1>5. call[w] = NoCall
    BY <1>4 DEF ValuesInv, CallsFit, CallFits
  <1>6. call'[w] \in Calls
    BY <1>4 DEF ValuesInv, CallsFit, CallFits
  <1>7. call' \in [Workers -> Calls \cup {NoCall}]
    BY DEF ValuesInv, TypeOK
  <1>8. \A x \in Workers \ {w} : call'[x] = call[x]
    BY <1>3 DEF ValuesInv, TypeOK
  <1>9. Contents' = Contents
    BY <1>3, ContentsKept
  <1> QED
    BY <1>3, <1>5, <1>6, <1>7, <1>8, <1>9, RealCall, SameNames DEF Abstract!Invoke

\* Taking the locks and writing the temporary file are not seen.
LEMMA HiddenRefines ==
    ASSUME NEW w \in Workers, Enter(w) \/ Lock(w) \/ Write(w)
    PROVE  UNCHANGED Visible
  <1>1. UNCHANGED <<entry, call, reply, late, blind, faults>>
    BY DEF Enter, Lock, Write, config, history
  <1> QED
    BY <1>1, ContentsKept DEF Visible

\* A read is the instant of a call that is done with it, and otherwise nothing
\* happens that could be seen.
LEMMA ReadRefines ==
    ASSUME ValuesInv, NEW w \in Workers, Read(w)
    PROVE  Abstract!Take(w) \/ UNCHANGED Visible
  <1>1. /\ pc[w] = "read" /\ backend = "file" /\ InCall(w)
        /\ UNCHANGED <<call, late, blind, faults>>
        /\ Decide(w, Found(entry[call[w].at]))
        /\ entry' = IF entry[call[w].at].state = "lapsed"
                    THEN [entry EXCEPT ![call[w].at] = Absent] ELSE entry
    BY DEF Read, history, InCall, Working
  <1>2. /\ call[w].at \in Locations /\ Found(entry[call[w].at]) \in Maybe
        /\ reply[w] = Pending
    BY <1>1, CallOf, FoundType DEF ValuesInv, CallFits
  <1>3. Contents' = Contents
    <2>1. \A l \in Locations : Found(entry'[l]) = Found(entry[l])
      BY <1>1 DEF ValuesInv, TypeOK, Found, Absent, Entry
    <2> QED
      BY <2>1, ContentsKept
  <1>4. Contents[call[w].at] = Found(entry[call[w].at])
    BY <1>2, ContentsAt
  <1> DEFINE v == Found(entry[call[w].at])
  <1>5. reply' \in [Workers -> Replies]
    BY <1>1, <1>2, DecideEffect
  <1>6. \/ /\ Accepts(call[w], v) /\ call[w].op = "get" /\ reply'[w] = Reply("ok", v)
        \/ ~Accepts(call[w], v) /\ reply'[w] = Reply("no", Nil)
        \/ reply' = reply
    BY <1>1, <1>2, DecideEffect DEF Accepts
  <1>7. \/ /\ Accepts(call[w], v) /\ call[w].op = "get"
           /\ reply' = [reply EXCEPT ![w] = Reply("ok", v)]
        \/ /\ ~Accepts(call[w], v)
           /\ reply' = [reply EXCEPT ![w] = Reply("no", Nil)]
        \/ reply' = reply
    <2>1. reply \in [Workers -> Replies]
      BY DEF ValuesInv, TypeOK
    <2>2. \A u \in Workers \ {w} : reply'[u] = reply[u]
      BY <1>1, <1>2, DecideEffect
    <2> HIDE DEF v
    <2> QED
      BY <1>5, <1>6, <2>1, <2>2
  <1>8. CASE reply' = reply
    BY <1>1, <1>3, <1>8 DEF Visible
  <1>9. CASE reply' # reply
    BY <1>1, <1>2, <1>3, <1>4, <1>7, <1>9, TakesEffect
  <1> QED
    BY <1>8, <1>9

\* The same when the file could not be read.
LEMMA ReadFailsRefines ==
    ASSUME ValuesInv, NEW w \in Workers, ReadFails(w)
    PROVE  Abstract!Take(w) \/ Abstract!Blinded(w)
  <1>1. /\ pc[w] = "read" /\ backend = "file" /\ InCall(w)
        /\ UNCHANGED <<call, late, entry>>
        /\ blind' = blind \cup {w} /\ faults' = faults + 1
        /\ Decide(w, Nil) /\ Nil \in Maybe
    BY DEF ReadFails, stored, InCall, Working, Maybe
  <1>2. reply[w] = Pending /\ call[w] \in Calls
    BY <1>1, CallOf DEF CallFits
  <1>3. Contents' = Contents
    BY <1>1, ContentsKept
  <1>5. reply' \in [Workers -> Replies]
    BY <1>1, DecideEffect
  <1>6. \/ /\ Accepts(call[w], Nil) /\ call[w].op = "get" /\ reply'[w] = Reply("ok", Nil)
        \/ ~Accepts(call[w], Nil) /\ reply'[w] = Reply("no", Nil)
        \/ reply' = reply
    BY <1>1, DecideEffect DEF Accepts
  <1>7. \/ /\ Accepts(call[w], Nil) /\ call[w].op = "get"
           /\ reply' = [reply EXCEPT ![w] = Reply("ok", Nil)]
        \/ /\ ~Accepts(call[w], Nil)
           /\ reply' = [reply EXCEPT ![w] = Reply("no", Nil)]
        \/ reply' = reply
    <2>1. reply \in [Workers -> Replies]
      BY DEF ValuesInv, TypeOK
    <2>2. \A u \in Workers \ {w} : reply'[u] = reply[u]
      BY <1>1, DecideEffect
    <2> QED
      BY <1>5, <1>6, <2>1, <2>2
  <1>8. CASE reply' = reply
    BY <1>1, <1>2, <1>3, <1>8, RealCall, SameNames DEF Abstract!Blinded
  <1>9. CASE reply' # reply
    <2>1. w \in blind'
      BY <1>1
    <2> QED
      BY <1>1, <1>2, <1>3, <1>7, <1>9, <2>1, TakesEffect
  <1> QED
    BY <1>8, <1>9

\* What a call decided by, when it comes to write: what is there, what lapsed
\* meanwhile, or nothing.
LEMMA Deciding ==
    ASSUME ValuesInv, NEW w \in Workers, pc[w] \in {"write", "replace", "unlink"},
           UNCHANGED blind
    PROVE  \E v \in {Contents[call[w].at], late[w], Nil} :
              /\ Accepts(call[w], v)
              /\ v = Nil => Contents[call[w].at] = Nil \/ w \in blind'
  <1>1. DecisionStands(w) /\ Contents[call[w].at] = Found(entry[call[w].at])
    BY CallOf, ContentsAt DEF InCall, Working
  <1> QED
    BY <1>1 DEF DecisionStands

\* The rename is the instant of a call that writes,
LEMMA ReplaceRefines ==
    ASSUME ValuesInv, NEW w \in Workers, Replace(w)
    PROVE  Abstract!Take(w)
  <1>1. /\ pc[w] = "replace" /\ InCall(w)
        /\ reply' = [reply EXCEPT ![w] = Reply("ok", Nil)]
        /\ entry' = [entry EXCEPT ![call[w].at] = tmp[call[w].at[2]]]
        /\ UNCHANGED <<call, late, blind, faults>>
    BY DEF Replace, Answer, Written, InCall, Working
  <1>2. /\ call[w].at \in Locations /\ reply[w] = Pending
        /\ call[w].op \in {"set", "cas", "acquire"}
        /\ tmp[call[w].at[2]] = Entry("live", call[w].new)
    BY <1>1, CallOf DEF CallFits, StageFits
  <1>3. PICK v \in {Contents[call[w].at], late[w], Nil} :
           /\ Accepts(call[w], v)
           /\ v = Nil => Contents[call[w].at] = Nil \/ w \in blind'
    BY <1>1, Deciding
  <1>4. Contents' = [Contents EXCEPT ![call[w].at] = call[w].new]
    <2>1. /\ entry'[call[w].at] = Entry("live", call[w].new)
          /\ \A k \in Locations : k # call[w].at => entry'[k] = entry[k]
      BY <1>1, <1>2 DEF ValuesInv, TypeOK
    <2>2. Found(entry'[call[w].at]) = call[w].new
      BY <2>1 DEF Found, Entry
    <2> QED
      BY <1>2, <2>1, <2>2, ContentsSet
  <1>5. Abstract!Leaves(call[w], v) = call[w].new /\ call[w].op # "get"
    BY <1>2, WhatCallsLeave
  <1> QED
    BY <1>1, <1>2, <1>3, <1>4, <1>5, TakesEffect

\* and the unlink of one that removes.
LEMMA UnlinkRefines ==
    ASSUME ValuesInv, NEW w \in Workers, Unlink(w)
    PROVE  Abstract!Take(w)
  <1>1. /\ pc[w] = "unlink" /\ InCall(w)
        /\ reply' = [reply EXCEPT ![w] = Reply("ok", Nil)]
        /\ entry' = [entry EXCEPT ![call[w].at] = Absent]
        /\ UNCHANGED <<call, late, blind, faults>>
    BY DEF Unlink, Answer, history, InCall, Working
  <1>2. /\ call[w].at \in Locations /\ reply[w] = Pending
        /\ call[w].op \in {"delete", "release"}
    BY <1>1, CallOf DEF CallFits, StageFits
  <1>3. PICK v \in {Contents[call[w].at], late[w], Nil} :
           /\ Accepts(call[w], v)
           /\ v = Nil => Contents[call[w].at] = Nil \/ w \in blind'
    BY <1>1, Deciding
  <1>4. Contents' = [Contents EXCEPT ![call[w].at] = Nil]
    <2>1. /\ entry'[call[w].at] = Absent
          /\ \A k \in Locations : k # call[w].at => entry'[k] = entry[k]
      BY <1>1, <1>2 DEF ValuesInv, TypeOK
    <2>2. Found(entry'[call[w].at]) = Nil
      BY <2>1 DEF Found, Absent, Entry
    <2> QED
      BY <1>2, <2>1, <2>2, ContentsSet
  <1>5. Abstract!Leaves(call[w], v) = Nil /\ call[w].op # "get"
    BY <1>2, WhatCallsLeave
  <1> QED
    BY <1>1, <1>2, <1>3, <1>4, <1>5, TakesEffect

\* A write that raises is a mishap of its call.
LEMMA WriteFailsRefines ==
    ASSUME ValuesInv, NEW w \in Workers, WriteFails(w)
    PROVE  Abstract!Raise(w)
  <1>1. /\ pc[w] \in {"write", "replace", "unlink"} /\ InCall(w)
        /\ reply' = [reply EXCEPT ![w] = Reply("error", Nil)]
        /\ faults' = faults + 1
        /\ UNCHANGED <<entry, call, late, blind>>
    BY DEF WriteFails, Answer, stored, history, InCall, Working
  <1>2. reply[w] = Pending /\ call[w] # NoCall
    BY <1>1, CallOf, RealCall DEF CallFits
  <1>3. Contents' = Contents
    BY <1>1, ContentsKept
  <1> QED
    BY <1>1, <1>2, <1>3, SameNames DEF Abstract!Raise

\* The memory backend has but one instant.
LEMMA RememberRefines ==
    ASSUME ValuesInv, NEW w \in Workers, Remember(w)
    PROVE  Abstract!Take(w)
  <1> DEFINE c == call[w]
             v == Found(entry[c.at])
  <1>1. /\ pc[w] = "read" /\ InCall(w)
        /\ UNCHANGED <<call, late, blind, faults>>
        /\ reply' = [reply EXCEPT ![w] =
                       Reply(IF Accepts(c, v) THEN "ok" ELSE "no",
                             IF c.op = "get" THEN v ELSE Nil)]
        /\ IF c.op = "get" \/ ~Accepts(c, v)
           THEN entry' = entry
           ELSE entry' = [entry EXCEPT ![c.at] = IF c.op \in {"delete", "release"}
                                                 THEN Absent ELSE Entry("live", c.new)]
    BY DEF Remember, Answer, Written, InCall, Working
  <1>2. /\ c.at \in Locations /\ reply[w] = Pending /\ c.op \in Ops
        /\ Contents[c.at] = v
    BY <1>1, CallOf, ContentsAt DEF CallFits
  <1>3. v = Nil => Contents[c.at] = Nil \/ w \in blind'
    BY <1>2
  <1>4. CASE c.op = "get"
    <2>1. Accepts(c, v)
      BY <1>4 DEF Accepts
    <2>2. Contents' = Contents
      BY <1>1, <1>4, ContentsKept
    <2>3. reply' = [reply EXCEPT ![w] = Reply("ok", v)]
      BY <1>1, <1>4, <2>1
    <2> HIDE DEF v
    <2> QED
      BY <1>1, <1>2, <1>3, <1>4, <2>1, <2>2, <2>3, TakesEffect
  <1>5. CASE c.op # "get" /\ ~Accepts(c, v)
    <2>1. Contents' = Contents
      BY <1>1, <1>5, ContentsKept
    <2>2. reply' = [reply EXCEPT ![w] = Reply("no", Nil)]
      BY <1>1, <1>5
    <2> HIDE DEF v
    <2> QED
      BY <1>1, <1>2, <1>3, <1>5, <2>1, <2>2, TakesEffect
  <1>6. CASE c.op # "get" /\ Accepts(c, v)
    <2>1. reply' = [reply EXCEPT ![w] = Reply("ok", Nil)]
      BY <1>1, <1>6
    <2>2. Contents' = [Contents EXCEPT ![c.at] = Abstract!Leaves(c, v)]
      <3>1. \A k \in Locations : k # c.at => entry'[k] = entry[k]
        BY <1>1, <1>6 DEF ValuesInv, TypeOK
      <3>2. CASE c.op \in {"delete", "release"}
        <4>1. entry'[c.at] = Absent
          BY <1>1, <1>2, <1>6, <3>2 DEF ValuesInv, TypeOK
        <4>2. Found(entry'[c.at]) = Nil
          BY <4>1 DEF Found, Absent, Entry
        <4>3. Contents' = [Contents EXCEPT ![c.at] = Nil]
          BY <1>2, <3>1, <4>2, ContentsSet
        <4> QED
          BY <3>2, <4>3, WhatCallsLeave
      <3>3. CASE c.op \notin {"delete", "release"}
        <4>1. entry'[c.at] = Entry("live", c.new)
          BY <1>1, <1>2, <1>6, <3>3 DEF ValuesInv, TypeOK
        <4>2. Found(entry'[c.at]) = c.new
          BY <4>1 DEF Found, Entry
        <4>3. Contents' = [Contents EXCEPT ![c.at] = c.new]
          BY <1>2, <3>1, <4>2, ContentsSet
        <4>4. c.op \in {"set", "cas", "acquire"}
          BY <1>2, <1>6, <3>3 DEF Ops
        <4> QED
          BY <4>3, <4>4, WhatCallsLeave
      <3> QED
        BY <3>2, <3>3
    <2> HIDE DEF v
    <2> QED
      BY <1>1, <1>2, <1>3, <1>6, <2>1, <2>2, TakesEffect
  <1> QED
    BY <1>4, <1>5, <1>6

\* The caller gets its outcome.
LEMMA ReturnRefines ==
    ASSUME ValuesInv, NEW w \in Workers, Return(w)
    PROVE  Abstract!Respond(w)
  <1>1. /\ pc[w] = "unlock" /\ UNCHANGED <<entry, faults>>
        /\ call' = [call EXCEPT ![w] = NoCall]
        /\ reply' = [reply EXCEPT ![w] = Pending]
        /\ late' = [late EXCEPT ![w] = Nil] /\ blind' = blind \ {w}
    BY ReturnEffect
  <1>2. reply[w] # Pending
    BY <1>1 DEF ValuesInv, CallsFit, CallFits
  <1>3. Contents' = Contents
    BY <1>1, ContentsKept
  <1> QED
    BY <1>1, <1>2, <1>3, SameNames DEF Abstract!Respond

\* An entry runs out.
LEMMA LapseRefines ==
    ASSUME ValuesInv, NEW l \in Locations, Lapse(l)
    PROVE  Abstract!RunOut(l)
  <1>1. /\ Found(entry[l]) # Nil /\ faults' = faults + 1
        /\ entry' = [entry EXCEPT ![l].state = "lapsed"]
        /\ late' = [w \in Workers |->
                      IF call[w] # NoCall /\ call[w].at = l THEN entry[l].value
                      ELSE late[w]]
        /\ UNCHANGED <<call, reply, blind>>
    BY DEF Lapse
  <1>2. Contents[l] = Found(entry[l]) /\ Found(entry[l]) = entry[l].value
    BY <1>1, ContentsAt DEF Found
  <1>3. Contents' = [Contents EXCEPT ![l] = Nil]
    <2>1. entry[l] \in Entries /\ entry \in [Locations -> Entries]
      BY DEF ValuesInv, TypeOK
    <2>2. entry' = [entry EXCEPT ![l] = [entry[l] EXCEPT !.state = "lapsed"]]
      BY <1>1
    <2>3. [entry[l] EXCEPT !.state = "lapsed"].state = "lapsed"
      BY <2>1 DEF Entries
    <2>4. /\ Found(entry'[l]) = Nil
          /\ \A k \in Locations : k # l => entry'[k] = entry[k]
      BY <2>1, <2>2, <2>3 DEF Found
    <2> QED
      BY <2>4, ContentsSet
  <1> QED
    BY <1>1, <1>2, <1>3, SameNames DEF Abstract!RunOut

\* A crash forgets calls, and what its process remembers.
LEMMA CrashRefines ==
    ASSUME ValuesInv, ValuesInv', NEW p \in Processes, Crash(p)
    PROVE  Abstract!Vanish(p)
  <1> DEFINE W == {w \in Workers : ProcOf[w] = p}
  <1>1. /\ call' = [w \in Workers |-> IF w \in W THEN NoCall ELSE call[w]]
        /\ reply' = [w \in Workers |-> IF w \in W THEN Pending ELSE reply[w]]
        /\ late' = [w \in Workers |-> IF w \in W THEN Nil ELSE late[w]]
        /\ blind' = blind \ W /\ faults' = faults + 1
    BY DEF Crash
  <1>2. Contents' = [l \in Locations |-> IF l[1] = p THEN Nil ELSE Contents[l]]
    <2>1. ASSUME NEW l \in Locations
          PROVE  Found(entry'[l]) = IF l[1] = p THEN Nil ELSE Contents[l]
      <3>1. Contents[l] = Found(entry[l]) /\ Found(Absent) = Nil
        BY ContentsAt DEF Found, Absent, Entry
      <3>2. CASE backend = "memory"
        BY <3>1, <3>2, CrashEffect
      <3>3. CASE backend = "file"
        <4>1. l[1] = p => entry[l] = Absent
          BY <3>3, SharedStateAssumption DEF ValuesInv, OnDisk
        <4> QED
          BY <3>1, <3>3, <4>1, CrashEffect
      <3> QED
        BY <3>2, <3>3 DEF ValuesInv, TypeOK
    <2>2. Contents' = [l \in Locations |-> Found(entry'[l])]
      BY DEF Contents, Found
    <2> QED
      BY <2>1, <2>2
  <1> QED
    BY <1>1, <1>2, SameNames DEF Abstract!Vanish

\* The store begins as a map that holds what earlier processes left.
LEMMA InitRefines ==
    Init => Abstract!KVInit
  <1> SUFFICES ASSUME Init PROVE Abstract!KVInit
    OBVIOUS
  <1>1. \A l \in Locations : Found(entry[l]) \in Maybe
    BY InitValues, FoundType DEF ValuesInv
  <1>2. Contents \in [Locations -> Maybe]
    BY <1>1 DEF Contents
  <1> QED
    BY <1>2, SameNames DEF Init, Abstract!KVInit

\* Both backends keep the promise of KeyValue: every call takes effect at one
\* instant between its start and its return, although it reads, writes and
\* renames files in steps, any of which may fail, and processes crash between
\* them.  The instant is the rename or the unlink of a call that changes its
\* key, and the read of one that does not (FileSharedState, MemorySharedState).
THEOREM KeepsPromise == ASSUME Plenty PROVE Spec => ImplementsKeyValue
  <1>1. ASSUME ValuesInv, ValuesInv', [Next]_vars
        PROVE  [Abstract!KVNext]_(Abstract!kvVars)
    <2>1. ASSUME NEW w \in Workers, Begin(w) PROVE Abstract!KVNext
      BY <1>1, <2>1, BeginRefines DEF Abstract!KVNext
    <2>2. ASSUME NEW w \in Workers, Step(w)
          PROVE  Abstract!KVNext \/ UNCHANGED Visible
      BY <1>1, <2>2, HiddenRefines, ReadRefines, ReadFailsRefines, ReplaceRefines,
         UnlinkRefines, WriteFailsRefines, RememberRefines, ReturnRefines
         DEF Step, Abstract!KVNext
    <2>3. ASSUME NEW l \in Locations, Lapse(l) PROVE Abstract!KVNext
      BY <1>1, <2>3, LapseRefines DEF Abstract!KVNext
    <2>4. ASSUME NEW p \in Processes, Crash(p) PROVE Abstract!KVNext
      BY <1>1, <2>4, CrashRefines DEF Abstract!KVNext
    <2>5. UNCHANGED vars => UNCHANGED Visible
      BY ContentsKept DEF vars, stored, history, Visible
    <2>6. UNCHANGED Visible => UNCHANGED Abstract!kvVars
      BY DEF Visible, Abstract!kvVars
    <2> QED
      BY <1>1, <2>1, <2>2, <2>3, <2>4, <2>5, <2>6 DEF Next
  <1> QED
    BY <1>1, InitRefines, ValuesSafe, PTL DEF Spec, ImplementsKeyValue, Abstract!KVSpec

-----------------------------------------------------------------------------
(* Who owns what.                                                          *)

\* The worker has, asks for or gives back the key k under the name Owner(w).
OwnsAt(w, k) ==
    \/ pc[w] = "body" /\ k \in Leases
    \/ InCall(w) /\ call[w].at[2] = k /\ k \in Leases \cup Clicks
Owner(w) == IF pc[w] = "body" THEN token[w] ELSE call[w].new

\* No two workers go by one name for the same key, and nothing is stored under
\* a name before its worker has written it.
Distinct ==
    \A k \in Keys, w, u \in Workers :
       OwnsAt(w, k) /\ OwnsAt(u, k) /\ w # u => Owner(w) # Owner(u)

Unwritten(w) ==
    InCall(w) /\ pc[w] # "unlock" /\ call[w].op = "acquire" =>
       \A l \in Locations : l[2] = call[w].at[2] => entry[l].value # call[w].new

OwnersInv == Distinct /\ \A w \in Workers : Unwritten(w)

\* What is counted as acted on is not free to be acted on again, and a call
\* that is about to act finds nobody before it.
CountFits(l) ==
    /\ acted[l] <= 1
    /\ l[2] \in Leases => acted[l] = 0
    /\ l[2] \in Claims /\ acted[l] = 1 => Found(entry[l]) # Nil
    /\ l[2] \in Records /\ acted[l] = 1 => Found(entry[l]) = Nil

ActsFirst(w) ==
    pc[w] \in {"write", "replace"} /\ call[w].op = "cas" /\ call[w].at \notin misread
      => acted[call[w].at] = 0

ActedInv ==
    /\ \A l \in Locations \ misread : CountFits(l)
    /\ \A w \in Workers : ActsFirst(w)

\* The worker is in its pass, or has won its lease and is about to be told.
HasLease(w, l) ==
    /\ l[2] \in Leases /\ l = Where(w, l[2])
    /\ \/ pc[w] = "body"
       \/ /\ pc[w] = "unlock" /\ reply[w].kind \notin {"no", "error"}
          /\ call[w].op = "acquire" /\ call[w].at = l

\* It has it in the store, under its name, unless it lapsed or failed.
LeaseKept ==
    \A w \in Workers, l \in Locations \ misread :
       HasLease(w, l) /\ w \notin overdue => entry[l] = Entry("live", Owner(w))

-----------------------------------------------------------------------------
(* Names are not shared.                                                   *)

\* What a step of one worker may do with names: it takes none, and stores none
\* but that of its own call.
LEMMA OwnersKept ==
    ASSUME ValuesInv, OwnersInv, NEW w \in Workers, Alone(w),
           \A k \in Keys : OwnsAt(w, k)' => OwnsAt(w, k) /\ Owner(w)' = Owner(w),
           \A l \in Locations :
              \/ entry'[l].value \in {entry[l].value, Nil}
              \/ InCall(w) /\ l = call[w].at /\ entry'[l].value = call[w].new,
           Unwritten(w)'
    PROVE  OwnersInv'
  <1>1. ASSUME NEW u \in Workers \ {w}, NEW k \in Keys
        PROVE  OwnsAt(u, k)' => OwnsAt(u, k) /\ Owner(u)' = Owner(u)
    BY DEF Alone, OwnsAt, Owner, InCall, Working
  <1>2. Distinct'
    <2>1. ASSUME NEW k \in Keys, NEW x \in Workers, NEW y \in Workers,
                 OwnsAt(x, k)', OwnsAt(y, k)', x # y
          PROVE  Owner(x)' # Owner(y)'
      <3>1. /\ OwnsAt(x, k) /\ Owner(x)' = Owner(x)
            /\ OwnsAt(y, k) /\ Owner(y)' = Owner(y)
        BY <1>1, <2>1
      <3> QED
        BY <2>1, <3>1 DEF OwnersInv, Distinct
    <2> QED
      BY <2>1 DEF Distinct
  <1>3. ASSUME NEW u \in Workers \ {w}
        PROVE  Unwritten(u)'
    <2>1. /\ pc'[u] = pc[u] /\ call'[u] = call[u] /\ Unwritten(u)
      BY DEF Alone, OwnersInv
    <2>2. SUFFICES ASSUME InCall(u), pc[u] # "unlock", call[u].op = "acquire",
                          NEW l \in Locations, l[2] = call[u].at[2]
                   PROVE  entry'[l].value # call[u].new
      BY <2>1 DEF Unwritten, InCall, Working
    <2>3. entry[l].value # call[u].new
      BY <2>1, <2>2 DEF Unwritten
    <2>4. call[u].at[2] \in Leases \cup Clicks /\ call[u].new \in Values
      BY <2>2, CallOf DEF Asks, Keys, Claims
    <2>5. Nil \notin Values
      BY SharedStateAssumption
    <2>6. ASSUME InCall(w), l = call[w].at
          PROVE  call[w].new # call[u].new
      <3>1. l[2] \in Keys /\ OwnsAt(w, l[2]) /\ OwnsAt(u, l[2])
        BY <2>2, <2>4, <2>6, KeyOfLocation DEF OwnsAt
      <3>2. pc[w] # "body" /\ pc[u] # "body"
        BY <2>2, <2>6 DEF InCall, Working
      <3> QED
        BY <3>1, <3>2 DEF OwnersInv, Distinct, Owner
    <2> QED
      BY <2>3, <2>4, <2>5, <2>6
  <1> QED
    BY <1>2, <1>3 DEF OwnersInv

\* A step within a call.
LEMMA WithinCall ==
    ASSUME ValuesInv, OwnersInv, NEW w \in Workers, Alone(w), InCall(w), InCall(w)',
           call' = call, pc[w] # "unlock",
           \/ \A l \in Locations : entry'[l].value \in {entry[l].value, Nil}
           \/ /\ pc'[w] = "unlock"
              /\ \A l \in Locations : l # call[w].at => entry'[l] = entry[l]
              /\ entry'[call[w].at].value \in {entry[call[w].at].value, Nil, call[w].new}
    PROVE  OwnersInv'
  <1>1. pc[w] # "body" /\ pc'[w] # "body"
    BY DEF InCall, Working
  <1>2. \A k \in Keys : OwnsAt(w, k)' => OwnsAt(w, k) /\ Owner(w)' = Owner(w)
    BY <1>1 DEF OwnsAt, Owner
  <1>3. \A l \in Locations :
           \/ entry'[l].value \in {entry[l].value, Nil}
           \/ InCall(w) /\ l = call[w].at /\ entry'[l].value = call[w].new
    OBVIOUS
  <1>4. Unwritten(w)'
    <2>1. CASE pc'[w] = "unlock"
      BY <2>1 DEF Unwritten
    <2>2. CASE /\ pc'[w] # "unlock"
               /\ \A l \in Locations : entry'[l].value \in {entry[l].value, Nil}
      <3>1. Unwritten(w) /\ call[w].new = call'[w].new
        BY DEF OwnersInv
      <3>2. InCall(w) /\ call[w].op = "acquire" => call[w].new # Nil
        <4>1. InCall(w) => Asks(call[w]) /\ call[w].at[2] \in Keys
          BY CallOf
        <4> QED
          BY <4>1, SharedStateAssumption DEF Asks, Keys, Claims
      <3> QED
        BY <2>2, <3>1, <3>2 DEF Unwritten
    <2> QED
      BY <2>1, <2>2
  <1> QED
    BY <1>2, <1>3, <1>4, OwnersKept

\* Deciding changes the outcome of one call at most.
LEMMA DecideReply ==
    ASSUME NEW w \in Workers, NEW v, Decide(w, v)
    PROVE  reply' = reply \/ \E r : reply' = [reply EXCEPT ![w] = r]
  BY DEF Decide, Answer, Goto

\* A step of a call that goes on or comes to its end.
Advance(w) ==
    \/ Enter(w) \/ Lock(w) \/ Read(w) \/ ReadFails(w) \/ Write(w) \/ Replace(w)
    \/ Unlink(w) \/ WriteFails(w) \/ Remember(w)

\* It is the worker's own, and none of its caller's.
LEMMA AdvanceAlone ==
    ASSUME ValuesInv, NEW w \in Workers, Advance(w)
    PROVE  /\ InCall(w) /\ pc[w] # "unlock" /\ UNCHANGED <<call, token, late, overdue>>
           /\ Alone(w) /\ InCall(w)' /\ misread \subseteq misread'
  <1> USE DEF Advance
  <1>1. InCall(w) /\ pc[w] # "unlock" /\ UNCHANGED <<call, token, late, overdue>>
    BY DEF Enter, Lock, Read, ReadFails, Write, Replace, Unlink, WriteFails, Remember,
           InCall, Working, stored, history
  <1>2. /\ blind' = blind \/ blind' = blind \cup {w}
        /\ misread \subseteq misread'
    BY DEF Enter, Lock, Read, ReadFails, Write, Replace, Unlink, WriteFails, Remember,
           history
  <1>3. \E stage \in {"flock", "read", "write", "replace", "unlink", "unlock"} :
           pc' = [pc EXCEPT ![w] = stage]
    BY DecideStages DEF Enter, Lock, Read, ReadFails, Write, Replace, Unlink, WriteFails,
           Remember, Answer, Goto, First, ValuesInv
  <1>4. reply' = reply \/ \E r : reply' = [reply EXCEPT ![w] = r]
    BY DecideReply DEF Enter, Lock, Read, ReadFails, Write, Replace, Unlink, WriteFails,
           Remember, Answer, ValuesInv
  <1>5. Alone(w)
    BY <1>1, <1>2, <1>3, <1>4 DEF ValuesInv, TypeOK, Alone
  <1>6. InCall(w)'
    BY <1>3 DEF ValuesInv, TypeOK, InCall, Working
  <1> QED
    BY <1>1, <1>2, <1>5, <1>6

\* A step of a call keeps the names apart.
LEMMA AdvanceOwners ==
    ASSUME ValuesInv, OwnersInv, NEW w \in Workers, Advance(w)
    PROVE  OwnersInv'
  <1> USE DEF Advance
  <1>1. InCall(w) /\ pc[w] # "unlock" /\ UNCHANGED <<call, token, late, overdue>>
    BY AdvanceAlone
  <1>5. Alone(w)
    BY AdvanceAlone
  <1>6. InCall(w)'
    BY AdvanceAlone
  <1>7. call[w].at \in Locations /\ StageFits(w) /\ entry \in [Locations -> Entries]
    BY <1>1, CallOf DEF ValuesInv, TypeOK
  <1>8. CASE entry' = entry
    BY <1>1, <1>5, <1>6, <1>8, WithinCall
  <1>9. CASE entry' = [entry EXCEPT ![call[w].at] = Absent]
    <2>1. \A l \in Locations : entry'[l].value \in {entry[l].value, Nil}
      BY <1>7, <1>9 DEF Absent, Entry
    <2> QED
      BY <1>1, <1>5, <1>6, <2>1, WithinCall
  <1>10. CASE /\ pc' = [pc EXCEPT ![w] = "unlock"]
              /\ entry' = [entry EXCEPT ![call[w].at] = Entry("live", call[w].new)]
    <2>1. /\ pc'[w] = "unlock"
          /\ \A l \in Locations : l # call[w].at => entry'[l] = entry[l]
          /\ entry'[call[w].at].value = call[w].new
      BY <1>7, <1>10 DEF Entry, ValuesInv, TypeOK
    <2> QED
      BY <1>1, <1>5, <1>6, <2>1, WithinCall
  <1> QED
    <2>1. Read(w) => entry' = entry \/ entry' = [entry EXCEPT ![call[w].at] = Absent]
      BY DEF Read
    <2>2. Replace(w) => /\ pc' = [pc EXCEPT ![w] = "unlock"]
                        /\ entry' = [entry EXCEPT ![call[w].at] = Entry("live", call[w].new)]
      BY <1>7 DEF Replace, Written, Answer, Goto, StageFits
    <2>3. Remember(w) =>
            \/ entry' = entry
            \/ entry' = [entry EXCEPT ![call[w].at] = Absent]
            \/ /\ pc' = [pc EXCEPT ![w] = "unlock"]
               /\ entry' = [entry EXCEPT ![call[w].at] = Entry("live", call[w].new)]
      BY DEF Remember, Written, Answer, Goto
    <2>4. Enter(w) \/ Lock(w) \/ ReadFails(w) \/ Write(w) \/ WriteFails(w)
            => entry' = entry
      BY DEF Enter, Lock, ReadFails, Write, WriteFails, stored
    <2>5. Unlink(w) => entry' = [entry EXCEPT ![call[w].at] = Absent]
      BY DEF Unlink
    <2> QED
      BY <1>8, <1>9, <1>10, <2>1, <2>2, <2>3, <2>4, <2>5

\* A return is the worker's own.
LEMMA ReturnAlone ==
    ASSUME ValuesInv, NEW w \in Workers, Return(w)
    PROVE  Alone(w)
  <1>1. /\ call' = [call EXCEPT ![w] = NoCall]
        /\ reply' = [reply EXCEPT ![w] = Pending]
        /\ late' = [late EXCEPT ![w] = Nil] /\ blind' = blind \ {w}
        /\ \E next : pc' = [pc EXCEPT ![w] = next]
        /\ \E v : token' = [token EXCEPT ![w] = v]
    BY ReturnEffect
  <1>2. \A u \in Workers \ {w} : u \in overdue' <=> u \in overdue
    BY ReturnEffect
  <1> QED
    BY <1>1, <1>2 DEF ValuesInv, TypeOK, Alone

\* So is the beginning of a call.
LEMMA BeginAlone ==
    ASSUME ValuesInv, NEW w \in Workers, Begin(w)
    PROVE  /\ Alone(w) /\ ~InCall(w) /\ pc'[w] = "mutex"
           /\ UNCHANGED <<backend, entry, acted, misread, overdue, token>>
  <1>1. \E c : /\ pc' = [pc EXCEPT ![w] = "mutex"] /\ call' = [call EXCEPT ![w] = c]
               /\ UNCHANGED <<backend, entry, acted, misread, reply, token, late, blind,
                              overdue>>
    BY DEF Begin, Reconcile, EndPass, Click, Handle, SaveRecord, LoadRecord, ClearRecord,
           ConsumeRecord, Ask, stored, config, history
  <1>2. ~InCall(w)
    BY DEF Begin, Reconcile, EndPass, Click, Handle, SaveRecord, LoadRecord, ClearRecord,
           ConsumeRecord, Ask, InCall, Working
  <1> QED
    BY <1>1, <1>2 DEF ValuesInv, TypeOK, Alone

\* A pass goes on under the name of its call.
LEMMA ReturnOwners ==
    ASSUME ValuesInv, OwnersInv, NEW w \in Workers, Return(w)
    PROVE  OwnersInv'
  <1>1. /\ pc[w] = "unlock" /\ InCall(w) /\ UNCHANGED entry
        /\ call' = [call EXCEPT ![w] = NoCall]
        /\ reply' = [reply EXCEPT ![w] = Pending]
        /\ late' = [late EXCEPT ![w] = Nil] /\ blind' = blind \ {w}
    BY ReturnEffect
  <1>2. PICK next \in {"body", "loaded", "consumed", "idle"} :
           /\ pc' = [pc EXCEPT ![w] = next]
           /\ next = "body" =>
                /\ token' = [token EXCEPT ![w] = call[w].new]
                /\ call[w].at[2] \in Leases
           /\ next = "loaded" => token' = [token EXCEPT ![w] = reply[w].value]
           /\ next \notin {"body", "loaded"} => token' = [token EXCEPT ![w] = Nil]
    BY ReturnEffect
  <1>4. Alone(w)
    BY ReturnAlone
  <1>5. pc'[w] = next /\ ~InCall(w)'
    BY <1>2 DEF ValuesInv, TypeOK, InCall, Working
  <1>6. ASSUME NEW k \in Keys, OwnsAt(w, k)'
        PROVE  OwnsAt(w, k) /\ Owner(w)' = Owner(w)
    <2>1. next = "body" /\ k \in Leases
      BY <1>5, <1>6 DEF OwnsAt
    <2>2. call[w].at[2] = k /\ token'[w] = call[w].new
      BY <1>2, <2>1, SharedStateAssumption DEF ValuesInv, TypeOK
    <2> QED
      BY <1>1, <1>5, <2>1, <2>2 DEF OwnsAt, Owner
  <1>7. Unwritten(w)'
    BY <1>5 DEF Unwritten
  <1> QED
    BY <1>1, <1>4, <1>6, <1>7, OwnersKept

\* A caller asks under a fresh name, or under the one it has.
LEMMA FreshOwners ==
    ASSUME ValuesInv, OwnersInv, Plenty, NEW w \in Workers, NEW k \in Leases \cup Clicks,
           Ask(w, "idle", "acquire", k, Nil, Fresh(k))
    PROVE  OwnersInv'
  <1>1. k \in Keys /\ Fresh(k) \in Values \ Used(k) /\ Where(w, k)[2] = k
    BY FreshIsUnused DEF Keys, Claims, Where
  <1>2. PICK n \in Values \ Used(k) : n = Fresh(k)
    BY <1>1
  <1>3. /\ pc[w] = "idle" /\ pc' = [pc EXCEPT ![w] = "mutex"]
        /\ call' = [call EXCEPT ![w] = [op |-> "acquire", at |-> Where(w, k),
                                       old |-> Nil, new |-> n]]
        /\ UNCHANGED <<entry, token, reply, late, blind, overdue>>
    BY <1>2 DEF Ask, stored, history
  <1>4. /\ pc'[w] = "mutex" /\ call'[w].op = "acquire" /\ call'[w].new = n
        /\ call'[w].at[2] = k
        /\ \A u \in Workers \ {w} : pc'[u] = pc[u] /\ call'[u] = call[u]
    BY <1>1, <1>3 DEF ValuesInv, TypeOK
  <1>5. ASSUME NEW u \in Workers \ {w}, NEW j \in Keys
        PROVE  (OwnsAt(u, j)' <=> OwnsAt(u, j)) /\ Owner(u)' = Owner(u)
    BY <1>3, <1>4 DEF OwnsAt, Owner, InCall, Working
  <1>6. \A j \in Keys : OwnsAt(w, j)' => j = k /\ Owner(w)' = n
    BY <1>4 DEF OwnsAt, Owner
  <1>7. ASSUME NEW u \in Workers \ {w}, OwnsAt(u, k)
        PROVE  Owner(u) \in Used(k)
    <2>1. CASE pc[u] = "body"
      <3>1. k \in Leases
        BY <1>7, <2>1 DEF OwnsAt, InCall, Working
      <3> QED
        BY <2>1, <3>1 DEF Owner, Used
    <2>2. CASE pc[u] # "body"
      <3>1. InCall(u) /\ call[u].at[2] = k
        BY <1>7, <2>2 DEF OwnsAt
      <3>2. call[u] # NoCall
        BY <3>1, CallOf, RealCall
      <3> QED
        BY <2>2, <3>1, <3>2 DEF Owner, Used
    <2> QED
      BY <2>1, <2>2
  <1>8. Distinct'
    <2>1. ASSUME NEW j \in Keys, NEW x \in Workers, NEW y \in Workers,
                 OwnsAt(x, j)', OwnsAt(y, j)', x # y
          PROVE  Owner(x)' # Owner(y)'
      <3>1. CASE x = w
        BY <1>5, <1>6, <1>7, <2>1, <3>1
      <3>2. CASE y = w
        BY <1>5, <1>6, <1>7, <2>1, <3>2
      <3>3. CASE x # w /\ y # w
        BY <1>5, <2>1, <3>3 DEF OwnersInv, Distinct
      <3> QED
        BY <3>1, <3>2, <3>3
    <2> QED
      BY <2>1 DEF Distinct
  <1>9. ASSUME NEW u \in Workers PROVE Unwritten(u)'
    <2>1. CASE u = w
      <3>1. \A l \in Locations : l[2] = k => entry[l].value \in Used(k)
        BY DEF Used
      <3> QED
        BY <1>3, <1>4, <2>1, <3>1 DEF Unwritten
    <2>2. CASE u # w
      <3>1. Unwritten(u)
        BY DEF OwnersInv
      <3> QED
        BY <1>3, <1>4, <2>2, <3>1 DEF Unwritten, InCall, Working
    <2> QED
      BY <2>1, <2>2
  <1> QED
    BY <1>8, <1>9 DEF OwnersInv

\* Or it asks without a name of its own.
LEMMA AskOwners ==
    ASSUME ValuesInv, OwnersInv, NEW w \in Workers, NEW op \in Ops \ {"acquire"},
           NEW k \in Keys, NEW old, NEW new,
           NEW from \in {"idle", "body", "loaded", "consumed"},
           Ask(w, from, op, k, old, new),
           \/ k \notin Leases \cup Clicks
           \/ from = "body" /\ k \in Leases /\ new = token[w]
    PROVE  OwnersInv'
  <1>1. /\ pc[w] = from /\ pc' = [pc EXCEPT ![w] = "mutex"]
        /\ call' = [call EXCEPT ![w] = [op |-> op, at |-> Where(w, k),
                                       old |-> old, new |-> new]]
        /\ UNCHANGED <<entry, token, reply, late, blind, overdue>>
    BY DEF Ask, stored, history
  <1>2. /\ pc'[w] = "mutex" /\ call'[w].op = op /\ call'[w].new = new
        /\ call'[w].at[2] = k
    BY <1>1 DEF ValuesInv, TypeOK, Where
  <1>3. Alone(w)
    BY <1>1 DEF ValuesInv, TypeOK, Alone
  <1>4. \A j \in Keys : OwnsAt(w, j)' => OwnsAt(w, j) /\ Owner(w)' = Owner(w)
    BY <1>1, <1>2 DEF OwnsAt, Owner
  <1>5. Unwritten(w)'
    BY <1>2 DEF Unwritten
  <1> QED
    BY <1>1, <1>3, <1>4, <1>5, OwnersKept

\* Every caller does one or the other.
LEMMA BeginOwners ==
    ASSUME ValuesInv, OwnersInv, Plenty, NEW w \in Workers, Begin(w)
    PROVE  OwnersInv'
  <1>0. /\ Leases \subseteq Keys /\ Events \subseteq Keys /\ Records \subseteq Keys
        /\ \A k \in Events \cup Records : k \notin Leases \cup Clicks
    BY SharedStateAssumption DEF Keys, Claims
  <1>1. CASE Reconcile(w)
    BY <1>1, FreshOwners DEF Reconcile
  <1>2. CASE EndPass(w)
    BY <1>0, <1>2, AskOwners DEF EndPass, Ops
  <1>3. CASE Click(w)
    BY <1>3, FreshOwners DEF Click
  <1>4. CASE Handle(w)
    BY <1>0, <1>4, AskOwners DEF Handle, Ops
  <1>5. CASE SaveRecord(w)
    BY <1>0, <1>5, AskOwners DEF SaveRecord, Ops
  <1>6. CASE LoadRecord(w)
    BY <1>0, <1>6, AskOwners DEF LoadRecord, Ops
  <1>7. CASE ClearRecord(w)
    BY <1>0, <1>7, AskOwners DEF ClearRecord, Ops
  <1>8. CASE ConsumeRecord(w)
    BY <1>0, <1>8, AskOwners DEF ConsumeRecord, Ops
  <1> QED
    BY <1>1, <1>2, <1>3, <1>4, <1>5, <1>6, <1>7, <1>8 DEF Begin

\* What happens to the store and its processes gives nobody a name.
LEMMA WorldOwners ==
    ASSUME ValuesInv, OwnersInv,
           \/ \E l \in Locations : Lapse(l)
           \/ \E p \in Processes : Crash(p)
           \/ UNCHANGED vars
    PROVE  OwnersInv'
  <1>1. CASE UNCHANGED <<pc, call, token>> /\ \A l \in Locations : entry'[l].value = entry[l].value
    BY <1>1 DEF OwnersInv, Distinct, Unwritten, OwnsAt, Owner, InCall, Working
  <1>2. ASSUME NEW l \in Locations, Lapse(l) PROVE OwnersInv'
    <2>1. /\ UNCHANGED <<pc, call, token>>
          /\ entry' = [entry EXCEPT ![l] = [entry[l] EXCEPT !.state = "lapsed"]]
      BY <1>2 DEF Lapse
    <2>2. \A k \in Locations : entry'[k].value = entry[k].value
      <3>1. entry \in [Locations -> Entries] /\ entry[l] \in Entries
        BY DEF ValuesInv, TypeOK
      <3>2. [entry[l] EXCEPT !.state = "lapsed"].value = entry[l].value
        BY <3>1 DEF Entries
      <3> QED
        BY <2>1, <3>1, <3>2
    <2> QED
      BY <1>1, <2>1, <2>2
  <1>3. ASSUME NEW p \in Processes, Crash(p) PROVE OwnersInv'
    <2>1. ASSUME NEW u \in Workers
          PROVE  \/ pc'[u] = "idle"
                 \/ pc'[u] = pc[u] /\ call'[u] = call[u] /\ token'[u] = token[u]
      BY <1>3, CrashEffect
    <2>2. ASSUME NEW l \in Locations
          PROVE  entry'[l].value \in {entry[l].value, Nil}
      BY <1>3, CrashEffect DEF Absent, Entry
    <2>3. Distinct'
      <3>1. ASSUME NEW k \in Keys, NEW x \in Workers, NEW y \in Workers,
                   OwnsAt(x, k)', OwnsAt(y, k)', x # y
            PROVE  Owner(x)' # Owner(y)'
        <4>1. /\ OwnsAt(x, k) /\ Owner(x)' = Owner(x)
              /\ OwnsAt(y, k) /\ Owner(y)' = Owner(y)
          BY <2>1, <3>1 DEF OwnsAt, Owner, InCall, Working
        <4> QED
          BY <3>1, <4>1 DEF OwnersInv, Distinct
      <3> QED
        BY <3>1 DEF Distinct
    <2>4. ASSUME NEW u \in Workers PROVE Unwritten(u)'
      <3>1. CASE pc'[u] = "idle"
        BY <3>1 DEF Unwritten, InCall, Working
      <3>2. CASE pc'[u] = pc[u] /\ call'[u] = call[u]
        <4>1. SUFFICES ASSUME InCall(u), pc[u] # "unlock", call[u].op = "acquire",
                              NEW l \in Locations, l[2] = call[u].at[2]
                       PROVE  entry'[l].value # call[u].new
          BY <3>2 DEF Unwritten, InCall, Working
        <4>2. entry[l].value # call[u].new
          BY <4>1 DEF OwnersInv, Unwritten
        <4>3. call[u].new \in Values
          BY <4>1, CallOf DEF Asks, Keys, Claims
        <4> QED
          BY <2>2, <4>2, <4>3, SharedStateAssumption
      <3> QED
        BY <2>1, <3>1, <3>2
    <2> QED
      BY <2>3, <2>4 DEF OwnersInv
  <1>4. CASE UNCHANGED vars
    BY <1>1, <1>4 DEF vars, stored
  <1> QED
    BY <1>2, <1>3, <1>4

\* Every step keeps the names apart.
LEMMA NextOwners ==
    ASSUME Plenty, ValuesInv, OwnersInv, [Next]_vars
    PROVE  OwnersInv'
  BY BeginOwners, AdvanceOwners, ReturnOwners, WorldOwners DEF Next, Step, Advance

\* Nobody has a name at the start.
LEMMA InitOwners == Init => OwnersInv
  BY DEF Init, OwnersInv, Distinct, Unwritten, OwnsAt, InCall, Working

-----------------------------------------------------------------------------
(* What is counted.                                                        *)

\* A compare_and_set that finds what it expects is the first since the event
\* was free or the record was set, and so is an acquire of a free click.
LEMMA FirstToAct ==
    ASSUME ValuesInv, OwnersInv, ActedInv, NEW w \in Workers, InCall(w), pc[w] # "unlock",
           call[w].at \notin misread, Accepts(call[w], Found(entry[call[w].at])),
           \/ call[w].op = "cas"
           \/ call[w].op = "acquire" /\ call[w].at[2] \in Clicks
    PROVE  acted[call[w].at] = 0
  <1>1. /\ call[w].at \in Locations /\ call[w].at[2] \in Keys /\ Asks(call[w])
    BY CallOf
  <1>2. CountFits(call[w].at) /\ acted[call[w].at] \in 0..2
    BY <1>1 DEF ActedInv, ValuesInv, TypeOK
  <1>3. CASE call[w].op = "cas"
    <2>1. Found(entry[call[w].at]) = call[w].old
      BY <1>3 DEF Accepts
    <2>2. \/ call[w].at[2] \in Events /\ call[w].old = Nil
          \/ call[w].at[2] \in Records /\ call[w].old # Nil
      BY <1>1, <1>3, SharedStateAssumption DEF Asks, Keys, Claims
    <2> QED
      BY <1>2, <2>1, <2>2 DEF CountFits, Claims
  <1>4. CASE call[w].op = "acquire" /\ call[w].at[2] \in Clicks
    <2>1. Found(entry[call[w].at]) \in {Nil, call[w].new}
      BY <1>4 DEF Accepts
    <2>2. entry[call[w].at].value # call[w].new /\ call[w].new \in Values
      BY <1>1, <1>4 DEF OwnersInv, Unwritten, Asks
    <2>3. Found(entry[call[w].at]) = Nil
      BY <2>1, <2>2 DEF Found
    <2> QED
      BY <1>2, <1>4, <2>3 DEF CountFits, Claims
  <1> QED
    BY <1>3, <1>4

\* What is stored then fits the count.
LEMMA WrittenFits ==
    ASSUME ValuesInv, ActedInv, NEW w \in Workers, InCall(w),
           call[w].at \notin misread, call[w].op \in {"set", "cas", "acquire"},
           entry'[call[w].at] = Entry("live", call[w].new),
           acted'[call[w].at] = Counted(call[w]),
           call[w].op = "cas" \/ (call[w].op = "acquire" /\ call[w].at[2] \in Clicks)
             => acted[call[w].at] = 0
    PROVE  \A l \in Locations : l = call[w].at => CountFits(l)'
  <1>1. /\ call[w].at \in Locations /\ call[w].at[2] \in Keys /\ Asks(call[w])
    BY CallOf
  <1>2. CountFits(call[w].at) /\ acted[call[w].at] \in 0..2
    BY <1>1 DEF ActedInv, ValuesInv, TypeOK
  <1>3. PICK k \in Keys : k = call[w].at[2]
    BY <1>1
  <1>4. PICK l \in Locations : l = call[w].at
    BY <1>1
  <1>5. Found(Entry("live", call[w].new)) = call[w].new
    BY DEF Found, Entry
  <1>6. Found(entry'[l]) = call[w].new
    BY <1>4, <1>5
  <1>7. /\ k \in Leases => k \notin Claims /\ k \notin Records
        /\ k \in Claims => k \notin Leases /\ k \notin Records
        /\ Claims = Clicks \cup Events /\ Nil \notin Values
    BY SharedStateAssumption DEF Claims
  <1>8. CountFits(l)'
    <2>1. CASE k \in Leases
      <3>1. Counted(call[w]) = acted[l] /\ acted[l] = 0
        BY <1>1, <1>2, <1>3, <1>4, <1>7, <2>1 DEF Counted, Asks, CountFits
      <3> QED
        BY <1>3, <1>4, <1>7, <2>1, <3>1 DEF CountFits
    <2>2. CASE k \in Claims
      <3>1. acted[l] = 0 /\ call[w].new # Nil /\ call[w].op # "set"
        BY <1>1, <1>3, <1>4, <1>7, <2>2 DEF Asks
      <3>2. Counted(call[w]) = 1
        BY <1>3, <1>4, <2>2, <3>1 DEF Counted
      <3> QED
        BY <1>3, <1>4, <1>6, <1>7, <2>2, <3>1, <3>2 DEF CountFits, Found
    <2>3. CASE k \in Records
      <3>1. CASE call[w].op = "set"
        <4>1. Counted(call[w]) = 0
          BY <1>3, <1>7, <2>3, <3>1 DEF Counted
        <4> QED
          BY <1>3, <1>4, <1>7, <2>3, <4>1 DEF CountFits
      <3>2. CASE call[w].op = "cas"
        <4>1. acted[l] = 0 /\ call[w].new = Nil
          BY <1>1, <1>3, <1>4, <1>7, <2>3, <3>2 DEF Asks
        <4>2. Counted(call[w]) = 1
          BY <1>4, <3>2, <4>1 DEF Counted
        <4> QED
          BY <1>3, <1>4, <1>6, <1>7, <2>3, <4>1, <4>2 DEF CountFits, Found
      <3> QED
        BY <1>1, <1>3, <2>3, <3>1, <3>2 DEF Asks
    <2> QED
      BY <2>1, <2>2, <2>3 DEF Keys
  <1> QED
    BY <1>4, <1>8

\* A step of one worker keeps the count when it does so where the worker works.
LEMMA ActedKept ==
    ASSUME ValuesInv, ActedInv, NEW w \in Workers, Alone(w), misread \subseteq misread',
           \A l \in Locations :
              \/ Found(entry[l])' = Found(entry[l]) /\ acted'[l] = acted[l]
              \/ Working(w) /\ l = call[w].at /\ (l \notin misread' => CountFits(l)'),
           ActsFirst(w)'
    PROVE  ActedInv'
  <1>1. ASSUME NEW l \in Locations \ misread' PROVE CountFits(l)'
    <2>1. CountFits(l)
      BY DEF ActedInv
    <2> QED
      BY <2>1 DEF CountFits
  <1>2. ASSUME NEW u \in Workers \ {w} PROVE ActsFirst(u)'
    <2>1. ActsFirst(u) /\ pc'[u] = pc[u] /\ call'[u] = call[u]
      BY DEF ActedInv, Alone
    <2>2. SUFFICES ASSUME pc[u] \in {"write", "replace"}, call[u].op = "cas",
                          call[u].at \notin misread'
                   PROVE  acted'[call[u].at] = 0
      BY <2>1 DEF ActsFirst
    <2>3. acted[call[u].at] = 0
      BY <2>1, <2>2 DEF ActsFirst
    <2>4. InCall(u) /\ Working(u)
      BY <2>2 DEF InCall, Working
    <2>5. backend = "file" /\ call[u].at \in Locations
      BY <2>2, <2>4, CallOf DEF StageFits
    <2>6. Working(w) => call[u].at # call[w].at
      BY <2>4, <2>5, Exclusive DEF ValuesInv
    <2> QED
      BY <2>3, <2>5, <2>6
  <1> QED
    BY <1>1, <1>2 DEF ActedInv

\* Reading an entry does not change what is found there.
LEMMA ReadActed ==
    ASSUME ValuesInv, OwnersInv, ActedInv, NEW w \in Workers, Read(w)
    PROVE  ActedInv'
  <1>1. /\ pc[w] = "read" /\ backend = "file" /\ Working(w)
        /\ UNCHANGED <<acted, misread, call>>
        /\ Decide(w, Found(entry[call[w].at]))
        /\ entry' = IF entry[call[w].at].state = "lapsed"
                    THEN [entry EXCEPT ![call[w].at] = Absent] ELSE entry
    BY DEF Read, Working, history
  <1>2. InCall(w) /\ Alone(w) /\ call[w].at \in Locations
    BY <1>1, AdvanceAlone, CallOf DEF Advance
  <1>3. Found(entry[call[w].at]) \in Maybe
    BY <1>2, FoundType DEF ValuesInv
  <1>4. ASSUME NEW l \in Locations PROVE Found(entry[l])' = Found(entry[l])
    BY <1>1, <1>2 DEF Found, Absent, Entry, ValuesInv, TypeOK
  <1>5. ActsFirst(w)'
    <2>1. SUFFICES ASSUME pc'[w] \in {"write", "replace"}, call[w].op = "cas",
                          call[w].at \notin misread
                   PROVE  acted[call[w].at] = 0
      BY <1>1 DEF ActsFirst
    <2>2. Accepts(call[w], Found(entry[call[w].at]))
      BY <1>1, <1>3, <2>1, DecideEffect
    <2> QED
      BY <1>1, <1>2, <2>1, <2>2, FirstToAct
  <1> QED
    BY <1>1, <1>2, <1>4, <1>5, ActedKept

\* A read that fails leaves its location out of the count.
LEMMA ReadFailsActed ==
    ASSUME ValuesInv, ActedInv, NEW w \in Workers, ReadFails(w)
    PROVE  ActedInv'
  <1>1. /\ UNCHANGED <<entry, acted, call>> /\ misread' = misread \cup {call[w].at}
    BY DEF ReadFails, stored, history
  <1>2. Alone(w)
    BY AdvanceAlone DEF Advance
  <1>3. ActsFirst(w)'
    BY <1>1 DEF ActsFirst
  <1> QED
    BY <1>1, <1>2, <1>3, ActedKept DEF Found

\* The locks are taken, the new file is written, or a write fails.
LEMMA OtherActed ==
    ASSUME ValuesInv, ActedInv, NEW w \in Workers,
           Enter(w) \/ Lock(w) \/ Write(w) \/ WriteFails(w)
    PROVE  ActedInv'
  <1>1. UNCHANGED <<entry, acted, call, misread>>
    BY DEF Enter, Lock, Write, WriteFails, stored, history
  <1>2. Alone(w) /\ InCall(w)
    BY AdvanceAlone DEF Advance
  <1>3. ActsFirst(w)'
    <2>1. CASE Enter(w) \/ WriteFails(w)
      <3>1. pc'[w] \notin {"write", "replace"}
        BY <2>1 DEF Enter, WriteFails, Answer, Goto, ValuesInv, TypeOK
      <3> QED
        BY <3>1 DEF ActsFirst
    <2>2. CASE Lock(w)
      <3>1. pc'[w] = First(call[w].op) /\ call[w].op \in Ops
        BY <1>2, <2>2, CallOf DEF Lock, Goto, ValuesInv, TypeOK
      <3>2. call[w].op = "cas" => pc'[w] = "read"
        BY <3>1 DEF First
      <3> QED
        BY <1>1, <3>2 DEF ActsFirst
    <2>3. CASE Write(w)
      <3>1. pc[w] = "write" /\ ActsFirst(w)
        BY <2>3 DEF Write, ActedInv
      <3> QED
        BY <1>1, <3>1 DEF ActsFirst
    <2> QED
      BY <2>1, <2>2, <2>3
  <1> QED
    BY <1>1, <1>2, <1>3, ActedKept DEF Found

\* A rename counts what its call has won.
LEMMA ReplaceActed ==
    ASSUME ValuesInv, OwnersInv, ActedInv, NEW w \in Workers, Replace(w)
    PROVE  ActedInv'
  <1>1. /\ pc[w] = "replace" /\ pc' = [pc EXCEPT ![w] = "unlock"]
        /\ InCall(w) /\ Working(w)
        /\ entry' = [entry EXCEPT ![call[w].at] = tmp[call[w].at[2]]]
        /\ acted' = [acted EXCEPT ![call[w].at] = Counted(call[w])]
        /\ UNCHANGED <<call, misread>>
    BY DEF Replace, Answer, Written, Goto, InCall, Working
  <1>2. /\ call[w].at \in Locations /\ StageFits(w) /\ DecisionStands(w) /\ CallFits(w)
        /\ Alone(w)
    BY <1>1, CallOf, AdvanceAlone DEF Advance
  <1>3. /\ entry'[call[w].at] = Entry("live", call[w].new)
        /\ acted'[call[w].at] = Counted(call[w])
        /\ call[w].op \in {"set", "cas", "acquire"}
    BY <1>1, <1>2 DEF StageFits, ValuesInv, TypeOK
  <1>4. ASSUME call[w].at \notin misread,
               call[w].op = "cas" \/ (call[w].op = "acquire" /\ call[w].at[2] \in Clicks)
        PROVE  acted[call[w].at] = 0
    <2>1. CASE call[w].op = "cas"
      BY <1>1, <1>4, <2>1 DEF ActedInv, ActsFirst
    <2>2. CASE call[w].op = "acquire" /\ call[w].at[2] \in Clicks
      <3>1. w \notin blind
        BY <1>2, <1>4 DEF CallFits
      <3>2. Accepts(call[w], Found(entry[call[w].at]))
        BY <1>1, <1>2, <2>2, <3>1 DEF DecisionStands, Accepts
      <3> QED
        BY <1>1, <1>4, <2>2, <3>2, FirstToAct
    <2> QED
      BY <1>4, <2>1, <2>2
  <1>5. call[w].at \notin misread => \A l \in Locations : l = call[w].at => CountFits(l)'
    BY <1>1, <1>3, <1>4, WrittenFits
  <1>6. ActsFirst(w)'
    BY <1>1 DEF ActsFirst, ValuesInv, TypeOK
  <1>7. \A l \in Locations : l # call[w].at =>
           Found(entry[l])' = Found(entry[l]) /\ acted'[l] = acted[l]
    BY <1>1 DEF Found, ValuesInv, TypeOK
  <1> QED
    BY <1>1, <1>2, <1>5, <1>6, <1>7, ActedKept

\* Only leases and records are unlinked, and a record that is gone can only
\* have been acted on.
LEMMA GoneFits ==
    ASSUME ValuesInv, ActedInv, NEW w \in Workers, InCall(w),
           call[w].at \notin misread, call[w].op \in {"delete", "release"},
           entry'[call[w].at] = Absent, acted'[call[w].at] = acted[call[w].at]
    PROVE  \A l \in Locations : l = call[w].at => CountFits(l)'
  <1>1. /\ call[w].at \in Locations /\ call[w].at[2] \in Keys /\ Asks(call[w])
    BY CallOf
  <1>2. CountFits(call[w].at)
    BY <1>1 DEF ActedInv
  <1>3. PICK l \in Locations : l = call[w].at
    BY <1>1
  <1>4. l[2] \notin Claims
    BY <1>1, <1>3 DEF Asks, Claims
  <1>5. Found(entry'[l]) = Nil
    BY <1>3 DEF Found, Absent, Entry
  <1>6. CountFits(l)'
    BY <1>2, <1>3, <1>4, <1>5 DEF CountFits, Found
  <1> QED
    BY <1>3, <1>6

\* A file is removed.
LEMMA UnlinkActed ==
    ASSUME ValuesInv, ActedInv, NEW w \in Workers, Unlink(w)
    PROVE  ActedInv'
  <1>1. /\ pc[w] = "unlink" /\ pc' = [pc EXCEPT ![w] = "unlock"]
        /\ InCall(w) /\ Working(w)
        /\ entry' = [entry EXCEPT ![call[w].at] = Absent]
        /\ UNCHANGED <<acted, call, misread>>
    BY DEF Unlink, Answer, Goto, InCall, Working, history
  <1>2. /\ call[w].at \in Locations /\ StageFits(w) /\ Alone(w)
    BY <1>1, CallOf, AdvanceAlone DEF Advance
  <1>3. /\ entry'[call[w].at] = Absent /\ call[w].op \in {"delete", "release"}
    BY <1>1, <1>2 DEF StageFits, ValuesInv, TypeOK
  <1>4. call[w].at \notin misread => \A l \in Locations : l = call[w].at => CountFits(l)'
    BY <1>1, <1>3, GoneFits
  <1>5. ActsFirst(w)'
    BY <1>1 DEF ActsFirst, ValuesInv, TypeOK
  <1>6. \A l \in Locations : l # call[w].at =>
           Found(entry[l])' = Found(entry[l]) /\ acted'[l] = acted[l]
    BY <1>1 DEF Found, ValuesInv, TypeOK
  <1> QED
    BY <1>1, <1>2, <1>4, <1>5, <1>6, ActedKept

\* The memory backend does all of it in one step.
LEMMA RememberActed ==
    ASSUME ValuesInv, OwnersInv, ActedInv, NEW w \in Workers, Remember(w)
    PROVE  ActedInv'
  <1> DEFINE c == call[w]
  <1>1. /\ pc[w] = "read" /\ pc' = [pc EXCEPT ![w] = "unlock"]
        /\ InCall(w) /\ Working(w) /\ UNCHANGED <<call, misread>>
    BY DEF Remember, Answer, Goto, InCall, Working
  <1>2. c.at \in Locations /\ Alone(w) /\ c.op \in Ops /\ Asks(c)
    BY <1>1, CallOf, AdvanceAlone DEF Advance
  <1>3. ActsFirst(w)'
    BY <1>1 DEF ActsFirst, ValuesInv, TypeOK
  <1>4. CASE UNCHANGED <<entry, acted>>
    BY <1>1, <1>2, <1>3, <1>4, ActedKept DEF Found
  <1>5. CASE /\ c.op # "get" /\ Accepts(c, Found(entry[c.at]))
             /\ Written(c, IF c.op \in {"delete", "release"}
                           THEN Absent ELSE Entry("live", c.new))
    <2>1. \A l \in Locations : l # c.at =>
             Found(entry[l])' = Found(entry[l]) /\ acted'[l] = acted[l]
      BY <1>1, <1>5 DEF Written, Found, ValuesInv, TypeOK
    <2>2. acted'[c.at] = Counted(c)
      BY <1>2, <1>5 DEF Written, ValuesInv, TypeOK
    <2>3. CASE c.op \in {"delete", "release"}
      <3>1. entry'[c.at] = Absent
        BY <1>2, <1>5, <2>3 DEF Written, ValuesInv, TypeOK
      <3>2. Counted(c) = acted[c.at]
        BY <1>2, <2>3 DEF Counted, Asks, Claims
      <3>3. c.at \notin misread => \A l \in Locations : l = c.at => CountFits(l)'
        BY <1>1, <2>2, <2>3, <3>1, <3>2, GoneFits
      <3> QED
        BY <1>1, <1>2, <1>3, <2>1, <3>3, ActedKept
    <2>4. CASE c.op \notin {"delete", "release"}
      <3>1. entry'[c.at] = Entry("live", c.new) /\ c.op \in {"set", "cas", "acquire"}
        BY <1>2, <1>5, <2>4 DEF Written, Ops, ValuesInv, TypeOK
      <3>2. ASSUME c.at \notin misread,
                   c.op = "cas" \/ (c.op = "acquire" /\ c.at[2] \in Clicks)
            PROVE  acted[c.at] = 0
        BY <1>1, <1>5, <3>2, FirstToAct
      <3>3. c.at \notin misread => \A l \in Locations : l = c.at => CountFits(l)'
        BY <1>1, <2>2, <3>1, <3>2, WrittenFits
      <3> QED
        BY <1>1, <1>2, <1>3, <2>1, <3>3, ActedKept
    <2> QED
      BY <2>3, <2>4
  <1> QED
    BY <1>4, <1>5 DEF Remember

\* Calls begin and return.
LEMMA BeginActed ==
    ASSUME ValuesInv, ActedInv, NEW w \in Workers, Begin(w) \/ Return(w)
    PROVE  ActedInv'
  <1>1. Alone(w) /\ UNCHANGED <<entry, acted, misread>>
    BY BeginAlone, ReturnAlone, ReturnEffect
  <1>2. pc'[w] \notin {"write", "replace"}
    <2>1. CASE Begin(w)
      BY <2>1, BeginAlone
    <2>2. CASE Return(w)
      <3>1. PICK next \in {"body", "loaded", "consumed", "idle"} :
               pc' = [pc EXCEPT ![w] = next]
        BY <2>2, ReturnEffect
      <3> QED
        BY <3>1 DEF ValuesInv, TypeOK
    <2> QED
      BY <2>1, <2>2
  <1>3. ActsFirst(w)'
    BY <1>2 DEF ActsFirst
  <1> QED
    BY <1>1, <1>3, ActedKept DEF Found

\* An entry that lapses is free again.
LEMMA LapseActed ==
    ASSUME ValuesInv, ActedInv, NEW l \in Locations, Lapse(l)
    PROVE  ActedInv'
  <1>1. /\ Found(entry[l]) # Nil
        /\ entry' = [entry EXCEPT ![l] = [entry[l] EXCEPT !.state = "lapsed"]]
        /\ acted' = IF l[2] \in Claims THEN [acted EXCEPT ![l] = 0] ELSE acted
        /\ UNCHANGED <<misread, pc, call>>
    BY DEF Lapse
  <1>2. entry[l] \in Entries /\ entry \in [Locations -> Entries]
        /\ acted \in [Locations -> 0..2]
    BY DEF ValuesInv, TypeOK
  <1>3. entry'[l].state = "lapsed"
    BY <1>1, <1>2 DEF Entries
  <1>4. Found(entry'[l]) = Nil
    BY <1>3 DEF Found
  <1>5. l[2] \in Keys
    BY KeyOfLocation
  <1>6. ASSUME NEW k \in Locations \ misread PROVE CountFits(k)'
    <2>1. CountFits(k)
      BY <1>6 DEF ActedInv
    <2>2. CASE k # l
      <3>1. entry'[k] = entry[k] /\ acted'[k] = acted[k]
        BY <1>1, <1>2, <2>2
      <3> QED
        BY <2>1, <3>1 DEF CountFits, Found
    <2>3. CASE k = l /\ l[2] \in Claims
      <3>1. acted'[l] = 0 /\ l[2] \notin Leases /\ l[2] \notin Records
        BY <1>1, <1>2, <2>3, SharedStateAssumption
      <3> QED
        BY <2>3, <3>1 DEF CountFits
    <2>4. CASE k = l /\ l[2] \notin Claims
      <3>1. acted'[l] = acted[l]
        BY <1>1, <2>4
      <3> QED
        BY <1>1, <1>4, <2>1, <2>4, <3>1 DEF CountFits, Found
    <2> QED
      BY <2>2, <2>3, <2>4
  <1>7. ASSUME NEW u \in Workers PROVE ActsFirst(u)'
    <2>1. ActsFirst(u)
      BY DEF ActedInv
    <2>2. \A k : acted[k] = 0 => acted'[k] = 0
      BY <1>1, <1>2
    <2> QED
      BY <1>1, <2>1, <2>2 DEF ActsFirst
  <1> QED
    BY <1>1, <1>6, <1>7 DEF ActedInv

\* A crash forgets the count with the entry.
LEMMA CrashActed ==
    ASSUME ValuesInv, ActedInv, NEW p \in Processes, Crash(p)
    PROVE  ActedInv'
  <1>1. misread' = misread
    BY CrashEffect
  <1>2. ASSUME NEW k \in Locations
        PROVE  \/ entry'[k] = Absent /\ acted'[k] = 0
               \/ entry'[k] = entry[k] /\ acted'[k] = acted[k]
    BY CrashEffect
  <1>3. ASSUME NEW k \in Locations \ misread PROVE CountFits(k)'
    <2>1. CountFits(k)
      BY <1>3 DEF ActedInv
    <2>2. CASE entry'[k] = Absent /\ acted'[k] = 0
      BY <2>2 DEF CountFits, Found, Absent, Entry
    <2>3. CASE entry'[k] = entry[k] /\ acted'[k] = acted[k]
      BY <2>1, <2>3 DEF CountFits, Found
    <2> QED
      BY <1>2, <1>3, <2>2, <2>3
  <1>4. ASSUME NEW u \in Workers PROVE ActsFirst(u)'
    <2>1. ActsFirst(u)
      BY DEF ActedInv
    <2>2. CASE ProcOf[u] = p
      <3>1. pc'[u] = "idle"
        BY <2>2, CrashEffect
      <3> QED
        BY <3>1 DEF ActsFirst
    <2>3. CASE ProcOf[u] # p
      <3>1. pc'[u] = pc[u] /\ call'[u] = call[u]
        BY <2>3, CrashEffect
      <3>2. pc[u] \in {"write", "replace"} => call[u].at \in Locations
        BY CallOf DEF InCall, Working
      <3> QED
        BY <1>1, <1>2, <2>1, <3>1, <3>2 DEF ActsFirst
    <2> QED
      BY <2>2, <2>3
  <1> QED
    BY <1>1, <1>3, <1>4 DEF ActedInv

\* Every step keeps the count.
LEMMA NextActed ==
    ASSUME ValuesInv, OwnersInv, ActedInv, [Next]_vars
    PROVE  ActedInv'
  <1>1. CASE UNCHANGED vars
    BY <1>1 DEF ActedInv, CountFits, ActsFirst, Found, vars, stored, history
  <1>2. ASSUME NEW w \in Workers, Begin(w) \/ Step(w) PROVE ActedInv'
    BY <1>2, ReadActed, ReadFailsActed, OtherActed, ReplaceActed, UnlinkActed,
       RememberActed, BeginActed DEF Step
  <1> QED
    BY <1>1, <1>2, LapseActed, CrashActed DEF Next

\* At the start a claim that is stored has been acted on, and nothing else.
LEMMA InitActed == Init => ActedInv
  <1> SUFFICES ASSUME Init PROVE ActedInv
    OBVIOUS
  <1>1. ASSUME NEW l \in Locations PROVE CountFits(l)
    <2>1. acted[l] = IF entry[l].state = "live" /\ l[2] \in Claims THEN 1 ELSE 0
      BY DEF Init
    <2>2. entry[l] \in {Absent, Entry("torn", Nil), Entry("live", 1)}
      BY DEF Init
    <2>3. entry[l].state = "live" => Found(entry[l]) # Nil
      BY <2>2, SharedStateAssumption DEF Found, Absent, Entry
    <2>4. l[2] \in Claims => l[2] \notin Leases /\ l[2] \notin Records
      BY SharedStateAssumption
    <2> QED
      BY <2>1, <2>3, <2>4 DEF CountFits
  <1>2. \A w \in Workers : ActsFirst(w)
    BY DEF Init, ActsFirst
  <1> QED
    BY <1>1, <1>2 DEF ActedInv

\* A click or an event is acted upon once while its claim lasts, and a pending
\* confirmation is consumed once: whatever fails, runs out or crashes on the
\* way, unless its file could not be read (try_acquire and compare_and_set, as
\* InteractionDeduper, authorize_and_record and consume_pending_control call
\* them).
THEOREM ActsOnce == ASSUME Plenty PROVE Spec => []ActedOnce
  <1>1. ValuesInv /\ OwnersInv /\ ActedInv /\ [Next]_vars
          => ValuesInv' /\ OwnersInv' /\ ActedInv'
    BY NextValues, NextOwners, NextActed
  <1>2. ActedInv => ActedOnce
    BY DEF ActedInv, CountFits, ActedOnce
  <1> QED
    BY <1>1, <1>2, InitValues, InitOwners, InitActed, PTL DEF Spec

-----------------------------------------------------------------------------
(* Leases are kept.                                                        *)

\* While a worker has its lease in the store, no other call for that key is
\* accepted or about to change the entry.
LEMMA NoIntruder ==
    ASSUME ValuesInv, OwnersInv, LeaseKept, NEW w \in Workers, NEW u \in Workers, u # w,
           NEW l \in Locations \ misread, HasLease(u, l), u \notin overdue
    PROVE  /\ entry[l] = Entry("live", Owner(u))
           /\ InCall(w) /\ call[w].at = l =>
                /\ ~Accepts(call[w], Found(entry[l]))
                /\ pc[w] \notin {"write", "replace", "unlink"}
  <1>1. entry[l] = Entry("live", Owner(u))
    BY DEF LeaseKept
  <1>2. Found(entry[l]) = Owner(u)
    BY <1>1 DEF Found, Entry
  <1>3. l[2] \in Keys /\ l[2] \in Leases /\ OwnsAt(u, l[2])
    BY KeyOfLocation DEF HasLease, OwnsAt, InCall, Working
  <1>4. Owner(u) \in Values /\ Nil \notin Values
    <2>1. CASE pc[u] = "body"
      BY <2>1, SharedStateAssumption DEF ValuesInv, CallsFit, CallFits, Owner
    <2>2. CASE pc[u] # "body"
      BY <1>3, <2>2, CallOf, SharedStateAssumption DEF OwnsAt, Owner, Asks
    <2> QED
      BY <2>1, <2>2
  <1>5. ASSUME InCall(w), call[w].at = l
        PROVE  /\ ~Accepts(call[w], Found(entry[l]))
               /\ pc[w] \notin {"write", "replace", "unlink"}
    <2>1. call[w].op \in {"acquire", "release"}
      BY <1>3, <1>5, CallOf DEF Asks
    <2>2. pc[w] # "body" /\ OwnsAt(w, l[2])
      BY <1>3, <1>5 DEF OwnsAt, InCall, Working
    <2>3. call[w].new # Owner(u)
      BY <1>3, <2>2 DEF OwnersInv, Distinct, Owner
    <2>4. ~Accepts(call[w], Found(entry[l]))
      BY <1>2, <1>4, <2>1, <2>3 DEF Accepts
    <2>5. w \notin blind /\ DecisionStands(w)
      BY <1>5, CallOf DEF CallFits
    <2> QED
      BY <1>2, <1>4, <1>5, <2>4, <2>5 DEF DecisionStands
  <1> QED
    BY <1>1, <1>5

\* So a step of one worker is right when it is right for its own lease.
LEMMA OwnLeaseSuffices ==
    ASSUME ValuesInv, OwnersInv, LeaseKept, NEW w \in Workers, Alone(w),
           misread \subseteq misread', backend' = backend,
           \A l \in Locations :
              \/ entry'[l] = entry[l]
              \/ entry[l].state = "lapsed"
              \/ /\ InCall(w) /\ l = call[w].at
                 /\ \/ pc[w] \in {"write", "replace", "unlink"}
                    \/ Accepts(call[w], Found(entry[l])),
           \A l \in Locations \ misread' :
              HasLease(w, l)' /\ w \notin overdue' => entry'[l] = Entry("live", Owner(w)')
    PROVE  LeaseKept'
  <1>1. ASSUME NEW u \in Workers \ {w}, NEW l \in Locations \ misread',
               HasLease(u, l)', u \notin overdue'
        PROVE  entry'[l] = Entry("live", Owner(u)')
    <2>1. HasLease(u, l) /\ u \notin overdue /\ Owner(u)' = Owner(u)
      BY <1>1 DEF HasLease, Alone, Owner, Where
    <2>2. /\ entry[l] = Entry("live", Owner(u))
          /\ InCall(w) /\ call[w].at = l =>
                /\ ~Accepts(call[w], Found(entry[l]))
                /\ pc[w] \notin {"write", "replace", "unlink"}
      BY <2>1, NoIntruder
    <2>3. entry[l].state # "lapsed"
      BY <2>2 DEF Entry
    <2> QED
      BY <2>1, <2>2, <2>3
  <1> QED
    BY <1>1 DEF LeaseKept, Entry

\* A call wins its lease by storing it.
LEMMA AdvanceLeases ==
    ASSUME ValuesInv, OwnersInv, LeaseKept, NEW w \in Workers, Advance(w)
    PROVE  LeaseKept'
  <1>1. /\ InCall(w) /\ pc[w] # "unlock" /\ call' = call /\ Alone(w) /\ InCall(w)'
        /\ misread \subseteq misread'
    BY AdvanceAlone
  <1>2. backend' = backend
    BY DEF Advance, Enter, Lock, Read, ReadFails, Write, Replace, Unlink, WriteFails,
           Remember, stored, config
  <1>3. /\ call[w].at \in Locations /\ call[w].op \in Ops /\ StageFits(w)
        /\ entry \in [Locations -> Entries]
    BY <1>1, CallOf DEF ValuesInv, TypeOK
  <1>4. \A l \in Locations :
           \/ entry'[l] = entry[l]
           \/ entry[l].state = "lapsed"
           \/ /\ InCall(w) /\ l = call[w].at
              /\ \/ pc[w] \in {"write", "replace", "unlink"}
                 \/ Accepts(call[w], Found(entry[l]))
    <2>1. CASE Enter(w) \/ Lock(w) \/ ReadFails(w) \/ Write(w) \/ WriteFails(w)
      BY <2>1 DEF Enter, Lock, ReadFails, Write, WriteFails, stored
    <2>2. CASE Read(w)
      BY <1>3, <2>2 DEF Read
    <2>3. CASE Replace(w)
      BY <1>1, <1>3, <2>3 DEF Replace, Written
    <2>4. CASE Unlink(w)
      BY <1>1, <1>3, <2>4 DEF Unlink
    <2>5. CASE Remember(w)
      BY <1>1, <1>3, <2>5 DEF Remember, Written
    <2> QED
      BY <2>1, <2>2, <2>3, <2>4, <2>5 DEF Advance
  <1>5. ASSUME pc'[w] = "unlock", reply'[w].kind \notin {"no", "error"},
               call[w].op = "acquire"
        PROVE  entry'[call[w].at] = Entry("live", call[w].new)
    <2>1. CASE Enter(w) \/ Lock(w) \/ Write(w)
      BY <1>3, <1>5, <2>1 DEF Enter, Lock, Write, Goto, First, Ops, ValuesInv, TypeOK
    <2>2. CASE WriteFails(w)
      BY <1>5, <2>2 DEF WriteFails, Answer, Reply, ValuesInv, TypeOK
    <2>3. ASSUME NEW v \in Maybe, Decide(w, v), pc[w] = "read", backend = "file"
          PROVE  FALSE
      <3>1. \/ call[w].op = "get" \/ reply'[w] = Reply("no", Nil)
            \/ pc'[w] \in {"write", "unlink"}
        BY <2>3, DecideEffect
      <3>2. Reply("no", Nil).kind = "no"
        BY DEF Reply
      <3> QED
        BY <1>5, <3>1, <3>2
    <2>4. CASE Read(w)
      <3>1. Found(entry[call[w].at]) \in Maybe
        BY <1>3, FoundType DEF ValuesInv
      <3> QED
        BY <2>3, <2>4, <3>1 DEF Read
    <2>5. CASE ReadFails(w)
      BY <2>3, <2>5 DEF ReadFails, Maybe
    <2>6. CASE Replace(w)
      BY <1>3, <2>6 DEF Replace, Written, StageFits
    <2>7. CASE Unlink(w)
      BY <1>3, <1>5, <2>7 DEF Unlink, StageFits
    <2>8. CASE Remember(w)
      <3>1. reply'[w].kind = IF Accepts(call[w], Found(entry[call[w].at]))
                             THEN "ok" ELSE "no"
        BY <2>8 DEF Remember, Answer, Reply, ValuesInv, TypeOK
      <3>2. Accepts(call[w], Found(entry[call[w].at]))
        BY <1>5, <3>1
      <3> QED
        BY <1>3, <1>5, <2>8, <3>2 DEF Remember, Written
    <2> QED
      BY <2>1, <2>2, <2>4, <2>5, <2>6, <2>7, <2>8 DEF Advance
  <1>6. \A l \in Locations \ misread' :
           HasLease(w, l)' /\ w \notin overdue' => entry'[l] = Entry("live", Owner(w)')
    BY <1>1, <1>5 DEF HasLease, Owner, InCall, Working
  <1> QED
    BY <1>1, <1>2, <1>4, <1>6, OwnLeaseSuffices

\* Asking gives up the lease.
LEMMA BeginLeases ==
    ASSUME ValuesInv, OwnersInv, LeaseKept, NEW w \in Workers, Begin(w)
    PROVE  LeaseKept'
  <1>1. /\ Alone(w) /\ pc'[w] = "mutex" /\ UNCHANGED <<backend, entry, misread>>
    BY BeginAlone
  <1>2. \A l \in Locations : ~HasLease(w, l)'
    BY <1>1 DEF HasLease
  <1> QED
    BY <1>1, <1>2, OwnLeaseSuffices

\* A pass begins with the lease its call has won, or with one that failed.
LEMMA ReturnLeases ==
    ASSUME ValuesInv, OwnersInv, LeaseKept, NEW w \in Workers, Return(w)
    PROVE  LeaseKept'
  <1>1. /\ Alone(w) /\ InCall(w) /\ pc[w] = "unlock"
        /\ UNCHANGED <<backend, entry, misread>>
    BY ReturnAlone, ReturnEffect
  <1>2. PICK next \in {"body", "loaded", "consumed", "idle"} :
           /\ pc' = [pc EXCEPT ![w] = next]
           /\ next = "body" =>
                /\ token' = [token EXCEPT ![w] = call[w].new]
                /\ call[w].at[2] \in Leases /\ call[w].op = "acquire"
                /\ reply[w].kind # "no"
                /\ overdue' = IF reply[w].kind = "error" THEN overdue \cup {w}
                              ELSE overdue
    BY ReturnEffect
  <1>3. pc'[w] = next
    BY <1>2 DEF ValuesInv, TypeOK
  <1>4. ASSUME NEW l \in Locations \ misread', HasLease(w, l)', w \notin overdue'
        PROVE  entry'[l] = Entry("live", Owner(w)')
    <2>1. next = "body" /\ l[2] \in Leases /\ l = Where(w, l[2])
      BY <1>1, <1>2, <1>3, <1>4 DEF HasLease, Where
    <2>2. reply[w].kind \notin {"no", "error"} /\ w \notin overdue
      BY <1>2, <1>4, <2>1
    <2>3. call[w].at[2] = l[2]
      BY <1>2, <2>1, SharedStateAssumption
    <2>4. call[w].at = l
      BY <1>1, <2>1, <2>3, CallOf
    <2>5. HasLease(w, l)
      BY <1>1, <1>2, <2>1, <2>2, <2>4 DEF HasLease
    <2>6. Owner(w) = call[w].new /\ Owner(w)' = call[w].new
      BY <1>1, <1>2, <1>3, <2>1 DEF Owner, ValuesInv, TypeOK
    <2>7. entry[l] = Entry("live", Owner(w))
      BY <1>1, <1>4, <2>2, <2>5 DEF LeaseKept
    <2> QED
      BY <1>1, <2>6, <2>7
  <1> QED
    BY <1>1, <1>4, OwnLeaseSuffices

\* A lease that lapses is overdue.
LEMMA LapseLeases ==
    ASSUME ValuesInv, LeaseKept, NEW k \in Locations, Lapse(k)
    PROVE  LeaseKept'
  <1>1. /\ \A l \in Locations : l # k => entry'[l] = entry[l]
        /\ overdue' = overdue \cup
             {u \in Workers : k[2] \in Leases /\ Holds(u, k, entry[k].value)}
        /\ UNCHANGED <<backend, misread, pc, call, reply, token>>
    BY DEF Lapse, config, ValuesInv, TypeOK
  <1>2. ASSUME NEW u \in Workers, NEW l \in Locations \ misread',
               HasLease(u, l)', u \notin overdue'
        PROVE  entry'[l] = Entry("live", Owner(u)')
    <2>1. HasLease(u, l) /\ u \notin overdue /\ Owner(u)' = Owner(u)
      BY <1>1, <1>2 DEF HasLease, Owner, Where
    <2>2. entry[l] = Entry("live", Owner(u))
      BY <1>1, <2>1 DEF LeaseKept
    <2>3. ASSUME l = k PROVE FALSE
      <3>1. entry[k].value = Owner(u)
        BY <2>2, <2>3 DEF Entry
      <3>2. CASE pc[u] = "body"
        <4>1. l[1] = Where(u, l[2])[1] /\ l[2] \in Leases
          BY <2>1 DEF HasLease
        <4> QED
          BY <1>1, <1>2, <2>3, <3>1, <3>2, <4>1 DEF Holds, Owner
      <3>3. CASE pc[u] # "body"
        <4>1. /\ InCall(u) /\ call[u].at = l /\ l[2] \in Leases
          BY <2>1, <3>3 DEF HasLease, InCall, Working
        <4>2. call[u] # NoCall
          BY <4>1, CallOf, RealCall
        <4> QED
          BY <1>1, <1>2, <2>3, <3>1, <3>3, <4>1, <4>2 DEF Holds, Owner
      <3> QED
        BY <3>2, <3>3
    <2> QED
      BY <1>1, <2>1, <2>2, <2>3
  <1> QED
    BY <1>2 DEF LeaseKept, Entry

\* A crash takes away the leases of its own process only.
LEMMA CrashLeases ==
    ASSUME ValuesInv, LeaseKept, NEW p \in Processes, Crash(p)
    PROVE  LeaseKept'
  <1>1. UNCHANGED <<backend, misread>>
    BY CrashEffect
  <1>2. ASSUME NEW u \in Workers, NEW l \in Locations \ misread',
               HasLease(u, l)', u \notin overdue'
        PROVE  entry'[l] = Entry("live", Owner(u)')
    <2>1. ProcOf[u] # p
      <3>1. pc'[u] # "idle"
        BY <1>2 DEF HasLease
      <3> QED
        BY <3>1, CrashEffect
    <2>2. /\ pc'[u] = pc[u] /\ call'[u] = call[u] /\ reply'[u] = reply[u]
          /\ token'[u] = token[u] /\ (u \in overdue' <=> u \in overdue)
      BY <2>1, CrashEffect
    <2>3. HasLease(u, l) /\ u \notin overdue /\ Owner(u)' = Owner(u)
      BY <1>1, <1>2, <2>2 DEF HasLease, Owner, Where
    <2>4. entry[l] = Entry("live", Owner(u))
      BY <1>1, <2>3 DEF LeaseKept
    <2>5. backend = "memory" => l[1] # p
      BY <2>1, <2>3 DEF HasLease, Where
    <2>6. entry'[l] = entry[l]
      BY <2>5, CrashEffect
    <2> QED
      BY <2>3, <2>4, <2>6
  <1> QED
    BY <1>2 DEF LeaseKept, Entry

\* Every step keeps the leases.
LEMMA NextLeases ==
    ASSUME ValuesInv, OwnersInv, LeaseKept, [Next]_vars
    PROVE  LeaseKept'
  <1>1. CASE UNCHANGED vars
    BY <1>1 DEF LeaseKept, HasLease, Owner, Where, vars, stored, config, history
  <1>2. ASSUME NEW w \in Workers, Begin(w) \/ Step(w) PROVE LeaseKept'
    BY <1>2, AdvanceLeases, ReturnLeases, BeginLeases DEF Step, Advance
  <1> QED
    BY <1>1, <1>2, LapseLeases, CrashLeases DEF Next

\* Nobody has a lease at the start.
LEMMA InitLeases == Init => LeaseKept
  BY DEF Init, LeaseKept, HasLease

\* A pass of reconcile whose lease has neither run out nor failed has its lease
\* in the store: no late release of an earlier pass has taken it away, and no
\* other worker has got it, however many workers and processes there are
\* (reconcile with try_acquire and release).
THEOREM LeasesHold == ASSUME Plenty PROVE Spec => []LeaseIntact
  <1>1. ValuesInv /\ OwnersInv /\ LeaseKept /\ [Next]_vars
          => ValuesInv' /\ OwnersInv' /\ LeaseKept'
    BY NextValues, NextOwners, NextLeases
  <1>2. ValuesInv /\ LeaseKept => LeaseIntact
    <2> SUFFICES ASSUME ValuesInv, LeaseKept, NEW w \in Workers, NEW k \in Leases,
                        pc[w] = "body", w \notin overdue, Where(w, k) \notin misread
                 PROVE  entry[Where(w, k)] = Entry("live", token[w])
      BY DEF LeaseIntact
    <2>1. Where(w, k) \in Locations /\ Where(w, k)[2] = k
      BY SharedStateAssumption DEF Where, Locations, Keys
    <2>2. HasLease(w, Where(w, k))
      BY <2>1 DEF HasLease
    <2> QED
      BY <2>1, <2>2 DEF LeaseKept, Owner
  <1> QED
    BY <1>1, <1>2, InitValues, InitOwners, InitLeases, PTL DEF Spec

=============================================================================
