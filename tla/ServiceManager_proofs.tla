----------------------- MODULE ServiceManager_proofs -----------------------
(***************************************************************************)
(* For any operators, PIDs, deployments, outsiders and bounds, the calls   *)
(* of ServiceManager address no signal to a foreign program that they have *)
(* looked at; and those that run one after the other run the service once, *)
(* leave no orphan of it, and return what is true.                         *)
(***************************************************************************)
EXTENDS ServiceManager, FiniteSetTheorems, TLAPS

PidOrNone == Pids \cup {NoPid}

\* What the proof needs of a call's local variables.
IsCall(c) ==
    /\ DOMAIN c = {"op", "pid", "pids", "done", "old", "tries", "then"}
    /\ c.pid \in PidOrNone
    /\ c.pids \subseteq Pids
    /\ c.then \in {"idle", "forget", "unrecord", "next"}

Types ==
    /\ setting \in Settings
    /\ proc \in [Pids -> Kinds]
    /\ port \in PidOrNone
    /\ pidFile \in PidOrNone
    /\ renewed \in [Operators -> SUBSET Pids]
    /\ pc \in [Operators -> Stages]
    /\ DOMAIN call = Operators
    /\ \A o \in Operators : IsCall(call[o])

\* p is no foreign program, or has become one since o's call looked at it.
Harmless(o, p) == p \in Pids => (proc[p] # "foreign" \/ p \in renewed[o])

\* Where a call may still signal the PIDs it has collected, or the one at hand.
\* In runit mode a verification stops nothing.
Collected(stage, c) ==
    \/ stage \in {"down", "signal", "gone", "next"}
    \/ stage \in {"kill", "killwait"} /\ c.then = "next"
AtHand(stage) ==
    \/ stage \in {"kill", "killwait"}
    \/ ~setting.runit /\ stage \in {"record", "grace", "ident", "owner", "health"}

Supervised(stage) == stage \in {"up", "discover"} => setting.runit

Safe(o, stage, c) ==
    /\ Supervised(stage)
    /\ Collected(stage, c) => \A p \in c.pids : Harmless(o, p)
    /\ AtHand(stage) => Harmless(o, c.pid)

\* What a call is about to signal was not foreign when the call looked.
CallsSafe == \A o \in Operators : Safe(o, pc[o], call[o])

Inv == Types /\ CallsSafe /\ NoForeignTarget

\* The stages in which nothing is promised.
Calm == Stages \ {"up", "discover", "down", "signal", "gone", "next", "kill", "killwait",
                  "record", "grace", "ident", "owner", "health"}

\* What a call may signal stays harmless.
Keeps(o) == \A p \in Pids : (p \in Held(o) /\ Harmless(o, p)) => Harmless(o, p)'
Stays == renewed' \in [Operators -> SUBSET Pids] /\ \A o \in Operators : Keeps(o)

-----------------------------------------------------------------------------
(* Lemmas on the processes.                                                *)

LEMMA CalmSafe ==
    ASSUME NEW o, NEW stage \in Calm, NEW c
    PROVE  Safe(o, stage, c) /\ Safe(o, stage, c)'
  BY DEF Calm, Safe, Supervised, Collected, AtHand

LEMMA Unmoved ==
    ASSUME Types, UNCHANGED <<proc, renewed>>
    PROVE  Stays /\ proc' \in [Pids -> Kinds]
  BY DEF Types, Stays, Keeps, Harmless

\* A process that ends becomes a zombie or nothing.
LEMMA DeathSafe ==
    ASSUME Types, NEW ps \in SUBSET Pids, Die(ps), UNCHANGED renewed
    PROVE  Stays /\ proc' \in [Pids -> Kinds] /\ port' \in PidOrNone
  <1>1. proc' \in [Pids -> Kinds] /\ \A p \in Pids : proc'[p] \in {proc[p], "zombie", "none"}
    BY DEF Types, Die, Kinds
  <1>2. port' \in PidOrNone
    BY DEF Types, Die, PidOrNone
  <1> QED
    BY <1>1, <1>2 DEF Types, Stays, Keeps, Harmless

\* A new process takes a free PID; a call that has it in hand has not looked
\* at it since, unless the process is its own.
LEMMA StartSafe ==
    ASSUME Types, NEW p \in Pids, NEW kind \in Kinds, NEW by, Starts(p, kind, by)
    PROVE  /\ renewed' \in [Operators -> SUBSET Pids]
           /\ \A o \in Operators \ {by} : Keeps(o)
           /\ proc' \in [Pids -> Kinds] /\ proc'[p] = kind
  <1>1. renewed' \in [Operators -> SUBSET Pids]
    BY DEF Types, Starts
  <1>2. proc' \in [Pids -> Kinds] /\ proc'[p] = kind /\ \A q \in Pids \ {p} : proc'[q] = proc[q]
    BY DEF Types, Starts
  <1>3. ASSUME NEW o \in Operators \ {by}, NEW q \in Pids, q \in Held(o), Harmless(o, q)
        PROVE  Harmless(o, q)'
    <2>1. renewed'[o] = IF kind = "service" THEN renewed[o]
                        ELSE renewed[o] \cup ({p} \cap Held(o))
      BY <1>3 DEF Starts
    <2> QED
      BY <1>2, <1>3, <2>1 DEF Harmless
  <1> QED
    BY <1>1, <1>2, <1>3 DEF Keeps

LEMMA LeaveSafe ==
    ASSUME Types, NEW o, Leaves(o)
    PROVE  /\ \A p \in Pids : (proc[p] # "foreign") => (proc'[p] # "foreign")
           /\ proc' \in [Pids -> Kinds]
  BY DEF Types, Leaves, Kinds

\* The call of o has looked at what it may signal, or has ended.
LEMMA OthersKept ==
    ASSUME Types, NEW o \in Operators, renewed' = [renewed EXCEPT ![o] = {}],
           \A p \in Pids : (proc[p] # "foreign") => (proc'[p] # "foreign")
    PROVE  /\ renewed' \in [Operators -> SUBSET Pids]
           /\ \A u \in Operators \ {o} : Keeps(u)
  <1>1. renewed' \in [Operators -> SUBSET Pids]
    BY DEF Types
  <1>2. ASSUME NEW u \in Operators \ {o} PROVE renewed'[u] = renewed[u]
    BY <1>2 DEF Types
  <1> QED
    BY <1>1, <1>2 DEF Keeps, Harmless

-----------------------------------------------------------------------------
(* Lemmas on calls.                                                        *)

LEMMA NoCallIsCall == IsCall(NoCall)
  BY DEF NoCall, IsCall, PidOrNone

\* A call goes on.
LEMMA CallStep ==
    ASSUME Inv, NEW o \in Operators, NEW stage \in Stages, NEW c, IsCall(c),
           Continue(o, stage, c),
           setting' = setting, proc' \in [Pids -> Kinds],
           renewed' \in [Operators -> SUBSET Pids],
           \A u \in Operators \ {o} : Keeps(u),
           port' \in PidOrNone, pidFile' \in PidOrNone,
           Safe(o, stage, c)', "foreign" \notin hit'
    PROVE  Inv'
  <1> DEFINE d == IF stage \in {"fail", "forget", "mark", "halt"}
                  THEN [NoCall EXCEPT !.op = c.op, !.old = c.old] ELSE c
  <1>1. pc' = [pc EXCEPT ![o] = stage] /\ call' = [call EXCEPT ![o] = d]
    BY DEF Continue
  <1>2. IsCall(d)
    <2>1. ASSUME NEW r, IsCall(r)
          PROVE  IsCall([r EXCEPT !.op = c.op, !.old = c.old])
      BY <2>1 DEF IsCall
    <2> QED
      BY <2>1, NoCallIsCall
  <1>3. Safe(o, stage, d)'
    <2>1. CASE stage \in {"fail", "forget", "mark", "halt"}
      BY <2>1, CalmSafe DEF Calm, Stages
    <2>2. CASE stage \notin {"fail", "forget", "mark", "halt"}
      BY <2>2
    <2> QED
      BY <2>1, <2>2
  <1> HIDE DEF d
  <1>4. Types'
    BY <1>1, <1>2 DEF Inv, Types
  <1>5. ASSUME NEW u \in Operators
        PROVE  Safe(u, pc[u], call[u])'
    <2>1. CASE u = o
      <3>1. pc'[u] = stage /\ call'[u] = d
        BY <1>1, <2>1 DEF Inv, Types
      <3> QED
        BY <1>3, <2>1, <3>1 DEF Safe, Supervised, Collected, AtHand, Harmless
    <2>2. CASE u # o
      <3>1. pc'[u] = pc[u] /\ call'[u] = call[u]
        BY <1>1, <2>2 DEF Inv, Types
      <3>2. Safe(u, pc[u], call[u])
        BY DEF Inv, CallsSafe
      <3>3. \A p \in call[u].pids \cup {call[u].pid} : Harmless(u, p) => Harmless(u, p)'
        BY <2>2 DEF Keeps, Held, Harmless
      <3> QED
        BY <3>1, <3>2, <3>3 DEF Safe, Supervised, Collected, AtHand
    <2> QED
      BY <2>1, <2>2
  <1> QED
    BY <1>4, <1>5 DEF Inv, CallsSafe, NoForeignTarget, Safe, Supervised, Collected, AtHand, Harmless

\* A call goes on, perhaps with a signal, and no process moves.
LEMMA SignalledStep ==
    ASSUME Inv, NEW o \in Operators, NEW stage \in Stages, NEW c, IsCall(c),
           Continue(o, stage, c), Safe(o, stage, c),
           UNCHANGED <<setting, proc, port, renewed>>, pidFile' \in PidOrNone,
           "foreign" \notin hit'
    PROVE  Inv'
  <1>1. Safe(o, stage, c)'
    BY DEF Safe, Supervised, Collected, AtHand, Harmless
  <1>2. Stays /\ proc' \in [Pids -> Kinds]
    BY Unmoved DEF Inv
  <1> QED
    BY <1>1, <1>2, CallStep DEF Inv, Types, Stays

LEMMA QuietStep ==
    ASSUME Inv, NEW o \in Operators, NEW stage \in Stages, NEW c, IsCall(c),
           Continue(o, stage, c), Safe(o, stage, c),
           UNCHANGED <<setting, proc, port, hit, renewed>>, pidFile' \in PidOrNone
    PROVE  Inv'
  BY SignalledStep DEF Inv, NoForeignTarget

\* A call looks at what it is about to signal.
LEMMA LookedStep ==
    ASSUME Inv, NEW o \in Operators, NEW stage \in Stages, NEW c, IsCall(c),
           Looked(o, stage, c), setting' = setting, pidFile' \in PidOrNone,
           Supervised(stage),
           Collected(stage, c) => \A p \in c.pids : (p \in Pids => proc[p] # "foreign"),
           AtHand(stage) => (c.pid \in Pids => proc[c.pid] # "foreign")
    PROVE  Inv'
  <1>1. proc' = proc /\ port' = port /\ hit' = hit
    BY DEF Looked, system
  <1>2. /\ renewed' \in [Operators -> SUBSET Pids]
        /\ \A u \in Operators \ {o} : Keeps(u)
    BY <1>1, OthersKept DEF Looked, Inv
  <1>3. Safe(o, stage, c)'
    BY <1>1 DEF Safe, Supervised, Collected, AtHand, Harmless
  <1>4. proc' \in [Pids -> Kinds] /\ port' \in PidOrNone /\ "foreign" \notin hit'
    BY <1>1 DEF Inv, Types, NoForeignTarget
  <1> QED
    BY <1>2, <1>3, <1>4, CallStep DEF Looked

LEMMA GotoStep ==
    ASSUME Inv, NEW o \in Operators, NEW stage \in Stages,
           Goto(o, stage), Safe(o, stage, call[o]),
           setting' = setting, pidFile' \in PidOrNone
    PROVE  Inv'
  <1>1. IsCall(call[o])
    BY DEF Inv, Types
  <1> QED
    BY <1>1, QuietStep DEF Goto, system, history

LEMMA CalmStep ==
    ASSUME Inv, NEW o \in Operators, NEW stage \in Calm,
           Goto(o, stage), setting' = setting, pidFile' \in PidOrNone
    PROVE  Inv'
  BY GotoStep, CalmSafe DEF Calm

LEMMA ReturnStep ==
    ASSUME Inv, NEW o \in Operators, NEW ok, Return(o, ok),
           setting' = setting, pidFile' \in PidOrNone
    PROVE  Inv'
  <1>1. /\ proc' \in [Pids -> Kinds]
        /\ renewed' \in [Operators -> SUBSET Pids]
        /\ \A u \in Operators \ {o} : Keeps(u)
    BY LeaveSafe, OthersKept DEF Inv, Return
  <1>2. Safe(o, "idle", NoCall)' /\ "idle" \in Stages
    BY CalmSafe DEF Calm, Stages
  <1> QED
    BY <1>1, <1>2, NoCallIsCall, CallStep DEF Inv, Types, NoForeignTarget, Return

LEMMA StartedStep ==
    ASSUME Inv, NEW o \in Operators, Started(o),
           setting' = setting, pidFile' \in PidOrNone
    PROVE  Inv'
  BY CalmStep, ReturnStep DEF Started, Calm, Stages

LEMMA StoppedStep ==
    ASSUME Inv, NEW o \in Operators, NEW ok, Stopped(o, ok),
           setting' = setting, pidFile' \in PidOrNone
    PROVE  Inv'
  BY CalmStep, ReturnStep DEF Stopped, Calm, Stages

\* The entries of the operations promise nothing.
LEMMA EntriesCalm == StartEntry \in Calm /\ StopEntry \in Calm
  BY DEF StartEntry, StopEntry, Calm, Stages

\* A start goes to runit only where runit runs the service.
LEMMA LaunchSafe ==
    ASSUME NEW o, NEW c
    PROVE  Launch \in Stages /\ Safe(o, Launch, c)
  BY DEF Launch, Stages, Safe, Supervised, Collected, AtHand

\* The files stay PID files when they are not written.
LEMMA FileKept ==
    ASSUME Inv
    PROVE  /\ UNCHANGED files => pidFile' \in PidOrNone
           /\ UNCHANGED pidFile => pidFile' \in PidOrNone
  BY DEF Inv, Types, files

\* A call goes on to a stage that promises nothing, and no process moves.
LEMMA QuietCalm ==
    ASSUME Inv, NEW o \in Operators, NEW stage \in Calm, NEW c, IsCall(c),
           Continue(o, stage, c),
           UNCHANGED <<setting, proc, port, hit, renewed>>, pidFile' \in PidOrNone
    PROVE  Inv'
  BY QuietStep, CalmSafe DEF Calm

\* The updates of a call's variables.
LEMMA Updates ==
    ASSUME NEW c, IsCall(c)
    PROVE  /\ \A p \in PidOrNone : IsCall([c EXCEPT !.pid = p])
           /\ \A ps \in SUBSET Pids : IsCall([c EXCEPT !.pids = ps])
           /\ \A p \in PidOrNone : IsCall([c EXCEPT !.old = p])
           /\ \A op : IsCall([c EXCEPT !.op = op])
           /\ \A n : IsCall([c EXCEPT !.tries = n])
           /\ \A ps : IsCall([c EXCEPT !.done = ps])
           /\ \A t \in {"idle", "forget", "unrecord", "next"} :
                 IsCall([c EXCEPT !.then = t])
  <1>1. \A p \in PidOrNone : IsCall([c EXCEPT !.pid = p])
    BY DEF IsCall
  <1>2. \A ps \in SUBSET Pids : IsCall([c EXCEPT !.pids = ps])
    BY DEF IsCall
  <1>3. \A p \in PidOrNone : IsCall([c EXCEPT !.old = p])
    BY DEF IsCall
  <1>4. \A op : IsCall([c EXCEPT !.op = op])
    BY DEF IsCall
  <1>5. \A n : IsCall([c EXCEPT !.tries = n])
    BY DEF IsCall
  <1>6. \A ps : IsCall([c EXCEPT !.done = ps])
    BY DEF IsCall
  <1>7. \A t \in {"idle", "forget", "unrecord", "next"} :
           IsCall([c EXCEPT !.then = t])
    BY DEF IsCall
  <1> QED
    BY <1>1, <1>2, <1>3, <1>4, <1>5, <1>6, <1>7

-----------------------------------------------------------------------------
(* The steps that only decide where a call goes on.                        *)

LEMMA BeginStep ==
    ASSUME Inv, NEW o \in Operators, NEW op \in Operations, Begin(o, op)
    PROVE  Inv'
  <1>1. PICK stage \in Calm : Continue(o, stage, [NoCall EXCEPT !.op = op])
    BY EntriesCalm DEF Begin, Operations, Calm, Stages
  <1>2. IsCall([NoCall EXCEPT !.op = op])
    BY NoCallIsCall, Updates
  <1> QED
    BY <1>1, <1>2, QuietCalm, FileKept DEF Begin, system

\* A start looks at the port, the PID file and pgrep.
LEMMA LookStep ==
    ASSUME Inv, NEW o \in Operators,
           Look(o) \/ Classify(o) \/ Release(o) \/ Stale(o) \/ Saved(o) \/ Pgrep(o)
    PROVE  Inv'
  <1>0. IsCall(call[o]) /\ port \in PidOrNone /\ pidFile \in PidOrNone
    BY DEF Inv, Types
  <1>1. CASE Look(o)
    <2>1. IsCall([call[o] EXCEPT !.pids = PortOwners])
      BY <1>0, Updates DEF PortOwners, PidOrNone
    <2> QED
      BY <1>0, <1>1, <2>1, CalmStep, QuietCalm, FileKept
      DEF Look, At, Calm, Stages, system, history
  <1>2. CASE Classify(o)
    BY <1>2, CalmStep, FileKept DEF Classify, At, Calm, Stages
  <1>3. CASE Release(o)
    BY <1>3, CalmStep, FileKept DEF Release, At, Calm, Stages
  <1>4. CASE Stale(o)
    <2>1. Goto(o, "drop") \/ Goto(o, Launch)
      BY <1>4 DEF Stale
    <2> QED
      BY <1>4, <2>1, CalmStep, GotoStep, LaunchSafe, FileKept DEF Stale, At, Calm, Stages
  <1>5. CASE Saved(o)
    BY <1>5, CalmStep, FileKept DEF Saved, At, Calm, Stages
  <1>6. CASE Pgrep(o)
    <2>1. \A p \in Pids : IsCall([call[o] EXCEPT !.pid = p])
      BY <1>0, Updates DEF PidOrNone
    <2> QED
      BY <1>0, <1>6, <2>1, QuietCalm, FileKept
      DEF Pgrep, At, Calm, Stages, system, history, Matching
  <1> QED
    BY <1>1, <1>2, <1>3, <1>4, <1>5, <1>6

\* The owners are correlated without /proc.
LEMMA CorrelateStep ==
    ASSUME Inv, NEW o \in Operators, Correlate(o)
    PROVE  Inv'
  <1>1. CASE Goto(o, "fail")
    BY <1>1, CalmStep, FileKept DEF Correlate, At, Calm, Stages
  <1>2. CASE ~Goto(o, "fail")
    <2>1. PICK hints \in {{}, {port}} :
             LET candidates == (Matching \cup {pidFile} \cup hints) \ {NoPid} IN
             Continue(o, "reverify", [call[o] EXCEPT !.pids = candidates])
             /\ UNCHANGED <<system, history>>
      BY <1>2 DEF Correlate
    <2> DEFINE candidates == (Matching \cup {pidFile} \cup hints) \ {NoPid}
    <2>2. candidates \subseteq Pids
      BY DEF Inv, Types, Matching, PidOrNone
    <2>3. IsCall([call[o] EXCEPT !.pids = candidates])
      <3> HIDE DEF candidates
      <3> QED
        BY <2>2, Updates DEF Inv, Types
    <2> QED
      BY <2>1, <2>3, QuietCalm, FileKept DEF Correlate, At, Calm, Stages, system, history
  <1> QED
    BY <1>1, <1>2

\* The PID file is removed.
LEMMA RemovePidStep ==
    ASSUME Inv, NEW o \in Operators, RemovePid(o)
    PROVE  Inv'
  <1>1. pidFile' \in PidOrNone
    BY DEF RemovePid, PidOrNone
  <1>2. \E stage \in Calm \cup {Launch} : Goto(o, stage)
    BY EntriesCalm DEF RemovePid, Calm, Stages
  <1> QED
    BY <1>1, <1>2, CalmStep, GotoStep, LaunchSafe DEF RemovePid

\* A call returns, or writes a status file on its way.
LEMMA EndStep ==
    ASSUME Inv, NEW o \in Operators,
           Mark(o) \/ Fail(o) \/ Unrecord(o) \/ Verify(o) \/ Erase(o) \/ Halt(o)
             \/ New(o) \/ Seen(o) \/ Amend(o)
    PROVE  Inv'
  <1> USE DEF At, Calm, Stages
  <1>1. CASE Mark(o)
    BY <1>1, StartedStep, FileKept DEF Mark
  <1>2. CASE Fail(o)
    BY <1>2, ReturnStep, FileKept DEF Fail
  <1>3. CASE Unrecord(o)
    BY <1>3, StoppedStep, CalmStep DEF Unrecord, PidOrNone
  <1>4. CASE Verify(o)
    BY <1>4, StoppedStep, CalmStep, FileKept DEF Verify
  <1>5. CASE Erase(o)
    BY <1>5, CalmStep DEF Erase, PidOrNone
  <1>6. CASE Halt(o)
    BY <1>6, StoppedStep, FileKept DEF Halt
  <1>7. CASE New(o)
    BY <1>7, ReturnStep, FileKept DEF New
  <1>8. CASE Seen(o)
    BY <1>8, CalmStep, FileKept DEF Seen
  <1>9. CASE Amend(o)
    BY <1>9, ReturnStep, FileKept DEF Amend
  <1> QED
    BY <1>1, <1>2, <1>3, <1>4, <1>5, <1>6, <1>7, <1>8, <1>9

\* A restart passes from the old process to the new one; a report finds one.
LEMMA PassStep ==
    ASSUME Inv, NEW o \in Operators, Old(o) \/ OldGone(o) \/ Find(o)
    PROVE  Inv'
  <1>0. IsCall(call[o]) /\ pidFile \in PidOrNone
    BY DEF Inv, Types
  <1>1. CASE Old(o)
    <2>1. IsCall([call[o] EXCEPT !.old = pidFile])
      BY <1>0, Updates
    <2> QED
      BY <1>0, <1>1, <2>1, QuietCalm, EntriesCalm, FileKept
      DEF Old, At, Calm, Stages, system, history
  <1>2. CASE OldGone(o)
    <2> DEFINE c == [NoCall EXCEPT !.op = "restart", !.old = call[o].old]
    <2>1. IsCall(c)
      <3>1. ASSUME NEW r, IsCall(r)
            PROVE  IsCall([r EXCEPT !.op = "restart", !.old = call[o].old])
        BY <3>1 DEF IsCall
      <3> QED
        BY <3>1, NoCallIsCall
    <2>2. CASE Goto(o, "fail")
      BY <1>2, <2>2, CalmStep, FileKept DEF OldGone, At, Calm, Stages
    <2>3. CASE Return(o, FALSE)
      BY <1>2, <2>3, ReturnStep, FileKept DEF OldGone, At
    <2>4. CASE Continue(o, StartEntry, c) /\ UNCHANGED <<system, history>>
      <3> HIDE DEF c
      <3> QED
        BY <1>2, <2>1, <2>4, QuietCalm, EntriesCalm, FileKept
        DEF OldGone, At, system, history
    <2> QED
      BY <1>2, <2>2, <2>3, <2>4 DEF OldGone
  <1>3. CASE Find(o)
    <2>1. \A p \in Pids : IsCall([call[o] EXCEPT !.pid = p])
      BY <1>0, Updates DEF PidOrNone
    <2> QED
      BY <1>0, <1>3, <2>1, QuietCalm, ReturnStep, FileKept
      DEF Find, At, Calm, Stages, system, history, Matching
  <1> QED
    BY <1>1, <1>2, <1>3

-----------------------------------------------------------------------------
(* The steps on the way to a signal.                                       *)

\* The owners of the port are the service when they are looked at again.
LEMMA ReverifyStep ==
    ASSUME Inv, NEW o \in Operators, Reverify(o)
    PROVE  Inv'
  <1>1. CASE \E p \in call[o].pids : ~Strict(o, p)
    BY <1>1, CalmStep, FileKept DEF Reverify, At, Calm, Stages
  <1>2. CASE \A p \in call[o].pids : Strict(o, p)
    <2>1. PICK stage \in {"down", "signal"} : Looked(o, stage, call[o])
      BY <1>2 DEF Reverify
    <2>2. \A p \in call[o].pids : (p \in Pids => proc[p] # "foreign")
      BY <1>2 DEF Strict
    <2>3. Supervised(stage) /\ ~AtHand(stage) /\ stage \in Stages
      BY <2>1 DEF Supervised, AtHand, Stages
    <2>4. IsCall(call[o]) /\ setting' = setting /\ pidFile' \in PidOrNone
      BY FileKept DEF Inv, Types, Reverify, At
    <2> QED
      BY <2>1, <2>2, <2>3, <2>4, LookedStep
  <1> QED
    BY <1>1, <1>2

LEMMA SvDownStep ==
    ASSUME Inv, NEW o \in Operators, SvDown(o)
    PROVE  Inv'
  <1>1. IsCall(call[o]) /\ Safe(o, pc[o], call[o])
    BY DEF Inv, Types, CallsSafe
  <1>2. PICK stage \in {"signal", "read"} :
           /\ Continue(o, stage, call[o])
           /\ stage = "signal" => pc[o] = "down"
    BY DEF SvDown
  <1>3. Safe(o, stage, call[o])
    BY <1>1, <1>2 DEF Safe, Supervised, Collected, AtHand
  <1>4. stage \in Stages
    BY DEF Stages
  <1> QED
    BY <1>1, <1>2, <1>3, <1>4, QuietStep, FileKept DEF SvDown

\* The PIDs of an owner are taken one by one.
LEMMA SignalStep ==
    ASSUME Inv, NEW o \in Operators, Signal(o) \/ Gone(o)
    PROVE  Inv'
  <1>1. IsCall(call[o]) /\ call[o].pids \subseteq Pids
    BY DEF Inv, Types, IsCall
  <1>2. \A p \in call[o].pids : Harmless(o, p)
    BY DEF Inv, CallsSafe, Safe, Supervised, Collected, Signal, Gone, At
  <1>3. ASSUME NEW p \in PidOrNone
        PROVE  LET c == [call[o] EXCEPT !.pids = @ \ {p}, !.done = @ \cup {p}] IN
               IsCall(c) /\ Safe(o, "signal", c)
    <2> DEFINE c == [call[o] EXCEPT !.pids = @ \ {p}, !.done = @ \cup {p}]
    <2>1. ASSUME NEW r, IsCall(r)
          PROVE  LET d == [r EXCEPT !.pids = @ \ {p}, !.done = @ \cup {p}] IN
                 IsCall(d) /\ d.pids \subseteq r.pids
      BY <2>1 DEF IsCall
    <2>2. IsCall(c) /\ c.pids \subseteq call[o].pids
      BY <1>1, <2>1
    <2> HIDE DEF c
    <2>3. Safe(o, "signal", c)
      BY <1>2, <2>2 DEF Safe, Supervised, Collected, AtHand
    <2> QED
      BY <2>2, <2>3 DEF c
  <1>4. CASE Signal(o) /\ \E stage \in {"fail", "release"} :
               Continue(o, stage, call[o]) /\ UNCHANGED hit
    BY <1>1, <1>4, QuietCalm, FileKept DEF Signal, At, Calm, Stages
  <1>5. CASE Signal(o) /\ \E p \in call[o].pids :
               /\ Alive(o, p)
               /\ Addresses(o, p)
               /\ Continue(o, "gone", [call[o] EXCEPT !.pid = p])
    <2>1. PICK p \in call[o].pids :
               /\ Addresses(o, p)
               /\ Continue(o, "gone", [call[o] EXCEPT !.pid = p])
      BY <1>5
    <2> DEFINE c == [call[o] EXCEPT !.pid = p]
    <2>2. IsCall(c) /\ c.pids = call[o].pids
      BY <1>1, Updates DEF IsCall, PidOrNone
    <2>3. "foreign" \notin hit'
      BY <1>1, <1>2, <2>1 DEF Inv, NoForeignTarget, Harmless, Addresses
    <2> HIDE DEF c
    <2>4. Safe(o, "gone", c)
      BY <1>2, <2>2 DEF Safe, Supervised, Collected, AtHand
    <2>5. Continue(o, "gone", c) /\ "gone" \in Stages
      BY <2>1 DEF c, Stages
    <2> QED
      BY <1>5, <2>2, <2>3, <2>4, <2>5, SignalledStep, FileKept DEF Signal, At
  <1>6. CASE Signal(o) /\ \E p \in call[o].pids :
               /\ Continue(o, "signal", [call[o] EXCEPT !.pids = @ \ {p},
                                                        !.done = @ \cup {p}])
               /\ UNCHANGED hit
    BY <1>1, <1>3, <1>6, QuietStep, FileKept DEF Signal, At, Stages, PidOrNone
  <1>7. CASE Gone(o)
    <2>1. call[o].pid \in PidOrNone
      BY <1>1 DEF IsCall
    <2> QED
      BY <1>1, <1>3, <1>7, <2>1, QuietStep, QuietCalm, FileKept
      DEF Gone, At, Calm, Stages, system, history
  <1> QED
    BY <1>4, <1>5, <1>6, <1>7 DEF Signal

-----------------------------------------------------------------------------
(* The steps of a start under runit or as a child.                         *)

\* A verification goes on or ends; the process at hand stays the same.
LEMMA RetryStep ==
    ASSUME Inv, NEW o \in Operators, Retry(o),
           setting.runit \/ Harmless(o, call[o].pid),
           setting' = setting, pidFile' \in PidOrNone
    PROVE  Inv'
  <1>0. IsCall(call[o])
    BY DEF Inv, Types
  <1>1. CASE \E stage \in {"discover", "ident"} :
               /\ Continue(o, stage, [call[o] EXCEPT !.tries = @ - 1])
               /\ stage = "discover" <=> setting.runit
               /\ UNCHANGED <<system, history>>
    <2>1. PICK stage \in {"discover", "ident"} :
               /\ Continue(o, stage, [call[o] EXCEPT !.tries = @ - 1])
               /\ stage = "discover" <=> setting.runit
      BY <1>1
    <2> DEFINE c == [call[o] EXCEPT !.tries = @ - 1]
    <2>2. IsCall(c) /\ c.pid = call[o].pid
      BY <1>0 DEF IsCall
    <2> HIDE DEF c
    <2>3. Safe(o, stage, c)
      BY <2>1, <2>2 DEF Safe, Supervised, Collected, AtHand
    <2>4. Continue(o, stage, c) /\ stage \in Stages
      BY <2>1 DEF c, Stages
    <2> QED
      BY <1>1, <2>2, <2>3, <2>4, QuietStep DEF system, history
  <1>2. CASE Continue(o, "fail", call[o]) /\ UNCHANGED <<system, history>>
    BY <1>0, <1>2, QuietCalm DEF Calm, Stages, system, history
  <1>3. CASE /\ Continue(o, "kill", [call[o] EXCEPT !.then = "forget"])
             /\ ~setting.runit /\ UNCHANGED <<system, history>>
    <2> DEFINE c == [call[o] EXCEPT !.then = "forget"]
    <2>1. IsCall(c) /\ c.pid = call[o].pid /\ c.then = "forget"
      BY <1>0 DEF IsCall
    <2> HIDE DEF c
    <2>2. Safe(o, "kill", c)
      BY <1>3, <2>1 DEF Safe, Supervised, Collected, AtHand
    <2>3. Continue(o, "kill", c) /\ "kill" \in Stages
      BY <1>3 DEF c, Stages
    <2> QED
      BY <1>3, <2>1, <2>2, <2>3, QuietStep DEF system, history
  <1> QED
    BY <1>1, <1>2, <1>3 DEF Retry

\* Whatever runit or the port shows is verified.
LEMMA RunitStep ==
    ASSUME Inv, NEW o \in Operators, SvUp(o) \/ Discover(o)
    PROVE  Inv'
  <1>0. IsCall(call[o]) /\ setting.runit
    BY DEF Inv, Types, CallsSafe, Safe, Supervised, SvUp, Discover, At
  <1>1. CASE SvUp(o)
    <2> DEFINE c == [call[o] EXCEPT !.tries = Retries]
    <2>1. IsCall(c)
      BY <1>0, Updates
    <2> HIDE DEF c
    <2>2. Safe(o, "discover", c) /\ "discover" \in Stages
      BY <1>0 DEF Safe, Supervised, Collected, AtHand, Stages
    <2>3. CASE Goto(o, "fail")
      BY <1>1, <2>3, CalmStep, FileKept DEF SvUp, At, Calm, Stages
    <2>4. CASE Continue(o, "discover", c) /\ UNCHANGED <<proc, port, history>>
      BY <1>1, <2>1, <2>2, <2>4, QuietStep, FileKept DEF SvUp, At, history
    <2> QED
      BY <1>1, <2>3, <2>4 DEF SvUp, c
  <1>2. CASE Discover(o)
    <2>1. CASE Retry(o)
      BY <1>0, <1>2, <2>1, RetryStep, FileKept DEF Discover, At
    <2>2. CASE ~Retry(o)
      <3>1. PICK p \in Candidates(o) : Continue(o, "ident", [call[o] EXCEPT !.pid = p])
        BY <1>2, <2>2 DEF Discover
      <3>2. p \in PidOrNone
        BY DEF Candidates, PortOwners, Matching, PidOrNone, Inv, Types
      <3> DEFINE c == [call[o] EXCEPT !.pid = p]
      <3>3. IsCall(c)
        BY <1>0, <3>2, Updates
      <3> HIDE DEF c
      <3>4. Safe(o, "ident", c) /\ Continue(o, "ident", c) /\ "ident" \in Stages
        BY <1>0, <3>1 DEF Safe, Supervised, Collected, AtHand, Stages, c
      <3> QED
        BY <1>2, <2>2, <3>3, <3>4, QuietStep, FileKept DEF Discover, At, system, history
    <2> QED
      BY <2>1, <2>2
  <1> QED
    BY <1>1, <1>2

\* The child is the service.
LEMMA SpawnStep ==
    ASSUME Inv, NEW o \in Operators, Spawn(o)
    PROVE  Inv'
  <1>1. CASE \E stage \in {"fail", "forget"} : Goto(o, stage)
    BY <1>1, CalmStep, FileKept DEF Spawn, At, Calm, Stages
  <1>2. ASSUME NEW p \in Pids, Starts(p, "service", o),
               Continue(o, "record", [call[o] EXCEPT !.pid = p, !.tries = Retries]),
               UNCHANGED <<port, hit>>
        PROVE  Inv'
    <2>1. /\ proc' \in [Pids -> Kinds] /\ proc'[p] = "service"
          /\ renewed' \in [Operators -> SUBSET Pids]
          /\ \A u \in Operators \ {o} : Keeps(u)
      BY <1>2, StartSafe DEF Inv, Kinds
    <2>2. PICK c : c = [call[o] EXCEPT !.pid = p, !.tries = Retries]
      OBVIOUS
    <2>3. IsCall(c) /\ c.pid = p
      <3>1. ASSUME NEW r, IsCall(r)
            PROVE  LET d == [r EXCEPT !.pid = p, !.tries = Retries] IN
                   IsCall(d) /\ d.pid = p
        BY <3>1 DEF IsCall, PidOrNone
      <3>2. IsCall(call[o])
        BY DEF Inv, Types
      <3> QED
        BY <2>2, <3>1, <3>2
    <2>4. Safe(o, "record", c)' /\ "record" \in Stages
      BY <2>1, <2>3 DEF Safe, Supervised, Collected, AtHand, Harmless, Stages
    <2>5. port' \in PidOrNone /\ "foreign" \notin hit'
      BY <1>2 DEF Inv, Types, NoForeignTarget
    <2> QED
      BY <1>2, <2>1, <2>2, <2>3, <2>4, <2>5, CallStep, FileKept DEF Spawn
  <1> QED
    BY <1>1, <1>2 DEF Spawn

\* Its PID is saved and it is verified.
LEMMA VerifyStep ==
    ASSUME Inv, NEW o \in Operators,
           Record(o) \/ Grace(o) \/ Ident(o) \/ Owner(o) \/ Health(o) \/ Adopt(o)
    PROVE  Inv'
  <1>0. /\ IsCall(call[o]) /\ Safe(o, pc[o], call[o]) /\ call[o].pid \in PidOrNone
        /\ \A stage \in {"grace", "ident", "owner", "health"} : stage \in Stages
    BY DEF Inv, Types, CallsSafe, IsCall, Stages
  <1>1. CASE Record(o)
    <2>1. pidFile' \in PidOrNone
      BY <1>0, <1>1 DEF Record, Inv, Types
    <2>2. Safe(o, "grace", call[o])
      BY <1>0, <1>1 DEF Record, At, Safe, Supervised, Collected, AtHand
    <2> QED
      BY <1>0, <1>1, <2>1, <2>2, QuietStep, QuietCalm
      DEF Record, At, Calm, Stages, system
  <1>2. CASE Grace(o)
    <2>1. Safe(o, "ident", call[o])
      BY <1>0, <1>2 DEF Grace, At, Safe, Supervised, Collected, AtHand
    <2> QED
      BY <1>0, <1>2, <2>1, GotoStep, CalmStep, FileKept DEF Grace, At, Calm, Stages
  <1>3. CASE Ident(o) \/ Owner(o) \/ Health(o)
    <2>1. setting.runit \/ Harmless(o, call[o].pid)
      BY <1>0, <1>3 DEF Ident, Owner, Health, At, Safe, AtHand, Inv, Types
    <2>2. Safe(o, "owner", call[o]) /\ Safe(o, "health", call[o])
      BY <2>1 DEF Safe, Supervised, Collected, AtHand
    <2>3. \/ Retry(o)
          \/ \E stage \in {"owner", "health"} : Goto(o, stage)
          \/ \E stage \in {"adopt", "mark"} : Goto(o, stage)
      BY <1>3 DEF Ident, Owner, Health
    <2> QED
      BY <1>0, <1>3, <2>1, <2>2, <2>3, RetryStep, GotoStep, CalmStep, FileKept
      DEF Ident, Owner, Health, At, Calm, Stages
  <1>4. CASE Adopt(o)
    BY <1>0, <1>4, CalmStep DEF Adopt, Calm, Stages
  <1> QED
    BY <1>1, <1>2, <1>3, <1>4

-----------------------------------------------------------------------------
(* The steps of a stop.                                                    *)

\* The PID at hand is signalled.
LEMMA KillStep ==
    ASSUME Inv, NEW o \in Operators, Kill(o) \/ KillWait(o)
    PROVE  Inv'
  <1>0. /\ IsCall(call[o]) /\ call[o].pid \in PidOrNone /\ call[o].then \in Stages
        /\ call[o].then \in {"idle", "forget", "unrecord", "next"}
        /\ Safe(o, pc[o], call[o])
    BY DEF Inv, Types, CallsSafe, IsCall, Stages
  <1>1. CASE Kill(o) /\ Alive(o, call[o].pid)
    <2>1. "foreign" \notin hit'
      <3>1. proc[call[o].pid] # "foreign" \/ call[o].pid \in renewed[o]
        BY <1>0, <1>1 DEF Kill, At, Alive, Safe, AtHand, Harmless, PidOrNone
      <3> QED
        BY <1>1, <3>1 DEF Kill, Inv, NoForeignTarget, Addresses
    <2>2. Safe(o, "killwait", call[o]) /\ "killwait" \in Stages
      BY <1>0, <1>1 DEF Kill, At, Safe, Supervised, Collected, AtHand, Stages
    <2> QED
      BY <1>0, <1>1, <2>1, <2>2, SignalledStep, FileKept DEF Kill, At
  \* The call goes on where it was to go on.
  <1>2. ASSUME NEW ps
        PROVE  /\ IsCall([call[o] EXCEPT !.done = ps])
               /\ pc[o] \in {"kill", "killwait"}
                    => Safe(o, call[o].then, [call[o] EXCEPT !.done = ps])
    <2>1. PICK c : c = [call[o] EXCEPT !.done = ps]
      OBVIOUS
    <2>2. IsCall(c) /\ c.pids = call[o].pids
      BY <1>0, <2>1, Updates DEF IsCall
    <2>3. pc[o] \in {"kill", "killwait"} => Safe(o, call[o].then, c)
      BY <1>0, <2>2 DEF Safe, Supervised, Collected, AtHand
    <2> QED
      BY <2>1, <2>2, <2>3
  <1>3. CASE Kill(o) /\ ~Alive(o, call[o].pid)
    BY <1>0, <1>2, <1>3, QuietStep, FileKept DEF Kill, At
  <1>4. CASE KillWait(o) /\ ~Alive(o, call[o].pid)
    BY <1>0, <1>2, <1>4, QuietStep, FileKept DEF KillWait, At, system, history
  <1>5. CASE KillWait(o) /\ Alive(o, call[o].pid)
    <2>0. call[o].pid \in Pids
      BY <1>0, <1>5 DEF KillWait, Alive, PidOrNone
    <2>1. PICK ps \in SUBSET Pids : Die(ps)
      <3>1. Mates(call[o].pid) \subseteq Pids
        BY DEF Mates
      <3>2. PICK mates \in SUBSET Mates(call[o].pid) : Die({call[o].pid} \cup mates)
        BY <1>5 DEF KillWait
      <3> QED
        BY <2>0, <3>1, <3>2
    <2>2. Stays /\ proc' \in [Pids -> Kinds] /\ port' \in PidOrNone
      BY <1>5, <2>1, DeathSafe DEF Inv, KillWait
    <2>8. "foreign" \notin hit'
      <3>1. proc[call[o].pid] # "foreign" \/ call[o].pid \in renewed[o]
        BY <1>0, <1>5, <2>0 DEF KillWait, At, Safe, AtHand, Harmless
      <3> QED
        BY <1>5, <3>1 DEF KillWait, Inv, NoForeignTarget, Addresses
    <2> PICK t : t = call[o].then
      OBVIOUS
    <2>3. PICK c : /\ Continue(o, t, c)
                   /\ c = call[o] \/ \E qs : c = [call[o] EXCEPT !.done = qs]
      BY <1>5 DEF KillWait
    <2>4. IsCall(c) /\ c.pids = call[o].pids
      BY <1>0, <2>3, Updates DEF IsCall
    <2>5. \A p \in call[o].pids \cup {call[o].pid} : Harmless(o, p) => Harmless(o, p)'
      BY <2>2 DEF Stays, Keeps, Held, Harmless
    <2>6. Safe(o, t, c)
      BY <1>0, <1>5, <2>4 DEF KillWait, At, Safe, Supervised, Collected, AtHand
    <2>7. Safe(o, t, c)'
      BY <1>0, <2>4, <2>5, <2>6 DEF Safe, Supervised, Collected, AtHand
    <2> QED
      BY <1>0, <1>5, <2>2, <2>3, <2>4, <2>7, <2>8, CallStep, FileKept
      DEF KillWait, At, Stays
  <1> QED
    BY <1>1, <1>3, <1>4, <1>5

\* What the PID file names is read, and left alone when it is something else.
LEMMA ReadStep ==
    ASSUME Inv, NEW o \in Operators, Read(o) \/ Check(o)
    PROVE  Inv'
  <1>0. IsCall(call[o]) /\ call[o].pid \in PidOrNone /\ pidFile \in PidOrNone
    BY DEF Inv, Types, IsCall
  <1>1. CASE Read(o)
    BY <1>0, <1>1, Updates, QuietCalm, FileKept
    DEF Read, At, Calm, Stages, system, history
  <1>2. CASE Check(o) /\ Mismatched(o, call[o].pid)
    BY <1>2, CalmStep, FileKept DEF Check, At, Calm, Stages
  <1>3. CASE Check(o) /\ ~Mismatched(o, call[o].pid)
    <2>1. PICK c : c = [call[o] EXCEPT !.then = "unrecord"]
      OBVIOUS
    <2>2. IsCall(c) /\ c.pid = call[o].pid /\ c.then = "unrecord"
      BY <1>0, <2>1 DEF IsCall
    <2>3. c.pid \in Pids => proc[c.pid] # "foreign"
      BY <1>3, <2>2, ServiceManagerAssumption DEF Mismatched, Alive
    <2>4. Supervised("kill") /\ ~Collected("kill", c) /\ "kill" \in Stages
      BY <2>2 DEF Supervised, Collected, Stages
    <2>5. Looked(o, "kill", c)
      BY <1>3, <2>1 DEF Check
    <2>6. setting' = setting /\ pidFile' \in PidOrNone
      BY <1>3, FileKept DEF Check, At
    <2> QED
      BY <2>2, <2>3, <2>4, <2>5, <2>6, LookedStep
  <1> QED
    BY <1>1, <1>2, <1>3

\* What pgrep finds is the service.
LEMMA PatternStep ==
    ASSUME Inv, NEW o \in Operators, Pattern(o) \/ NextPid(o)
    PROVE  Inv'
  <1>0. IsCall(call[o]) /\ call[o].pids \subseteq Pids /\ Safe(o, pc[o], call[o])
    BY DEF Inv, Types, CallsSafe, IsCall
  <1>1. CASE Pattern(o)
    <2>1. PICK c : c = [call[o] EXCEPT !.pids = Matching]
      OBVIOUS
    <2>2. IsCall(c) /\ c.pids = Matching
      BY <1>0, <2>1 DEF IsCall, Matching
    <2>3. \A p \in c.pids : proc[p] # "foreign"
      BY <2>2 DEF Matching
    <2>4. Supervised("next") /\ ~AtHand("next") /\ "next" \in Stages
      BY DEF Supervised, AtHand, Stages
    <2>5. Looked(o, "next", c)
      BY <1>1, <2>1 DEF Pattern
    <2>6. setting' = setting /\ pidFile' \in PidOrNone
      BY <1>1, FileKept DEF Pattern, At
    <2> QED
      BY <2>2, <2>3, <2>4, <2>5, <2>6, LookedStep
  <1>2. CASE NextPid(o) /\ call[o].pids = {} /\ (Stopped(o, FALSE) \/ Goto(o, "verify"))
    BY <1>2, StoppedStep, CalmStep, FileKept DEF NextPid, At, Calm, Stages
  <1>3. ASSUME NextPid(o), NEW p \in call[o].pids,
               Continue(o, "kill", [call[o] EXCEPT !.pid = p, !.pids = @ \ {p},
                                                   !.then = "next"]),
               UNCHANGED <<system, history>>
        PROVE  Inv'
    <2>1. PICK c : c = [call[o] EXCEPT !.pid = p, !.pids = @ \ {p}, !.then = "next"]
      OBVIOUS
    <2>2. IsCall(c) /\ c.pid = p /\ c.pids \subseteq call[o].pids
      <3>1. ASSUME NEW r, IsCall(r)
            PROVE  LET d == [r EXCEPT !.pid = p, !.pids = @ \ {p}, !.then = "next"] IN
                   IsCall(d) /\ d.pid = p /\ d.pids \subseteq r.pids
        BY <1>0, <3>1 DEF IsCall, PidOrNone
      <3> QED
        BY <1>0, <2>1, <3>1
    <2>3. \A q \in call[o].pids : Harmless(o, q)
      BY <1>0, <1>3 DEF NextPid, At, Safe, Collected
    <2>4. Safe(o, "kill", c) /\ "kill" \in Stages
      BY <2>2, <2>3 DEF Safe, Supervised, Collected, AtHand, Stages
    <2> QED
      BY <1>3, <2>1, <2>2, <2>4, QuietStep, FileKept DEF NextPid, At, system, history
  <1> QED
    BY <1>1, <1>2, <1>3 DEF NextPid

-----------------------------------------------------------------------------
(* The environment.                                                        *)

\* Processes move and no call does.
LEMMA WorldStep ==
    ASSUME Inv, UNCHANGED <<setting, pidFile, pc, call, hit>>,
           Stays, proc' \in [Pids -> Kinds], port' \in PidOrNone
    PROVE  Inv'
  <1>1. ASSUME NEW o \in Operators PROVE Safe(o, pc[o], call[o])'
    <2>1. Safe(o, pc[o], call[o])
      BY DEF Inv, CallsSafe
    <2>2. \A p \in call[o].pids \cup {call[o].pid} : Harmless(o, p) => Harmless(o, p)'
      BY DEF Stays, Keeps, Held, Harmless
    <2> QED
      BY <2>1, <2>2 DEF Safe, Supervised, Collected, AtHand
  <1>2. Types'
    BY DEF Inv, Types, IsCall, Stays
  <1> QED
    BY <1>1, <1>2 DEF Inv, CallsSafe, NoForeignTarget

LEMMA EnvironmentStep ==
    ASSUME Inv, Environment
    PROVE  Inv'
  <1>0. port \in PidOrNone
    BY DEF Inv, Types
  <1>1. ASSUME NEW p \in Pids, Bind(p) PROVE Inv'
    BY <1>1, Unmoved, WorldStep DEF Bind, External, Inv, PidOrNone, files
  <1>2. ASSUME NEW p \in Pids, Exit(p) \/ Crash(p) PROVE Inv'
    BY <1>2, DeathSafe, WorldStep DEF Exit, Crash, External, Inv, files
  <1>3. ASSUME NEW p \in Pids, NEW kind \in Others, Outsider(p, kind) PROVE Inv'
    <2>1. kind \in Kinds
      BY ServiceManagerAssumption DEF Kinds
    <2> QED
      BY <1>0, <1>3, <2>1, StartSafe, ServiceManagerAssumption, WorldStep
      DEF Outsider, External, Inv, files, Stays
  <1>4. ASSUME NEW p \in Pids, Supervise(p) PROVE Inv'
    <2>1. "service" \in Kinds
      BY DEF Kinds
    <2> QED
      BY <1>0, <1>4, <2>1, StartSafe, ServiceManagerAssumption, WorldStep
      DEF Supervise, External, Inv, files, Stays
  <1>5. ASSUME NEW p \in Pids, Reap(p) PROVE Inv'
    <2>1. Stays /\ proc' \in [Pids -> Kinds]
      BY <1>5 DEF Reap, Stays, Keeps, Harmless, Inv, Types, Kinds
    <2> QED
      BY <1>0, <1>5, <2>1, WorldStep DEF Reap, External, files
  <1>6. ASSUME NEW o \in Operators, Lost(o) PROVE Inv'
    <2>1. /\ proc' \in [Pids -> Kinds]
          /\ renewed' \in [Operators -> SUBSET Pids]
          /\ \A u \in Operators \ {o} : Keeps(u)
      BY <1>6, LeaveSafe, OthersKept DEF Lost, Inv
    <2>2. Safe(o, "idle", NoCall)' /\ "idle" \in Stages
      BY CalmSafe DEF Calm, Stages
    <2> QED
      BY <1>0, <1>6, <2>1, <2>2, NoCallIsCall, CallStep, FileKept
      DEF Lost, Inv, NoForeignTarget
  <1> QED
    BY <1>1, <1>2, <1>3, <1>4, <1>5, <1>6 DEF Environment

-----------------------------------------------------------------------------
(* The theorem.                                                            *)

LEMMA InitInv == Init => Inv
  <1> SUFFICES ASSUME Init PROVE Inv
    OBVIOUS
  <1>1. Types
    BY NoCallIsCall, ServiceManagerAssumption DEF Init, Types, Kinds, Stages, PidOrNone
  <1>2. CallsSafe
    BY DEF Init, CallsSafe, Safe, Supervised, Collected, AtHand
  <1> QED
    BY <1>1, <1>2 DEF Inv, Init, NoForeignTarget

LEMMA NextInv == Inv /\ [Next]_vars => Inv'
  <1> SUFFICES ASSUME Inv, [Next]_vars PROVE Inv'
    OBVIOUS
  <1>1. ASSUME NEW o \in Operators, NEW op \in Operations, Begin(o, op) PROVE Inv'
    BY <1>1, BeginStep
  <1>2. ASSUME NEW o \in Operators, Starting(o) PROVE Inv'
    BY <1>2, LookStep, CorrelateStep, ReverifyStep, SvDownStep, SignalStep,
       RemovePidStep, RunitStep, SpawnStep, VerifyStep, EndStep DEF Starting
  <1>3. ASSUME NEW o \in Operators, Stopping(o) PROVE Inv'
    BY <1>3, KillStep, ReadStep, PatternStep, EndStep DEF Stopping
  <1>4. ASSUME NEW o \in Operators, Restarting(o) \/ Reporting(o) PROVE Inv'
    BY <1>4, PassStep, EndStep DEF Restarting, Reporting
  <1>5. CASE Environment
    BY <1>5, EnvironmentStep
  <1>6. CASE UNCHANGED vars
    <2>1. Stays /\ proc' \in [Pids -> Kinds] /\ port' \in PidOrNone
      BY <1>6, Unmoved DEF vars, system, history, Inv, Types
    <2> QED
      BY <1>6, <2>1, WorldStep DEF vars, system, files, history
  <1> QED
    BY <1>1, <1>2, <1>3, <1>4, <1>5, <1>6 DEF Next, Step

\* No call addresses a signal to a foreign program that had the PID when the call
\* looked, however many calls overlap, break off or find a stale PID file, and
\* whoever is given the PIDs they hold.
THEOREM NeverForeign == Spec => []NoForeignTarget
  <1>1. Inv => NoForeignTarget
    BY DEF Inv
  <1> QED
    BY <1>1, InitInv, NextInv, PTL DEF Spec

-----------------------------------------------------------------------------
(* Calls that run alone: what the processes, the port and the files have to*)
(* do with each other at each stage.                                       *)

\* runit runs the service; where it has no port, a start spawns it all the same.
Supervision == setting.runit /\ setting.http

\* Only one operator is in a call.
Alone == \A o, q \in Operators : (pc[o] # "idle" /\ pc[q] # "idle") => o = q

World ==
    /\ parent \in [Pids -> Starters]
    /\ (port # NoPid) => /\ proc[port] \in {"service", "lookalike", "foreign"}
                         /\ ~setting.proc => (proc[port] = "service")
    /\ ~setting.http => (port = NoPid)
    /\ ~Supervision => ~wanted
    /\ Supervision => /\ \A p \in Matching : parent[p] = "runit"
                      /\ \A p, q \in Pids : (parent[p] = "runit" /\ parent[q] = "runit")
                                              => (p = q)

\* Which calls reach which stages, and where.
KillsFor(stage, c, goals) == stage \in {"kill", "killwait"} /\ c.then \in goals

HttpStages ==
    {"look", "classify", "correlate", "reverify", "down", "signal", "gone", "release",
     "purge", "stale", "up", "discover", "ident", "owner", "health"}
StartStages ==
    HttpStages \cup {"saved", "drop", "pgrep", "spawn", "record", "grace", "adopt",
                     "mark", "forget", "fail"}
StopStages == {"stopdown", "read", "check", "unrecord", "pattern", "next", "verify",
               "erase", "halt"}

Route(stage, c) ==
    /\ (stage \in StartStages \/ KillsFor(stage, c, {"forget"}))
         => c.op \in {"start", "restart"}
    /\ (stage \in StopStages \/ KillsFor(stage, c, {"unrecord", "next"}))
         => c.op \in {"stop", "restart"}
    /\ stage \in {"kill", "killwait"} => c.then # "idle"
    /\ stage \in {"old", "disown", "oldgone", "new"} => c.op = "restart"
    /\ stage \in {"seen", "lapse", "find", "note", "amend"} => c.op = "report"
    /\ (stage \in HttpStages \/ KillsFor(stage, c, {"forget"})) => setting.http
    /\ stage \in {"saved", "pgrep"} => ~setting.http
    /\ stage \in {"up", "discover"} => Supervision
    /\ (stage \in {"spawn", "record", "grace"} \/ KillsFor(stage, c, {"forget"}))
         => ~Supervision

\* Without runit nothing of the service is left at these stages, ...
Cleared(stage, c) ==
    \/ stage \in {"purge", "stale", "drop", "pgrep", "spawn", "forget", "disown", "lapse",
                  "find", "unrecord", "pattern", "next", "verify", "erase", "halt"}
    \/ KillsFor(stage, c, {"next"})
\* ... the call has at hand what the PID file names, ...
Named(stage, c) ==
    \/ stage \in {"grace", "ident", "owner", "health", "check"}
    \/ KillsFor(stage, c, {"unrecord", "forget"})
\* ... and the child need not listen yet.
Unproven(stage, c) ==
    \/ stage \in {"record", "grace", "ident", "owner", "health"}
    \/ KillsFor(stage, c, {"forget"})

Filed(stage, c) ==
    ~Supervision =>
       /\ stage \notin {"adopt", "note"}
       /\ Matching \subseteq {IF stage = "record" THEN c.pid ELSE pidFile}
       /\ Cleared(stage, c) => Matching = {}
       /\ Named(stage, c) => c.pid = pidFile
       /\ (setting.http /\ (Unproven(stage, c) => (stage = "health" /\ setting.proc)))
            => Matching \subseteq {port}

\* Once runit has been told, nothing of the service is left that has not been
\* sent SIGTERM, and nothing comes back.
Over == Matching \subseteq termed /\ ~wanted

Halting(stage, c) ==
    /\ (/\ Supervision
        /\ \/ stage \in StopStages \ {"stopdown"}
           \/ KillsFor(stage, c, {"unrecord", "next"})) => Over
    /\ (stage = "idle" /\ last = [op |-> "stop", ok |-> TRUE]) => Over

\* Once the port was seen free, nobody but the service listens on it unless the
\* call has been disturbed; and when the call is done with verifying, it does.
Serves(p) == port # NoPid /\ proc[port] = "service" /\ (setting.proc => port = p)

Verifying(stage, c) ==
    (setting.http /\ clean) =>
       /\ (port # NoPid /\ stage \in {"purge", "stale", "drop", "spawn", "up", "discover",
                                      "record", "grace", "ident", "owner", "health"})
            => proc[port] = "service"
       /\ (stage = "health" /\ setting.proc) => (port # NoPid /\ port = c.pid)
       /\ (stage = "adopt") => Serves(c.pid)
       /\ (stage = "mark") => Serves(pidFile)
       /\ (\/ stage = "new"
           \/ stage = "idle" /\ last.op \in {"start", "restart"} /\ last.ok)
            => (Serves(pidFile) /\ status = "running")

Place(stage, c) ==
    Route(stage, c) /\ Filed(stage, c) /\ Halting(stage, c) /\ Verifying(stage, c)

\* Whoever is in a call, or, when nobody is, everybody, is where it can be.
TidyInv ==
    tidy => /\ Alone /\ World
            /\ \A o \in Operators :
                  (\A q \in Operators \ {o} : pc[q] = "idle") => Place(pc[o], call[o])

\* At rest the call's variables do not matter.
LEMMA IdlePlace ==
    ASSUME NEW c, NEW d
    PROVE  /\ Place("idle", c) => Place("idle", d)
           /\ Place("idle", c)' => Place("idle", d)'
  BY DEF Place, Route, Filed, Halting, Verifying, KillsFor, HttpStages, StartStages,
         StopStages, Cleared, Named, Unproven

\* A stage depends on these variables of the call.
Alike(d, c) == d.op = c.op /\ d.pid = c.pid /\ d.then = c.then

LEMMA SamePlace ==
    ASSUME NEW s, NEW c, NEW d, Alike(d, c)
    PROVE  Place(s, c) => Place(s, d)
  BY DEF Alike, Place, Route, Filed, Halting, Verifying, KillsFor, HttpStages, StartStages,
         StopStages, Cleared, Named, Unproven

\* Towards the end of a call only the operation matters.
LEMMA EndPlace ==
    ASSUME NEW s \in {"fail", "forget", "mark", "halt"}, NEW c, NEW d,
           d.op = c.op
    PROVE  /\ Place(s, c) => Place(s, d)
           /\ Place(s, c)' => Place(s, d)'
  BY DEF Place, Route, Filed, Halting, Verifying, KillsFor, HttpStages, StartStages,
         StopStages, Cleared, Named, Unproven

\* While all calls are tidy, the one that is open is where it can be.
LEMMA AtPlace ==
    ASSUME TidyInv, tidy, NEW o \in Operators, pc[o] # "idle"
    PROVE  /\ World /\ Place(pc[o], call[o])
           /\ \A q \in Operators \ {o} : pc[q] = "idle"
  BY DEF TidyInv, Alone

\* A call goes on.
LEMMA TidyStep ==
    ASSUME Inv, TidyInv, NEW o \in Operators, NEW s, NEW c, Continue(o, s, c),
           tidy' => /\ tidy
                    /\ \A q \in Operators \ {o} : pc[q] = "idle"
                    /\ World' /\ Place(s, c)'
    PROVE  TidyInv'
  <1> SUFFICES ASSUME tidy' PROVE Alone' /\ World' /\
                 \A u \in Operators : (\A q \in Operators \ {u} : pc'[q] = "idle")
                                         => Place(pc[u], call[u])'
    BY DEF TidyInv
  <1>1. PICK d : /\ pc' = [pc EXCEPT ![o] = s] /\ call' = [call EXCEPT ![o] = d]
                 /\ d = IF s \in {"fail", "forget", "mark", "halt"}
                        THEN [NoCall EXCEPT !.op = c.op, !.old = c.old] ELSE c
    BY DEF Continue
  <1>2. DOMAIN pc = Operators /\ DOMAIN call = Operators
    BY DEF Inv, Types
  <1>3. pc'[o] = s /\ call'[o] = d /\ \A q \in Operators \ {o} : pc'[q] = "idle"
    BY <1>1, <1>2
  <1>4. Place(s, d)'
    <2>0. Place(s, c)'
      OBVIOUS
    <2>1. CASE s \in {"fail", "forget", "mark", "halt"}
      <3>1. d.op = c.op
        BY <1>1, <2>1 DEF NoCall
      <3> QED
        BY <2>0, <2>1, <3>1, EndPlace
    <2>2. CASE s \notin {"fail", "forget", "mark", "halt"}
      BY <1>1, <2>0, <2>2
    <2> QED
      BY <2>1, <2>2
  <1>5. Alone'
    BY <1>3 DEF Alone
  <1>6. ASSUME NEW u \in Operators, \A q \in Operators \ {u} : pc'[q] = "idle"
        PROVE  Place(pc[u], call[u])'
    <2>1. CASE u = o
      <3>1. pc'[u] = s /\ call'[u] = d
        BY <1>3, <2>1
      <3> QED
        BY <1>4, <3>1 DEF Place, Route, Filed, Halting, Verifying, KillsFor, Cleared, Named, Unproven
    <2>2. CASE u # o
      <3>1. s = "idle" /\ pc'[u] = "idle"
        BY <1>3, <1>6, <2>2
      <3>2. PICK e : e = call'[u]
        OBVIOUS
      <3>3. Place("idle", e)'
        BY <1>4, <3>1, IdlePlace
      <3> QED
        BY <3>1, <3>2, <3>3 DEF Place, Route, Filed, Halting, Verifying, KillsFor, Cleared, Named, Unproven
    <2> QED
      BY <2>1, <2>2
  <1> QED
    BY <1>5, <1>6

\* What the processes and the port have to do with each other needs no files.
LEMMA WorldKept ==
    ASSUME World, UNCHANGED <<setting, proc, parent, port, wanted>>
    PROVE  World'
  BY DEF World, Matching, Supervision

\* A place stays one as long as nothing it speaks of moves.
LEMMA PlaceKept ==
    ASSUME NEW s, NEW c, Place(s, c),
           UNCHANGED <<setting, system, files, clean, last>>
    PROVE  Place(s, c)'
  BY DEF Place, Route, Filed, Halting, Verifying, KillsFor, Cleared, Named, Unproven,
         system, files, Supervision, Matching, Over, Serves

\* A call goes on and has changed nothing.
LEMMA StillTidy ==
    ASSUME Inv, TidyInv, NEW o \in Operators, pc[o] # "idle", NEW s, NEW c,
           Continue(o, s, c), UNCHANGED <<setting, system, files, clean, tidy, last>>,
           World /\ Place(pc[o], call[o]) => Place(s, c)
    PROVE  TidyInv'
  <1> SUFFICES ASSUME tidy'
               PROVE  /\ tidy
                      /\ \A q \in Operators \ {o} : pc[q] = "idle"
                      /\ World' /\ Place(s, c)'
    BY TidyStep
  <1>1. tidy /\ clean' = clean /\ last' = last
    OBVIOUS
  <1>2. /\ World /\ Place(s, c)
        /\ \A q \in Operators \ {o} : pc[q] = "idle"
    BY <1>1, AtPlace
  <1>3. World' /\ Place(s, c)'
    BY <1>1, <1>2, WorldKept, PlaceKept DEF system
  <1> QED
    BY <1>1, <1>2, <1>3

LEMMA QuietTidy ==
    ASSUME Inv, TidyInv, NEW o \in Operators, pc[o] # "idle", NEW s, NEW c,
           Continue(o, s, c), UNCHANGED <<setting, system, files, history>>,
           World /\ Place(pc[o], call[o]) => Place(s, c)
    PROVE  TidyInv'
  BY StillTidy DEF history

LEMMA LookedTidy ==
    ASSUME Inv, TidyInv, NEW o \in Operators, pc[o] # "idle", NEW s, NEW c,
           Looked(o, s, c), UNCHANGED <<setting, files>>,
           World /\ Place(pc[o], call[o]) => Place(s, c)
    PROVE  TidyInv'
  BY StillTidy DEF Looked

\* A call goes on with all its variables.
LEMMA GotoTidy ==
    ASSUME Inv, TidyInv, NEW o \in Operators, pc[o] # "idle", NEW s,
           Goto(o, s), UNCHANGED <<setting, files>>,
           World /\ Place(pc[o], call[o]) => Place(s, call[o])
    PROVE  TidyInv'
  <1>1. PICK c : c = call[o]
    OBVIOUS
  <1> QED
    BY <1>1, QuietTidy DEF Goto

\* The updates that a stage does not depend on, and those it does.
LEMMA AlikeUpdates ==
    ASSUME NEW c, IsCall(c)
    PROVE  /\ \A ps : Alike([c EXCEPT !.pids = ps], c)
           /\ \A ps : Alike([c EXCEPT !.done = ps], c)
           /\ \A n : Alike([c EXCEPT !.tries = n], c)
           /\ \A p : Alike([c EXCEPT !.old = p], c)
           /\ \A ps, qs : Alike([c EXCEPT !.pids = ps, !.done = qs], c)
  <1>1. \A ps : Alike([c EXCEPT !.pids = ps], c)
    BY DEF IsCall, Alike
  <1>2. \A ps : Alike([c EXCEPT !.done = ps], c)
    BY DEF IsCall, Alike
  <1>3. \A n : Alike([c EXCEPT !.tries = n], c)
    BY DEF IsCall, Alike
  <1>4. \A p : Alike([c EXCEPT !.old = p], c)
    BY DEF IsCall, Alike
  <1>5. \A ps, qs : Alike([c EXCEPT !.pids = ps, !.done = qs], c)
    BY DEF IsCall, Alike
  <1> QED
    BY <1>1, <1>2, <1>3, <1>4, <1>5

\* The updates that a stage depends on.
LEMMA OtherUpdates ==
    ASSUME NEW c, IsCall(c)
    PROVE  /\ \A p : /\ [c EXCEPT !.pid = p].pid = p
                     /\ [c EXCEPT !.pid = p].op = c.op
                     /\ [c EXCEPT !.pid = p].then = c.then
           /\ \A t : /\ [c EXCEPT !.then = t].pid = c.pid
                     /\ [c EXCEPT !.then = t].op = c.op
                     /\ [c EXCEPT !.then = t].then = t
  BY DEF IsCall

-----------------------------------------------------------------------------
(* Where a step of a call leads.                                           *)

\* A PID that is not alive is not the service.
LEMMA DeadGone ==
    ASSUME Inv, World, NEW o \in Operators, NEW p, ~Alive(o, p),
           Matching \subseteq {p}
    PROVE  Matching = {}
  BY ServiceManagerAssumption DEF Alive, Matching

\* No process has no PID.
LEMMA NoPidGone ==
    ASSUME Matching \subseteq {NoPid}
    PROVE  Matching = {}
  BY ServiceManagerAssumption DEF Matching

\* The first look at the port.
LEMMA FromLook ==
    ASSUME Inv, World, NEW c
    PROVE  /\ Place("look", c) => /\ Place("classify", c) /\ Place("correlate", c)
                                  /\ ~Listening => Place("stale", c)
           /\ Place("classify", c) => Place("reverify", c) /\ Place("fail", c)
           /\ Place("correlate", c) => Place("reverify", c) /\ Place("fail", c)
           /\ Place("reverify", c) => /\ Place("fail", c)
                                      /\ IF setting.runit THEN Place("down", c)
                                         ELSE Place("signal", c)
           /\ Place("gone", c) => Place("signal", c) /\ Place("fail", c)
           /\ Place("signal", c) => Place("gone", c) /\ Place("fail", c) /\ Place("release", c)
           /\ Place("release", c) => /\ Place("fail", c)
                                     /\ ~Listening => Place("purge", c)
  <1> USE DEF Place, Route, Filed, Halting, Verifying, KillsFor, HttpStages, StartStages,
              StopStages, Cleared, Named, Unproven, Listening
  <1>0. (port = NoPid /\ Matching \subseteq {port}) => Matching = {}
    BY NoPidGone
  <1>1. Place("look", c) => /\ Place("classify", c) /\ Place("correlate", c)
                            /\ ~Listening => Place("stale", c)
    BY <1>0
  <1>2. Place("classify", c) => Place("reverify", c) /\ Place("fail", c)
    OBVIOUS
  <1>3. Place("correlate", c) => Place("reverify", c) /\ Place("fail", c)
    OBVIOUS
  <1>4. Place("reverify", c) => /\ Place("fail", c)
                                /\ IF setting.runit THEN Place("down", c)
                                   ELSE Place("signal", c)
    OBVIOUS
  <1>5. Place("gone", c) => Place("signal", c) /\ Place("fail", c)
    OBVIOUS
  <1>6. Place("signal", c) => Place("gone", c) /\ Place("fail", c) /\ Place("release", c)
    OBVIOUS
  <1>7. Place("release", c) => /\ Place("fail", c)
                               /\ ~Listening => Place("purge", c)
    BY <1>0
  <1> QED
    BY <1>1, <1>2, <1>3, <1>4, <1>5, <1>6, <1>7

\* A start that is done with the port.
LEMMA FromStale ==
    ASSUME Inv, World, NEW o \in Operators, NEW c
    PROVE  /\ Place("stale", c) => Place("drop", c) /\ Place(Launch, c)
           /\ Place("saved", c) =>
                 /\ pidFile = NoPid => Place("pgrep", c)
                 /\ Alive(o, pidFile) => Place("mark", c)
                 /\ ~Alive(o, pidFile) => Place("drop", c)
           /\ Place("pgrep", c) => Matching = {} /\ Place("spawn", c)
           /\ Place("up", c) => Place("fail", c)
           /\ Place("spawn", c) => Place("fail", c) /\ Place("forget", c)
           /\ Place("grace", c) =>
                 /\ ~Alive(o, c.pid) => Place("forget", c)
                 /\ IF setting.http THEN Place("ident", c) ELSE Place("mark", c)
  <1> USE DEF Place, Route, Filed, Halting, Verifying, KillsFor, HttpStages, StartStages,
              StopStages, Cleared, Named, Unproven, Supervision
  <1>1. Place("stale", c) => Place("drop", c) /\ Place(Launch, c)
    BY DEF Launch
  <1>2. Place("saved", c) =>
                 /\ pidFile = NoPid => Place("pgrep", c)
                 /\ Alive(o, pidFile) => Place("mark", c)
                 /\ ~Alive(o, pidFile) => Place("drop", c)
    <2>1. (Matching \subseteq {pidFile} /\ ~Alive(o, pidFile)) => Matching = {}
      BY DeadGone
    <2>2. pidFile = NoPid => ~Alive(o, pidFile)
      BY DEF Alive
    <2> QED
      BY <2>1, <2>2
  <1>3. Place("pgrep", c) => Matching = {} /\ Place("spawn", c)
    OBVIOUS
  <1>4. Place("up", c) => Place("fail", c)
    OBVIOUS
  <1>5. Place("spawn", c) => Place("fail", c) /\ Place("forget", c)
    OBVIOUS
  <1>6. Place("grace", c) =>
                 /\ ~Alive(o, c.pid) => Place("forget", c)
                 /\ IF setting.http THEN Place("ident", c) ELSE Place("mark", c)
    <2>1. (Matching \subseteq {c.pid} /\ ~Alive(o, c.pid)) => Matching = {}
      BY DeadGone
    <2> QED
      BY <2>1
  <1> QED
    BY <1>1, <1>2, <1>3, <1>4, <1>5, <1>6

\* Verification: another poll, the end of it, or the next check.
LEMMA FromIdent ==
    ASSUME Inv, World, NEW c, NEW s \in {"discover", "ident", "owner", "health"},
           Place(s, c)
    PROVE  /\ setting.runit => Place("discover", c) /\ Place("fail", c)
           /\ s # "discover" => Place("ident", c)
           /\ s = "ident" => Place("owner", c)
           /\ (s = "owner" /\ Owns(c.pid)) => Place("health", c)
           /\ (s = "health" /\ MayAnswer) =>
                 IF setting.runit THEN Place("adopt", c) ELSE Place("mark", c)
  <1> USE DEF Place, Route, Filed, Halting, Verifying, KillsFor, HttpStages, StartStages,
              StopStages, Cleared, Named, Unproven, Supervision
  <1>1. setting.runit => Place("discover", c) /\ Place("fail", c)
    OBVIOUS
  <1>2. s # "discover" => Place("ident", c)
    OBVIOUS
  <1>3. s = "ident" => Place("owner", c)
    OBVIOUS
  <1>4. (s = "owner" /\ Owns(c.pid)) => Place("health", c)
    BY DEF Owns, PortOwners, Listening
  <1>5. (s = "health" /\ MayAnswer) =>
                 IF setting.runit THEN Place("adopt", c) ELSE Place("mark", c)
    <2> SUFFICES ASSUME s = "health", port # NoPid
                 PROVE  IF setting.runit THEN Place("adopt", c) ELSE Place("mark", c)
      BY DEF MayAnswer, Listening
    <2>1. ~setting.proc => port \in Matching
      BY DEF World, Matching, Inv, Types, PidOrNone
    <2>2. ~Supervision => Matching \subseteq {port} /\ c.pid = pidFile
      BY <2>1
    <2>3. clean => Serves(c.pid)
      BY DEF Serves
    <2> QED
      BY <2>2, <2>3
  <1> QED
    BY <1>1, <1>2, <1>3, <1>4, <1>5

\* The child that fails verification is stopped.
LEMMA FromPoll ==
    ASSUME Inv, World, NEW s \in {"ident", "owner", "health"}, NEW c, NEW d,
           Place(s, c), ~setting.runit, d.op = c.op, d.pid = c.pid, d.then = "forget"
    PROVE  Place("kill", d)
  BY DEF Place, Route, Filed, Halting, Verifying, KillsFor, HttpStages, StartStages,
         StopStages, Cleared, Named, Unproven, Supervision

\* A stop.
LEMMA FromKill ==
    ASSUME Inv, World, NEW o \in Operators, NEW c, c.then \in {"idle", "forget", "unrecord", "next"}
    PROVE  /\ Place("kill", c) => Place("killwait", c)
           /\ \A s \in {"kill", "killwait"} :
                 (Place(s, c) /\ ~Alive(o, c.pid)) => Place(c.then, c)
  <1> USE DEF Place, Route, Filed, Halting, Verifying, KillsFor, HttpStages, StartStages,
              StopStages, Cleared, Named, Unproven
  <1>1. Place("kill", c) => Place("killwait", c)
    OBVIOUS
  <1>2. ASSUME NEW s \in {"kill", "killwait"}, Place(s, c), ~Alive(o, c.pid)
        PROVE  Place(c.then, c)
    <2>1. Matching \subseteq {c.pid} => Matching = {}
      BY <1>2, DeadGone
    <2>2. c.then # "idle"
      BY <1>2
    <2>3. ~Supervision => Matching = {}
      BY <1>2, <2>1, <2>2
    <2> QED
      BY <1>2, <2>2, <2>3
  <1> QED
    BY <1>1, <1>2

\* What a stop reads and finds.
LEMMA FromRead ==
    ASSUME Inv, World, NEW o \in Operators, NEW c, NEW d, d.op = c.op
    PROVE  /\ (Place("read", c) /\ d.pid = pidFile) =>
                 IF pidFile = NoPid THEN Place("pattern", d) ELSE Place("check", d)
           /\ Place("check", c) =>
                 IF Mismatched(o, c.pid) THEN Place("unrecord", c)
                 ELSE (d.pid = c.pid /\ d.then = "unrecord") => Place("kill", d)
           /\ Place("next", c) => Place("verify", c)
           /\ Place("pattern", c) => Place("next", c)
           /\ (Place("next", c) /\ d.then = "next") => Place("kill", d)
           /\ Place("verify", c) => Place("erase", c) /\ Place("halt", c)
  <1> USE DEF Place, Route, Filed, Halting, Verifying, KillsFor, HttpStages, StartStages,
              StopStages, Cleared, Named, Unproven
  <1>1. (Place("read", c) /\ d.pid = pidFile) =>
                 IF pidFile = NoPid THEN Place("pattern", d) ELSE Place("check", d)
    BY NoPidGone
  <1>2. Place("check", c) =>
                 IF Mismatched(o, c.pid) THEN Place("unrecord", c)
                 ELSE (d.pid = c.pid /\ d.then = "unrecord") => Place("kill", d)
    <2>1. (Mismatched(o, c.pid) /\ Matching \subseteq {c.pid}) => Matching = {}
      BY DEF Mismatched, Matching
    <2> QED
      BY <2>1
  <1>3. (Place("next", c) => Place("verify", c)) /\ (Place("pattern", c) => Place("next", c))
    OBVIOUS
  <1>4. (Place("next", c) /\ d.then = "next") => Place("kill", d)
    OBVIOUS
  <1>5. Place("verify", c) => Place("erase", c) /\ Place("halt", c)
    OBVIOUS
  <1> QED
    BY <1>1, <1>2, <1>3, <1>4, <1>5

\* A restart and a report.
LEMMA FromOld ==
    ASSUME Inv, World, NEW o \in Operators, NEW c, NEW d, d.op = c.op
    PROVE  /\ Place("old", c) => IF Mismatched(o, pidFile) THEN Place("disown", c)
                                 ELSE Place(StopEntry, d)
           /\ Place("oldgone", c) => Place("fail", c) /\ Place(StartEntry, d)
           /\ Place("seen", c) => /\ pidFile = NoPid => Place("find", c)
                                  /\ Place("amend", c)
                                  /\ ~Alive(o, pidFile) => Place("lapse", c)
           /\ (Place("find", c) /\ Matching # {}) => Place("note", d)
  <1> USE DEF Place, Route, Filed, Halting, Verifying, KillsFor, HttpStages, StartStages,
              StopStages, Cleared, Named, Unproven
  <1>1. Place("old", c) => IF Mismatched(o, pidFile) THEN Place("disown", c)
                           ELSE Place(StopEntry, d)
    <2>1. (Mismatched(o, pidFile) /\ Matching \subseteq {pidFile}) => Matching = {}
      BY DEF Mismatched, Matching
    <2> QED
      BY <2>1 DEF StopEntry, Supervision
  <1>2. Place("oldgone", c) => Place("fail", c) /\ Place(StartEntry, d)
    BY DEF StartEntry
  <1>3. Place("seen", c) => /\ pidFile = NoPid => Place("find", c)
                            /\ Place("amend", c)
                            /\ ~Alive(o, pidFile) => Place("lapse", c)
    BY NoPidGone, DeadGone
  <1>4. (Place("find", c) /\ Matching # {}) => Place("note", d)
    OBVIOUS
  <1> QED
    BY <1>1, <1>2, <1>3, <1>4

\* The PID file is removed.
LEMMA FromPurge ==
    ASSUME Inv, World, NEW c, NEW s \in {"purge", "drop", "disown", "forget", "lapse",
                                         "unrecord", "erase"},
           Place(s, c)
    PROVE  /\ ~Supervision => Matching = {}
           /\ s = "purge" => Place("stale", c)
           /\ s = "drop" => Place(IF setting.http THEN Launch ELSE "pgrep", c)
           /\ s = "disown" => Place(StopEntry, c)
           /\ s = "forget" => Place("fail", c)
           /\ s = "lapse" => Place("find", c)
           /\ s = "unrecord" => Place("verify", c) /\ Place("pattern", c)
           /\ s = "erase" => Place("halt", c)
  <1> USE DEF Place, Route, Filed, Halting, Verifying, KillsFor, HttpStages, StartStages,
              StopStages, Cleared, Named, Unproven
  <1>1. ~Supervision => Matching = {}
    OBVIOUS
  <1>2. s = "purge" => Place("stale", c)
    OBVIOUS
  <1>3. s = "drop" => Place(IF setting.http THEN Launch ELSE "pgrep", c)
    <2>1. CASE setting.http
      BY <2>1 DEF Launch, Supervision
    <2>2. CASE ~setting.http
      BY <2>2 DEF Supervision
    <2> QED
      BY <2>1, <2>2
  <1>4. s = "disown" => Place(StopEntry, c)
    BY DEF StopEntry, Supervision
  <1>5. /\ s = "forget" => Place("fail", c)
        /\ s = "lapse" => Place("find", c)
    OBVIOUS
  <1>6. s = "unrecord" => Place("verify", c) /\ Place("pattern", c)
    OBVIOUS
  <1>7. s = "erase" => Place("halt", c)
    OBVIOUS
  <1> QED
    BY <1>1, <1>2, <1>3, <1>4, <1>5, <1>6, <1>7

\* The PID file is removed where nothing of the service is left.
LEMMA RemovedTidy ==
    ASSUME Inv, TidyInv, NEW o \in Operators, pc[o] # "idle",
           NEW s \in {"stale", "up", "spawn", "pgrep", "stopdown", "read", "fail", "find",
                      "verify", "pattern", "oldgone", "halt"},
           Goto(o, s), UNCHANGED <<setting, status>>, pidFile' = NoPid,
           World /\ Place(pc[o], call[o])
              => Place(s, call[o]) /\ (~Supervision => Matching = {})
    PROVE  TidyInv'
  <1>1. PICK c : c = call[o]
    OBVIOUS
  <1> SUFFICES ASSUME tidy'
               PROVE  /\ tidy
                      /\ \A q \in Operators \ {o} : pc[q] = "idle"
                      /\ World' /\ Place(s, c)'
    BY <1>1, TidyStep DEF Goto
  <1>2. tidy /\ clean' = clean /\ last' = last /\ UNCHANGED system
    BY DEF Goto, history
  <1>3. /\ World /\ Place(s, c) /\ (~Supervision => Matching = {})
        /\ \A q \in Operators \ {o} : pc[q] = "idle"
    BY <1>1, <1>2, AtPlace
  <1>4. World'
    BY <1>2, <1>3, WorldKept DEF system
  <1>5. Place(s, c)'
    <2>1. UNCHANGED <<proc, termed, port, wanted, setting, clean, last>>
      BY <1>2 DEF system
    <2> USE DEF Supervision, Matching, Over
    <2>2. Route(s, c)' /\ Halting(s, c)' /\ Verifying(s, c)'
      BY <1>3, <2>1 DEF Place, Route, Halting, Verifying, KillsFor, StopStages, HttpStages
    <2>3. Filed(s, c)'
      BY <1>3, <2>1 DEF Place, Filed, Named, KillsFor
    <2> QED
      BY <2>2, <2>3 DEF Place
  <1> QED
    BY <1>2, <1>3, <1>4, <1>5

\* What a command line process leaves when it ends.
LEMMA LeavesKept ==
    ASSUME Inv, World, NEW o \in Operators, Leaves(o), UNCHANGED <<setting, port, wanted>>
    PROVE  World' /\ Matching' = Matching
  <1>1. Matching' = Matching
    BY DEF Leaves, Matching, Inv, Types
  <1>2. \A p \in Pids : /\ proc[p] # "zombie" => proc'[p] = proc[p]
                        /\ p \in Matching /\ parent[p] = "runit" => parent'[p] = "runit"
                        /\ parent'[p] = "runit" => parent[p] = "runit"
    BY ServiceManagerAssumption DEF Leaves, World, Inv, Types
  <1>3. parent' \in [Pids -> Starters]
    BY DEF Leaves, World, Starters
  <1>4. port # NoPid => port \in Pids
    BY DEF Inv, Types, PidOrNone
  <1>5. port' # NoPid => /\ proc'[port'] \in {"service", "lookalike", "foreign"}
                         /\ ~setting'.proc => proc'[port'] = "service"
    <2> SUFFICES ASSUME port # NoPid
                 PROVE  /\ proc'[port] \in {"service", "lookalike", "foreign"}
                        /\ ~setting.proc => proc'[port] = "service"
      OBVIOUS
    <2>1. proc[port] # "zombie"
      BY DEF World
    <2>2. proc'[port] = proc[port]
      BY <1>2, <1>4, <2>1
    <2> QED
      BY <2>2 DEF World
  <1>6. Supervision => /\ \A p \in Matching : parent'[p] = "runit"
                       /\ \A p, q \in Pids : (parent'[p] = "runit" /\ parent'[q] = "runit")
                                              => p = q
    BY <1>2 DEF World, Matching
  <1> QED
    BY <1>1, <1>3, <1>5, <1>6 DEF World, Supervision

\* A call returns.
LEMMA ReturnTidy ==
    ASSUME Inv, TidyInv, NEW o \in Operators, pc[o] # "idle", NEW ok \in BOOLEAN,
           Return(o, ok), UNCHANGED setting,
           World /\ Place(pc[o], call[o]) =>
              /\ ~Supervision => /\ Matching \subseteq {pidFile'}
                                 /\ setting.http => Matching \subseteq {port}
              /\ (call[o].op = "stop" /\ ok) => Over
              /\ (setting.http /\ clean /\ call[o].op \in {"start", "restart"} /\ ok)
                    => /\ port # NoPid /\ proc[port] = "service" /\ status' = "running"
                       /\ setting.proc => port = pidFile'
    PROVE  TidyInv'
  <1>1. PICK op : op = call[o].op
    OBVIOUS
  <1>2. /\ Continue(o, "idle", NoCall) /\ last' \in {[op |-> op, ok |-> ok], NoResult}
        /\ Leaves(o) /\ UNCHANGED <<termed, port, wanted, clean, tidy>>
    BY <1>1 DEF Return
  <1> SUFFICES ASSUME tidy'
               PROVE  /\ tidy
                      /\ \A q \in Operators \ {o} : pc[q] = "idle"
                      /\ World' /\ Place("idle", NoCall)'
    BY <1>2, TidyStep
  <1>3. /\ World /\ Place(pc[o], call[o])
        /\ \A q \in Operators \ {o} : pc[q] = "idle"
    BY <1>2, AtPlace
  <1>4. World' /\ Matching' = Matching
    BY <1>2, <1>3, LeavesKept
  <1>5. last'.ok = TRUE => (last'.op = op /\ ok = TRUE)
    BY <1>2 DEF NoResult
  <1>6. proc[port] = "service" /\ port # NoPid => proc'[port] = "service"
    BY <1>4 DEF Matching, Inv, Types, PidOrNone
  <1>7. Place("idle", NoCall)'
    <2>1. Route("idle", NoCall)'
      BY DEF Route, KillsFor, StartStages, StopStages, HttpStages
    <2>2. Filed("idle", NoCall)'
      BY <1>2, <1>3, <1>4 DEF Filed, Cleared, Named, Unproven, KillsFor, Supervision
    <2>3. Halting("idle", NoCall)'
      <3>1. op = "stop" /\ ok => Over'
        BY <1>1, <1>2, <1>3, <1>4 DEF Over
      <3>2. last' = [op |-> "stop", ok |-> TRUE] => op = "stop" /\ ok
        <4> SUFFICES ASSUME last' = [op |-> "stop", ok |-> TRUE] PROVE op = "stop" /\ ok
          OBVIOUS
        <4>1. last'.op = "stop" /\ last'.ok = TRUE
          OBVIOUS
        <4> QED
          BY <1>5, <4>1
      <3> QED
        BY <3>1, <3>2 DEF Halting, StopStages, KillsFor
    <2>4. Verifying("idle", NoCall)'
      <3>1. (setting.http /\ clean /\ op \in {"start", "restart"} /\ ok)
               => Serves(pidFile)' /\ status' = "running"
        BY <1>1, <1>2, <1>3, <1>6 DEF Serves
      <3> QED
        BY <1>2, <1>5, <3>1 DEF Verifying
    <2> QED
      BY <2>1, <2>2, <2>3, <2>4 DEF Place
  <1> QED
    BY <1>2, <1>3, <1>4, <1>7

-----------------------------------------------------------------------------
(* The steps of a call keep it in its place.                               *)

\* A call goes on with variables of which its stage takes no notice.
LEMMA AlikeTidy ==
    ASSUME Inv, TidyInv, NEW o \in Operators, pc[o] # "idle", NEW s, NEW c,
           Continue(o, s, c), UNCHANGED <<setting, system, files, history>>,
           Alike(c, call[o]), World /\ Place(pc[o], call[o]) => Place(s, call[o])
    PROVE  TidyInv'
  <1>1. PICK d : d = call[o]
    OBVIOUS
  <1>2. World /\ Place(pc[o], call[o]) => Place(s, c)
    BY <1>1, SamePlace
  <1> QED
    BY <1>2, QuietTidy

\* A start looks at the port.
LEMMA LookTidy ==
    ASSUME Inv, TidyInv, NEW o \in Operators,
           Look(o) \/ Classify(o) \/ Correlate(o) \/ Reverify(o) \/ Gone(o) \/ Release(o)
    PROVE  TidyInv'
  <1>0. IsCall(call[o])
    BY DEF Inv, Types
  <1>p. PICK c : c = call[o]
    OBVIOUS
  <1>a. UNCHANGED <<setting, files>> /\ pc[o] # "idle"
    BY DEF Look, Classify, Correlate, Reverify, Gone, Release, At
  <1>1. CASE Look(o)
    <2>1. World /\ Place(pc[o], call[o]) => /\ Place("classify", call[o])
                                            /\ Place("correlate", call[o])
                                            /\ ~Listening => Place("stale", call[o])
      BY <1>p, <1>1, FromLook DEF Look, At
    <2>2. CASE ~Listening
      BY <1>1, <1>a, <2>1, <2>2, GotoTidy DEF Look
    <2>3. CASE Listening /\ setting.proc
      <3>1. Continue(o, "classify", [call[o] EXCEPT !.pids = PortOwners])
            /\ UNCHANGED <<system, history>>
        BY <1>1, <2>3 DEF Look
      <3> QED
        BY <1>0, <1>a, <2>1, <3>1, AlikeUpdates, AlikeTidy
    <2>4. CASE Listening /\ ~setting.proc
      <3>1. Continue(o, "correlate", call[o]) /\ UNCHANGED <<system, history>>
        BY <1>1, <2>4 DEF Look
      <3> QED
        BY <1>a, <2>1, <3>1, GotoTidy DEF Goto
    <2> QED
      BY <2>2, <2>3, <2>4
  <1>2. CASE Classify(o)
    <2>1. World /\ Place(pc[o], call[o]) => /\ Place("reverify", call[o])
                                            /\ Place("fail", call[o])
      BY <1>p, <1>2, FromLook DEF Classify, At
    <2> QED
      BY <1>2, <1>a, <2>1, GotoTidy DEF Classify
  <1>3. CASE Correlate(o)
    <2>1. World /\ Place(pc[o], call[o]) => /\ Place("reverify", call[o])
                                            /\ Place("fail", call[o])
      BY <1>p, <1>3, FromLook DEF Correlate, At
    <2>2. CASE Goto(o, "fail")
      BY <1>a, <2>1, <2>2, GotoTidy
    <2>3. CASE ~Goto(o, "fail")
      <3>1. PICK hints \in {{}, {port}} :
               LET candidates == (Matching \cup {pidFile} \cup hints) \ {NoPid} IN
               Continue(o, "reverify", [call[o] EXCEPT !.pids = candidates])
               /\ UNCHANGED <<system, history>>
        BY <1>3, <2>3 DEF Correlate
      <3>2. PICK candidates :
               Continue(o, "reverify", [call[o] EXCEPT !.pids = candidates])
        BY <3>1
      <3> QED
        BY <1>0, <1>a, <2>1, <3>1, <3>2, AlikeUpdates, AlikeTidy
    <2> QED
      BY <2>2, <2>3
  <1>4. CASE Reverify(o)
    <2>1. World /\ Place(pc[o], call[o]) =>
             /\ Place("fail", call[o])
             /\ IF setting.runit THEN Place("down", call[o]) ELSE Place("signal", call[o])
      BY <1>p, <1>4, FromLook DEF Reverify, At
    <2>2. \/ Goto(o, "fail")
          \/ Looked(o, IF setting.runit THEN "down" ELSE "signal", c)
      BY <1>p, <1>4 DEF Reverify
    <2> QED
      BY <1>p, <1>a, <2>1, <2>2, GotoTidy, LookedTidy
  <1>5. CASE Gone(o)
    <2>1. World /\ Place(pc[o], call[o]) => /\ Place("signal", call[o])
                                            /\ Place("fail", call[o])
      BY <1>p, <1>5, FromLook DEF Gone, At
    <2>2. CASE Continue(o, "fail", call[o])
      BY <1>5, <1>a, <2>1, <2>2, GotoTidy DEF Gone, Goto
    <2>3. CASE ~Continue(o, "fail", call[o])
      <3>1. Continue(o, "signal", [call[o] EXCEPT !.pids = @ \ {call[o].pid},
                                                  !.done = @ \cup {call[o].pid}])
            /\ UNCHANGED <<system, history>>
        BY <1>5, <2>3 DEF Gone
      <3> QED
        BY <1>0, <1>a, <2>1, <3>1, AlikeUpdates, AlikeTidy
    <2> QED
      BY <2>2, <2>3
  <1>6. CASE Release(o)
    <2>1. World /\ Place(pc[o], call[o]) => /\ Place("fail", call[o])
                                            /\ ~Listening => Place("purge", call[o])
      BY <1>p, <1>6, FromLook DEF Release, At
    <2> QED
      BY <1>6, <1>a, <2>1, GotoTidy DEF Release
  <1> QED
    BY <1>1, <1>2, <1>3, <1>4, <1>5, <1>6

\* A call goes on and has sent a signal.
LEMMA SignalledTidy ==
    ASSUME Inv, TidyInv, NEW o \in Operators, pc[o] # "idle", NEW s, NEW c,
           Continue(o, s, c),
           UNCHANGED <<setting, proc, parent, port, wanted, files, clean, tidy, last>>,
           termed \subseteq termed',
           World /\ Place(pc[o], call[o]) => Place(s, c)
    PROVE  TidyInv'
  <1> SUFFICES ASSUME tidy'
               PROVE  /\ tidy
                      /\ \A q \in Operators \ {o} : pc[q] = "idle"
                      /\ World' /\ Place(s, c)'
    BY TidyStep
  <1>1. /\ World /\ Place(s, c)
        /\ \A q \in Operators \ {o} : pc[q] = "idle"
    BY AtPlace
  <1>2. World'
    BY <1>1, WorldKept
  <1>3. Matching' = Matching /\ (Over => Over') /\ UNCHANGED <<Supervision, pidFile, status>>
    BY DEF Matching, Over, Supervision, files
  <1>4. Route(s, c)' /\ Filed(s, c)' /\ Verifying(s, c)'
    BY <1>1, <1>3 DEF Place, Route, Filed, Verifying, KillsFor, Cleared, Named, Unproven, Serves
  <1>5. Halting(s, c)'
    BY <1>1, <1>3 DEF Place, Halting, KillsFor
  <1> QED
    BY <1>1, <1>2, <1>4, <1>5 DEF Place

\* The owners of the port are stopped.
LEMMA SignalTidy ==
    ASSUME Inv, TidyInv, NEW o \in Operators, Signal(o)
    PROVE  TidyInv'
  <1>0. IsCall(call[o]) /\ pc[o] = "signal" /\ call[o].pids \subseteq Pids
    BY DEF Inv, Types, Signal, At, IsCall
  <1>1. PICK c : c = call[o]
    OBVIOUS
  <1>2. World /\ Place(pc[o], call[o]) =>
           Place("gone", c) /\ Place("fail", c) /\ Place("release", c) /\ Place("signal", c)
    BY <1>0, <1>1, FromLook
  <1>3. UNCHANGED <<setting, proc, parent, port, wanted, files, clean, tidy, last>>
    BY DEF Signal, At
  <1>4. CASE \E s \in {"fail", "release"} : Continue(o, s, call[o]) /\ UNCHANGED termed
    BY <1>0, <1>1, <1>2, <1>3, <1>4, SignalledTidy
  <1>5. CASE \E p \in call[o].pids : Continue(o, "gone", [call[o] EXCEPT !.pid = p])
                                     /\ termed' = termed \cup {p}
    <2>1. PICK p \in call[o].pids : Continue(o, "gone", [call[o] EXCEPT !.pid = p])
                                     /\ termed' = termed \cup {p}
      BY <1>5
    <2>2. PICK d : d = [c EXCEPT !.pid = p]
      OBVIOUS
    <2>3. d.op = c.op /\ d.pid = p /\ d.then = c.then
      BY <1>0, <1>1, <2>2, OtherUpdates
    <2>4. Place("gone", c) => Place("gone", d)
      BY <2>3 DEF Place, Route, Filed, Halting, Verifying, KillsFor, HttpStages,
                  StartStages, StopStages, Cleared, Named, Unproven
    <2> QED
      BY <1>0, <1>1, <1>2, <1>3, <2>1, <2>2, <2>4, SignalledTidy
  <1>6. CASE \E p \in call[o].pids :
                /\ Continue(o, "signal", [call[o] EXCEPT !.pids = @ \ {p},
                                                         !.done = @ \cup {p}])
                /\ UNCHANGED termed
    <2>1. PICK p \in call[o].pids :
                /\ Continue(o, "signal", [call[o] EXCEPT !.pids = @ \ {p},
                                                         !.done = @ \cup {p}])
                /\ UNCHANGED termed
      BY <1>6
    <2>2. PICK d : d = [call[o] EXCEPT !.pids = @ \ {p}, !.done = @ \cup {p}]
      OBVIOUS
    <2>3. Alike(d, c)
      BY <1>0, <1>1, <2>2, AlikeUpdates
    <2>4. World /\ Place(pc[o], call[o]) => Place("signal", d)
      BY <1>1, <1>2, <2>3, SamePlace
    <2> QED
      BY <1>0, <1>3, <2>1, <2>2, <2>4, SignalledTidy
  <1> QED
    BY <1>4, <1>5, <1>6 DEF Signal

\* sv down.
LEMMA SvDownTidy ==
    ASSUME Inv, TidyInv, NEW o \in Operators, SvDown(o)
    PROVE  TidyInv'
  <1>1. PICK c : c = call[o]
    OBVIOUS
  <1>2. PICK s : /\ \/ pc[o] = "down" /\ s = "signal"
                    \/ pc[o] = "stopdown" /\ s = "read"
                 /\ Continue(o, s, c)
    BY <1>1 DEF SvDown
  <1> SUFFICES ASSUME tidy'
               PROVE  /\ tidy
                      /\ \A q \in Operators \ {o} : pc[q] = "idle"
                      /\ World' /\ Place(s, c)'
    BY <1>2, TidyStep
  <1>3. /\ wanted' = FALSE
        /\ termed' = termed \cup {p \in Pids : parent[p] = "runit"}
        /\ UNCHANGED <<setting, proc, parent, port, pidFile, status, tidy, clean, last>>
    BY DEF SvDown, files
  <1>4. /\ World /\ Place(pc[o], c)
        /\ \A q \in Operators \ {o} : pc[q] = "idle"
    BY <1>1, <1>2, <1>3, AtPlace
  <1>5. Matching' = Matching /\ UNCHANGED <<Supervision>>
    BY <1>3 DEF Matching, Supervision
  <1>6. World'
    BY <1>3, <1>4, <1>5 DEF World
  <1>7. Route(s, c)' /\ Filed(s, c)' /\ Verifying(s, c)'
    BY <1>2, <1>3, <1>4, <1>5 DEF Place, Route, Filed, Verifying, KillsFor, HttpStages,
         StartStages, StopStages, Cleared, Named, Unproven
  <1>8. Supervision => Over'
    BY <1>3, <1>4, <1>5 DEF World, Over, Matching
  <1>9. Halting(s, c)'
    BY <1>2, <1>5, <1>8 DEF Halting, StopStages, KillsFor
  <1> QED
    BY <1>3, <1>4, <1>6, <1>7, <1>9 DEF Place

\* The PID file is removed.
LEMMA RemovePidTidy ==
    ASSUME Inv, TidyInv, NEW o \in Operators, RemovePid(o)
    PROVE  TidyInv'
  <1>1. PICK c : c = call[o]
    OBVIOUS
  <1>2. /\ pc[o] \in {"purge", "drop", "disown", "forget", "lapse"}
        /\ pidFile' = NoPid /\ UNCHANGED <<setting, status>>
    BY DEF RemovePid
  <1>3. PICK s \in {"stale", "up", "spawn", "pgrep", "stopdown", "read", "fail", "find"} :
           /\ Goto(o, s)
           /\ s = CASE pc[o] = "purge" -> "stale"
                    [] pc[o] = "drop" -> IF setting.http THEN Launch ELSE "pgrep"
                    [] pc[o] = "disown" -> StopEntry
                    [] pc[o] = "forget" -> "fail"
                    [] pc[o] = "lapse" -> "find"
    BY <1>2 DEF RemovePid, Launch, StopEntry
  <1>4. World /\ Place(pc[o], c) => Place(s, c) /\ (~Supervision => Matching = {})
    BY <1>2, <1>3, FromPurge
  <1> QED
    BY <1>1, <1>2, <1>3, <1>4, RemovedTidy

\* A start looks at the PID file and at pgrep.
LEMMA StaleTidy ==
    ASSUME Inv, TidyInv, NEW o \in Operators, Stale(o) \/ Saved(o) \/ Pgrep(o)
    PROVE  TidyInv'
  <1>0. IsCall(call[o])
    BY DEF Inv, Types
  <1>p. PICK c : c = call[o]
    OBVIOUS
  <1>a. UNCHANGED <<setting, files>> /\ pc[o] # "idle"
    BY DEF Stale, Saved, Pgrep, At
  <1>1. CASE Stale(o)
    <2>1. World /\ Place(pc[o], call[o]) => Place("drop", call[o]) /\ Place(Launch, call[o])
      BY <1>p, <1>1, FromStale DEF Stale, At
    <2>2. PICK s \in {"drop", Launch} : Goto(o, s)
      BY <1>1 DEF Stale
    <2> QED
      BY <1>a, <2>1, <2>2, GotoTidy
  <1>2. CASE Saved(o)
    <2>1. World /\ Place(pc[o], call[o]) =>
             /\ pidFile = NoPid => Place("pgrep", call[o])
             /\ Alive(o, pidFile) => Place("mark", call[o])
             /\ ~Alive(o, pidFile) => Place("drop", call[o])
      BY <1>p, <1>2, FromStale DEF Saved, At
    <2> QED
      BY <1>2, <1>a, <2>1, GotoTidy DEF Saved
  <1>3. CASE Pgrep(o)
    <2>1. World /\ Place(pc[o], call[o]) => Matching = {} /\ Place("spawn", call[o])
      BY <1>p, <1>3, FromStale DEF Pgrep, At
    <2>2. CASE Continue(o, "spawn", call[o])
      BY <1>3, <1>a, <2>1, <2>2, GotoTidy DEF Pgrep, Goto
    <2>3. CASE ~Continue(o, "spawn", call[o])
      <3>1. Matching # {}
        BY <1>3, <2>3 DEF Pgrep
      <3>2. PICK p \in Matching : Continue(o, "adopt", [call[o] EXCEPT !.pid = p])
        BY <1>3, <2>3 DEF Pgrep
      <3>3. PICK d : d = [call[o] EXCEPT !.pid = p]
        OBVIOUS
      <3>4. World /\ Place(pc[o], call[o]) => Place("adopt", d)
        BY <2>1, <3>1
      <3> QED
        BY <1>3, <1>a, <3>2, <3>3, <3>4, QuietTidy DEF Pgrep
    <2> QED
      BY <2>2, <2>3
  <1> QED
    BY <1>1, <1>2, <1>3

\* The next poll of a verification, or the end of it.
LEMMA RetryTidy ==
    ASSUME Inv, TidyInv, NEW o \in Operators, UNCHANGED <<setting, files>>, Retry(o),
           \/ pc[o] \in {"ident", "owner", "health"}
           \/ pc[o] = "discover" /\ setting.runit
    PROVE  TidyInv'
  <1>0. IsCall(call[o]) /\ pc[o] # "idle" /\ UNCHANGED <<system, history>>
    BY DEF Inv, Types, Retry
  <1>p. PICK c : c = call[o]
    OBVIOUS
  <1>q. PICK a \in {"discover", "ident", "owner", "health"} : a = pc[o]
    OBVIOUS
  <1>1. World /\ Place(pc[o], call[o]) =>
           /\ setting.runit => Place("discover", call[o]) /\ Place("fail", call[o])
           /\ pc[o] # "discover" => Place("ident", call[o])
    BY <1>p, <1>q, FromIdent
  <1>2. CASE \E s : /\ s = (IF setting.runit THEN "discover" ELSE "ident")
                    /\ Continue(o, s, [call[o] EXCEPT !.tries = @ - 1])
    <2>1. PICK s : /\ s = (IF setting.runit THEN "discover" ELSE "ident")
                   /\ Continue(o, s, [call[o] EXCEPT !.tries = @ - 1])
      BY <1>2
    <2>2. World /\ Place(pc[o], call[o]) => Place(s, call[o])
      BY <1>1, <2>1
    <2>3. Alike([call[o] EXCEPT !.tries = @ - 1], call[o])
      BY <1>0, AlikeUpdates
    <2> QED
      BY <1>0, <2>1, <2>2, <2>3, AlikeTidy
  <1>3. CASE setting.runit /\ Continue(o, "fail", call[o])
    BY <1>0, <1>1, <1>3, GotoTidy DEF Goto
  <1>4. CASE ~setting.runit /\ Continue(o, "kill", [call[o] EXCEPT !.then = "forget"])
    <2>1. PICK d : d = [c EXCEPT !.then = "forget"]
      OBVIOUS
    <2>2. d.op = c.op /\ d.pid = c.pid /\ d.then = "forget"
      BY <1>0, <1>p, <2>1, OtherUpdates
    <2>3. World /\ Place(pc[o], call[o]) => Place("kill", d)
      BY <1>p, <1>q, <1>4, <2>2, FromPoll
    <2> QED
      BY <1>0, <1>p, <1>4, <2>1, <2>3, QuietTidy
  <1> QED
    BY <1>2, <1>3, <1>4 DEF Retry

\* runit is told to start the service, and the call looks for what it has started.
LEMMA RunitTidy ==
    ASSUME Inv, TidyInv, NEW o \in Operators, Discover(o) \/ SvUp(o)
    PROVE  TidyInv'
  <1>0. IsCall(call[o]) /\ setting.runit
    BY DEF Inv, Types, CallsSafe, Safe, Supervised, SvUp, Discover, At
  <1>p. PICK c : c = call[o]
    OBVIOUS
  <1>a. UNCHANGED <<setting, files>> /\ pc[o] # "idle"
    BY DEF Discover, SvUp, At
  <1>1. CASE Discover(o) /\ Retry(o)
    BY <1>0, <1>1, <1>a, RetryTidy DEF Discover, At
  <1>2. CASE Discover(o) /\ ~Retry(o)
    <2>1. PICK p \in Candidates(o) : Continue(o, "ident", [call[o] EXCEPT !.pid = p])
      BY <1>2 DEF Discover
    <2>2. PICK d : d = [c EXCEPT !.pid = p]
      OBVIOUS
    <2>3. d.op = c.op /\ d.pid = p /\ d.then = c.then
      BY <1>0, <1>p, <2>2, OtherUpdates
    <2>4. Place("discover", c) => Place("ident", d)
      BY <2>3 DEF Place, Route, Filed, Halting, Verifying, KillsFor, HttpStages,
                  StartStages, StopStages, Cleared, Named, Unproven
    <2> QED
      BY <1>p, <1>2, <1>a, <2>1, <2>2, <2>4, QuietTidy DEF Discover, At
  <1>3. CASE SvUp(o) /\ Goto(o, "fail")
    <2>1. World /\ Place(pc[o], call[o]) => Place("fail", call[o])
      BY <1>p, <1>3, FromStale DEF SvUp, At
    <2> QED
      BY <1>3, <1>a, <2>1, GotoTidy
  <1>4. CASE SvUp(o) /\ ~Goto(o, "fail")
    <2>1. /\ wanted' = TRUE
          /\ Continue(o, "discover", [call[o] EXCEPT !.tries = Retries])
          /\ UNCHANGED <<proc, parent, termed, port, hit, clean, tidy, last>>
      BY <1>4 DEF SvUp, history
    <2>2. PICK d : d = [c EXCEPT !.tries = Retries]
      OBVIOUS
    <2>3. Alike(d, c)
      BY <1>0, <1>p, <2>2, AlikeUpdates
    <2> SUFFICES ASSUME tidy'
                 PROVE  /\ tidy
                        /\ \A q \in Operators \ {o} : pc[q] = "idle"
                        /\ World' /\ Place("discover", d)'
      BY <1>p, <2>1, <2>2, TidyStep
    <2>4. /\ World /\ Place("up", c) /\ tidy
          /\ \A q \in Operators \ {o} : pc[q] = "idle"
      BY <1>p, <1>4, <1>a, <2>1, AtPlace DEF SvUp, At
    <2>5. Supervision /\ Matching' = Matching /\ UNCHANGED <<Supervision, pidFile, status>>
      BY <1>a, <2>1, <2>4 DEF Place, Route, Supervision, Matching, files
    <2>6. World'
      BY <1>a, <2>1, <2>4, <2>5 DEF World
    <2>7. Place("discover", d)'
      BY <1>a, <2>1, <2>3, <2>4, <2>5 DEF Alike, Place, Route, Filed, Halting, Verifying, KillsFor, HttpStages,
                  StartStages, StopStages, Cleared, Named, Unproven
    <2> QED
      BY <2>4, <2>6, <2>7
  <1> QED
    BY <1>1, <1>2, <1>3, <1>4

\* The child runs, and nothing else of the service.
LEMMA SpawnTidy ==
    ASSUME Inv, TidyInv, NEW o \in Operators, Spawn(o)
    PROVE  TidyInv'
  <1>0. IsCall(call[o]) /\ pc[o] = "spawn" /\ UNCHANGED <<setting, files>>
    BY DEF Inv, Types, Spawn, At
  <1>p. PICK c : c = call[o]
    OBVIOUS
  <1>1. CASE \E stage \in {"fail", "forget"} : Goto(o, stage)
    <2>1. World /\ Place(pc[o], call[o]) => Place("fail", call[o]) /\ Place("forget", call[o])
      BY <1>p, <1>0, FromStale
    <2> QED
      BY <1>0, <1>1, <2>1, GotoTidy
  <1>2. ASSUME NEW p \in Pids, Starts(p, "service", o),
               Continue(o, "record", [call[o] EXCEPT !.pid = p, !.tries = Retries]),
               UNCHANGED <<termed, port, wanted, clean, tidy, last>>
        PROVE  TidyInv'
    <2>1. PICK d : d = [c EXCEPT !.pid = p, !.tries = Retries]
      OBVIOUS
    <2>2. d.op = c.op /\ d.pid = p /\ d.then = c.then
      BY <1>0, <1>p, <2>1 DEF IsCall
    <2> SUFFICES ASSUME tidy'
                 PROVE  /\ tidy
                        /\ \A q \in Operators \ {o} : pc[q] = "idle"
                        /\ World' /\ Place("record", d)'
      BY <1>p, <1>2, <2>1, TidyStep
    <2>3. tidy /\ UNCHANGED <<setting, port, wanted, pidFile, status, clean, last>>
      BY <1>0, <1>2 DEF files
    <2>4. /\ World /\ Place("spawn", c)
          /\ \A q \in Operators \ {o} : pc[q] = "idle"
      BY <1>p, <1>0, <2>3, AtPlace
    <2>5. ~Supervision /\ Matching = {} /\ UNCHANGED Supervision
      BY <2>3, <2>4 DEF Place, Route, Filed, Cleared, Supervision
    <2>6. /\ proc[p] = "none" /\ proc' = [proc EXCEPT ![p] = "service"]
          /\ parent' = [parent EXCEPT ![p] = o]
      BY <1>2 DEF Starts
    <2>7. Matching' = {p}
      BY <2>5, <2>6 DEF Matching, Inv, Types
    <2>8. port # NoPid => proc'[port] = proc[port]
      BY <2>4, <2>6 DEF World, Inv, Types
    <2>9. World'
      <3>1. parent' \in [Pids -> Starters]
        BY <2>4, <2>6 DEF World, Starters
      <3> QED
        BY <2>3, <2>4, <2>5, <2>8, <3>1 DEF World
    <2>10. Route("record", d)' /\ Halting("record", d)' /\ Verifying("record", d)'
      BY <2>2, <2>3, <2>4, <2>5, <2>8 DEF Place, Route, Halting, Verifying, KillsFor,
           HttpStages, StartStages, StopStages
    <2>11. Filed("record", d)'
      BY <2>2, <2>7 DEF Filed, Cleared, Named, Unproven, KillsFor
    <2> QED
      BY <2>3, <2>4, <2>9, <2>10, <2>11 DEF Place
  <1> QED
    BY <1>1, <1>2 DEF Spawn

\* Its PID is saved.
LEMMA RecordTidy ==
    ASSUME Inv, TidyInv, NEW o \in Operators, Record(o)
    PROVE  TidyInv'
  <1>p. PICK c : c = call[o]
    OBVIOUS
  <1>1. PICK s : Continue(o, s, c) /\ (tidy' => s = "grace" /\ tidy /\ pidFile' = c.pid)
    BY <1>p DEF Record
  <1> SUFFICES ASSUME tidy'
               PROVE  /\ tidy
                      /\ \A q \in Operators \ {o} : pc[q] = "idle"
                      /\ World' /\ Place("grace", c)'
    BY <1>1, TidyStep
  <1>2. /\ tidy /\ pidFile' = c.pid
        /\ UNCHANGED <<setting, proc, parent, termed, port, wanted, status, clean, last>>
    BY <1>1 DEF Record, At, system
  <1>3. /\ World /\ Place("record", c)
        /\ \A q \in Operators \ {o} : pc[q] = "idle"
    BY <1>p, <1>2, AtPlace DEF Record, At
  <1>4. World' /\ UNCHANGED <<Supervision, Matching>>
    BY <1>2, <1>3, WorldKept DEF Supervision, Matching
  <1>5. Place("grace", c)'
    BY <1>2, <1>3, <1>4 DEF Place, Route, Filed, Halting, Verifying, KillsFor, HttpStages,
         StartStages, StopStages, Cleared, Named, Unproven
  <1> QED
    BY <1>2, <1>3, <1>4, <1>5

\* The child is verified.
LEMMA VerifyTidy ==
    ASSUME Inv, TidyInv, NEW o \in Operators,
           Grace(o) \/ Ident(o) \/ Owner(o) \/ Health(o)
    PROVE  TidyInv'
  <1>p. PICK c : c = call[o]
    OBVIOUS
  <1>a. UNCHANGED <<setting, files>> /\ pc[o] # "idle"
    BY DEF Grace, Ident, Owner, Health, At
  <1>1. CASE Grace(o)
    <2>1. World /\ Place(pc[o], call[o]) =>
             /\ ~Alive(o, call[o].pid) => Place("forget", call[o])
             /\ IF setting.http THEN Place("ident", call[o]) ELSE Place("mark", call[o])
      BY <1>p, <1>1, FromStale DEF Grace, At
    <2> QED
      BY <1>1, <1>a, <2>1, GotoTidy DEF Grace
  <1>2. CASE Retry(o) /\ (Ident(o) \/ Owner(o) \/ Health(o))
    BY <1>2, <1>a, RetryTidy DEF Ident, Owner, Health, At
  <1>3. CASE ~Retry(o) /\ Ident(o)
    <2>1. World /\ Place(pc[o], call[o]) => Place("owner", call[o])
      BY <1>p, <1>3, FromIdent DEF Ident, At
    <2> QED
      BY <1>3, <1>a, <2>1, GotoTidy DEF Ident
  <1>4. CASE ~Retry(o) /\ Owner(o)
    <2>1. World /\ Place(pc[o], call[o]) =>
             (Owns(call[o].pid) => Place("health", call[o]))
      BY <1>p, <1>4, FromIdent DEF Owner, At
    <2> QED
      BY <1>4, <1>a, <2>1, GotoTidy DEF Owner
  <1>5. CASE ~Retry(o) /\ Health(o)
    <2>1. PICK s : Goto(o, s) /\ MayAnswer /\ s = IF setting.runit THEN "adopt" ELSE "mark"
      BY <1>5 DEF Health
    <2>2. World /\ Place(pc[o], call[o]) => Place(s, call[o])
      BY <1>p, <1>5, <2>1, FromIdent DEF Health, At
    <2> QED
      BY <1>a, <2>1, <2>2, GotoTidy
  <1> QED
    BY <1>1, <1>2, <1>3, <1>4, <1>5

\* Only runit has started what a start or a report finds.
LEMMA AdoptTidy ==
    ASSUME Inv, TidyInv, NEW o \in Operators, Adopt(o)
    PROVE  TidyInv'
  <1>p. PICK c : c = call[o]
    OBVIOUS
  <1>1. PICK s : /\ Goto(o, s)
                 /\ \/ pc[o] = "note" /\ s = "amend"
                    \/ pc[o] = "adopt" /\ s = "mark"
    BY DEF Adopt
  <1>2. UNCHANGED <<setting, system, status, history>> /\ pidFile' = c.pid
    BY <1>p, <1>1 DEF Adopt, Goto
  <1> SUFFICES ASSUME tidy'
               PROVE  /\ tidy
                      /\ \A q \in Operators \ {o} : pc[q] = "idle"
                      /\ World' /\ Place(s, c)'
    BY <1>p, <1>1, TidyStep DEF Goto
  <1>3. tidy /\ UNCHANGED <<setting, proc, parent, termed, port, wanted, status, clean, last>>
    BY <1>2 DEF system, history
  <1>4. /\ World /\ Place(pc[o], c)
        /\ \A q \in Operators \ {o} : pc[q] = "idle"
    BY <1>p, <1>1, <1>3, AtPlace
  <1>5. World' /\ UNCHANGED Supervision /\ Supervision
    BY <1>1, <1>3, <1>4, WorldKept DEF Supervision, Place, Filed
  <1>6. Place(s, c)'
    BY <1>1, <1>2, <1>3, <1>4, <1>5 DEF Place, Route, Filed, Halting, Verifying, KillsFor,
         HttpStages, StartStages, StopStages, Cleared, Named, Unproven, Serves
  <1> QED
    BY <1>3, <1>4, <1>5, <1>6

\* A start ends.
LEMMA StartEndTidy ==
    ASSUME Inv, TidyInv, NEW o \in Operators, Mark(o) \/ Fail(o)
    PROVE  TidyInv'
  <1>p. PICK c : c = call[o]
    OBVIOUS
  <1>a. setting' = setting /\ pidFile' = pidFile /\ pc[o] \in {"mark", "fail"} /\ pc[o] # "idle"
    BY DEF Mark, Fail, At
  <1>0. World /\ Place(pc[o], c) =>
           /\ ~Supervision => /\ Matching \subseteq {pidFile}
                              /\ setting.http => Matching \subseteq {port}
           /\ c.op \in {"start", "restart"}
           /\ (pc[o] = "mark" /\ setting.http /\ clean) => Serves(pidFile)
    BY <1>a DEF Place, Route, Filed, Verifying, KillsFor, HttpStages, StartStages, Cleared,
            Named, Unproven
  <1>1. CASE Fail(o)
    <2>1. Return(o, FALSE)
      BY <1>1 DEF Fail
    <2> QED
      BY <1>p, <1>a, <1>0, <2>1, ReturnTidy
  <1>2. CASE Mark(o) /\ Return(o, TRUE)
    <2>1. pc[o] = "mark" /\ status' = "running"
      BY <1>2 DEF Mark, At
    <2> QED
      BY <1>p, <1>a, <1>0, <1>2, <2>1, ReturnTidy DEF Serves
  <1>3. CASE Mark(o) /\ ~Return(o, TRUE)
    <2>1. /\ pc[o] = "mark" /\ status' = "running" /\ call[o].op = "restart"
          /\ Goto(o, "new") /\ UNCHANGED <<setting, pidFile, system, history>>
      BY <1>3 DEF Mark, At, Started, Goto
    <2> SUFFICES ASSUME tidy'
                 PROVE  /\ tidy
                        /\ \A q \in Operators \ {o} : pc[q] = "idle"
                        /\ World' /\ Place("new", c)'
      BY <1>p, <2>1, TidyStep DEF Goto
    <2>2. tidy /\ UNCHANGED <<proc, parent, termed, port, wanted, clean, last>>
      BY <2>1 DEF system, history
    <2>3. /\ World /\ Place("mark", c)
          /\ \A q \in Operators \ {o} : pc[q] = "idle"
      BY <1>p, <1>a, <2>1, <2>2, AtPlace
    <2>4. World' /\ UNCHANGED <<Supervision, Matching>>
      BY <2>1, <2>2, <2>3, WorldKept DEF Supervision, Matching
    <2>5. Place("new", c)'
      BY <1>p, <2>1, <2>2, <2>3, <2>4 DEF Place, Route, Filed, Halting, Verifying, KillsFor,
         HttpStages, StartStages, StopStages, Cleared, Named, Unproven, Serves
    <2> QED
      BY <2>2, <2>3, <2>4, <2>5
  <1> QED
    BY <1>1, <1>2, <1>3

\* The PID at hand is dead, or dies.
LEMMA KillTidy ==
    ASSUME Inv, TidyInv, NEW o \in Operators, Kill(o)
    PROVE  TidyInv'
  <1>0. /\ IsCall(call[o]) /\ pc[o] = "kill"
        /\ UNCHANGED <<setting, proc, parent, port, wanted, files, clean, tidy, last>>
    BY DEF Inv, Types, Kill, At
  <1>p. PICK c : c = call[o]
    OBVIOUS
  <1>q. c.then \in {"idle", "forget", "unrecord", "next"}
    BY <1>0, <1>p DEF IsCall
  <1>1. CASE Alive(o, call[o].pid)
    <2>1. World /\ Place(pc[o], call[o]) => Place("killwait", call[o])
      BY <1>0, <1>p, <1>q, FromKill
    <2> QED
      BY <1>0, <1>1, <2>1, SignalledTidy DEF Kill
  <1>2. CASE ~Alive(o, call[o].pid)
    <2>1. PICK t : t = call[o].then
      OBVIOUS
    <2>2. PICK d : d = [call[o] EXCEPT !.done = @ \cup {call[o].pid}]
      OBVIOUS
    <2>3. Continue(o, t, d) /\ UNCHANGED termed
      BY <1>2, <2>1, <2>2 DEF Kill
    <2>4. Alike(d, c)
      BY <1>0, <1>p, <2>2, AlikeUpdates
    <2>5. World /\ Place(pc[o], call[o]) => Place(t, d)
      BY <1>0, <1>p, <1>q, <1>2, <2>1, <2>4, FromKill, SamePlace
    <2> QED
      BY <1>0, <2>3, <2>5, SignalledTidy
  <1> QED
    BY <1>1, <1>2

\* A process ends.
LEMMA DieKept ==
    ASSUME Inv, World, NEW ps \in SUBSET Pids, Die(ps), UNCHANGED <<setting, wanted>>
    PROVE  /\ World'
           /\ Matching' = Matching \ ps
           /\ termed' = termed \ ps
           /\ port' # NoPid => port' = port /\ proc'[port] = proc[port]
           /\ port' = NoPid => port \in ps \cup {NoPid}
  <1>1. /\ Matching' = Matching \ ps /\ termed' = termed \ ps
        /\ port' = IF port \in ps THEN NoPid ELSE port
        /\ \A q \in Pids \ ps : proc'[q] = proc[q] /\ parent'[q] = parent[q]
        /\ \A q \in Pids : parent'[q] \in {parent[q], "outside"}
        /\ parent' \in [Pids -> Starters]
    BY DEF Die, Matching, World, Inv, Types, Starters
  <1>2. port \in PidOrNone /\ NoPid \notin Pids
    BY ServiceManagerAssumption DEF Inv, Types
  <1>3. /\ port' # NoPid => port' = port /\ proc'[port] = proc[port]
        /\ port' = NoPid => port \in ps \cup {NoPid}
    BY <1>1, <1>2 DEF PidOrNone
  <1>4. port' # NoPid => /\ proc'[port'] \in {"service", "lookalike", "foreign"}
                         /\ ~setting'.proc => proc'[port'] = "service"
    <2> SUFFICES ASSUME port' # NoPid
                 PROVE  /\ proc'[port'] \in {"service", "lookalike", "foreign"}
                        /\ ~setting.proc => proc'[port'] = "service"
      OBVIOUS
    <2>1. port' = port /\ port # NoPid /\ proc'[port'] = proc[port]
      BY <1>3
    <2> QED
      BY <2>1 DEF World
  <1>5. Supervision => /\ \A q \in Matching' : parent'[q] = "runit"
                       /\ \A q, r \in Pids : (parent'[q] = "runit" /\ parent'[r] = "runit")
                                              => q = r
    <2>1. \A q \in Pids : parent'[q] = "runit" => parent[q] = "runit"
      BY <1>1
    <2>2. \A q \in Matching' : q \in Matching /\ q \notin ps /\ q \in Pids
      BY <1>1 DEF Matching
    <2> QED
      BY <1>1, <2>1, <2>2 DEF World
  <1>6. World'
    BY <1>1, <1>3, <1>4, <1>5 DEF World, Supervision
  <1> QED
    BY <1>1, <1>3, <1>6

\* The process at hand is killed: nothing of the service is left.
LEMMA KillWaitTidy ==
    ASSUME Inv, TidyInv, NEW o \in Operators, KillWait(o)
    PROVE  TidyInv'
  <1>0. /\ IsCall(call[o]) /\ pc[o] = "killwait"
        /\ UNCHANGED <<setting, wanted, files, renewed, clean, tidy, last>>
    BY DEF Inv, Types, KillWait, At
  <1>p. PICK c : c = call[o]
    OBVIOUS
  <1>q. c.then \in {"idle", "forget", "unrecord", "next"} /\ c.pid \in PidOrNone
    BY <1>0, <1>p DEF IsCall
  <1>t. PICK t : t = c.then
    OBVIOUS
  <1>1. CASE ~Alive(o, call[o].pid)
    <2>1. World /\ Place(pc[o], call[o]) => Place(t, call[o])
      BY <1>0, <1>p, <1>q, <1>t, <1>1, FromKill
    <2>2. PICK d : d = [call[o] EXCEPT !.done = @ \cup {call[o].pid}]
      OBVIOUS
    <2>3. Alike(d, call[o])
      BY <1>0, <2>2, AlikeUpdates
    <2>4. Continue(o, t, d) /\ UNCHANGED <<system, hit>>
      BY <1>p, <1>t, <1>1, <2>2 DEF KillWait
    <2>5. UNCHANGED <<setting, system, files, history>>
      BY <1>0, <2>4 DEF history
    <2> QED
      BY <1>0, <2>1, <2>3, <2>4, <2>5, AlikeTidy
  <1>2. CASE Alive(o, call[o].pid)
    <2>0. c.pid \in Pids /\ Mates(c.pid) \subseteq Pids
      BY <1>p, <1>q, <1>2 DEF Alive, PidOrNone, Mates
    <2>1. PICK ps \in SUBSET Pids : c.pid \in ps /\ Die(ps)
      <3>1. PICK mates \in SUBSET Mates(c.pid) : Die({c.pid} \cup mates)
        BY <1>p, <1>2 DEF KillWait
      <3> QED
        BY <2>0, <3>1
    <2>2. PICK d : /\ Continue(o, t, d)
                   /\ d = c \/ \E qs : d = [c EXCEPT !.done = qs]
      BY <1>p, <1>t, <1>2 DEF KillWait
    <2>3. Alike(d, c)
      <3>1. CASE d = c
        BY <3>1 DEF Alike
      <3>2. ASSUME NEW qs, d = [c EXCEPT !.done = qs] PROVE Alike(d, c)
        BY <1>0, <1>p, <3>2, AlikeUpdates
      <3> QED
        BY <2>2, <3>1, <3>2
    <2> SUFFICES ASSUME tidy'
                 PROVE  /\ tidy
                        /\ \A q \in Operators \ {o} : pc[q] = "idle"
                        /\ World' /\ Place(t, d)'
      BY <2>2, TidyStep
    <2>4. tidy /\ UNCHANGED <<setting, wanted, pidFile, status, clean, last>>
      BY <1>0 DEF files
    <2>5. /\ World /\ Place("killwait", c)
          /\ \A q \in Operators \ {o} : pc[q] = "idle"
      BY <1>0, <1>p, <2>4, AtPlace
    <2>6. World' /\ Matching' = Matching \ ps /\ termed' = termed \ ps
      BY <2>1, <2>4, <2>5, DieKept
    <2>7. t \in {"forget", "unrecord", "next"} /\ t = c.then
      BY <1>q, <1>t, <2>5 DEF Place, Route
    <2>8. ~Supervision => Matching' = {}
      BY <2>1, <2>5, <2>6, <2>7 DEF Place, Filed, KillsFor, Cleared, Named
    <2>9. Over => Over'
      BY <2>4, <2>6 DEF Over
    <2>10. UNCHANGED Supervision
      BY <2>4 DEF Supervision
    <2>11. Route(t, d)' /\ Halting(t, d)' /\ Verifying(t, d)'
      BY <2>3, <2>4, <2>5, <2>7, <2>9, <2>10 DEF Alike, Place, Route, Halting, Verifying,
         KillsFor, HttpStages, StartStages, StopStages
    <2>12. Filed(t, d)'
      BY <2>7, <2>8, <2>10 DEF Filed, Named, KillsFor
    <2> QED
      BY <2>4, <2>5, <2>6, <2>11, <2>12 DEF Place
  <1> QED
    BY <1>1, <1>2

\* A stop ends, or the stop of a restart does.
LEMMA StoppedTidy ==
    ASSUME Inv, TidyInv, NEW o \in Operators, NEW ok \in BOOLEAN, Stopped(o, ok),
           setting' = setting, pc[o] \in {"unrecord", "next", "verify", "halt"}
    PROVE  TidyInv'
  <1>p. PICK c : c = call[o]
    OBVIOUS
  <1>0. World /\ Place(pc[o], c) => /\ ~Supervision => Matching = {}
                                    /\ c.op \in {"stop", "restart"}
                                    /\ Over
    <2> SUFFICES ASSUME World, Place(pc[o], c)
                 PROVE  /\ ~Supervision => Matching = {}
                        /\ c.op \in {"stop", "restart"}
                        /\ Over
      OBVIOUS
    <2>1. ~Supervision => Matching = {}
      BY DEF Place, Filed, Cleared
    <2>2. c.op \in {"stop", "restart"} /\ (Supervision => Over)
      BY DEF Place, Route, Halting, StopStages
    <2>3. ~Supervision => Over
      BY <2>1 DEF Over, World
    <2> QED
      BY <2>1, <2>2, <2>3
  <1>1. CASE Return(o, ok) /\ call[o].op # "restart"
    <2>1. World /\ Place(pc[o], call[o]) => call[o].op = "stop"
      BY <1>p, <1>0, <1>1
    <2> QED
      BY <1>p, <1>0, <1>1, <2>1, ReturnTidy
  <1>2. CASE Goto(o, "oldgone") /\ call[o].op = "restart"
    <2> SUFFICES ASSUME tidy'
                 PROVE  /\ tidy
                        /\ \A q \in Operators \ {o} : pc[q] = "idle"
                        /\ World' /\ Place("oldgone", c)'
      BY <1>p, <1>2, TidyStep DEF Goto
    <2>1. tidy /\ UNCHANGED <<setting, proc, parent, termed, port, wanted, clean, last>>
      BY <1>2 DEF Goto, system, history
    <2>2. /\ World /\ Place(pc[o], c) /\ c.op = "restart"
          /\ \A q \in Operators \ {o} : pc[q] = "idle"
      BY <1>p, <1>2, <2>1, AtPlace
    <2>3. World' /\ UNCHANGED <<Supervision, Matching>>
      BY <2>1, <2>2, WorldKept DEF Supervision, Matching
    <2>4. Place("oldgone", c)'
      BY <1>0, <2>2, <2>3 DEF Place, Route, Filed, Halting, Verifying, KillsFor,
         HttpStages, StartStages, StopStages, Cleared, Named, Unproven
    <2> QED
      BY <2>1, <2>2, <2>3, <2>4
  <1> QED
    BY <1>1, <1>2 DEF Stopped

\* A stop reads the PID file, checks what it names, and turns to pgrep.
LEMMA ReadTidy ==
    ASSUME Inv, TidyInv, NEW o \in Operators, Read(o) \/ Check(o) \/ Pattern(o) \/ NextPid(o)
    PROVE  TidyInv'
  <1>0. IsCall(call[o]) /\ call[o].pids \subseteq Pids
    BY DEF Inv, Types, IsCall
  <1>p. PICK c : c = call[o]
    OBVIOUS
  <1>a. UNCHANGED <<setting, files>> /\ pc[o] # "idle"
    BY DEF Read, Check, Pattern, NextPid, At
  <1>1. CASE Read(o)
    <2>1. PICK d : d = [c EXCEPT !.pid = pidFile]
      OBVIOUS
    <2>2. d.op = c.op /\ d.pid = pidFile
      BY <1>0, <1>p, <2>1, OtherUpdates
    <2>3. PICK s : Continue(o, s, d) /\ s = IF pidFile = NoPid THEN "pattern" ELSE "check"
      BY <1>p, <1>1, <2>1 DEF Read
    <2>4. World /\ Place(pc[o], call[o]) => Place(s, d)
      BY <1>p, <1>1, <2>2, <2>3, FromRead DEF Read, At
    <2> QED
      BY <1>1, <1>a, <2>3, <2>4, QuietTidy DEF Read
  <1>2. CASE Check(o)
    <2>1. PICK d : d = [c EXCEPT !.then = "unrecord"]
      OBVIOUS
    <2>2. d.op = c.op /\ d.pid = c.pid /\ d.then = "unrecord"
      BY <1>0, <1>p, <2>1, OtherUpdates
    <2>3. World /\ Place(pc[o], call[o]) =>
             IF Mismatched(o, c.pid) THEN Place("unrecord", call[o]) ELSE Place("kill", d)
      BY <1>p, <1>2, <2>2, FromRead DEF Check, At
    <2>4. CASE Mismatched(o, call[o].pid)
      BY <1>p, <1>2, <1>a, <2>3, <2>4, GotoTidy DEF Check
    <2>5. CASE ~Mismatched(o, call[o].pid)
      <3>1. Looked(o, "kill", d)
        BY <1>p, <1>2, <2>1, <2>5 DEF Check
      <3> QED
        BY <1>p, <1>a, <2>3, <2>5, <3>1, LookedTidy
    <2> QED
      BY <2>4, <2>5
  <1>3. CASE Pattern(o)
    <2>1. World /\ Place(pc[o], call[o]) => Place("next", call[o])
      BY <1>p, <1>3, FromRead DEF Pattern, At
    <2>2. PICK d : d = [c EXCEPT !.pids = Matching]
      OBVIOUS
    <2>3. Alike(d, c)
      BY <1>0, <1>p, <2>2, AlikeUpdates
    <2>4. World /\ Place(pc[o], call[o]) => Place("next", d)
      BY <1>p, <2>1, <2>3, SamePlace
    <2>5. Looked(o, "next", d)
      BY <1>p, <1>3, <2>2 DEF Pattern
    <2> QED
      BY <1>a, <2>4, <2>5, LookedTidy
  <1>4. CASE NextPid(o)
    <2>1. CASE Stopped(o, FALSE)
      BY <1>4, <1>a, <2>1, StoppedTidy DEF NextPid, At
    <2>2. CASE Goto(o, "verify")
      <3>1. World /\ Place(pc[o], call[o]) => Place("verify", call[o])
        BY <1>p, <1>4, FromRead DEF NextPid, At
      <3> QED
        BY <1>a, <2>2, <3>1, GotoTidy
    <2>3. ASSUME NEW p \in call[o].pids,
                 Continue(o, "kill", [call[o] EXCEPT !.pid = p, !.pids = @ \ {p},
                                                     !.then = "next"]),
                 UNCHANGED <<system, history>>
          PROVE  TidyInv'
      <3>1. PICK d : d = [c EXCEPT !.pid = p, !.pids = @ \ {p}, !.then = "next"]
        OBVIOUS
      <3>2. d.op = c.op /\ d.then = "next"
        BY <1>0, <1>p, <3>1 DEF IsCall
      <3>3. World /\ Place(pc[o], call[o]) => Place("kill", d)
        BY <1>p, <1>4, <3>2, FromRead DEF NextPid, At
      <3> QED
        BY <1>p, <1>a, <2>3, <3>1, <3>3, QuietTidy
    <2> QED
      BY <1>4, <2>1, <2>2, <2>3 DEF NextPid
  <1> QED
    BY <1>1, <1>2, <1>3, <1>4

\* A stop removes the PID file and verifies.
LEMMA UnrecordTidy ==
    ASSUME Inv, TidyInv, NEW o \in Operators,
           Unrecord(o) \/ Verify(o) \/ Erase(o) \/ Halt(o)
    PROVE  TidyInv'
  <1>p. PICK c : c = call[o]
    OBVIOUS
  <1>a. setting' = setting /\ pc[o] # "idle"
    BY DEF Unrecord, Verify, Erase, Halt, At
  <1>1. CASE ~Erase(o) /\ (Stopped(o, TRUE) \/ Stopped(o, FALSE))
    BY <1>a, <1>1, StoppedTidy DEF Unrecord, Verify, Erase, Halt, At
  <1>2. CASE Erase(o) \/ (Unrecord(o) /\ ~(Stopped(o, TRUE) \/ Stopped(o, FALSE)))
    <2>1. PICK s \in {"verify", "pattern", "halt"} :
             /\ Goto(o, s) /\ pidFile' = NoPid /\ status' = status
             /\ pc[o] \in {"unrecord", "erase"}
             /\ pc[o] = "unrecord" => s \in {"verify", "pattern"}
             /\ pc[o] = "erase" => s = "halt"
      BY <1>2 DEF Unrecord, Erase, At
    <2>2. World /\ Place(pc[o], c) => Place(s, c) /\ (~Supervision => Matching = {})
      BY <2>1, FromPurge
    <2> QED
      BY <1>p, <1>a, <2>1, <2>2, RemovedTidy
  <1>3. CASE ~(Stopped(o, TRUE) \/ Stopped(o, FALSE)) /\ Verify(o)
    <2>1. World /\ Place(pc[o], call[o]) => Place("erase", call[o]) /\ Place("halt", call[o])
      BY <1>p, <1>3, FromRead DEF Verify, At
    <2>2. PICK s \in {"erase", "halt"} : Goto(o, s)
      BY <1>3 DEF Verify
    <2> QED
      BY <1>3, <1>a, <2>1, <2>2, GotoTidy DEF Verify
  <1>4. CASE Halt(o) /\ ~Erase(o)
    BY <1>1, <1>4 DEF Halt
  <1> QED
    BY <1>1, <1>2, <1>3, <1>4

\* A restart passes from the old process to the new one.
LEMMA RestartTidy ==
    ASSUME Inv, TidyInv, NEW o \in Operators, Old(o) \/ OldGone(o) \/ New(o)
    PROVE  TidyInv'
  <1>0. IsCall(call[o])
    BY DEF Inv, Types
  <1>p. PICK c : c = call[o]
    OBVIOUS
  <1>a. UNCHANGED <<setting, files, pidFile, status>> /\ pc[o] # "idle"
    BY DEF Old, OldGone, New, At, files
  <1>1. CASE Old(o)
    <2>1. PICK d : d = [c EXCEPT !.old = pidFile]
      OBVIOUS
    <2>2. d.op = c.op
      BY <1>0, <1>p, <2>1, AlikeUpdates DEF Alike
    <2>3. World /\ Place(pc[o], call[o]) =>
             IF Mismatched(o, pidFile) THEN Place("disown", call[o]) ELSE Place(StopEntry, d)
      BY <1>p, <1>1, <2>2, FromOld DEF Old, At
    <2>4. CASE Mismatched(o, pidFile)
      BY <1>1, <1>a, <2>3, <2>4, GotoTidy DEF Old, Goto
    <2>5. CASE ~Mismatched(o, pidFile)
      <3>1. Continue(o, StopEntry, d) /\ UNCHANGED <<system, history>>
        BY <1>p, <1>1, <2>1, <2>5 DEF Old
      <3> QED
        BY <1>a, <2>3, <2>5, <3>1, QuietTidy
    <2> QED
      BY <2>4, <2>5
  <1>2. CASE OldGone(o)
    <2>1. PICK d : d = [NoCall EXCEPT !.op = "restart", !.old = call[o].old]
      OBVIOUS
    <2>2. d.op = "restart"
      BY <2>1 DEF NoCall
    <2>3. World /\ Place(pc[o], call[o]) => Place("fail", call[o]) /\ Place(StartEntry, d)
      <3>1. pc[o] = "oldgone"
        BY <1>2 DEF OldGone, At
      <3>2. Place("oldgone", c) => c.op = "restart"
        BY DEF Place, Route
      <3> QED
        BY <1>p, <2>2, <3>1, <3>2, FromOld
    <2>4. CASE Goto(o, "fail")
      BY <1>a, <2>3, <2>4, GotoTidy
    <2>5. CASE Return(o, FALSE)
      <3>1. (World /\ Place(pc[o], call[o]) /\ ~Supervision)
               => /\ Matching \subseteq {pidFile}
                  /\ setting.http => Matching \subseteq {port}
        BY <1>p, <1>2 DEF OldGone, At, Place, Filed, Unproven, KillsFor
      <3> QED
        BY <1>a, <2>5, <3>1, ReturnTidy
    <2>6. CASE Continue(o, StartEntry, d) /\ UNCHANGED <<system, history>>
      BY <1>a, <2>3, <2>6, QuietTidy
    <2> QED
      BY <1>2, <2>1, <2>4, <2>5, <2>6 DEF OldGone
  <1>3. CASE New(o)
    <2>1. PICK ok \in BOOLEAN : Return(o, ok)
      <3>1. PICK ok \in BOOLEAN : ok = (Alive(o, pidFile) /\ pidFile # call[o].old)
        OBVIOUS
      <3> QED
        BY <1>3, <3>1 DEF New
    <2>2. World /\ Place(pc[o], c) =>
             /\ ~Supervision => /\ Matching \subseteq {pidFile}
                                /\ setting.http => Matching \subseteq {port}
             /\ c.op = "restart"
             /\ (setting.http /\ clean) => Serves(pidFile) /\ status = "running"
      BY <1>3 DEF New, At, Place, Route, Filed, Verifying, Unproven, KillsFor
    <2> QED
      BY <1>p, <1>a, <2>1, <2>2, ReturnTidy DEF Serves
  <1> QED
    BY <1>1, <1>2, <1>3

\* A report finds what the PID file does not name.
LEMMA ReportTidy ==
    ASSUME Inv, TidyInv, NEW o \in Operators, Seen(o) \/ Find(o) \/ Amend(o)
    PROVE  TidyInv'
  <1>p. PICK c : c = call[o]
    OBVIOUS
  <1>a. setting' = setting /\ pc[o] # "idle" /\ pidFile' = pidFile
    BY DEF Seen, Find, Amend, At, files
  <1>0. World /\ Place(pc[o], c) =>
           /\ ~Supervision => /\ Matching \subseteq {pidFile}
                              /\ setting.http => Matching \subseteq {port}
           /\ c.op = "report"
    BY DEF Seen, Find, Amend, At, Place, Route, Filed, Unproven, KillsFor
  <1>1. CASE Return(o, TRUE) \/ Return(o, FALSE)
    BY <1>p, <1>a, <1>0, <1>1, ReturnTidy
  <1>2. CASE Seen(o)
    <2>1. World /\ Place(pc[o], call[o]) =>
             /\ pidFile = NoPid => Place("find", call[o])
             /\ Place("amend", call[o])
             /\ ~Alive(o, pidFile) => Place("lapse", call[o])
      BY <1>p, <1>2, FromOld DEF Seen, At
    <2> QED
      BY <1>2, <1>a, <2>1, GotoTidy DEF Seen
  <1>3. CASE Find(o) /\ ~Return(o, FALSE)
    <2>1. PICK p \in Matching : Continue(o, "note", [call[o] EXCEPT !.pid = p])
      BY <1>3 DEF Find
    <2>2. PICK d : d = [c EXCEPT !.pid = p]
      OBVIOUS
    <2>3. d.op = c.op
      <3>1. IsCall(c)
        BY <1>p DEF Inv, Types
      <3> QED
        BY <2>2, <3>1, OtherUpdates
    <2>4. World /\ Place(pc[o], call[o]) => Place("note", d)
      BY <1>p, <1>3, <2>1, <2>3, FromOld DEF Find, At
    <2> QED
      BY <1>p, <1>3, <1>a, <2>1, <2>2, <2>4, QuietTidy DEF Find
  <1> QED
    BY <1>1, <1>2, <1>3 DEF Amend

\* A call begins.
LEMMA BeginTidy ==
    ASSUME Inv, TidyInv, NEW o \in Operators, NEW op \in Operations, Begin(o, op)
    PROVE  TidyInv'
  <1>1. PICK s \in {"look", "saved", "stopdown", "read", "old", "seen"} :
           /\ Continue(o, s, [NoCall EXCEPT !.op = op])
           /\ s = CASE op = "start" -> StartEntry
                    [] op = "stop" -> StopEntry
                    [] op = "restart" -> "old"
                    [] op = "report" -> "seen"
    BY DEF Begin, Operations, StartEntry, StopEntry
  <1>2. PICK c : c = [NoCall EXCEPT !.op = op]
    OBVIOUS
  <1>3. c.op = op
    BY <1>2 DEF NoCall
  <1> SUFFICES ASSUME tidy'
               PROVE  /\ tidy
                      /\ \A q \in Operators \ {o} : pc[q] = "idle"
                      /\ World' /\ Place(s, c)'
    BY <1>1, <1>2, TidyStep
  <1>4. tidy /\ (\A q \in Operators : pc[q] = "idle")
        /\ UNCHANGED <<setting, proc, parent, termed, port, wanted, pidFile, status>>
    BY DEF Begin, system, files
  <1>5. World /\ Place("idle", NoCall)
    BY <1>4, IdlePlace DEF TidyInv
  <1>6. World' /\ UNCHANGED <<Supervision, Matching>>
    BY <1>4, <1>5, WorldKept DEF Supervision, Matching
  <1>7. s = CASE op = "start" -> (IF setting.http THEN "look" ELSE "saved")
              [] op = "stop" -> (IF setting.runit THEN "stopdown" ELSE "read")
              [] op = "restart" -> "old"
              [] op = "report" -> "seen"
    BY <1>1 DEF StartEntry, StopEntry
  <1>8. Route(s, c)'
    BY <1>3, <1>4, <1>7 DEF Operations, Route, KillsFor, HttpStages, StartStages, StopStages
  <1>9. Filed(s, c)'
    BY <1>4, <1>5, <1>6 DEF Place, Filed, KillsFor, Cleared, Named, Unproven
  <1>10. Halting(s, c)'
    BY <1>4, <1>7 DEF Operations, Halting, KillsFor, StopStages, Supervision
  <1>11. Verifying(s, c)'
    BY DEF Verifying
  <1> QED
    BY <1>4, <1>6, <1>8, <1>9, <1>10, <1>11 DEF Place

-----------------------------------------------------------------------------
(* So do the steps of the environment.                                     *)

\* Processes move and no call does.
LEMMA WorldTidy ==
    ASSUME Inv, TidyInv, UNCHANGED <<pc, call>>, tidy' => tidy,
           tidy' /\ World => World',
           \A o \in Operators : \A s, c :
              (/\ tidy' /\ World /\ World' /\ pc[o] = s /\ Place(s, c)
               /\ \A q \in Operators \ {o} : pc[q] = "idle") => Place(s, c)'
    PROVE  TidyInv'
  <1> SUFFICES ASSUME tidy' PROVE Alone' /\ World' /\
                 \A u \in Operators : (\A q \in Operators \ {u} : pc'[q] = "idle")
                                         => Place(pc[u], call[u])'
    BY DEF TidyInv
  <1>1. Alone' /\ World /\ World'
    BY DEF TidyInv, Alone
  <1>2. ASSUME NEW u \in Operators, \A q \in Operators \ {u} : pc'[q] = "idle"
        PROVE  Place(pc[u], call[u])'
    <2>1. PICK s, c : s = pc[u] /\ c = call[u]
      OBVIOUS
    <2>2. Place(s, c)
      BY <1>2, <2>1 DEF TidyInv
    <2>3. Place(s, c)'
      BY <1>1, <1>2, <2>1, <2>2
    <2> QED
      BY <2>1, <2>3 DEF Place, Route, Filed, Halting, Verifying, KillsFor, Cleared, Named, Unproven
  <1> QED
    BY <1>1, <1>2

\* A process takes the port.
LEMMA BindTidy ==
    ASSUME Inv, TidyInv, NEW p \in Pids, Bind(p)
    PROVE  TidyInv'
  <1>1. /\ setting.http /\ port = NoPid /\ port' = p /\ p # NoPid
        /\ proc[p] \in {"service", "lookalike", "foreign"}
        /\ clean' => clean /\ proc[p] = "service"
        /\ tidy' => tidy /\ (proc[p] = "service" \/ setting.proc)
        /\ UNCHANGED <<setting, pidFile, status, pc, call, proc, parent, termed, wanted, last>>
    BY ServiceManagerAssumption DEF Bind, External, files
  <1>2. Matching' = Matching /\ UNCHANGED <<Supervision, Over>>
    BY <1>1 DEF Matching, Supervision, Over
  <1>3. tidy' /\ World => World'
    BY <1>1, <1>2 DEF World
  <1>4. ASSUME NEW s, NEW c, Place(s, c) PROVE Place(s, c)'
    <2>1. Route(s, c)' /\ Halting(s, c)'
      BY <1>1, <1>2, <1>4 DEF Place, Route, Halting, KillsFor
    <2>2. Filed(s, c)'
      <3>1. Matching \subseteq {port} => Matching = {}
        BY <1>1, NoPidGone
      <3> QED
        BY <1>1, <1>2, <1>4, <3>1 DEF Place, Filed, KillsFor, Cleared, Named, Unproven
    <2>3. Verifying(s, c)'
      BY <1>1, <1>4 DEF Place, Verifying, Serves
    <2> QED
      BY <2>1, <2>2, <2>3 DEF Place
  <1> QED
    BY <1>1, <1>3, <1>4, WorldTidy

\* A process ends by itself.
LEMMA DeathTidy ==
    ASSUME Inv, TidyInv, NEW p \in Pids, Exit(p) \/ Crash(p)
    PROVE  TidyInv'
  <1>1. /\ Die({p})
        /\ UNCHANGED <<setting, pidFile, status, pc, call, wanted, last, tidy>>
    BY DEF Exit, Crash, External, files
  <1>2. clean' => /\ clean
                  /\ \E o \in Operators : pc[o] \notin {"idle", "ident", "owner", "health",
                                                        "adopt", "mark", "new"}
    BY DEF Exit, Crash
  <1>3. UNCHANGED Supervision
    BY <1>1 DEF Supervision
  <1>4. World => /\ World' /\ Matching' = Matching \ {p} /\ termed' = termed \ {p}
                 /\ port' # NoPid => port' = port /\ proc'[port] = proc[port]
                 /\ port' = NoPid => port \in {p} \cup {NoPid}
    BY <1>1, DieKept
  <1>5. ASSUME NEW o \in Operators, NEW s, NEW c, World, pc[o] = s, Place(s, c),
               \A q \in Operators \ {o} : pc[q] = "idle"
        PROVE  Place(s, c)'
    <2>1. Route(s, c)'
      BY <1>1, <1>3, <1>5 DEF Place, Route, KillsFor
    <2>2. Halting(s, c)'
      <3>1. Over => Over'
        BY <1>1, <1>4, <1>5 DEF Over
      <3> QED
        BY <1>1, <1>3, <1>5, <3>1 DEF Place, Halting, KillsFor
    <2>3. Filed(s, c)'
      <3>1. /\ Matching' \subseteq Matching
            /\ Matching \subseteq {port} => Matching' \subseteq {port'}
        BY <1>4, <1>5, NoPidGone
      <3> QED
        BY <1>1, <1>3, <1>5, <3>1 DEF Place, Filed, KillsFor, Cleared, Named, Unproven
    <2>4. Verifying(s, c)'
      <3> SUFFICES ASSUME setting.http, clean' PROVE Verifying(s, c)'
        BY <1>1 DEF Verifying
      <3>1. s \notin {"idle", "ident", "owner", "health", "adopt", "mark", "new"}
        BY <1>2, <1>5
      <3>2. port' # NoPid => port # NoPid /\ proc'[port'] = proc[port]
        BY <1>4, <1>5
      <3> QED
        BY <1>2, <1>5, <3>1, <3>2 DEF Place, Verifying
    <2> QED
      BY <2>1, <2>2, <2>3, <2>4 DEF Place
  <1> QED
    BY <1>1, <1>4, <1>5, WorldTidy

\* A process starts that is not the service, or that runit runs.
LEMMA StartTidy ==
    ASSUME Inv, TidyInv, NEW p \in Pids,
           Supervise(p) \/ \E kind \in Others : Outsider(p, kind)
    PROVE  TidyInv'
  <1>1. PICK kind, by :
           /\ Starts(p, kind, by) /\ kind \in Kinds /\ by \in {"runit", "outside"}
           /\ \/ tidy' => kind \in {"lookalike", "foreign"} /\ by = "outside"
              \/ /\ setting.runit /\ wanted /\ kind = "service" /\ by = "runit"
                 /\ \A q \in Pids : parent[q] # "runit"
    BY ServiceManagerAssumption DEF Supervise, Outsider, Kinds
  <1>2. /\ UNCHANGED <<setting, pidFile, status, pc, call, termed, port, wanted, last>>
        /\ tidy' => tidy
        /\ clean' => clean
    <2>1. CASE Supervise(p)
      BY <2>1 DEF Supervise, External, files
    <2>2. ASSUME NEW k \in Others, Outsider(p, k)
          PROVE  /\ UNCHANGED <<setting, pidFile, status, pc, call, termed, port, wanted, last>>
                 /\ tidy' = (tidy /\ k # "service") /\ clean' = (clean /\ k # "service")
      BY <2>2 DEF Outsider, External, files
    <2> QED
      BY <2>1, <2>2
  <1>3. /\ proc[p] = "none" /\ proc' = [proc EXCEPT ![p] = kind]
        /\ parent' = [parent EXCEPT ![p] = by]
    BY <1>1 DEF Starts
  <1>4. UNCHANGED Supervision
    BY <1>2 DEF Supervision
  <1>5. World => (port # NoPid => proc'[port] = proc[port])
    BY <1>3 DEF World, Inv, Types
  <1>6. CASE tidy' => kind \in {"lookalike", "foreign"} /\ by = "outside"
    <2>1. tidy' => Matching' = Matching
      BY <1>3, <1>6 DEF Matching, Inv, Types
    <2>2. tidy' /\ World => World'
      <3> SUFFICES ASSUME tidy', World PROVE World'
        OBVIOUS
      <3>1. parent' \in [Pids -> Starters]
        BY <1>3, <1>6 DEF World, Starters
      <3>2. \A q \in Pids : /\ parent'[q] = "runit" => parent[q] = "runit"
                            /\ q \in Matching => parent'[q] = parent[q]
        BY <1>3, <1>6 DEF World, Matching
      <3>3. \A q \in Matching : q \in Pids
        BY DEF Matching
      <3> QED
        BY <1>2, <1>4, <1>5, <2>1, <3>1, <3>2, <3>3 DEF World
    <2>3. ASSUME NEW s, NEW c, tidy', World, Place(s, c) PROVE Place(s, c)'
      <3>1. UNCHANGED Over
        BY <1>2, <2>1, <2>3 DEF Over
      <3>2. Route(s, c)' /\ Halting(s, c)'
        BY <1>2, <1>4, <2>3, <3>1 DEF Place, Route, Halting, KillsFor
      <3>3. Filed(s, c)'
        BY <1>2, <1>4, <2>1, <2>3 DEF Place, Filed, KillsFor, Cleared, Named, Unproven
      <3>4. Verifying(s, c)'
        BY <1>2, <1>5, <2>3 DEF Place, Verifying, Serves
      <3> QED
        BY <3>2, <3>3, <3>4 DEF Place
    <2> QED
      BY <1>2, <2>2, <2>3, WorldTidy
  <1>7. CASE /\ setting.runit /\ wanted /\ kind = "service" /\ by = "runit"
             /\ \A q \in Pids : parent[q] # "runit"
    <2>1. World => Supervision /\ Matching = {} /\ ~Over
      BY <1>7 DEF World, Over, Matching
    <2>2. World => World'
      <3> SUFFICES ASSUME World PROVE World'
        OBVIOUS
      <3>1. parent' \in [Pids -> Starters]
        BY <1>3, <1>7 DEF World, Starters
      <3>2. /\ Matching' = {p} /\ parent'[p] = "runit"
            /\ \A q \in Pids : parent'[q] = "runit" => q = p
        BY <1>3, <1>7, <2>1 DEF World, Matching, Inv, Types
      <3> QED
        BY <1>2, <1>4, <1>5, <2>1, <3>1, <3>2 DEF World
    <2>3. ASSUME NEW s, NEW c, World, Place(s, c) PROVE Place(s, c)'
      <3>2. Route(s, c)' /\ Halting(s, c)'
        BY <1>2, <1>4, <2>1, <2>3 DEF Place, Route, Halting, KillsFor
      <3>3. Filed(s, c)'
        BY <1>4, <2>1, <2>3 DEF Filed
      <3>4. Verifying(s, c)'
        BY <1>2, <1>5, <2>3 DEF Place, Verifying, Serves
      <3> QED
        BY <3>2, <3>3, <3>4 DEF Place
    <2> QED
      BY <1>2, <2>2, <2>3, WorldTidy
  <1> QED
    BY <1>1, <1>6, <1>7

\* The hub waits for a dead child.
LEMMA ReapTidy ==
    ASSUME Inv, TidyInv, NEW p \in Pids, Reap(p)
    PROVE  TidyInv'
  <1>1. /\ UNCHANGED <<setting, pidFile, status, pc, call, termed, port, wanted, last, tidy, clean>>
        /\ proc[p] = "zombie" /\ proc' = [proc EXCEPT ![p] = "none"]
        /\ parent' = [parent EXCEPT ![p] = "outside"]
    BY DEF Reap, External, files
  <1>2. Matching' = Matching /\ UNCHANGED <<Supervision, Over>>
    BY <1>1 DEF Matching, Supervision, Over, Inv, Types
  <1>3. World => (port # NoPid => proc'[port] = proc[port])
    BY <1>1 DEF World, Inv, Types
  <1>4. World => World'
    <2> SUFFICES ASSUME World PROVE World'
      OBVIOUS
    <2>1. parent' \in [Pids -> Starters]
      BY <1>1 DEF World, Starters
    <2>2. \A q \in Pids : /\ parent'[q] = "runit" => parent[q] = "runit"
                          /\ q \in Matching => parent'[q] = parent[q]
      BY <1>1 DEF World, Matching
    <2>3. \A q \in Matching : q \in Pids
      BY DEF Matching
    <2> QED
      BY <1>1, <1>2, <1>3, <2>1, <2>2, <2>3 DEF World
  <1>5. ASSUME NEW s, NEW c, World, Place(s, c) PROVE Place(s, c)'
    <2>1. Route(s, c)' /\ Halting(s, c)'
      BY <1>1, <1>2, <1>5 DEF Place, Route, Halting, KillsFor
    <2>2. Filed(s, c)'
      BY <1>1, <1>2, <1>5 DEF Place, Filed, KillsFor, Cleared, Named, Unproven
    <2>3. Verifying(s, c)'
      BY <1>1, <1>3, <1>5 DEF Place, Verifying, Serves
    <2> QED
      BY <2>1, <2>2, <2>3 DEF Place
  <1> QED
    BY <1>1, <1>4, <1>5, WorldTidy

\* What a break in a call leaves is not tidy.
LEMMA LostTidy ==
    ASSUME TidyInv, NEW o \in Operators, Lost(o)
    PROVE  TidyInv'
  BY DEF Lost, TidyInv

\* The machine has booted.
LEMMA InitTidy == Init => TidyInv
  <1> SUFFICES ASSUME Init PROVE TidyInv
    OBVIOUS
  <1>1. /\ Matching = {} /\ port = NoPid /\ wanted = FALSE
        /\ parent = [p \in Pids |-> "outside"]
        /\ last = NoResult /\ \A o \in Operators : pc[o] = "idle"
    BY DEF Init, Matching
  <1>2. World /\ Alone
    BY <1>1 DEF World, Alone, Starters
  <1>3. ASSUME NEW c PROVE Place("idle", c)
    <2>1. last.op = "none" /\ last # [op |-> "stop", ok |-> TRUE]
      BY <1>1 DEF NoResult
    <2> QED
      BY <1>1, <2>1 DEF Place, Route, Filed, Halting, Verifying, KillsFor, HttpStages,
         StartStages, StopStages, Cleared, Named, Unproven
  <1> QED
    BY <1>1, <1>2, <1>3 DEF TidyInv

\* Every step is one of these.
LEMMA NextTidy == Inv /\ TidyInv /\ [Next]_vars => TidyInv'
  <1> SUFFICES ASSUME Inv, TidyInv, [Next]_vars PROVE TidyInv'
    OBVIOUS
  <1>1. ASSUME NEW o \in Operators, NEW op \in Operations, Begin(o, op) PROVE TidyInv'
    BY <1>1, BeginTidy
  <1>2. ASSUME NEW o \in Operators, Starting(o) PROVE TidyInv'
    BY <1>2, LookTidy, SvDownTidy, SignalTidy, RemovePidTidy, StaleTidy, RunitTidy,
       SpawnTidy, RecordTidy, VerifyTidy, AdoptTidy, StartEndTidy DEF Starting
  <1>3. ASSUME NEW o \in Operators, Stopping(o) PROVE TidyInv'
    BY <1>3, KillTidy, KillWaitTidy, ReadTidy, UnrecordTidy DEF Stopping
  <1>4. ASSUME NEW o \in Operators, Restarting(o) \/ Reporting(o) PROVE TidyInv'
    BY <1>4, RestartTidy, ReportTidy DEF Restarting, Reporting
  <1>5. CASE Environment
    <2>1. ASSUME NEW p \in Pids,
                 \/ Bind(p) \/ Exit(p) \/ Crash(p) \/ Supervise(p) \/ Reap(p)
                 \/ \E kind \in Others : Outsider(p, kind)
          PROVE  TidyInv'
      BY <2>1, BindTidy, DeathTidy, StartTidy, ReapTidy
    <2> QED
      BY <1>5, <2>1, LostTidy DEF Environment
  <1>6. CASE UNCHANGED vars
    <2>1. UNCHANGED <<setting, system, files, pc, call, history>>
      BY <1>6 DEF vars
    <2>2. UNCHANGED <<setting, proc, parent, port, wanted, clean, last, tidy>>
      BY <2>1 DEF system, history
    <2>3. World => World'
      BY <2>2, WorldKept
    <2>4. \A s, c : Place(s, c) => Place(s, c)'
      BY <2>1, <2>2, PlaceKept
    <2> QED
      BY <2>1, <2>2, <2>3, <2>4, WorldTidy
  <1> QED
    BY <1>1, <1>2, <1>3, <1>4, <1>5, <1>6 DEF Next, Step

\* So it always is.
LEMMA AlwaysTidy == Spec => [](Inv /\ TidyInv)
  <1>1. Init => Inv /\ TidyInv
    BY InitInv, InitTidy
  <1>2. Inv /\ TidyInv /\ [Next]_vars => Inv' /\ TidyInv'
    BY NextInv, NextTidy
  <1> QED
    BY <1>1, <1>2, PTL DEF Spec

-----------------------------------------------------------------------------
(* The theorems.                                                           *)

\* The PIDs of the service are, at any stage, those of one process.
LEMMA OneMatch ==
    ASSUME Inv, TidyInv, tidy
    PROVE  \E p : Matching \subseteq {p}
  <1>1. PICK o \in Operators : \A q \in Operators \ {o} : pc[q] = "idle"
    <2>1. CASE \E o \in Operators : pc[o] # "idle"
      BY <2>1 DEF TidyInv, Alone
    <2>2. CASE \A o \in Operators : pc[o] = "idle"
      BY <2>2, ServiceManagerAssumption
    <2> QED
      BY <2>1, <2>2
  <1>2. PICK s, c : s = pc[o] /\ c = call[o]
    OBVIOUS
  <1>3. World /\ Place(s, c)
    BY <1>1, <1>2 DEF TidyInv
  <1>4. CASE ~Supervision
    BY <1>3, <1>4 DEF Place, Filed
  <1>5. CASE Supervision
    <2>1. \A p, q \in Matching : p = q
      BY <1>3, <1>5 DEF World, Matching
    <2> QED
      BY <2>1
  <1> QED
    BY <1>4, <1>5

\* As long as calls do not overlap or break off, two instances of the service
\* never run at once: a start or restart spawns one only where it has seen that
\* nothing of the old one is left, whatever the PID file said.
THEOREM NeverTwice == Spec => []SingleInstance
  <1>1. Inv /\ TidyInv => SingleInstance
    <2> SUFFICES ASSUME Inv, TidyInv, tidy PROVE Cardinality(Matching) <= 1
      BY DEF SingleInstance
    <2>1. PICK p : Matching \subseteq {p}
      BY OneMatch
    <2>2. Matching = {} \/ Matching = {p}
      BY <2>1
    <2>3. Cardinality({}) = 0 /\ Cardinality({p}) = 1
      BY FS_EmptySet, FS_Singleton
    <2> QED
      BY <2>2, <2>3
  <1> QED
    BY <1>1, AlwaysTidy, PTL

\* At rest the instance that the hub has started is the one its PID file names.
THEOREM AlwaysFound == Spec => []NoOrphan
  <1>1. Inv /\ TidyInv => NoOrphan
    <2> SUFFICES ASSUME TidyInv, tidy, AtRest, ~setting.runit
                 PROVE  Matching \subseteq {pidFile}
      BY DEF NoOrphan
    <2>1. PICK c : Place("idle", c)
      BY ServiceManagerAssumption DEF TidyInv, AtRest
    <2> QED
      BY <2>1 DEF Place, Filed, Supervision
  <1> QED
    BY <1>1, AlwaysTidy, PTL

\* After a stop that returned true nothing of the service is left but what has
\* been sent SIGTERM, and runit does not bring it back.
THEOREM StopStops == Spec => []StopMeansStopped
  <1>1. Inv /\ TidyInv => StopMeansStopped
    <2> SUFFICES ASSUME TidyInv, Succeeded("stop"), tidy PROVE Over
      BY DEF StopMeansStopped, Over
    <2>1. PICK c : Place("idle", c)
      BY ServiceManagerAssumption DEF TidyInv, Succeeded, AtRest
    <2> QED
      BY <2>1 DEF Place, Halting, Succeeded
  <1> QED
    BY <1>1, AlwaysTidy, PTL

\* After a start or restart that returned true the service listens on its port,
\* the status file says so and, where owners can be seen, the PID file names it.
THEOREM StartStarts == Spec => []RunningIsTrue
  <1>1. Inv /\ TidyInv => RunningIsTrue
    <2> SUFFICES ASSUME TidyInv, tidy, setting.http,
                        Succeeded("start") \/ Succeeded("restart")
                 PROVE  /\ status = "running"
                        /\ Listening /\ proc[port] = "service"
                        /\ setting.proc => port = pidFile
      BY DEF RunningIsTrue
    <2>1. PICK c : Place("idle", c)
      BY ServiceManagerAssumption DEF TidyInv, Succeeded, AtRest
    <2>2. clean /\ last.op \in {"start", "restart"} /\ last.ok = TRUE
      BY DEF Succeeded
    <2> QED
      BY <2>1, <2>2 DEF Place, Verifying, Serves, Listening
  <1> QED
    BY <1>1, AlwaysTidy, PTL

=============================================================================
