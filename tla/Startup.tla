------------------------------ MODULE Startup ------------------------------
(***************************************************************************)
(* The launcher of the hub, startup.py: preflight of the port, graceful    *)
(* stop of a hub that runs, start and verification of a new one.           *)
(*                                                                         *)
(* Launchers are short-lived processes that nothing locks against each     *)
(* other; they share the process table, the port and the hub's PID file.   *)
(* Every poll of a wait is a read of that state by a step of its own, and  *)
(* between two steps hubs die, children fail to bind, other programs take  *)
(* the port or the PID of a dead hub.                                      *)
(***************************************************************************)
EXTENDS Naturals, FiniteSets

CONSTANTS
    Launchers,
    Pids,
    NoPid,
    Retries,       \* bound: polls of the verification after the first
    MaxRuns,       \* bound: runs of the launcher
    MaxOutside     \* bound: crashes, programs started by others, lost launchers

ASSUME StartupAssumption ==
    /\ NoPid \notin Pids /\ "init" \notin Launchers
    /\ Retries \in Nat /\ MaxRuns \in Nat /\ MaxOutside \in Nat

VARIABLES
    owners,    \* whether /proc/net/tcp shows who owns the port
    proc,      \* the process table
    parent,    \* who waits for a process
    termed,    \* PIDs with a SIGTERM on its way
    port,      \* the PID that listens on the hub's port
    pidFile,   \* the hub's PID file
    pc,        \* stage of each launcher
    job,       \* its local variables
    answer,    \* what the launchers have printed since one last began alone
    hit,       \* history: kinds of process that have been sent a signal
    distinct,  \* history: no PID that a launcher held has been given to a program
               \* that only looks like the hub
    clean,     \* history: the run under way, or the last one, was alone and
               \* nothing came in its way, but for a program that takes the port
               \* where its owner can be seen; and pgrep was there if needed
    calm,      \* history: only launchers have come in each other's way, and no
               \* hub has been given a PID that another launcher still holds
    tidy,      \* history: all runs were alone and ended; nobody else has started
               \* a hub, or taken the port where its owner cannot be seen
    runs, outside

system == <<owners, proc, parent, termed, port>>
history == <<distinct, clean, calm, tidy>>
vars == <<system, pidFile, pc, job, answer, hit, history, runs, outside>>

-----------------------------------------------------------------------------
\* What read_process_cmdline and the tools make of a process.  A hub serves the
\* hub's port.  A lookalike has a marker of the hub in its command line: a hub of
\* another port, an editor on the hub's source.  Of the rest, a server has a
\* socket that lsof, ss or fuser list, a foreign program has none, and a sealed
\* one is another user's: its command line and sockets cannot be read.
Kinds == {"none", "hub", "lookalike", "server", "foreign", "sealed", "zombie"}
Marked == {"hub", "lookalike"}
Others == {"lookalike", "server", "foreign", "sealed"}
Binders == {"hub", "server", "sealed"}

Stages ==
    {"idle", "owners", "occupied", "classify", "anchor", "stop", "gone",
     "release", "forget", "start", "record", "ident", "own", "health",
     "giveup", "erase"}

\* pids: hub_pids still to stop, or owners to classify.  old: all of hub_pids.
\* pid: the process waited for, then the child.
Job == [pids : SUBSET Pids, old : SUBSET Pids, pid : Pids \cup {NoPid},
        tries : 0..Retries]
NoJob == [pids |-> {}, old |-> {}, pid |-> NoPid, tries |-> 0]

TypeOK ==
    /\ owners \in BOOLEAN
    /\ proc \in [Pids -> Kinds]
    /\ parent \in [Pids -> Launchers \cup {"init"}]
    /\ termed \subseteq Pids
    /\ port \in Pids \cup {NoPid}
    /\ pidFile \in Pids \cup {NoPid}
    /\ pc \in [Launchers -> Stages]
    /\ job \in [Launchers -> Job]
    /\ answer \in [Launchers -> {"none", "ok", "refused"}]
    /\ hit \subseteq Kinds
    /\ \A flag \in {distinct, clean, calm, tidy} : flag \in BOOLEAN
    /\ runs \in 0..MaxRuns
    /\ outside \in 0..MaxOutside

\* A hub and another program may run, either may listen, and the PID file may
\* name anything: it outlives a crash and a boot.
Init ==
    /\ owners \in BOOLEAN
    /\ pidFile \in Pids \cup {NoPid}
    /\ \E hub, other \in Pids \cup {NoPid}, kind \in Others :
        /\ hub = NoPid \/ hub # other
        /\ proc = [p \in Pids |-> CASE p = hub -> "hub"
                                    [] p = other -> kind
                                    [] OTHER -> "none"]
        /\ port \in IF hub # NoPid THEN {hub}
                    ELSE IF kind \in Binders THEN {NoPid, other} ELSE {NoPid}
    /\ parent = [p \in Pids |-> "init"]
    /\ termed = {}
    /\ pc = [l \in Launchers |-> "idle"]
    /\ job = [l \in Launchers |-> NoJob]
    /\ answer = [l \in Launchers |-> "none"]
    /\ hit = {}
    /\ distinct = TRUE /\ clean = TRUE /\ calm = TRUE /\ tidy = TRUE
    /\ runs = 0
    /\ outside = 0

-----------------------------------------------------------------------------
(* What a launcher sees.                                                   *)

\* is_pid_alive, which reaps the launcher's own child.
Alive(l, p) ==
    /\ p # NoPid
    /\ proc[p] # "none"
    /\ ~(proc[p] = "zombie" /\ parent[p] = l)

\* is_yasinhub_process: True for a marker in the command line, False for none;
\* a dead PID is neither, nor one whose command line cannot be read.
IsHub(l, p) == Alive(l, p) /\ proc[p] \in Marked
NotHub(l, p) == Alive(l, p) /\ proc[p] \in {"server", "foreign", "zombie"}

Listening == port # NoPid
Hubs == {p \in Pids : proc[p] = "hub"}

\* port_owner_pids, where it works; another user's sockets are passed over.
PortOwners == {port} \ ({NoPid} \cup {p \in Pids : proc[p] = "sealed"})

(* What happens to processes.                                              *)
Starts(p, kind, by) ==
    /\ proc[p] = "none"
    /\ proc' = [proc EXCEPT ![p] = kind]
    /\ parent' = [parent EXCEPT ![p] = by]

Dies(p) ==
    /\ IF parent[p] \in Launchers
       THEN proc' = [proc EXCEPT ![p] = "zombie"] /\ UNCHANGED parent
       ELSE /\ proc' = [proc EXCEPT ![p] = "none"]
            /\ UNCHANGED parent
    /\ termed' = termed \ {p}
    /\ port' = IF port = p THEN NoPid ELSE port
    /\ UNCHANGED owners

\* The children of a launcher that ends are handed to init.
Leaves(l) ==
    /\ proc' = [p \in Pids |-> IF parent[p] = l /\ proc[p] = "zombie"
                               THEN "none" ELSE proc[p]]
    /\ parent' = [p \in Pids |-> IF parent[p] = l THEN "init" ELSE parent[p]]
    /\ UNCHANGED <<owners, termed, port>>

AtRest == \A l \in Launchers : pc[l] = "idle"

(* Control flow of a run.                                                  *)
At(l, stage) == pc[l] = stage /\ UNCHANGED <<runs, outside, distinct, tidy>>

Continue(l, stage, local) ==
    /\ pc' = [pc EXCEPT ![l] = stage]
    /\ job' = [job EXCEPT ![l] = local]
    /\ UNCHANGED answer

Goto(l, stage, local) ==
    Continue(l, stage, local) /\ UNCHANGED <<system, clean, calm>>

Return(l, text) ==
    /\ pc' = [pc EXCEPT ![l] = "idle"]
    /\ job' = [job EXCEPT ![l] = NoJob]
    /\ answer' = [answer EXCEPT ![l] = text]
    /\ Leaves(l)

\* A refusal that is no fault of the system.
Refuse(l) == Return(l, "refused") /\ UNCHANGED <<clean, calm>>
\* A refusal after a time limit or an error of the operating system, or for a PID
\* that is used again.
Fault(l) == Return(l, "refused") /\ clean' = FALSE /\ calm' = FALSE

Begin(l) ==
    /\ pc[l] = "idle"
    /\ runs < MaxRuns
    /\ runs' = runs + 1
    /\ pc' = [pc EXCEPT ![l] = "owners"]
    /\ answer' = [k \in Launchers |-> IF k = l \/ AtRest THEN "none" ELSE answer[k]]
    /\ clean' = /\ AtRest
                /\ termed = {} /\ Hubs \subseteq {port}
    /\ tidy' = (tidy /\ AtRest)
    /\ UNCHANGED <<system, pidFile, job, hit, distinct, calm, outside>>

-----------------------------------------------------------------------------
(* preflight_hub_port.                                                     *)

Owners(l) ==
    /\ At(l, "owners")
    /\ Goto(l, "occupied",
            [job[l] EXCEPT !.pids = IF owners THEN PortOwners ELSE {}])
    /\ UNCHANGED <<pidFile, hit>>

Occupied(l) ==
    /\ At(l, "occupied")
    /\ Goto(l, IF Listening \/ job[l].pids # {} THEN "classify" ELSE "start",
            job[l])
    /\ UNCHANGED <<pidFile, hit>>

\* hub_pid_candidates: what pgrep finds, which may be missing or slow.
Found == {p \in Pids : proc[p] \in Marked}
Candidates(found) == (found \cup {pidFile}) \ {NoPid}

\* optional_external_owners: lsof lists whoever has a connection to the port, ss
\* every listener of the machine, whatever its port; all may be missing.
Hints == SUBSET {p \in Pids : proc[p] \in Marked \cup {"server"}}

\* Mutant: the candidates are classified even where the owners are known.
ClassifyHints(l) ==
    /\ At(l, "classify")
    /\ UNCHANGED <<pidFile, hit>>
    /\ LET seen == Candidates(Found) \cup job[l].pids
           hubs == {p \in seen : IsHub(l, p)}
       IN IF hubs = {} \/ \E p \in seen : NotHub(l, p) THEN Refuse(l)
          ELSE Goto(l, IF owners THEN "stop" ELSE "anchor",
                    [job[l] EXCEPT !.pids = hubs, !.old = hubs])

\* Owners must all be hubs.
ClassifyOwners(l) ==
    LET hubs == {p \in job[l].pids : IsHub(l, p)}
    IN IF hubs = {} \/ hubs # job[l].pids THEN Refuse(l)
       ELSE Goto(l, "stop", [job[l] EXCEPT !.pids = hubs, !.old = hubs])

\* Where owners cannot be seen one program without the marker is enough to
\* refuse, and what cannot be told does not count.
ClassifyHinted(l) ==
    \E found \in {{}, Found}, hints \in Hints :
        LET seen == Candidates(found) \cup hints
            hubs == {p \in seen : IsHub(l, p)}
        IN /\ IF hubs = {} \/ \E p \in seen : NotHub(l, p)
              THEN Return(l, "refused")
              ELSE /\ Continue(l, "anchor", [job[l] EXCEPT !.pids = hubs, !.old = hubs])
                   /\ UNCHANGED system
           /\ clean' = (clean /\ found = Found)
           /\ UNCHANGED calm

Classify(l) ==
    /\ At(l, "classify")
    /\ UNCHANGED <<pidFile, hit>>
    /\ \/ owners /\ ClassifyOwners(l)
       \/ ~owners /\ ClassifyHinted(l)

\* The health endpoint must answer.
Anchor(l) ==
    /\ At(l, "anchor")
    /\ UNCHANGED <<pidFile, hit>>
    /\ \/ Listening /\ Goto(l, "stop", job[l])
       \/ Fault(l)

-----------------------------------------------------------------------------
(* stop_hub_gracefully, wait_port_released.                                *)

Left(l, p) == [job[l] EXCEPT !.pids = @ \ {p}]

\* Mutant: what the preflight has seen is not verified again.
StopUnverified(l) ==
    /\ At(l, "stop")
    /\ UNCHANGED pidFile
    /\ \/ /\ job[l].pids = {}
          /\ Goto(l, "release", job[l]) /\ UNCHANGED hit
       \/ \E p \in job[l].pids :
            IF Alive(l, p)
            THEN /\ termed' = termed \cup {p}
                 /\ hit' = hit \cup {proc[p]}
                 /\ Continue(l, "gone", [job[l] EXCEPT !.pid = p])
                 /\ UNCHANGED <<owners, proc, parent, port, clean, calm>>
            ELSE Goto(l, "stop", Left(l, p)) /\ UNCHANGED hit

\* The PID is verified again by the statement before the signal: here one step.
Stop(l) ==
    /\ At(l, "stop")
    /\ UNCHANGED pidFile
    /\ \/ /\ job[l].pids = {}
          /\ Goto(l, "release", job[l]) /\ UNCHANGED hit
       \/ \E p \in job[l].pids :
            \/ ~Alive(l, p) /\ Goto(l, "stop", Left(l, p)) /\ UNCHANGED hit
            \/ Alive(l, p) /\ ~IsHub(l, p) /\ Fault(l) /\ UNCHANGED hit
            \/ /\ IsHub(l, p)
               /\ termed' = termed \cup {p}
               /\ hit' = hit \cup {proc[p]}
               /\ Continue(l, "gone", [job[l] EXCEPT !.pid = p])
               /\ UNCHANGED <<owners, proc, parent, port, clean, calm>>

\* Dead, or the grace period is over.
Gone(l) ==
    /\ At(l, "gone")
    /\ IF Alive(l, job[l].pid) THEN Fault(l)
       ELSE Goto(l, "stop", [Left(l, job[l].pid) EXCEPT !.pid = NoPid])
    /\ UNCHANGED <<pidFile, hit>>

\* The port must be free.  (An empty list of owners never counts as released: no
\* old PID is in it, so the first branch is taken.)
Release(l) ==
    /\ At(l, "release")
    /\ IF ~Listening THEN Goto(l, "forget", job[l])
       ELSE IF port \in job[l].old THEN Fault(l) ELSE Refuse(l)
    /\ UNCHANGED <<pidFile, hit>>

\* remove_pid once an old hub is dead.
Forget(l) ==
    /\ At(l, "forget")
    /\ pidFile' = IF \E p \in job[l].old : ~Alive(l, p) THEN NoPid ELSE pidFile
    /\ Goto(l, "start", job[l])
    /\ UNCHANGED hit

-----------------------------------------------------------------------------
(* start_hub_process, verify_hub_running and the end of run_startup.       *)

Start(l) ==
    /\ At(l, "start")
    /\ UNCHANGED <<pidFile, hit>>
    /\ \/ Fault(l)
       \/ \E p \in Pids :
            /\ Starts(p, "hub", l)
            /\ Continue(l, "record", [job[l] EXCEPT !.pid = p])
            /\ calm' = (calm /\ \A k \in Launchers \ {l} :
                                  p \notin job[k].old \cup {job[k].pid})
            /\ UNCHANGED <<owners, termed, port, clean>>

\* save_pid, whose failure is ignored.  A PID used again is refused, and the
\* child is left alone.
Record(l) ==
    /\ pc[l] = "record"
    /\ UNCHANGED <<hit, distinct, runs, outside>>
    /\ \E saved \in BOOLEAN :
        /\ pidFile' = IF saved THEN job[l].pid ELSE pidFile
        /\ IF job[l].pid \in job[l].old
           THEN Fault(l) /\ tidy' = FALSE
           ELSE /\ Continue(l, "ident", [job[l] EXCEPT !.tries = Retries])
                /\ clean' = (clean /\ saved)
                /\ calm' = (calm /\ saved)
                /\ UNCHANGED <<system, tidy>>

\* The next poll, while the child runs and there is time.
Retry(l) ==
    IF ~Alive(l, job[l].pid) \/ parent[job[l].pid] # l
    THEN Goto(l, "giveup", job[l])
    ELSE IF job[l].tries > 0
    THEN Goto(l, "ident", [job[l] EXCEPT !.tries = @ - 1])
    ELSE Continue(l, "giveup", job[l]) /\ clean' = FALSE /\ calm' = FALSE
         /\ UNCHANGED system

Ident(l) ==
    /\ At(l, "ident")
    /\ IF IsHub(l, job[l].pid) THEN Goto(l, "own", job[l]) ELSE Retry(l)
    /\ UNCHANGED <<pidFile, hit>>

\* Mutant: that the port is taken counts as owning it.
OwnAnything(l) ==
    /\ At(l, "own")
    /\ IF Listening THEN Goto(l, "health", job[l]) ELSE Retry(l)
    /\ UNCHANGED <<pidFile, hit>>

Own(l) ==
    /\ At(l, "own")
    /\ IF IF owners THEN port = job[l].pid ELSE Listening
       THEN Goto(l, "health", job[l]) ELSE Retry(l)
    /\ UNCHANGED <<pidFile, hit>>

Health(l) ==
    /\ At(l, "health")
    /\ \/ Listening /\ Return(l, "ok") /\ UNCHANGED <<clean, calm>>
       \/ Retry(l)
    /\ UNCHANGED <<pidFile, hit>>

\* Mutant: the hub of the PID file is stopped.
GiveUpSaved(l) ==
    /\ At(l, "giveup")
    /\ IF IsHub(l, pidFile)
       THEN termed' = termed \cup {pidFile} /\ hit' = hit \cup {proc[pidFile]}
       ELSE UNCHANGED <<termed, hit>>
    /\ Continue(l, "erase", job[l])
    /\ UNCHANGED <<owners, proc, parent, port, pidFile, clean, calm>>

\* Mutant: the child is left alone.
GiveUpOnly(l) ==
    /\ At(l, "giveup")
    /\ Goto(l, "erase", job[l])
    /\ UNCHANGED <<pidFile, hit>>

\* The launcher's own child is stopped, if its PID still looks like the hub's.
GiveUp(l) ==
    /\ At(l, "giveup")
    /\ IF IsHub(l, job[l].pid)
       THEN termed' = termed \cup {job[l].pid} /\ hit' = hit \cup {proc[job[l].pid]}
       ELSE UNCHANGED <<termed, hit>>
    /\ Continue(l, "erase", job[l])
    /\ UNCHANGED <<owners, proc, parent, port, pidFile, clean, calm>>

\* remove_pid, whatever the PID file names by now.
Erase(l) ==
    /\ At(l, "erase")
    /\ pidFile' = NoPid
    /\ Refuse(l)
    /\ UNCHANGED hit

Step(l) ==
    \/ Owners(l) \/ Occupied(l) \/ Classify(l) \/ Anchor(l)
    \/ Stop(l) \/ Gone(l) \/ Release(l) \/ Forget(l)
    \/ Start(l) \/ Record(l)
    \/ Ident(l) \/ Own(l) \/ Health(l)
    \/ GiveUp(l) \/ Erase(l)

-----------------------------------------------------------------------------
(* External: the hub processes and whoever else uses the machine.          *)
External == UNCHANGED <<owners, pidFile, pc, job, answer, hit, runs>>

Bind(p) ==
    /\ port = NoPid
    /\ proc[p] \in Binders
    /\ port' = p
    /\ clean' = (clean /\ (proc[p] = "hub" \/ owners))
    /\ calm' = (calm /\ proc[p] = "hub")
    /\ tidy' = (tidy /\ (p \in Hubs \ termed \/ owners))
    /\ External /\ UNCHANGED <<proc, parent, termed, distinct, outside>>

\* api/server.run: a hub that cannot bind ends.
BindFails(p) ==
    /\ proc[p] = "hub"
    /\ port \notin {NoPid, p}
    /\ Dies(p)
    /\ External /\ UNCHANGED <<history, outside>>

Exit(p) ==
    /\ p \in termed
    /\ Dies(p)
    /\ External /\ UNCHANGED <<history, outside>>

Disturbs == outside < MaxOutside /\ outside' = outside + 1

Crash(p) ==
    /\ proc[p] \notin {"none", "zombie"}
    /\ Dies(p)
    /\ Disturbs /\ clean' = FALSE /\ calm' = FALSE
    /\ External /\ UNCHANGED <<distinct, tidy>>

Holds(l, p) == p \in job[l].pids \cup {job[l].pid}

Outsider(p, kind) ==
    /\ Starts(p, kind, "init")
    /\ Disturbs
    /\ distinct' = (distinct /\ ~(kind = "lookalike" /\ \E l \in Launchers : Holds(l, p)))
    /\ clean' = (clean /\ kind # "hub")
    /\ calm' = (calm /\ kind # "hub")
    /\ tidy' = (tidy /\ kind # "hub")
    /\ External /\ UNCHANGED <<termed, port>>

\* The launcher has waited for its child.
Reap(p) ==
    /\ proc[p] = "zombie"
    /\ proc' = [proc EXCEPT ![p] = "none"]
    /\ parent' = [parent EXCEPT ![p] = "init"]
    /\ External /\ UNCHANGED <<termed, port, history, outside>>

\* A launcher is interrupted.
Lost(l) ==
    /\ pc[l] # "idle"
    /\ Continue(l, "idle", NoJob)
    /\ Leaves(l)
    /\ Disturbs /\ clean' = FALSE /\ calm' = FALSE /\ tidy' = FALSE
    /\ UNCHANGED <<pidFile, hit, distinct, runs>>

Environment ==
    \/ \E p \in Pids : \/ Bind(p) \/ BindFails(p) \/ Exit(p) \/ Crash(p) \/ Reap(p)
                       \/ \E kind \in {"hub"} \cup Others : Outsider(p, kind)
    \/ \E l \in Launchers : Lost(l)

Next == (\E l \in Launchers : Begin(l) \/ Step(l)) \/ Environment

Spec == Init /\ [][Next]_vars

-----------------------------------------------------------------------------
\* No program without a marker of the hub in its command line is sent a signal,
\* whoever has been given the PIDs that the preflight has seen.  Where the owners
\* of the port can be seen, neither is one that has the marker and is not the hub,
\* unless it has been given a PID in a launcher's hand.
ForeignUntouched ==
    /\ hit \subseteq Marked
    /\ owners /\ distinct => hit \subseteq {"hub"}

\* As long as launchers do not overlap, two hubs never run at once, but for one
\* that has been told to end: a hub is only started when no other one runs, and
\* a child that fails verification is stopped.
OneHub == tidy => Cardinality(Hubs \ termed) <= 1

\* On a machine where no two runs have overlapped, and after a run that nothing
\* disturbed and that printed "ok", a hub listens, and where owners can be seen the
\* PID file names it: although another program may have tried to take the port.
OkIsTrue ==
    AtRest /\ clean /\ (\E l \in Launchers : answer[l] = "ok") /\ tidy
    => port \in Hubs /\ (owners => port = pidFile)

\* Launchers that race never leave the machine without a hub, once one of them
\* has printed "ok": the losers only stop their own children.
RaceLeavesHub ==
    AtRest /\ calm /\ (\E l \in Launchers : answer[l] = "ok") => port \in Hubs

\* A run that nothing came in the way of has not refused, but for a port that
\* another program has.  Where owners can be seen that is all, whatever hub was
\* running and whatever the PID file names; where they cannot, it also takes that
\* the PID file names no program that is not the hub and the tools list none.
SelfHealing ==
    /\ AtRest /\ clean
    /\ Listening => port \in Hubs
    /\ \/ owners
       \/ /\ pidFile \in Pids => proc[pidFile] # "foreign"
          /\ \A p \in Pids : proc[p] # "server"
    => \A l \in Launchers : answer[l] # "refused"

=============================================================================
