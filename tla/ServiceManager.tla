--------------------------- MODULE ServiceManager ---------------------------
(***************************************************************************)
(* Start, stop, restart and report of one managed service:                 *)
(* service_manager.py, service_lifecycle.py, pid_store.py, ports.py,       *)
(* runit.py, process_checker.py and the writing part of report.py.         *)
(*                                                                         *)
(* Operators are the processes that call them: the long-lived hub (its     *)
(* HTTP API) and command line processes.  Nothing locks a call against     *)
(* another one: operators share the process table, the service's port, its *)
(* PID file and its status file, and each stage of a call reads or changes *)
(* one of these.  Services crash, runit revives them, other programs start *)
(* and stop, take the port and are given the PIDs of the dead, those that  *)
(* a call has in hand included.                                            *)
(***************************************************************************)
EXTENDS Naturals, FiniteSets

CONSTANTS
    Operators,
    Hub,           \* the operator that lives on: its dead children are zombies
    Pids,
    NoPid,
    Settings,      \* the deployments: [http, runit, proc : BOOLEAN]
    Others,        \* kinds of process that others start
    Retries,       \* bound: polls of a verification after the first
    MaxCalls,      \* bound: calls
    MaxOutside     \* bound: processes started from outside, crashes, lost calls,
                   \* PIDs in a call's hands that are given again

ASSUME ServiceManagerAssumption ==
    /\ Hub \in Operators
    /\ {"runit", "outside", "init"} \cap Operators = {}
    /\ NoPid \notin Pids
    /\ Settings \subseteq [http : BOOLEAN, runit : BOOLEAN, proc : BOOLEAN]
    /\ Others \subseteq {"service", "lookalike", "foreign"}
    /\ Retries \in Nat /\ MaxCalls \in Nat /\ MaxOutside \in Nat

VARIABLES
    setting,   \* http: has a port; runit: runit runs it; proc: /proc/net/tcp
    proc,      \* the process table: what runs under each PID
    parent,    \* who started it
    termed,    \* PIDs with a SIGTERM on its way
    port,      \* the PID that listens on the service's port
    wanted,    \* runit: the service is wanted up
    pidFile,   \* the PID file
    status,    \* the status file ("stopped" also when there is none)
    pc,        \* stage of each operator's call
    call,      \* its local variables
    hit,       \* history: what but the service a call has addressed a signal to
    renewed,   \* history: per operator, the PIDs it may signal that have been
               \* given to another program since its call last looked
    clean,     \* history: tidy, and the last call ran undisturbed
    tidy,      \* history: all calls ran alone and to their end, without a failing
               \* disk or sv; nobody else has started the service, or taken a
               \* port whose owner cannot be seen
    last,      \* history: the last call, if clean, and its result
    calls,     \* number of calls
    outside    \* number of events from outside

system == <<proc, parent, termed, port, wanted>>
files == <<pidFile, status>>
history == <<hit, renewed, clean, tidy, last>>
bounds == <<calls, outside>>
vars == <<setting, system, files, pc, call, history, bounds>>

-----------------------------------------------------------------------------
(* "lookalike" runs under the interpreter of the service's start command;  *)
(* "zombie" is a dead child that its parent has not waited for.  A program *)
(* whose command line cannot be read is another user's: no signal reaches  *)
(* it, and it is left out.                                                 *)
Kinds == {"none", "service", "lookalike", "foreign", "zombie"}
Starters == Operators \cup {"runit", "outside", "init"}
Operations == {"start", "stop", "restart", "report"}

Stages ==
    {"idle", "old", "disown", "oldgone", "new",
     "look", "classify", "correlate", "reverify", "down", "signal", "gone",
     "release", "purge", "stale", "drop", "saved", "pgrep", "up", "discover",
     "spawn", "record", "grace", "ident", "owner", "health", "adopt", "mark",
     "forget", "fail",
     "stopdown", "read", "check", "kill", "killwait", "unrecord", "pattern",
     "next", "verify", "erase", "halt",
     "seen", "lapse", "find", "note", "amend"}

\* pid: the process at hand.  pids: those still to handle.  done: those
\* stopped.  old: the PID a restart replaces.  tries: polls left.  then: where
\* stop_pid_safely returns to.
NoCall == [op |-> "none", pid |-> NoPid, pids |-> {}, done |-> {},
           old |-> NoPid, tries |-> 0, then |-> "idle"]

Call ==
    [op : Operations \cup {"none"}, pid : Pids \cup {NoPid},
     pids : SUBSET Pids, done : SUBSET Pids, old : Pids \cup {NoPid},
     tries : 0..Retries, then : {"idle", "forget", "unrecord", "next"}]

NoResult == [op |-> "none", ok |-> FALSE]

TypeOK ==
    /\ setting \in Settings
    /\ proc \in [Pids -> Kinds]
    /\ parent \in [Pids -> Starters]
    /\ termed \subseteq Pids
    /\ port \in Pids \cup {NoPid}
    /\ wanted \in BOOLEAN
    /\ pidFile \in Pids \cup {NoPid}
    /\ status \in {"running", "stopped", "failed"}
    /\ pc \in [Operators -> Stages]
    /\ call \in [Operators -> Call]
    /\ hit \subseteq Kinds
    /\ renewed \in [Operators -> SUBSET Pids]
    /\ clean \in BOOLEAN
    /\ tidy \in BOOLEAN
    /\ last \in [op : Operations \cup {"none"}, ok : BOOLEAN]
    /\ calls \in 0..MaxCalls
    /\ outside \in 0..MaxOutside

\* The machine has booted: the files outlive it, and the PID in the PID file
\* may be another program's.
Init ==
    /\ setting \in Settings
    /\ pidFile \in Pids \cup {NoPid}
    /\ \E kind \in {"none"} \cup (Others \ {"service"}) :
          proc = [p \in Pids |-> IF p = pidFile THEN kind ELSE "none"]
    /\ status = IF pidFile = NoPid THEN "stopped" ELSE "running"
    /\ parent = [p \in Pids |-> "outside"]
    /\ termed = {}
    /\ port = NoPid
    /\ wanted = FALSE
    /\ pc = [o \in Operators |-> "idle"]
    /\ call = [o \in Operators |-> NoCall]
    /\ hit = {}
    /\ renewed = [o \in Operators |-> {}]
    /\ clean = TRUE
    /\ tidy = TRUE
    /\ last = NoResult
    /\ calls = 0
    /\ outside = 0

-----------------------------------------------------------------------------
(* What an operator sees.                                                  *)

\* is_pid_alive: a zombie answers kill(pid, 0), but the check reaps one's own.
Alive(o, p) ==
    /\ p # NoPid
    /\ proc[p] # "none"
    /\ ~(proc[p] = "zombie" /\ parent[p] = o)

\* verify_process_identity: the pattern or the interpreter in the command line.
Identified(o, p) == Alive(o, p) /\ proc[p] \in {"service", "lookalike"}
Mismatched(o, p) == Alive(o, p) /\ proc[p] \in {"foreign", "zombie"}

\* strict_service_identity: the pattern, and nothing else.
Strict(o, p) == Alive(o, p) /\ proc[p] = "service"

\* check_process: pgrep -f pattern.
Matching == {p \in Pids : proc[p] = "service"}

\* is_port_occupied.
Listening == port # NoPid

\* port_owner_pids, where /proc/net/tcp can be read.
PortOwners == {port} \ {NoPid}

\* verify_port_ownership: p owns the port; where owners cannot be seen, the
\* callers make do with an occupied port.
Owns(p) == IF setting.proc THEN p \in PortOwners ELSE Listening

\* check_http_health: whoever listens may answer 200.
MayAnswer == Listening

InHand(p) ==
    \E o \in Operators :
        p \in call[o].pids \cup call[o].done \cup {call[o].pid, call[o].old}

\* The PIDs that an operator's call may come to signal.
Held(o) == call[o].pids \cup {call[o].pid}

\* Who may share the process group of p.  A child of the hub leads a group of
\* its own (setsid).  Which of the others' processes are in one group (a shell's,
\* runsvdir's) is not modelled: any of them may be.
Mates(p) ==
    IF parent[p] \in {"runit", "outside"}
    THEN {q \in Pids \ {p} : proc[q] # "none" /\ parent[q] \in {"runit", "outside"}}
    ELSE {}

(* What happens to processes.                                              *)

\* Any PID that is free may be given to a new process at any time.
Starts(p, kind, by) ==
    /\ proc[p] = "none"
    /\ proc' = [proc EXCEPT ![p] = kind]
    /\ parent' = [parent EXCEPT ![p] = by]
    /\ renewed' = [o \in Operators |->
                     IF o = by THEN {}
                     ELSE IF kind = "service" THEN renewed[o]
                     ELSE renewed[o] \cup ({p} \cap Held(o))]

Disturbs == outside < MaxOutside /\ outside' = outside + 1

\* That a PID which a call has in hand is given again counts as one of those.
Reuses(p) == IF InHand(p) THEN Disturbs ELSE UNCHANGED outside

\* A dead child of an operator stays, as a zombie.
Die(ps) ==
    /\ proc' = [p \in Pids |-> IF p \notin ps THEN proc[p]
                               ELSE IF parent[p] \in Operators THEN "zombie" ELSE "none"]
    /\ parent' = [p \in Pids |-> IF p \in ps /\ parent[p] \notin Operators
                                 THEN "outside" ELSE parent[p]]
    /\ termed' = termed \ ps
    /\ port' = IF port \in ps THEN NoPid ELSE port

\* The children of a command line process that ends are handed to init.
Leaves(o) ==
    IF o = Hub
    THEN UNCHANGED <<proc, parent>>
    ELSE /\ proc' = [p \in Pids |-> IF parent[p] = o /\ proc[p] = "zombie"
                                    THEN "none" ELSE proc[p]]
         /\ parent' = [p \in Pids |->
                          IF parent[p] # o THEN parent[p]
                          ELSE IF proc[p] = "zombie" THEN "outside" ELSE "init"]

(* Control flow of a call.                                                 *)
At(o, stage) == pc[o] = stage /\ UNCHANGED <<setting, bounds>>

\* Towards the end of a call the PIDs it has handled no longer matter.
Continue(o, stage, local) ==
    /\ pc' = [pc EXCEPT ![o] = stage]
    /\ call' = [call EXCEPT ![o] = IF stage \in {"fail", "forget", "mark", "halt"}
                                   THEN [NoCall EXCEPT !.op = local.op, !.old = local.old]
                                   ELSE local]

\* Nothing of the system or of the call changes but the stage.
Goto(o, stage) ==
    Continue(o, stage, call[o]) /\ UNCHANGED <<system, history>>

\* The call has looked at the processes that it may signal.
Looked(o, stage, local) ==
    /\ Continue(o, stage, local)
    /\ renewed' = [renewed EXCEPT ![o] = {}]
    /\ UNCHANGED <<system, hit, clean, tidy, last>>

Return(o, ok) ==
    /\ Continue(o, "idle", NoCall)
    /\ last' = IF clean THEN [op |-> call[o].op, ok |-> ok] ELSE NoResult
    /\ renewed' = [renewed EXCEPT ![o] = {}]
    /\ Leaves(o)
    /\ UNCHANGED <<termed, port, wanted, hit, clean, tidy>>

StartEntry == IF setting.http THEN "look" ELSE "saved"
\* Mutant: a stop does not tell runit.
StopEntryOnly == "read"

StopEntry == IF setting.runit THEN "stopdown" ELSE "read"
Launch == IF setting.runit THEN "up" ELSE "spawn"

\* A restart looks at the new PID before it reports success.
Started(o) ==
    IF call[o].op = "restart" THEN Goto(o, "new") ELSE Return(o, TRUE)

\* A restart goes on whatever the stop returns.
Stopped(o, ok) ==
    IF call[o].op = "restart" THEN Goto(o, "oldgone") ELSE Return(o, ok)

Begin(o, op) ==
    /\ pc[o] = "idle"
    /\ calls < MaxCalls
    /\ calls' = calls + 1
    /\ Continue(o, CASE op = "start" -> StartEntry
                     [] op = "stop" -> StopEntry
                     [] op = "restart" -> "old"
                     [] op = "report" -> "seen",
                [NoCall EXCEPT !.op = op])
    /\ tidy' = (tidy /\ \A q \in Operators : pc[q] = "idle")
    /\ clean' = tidy'
    /\ last' = NoResult
    /\ UNCHANGED <<setting, system, files, hit, renewed, outside>>

-----------------------------------------------------------------------------
(* start_service with a port: preflight_service decides who holds it.      *)

Look(o) ==
    /\ At(o, "look")
    /\ IF ~Listening THEN Goto(o, "stale")
       ELSE /\ IF setting.proc
               THEN Continue(o, "classify", [call[o] EXCEPT !.pids = PortOwners])
               ELSE Continue(o, "correlate", call[o])
            /\ UNCHANGED <<system, history>>
    /\ UNCHANGED files

\* foreign and indeterminate fail closed, same is healed.
Classify(o) ==
    /\ At(o, "classify")
    /\ Goto(o, IF \A p \in call[o].pids : Strict(o, p) THEN "reverify" ELSE "fail")
    /\ UNCHANGED files

\* Without owners: the candidates are the PID file, pgrep and optional tools'
\* hints; all must be the service and its health endpoint must answer.
Correlate(o) ==
    /\ At(o, "correlate")
    /\ UNCHANGED files
    /\ \/ Goto(o, "fail")
       \/ \E hints \in {{}, {port}} :
            LET candidates == (Matching \cup {pidFile} \cup hints) \ {NoPid} IN
            /\ MayAnswer
            /\ candidates # {}
            /\ \A p \in candidates : Strict(o, p)
            /\ Continue(o, "reverify", [call[o] EXCEPT !.pids = candidates])
            /\ UNCHANGED <<system, history>>

(* _heal_same_service_owner and stop_service_gracefully.                   *)
Reverify(o) ==
    /\ At(o, "reverify")
    /\ IF \E p \in call[o].pids : ~Strict(o, p) THEN Goto(o, "fail")
       ELSE Looked(o, IF setting.runit THEN "down" ELSE "signal", call[o])
    /\ UNCHANGED files

\* sv down, whose failure is ignored; also the first step of a stop.
SvDown(o) ==
    /\ pc[o] \in {"down", "stopdown"}
    /\ Continue(o, IF pc[o] = "down" THEN "signal" ELSE "read", call[o])
    /\ \/ /\ wanted' = FALSE
          /\ termed' = termed \cup {p \in Pids : parent[p] = "runit"}
          /\ UNCHANGED tidy
       \/ /\ tidy' = FALSE
          /\ UNCHANGED <<wanted, termed>>
    /\ UNCHANGED <<setting, proc, parent, port, files, hit, renewed, clean, last, bounds>>

\* A signal is addressed to p: to what the call has seen there, or to what has
\* taken its place since.
Addresses(o, p) ==
    hit' = IF p \in renewed[o] THEN hit ELSE hit \cup ({proc[p]} \ {"service", "zombie"})

\* stop_owned_pid_gracefully, one PID after the other: not its group.
Signal(o) ==
    /\ At(o, "signal")
    /\ UNCHANGED <<proc, parent, port, wanted, files, renewed, clean, tidy, last>>
    /\ \/ /\ call[o].pids = {}
          /\ Continue(o, IF \E p \in call[o].done : Alive(o, p)
                         THEN "fail" ELSE "release", call[o])
          /\ UNCHANGED <<termed, hit>>
       \/ \E p \in call[o].pids :
            IF Alive(o, p)
            THEN /\ termed' = termed \cup {p}
                 /\ Addresses(o, p)
                 /\ Continue(o, "gone", [call[o] EXCEPT !.pid = p])
            ELSE /\ Continue(o, "signal", [call[o] EXCEPT !.pids = @ \ {p},
                                                          !.done = @ \cup {p}])
                 /\ UNCHANGED <<termed, hit>>

\* Dead, or the grace period is over.
Gone(o) ==
    /\ At(o, "gone")
    /\ IF Alive(o, call[o].pid)
       THEN Continue(o, "fail", call[o])
       ELSE Continue(o, "signal", [call[o] EXCEPT !.pids = @ \ {call[o].pid},
                                                  !.done = @ \cup {call[o].pid}])
    /\ UNCHANGED <<system, files, history>>

\* wait_port_free.
Release(o) ==
    /\ At(o, "release")
    /\ Goto(o, IF Listening THEN "fail" ELSE "purge")
    /\ UNCHANGED files

\* remove_pid, in all calls but a stop.
RemovePid(o) ==
    /\ pc[o] \in {"purge", "drop", "disown", "forget", "lapse"}
    /\ pidFile' = NoPid
    /\ Goto(o, CASE pc[o] = "purge" -> "stale"
                 [] pc[o] = "drop" -> IF setting.http THEN Launch ELSE "pgrep"
                 [] pc[o] = "disown" -> StopEntry
                 [] pc[o] = "forget" -> "fail"
                 [] pc[o] = "lapse" -> "find")
    /\ UNCHANGED <<setting, bounds, status>>

\* A dead PID in the PID file is dropped.
Stale(o) ==
    /\ At(o, "stale")
    /\ Goto(o, IF pidFile # NoPid /\ ~Alive(o, pidFile) THEN "drop" ELSE Launch)
    /\ UNCHANGED files

(* start_service without a port.                                           *)

\* A live PID in the PID file is taken for the service.
Saved(o) ==
    /\ At(o, "saved")
    /\ Goto(o, IF pidFile = NoPid THEN "pgrep"
               ELSE IF Alive(o, pidFile) THEN "mark" ELSE "drop")
    /\ UNCHANGED files

Pgrep(o) ==
    /\ At(o, "pgrep")
    /\ UNCHANGED <<system, files, history>>
    /\ IF Matching = {} THEN Continue(o, "spawn", call[o])
       ELSE \E p \in Matching : Continue(o, "adopt", [call[o] EXCEPT !.pid = p])

(* _start_via_runit.                                                       *)
SvUp(o) ==
    /\ At(o, "up")
    /\ \/ Goto(o, "fail")
       \/ /\ wanted' = TRUE
          /\ Continue(o, "discover", [call[o] EXCEPT !.tries = Retries])
          /\ UNCHANGED <<proc, parent, termed, port, history>>
    /\ UNCHANGED files

\* Verified candidates, or what the PID file names.
Candidates(o) ==
    IF setting.proc /\ \E p \in PortOwners : Identified(o, p) THEN PortOwners
    ELSE IF Matching # {} THEN Matching
    ELSE {p \in {pidFile} : Alive(o, p)}

\* Mutant: a child that fails verification is left running.
RetryOrLeave(o) ==
    /\ IF call[o].tries > 0 /\ (setting.runit \/ Identified(o, call[o].pid))
       THEN Continue(o, IF setting.runit THEN "discover" ELSE "ident",
                     [call[o] EXCEPT !.tries = @ - 1])
       ELSE Continue(o, IF setting.runit THEN "fail" ELSE "forget", call[o])
    /\ UNCHANGED <<system, history>>

\* The next poll of a verification, or the end of it: what the call itself has
\* spawned is stopped, what runit runs is left to runit.
Retry(o) ==
    /\ IF call[o].tries > 0 /\ (setting.runit \/ Identified(o, call[o].pid))
       THEN Continue(o, IF setting.runit THEN "discover" ELSE "ident",
                     [call[o] EXCEPT !.tries = @ - 1])
       ELSE IF setting.runit THEN Continue(o, "fail", call[o])
       ELSE Continue(o, "kill", [call[o] EXCEPT !.then = "forget"])
    /\ UNCHANGED <<system, history>>

Discover(o) ==
    /\ At(o, "discover")
    /\ IF Candidates(o) = {} THEN Retry(o)
       ELSE /\ \E p \in Candidates(o) :
                    Continue(o, "ident", [call[o] EXCEPT !.pid = p])
            /\ UNCHANGED <<system, history>>
    /\ UNCHANGED files

(* _spawn_service_process and the end of start_service.                    *)

\* Popen; or the directory is missing (fail), or Popen raises (forget).
Spawn(o) ==
    /\ pc[o] = "spawn"
    /\ UNCHANGED <<setting, files, calls>>
    /\ \/ \E stage \in {"fail", "forget"} : Goto(o, stage) /\ UNCHANGED outside
       \/ \E p \in Pids :
            /\ Starts(p, "service", o)
            /\ Reuses(p)
            /\ Continue(o, "record", [call[o] EXCEPT !.pid = p,
                                                     !.tries = Retries])
            /\ UNCHANGED <<termed, port, wanted, hit, clean, tidy, last>>

\* Mutant: the PID of the child is not saved.
RecordNothing(o) ==
    /\ At(o, "record")
    /\ Continue(o, "grace", call[o])
    /\ UNCHANGED <<system, files, history>>

\* save_pid; when it raises the child is left alone.
Record(o) ==
    /\ At(o, "record")
    /\ UNCHANGED <<system, status, hit, renewed, clean, last>>
    /\ \/ /\ pidFile' = call[o].pid
          /\ Continue(o, "grace", call[o])
          /\ UNCHANGED tidy
       \/ /\ Continue(o, "forget", call[o])
          /\ tidy' = FALSE
          /\ UNCHANGED pidFile

\* _wait_for_stable_start.
Grace(o) ==
    /\ At(o, "grace")
    /\ Goto(o, IF ~Alive(o, call[o].pid) THEN "forget"
               ELSE IF setting.http THEN "ident" ELSE "mark")
    /\ UNCHANGED files

(* verify_runtime_running: identity, then the port, then health.           *)
Ident(o) ==
    /\ At(o, "ident")
    /\ IF Identified(o, call[o].pid) THEN Goto(o, "owner") ELSE Retry(o)
    /\ UNCHANGED files

Owner(o) ==
    /\ At(o, "owner")
    /\ IF Owns(call[o].pid) THEN Goto(o, "health") ELSE Retry(o)
    /\ UNCHANGED files

Health(o) ==
    /\ At(o, "health")
    /\ \/ MayAnswer /\ Goto(o, IF setting.runit THEN "adopt" ELSE "mark")
       \/ Retry(o)
    /\ UNCHANGED files

\* save_pid for a process the call has not spawned.
Adopt(o) ==
    /\ pc[o] \in {"adopt", "note"}
    /\ pidFile' = call[o].pid
    /\ Goto(o, IF pc[o] = "note" THEN "amend" ELSE "mark")
    /\ UNCHANGED <<setting, bounds, status>>

\* _mark_running.
Mark(o) ==
    /\ At(o, "mark")
    /\ status' = "running"
    /\ Started(o)
    /\ UNCHANGED pidFile

\* report_startup_refusal, _fail_start.
Fail(o) ==
    /\ At(o, "fail")
    /\ status' = "failed"
    /\ Return(o, FALSE)
    /\ UNCHANGED pidFile

-----------------------------------------------------------------------------
(* stop_pid_safely: killpg.  It looks whether the PID is alive, and nothing *)
(* else: who it is was seen before, by whoever calls it.                   *)
Kill(o) ==
    /\ At(o, "kill")
    /\ UNCHANGED <<proc, parent, port, wanted, files, renewed, clean, tidy, last>>
    /\ IF Alive(o, call[o].pid)
       THEN /\ \E mates \in SUBSET Mates(call[o].pid) :
                    termed' = termed \cup {call[o].pid} \cup mates
            /\ Addresses(o, call[o].pid)
            /\ Continue(o, "killwait", call[o])
       ELSE /\ Continue(o, call[o].then, [call[o] EXCEPT !.done = @ \cup {call[o].pid}])
            /\ UNCHANGED <<termed, hit>>

\* Mutant: no SIGKILL after the SIGTERM.
KillWaitOnly(o) ==
    /\ At(o, "killwait")
    /\ Continue(o, call[o].then,
                [call[o] EXCEPT !.done = @ \cup {call[o].pid}])
    /\ UNCHANGED <<system, files, history>>

KillWait(o) ==
    LET p == call[o].pid
        gone == [call[o] EXCEPT !.done = @ \cup {p}]
    IN
    /\ At(o, "killwait")
    /\ UNCHANGED <<wanted, files, renewed, clean, tidy, last>>
    /\ IF ~Alive(o, p)
       THEN Continue(o, call[o].then, gone) /\ UNCHANGED <<system, hit>>
       ELSE \* SIGKILL; a zombie of somebody else still counts as alive.
            /\ \E mates \in SUBSET Mates(p) : Die({p} \cup mates)
            /\ Addresses(o, p)
            /\ Continue(o, call[o].then,
                        IF proc'[p] = "zombie" /\ parent[p] # o THEN call[o] ELSE gone)

(* stop_service.                                                           *)
Read(o) ==
    /\ At(o, "read")
    /\ Continue(o, IF pidFile = NoPid THEN "pattern" ELSE "check",
                [call[o] EXCEPT !.pid = pidFile])
    /\ UNCHANGED <<system, files, history>>

\* Mutant: what the PID file names is killed.
CheckNothing(o) ==
    /\ At(o, "check")
    /\ Looked(o, "kill", [call[o] EXCEPT !.then = "unrecord"])
    /\ UNCHANGED files

\* A mismatch is not killed; a dead or unreadable PID passes.
Check(o) ==
    /\ At(o, "check")
    /\ IF Mismatched(o, call[o].pid)
       THEN Goto(o, "unrecord")
       ELSE Looked(o, "kill", [call[o] EXCEPT !.then = "unrecord"])
    /\ UNCHANGED files

\* remove_pid.  After a mismatch (then is idle) the pattern is not used.
Unrecord(o) ==
    /\ At(o, "unrecord")
    /\ pidFile' = NoPid
    /\ IF call[o].then = "idle" THEN Stopped(o, FALSE)
       ELSE Goto(o, IF call[o].pid \in call[o].done THEN "verify" ELSE "pattern")
    /\ UNCHANGED status

Pattern(o) ==
    /\ At(o, "pattern")
    /\ Looked(o, "next", [call[o] EXCEPT !.pids = Matching])
    /\ UNCHANGED files

NextPid(o) ==
    /\ At(o, "next")
    /\ UNCHANGED files
    /\ \/ /\ call[o].pids = {}
          /\ IF call[o].done = {} THEN Stopped(o, FALSE) ELSE Goto(o, "verify")
       \/ \E p \in call[o].pids :
            /\ Continue(o, "kill", [call[o] EXCEPT !.pid = p, !.pids = @ \ {p},
                                                   !.then = "next"])
            /\ UNCHANGED <<system, history>>

\* _verify_stopped.
Verify(o) ==
    /\ At(o, "verify")
    /\ IF \E p \in call[o].done : Alive(o, p) \/ port = p
       THEN Stopped(o, FALSE)
       ELSE Goto(o, IF call[o].then = "next" THEN "erase" ELSE "halt")
    /\ UNCHANGED files

Erase(o) ==
    /\ At(o, "erase")
    /\ pidFile' = NoPid
    /\ Goto(o, "halt")
    /\ UNCHANGED status

\* _mark_stopped.
Halt(o) ==
    /\ At(o, "halt")
    /\ status' = "stopped"
    /\ Stopped(o, TRUE)
    /\ UNCHANGED pidFile

(* restart_service.                                                        *)
Old(o) ==
    /\ At(o, "old")
    /\ IF Mismatched(o, pidFile)
       THEN Continue(o, "disown", call[o])
       ELSE Continue(o, StopEntry, [call[o] EXCEPT !.old = pidFile])
    /\ UNCHANGED <<system, files, history>>

OldGone(o) ==
    /\ At(o, "oldgone")
    /\ UNCHANGED files
    /\ IF Alive(o, call[o].old) THEN Goto(o, "fail")
       ELSE IF Listening /\ port = call[o].old THEN Return(o, FALSE)
       ELSE /\ Continue(o, StartEntry, [NoCall EXCEPT !.op = "restart",
                                                      !.old = call[o].old])
            /\ UNCHANGED <<system, history>>

New(o) ==
    /\ At(o, "new")
    /\ Return(o, Alive(o, pidFile) /\ pidFile # call[o].old)
    /\ UNCHANGED files

(* build_report, which every status request runs, corrects the files.      *)
Seen(o) ==
    /\ At(o, "seen")
    /\ Goto(o, IF pidFile = NoPid THEN "find"
               ELSE IF Alive(o, pidFile) THEN "amend" ELSE "lapse")
    /\ UNCHANGED files

Find(o) ==
    /\ At(o, "find")
    /\ UNCHANGED files
    /\ IF Matching = {} THEN Return(o, FALSE)
       ELSE \E p \in Matching : /\ Continue(o, "note", [call[o] EXCEPT !.pid = p])
                                /\ UNCHANGED <<system, history>>

Amend(o) ==
    /\ At(o, "amend")
    /\ status' = IF status = "failed" THEN "running" ELSE status
    /\ Return(o, TRUE)
    /\ UNCHANGED pidFile

-----------------------------------------------------------------------------
(* External: the processes, runit, and whoever else uses the machine.      *)
External == UNCHANGED <<setting, files, pc, call, hit, last, calls>>

Bind(p) ==
    /\ setting.http
    /\ port = NoPid
    /\ proc[p] \in {"service", "lookalike", "foreign"}
    /\ port' = p
    /\ clean' = (clean /\ proc[p] = "service")
    /\ tidy' = (tidy /\ (proc[p] = "service" \/ setting.proc))
    /\ External /\ UNCHANGED <<proc, parent, termed, wanted, renewed, outside>>

\* A process heeds SIGTERM.  While no call waits for that, it is a disturbance.
Exit(p) ==
    /\ p \in termed
    /\ Die({p})
    /\ clean' = (clean /\ \E o \in Operators : InHand(p)
                    /\ pc[o] \notin {"idle", "ident", "owner", "health", "adopt", "mark", "new"})
    /\ External /\ UNCHANGED <<wanted, renewed, tidy, outside>>

Crash(p) ==
    /\ proc[p] \notin {"none", "zombie"}
    /\ p \notin termed
    /\ Die({p})
    /\ Disturbs /\ clean' = FALSE
    /\ External /\ UNCHANGED <<wanted, renewed, tidy>>

Outsider(p, kind) ==
    /\ Starts(p, kind, "outside")
    /\ Disturbs
    /\ clean' = (clean /\ kind # "service")
    /\ tidy' = (tidy /\ kind # "service")
    /\ External /\ UNCHANGED <<termed, port, wanted>>

\* runit starts the service and restarts it.
Supervise(p) ==
    /\ setting.runit
    /\ wanted
    /\ \A q \in Pids : parent[q] # "runit"
    /\ Starts(p, "service", "runit")
    /\ Reuses(p)
    /\ External /\ UNCHANGED <<termed, port, wanted, clean, tidy>>

\* The hub waits for its dead children when it starts another process.
Reap(p) ==
    /\ proc[p] = "zombie"
    /\ parent[p] = Hub
    /\ proc' = [proc EXCEPT ![p] = "none"]
    /\ parent' = [parent EXCEPT ![p] = "outside"]
    /\ External /\ UNCHANGED <<termed, port, wanted, renewed, clean, tidy, outside>>

\* The operator's process is killed in the middle of a call: by killpg, when it
\* shares the group of the PID, or by somebody else.
Lost(o) ==
    /\ pc[o] # "idle"
    /\ Continue(o, "idle", NoCall)
    /\ Leaves(o)
    /\ renewed' = [renewed EXCEPT ![o] = {}]
    /\ Disturbs /\ clean' = FALSE /\ tidy' = FALSE
    /\ UNCHANGED <<setting, files, termed, port, wanted, hit, last, calls>>

Environment ==
    \/ \E p \in Pids : \/ Bind(p) \/ Exit(p) \/ Crash(p) \/ Supervise(p) \/ Reap(p)
                       \/ \E kind \in Others : Outsider(p, kind)
    \/ \E o \in Operators : Lost(o)

Starting(o) ==
    \/ Look(o) \/ Classify(o) \/ Correlate(o)
    \/ Reverify(o) \/ SvDown(o) \/ Signal(o) \/ Gone(o) \/ Release(o)
    \/ RemovePid(o) \/ Stale(o) \/ Saved(o) \/ Pgrep(o)
    \/ SvUp(o) \/ Discover(o)
    \/ Spawn(o) \/ Record(o) \/ Grace(o)
    \/ Ident(o) \/ Owner(o) \/ Health(o)
    \/ Adopt(o) \/ Mark(o) \/ Fail(o)

Stopping(o) ==
    \/ Kill(o) \/ KillWait(o)
    \/ Read(o) \/ Check(o) \/ Unrecord(o) \/ Pattern(o) \/ NextPid(o)
    \/ Verify(o) \/ Erase(o) \/ Halt(o)

Restarting(o) == Old(o) \/ OldGone(o) \/ New(o)

Reporting(o) == Seen(o) \/ Find(o) \/ Amend(o)

Step(o) == Starting(o) \/ Stopping(o) \/ Restarting(o) \/ Reporting(o)

Next ==
    \/ \E o \in Operators : \/ \E op \in Operations : Begin(o, op)
                            \/ Step(o)
    \/ Environment

Spec == Init /\ [][Next]_vars

-----------------------------------------------------------------------------
AtRest == \A o \in Operators : pc[o] = "idle"

\* The last call ran alone and undisturbed, and returned ok.
Succeeded(op) == AtRest /\ clean /\ last = [op |-> op, ok |-> TRUE]

\* No call addresses a signal to a program that has neither the pattern nor the
\* interpreter of the service in its command line, unless the PID was given to it
\* after the call had seen, or spawned, the process that had it before: a PID file
\* may name another program's PID, the port may change hands between the checks,
\* and two calls may run at once.  It says nothing of lookalikes, which the code
\* takes for the service, nor of those that share the group of the PID.
NoForeignTarget == "foreign" \notin hit

\* After a start or restart of a service with a port that returned true, the
\* status file says running, the service listens on its port and, where owners
\* can be seen, the PID file names it: verification and what the checks saw
\* before still agree when the call ends, whatever the files said when it began.
RunningIsTrue ==
    /\ Succeeded("start") \/ Succeeded("restart")
    /\ setting.http /\ tidy
    => /\ status = "running"
       /\ Listening /\ proc[port] = "service"
       /\ setting.proc => port = pidFile

\* After a stop that returned true nothing of the service is left but what has
\* been sent SIGTERM, and runit does not bring it back: although only the PID of
\* the PID file is waited for, and a dead one counts as stopped.
StopMeansStopped == Succeeded("stop") /\ tidy => Matching \subseteq termed /\ ~wanted

\* As long as calls do not overlap or break off, two instances of the service
\* never run at once, not even in the middle of a call: a new one is started
\* only when the old one is dead, and a child that fails verification is killed.
SingleInstance == tidy => Cardinality(Matching) <= 1

\* At rest an instance that the hub has started is the one its PID file names,
\* so that a later stop finds it: after failed starts and stops, too.
NoOrphan == tidy /\ AtRest /\ ~setting.runit => Matching \subseteq {pidFile}

=============================================================================
