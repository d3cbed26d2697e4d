# A verification project for YasinHub

YasinHub is the control plane of a small fleet of services and agents: it
records *executions* (jobs), lets people and channels (Slack, Monday, GitHub,
HTTP) control them, projects what the agent runtime reports into its own store,
and starts, stops and heals the services of the ecosystem. This directory
models its core logic in TLA+, checks it with TLC and proves the central
results with TLAPS. Every definition is translated from `src/yasinhub`;
`PROJECT.json` maps each one to its lines.

## 1. Inventory

| Component | Source | State | Operations | What is hard | What makes it correct | Modelled in |
|---|---|---|---|---|---|---|
| Execution store | `observer/execution_store.py`, `observer/lifecycle_ext.py` | `_executions`, `_events`, `_seq`, one JSON file per execution, degraded signal | create, upsert, start, pause, resume, cancel, complete, fail, recover_stale, reload | each operation is several critical sections; objects are shared by reference; threads share `<id>.tmp`; crashes; failing disks | lifecycle never left, every move announced once, unique numbers, files readable and current | `ExecutionStore` |
| Confirmation | `interface/engine.py`, `interface/session.py`, `execution/control_api.py`, `execution/policies.py` | sessions, thread index, pending tokens, claimed control events | ask, request, confirm, cancel, direct control request | several workers, stale session copies, redelivery, expiry, crashes | at most once, no confirmation lost, nothing late or cancelled runs | `Confirmation` |
| Shared state | `storage/shared_state.py` | key/value files or dictionaries with expiry | get, set, delete, compare_and_set, try_acquire, release | processes, two locks, temporary files, expiry under a call, crashes | each operation atomic; leases and claims exclusive; no lock left behind | `SharedState`, `KeyValue` |
| Agent projection | `adapters/agent_runtime.py` | seen event ids, bound runtime | ingest_event, sync_execution, pause, resume, cancel | unlocked read-modify-write, duplicated and reordered events | each event logged once, none lost | `AgentRuntime` |
| Agent transport | `adapters/http_transport.py`, `adapters/http_adapter.py` | idempotency cache, remembered event ids, health | request with retries, control actions, list_events | timeouts, retry of what was done, late requests, cached answers | no success reported that did not happen, calls end | `AgentRuntime` |
| Correlation, GitHub | `execution/correlation.py`, `integrations/github/adapter.py` | bindings of executions, items, pull requests, commits | register, resolve, apply, list_orphans | events late, repeated, ambiguous; second executions for one item | a key names one execution; only the right one is moved | `Integrations` |
| Monday | `integrations/monday` | received events, processed correlations, item to execution, board columns | webhook, cancel, retry, drain, sync | redelivery, columns edited by users, writes that fail half-way, restart | one execution under way, board shows the newest | `Integrations` |
| Reconciliation | `execution/reconciliation.py` | lease, last report | reconcile | a lease that runs out under a long pass, a late release | one pass at a time while the lease lasts | `SharedState` (lease), `Integrations` (orphans) |
| Audit store | `storage/audit_store.py` | JSONL file, cache | append, list, retention | rewrite at the limit, lines cut short, failing reads | no acknowledged row lost below the limit | `AuditLog` |
| Service manager | `service_manager.py`, `service_lifecycle.py`, `pid_store.py`, `ports.py`, `runit.py`, `process_checker.py`, `report.py` | PID file, status file, port, processes | start, stop, restart, report | concurrent callers, dying processes, stale PIDs, a port that changes hands, zombies | one instance, answers are true, others untouched | `ServiceManager` |
| Hub startup | `startup.py` | PID file, port, hub process | one run of the launcher | launchers that race, PIDs used again, children that cannot bind | one hub, "ok" is true, a race leaves a hub | `Startup` |
| Slack | `integrations/slack` | de-duplication keys | interactive actions | redelivery to several processes | one action per interaction | `SharedState` (claims) |
| Parsing, HTTP API, auth, registry, reports, dashboard | `interface/parser.py`, `api/`, `auth/`, `cli.py`, ... | none of their own | routing and formatting | - | - | not modelled |

The components meet in the execution store: the Control API calls its
operations, the agent projection upserts into it, the services and GitHub
events complete it, and the audit store receives a row for each transition.
They meet across processes only in the shared state and in files.

## 2. Modules

| Module | What it is |
|---|---|
| `Lifecycle` | the states, the allowed moves and the event that names each move |
| `ExecutionLifecycle` | the abstract specification: a job's life and the announcements each move owes, without threads or files |
| `ExecutionStore` | the store in detail: threads with program counters, the RLock, the event log, files, audit rows, crashes |
| `ExecutionStoreRefinement` | the refinement mapping from the store to `ExecutionLifecycle` |
| `MCExecutionStore` | instances for TLC |
| `ExecutionStore_proofs` | proofs about the store, and that it implements `ExecutionLifecycle` |
| `Confirmation` | the confirmation protocol over shared state |
| `MCConfirmation` | instances for TLC |
| `Confirmation_proofs` | proofs about the confirmation protocol |
| `AgentRuntime` | the hub and the agent runtime: control actions, reads and events through either adapter |
| `MCAgentRuntime` | instances for TLC |
| `AgentRuntime_proofs` | proofs about the adapters |
| `SharedState` | both backends of the shared state in steps, with the callers that take decisions with it |
| `KeyValue` | the abstract specification of the shared state: calls that take effect at one instant |
| `MCSharedState` | instances for TLC |
| `SharedState_proofs` | proofs about the locks and the decisions taken with them, and that both backends implement `KeyValue` |
| `ServiceManager` | start, stop, restart and report of one service on a machine that others use |
| `MCServiceManager` | instances for TLC |
| `ServiceManager_proofs` | proofs about what is signalled, and about calls that run one after the other |
| `Startup` | overlapping runs of the hub's launcher |
| `MCStartup` | instances for TLC |
| `Startup_proofs` | proofs about what the launchers signal and leave behind, alone and in a race |
| `Integrations` | Monday and GitHub over the correlation index |
| `MCIntegrations` | instances for TLC |
| `Integrations_proofs` | proofs about the correlation index, the Monday bridge and the sync pass |
| `AuditLog` | the durable audit log |
| `MCAuditLog` | instances for TLC |
| `AuditLog_proofs` | proofs about the audit log, and induction over its lines |

### ExecutionStore

A snapshot is a Python object: `complete()` and `fail()` change the current one
in place while other threads hold references. The model therefore keeps for
each id the sequence `objects[e]` of the objects stored under it, the last one
being current, and a thread holds an index (`obj`). Each thread has a stage
(`pc`) between two critical sections of the RLock:

    wrap -> transition -> emit -> append -> emit -> append ->
        serialise -> open -> write -> replace -> audit -> idle

`ReadAuditFrom` is the wrapper's first read, `Transition` or `Reject` the
locked check and store, `DrawTicket` and `AppendEvent` the two critical
sections of `emit_event`, `Serialise` to `Replace` the steps of
`_persist_execution`, `PersistFails` its swallowed errors and `Audit` the
swallowed audit row. `CompleteHonoursCancel` keeps the lock for a whole cancel,
as `complete()` does. `Restart` stops the hub anywhere and reloads the files.
Open files are followed through renames (`fd`), and a file overwritten by a
second writer may be unreadable (`Overlay`).

Abstracted: timestamps, workspaces, metadata, redaction (the payloads are a set
`Results` and a flag for an error), unknown ids (KeyError, no change), and
`clear()`, a test reset. A caller of `create_execution` passes a fresh id, as
the callers in `src` do. `upsert_execution` is called with snapshots of the
agent runtime (`Projections`). Such a snapshot need not be a path of the
lifecycle (`ingest_event` appends a status only if it is not yet in the history,
`agent_runtime.py:276-277`), so `HistoryIsPath` is checked without reports.

The shipped HTTP server handles one request at a time, but the store promises
more: it has an RLock, and `tests/test_job_lifecycle.py` calls it from several
threads. The runs check both uses: several threads, and one.

### Confirmation

Workers handle the messages of one chat thread (question, control request,
confirm, cancel) and requests of Control API clients. A worker's stage is the
next shared-state operation it makes; between two of them it only has its copy
of the session (`copy`). `Resave` is the write-back of
`get_or_create_for_thread`, `Save` the final one. `Look`, `Consume`, `Settle`
are `_handle_confirm`; `Claim`, `Evaluate`, `Mutate` are the Control API. The
event id of a token (`nl-<token>`) is represented by the token. `Expire` is the
payload's `expires_at`, `Purge` the record's own time to live. A worker crashes
at any stage, and a sender repeats any message.

Abstracted: the operation asked for, roles (the policy's verdict is a free
choice), the answer texts and the turns kept in a session, what `_mutate` calls
(`runs` counts it). The store is the file backend; the 7-day times to live of
sessions and claims are longer than a token lives and do not run out.
Requests without an event id are never de-duplicated and are left out. A
record's `get` and `compare_and_set` in `consume_pending_control` are one step:
a token is written once, so what one sees the other decides.

### AgentRuntime

Hub threads control, read and poll one execution that the agent owns. `adapter`
is the choice of `get_runtime_adapter`. Over HTTP a call is `Send` and a wait
that ends with `Accepted`, `Refused` (401, 403, 404, 409), `ServerError` (5xx)
or `Timeout`; the last two try again, `Retries` times. A request given up while
it is on its way goes to `late`: it may reach the agent afterwards, or never. A
control request answered before is answered from `cache` and its old reply is
projected again. In process the adapter calls the runtime (`Invoke`), projects
and announces; the runtime calls back with its events (`Dedupe`, `Apply`,
`Emit`), in any order and more than once. A poll answer is handled one event at
a time (`Remember`, `Emit`), in any order: `list_events` takes the agent's and
sorts only what it returns.

The agent is external: it carries out what the lifecycle allows, answers 409 to
anything else, and produces one event for each move. Its events are numbered by
their place in `agentEvents`; `log` holds their numbers in the order in which
the hub emits them, without the hub's own announcements. `carried` and `acked`
are history variables.

Abstracted: everything of an execution but its status, health counters, audit,
back-off, the agent's other executions and fleets, the cap of 10000 remembered
event ids. `emit_event` and `upsert_execution` do not fail here; the adapter
without a bound runtime calls the store, which is `ExecutionStore`.

### SharedState

A worker is a thread of one of several processes. A call goes through the
stages

    mutex -> flock -> read -> write -> replace -> unlock      (file)
    mutex -> read -> unlock                                   (memory)

with `unlink` for `delete` and `release`. `Ask` begins it for one of the callers
in `src`: `Reconcile` and `EndPass` (the lease, `try_acquire` and `release`),
`Click` (the claim of a Slack interaction), `Handle` (the claim of a control
event, `compare_and_set` with None), and the records of the session store
(`SaveRecord`, `LoadRecord`, `ClearRecord`, `ConsumeRecord`). `Decide` is what
the function makes of the value it has read, `Return` gives both locks back and
says where the caller goes on: a pass begins even when `try_acquire` raised
(`reconciliation.py` swallows it). `ReadFails`, `WriteFails`, `Lapse` and
`Crash` are the faults. `KeyValue` is the same interface with one step for each
call; the refinement (`ImplementsKeyValue`) maps an entry to what `_read` makes
of it.

Abstracted: times to live (an entry runs out at any point), values (fresh
numbers for uuids), the encoding of keys into file names, `clear_namespace` and
the resets, which only tests call.

### ServiceManager

Operators are the processes that call the service manager: the hub, which lives
on, and command line processes. A stage is a read or a change of something
shared: the process table, the port, the PID file, the status file, runit. The
constant `Settings` names the deployments: with a port or without, under runit
or spawned, with `/proc/net/tcp` or without. `Look` to `Release` are
`preflight_service` and `_heal_same_service_owner`, `SvUp` to `Health` the start
and `verify_runtime_running`, `Kill` and `KillWait` `stop_pid_safely`, `Read` to
`Halt` `stop_service`, `Old` to `New` `restart_service`, `Seen` to `Amend` the
corrections that `build_report` makes whenever a status is asked for.
`Environment` is the machine: processes bind, exit, crash, are started by
others, become zombies; runit revives what is wanted up; an operator's process
is killed in the middle of a call.

`stop_pid_safely` signals a process group. A child that the hub spawned leads a
group of its own; of the processes runit or others started, any may be in one
group (`Mates`), and each `Kill` and `KillWait` takes a part of it along. An
operator that is in the group itself is one that is lost in the middle of a call
(`Lost`). A PID may be given to another program at any moment, also while a call
holds it: between `Verify` and the signals, over `sv down`, over the waits for
earlier PIDs, and between SIGTERM and SIGKILL. `renewed` remembers, for the
property, which PIDs were given away since the call last looked at them; no guard
reads it.

Abstracted: texts and time limits; `stop_command`, which no registry entry has;
processes whose command line cannot be read, which are another user's, so that no
signal reaches them.

### Startup

One run of the launcher is the sequence of stages of `run_startup`:
`preflight_hub_port` (`Owners`, `Occupied`, `Classify`, `Anchor`),
`stop_hub_gracefully` and `wait_port_released` (`Stop`, `Gone`, `Release`),
`remove_pid`, `start_hub_process` and `save_pid`, `verify_hub_running` (`Ident`,
`Own`, `Health`) and the end of a failed run (`GiveUp`, `Erase`). PIDs are
given to other programs while a launcher still holds them.

`is_yasinhub_process` looks for a text in a command line, so the model has
programs that it takes for the hub (`lookalike`: a hub of another port, an editor
on the hub's source, a shell whose command names it), programs it does not
(`server` with a socket, `foreign` without one) and programs of another user,
whose command line and sockets cannot be read (`sealed`): those are neither hub
nor foreign to it. `PortOwners` is what `/proc/net/tcp` gives. Where it gives
nothing, `ClassifyHinted` takes what `pgrep` finds, if it is there (`Found`,
`Candidates`), with the PID file, and what `lsof`, `ss` or `fuser` may list
(`Hints`): any socket of the machine, as the code does not look at the port of an
`ss` line. `Stop` looks at a PID and signals it in one step, because
`startup.py:424-430` does so in consecutive statements; whatever lies between the
preflight and that check is between steps.

Abstracted: the checks of the production configuration, which only refuse; the
texts; time limits, which are the choice between a poll and the end of polling.

### Integrations

The HTTP server handles one request at a time (`api/server.py:614-628`), so a
webhook's handler is one action. A sync pass makes calls to Monday between
which the agent moves executions and users touch the board, and is a sequence
of actions. `Registered` is `register` with the conflict all callers swallow,
`Resolve` `resolve_github_event`, `Apply` a GitHub webhook from resolution to
the enriched record, `Ingest` and `Process` a Ready webhook, `SyncRead` and
`SyncWrite` the push of one execution, column by column. `ControlRetry` is the
retry and re-run of the Control API (`control_api.py:305-340`), which HTTP, Slack
and the chat interface call: it creates a second execution with the metadata of
the old one, asks nothing of its status, and registers it with whatever
correlation the request or the metadata has.

Abstracted: events of another status (stored, without effect), texts, signatures,
issue events (they move no execution). Cancel, retry and drain of an item are
operations of the Monday adapter without a caller in `src` and are modelled as
such. `OneLive` speaks of the executions that the bridge makes; those of
`ControlRetry` (`again`) it leaves out, because the code does (section 5).

### AuditLog

`Submit` is `append` up to the first system call, `Write` the appended line,
`WriteTmp` and `Replace` the rewrite at the retention limit. `CutShort` says what
of a line is in the file when a write fails. A read that fails keeps the rows it
had got (`Reads`), as `_load` fills its list inside the `try`, so the cache may end
in the middle of the file. Rows are numbers; a row nobody can parse is 0.

Abstracted: what a row says, filters of `list`, the memory store, `clear`. One
process is modelled, as the hub's lock covers one process.

## 3. Runs

| Run | Instance | Shows |
|---|---|---|
| `store_threads` | 2 threads, 1 execution, 2 objects, histories of 4, in memory, reports of the runtime, `FairSpec` | `LifecycleRespected`, `EventSequencesUnique`, `TransitionsPublished`, the refinement `ImplementsLifecycle`, and `CallsReturn` |
| `store_files` | 2 threads, durable, 1 restart | `FileWasStored`, `HistoryIsPath`, `OutcomeRecorded` |
| `store_serial` | 1 thread, durable, failing disk, 2 restarts, 4 objects | `DurableAtRest`, `DurableReadable` |
| `confirm` | 2 workers, 2 actors, 2 sessions, 2 tokens, 1 client id, 4 messages | `RunsOnce`, `ConfirmedRuns`, `ExpiredNeverRuns` |
| `agent` | 2 threads, both adapters, 1 retry, 1 request id, 3 calls, `FairSpec` | `AcknowledgedHappened`, `EventsOnce`, `EventsNotLost`, `CallsEnd` |
| `shared_state` | 2 processes of 1 thread, either backend, one key in use, of any kind, 2 faults | `LeaseIntact`, `ActedOnce`, `LocksMatchCalls`, the refinement `ImplementsKeyValue` |
| `services` | hub and command line, 3 PIDs, 3 deployments, 2 calls, 1 event from outside | `NoForeignTarget`, `RunningIsTrue`, `StopMeansStopped`, `SingleInstance`, `NoOrphan` |
| `startup` | 2 launchers, 3 PIDs, 2 runs, 2 polls of the verification, 1 event from outside, with and without owner discovery | `ForeignUntouched`, `OneHub`, `OkIsTrue`, `RaceLeavesHub`, `SelfHealing` |
| `integrations` | 2 items, 2 correlations, pull requests in one repository, 2 executions, retries of the bridge and of the Control API, 1 edit or restart, 1 pass | `RightExecution`, `BindingStable`, `OneLive`, `BoardShowsLatest`, `UnreachableReported` |
| `audit` | retention 3, 8 records, 4 faults | `AcknowledgedKept` |

Two runs end in a violation and are findings:

| Run | Property | What the code does |
|---|---|---|
| `cancelled_confirm` | `CancelledNeverRuns` | a stale session save brings a cancelled token back, and a later confirm runs it |
| `wrong_pull` | `RightExecution` | a check of one repository of a task with pull requests in two is recorded with the number of the other, and another task's pull request then moves the execution |

**Bounds.** `MaxObjects` and `MaxHistory` bound the moves of an execution since
a start: four objects with a history of five let an execution be created,
started, paused, resumed and ended; with two threads two objects suffice for
every race, because a race needs one transition of each thread. `MaxRestarts`
is two where a restart after a restart matters. Four messages are enough for a
request, a stale reader and two confirmations, or a request, a cancel and a
confirm; two tokens make a session's pending token be replaced. Three
calls let two threads act at once with a third call before or after: two polls
of the same events, two controls with one request id, a repeated key.

`InUse` is one in `shared_state`: calls on different keys share only the
process's RLock, so one key of each kind in turn shows every race; two faults
let a lease run out and a release fail, or a crash follow a failed read.
`services` lets two calls overlap or follow each other, with one event from
outside before, between or in them, and a third PID for a program that takes
the place of a dead one; that a PID in a call's hands is given away counts as such
an event. Others start foreign programs in this run: an instance of the service
that somebody else starts ends what the other properties promise (`tidy`) and is no
foreign program; the proofs allow it. Verification polls once there (`Retries` is 0), as a further poll is
the same step again. In `startup` two runs overlap or follow each other, and
begin with any PID file, a hub or none, and one program of any kind, which is
what earlier runs, crashes and users leave; PIDs in a launcher's hands are given
away within the same bound, and so are those of its dead children, by a second
launcher. In `integrations` one mishap (an edited column or a restart)
and two executions give every conflict of the index; `audit` reaches two
rewrites after a failed one. Symmetry is used only in runs without temporal
properties.

**Fairness.** Only `CallsReturn` and `CallsEnd` need it: `FairSpec` has weak fairness of each
thread's step inside an operation, which is the operating system scheduling a
runnable thread. Nobody is obliged to call an operation. With weak fairness the
lock cannot starve a thread, because it is only kept across steps of the one
complete-and-cancel, which ends. In `AgentRuntime` it also says that a wait ends,
at the latest with the timeout of `urlopen`; nothing is assumed of the agent and
the network.

## 4. Proofs

For every set of threads, executions, results, projections, workers, processes,
keys, operators and PIDs, and for all bounds:

- `ExecutionStore_proofs!TypeCorrect` and `Inductive`: the types, with
  `ControlOK`: a thread inside an operation knows its execution, holds an object
  of it, and has an event to emit while it publishes. Types alone are not
  inductive: the current object of an execution must exist to be read.
- `ExecutionStore_proofs!SequencesUnique`: by `TicketsOK`, a number drawn
  and not yet used is below `_seq`, in no event and with no other thread.
- `ExecutionStore_proofs!LifecycleSafe`: every transition goes along the
  lifecycle from the object it replaces; mutation in place never changes a
  status, and the check and the store are one critical section.
- `ExecutionStore_proofs!SparedHistorySafe`: the executions on which the agent
  runtime does not report keep a history that is a path of the lifecycle,
  whatever it reports of others meanwhile; `HistorySafe`: in a hub without an
  agent runtime that is every execution. A restart turns files into objects, so
  the invariant (`Stored`) says it of every snapshot in memory, in a thread's
  hands, in a temporary file and on disk. Of an execution with reports nothing is
  claimed: what `ingest_event` puts together need not be a path.
- `ExecutionStore_proofs!OutcomeSafe`: without reports of the agent
  runtime, a success has a result and a failure an error. Beside `Stored` the
  invariant has `Written`: while complete or fail is on its way to its
  transition, the object that is current by then, whoever stored it, has the
  outcome. A report in that gap replaces the object and loses the outcome, so
  the hypothesis is needed.
- `ExecutionStore_proofs!FilesHoldObjects`: a file that parses holds the
  status and the history of an object stored under its id, for any number of
  threads on one `<id>.tmp`. `<id>.tmp` survives a restart and may then hold what
  no object says, so the invariant (`FileInv`) speaks of it only while a thread is
  past the `open` that truncates it; before the rename every thread is.
- `ExecutionStore_proofs!AlwaysReadable` and `!DiskKeepsUp`: with one
  thread (`OneThread`), `<id>.json` is absent or whole at every instant, and up to
  date whenever no call runs and no save failed. The invariants follow the
  snapshot from the object (`SavesLatest`) through the thread's `<id>.tmp`
  (`ReadyToSave`) to the file. With two threads neither holds: they rename each
  other's open file, and the older snapshot may be written last (section 5).
- `ExecutionStore_proofs!Published`: once no thread publishes it, a
  transition is in the log under its name and as `execution.state_changed`, once
  each. The log alone does not say who still owes an announcement, so the
  invariant (`PublishInv`) keeps the account: each transition is announced or
  owed by exactly one thread, and what is in the log is true.
- `ExecutionStore_proofs!StoreImplements`: the store implements
  `ExecutionLifecycle`, step by step: `Create` is `Born`, `Project` `Adopt`,
  `Transition` `Move`, `AppendEvent` `Announce`, `Restart` `Reborn`, and every
  other step a stutter.
- `Confirmation_proofs!OnceOnly`: by `ClaimsOK`, a worker between its claim and
  the end of the action is alone with that claim and the action has not run; an
  action that has run is claimed for good.
- `Confirmation_proofs!NeverLate`: by `LateOK`, a late confirmation meets an
  expired token, and expiry is checked both for a record and for a session copy.
- `Confirmation_proofs!NotLost`: by `KeptInv`, a confirmed token is at every
  moment in its record, in the hands of a worker, or settled, and each step only
  takes it forward, although workers save stale copies of a session.
- `AgentRuntime_proofs!SuccessIsTrue`: by `SuccessHappened`, every success
  anyone holds, in a reply, in the cache or as an answer, is of an action the
  agent has carried out for that request.
- `AgentRuntime_proofs!LoggedOnce`: by `OneHolder`, an event a thread is about
  to emit is remembered, is in no other thread's hands and not in the log.
- `AgentRuntime_proofs!SeenReachesLog`: remembering an event and logging it are
  two steps; by `SeenKept` a thread has in hand what is remembered and not logged.
- `SharedState_proofs!LocksSafe`: whoever holds a lock is in a call for its key,
  in either backend. Beside the property itself the invariant (`LockInv`) only
  needs that a worker in a call knows the location the call goes to, and that
  the stage `flock` occurs with files only: the steps between taking and giving
  back leave the locks alone, and a crash drops a process's calls and locks
  together.
- `SharedState_proofs!ValuesSafe`: what a call has decided by what it read under
  its lock still holds when it writes (`DecisionStands`), unless the entry lapsed
  meanwhile or its file could not be read. It rests on the locks, and on nothing
  but the lock's holder writing an entry, in either backend.
- `SharedState_proofs!KeepsPromise`: both backends implement `KeyValue`. The
  instant at which a call takes effect is its rename or unlink if it changes the
  key, and its read if it does not; `ValuesSafe` makes the two agree.
- `SharedState_proofs!ActsOnce`: by `ActedInv`, what has been acted on is not free
  to be acted on again, and a call about to act finds nobody before it.
- `SharedState_proofs!LeasesHold`: by `OwnersInv` no two workers have one name, and
  by `LeaseKept` who has a lease finds its own name in the store.
- `ServiceManager_proofs!NeverForeign`: no call addresses a signal to a foreign
  program, unless the program was given the PID after the call had last looked at
  it, or at the child it had spawned. The invariant (`CallsSafe`) follows a PID
  from the look to the signal over every stage between: what a call has collected
  was the service then, what a failed start stops is the child it has spawned,
  and whatever came in its place since is in `renewed`. It also says that only
  where runit runs the service a call is in a runit stage, because there a
  verification adopts a process it has not spawned, and must not stop it. The
  theorem says nothing of lookalikes, which the code takes for the service, nor of
  the group of the PID (section 5).
- `ServiceManager_proofs!NeverTwice`, `AlwaysFound`, `StopStops`, `StartStarts`:
  calls that run one after the other and to their end never run the service
  twice, lose no instance, and return what is true. Each of the four properties
  speaks of a moment, a call's end or the start of a child, and depends on what
  every stage before it has seen; so one invariant (`TidyInv`) proves them all. It
  gives each stage of a call its place (`Place`): which calls reach it (`Route`),
  that without runit whatever runs is named by the PID file, or by the call while
  it saves the PID, and listens if it has ever been verified (`Filed`), that once
  runit was told to stop nothing comes back (`Halting`), and what an undisturbed
  call still knows of the port (`Verifying`). A stage may rely on what an earlier
  one saw only because an exit, a crash or a bind in between keeps its place.
- `Startup_proofs!OnlyMarkedHit`: no program without a marker of the hub is
  signalled, whoever has been given the PIDs that the preflight has seen: that is the
  check before each signal. Where the owners of the port can be seen, none that only
  looks like the hub is signalled either, unless it was given a PID in a launcher's
  hand (`distinct`): the invariant (`Genuine`) says that nothing a launcher holds is a
  lookalike then.
- `Startup_proofs!NeverTwoHubs`: by `TidyInv` a hub that lives has the port, until
  it is stopped; from then on none lives but the launcher's child. Where owners
  cannot be seen, a launcher takes any program on the port for its child, so the
  invariant also says that nobody else has taken it.
- `Startup_proofs!OkHolds`, `Heals`: by `CleanInv` what a launcher that is alone has
  seen stays true: the old hubs it found are all there are, and once its child
  runs either the child is the hub and its own, or another program has the port
  and the child is dead. `Heals` needs it because a run may give up only in the
  second case. Where owners cannot be seen it also has a hypothesis in the
  property: the PID file names no foreign program and nothing with a socket is
  on the machine; without it the code refuses (section 5).
- `Startup_proofs!RaceEndsWithHub`: a hub that one launcher has found may be stopped
  by another. By `CalmInv`, once a launcher has printed "ok" there is always a
  live hub on the port or a launcher that owes one (`Claimed`): who has told a hub
  to end waits for it (`TermsWatched`) and then starts another, and a child that
  loses the race for the port ends only because a hub has it (`ForeignHolds`).
- `Integrations_proofs!OneAtATime`: by `EventsInv` every execution started since
  the hub did was started for a stored webhook, whose correlation stays
  processed, and one that is under way although its item has a newer execution
  was started for a webhook that is not the item's last (`Outrun`). A first
  start is for a correlation not processed, and a retry of the bridge takes the
  item's last webhook while the execution the item is known to have is over, so neither
  meets an execution under way for the same correlation. Draining processes
  nothing again (`DrainKeeps`). Executions of `ControlRetry` are not counted, and
  disturb none of this, as they neither enter the bridge nor take over a record.
- `Integrations_proofs!OrphansKnown`, `BindingsStay`: by `Sound` a record of the
  index names an execution of its own correlation. `Conflict` compares
  executions and not correlations; that two bindings of one execution are of one
  correlation (`NoConflict`) is what makes it enough.
- `Integrations_proofs!OnlyItsOwn`: an event moves no execution but the one that
  is registered for the correlation of its pull request. A record may carry the repository of one pull
  request of a task and the number of another (`Owned`), and is then bound to a
  pull request nobody reported. The theorem has the hypothesis `NumbersApart`,
  that this pull request, if it exists, is not another task's; without it the
  property is false (`wrong_pull`). With it every candidate of an event is the
  owner of its pull request, or names the same execution as the owner's record.
- `Integrations_proofs!BoardIsRight`: by `BoardInv` the board shows, for every
  item nothing has disturbed, the newest of the executions pushed so far, and
  those are the oldest ones, without a gap.
- `AuditLog_proofs!KeepsAcknowledged`: an acknowledged record stays in the file
  while it is among the newest. The file may lack records and hold older ones
  that the cache lacks, so the invariant (`Inv`) compares both with what was
  acknowledged: the readable lines grow from line to line (`FileInv`), the cache
  has every acknowledged record that is recent and not older than its first
  (`CacheInv`), and so have the rows on their way to the file; by the time they
  are long enough for a rewrite nothing recent is older (`RowsInv`). `NewestKeeps`
  shows that dropping rows, which counts rows and not numbers, drops no recent one.
  Two kinds of record are excepted, because the code loses them: one glued to a
  line without its end (`spoiled`), and one that a read which broke off after
  another record passed over (`passed`).
  What `_load` makes of the lines is the recursive function `Kept`; its theorems
  are proved by induction over the lines (`SetInduction`, from the
  well-foundedness of inclusion on finite sets, with a set in the place of a
  predicate).

The proofs rest on assumptions on constants: `ProjectionsAssumption` (what
is projected is a snapshot), `ContentsAssumption` (a missing, empty or torn file
is told from one that parses), `ConfirmationAssumption` (the special values are
not tokens or actors), `RuntimeAssumption` (the adapters that exist, a
natural number of retries), `SharedStateAssumption` (each worker has a process,
the special values are none of the others, the keys of leases, claims and
records have different prefixes), `ServiceManagerAssumption` (what
others start is of a known kind, no PID is the absent one, neither runit nor the
outside nor init is an operator), `StartupAssumption` (no PID is the absent one, init
is no launcher, the bounds are natural numbers), `IntegrationsAssumption` (a pull request is a
repository and a number, every item has a default correlation and every pull
request an owner, the absent value is none of them) and `AuditLogAssumption` (the
retention is at least 1). The last four theorems of `SharedState` assume `Plenty` as
well: finitely many workers and processes, and tokens and lease owners that do
not run out, as `uuid4` and process ids with thread ids do not. TLC's instance
has six values, which is enough for its bounds; no finite set is without bounds.
The invariants were checked by TLC before, on the instances of the runs;
that of the services in all eight deployments.

Only model-checked: the two liveness properties, `CallsReturn` and `CallsEnd`,
which are out of the prover's reach. Every other property of a passing run is
stated by a theorem.

## 5. Known divergences

Met while modelling. The first two are the violation runs above; the others are
stated here with the line of the code and of the document, and the properties
are worded so that they hold of the code as it is.

| The code | says otherwise |
|---|---|
| cancel raises when the execution ends between its check and its transition, `execution_store.py:344-346` | cancel is idempotent, `docs/JOB_LIFECYCLE.md:33` |
| complete and fail write an outcome into an execution that has ended, `execution_store.py:357` | terminal executions stay, `tests/test_job_lifecycle.py:37` |
| recover_stale reports a stale queued execution as failed and leaves it queued, `lifecycle_ext.py:195` | `docs/JOB_LIFECYCLE.md:25` |
| of two transitions the older snapshot may be written last, `lifecycle_ext.py:144` | the module's promise, `lifecycle_ext.py:17` |
| a late event makes an ended execution look alive, `agent_runtime.py:280` | `docs/AGENT_HUB_RUNTIME_INTEGRATION.md:112` |
| polled events are logged in the order of the answer and sorted afterwards, `http_adapter.py:231` | `docs/AGENT_HUB_HTTP_TRANSPORT.md:95` |
| a stop kills any program under the service's interpreter that the PID file names, `service_manager.py:1024` | `docs/YASIN_SERVICE_PORTS.md:98` |
| a stop signals the whole process group of a PID, the hub's own if it is in it, `service_manager.py:436-440, 454-458` | it never kills the calling hub, `service_manager.py:418` |
| where owners cannot be seen, every program `pgrep` finds with the marker is stopped, whatever port it has, `startup.py:331-333, 376` | pgrep is never a basis for a kill, `startup.py:82` |
| a claim whose file cannot be read counts as free, `shared_state.py:166` | `docs/YASIN_INTERFACE.md:60` |

Behaviour no document excludes, which bounds what the properties can say:

- Two concurrent starts of a service both spawn; `SingleInstance` and `OneHub`
  are about calls that do not overlap.
- A child is left running when `save_pid` raises (`service_manager.py:537, 928`)
  and when its PID equals that of an old hub (`startup.py:746-750`).
- A stop that finds a dead PID in the PID file reports success although another
  instance may run (`service_manager.py:1028-1040`); a service without a port is
  reported running on any live PID (`service_manager.py:489-492`).
- A retry or re-run through the Control API does not ask whether the execution
  retried, or another of its item and correlation, is still under way, and so
  makes a second live one (`control_api.py:305-340`).
- The group of a signalled PID may hold programs that are not the service, and the
  SIGKILL follows up to three seconds after the SIGTERM without a new look at who
  has the PID (`service_manager.py:436-458`). A stop with several PIDs looks at all
  of them before the first signal, and signals the later ones after the waits for
  the earlier (`service_lifecycle.py:679-712`).
- When reading the audit file breaks off, the rows read until then become the cache
  (`audit_store.py:123-140`), and the next rewrite takes them for the whole file. With
  a retention of three, records 1, 2, 3 in the file, a restart, and an append of 4
  whose read breaks off after 2, the append of 5 leaves 2, 4, 5.
- Where owners of a port cannot be seen, the health endpoint of whoever listens
  confirms a start; a PID file that names a live foreign program, or any listener
  that `ss` lists and any client of the port that `lsof` lists, makes the launcher
  refuse although a healthy hub runs (`startup.py:226-253, 329-349`).
- The loser of a race of launchers removes whatever PID the file names by then
  (`startup.py:800`), and, when a PID is used again, may stop the winner's hub
  (`startup.py:790-795`).

## 6. Not modelled

- Fleets: `upsert_fleet`, `cancel_fleet` and their projections.
- Approvals (approve, reject), the evaluation of policies, roles and tokens: the
  verdict is a free choice of `Confirmation`.
- Parsing, answers and AI providers, the HTTP routing, the registry,
  configuration, reports and the dashboard: formatting and reading without
  shared control state.
- The memory audit store, whose rows live and die with the process; several
  processes that append to one audit file.
- The findings of reconciliation other than missing correlations: they depend on
  ages and on metadata nothing in `src` writes.
- Health counters, timestamps, redaction and other data the properties
  do not tell apart.

## 7. Plan

1. Fleets, in the store and through the adapters.
2. Two processes with one audit file; events of other statuses of Monday.
3. Proofs for what the first two items add.
