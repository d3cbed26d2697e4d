---------------------------- MODULE Integrations ----------------------------
(***************************************************************************)
(* monday.com and GitHub at the hub: a "Ready" webhook creates an execution *)
(* (integrations/monday/adapter.py, runtime_bridge.py), the correlation     *)
(* index says which execution an item, a pull request or a commit belongs   *)
(* to (execution/correlation.py), pull request and check webhooks move that *)
(* execution (integrations/github), and a sync pass writes the state of     *)
(* every execution to the board (integrations/monday/sync.py).              *)
(*                                                                         *)
(* The HTTP server handles one request at a time, so a handler is one       *)
(* action; only the agent's moves and the users of the board come between   *)
(* the writes of a sync pass.  Events arrive late, repeatedly and in any    *)
(* order.  A restart forgets all but the executions.                        *)
(***************************************************************************)
EXTENDS Integers, Sequences, FiniteSets, SequencesExt, Lifecycle

CONSTANTS
    Items,        \* items of the board
    Corrs,        \* correlation identifiers
    Default,      \* mon-<board>-<item>
    PRs,          \* pull requests: <<repository, number>>
    OwnerOf,      \* the correlation whose execution works on a pull request
    MaxExecs,     \* bound: executions ever created
    MaxMishaps,   \* bound: edits of the correlation column, and restarts
    MaxPasses,    \* bound: sync passes
    Nil

Repos == {p[1] : p \in PRs}
Numbers == {p[2] : p \in PRs}

ASSUME IntegrationsAssumption ==
    /\ \A p \in PRs : p = <<p[1], p[2]>>
    /\ Default \in [Items -> Corrs]
    /\ OwnerOf \in [PRs -> Corrs]
    /\ Nil \notin Items \cup Corrs \cup PRs \cup Repos \cup Numbers
    /\ MaxExecs \in Nat /\ MaxMishaps \in Nat
    /\ MaxPasses \in Nat

VARIABLES
    executions,  \* the store, in the order of creation
    hub,         \* what the process keeps in memory
    board,       \* label, execution and correlation columns of each item
    pass,        \* the sync pass under way
    edits, restarts, passes,  \* how many there have been
    born         \* history: how many executions are older than the process

bounds == <<edits, restarts, passes>>
vars == <<executions, hub, board, pass, bounds, born>>

-----------------------------------------------------------------------------
NoRecord == [exec |-> 0]
Keys == Repos \X Numbers

\* A commit is named after the pull request it is the head of.
EmptyIndex ==
    [rec |-> [c \in Corrs |-> NoRecord],
     byExec |-> [e \in 1..MaxExecs |-> Nil],
     byItem |-> [i \in Items |-> Nil],
     byPr |-> [k \in Keys |-> Nil],
     bySha |-> [p \in PRs |-> Nil]]

\* Events of MondayAdapter, _processed_corr, _item_to_execution.
EmptyHub ==
    [events |-> <<>>, processed |-> {}, itemExec |-> [i \in Items |-> 0],
     index |-> EmptyIndex]

NoPass == [stage |-> "idle", left |-> <<>>, label |-> Nil, clean |-> {}]

Label(s) ==
    CASE s = "queued" -> "Queued" [] s = "running" -> "Running"
      [] s = "paused" -> "Review" [] s = "succeeded" -> "Done"
      [] s = "failed" -> "Failed" [] s = "cancelled" -> "Cancelled"

Init ==
    /\ executions = <<>>
    /\ hub = EmptyHub
    /\ board = [i \in Items |-> [label |-> Nil, exec |-> 0, corr |-> Nil]]
    /\ pass = NoPass
    /\ edits = 0 /\ restarts = 0 /\ passes = 0 /\ born = 0

Live(e) == executions[e].status \notin TerminalStatus
Idle == pass.stage = "idle"

-----------------------------------------------------------------------------
(* The correlation index.                                                  *)

Claim(exec, corr) ==
    [exec |-> exec, corr |-> corr, item |-> Nil, repo |-> Nil, pr |-> Nil, sha |-> Nil]

Elsewhere(ix, c, claim) ==
    c \notin {Nil, claim.corr} /\ ix.rec[c].exec # claim.exec

\* Mutant: items are not looked at.
ConflictOfRecords(ix, claim) ==
    ix.rec[claim.corr] # NoRecord /\ ix.rec[claim.corr].exec # claim.exec

\* CorrelationConflict.
Conflict(ix, claim) ==
    \/ claim.item # Nil /\ Elsewhere(ix, ix.byItem[claim.item], claim)
    \/ /\ claim.pr # Nil /\ claim.repo # Nil
       /\ Elsewhere(ix, ix.byPr[<<claim.repo, claim.pr>>], claim)
    \/ ix.rec[claim.corr] # NoRecord /\ ix.rec[claim.corr].exec # claim.exec

Merged(old, claim) ==
    LET keep(f) == IF claim[f] # Nil \/ old = NoRecord THEN claim[f] ELSE old[f]
    IN [exec |-> claim.exec, item |-> keep("item"), repo |-> keep("repo"),
        pr |-> keep("pr"), sha |-> keep("sha")]

Record(ix, claim) ==
    LET c == claim.corr
        r == Merged(ix.rec[c], claim)
        known == r.pr # Nil /\ r.repo # Nil
    IN [rec |-> [ix.rec EXCEPT ![c] = r],
        byExec |-> [ix.byExec EXCEPT ![r.exec] = c],
        byItem |-> [i \in Items |-> IF i = r.item THEN c ELSE ix.byItem[i]],
        byPr |-> [k \in Keys |-> IF known /\ k = <<r.repo, r.pr>> THEN c ELSE ix.byPr[k]],
        bySha |-> [p \in PRs |-> IF p = r.sha THEN c ELSE ix.bySha[p]]]

\* Mutant: the execution is noted before the conflicts are looked for.
NotedFirst(ix, claim) ==
    IF Conflict(ix, claim)
    THEN [ix EXCEPT !.byExec[claim.exec] = claim.corr]
    ELSE Record(ix, claim)

\* register; every caller swallows the conflict.
Registered(ix, claim) ==
    IF Conflict(ix, claim) THEN ix ELSE Record(ix, claim)

\* What an event may belong to: by its hint, its number and its commit.
Candidates(ix, event) ==
    <<event.hint,
      IF event.pr # Nil THEN ix.byPr[<<event.repo, event.pr>>] ELSE Nil,
      ix.bySha[event.sha]>>

Found(ix, event) ==
    LET c == Candidates(ix, event)
    IN {n \in 1..3 : c[n] # Nil /\ ix.rec[c[n]] # NoRecord}

First(S) == CHOOSE n \in S : \A m \in S : n <= m

\* Mutant: the first match wins.
FirstMatch(ix, event) ==
    IF Found(ix, event) = {} THEN Nil
    ELSE Candidates(ix, event)[First(Found(ix, event))]

\* resolve_github_event
Resolve(ix, event) ==
    LET c == Candidates(ix, event)
        execs == {ix.rec[c[n]].exec : n \in Found(ix, event)}
    IN IF Cardinality(execs) = 1 THEN c[First(Found(ix, event))] ELSE Nil

\* list_orphans, and MISSING_CORRELATION of _reconcile_body.
Orphans == {e \in DOMAIN executions : hub.index.byExec[e] = Nil}

-----------------------------------------------------------------------------
(* monday.com.                                                             *)

Created(x, corr, item) ==
    LET e == Len(x.executions) + 1
    IN [executions |-> Append(x.executions,
                              [status |-> "queued", item |-> item, corr |-> corr,
                               again |-> FALSE]),
        hub |-> [x.hub EXCEPT
                   !.processed = @ \cup {corr},
                   !.itemExec[item] = e,
                   !.index = Registered(@, [Claim(e, corr) EXCEPT !.item = item])]]

\* Mutant: duplicates are not looked for.
ProcessAlways(x, event) ==
    IF Len(x.executions) = MaxExecs THEN x ELSE Created(x, event.corr, event.item)

\* MondayRuntimeBridge.process_event
Process(x, event) ==
    IF event.corr \in x.hub.processed \/ Len(x.executions) = MaxExecs
    THEN x ELSE Created(x, event.corr, event.item)

Store == [executions |-> executions, hub |-> hub]
Becomes(x) == executions' = x.executions /\ hub' = x.hub

CorrelationId(i) == IF board[i].corr # Nil THEN board[i].corr ELSE Default[i]

\* normalize_monday_payload: what is kept of a webhook with status Ready.
Normalized(i) == [corr |-> CorrelationId(i), item |-> i]

\* ingest_normalized_event
Ingest(x, event) ==
    IF Contains(x.hub.events, event) THEN x
    ELSE Process([x EXCEPT !.hub.events = Append(@, event)], event)

\* A user sets the status to Ready, or an earlier webhook comes (again).  What
\* users write to the status column is never read back.
ReadyWebhook(i) ==
    /\ Idle
    /\ Len(executions) < MaxExecs
    /\ Becomes(Ingest(Store, Normalized(i)))
    /\ UNCHANGED <<board, pass, bounds, born>>

\* _lookup_existing; 0 for none.
Existing(i) ==
    LET c == hub.index.byItem[i]
    IN IF hub.itemExec[i] # 0 THEN hub.itemExec[i]
       ELSE IF c # Nil THEN hub.index.rec[c].exec ELSE 0

\* The adapter cancels an execution that is under way, or fails to.
CancelForItem(i) ==
    /\ Idle
    /\ Existing(i) # 0 /\ Live(Existing(i))
    /\ executions' = [executions EXCEPT ![Existing(i)].status = "cancelled"]
    /\ UNCHANGED <<hub, board, pass, bounds, born>>

RetryForItem(i) ==
    /\ Idle
    /\ Existing(i) # 0 => ~Live(Existing(i))
    /\ Len(executions) < MaxExecs
    /\ \E n \in DOMAIN hub.events :
          LET last == hub.events[n] IN
          /\ last.item = i
          /\ \A m \in DOMAIN hub.events : hub.events[m].item = i => m <= n
          /\ Becomes(Process([Store EXCEPT !.hub.processed = @ \ {last.corr}], last))
    /\ UNCHANGED <<board, pass, bounds, born>>

\* The state after the first events have been processed again.
Drained ==
    LET drained[n \in 0..Len(hub.events)] ==
            IF n = 0 THEN Store ELSE Process(drained[n - 1], hub.events[n])
    IN  drained

\* drain_pending
DrainPending ==
    /\ Idle
    /\ Becomes(Drained[Len(hub.events)])
    /\ UNCHANGED <<board, pass, bounds, born>>

-----------------------------------------------------------------------------
(* The Control API.                                                        *)

\* Its retry and re-run, over HTTP, from Slack or in words, ask nothing of the
\* execution retried, nor of the bridge.  The new one has the metadata of the
\* old one and is registered under its correlation, or the request's.
ControlRetry(e) ==
    /\ Idle
    /\ Len(executions) < MaxExecs
    /\ executions' = Append(executions, [executions[e] EXCEPT !.status = "queued",
                                                             !.again = TRUE])
    /\ \E corr \in Corrs :
          hub' = [hub EXCEPT !.index =
                    Registered(@, [Claim(Len(executions) + 1, corr)
                                     EXCEPT !.item = executions[e].item])]
    /\ UNCHANGED <<board, pass, bounds, born>>

-----------------------------------------------------------------------------
(* GitHub.                                                                 *)

\* What apply_to_executions makes of a status.
After(event, status) ==
    CASE event.kind = "merged" -> "succeeded"
      [] event.kind = "failure" /\ status = "running" -> "failed"
      [] event.kind \in {"open", "in_progress"} /\ status = "queued" -> "running"
      [] OTHER -> status

Enriched(c, event) ==
    LET r == hub.index.rec[c]
        or(value, otherwise) == IF value # Nil THEN value ELSE otherwise
    IN [Claim(r.exec, c) EXCEPT !.repo = event.repo, !.pr = or(event.pr, r.pr),
                                !.sha = event.sha]

\* handle_github_webhook: a move the store refuses is swallowed.
Apply(event) ==
    /\ Idle
    /\ LET c == Resolve(hub.index, event)
           e == hub.index.rec[c].exec
           next == After(event, executions[e].status)
       IN /\ c # Nil
          /\ executions' = IF next \in Allowed[executions[e].status]
                           THEN [executions EXCEPT ![e].status = next]
                           ELSE executions
          /\ hub' = [hub EXCEPT !.index = Registered(@, Enriched(c, event))]
    /\ UNCHANGED <<board, pass, bounds, born>>

Event(kind, repo, pr, sha, hint) ==
    [kind |-> kind, repo |-> repo, pr |-> pr, sha |-> sha, hint |-> hint]

\* The text or the branch of a pull request names its correlation or none;
\* that of a known one may come to name any other.
PullRequestEvents(p) ==
    {Event(kind, p[1], p[2], p, hint) :
        kind \in {"open", "closed", "merged"},
        hint \in IF hub.index.byPr[p] = Nil THEN {OwnerOf[p], Nil} ELSE Corrs \cup {Nil}}

CheckEvents(p) ==
    {Event(kind, p[1], Nil, p, Nil) : kind \in {"in_progress", "success", "failure"}}

GitHubWebhook(p) == \E event \in PullRequestEvents(p) \cup CheckEvents(p) : Apply(event)

-----------------------------------------------------------------------------
(* The sync pass.                                                          *)

\* Mutant: the newest execution first.
NewestFirst == [n \in DOMAIN executions |-> Len(executions) + 1 - n]

\* list_executions: by created_at.
Listed == [n \in DOMAIN executions |-> n]

SyncBegin ==
    /\ Idle
    /\ passes < MaxPasses /\ passes' = passes + 1
    /\ pass' = [stage |-> "next", left |-> Listed, label |-> Nil, clean |-> Items]
    /\ UNCHANGED <<executions, hub, board, edits, restarts, born>>

\* get_execution
SyncRead ==
    /\ pass.stage = "next" /\ pass.left # <<>>
    /\ pass' = [pass EXCEPT !.stage = "push",
                            !.label = Label(executions[pass.left[1]].status)]
    /\ UNCHANGED <<executions, hub, board, bounds, born>>

\* The columns are written one after the other; a failure ends the push.
SyncWrite ==
    LET e == pass.left[1]
        i == executions[e].item
    IN /\ pass.stage = "push"
       /\ \E written \in 0..3 :
             /\ board' = [board EXCEPT
                   ![i].label = IF written >= 1 THEN pass.label ELSE @,
                   ![i].exec = IF written >= 2 THEN e ELSE @,
                   ![i].corr = IF written = 3 THEN executions[e].corr ELSE @]
             /\ pass' = [stage |-> "next", left |-> Tail(pass.left), label |-> Nil,
                         clean |-> IF written = 3 THEN pass.clean ELSE pass.clean \ {i}]
       /\ UNCHANGED <<executions, hub, bounds, born>>

SyncEnd ==
    /\ pass.stage = "next" /\ pass.left = <<>>
    /\ pass' = NoPass
    /\ UNCHANGED <<executions, hub, board, bounds, born>>

-----------------------------------------------------------------------------
(* The agent, the users and the operator.                                  *)

AgentMoves(e) ==
    /\ \E s \in Allowed[executions[e].status] :
          executions' = [executions EXCEPT ![e].status = s]
    /\ pass' = [pass EXCEPT !.clean = @ \ {executions[e].item}]
    /\ UNCHANGED <<hub, board, bounds, born>>

\* A user writes the correlation of an item, or copies that of another one.
EditColumn(i) ==
    /\ edits + restarts < MaxMishaps /\ edits' = edits + 1
    /\ \E c \in Corrs \ {CorrelationId(i)} : board' = [board EXCEPT ![i].corr = c]
    /\ pass' = [pass EXCEPT !.clean = @ \ {i}]
    /\ UNCHANGED <<executions, hub, restarts, passes, born>>

Restart ==
    /\ edits + restarts < MaxMishaps /\ restarts' = restarts + 1
    /\ hub' = EmptyHub
    /\ pass' = NoPass
    /\ born' = Len(executions)
    /\ UNCHANGED <<executions, board, edits, passes>>

Next ==
    \/ \E i \in Items :
          ReadyWebhook(i) \/ CancelForItem(i) \/ RetryForItem(i) \/ EditColumn(i)
    \/ DrainPending
    \/ \E p \in PRs : GitHubWebhook(p)
    \/ SyncBegin \/ SyncRead \/ SyncWrite \/ SyncEnd
    \/ \E e \in DOMAIN executions : AgentMoves(e) \/ ControlRetry(e)
    \/ Restart

Spec == Init /\ [][Next]_vars

-----------------------------------------------------------------------------
(* Properties.                                                             *)

\* Whatever order the webhooks come in, and however ambiguous they are, an
\* event of a pull request or of its checks moves no execution but the one that
\* is registered for its correlation.
RightExecution ==
    [][\A e \in DOMAIN executions :
          executions'[e].status # executions[e].status
            => \A p \in PRs :
                  hub.index.byExec[e] # OwnerOf[p] => ~GitHubWebhook(p)]_vars

\* Until the next restart, an item, a pull request and a correlation stay with
\* the execution they were first bound to: a second execution for the same
\* item (a retry, an edited column) never takes them over.
BindingStable ==
    [][restarts' = restarts =>
         /\ \A i \in Items :
               hub.index.byItem[i] # Nil => hub'.index.byItem[i] = hub.index.byItem[i]
         /\ \A k \in Keys :
               hub.index.byPr[k] # Nil => hub'.index.byPr[k] = hub.index.byPr[k]
         /\ \A c \in Corrs :
               hub.index.rec[c] # NoRecord
                 => hub'.index.rec[c].exec = hub.index.rec[c].exec]_vars

\* However often Ready is delivered, retried or drained by the bridge, no item
\* has two executions under way for one correlation that webhooks started since
\* the last restart.  Those the Control API makes of an old one are not counted:
\* its retry does not ask whether the old one, or another, is under way.
OneLive ==
    \A d, e \in (born + 1)..Len(executions) :
       (/\ d # e /\ Live(d) /\ Live(e)
        /\ ~executions[d].again /\ ~executions[e].again)
          => executions[d].item # executions[e].item
               \/ executions[d].corr # executions[e].corr

\* After a pass in which no write of an item failed, no user touched it and no
\* execution of it moved, the board shows the item's newest execution.
BoardShowsLatest ==
    pass.stage = "next" /\ pass.left = <<>> =>
       \A i \in pass.clean :
          LET mine == {e \in DOMAIN executions : executions[e].item = i}
          IN mine # {} =>
               LET e == CHOOSE e \in mine : \A d \in mine : d <= e
               IN board[i] = [label |-> Label(executions[e].status), exec |-> e,
                              corr |-> executions[e].corr]

\* An execution that GitHub's events cannot reach, because its correlation is
\* bound to another one or was forgotten, is among the orphans the hub reports.
UnreachableReported ==
    \A e \in DOMAIN executions :
       (\E c \in Corrs : hub.index.rec[c].exec = e) \/ e \in Orphans

=============================================================================
