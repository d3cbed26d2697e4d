----------------------------- MODULE Lifecycle -----------------------------
(***************************************************************************)
(* The life of an execution: its states, the moves the store allows and    *)
(* the event that announces each move (observer/execution_store.py).       *)
(***************************************************************************)

Status == {"queued", "running", "paused", "succeeded", "failed", "cancelled"}

TerminalStatus == {"succeeded", "failed", "cancelled"}

Allowed ==
    [s \in Status |->
        CASE s = "queued"  -> {"running", "cancelled"}
          [] s = "running" -> {"paused", "succeeded", "failed", "cancelled"}
          [] s = "paused"  -> {"running", "cancelled", "failed"}
          [] OTHER         -> {}]

\* Mutant: events named after the status itself.
EventTypeAfterStatus(from, to) ==
    CASE to = "succeeded" -> "execution.succeeded"
      [] OTHER            -> "execution.started"

\* The type of the first event of a move; the second one is always
\* execution.state_changed.
EventType(from, to) ==
    CASE from = "paused" /\ to = "running" -> "execution.resumed"
      [] to = "running"                    -> "execution.started"
      [] to = "paused"                     -> "execution.paused"
      [] to = "succeeded"                  -> "execution.completed"
      [] to = "failed"                     -> "execution.failed"
      [] to = "cancelled"                  -> "execution.cancelled"
      [] OTHER                             -> "execution.state_changed"

EventTypes ==
    {"execution.created", "execution.started", "execution.resumed",
     "execution.paused", "execution.completed", "execution.failed",
     "execution.cancelled", "execution.state_changed"}

=============================================================================
