-------------------------- MODULE MCExecutionStore --------------------------
(* Instances of ExecutionStore for TLC.                                    *)
EXTENDS ExecutionStoreRefinement, TLC

CONSTANTS t1, t2, e1, e2, r1

\* What the agent runtime may report of a job: it is running, it is running
\* with its cancellation requested, it has succeeded.
Report(status, result, cancelling) ==
    [status |-> status, history |-> <<"queued", status>>, error |-> FALSE,
     result |-> result, cancel_requested |-> cancelling, origin |-> "project"]

MCProjections ==
    {Report("running", NoResult, FALSE), Report("running", NoResult, TRUE),
     Report("succeeded", r1, FALSE)}

NoProjections == {}

\* Only the report that makes complete() cancel under the lock.
LateCancel == {Report("running", NoResult, TRUE)}

\* A report of a running job, with and without a requested cancellation.
RunningReports == {Report("running", NoResult, FALSE)} \cup LateCancel

ThreadSymmetry == Permutations(Threads)

=============================================================================
