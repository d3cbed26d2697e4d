------------------------ MODULE ExecutionLifecycle ------------------------
(***************************************************************************)
(* What the execution store promises about one job: the life of an         *)
(* execution (queued, running, paused and three final states) and the      *)
(* announcements every move of that life is owed.  There are no threads,   *)
(* locks or files here: a move is one step, and each announcement follows  *)
(* in its own step.  ExecutionStore is shown to implement this module.     *)
(***************************************************************************)
EXTENDS Lifecycle, Naturals

CONSTANTS
    Ids          \* execution ids

VARIABLES
    life,        \* life[e]: the status of e, or "absent"
    moves,       \* moves[e]: how many snapshots of e this process has stored
    owed,        \* announcements <<id, move, type>> still to be made
    announced    \* announcements made

lifeVars == <<life, moves, owed, announced>>

LifeInit ==
    /\ life = [e \in Ids |-> "absent"]
    /\ moves = [e \in Ids |-> 0]
    /\ owed = {}
    /\ announced = {}

\* A new job is queued; its creation will be announced.
Born(e) ==
    /\ life[e] = "absent"
    /\ life' = [life EXCEPT ![e] = "queued"]
    /\ moves' = [moves EXCEPT ![e] = @ + 1]
    /\ owed' = owed \cup {<<e, moves[e] + 1, "execution.created">>}
    /\ UNCHANGED announced

\* The job moves along the lifecycle and owes two announcements.
Move(e) ==
    \E to \in Status :
        /\ life[e] \in Status
        /\ to \in Allowed[life[e]]
        /\ life' = [life EXCEPT ![e] = to]
        /\ moves' = [moves EXCEPT ![e] = @ + 1]
        /\ owed' = owed \cup
               {<<e, moves[e] + 1, EventType(life[e], to)>>,
                <<e, moves[e] + 1, "execution.state_changed">>}
        /\ UNCHANGED announced

\* The agent runtime reports the job's state; the hub adopts it as it is and
\* announces nothing.
Adopt(e) ==
    /\ \E s \in Status : life' = [life EXCEPT ![e] = s]
    /\ moves' = [moves EXCEPT ![e] = @ + 1]
    /\ UNCHANGED <<owed, announced>>

\* An announcement is made once, and state_changed only after the event that
\* names the move.
Announce ==
    \E a \in owed :
        /\ a[3] = "execution.state_changed" =>
               \A b \in owed : b[1] = a[1] /\ b[2] = a[2] => b = a
        /\ a \notin announced
        /\ owed' = owed \ {a}
        /\ announced' = announced \cup {a}
        /\ UNCHANGED <<life, moves>>

\* A restart keeps what was saved of each job and forgets the announcements.
Reborn ==
    /\ \E l \in [Ids -> Status \cup {"absent"}] : life' = l
    /\ \E m \in [Ids -> {0, 1}] : moves' = m
    /\ owed' = {}
    /\ announced' = {}

LifeNext ==
    \/ \E e \in Ids : Born(e) \/ Move(e) \/ Adopt(e)
    \/ Announce
    \/ Reborn

LifeSpec == LifeInit /\ [][LifeNext]_lifeVars

=============================================================================
