--------------------------- MODULE Startup_proofs ---------------------------
(***************************************************************************)
(* For any launchers, PIDs and bounds: the launchers of Startup signal     *)
(* only what carries the hub's marker, and keep their promises to a        *)
(* machine on which they do not overlap, to a run that nothing disturbs,   *)
(* and to each other in a race.                                            *)
(***************************************************************************)
EXTENDS Startup, FiniteSetTheorems, TLAPS

PidOrNone == Pids \cup {NoPid}

\* The hubs that have not been told to end.
Live == Hubs \ termed

\* A signal is on its way only to a program with the marker, and only one that
\* runs listens.
Sound ==
    /\ owners \in BOOLEAN
    /\ proc \in [Pids -> Kinds]
    /\ parent \in [Pids -> Launchers \cup {"init"}]
    /\ termed \subseteq Found
    /\ port \in PidOrNone
    /\ port # NoPid => proc[port] \in Binders

\* Children have a launcher that runs, and so has what is left of them.
Kin == \A p \in Pids :
    /\ parent[p] \in Launchers => pc[parent[p]] # "idle"
    /\ proc[p] = "zombie" => parent[p] \in Launchers

\* What is held where owners can be seen was a hub, and is one if it lives.
Genuine(j) ==
    owners /\ distinct =>
        \A p \in Pids \cap (j.pids \cup {j.pid}) : proc[p] # "lookalike"

Ties == Kin /\ \A l \in Launchers : Genuine(job[l])

Locals ==
    /\ pidFile \in PidOrNone
    /\ pc \in [Launchers -> Stages]
    /\ job \in [Launchers -> Job]
    /\ answer \in [Launchers -> {"none", "ok", "refused"}]
    /\ ForeignUntouched
    /\ distinct \in BOOLEAN
    /\ clean \in BOOLEAN /\ calm \in BOOLEAN /\ tidy \in BOOLEAN
    /\ runs \in 0..MaxRuns
    /\ outside \in 0..MaxOutside

-----------------------------------------------------------------------------
(* Launchers that run one after the other.                                 *)

Alone == \A k, m \in Launchers : pc[k] # "idle" /\ pc[m] # "idle" => k = m

Verifying == {"record", "ident", "own", "health"}

\* Until the old hub is stopped a hub that lives has the port; then none lives
\* but the launcher's child, until that is stopped too.  Where owners cannot be
\* seen, nobody but the child has taken the port meanwhile.
TidyAt(stage, j) ==
    /\ stage \in {"idle", "owners", "occupied", "classify", "anchor", "stop",
                  "gone", "release", "health"}
          => Live \subseteq {port}
    /\ stage \in {"forget", "start"} => Live = {} /\ (~owners => port = NoPid)
    /\ stage \in Verifying
          => Live \subseteq {j.pid} /\ (~owners => port \in {NoPid, j.pid})
    /\ stage = "giveup" => Live \subseteq {j.pid}
    /\ stage = "erase" => Live = {}

TidyInv == tidy =>
    /\ Alone
    /\ AtRest => Live \subseteq {port}
    /\ \A l \in Launchers : pc[l] # "idle" => TidyAt(pc[l], job[l])

-----------------------------------------------------------------------------
(* A run that is alone and that nothing disturbs.                          *)

\* What the launcher has seen stays true, but for a program that takes the port;
\* its child is the hub and its own, or the port is such a program's.
CleanAt(l, stage, j) ==
    /\ stage \in {"owners", "occupied", "classify", "anchor", "stop", "gone", "release"}
          => Hubs \subseteq {port}
    /\ stage \in Stages \ {"idle", "gone", "giveup", "erase"} => termed = {}
    /\ stage \in {"occupied", "classify"} /\ owners =>
          \/ j.pids = {} /\ Hubs = {} /\ (stage = "classify" => port # NoPid)
          \/ j.pids = {port} /\ port # NoPid
    /\ stage = "occupied" /\ ~owners => j.pids = {}
    /\ stage = "classify" /\ ~owners => port # NoPid
    /\ stage \in {"anchor", "stop", "gone", "release"} => Hubs \subseteq j.old
    /\ stage = "gone" => termed \subseteq {j.pid}
    /\ stage \in {"forget", "start", "giveup", "erase"} => Hubs = {}
    /\ stage \in {"forget", "start"} /\ ~owners => port = NoPid
    /\ stage \in Verifying =>
          /\ Hubs \subseteq {j.pid}
          /\ j.pid \in Hubs => parent[j.pid] = l
          /\ j.pid \notin Hubs => port \notin {NoPid, j.pid}
          /\ ~owners => port \in Hubs \cup {NoPid}
    /\ stage \in {"ident", "own", "health"} => pidFile = j.pid
    /\ stage = "health" => port = j.pid /\ port \in Hubs
    /\ stage \in {"giveup", "erase"} => port # NoPid

\* Why a run that nothing disturbs may refuse.
Taken == port # NoPid /\ port \notin Hubs
Suspects ==
    /\ ~owners
    /\ \/ pidFile \in Pids /\ proc[pidFile] = "foreign"
       \/ \E p \in Pids : proc[p] = "server"

Unanswered == \A k \in Launchers : answer[k] = "none"

CleanInv == clean =>
    /\ Alone
    /\ \A l \in Launchers : pc[l] # "idle" => Unanswered /\ CleanAt(l, pc[l], job[l])
    /\ tidy /\ (\E l \in Launchers : answer[l] = "ok") =>
          port \in Live /\ (owners => port = pidFile)
    /\ (\E l \in Launchers : answer[l] = "refused") => Taken \/ Suspects

-----------------------------------------------------------------------------
(* Launchers that race.                                                    *)

\* A launcher that has begun to stop a hub will have started one, unless it
\* faults; and then its child is alive.
OwesAt(stage, j) ==
    \/ stage \in {"stop", "gone", "release", "forget", "start"}
    \/ stage \in Verifying /\ j.pid \in Live

\* Who has told a hub to end waits for it.
TermsWatched ==
    \A p \in termed \cap Hubs :
        \E k \in Launchers : pc[k] = "gone" /\ job[k].pid = p

\* Against a program that has the port launchers only refuse, but for stopping
\* lookalikes where the owner cannot be seen.
Harmless == {"idle", "owners", "occupied", "classify"}
Doomed == {"anchor", "stop", "gone", "release"}
Fits(stage, j) ==
    /\ stage \in Harmless \/ (~owners /\ stage \in Doomed)
    /\ owners => j.pids \subseteq {port}
ForeignHolds == Taken =>
    /\ Hubs = {}
    /\ \A k \in Launchers : Fits(pc[k], job[k]) /\ answer[k] # "ok"

\* A child that is a hub is its launcher's; who gives up has none.
ChildAt(l, stage, j) ==
    /\ stage \in Verifying /\ j.pid \in Hubs => parent[j.pid] = l
    /\ stage \in {"giveup", "erase"} => j.pid \notin Hubs

Claimed == port \in Live \/ \E k \in Launchers : OwesAt(pc[k], job[k])

CalmInv == calm =>
    /\ TermsWatched
    /\ ForeignHolds
    /\ \A k \in Launchers : ChildAt(k, pc[k], job[k])
    /\ (\E l \in Launchers : answer[l] = "ok") => Claimed

Inv == Sound /\ Ties /\ Locals /\ TidyInv /\ CleanInv /\ CalmInv

-----------------------------------------------------------------------------
(* Lemmas on processes.                                                    *)

\* A process that ends leaves the port and the signals.
LEMMA Death ==
    ASSUME Sound, NEW p \in Pids, Dies(p)
    PROVE  /\ Sound' /\ Hubs' = Hubs \ {p} /\ Live' = Live \ {p}
           /\ termed' = termed \ {p} /\ owners' = owners
           /\ parent' = parent
           /\ port' = IF port = p THEN NoPid ELSE port
           /\ proc'[p] \in {"none", "zombie"} /\ \A q \in Pids \ {p} : proc'[q] = proc[q]
           /\ proc'[p] = "zombie" => parent[p] \in Launchers
  <1>1. proc' \in [Pids -> Kinds] /\ proc'[p] \in {"none", "zombie"}
        /\ \A q \in Pids \ {p} : proc'[q] = proc[q]
    BY DEF Sound, Dies, Kinds
  <1>2. Hubs' = Hubs \ {p} /\ Found' = Found \ {p}
    BY <1>1 DEF Hubs, Found, Marked
  <1>3. termed' = termed \ {p} /\ owners' = owners /\ parent' = parent
        /\ port' = IF port = p THEN NoPid ELSE port
    BY DEF Dies
  <1>4. Live' = Live \ {p}
    BY <1>2, <1>3 DEF Live
  <1>5. /\ port' \in PidOrNone
        /\ port' # NoPid => proc'[port'] \in Binders
    <2>1. CASE port = p
      BY <1>3, <2>1 DEF PidOrNone
    <2>2. CASE port # p
      <3>1. port' = port
        BY <1>3, <2>2
      <3> QED
        BY <1>1, <2>2, <3>1 DEF Sound, PidOrNone
    <2> QED
      BY <2>1, <2>2
  <1>6. termed' \subseteq Found'
    BY <1>2, <1>3 DEF Sound
  <1>7. Sound'
    BY <1>1, <1>3, <1>5, <1>6 DEF Sound
  <1>8. proc'[p] = "zombie" => parent[p] \in Launchers
    BY DEF Sound, Dies
  <1> QED
    BY <1>1, <1>2, <1>3, <1>4, <1>7, <1>8

LEMMA Birth ==
    ASSUME Sound, NEW p \in Pids, NEW kind \in {"hub"} \cup Others,
           NEW by \in Launchers \cup {"init"}, Starts(p, kind, by),
           UNCHANGED <<owners, termed, port>>
    PROVE  /\ Sound' /\ p \notin Hubs /\ p # port
           /\ Hubs' = IF kind = "hub" THEN Hubs \cup {p} ELSE Hubs
           /\ Live' = IF kind = "hub" THEN Live \cup {p} ELSE Live
           /\ parent'[p] = by /\ \A q \in Pids \ {p} : parent'[q] = parent[q]
           /\ proc'[p] = kind /\ proc[p] = "none"
           /\ \A q \in Pids \ {p} : proc'[q] = proc[q]
  <1>1. proc' \in [Pids -> Kinds] /\ proc'[p] = kind /\ proc[p] = "none"
        /\ \A q \in Pids \ {p} : proc'[q] = proc[q]
    BY DEF Sound, Starts, Kinds, Others
  <1>2. /\ Hubs' = IF kind = "hub" THEN Hubs \cup {p} ELSE Hubs
        /\ Found \subseteq Found'
    BY <1>1 DEF Hubs, Found, Marked
  <1>3. p \notin Hubs /\ p # port
    BY <1>1, StartupAssumption DEF Hubs, Sound, Binders
  <1>4. p \notin termed /\ termed' = termed
    BY <1>1 DEF Sound, Found, Marked
  <1>5. Live' = IF kind = "hub" THEN Live \cup {p} ELSE Live
    BY <1>2, <1>4 DEF Live
  <1>6. parent' \in [Pids -> Launchers \cup {"init"}] /\ parent'[p] = by
        /\ \A q \in Pids \ {p} : parent'[q] = parent[q]
    BY DEF Sound, Starts
  <1>7. Sound'
    <2>1. termed' \subseteq Found'
      BY <1>2, <1>4 DEF Sound
    <2>2. port' # NoPid => proc'[port'] \in Binders
      BY <1>1, <1>3 DEF Sound, PidOrNone
    <2> QED
      BY <1>1, <1>6, <2>1, <2>2 DEF Sound
  <1> QED
    BY <1>1, <1>2, <1>3, <1>5, <1>6, <1>7

LEMMA Departure ==
    ASSUME Sound, NEW l \in Launchers, Leaves(l)
    PROVE  /\ Sound' /\ Hubs' = Hubs /\ Live' = Live
           /\ UNCHANGED <<owners, termed, port>>
           /\ \A q \in Pids : parent[q] # l => parent'[q] = parent[q]
           /\ \A q \in Pids : parent[q] = l => parent'[q] = "init" /\ proc'[q] # "zombie"
           /\ \A q \in Pids : \/ proc'[q] = proc[q]
                              \/ proc[q] = "zombie" /\ proc'[q] = "none"
  <1>1. proc' \in [Pids -> Kinds]
        /\ \A q \in Pids : \/ proc'[q] = proc[q]
                           \/ proc[q] = "zombie" /\ proc'[q] = "none"
    BY DEF Sound, Leaves, Kinds
  <1>2. /\ parent' \in [Pids -> Launchers \cup {"init"}]
        /\ \A q \in Pids : parent[q] # l => parent'[q] = parent[q]
        /\ \A q \in Pids : parent[q] = l => parent'[q] = "init" /\ proc'[q] # "zombie"
    BY DEF Sound, Leaves
  <1>3. Hubs' = Hubs /\ Found' = Found
    BY <1>1 DEF Hubs, Found, Marked
  <1>4. UNCHANGED <<owners, termed, port>>
    BY DEF Leaves
  <1>5. Live' = Live
    BY <1>3, <1>4 DEF Live
  <1>6. Sound'
    <2>1. port' # NoPid => proc'[port'] \in Binders
      BY <1>1, <1>4 DEF Sound, PidOrNone, Binders
    <2> QED
      BY <1>1, <1>2, <1>3, <1>4, <2>1 DEF Sound
  <1> QED
    BY <1>1, <1>2, <1>3, <1>4, <1>5, <1>6

LEMMA Still ==
    ASSUME Sound, UNCHANGED system
    PROVE  Sound' /\ Hubs' = Hubs /\ Live' = Live
           /\ UNCHANGED <<owners, proc, parent, termed, port>>
  BY DEF Sound, Hubs, Live, Found, system

\* A hub, or a lookalike, is told to end.
LEMMA Told ==
    ASSUME Sound, NEW p \in Found, termed' = termed \cup {p},
           UNCHANGED <<owners, proc, parent, port>>
    PROVE  Sound' /\ Hubs' = Hubs /\ Live' = Live \ {p}
  BY DEF Sound, Hubs, Live, Found

\* What a launcher takes for a hub carries the marker.
LEMMA HubSeen ==
    ASSUME NEW l, NEW p \in Pids
    PROVE  IsHub(l, p) <=> p \in Found /\ p # NoPid
  BY DEF IsHub, Alive, Found, Marked

LEMMA FoundHubs ==
    /\ Hubs \subseteq Found /\ Found \subseteq Pids /\ NoPid \notin Found
    /\ \A p \in Found : p \in Hubs \/ proc[p] = "lookalike"
  BY StartupAssumption DEF Hubs, Found, Marked

\* Who has the port is no lookalike.
LEMMA PortIsHub ==
    ASSUME Sound
    PROVE  port \in Found => port \in Hubs
  BY StartupAssumption DEF Sound, Found, Marked, Binders, Hubs, PidOrNone

\* Processes keep their launchers while these go on.
LEMMA KinAhead ==
    ASSUME Ties, NEW l \in Launchers, pc' \in [Launchers -> Stages], pc'[l] # "idle",
           \A k \in Launchers \ {l} : pc'[k] = pc[k], UNCHANGED <<proc, parent>>
    PROVE  Kin'
  BY DEF Ties, Kin

\* The launcher that ends has no children left.
LEMMA KinLeft ==
    ASSUME Ties, Sound, NEW l \in Launchers, \A k \in Launchers \ {l} : pc'[k] = pc[k],
           \A q \in Pids : parent[q] # l => parent'[q] = parent[q],
           \A q \in Pids : parent[q] = l => parent'[q] = "init" /\ proc'[q] # "zombie",
           \A q \in Pids : proc'[q] = proc[q] \/ (proc[q] = "zombie" /\ proc'[q] = "none")
    PROVE  Kin'
  <1> SUFFICES ASSUME NEW p \in Pids
               PROVE  /\ parent'[p] \in Launchers => pc'[parent'[p]] # "idle"
                      /\ proc'[p] = "zombie" => parent'[p] \in Launchers
    BY DEF Kin
  <1>1. CASE parent[p] = l
    BY <1>1, StartupAssumption
  <1>2. CASE parent[p] # l
    BY <1>2 DEF Ties, Kin
  <1> QED
    BY <1>1, <1>2

\* What a launcher holds stays genuine if it takes on nothing new.
LEMMA GenuineAhead ==
    ASSUME Ties, NEW l \in Launchers, NEW j, job'[l] = j, Genuine(j)',
           \A k \in Launchers \ {l} : job'[k] = job[k],
           UNCHANGED <<owners, distinct>>,
           \A p \in Pids : proc'[p] = "lookalike" => proc[p] = "lookalike"
    PROVE  \A k \in Launchers : Genuine(job[k])'
  <1> SUFFICES ASSUME NEW k \in Launchers PROVE Genuine(job[k])'
    OBVIOUS
  <1>1. CASE k = l
    BY <1>1 DEF Genuine
  <1>2. CASE k # l
    <2>1. Genuine(job[k])
      BY DEF Ties
    <2> QED
      BY <1>2, <2>1 DEF Genuine
  <1> QED
    BY <1>1, <1>2

-----------------------------------------------------------------------------
(* Lemmas on the launcher that takes a step.                               *)

LEMMA Moved ==
    ASSUME Locals, NEW l \in Launchers, NEW stage \in Stages, NEW j \in Job,
           pc' = [pc EXCEPT ![l] = stage], job' = [job EXCEPT ![l] = j]
    PROVE  /\ pc' \in [Launchers -> Stages] /\ job' \in [Launchers -> Job]
           /\ pc'[l] = stage /\ job'[l] = j
           /\ \A k \in Launchers \ {l} : pc'[k] = pc[k] /\ job'[k] = job[k]
  BY DEF Locals

\* Who goes on was alone before, if it is alone.
LEMMA AloneMove ==
    ASSUME Locals, NEW l \in Launchers, NEW stage \in Stages, NEW j \in Job,
           pc' = [pc EXCEPT ![l] = stage], job' = [job EXCEPT ![l] = j],
           pc[l] # "idle", Alone
    PROVE  Alone' /\ \A k \in Launchers \ {l} : pc'[k] = "idle"
  BY Moved DEF Alone

\* In a machine kept tidy the launcher's own step is all that happens.
LEMMA TidyMove ==
    ASSUME Locals, TidyInv, NEW l \in Launchers, NEW stage \in Stages, NEW j \in Job,
           pc' = [pc EXCEPT ![l] = stage], job' = [job EXCEPT ![l] = j],
           pc[l] # "idle", tidy' => tidy /\ TidyAt(stage, j)'
    PROVE  TidyInv'
  <1> SUFFICES ASSUME tidy' = TRUE
               PROVE  /\ Alone' /\ (AtRest => Live \subseteq {port})'
                      /\ \A k \in Launchers : pc'[k] # "idle" => TidyAt(pc[k], job[k])'
    BY DEF TidyInv
  <1>1. /\ pc'[l] = stage /\ job'[l] = j
    BY Moved
  <1>2. Alone' /\ \A k \in Launchers \ {l} : pc'[k] = "idle"
    BY AloneMove DEF TidyInv
  <1>3. (AtRest => Live \subseteq {port})'
    BY <1>1 DEF AtRest, TidyAt
  <1>4. ASSUME NEW k \in Launchers, pc'[k] # "idle"
        PROVE  TidyAt(pc[k], job[k])'
    <2>1. k = l
      BY <1>2, <1>4
    <2> QED
      BY <1>1, <2>1 DEF TidyAt
  <1> QED
    BY <1>2, <1>3, <1>4

\* A run that nothing disturbs goes on.
LEMMA CleanMove ==
    ASSUME Locals, CleanInv, NEW l \in Launchers, NEW stage \in Stages, NEW j \in Job,
           pc' = [pc EXCEPT ![l] = stage], job' = [job EXCEPT ![l] = j],
           pc[l] # "idle", UNCHANGED answer, clean' => clean /\ CleanAt(l, stage, j)'
    PROVE  CleanInv'
  <1> SUFFICES ASSUME clean' = TRUE PROVE CleanInv'
    BY DEF CleanInv
  <1>1. /\ pc'[l] = stage /\ job'[l] = j
    BY Moved
  <1>2. Alone' /\ \A k \in Launchers \ {l} : pc'[k] = "idle"
    BY AloneMove DEF CleanInv
  <1>3. Unanswered'
    BY DEF CleanInv, Unanswered
  <1>4. ASSUME NEW k \in Launchers, pc'[k] # "idle"
        PROVE  CleanAt(k, pc[k], job[k])'
    <2>1. k = l
      BY <1>2, <1>4
    <2> QED
      BY <1>1, <2>1 DEF CleanAt
  <1> QED
    BY <1>2, <1>3, <1>4 DEF CleanInv, Unanswered

\* A run that nothing disturbs ends.
LEMMA CleanEnd ==
    ASSUME Locals, CleanInv, NEW l \in Launchers, NEW j \in Job, NEW text,
           pc' = [pc EXCEPT ![l] = "idle"], job' = [job EXCEPT ![l] = j],
           answer' = [answer EXCEPT ![l] = text],
           pc[l] # "idle", clean' => clean,
           text = "ok" /\ clean' /\ tidy' =>
                (port \in Live /\ (owners => port = pidFile))',
           text = "refused" /\ clean' => (Taken \/ Suspects)'
    PROVE  CleanInv'
  <1> SUFFICES ASSUME clean' = TRUE PROVE CleanInv'
    BY DEF CleanInv
  <1>1. "idle" \in Stages
    BY DEF Stages
  <1>2. pc'[l] = "idle"
    BY <1>1, Moved
  <1>3. Alone' /\ \A k \in Launchers \ {l} : pc'[k] = "idle"
    BY <1>1, AloneMove DEF CleanInv
  <1>4. \A k \in Launchers \ {l} : answer'[k] = "none"
    BY DEF CleanInv, Unanswered, Locals
  <1>5. answer'[l] = text
    BY DEF Locals
  <1> QED
    BY <1>2, <1>3, <1>4, <1>5 DEF CleanInv

\* Whoever else still owes a hub.
OthersOwe(l) == \E k \in Launchers \ {l} : OwesAt(pc[k], job[k])

\* The hub on the port lives, or another launcher has told it to end.
LEMMA HubClaimed ==
    ASSUME Sound, TermsWatched, NEW l \in Launchers, pc[l] # "gone", port \in Hubs
    PROVE  port \in Live \/ OthersOwe(l)
  BY DEF TermsWatched, Live, OwesAt, OthersOwe

\* A step of a launcher that neither starts a hub nor tells one to end.
LEMMA CalmMove ==
    ASSUME Locals, CalmInv, NEW l \in Launchers, NEW stage \in Stages, NEW j \in Job,
           pc' = [pc EXCEPT ![l] = stage], job' = [job EXCEPT ![l] = j],
           Hubs' = Hubs, Live' = Live, UNCHANGED <<owners, port>>,
           \A q \in Pids : parent[q] # l => parent'[q] = parent[q],
           \A k \in Launchers \ {l} : answer'[k] = answer[k],
           calm' =>
             /\ calm
             /\ pc[l] = "gone" => job[l].pid \notin termed \cap Hubs
             /\ Taken => Fits(stage, j) /\ answer'[l] # "ok"
             /\ ChildAt(l, stage, j)'
             /\ (\E k \in Launchers : answer'[k] = "ok") =>
                    OwesAt(stage, j) \/ port \in Live \/ OthersOwe(l)
    PROVE  CalmInv'
  <1> SUFFICES ASSUME calm' = TRUE PROVE CalmInv'
    BY DEF CalmInv
  <1>1. /\ pc'[l] = stage /\ job'[l] = j
        /\ \A k \in Launchers \ {l} : pc'[k] = pc[k] /\ job'[k] = job[k]
    BY Moved
  <1>2. TermsWatched'
    <2>0. termed' \cap Hubs' = termed \cap Hubs
      BY DEF Live
    <2>1. ASSUME NEW p \in termed \cap Hubs
          PROVE  \E k \in Launchers : pc'[k] = "gone" /\ job'[k].pid = p
      <3>1. PICK k \in Launchers : pc[k] = "gone" /\ job[k].pid = p
        BY <2>1 DEF CalmInv, TermsWatched
      <3>2. k # l
        BY <2>1, <3>1
      <3> QED
        BY <1>1, <3>1, <3>2
    <2> QED
      BY <2>0, <2>1 DEF TermsWatched
  <1>3. ForeignHolds'
    <2> SUFFICES ASSUME Taken
                 PROVE  Hubs' = {} /\ \A k \in Launchers : Fits(pc[k], job[k])' /\ answer'[k] # "ok"
      BY DEF ForeignHolds, Taken
    <2>1. Hubs = {} /\ \A k \in Launchers : Fits(pc[k], job[k]) /\ answer[k] # "ok"
      BY DEF CalmInv, ForeignHolds
    <2>2. Fits(stage, j) /\ answer'[l] # "ok"
      BY <1>1
    <2>3. ASSUME NEW k \in Launchers
          PROVE  Fits(pc[k], job[k])'
      <3>1. CASE k = l
        BY <1>1, <2>2, <3>1 DEF Fits
      <3>2. CASE k # l
        BY <1>1, <2>1, <3>2 DEF Fits
      <3> QED
        BY <3>1, <3>2
    <2> QED
      BY <1>1, <2>1, <2>2, <2>3
  <1>4. ASSUME NEW k \in Launchers
        PROVE  ChildAt(k, pc[k], job[k])'
    <2>1. CASE k = l
      BY <1>1, <2>1 DEF ChildAt
    <2>2. CASE k # l
      <3>1. ChildAt(k, pc[k], job[k])
        BY DEF CalmInv
      <3>2. job[k].pid \in Hubs => job[k].pid \in Pids
        BY DEF Hubs
      <3> QED
        BY <1>1, <2>2, <3>1, <3>2 DEF ChildAt
    <2> QED
      BY <2>1, <2>2
  <1>5. (\E k \in Launchers : answer'[k] = "ok") => Claimed'
    <2>1. CASE OwesAt(stage, j)
      BY <1>1, <2>1 DEF Claimed, OwesAt
    <2>2. CASE port \in Live
      BY <2>2 DEF Claimed
    <2>3. CASE OthersOwe(l)
      <3>1. PICK k \in Launchers \ {l} : OwesAt(pc[k], job[k])
        BY <2>3 DEF OthersOwe
      <3> QED
        BY <1>1, <3>1 DEF Claimed, OwesAt
    <2> QED
      BY <2>1, <2>2, <2>3
  <1> QED
    BY <1>2, <1>3, <1>4, <1>5 DEF CalmInv

-----------------------------------------------------------------------------
(* How a step of a launcher ends.                                          *)

\* What is known of a launcher's stage.
LEMMA Known ==
    ASSUME Inv, NEW l \in Launchers, NEW s, NEW i, pc[l] = s, job[l] = i, s # "idle"
    PROVE  /\ i \in Job
           /\ tidy => TidyAt(s, i)
           /\ clean => CleanAt(l, s, i) /\ Unanswered
           /\ Genuine(i)
           /\ calm => /\ TermsWatched /\ ForeignHolds /\ ChildAt(l, s, i)
                      /\ Taken => Fits(s, i)
           /\ calm /\ (\E k \in Launchers : answer[k] = "ok") =>
                 OwesAt(s, i) \/ port \in Live \/ OthersOwe(l)
  <1>1. i \in Job
    BY DEF Inv, Locals
  <1>2. tidy => TidyAt(s, i)
    BY DEF Inv, TidyInv
  <1>3. clean => CleanAt(l, s, i) /\ Unanswered
    BY DEF Inv, CleanInv
  <1>4. calm => /\ TermsWatched /\ ForeignHolds /\ ChildAt(l, s, i)
                /\ Taken => Fits(s, i)
    BY DEF Inv, CalmInv, ForeignHolds
  <1>5. calm /\ (\E k \in Launchers : answer[k] = "ok") =>
           OwesAt(s, i) \/ port \in Live \/ OthersOwe(l)
    BY DEF Inv, CalmInv, Claimed, OthersOwe
  <1>6. Genuine(i)
    BY DEF Inv, Ties
  <1> QED
    BY <1>1, <1>2, <1>3, <1>4, <1>5, <1>6

LEMMA NoJobIsJob == NoJob \in Job /\ NoJob.pid = NoPid
  BY StartupAssumption DEF NoJob, Job

LEMMA Updates ==
    ASSUME NEW i \in Job
    PROVE  /\ i.pids \subseteq Pids /\ i.old \subseteq Pids /\ i.pid \in PidOrNone
           /\ i.tries \in 0..Retries
           /\ \A ps \in SUBSET Pids :
                 /\ [i EXCEPT !.pids = ps] \in Job
                 /\ [i EXCEPT !.pids = ps, !.old = ps] \in Job
           /\ \A p \in PidOrNone : [i EXCEPT !.pid = p] \in Job
           /\ \A n \in 0..Retries : [i EXCEPT !.tries = n] \in Job
  BY DEF Job, PidOrNone

\* A launcher's own variables keep their types.
LEMMA LocalsMove ==
    ASSUME Locals, NEW l \in Launchers, NEW stage \in Stages, NEW j \in Job,
           pc' = [pc EXCEPT ![l] = stage], job' = [job EXCEPT ![l] = j],
           NEW text \in {"none", "ok", "refused"},
           answer' = answer \/ answer' = [answer EXCEPT ![l] = text],
           pidFile' \in PidOrNone, ForeignUntouched', tidy' \in BOOLEAN,
           clean' \in BOOLEAN, calm' \in BOOLEAN, UNCHANGED <<distinct, runs, outside>>
    PROVE  Locals'
  <1>1. pc' \in [Launchers -> Stages] /\ job' \in [Launchers -> Job]
    BY Moved
  <1>2. answer' \in [Launchers -> {"none", "ok", "refused"}]
    BY DEF Locals
  <1> QED
    BY <1>1, <1>2 DEF Locals

\* A launcher goes on, and no process moves.
LEMMA AheadStep ==
    ASSUME Inv, NEW l \in Launchers, NEW s, NEW i, pc[l] = s, job[l] = i, s # "idle",
           NEW stage \in Stages \ {"idle"}, NEW j \in Job,
           Continue(l, stage, j), UNCHANGED <<system, hit, distinct, runs, outside, tidy>>,
           pidFile' \in PidOrNone, clean' \in BOOLEAN, calm' \in BOOLEAN,
           Genuine(j), tidy => TidyAt(stage, j),
           clean' => clean /\ CleanAt(l, stage, j)',
           calm' =>
             /\ calm
             /\ s = "gone" => i.pid \notin Hubs
             /\ Taken => Fits(stage, j)
             /\ ChildAt(l, stage, j)
             /\ OwesAt(s, i) => OwesAt(stage, j) \/ port \in Live \/ OthersOwe(l)
    PROVE  Inv'
  <1>1. /\ Sound' /\ Hubs' = Hubs /\ Live' = Live
        /\ UNCHANGED <<owners, proc, parent, termed, port>>
    BY Still DEF Inv
  <1>2. /\ pc' = [pc EXCEPT ![l] = stage] /\ job' = [job EXCEPT ![l] = j]
        /\ UNCHANGED answer
    BY DEF Continue
  <1>3. Locals'
    <2>1. ForeignUntouched'
      BY <1>1 DEF Inv, Locals, ForeignUntouched
    <2> QED
      BY <1>2, <2>1, LocalsMove DEF Inv, Locals
  <1>4. TidyInv'
    <2>1. tidy' => tidy /\ TidyAt(stage, j)'
      BY <1>1 DEF TidyAt
    <2> QED
      BY <1>2, <2>1, TidyMove DEF Inv
  <1>5. CleanInv'
    BY <1>2, CleanMove DEF Inv
  <1>6. CalmInv'
    <2>1. ASSUME calm' = TRUE
          PROVE  /\ calm
                 /\ pc[l] = "gone" => job[l].pid \notin termed \cap Hubs
                 /\ Taken => Fits(stage, j) /\ answer'[l] # "ok"
                 /\ ChildAt(l, stage, j)'
                 /\ (\E k \in Launchers : answer'[k] = "ok") =>
                        OwesAt(stage, j) \/ port \in Live \/ OthersOwe(l)
      <3>1. calm = TRUE
        BY <2>1 DEF Inv, Locals
      <3>2. i.pid \notin Hubs => i.pid \notin termed \cap Hubs
        OBVIOUS
      <3>3. Taken => answer[l] # "ok"
        BY <3>1 DEF Inv, CalmInv, ForeignHolds
      <3>4. ChildAt(l, stage, j)'
        BY <1>1, <2>1 DEF ChildAt
      <3>5. (\E k \in Launchers : answer[k] = "ok") =>
               OwesAt(s, i) \/ port \in Live \/ OthersOwe(l)
        BY <3>1, Known
      <3> QED
        BY <1>2, <2>1, <3>1, <3>2, <3>3, <3>4, <3>5
    <2> QED
      BY <1>1, <1>2, <2>1, CalmMove DEF Inv, Locals
  <1>7. Ties'
    <2>1. pc' \in [Launchers -> Stages] /\ pc'[l] = stage /\ job'[l] = j
          /\ \A k \in Launchers \ {l} : pc'[k] = pc[k] /\ job'[k] = job[k]
      BY <1>2, Moved DEF Inv
    <2>2. Kin'
      BY <1>1, <2>1, KinAhead DEF Inv
    <2>3. Genuine(j)'
      BY <1>1 DEF Genuine
    <2>4. \A k \in Launchers : Genuine(job[k])'
      BY <1>1, <2>1, <2>3, GenuineAhead DEF Inv
    <2> QED
      BY <2>2, <2>4 DEF Ties
  <1> QED
    BY <1>1, <1>3, <1>4, <1>5, <1>6, <1>7 DEF Inv

\* A step that only reads the machine.
LEMMA GotoStep ==
    ASSUME Inv, NEW l \in Launchers, NEW s, NEW i, pc[l] = s, job[l] = i, s # "idle",
           NEW stage \in Stages \ {"idle"}, NEW j \in Job,
           Goto(l, stage, j), UNCHANGED <<hit, distinct, runs, outside, tidy>>,
           pidFile' \in PidOrNone, Genuine(j),
           stage \in {"ident", "own", "health"} => pidFile' = pidFile,
           tidy => TidyAt(stage, j),
           clean => CleanAt(l, stage, j),
           calm =>
             /\ s = "gone" => i.pid \notin Hubs
             /\ Taken => Fits(stage, j)
             /\ ChildAt(l, stage, j)
             /\ OwesAt(s, i) => OwesAt(stage, j) \/ port \in Live \/ OthersOwe(l)
    PROVE  Inv'
  <1>1. Hubs' = Hubs /\ UNCHANGED <<owners, parent, termed, port>>
    BY Still DEF Inv, Goto
  <1>2. clean' => clean /\ CleanAt(l, stage, j)'
    BY <1>1 DEF Goto, CleanAt
  <1> QED
    BY <1>2, AheadStep DEF Goto, Inv, Locals

\* A run ends.
LEMMA ReturnStep ==
    ASSUME Inv, NEW l \in Launchers, NEW s, NEW i, pc[l] = s, job[l] = i, s # "idle",
           NEW text \in {"ok", "refused"}, Return(l, text),
           UNCHANGED <<hit, distinct, runs, outside>>, pidFile' \in PidOrNone,
           tidy' \in BOOLEAN, clean' \in BOOLEAN, calm' \in BOOLEAN,
           tidy' => tidy /\ Live \subseteq {port},
           clean' => clean,
           text = "ok" /\ clean' /\ tidy' =>
               port \in Live /\ (owners => port = pidFile'),
           text = "refused" /\ clean' => Taken \/ (Suspects /\ pidFile' = pidFile),
           calm' =>
             /\ calm
             /\ s # "gone"
             /\ text = "ok" => port \in Hubs
             /\ OwesAt(s, i) /\ ~Taken => port \in Live \/ OthersOwe(l)
    PROVE  Inv'
  <1>1. /\ Sound' /\ Hubs' = Hubs /\ Live' = Live
        /\ UNCHANGED <<owners, termed, port>>
        /\ \A q \in Pids : parent[q] # l => parent'[q] = parent[q]
        /\ \A q \in Pids : parent[q] = l => parent'[q] = "init" /\ proc'[q] # "zombie"
        /\ \A q \in Pids : proc'[q] = proc[q] \/ (proc[q] = "zombie" /\ proc'[q] = "none")
    BY Departure DEF Inv, Return
  <1>2. PICK j \in Job : j = NoJob
    BY NoJobIsJob
  <1>3. /\ pc' = [pc EXCEPT ![l] = "idle"] /\ job' = [job EXCEPT ![l] = j]
        /\ answer' = [answer EXCEPT ![l] = text]
    BY <1>2 DEF Return
  <1>4. "idle" \in Stages
    BY DEF Stages
  <1>5. Locals'
    <2>1. ForeignUntouched'
      BY <1>1 DEF Inv, Locals, ForeignUntouched
    <2> QED
      BY <1>3, <1>4, <2>1, LocalsMove DEF Inv
  <1>6. TidyInv'
    <2>1. tidy' => tidy /\ TidyAt("idle", j)'
      BY <1>1 DEF TidyAt, Verifying
    <2> QED
      BY <1>3, <1>4, <2>1, TidyMove DEF Inv
  <1>7. CleanInv'
    <2>1. text = "ok" /\ clean' /\ tidy' => (port \in Live /\ (owners => port = pidFile))'
      BY <1>1
    <2>2. text = "refused" /\ clean' => (Taken \/ Suspects)'
      <3>1. Taken => Taken'
        BY <1>1 DEF Taken
      <3>2. Suspects /\ pidFile' = pidFile => Suspects'
        BY <1>1 DEF Suspects
      <3> QED
        BY <3>1, <3>2
    <2> QED
      BY <1>3, <2>1, <2>2, CleanEnd DEF Inv
  <1>8. CalmInv'
    <2>1. ASSUME calm' = TRUE
          PROVE  /\ calm
                 /\ pc[l] = "gone" => job[l].pid \notin termed \cap Hubs
                 /\ Taken => Fits("idle", j) /\ answer'[l] # "ok"
                 /\ ChildAt(l, "idle", j)'
                 /\ (\E k \in Launchers : answer'[k] = "ok") =>
                        OwesAt("idle", j) \/ port \in Live \/ OthersOwe(l)
      <3>1. calm = TRUE /\ s # "gone" /\ (text = "ok" => port \in Hubs)
            /\ (OwesAt(s, i) /\ ~Taken => port \in Live \/ OthersOwe(l))
        BY <2>1 DEF Inv, Locals
      <3>2. answer'[l] = text /\ \A k \in Launchers \ {l} : answer'[k] = answer[k]
        BY <1>3 DEF Inv, Locals
      <3>3. (\E k \in Launchers : answer[k] = "ok") => port \in Live \/ OthersOwe(l)
        <4>1. (\E k \in Launchers : answer[k] = "ok") => ~Taken
          BY <3>1 DEF Inv, CalmInv, ForeignHolds
        <4> QED
          BY <3>1, <4>1, Known
      <3>4. text = "ok" => port \in Live \/ OthersOwe(l)
        BY <3>1, HubClaimed DEF Inv, CalmInv
      <3>5. ChildAt(l, "idle", j)' /\ Fits("idle", j)
        BY <1>2 DEF ChildAt, Verifying, Harmless, Fits, NoJob
      <3>6. Taken => text # "ok"
        BY <3>1 DEF Taken
      <3> QED
        BY <3>1, <3>2, <3>3, <3>4, <3>5, <3>6
    <2>2. \A k \in Launchers \ {l} : answer'[k] = answer[k]
      BY <1>3 DEF Inv, Locals
    <2> QED
      BY <1>1, <1>3, <1>4, <2>1, <2>2, CalmMove DEF Inv
  <1>9. Ties'
    <2>1. /\ pc'[l] = "idle" /\ job'[l] = j
          /\ \A k \in Launchers \ {l} : pc'[k] = pc[k] /\ job'[k] = job[k]
      BY <1>3, <1>4, Moved DEF Inv
    <2>2. Kin'
      BY <1>1, <2>1, KinLeft DEF Inv
    <2>3. Genuine(j)'
      BY <1>2, StartupAssumption DEF Genuine, NoJob
    <2>4. \A k \in Launchers : Genuine(job[k])'
      BY <1>1, <2>1, <2>3, GenuineAhead DEF Inv
    <2> QED
      BY <2>2, <2>4 DEF Ties
  <1> QED
    BY <1>1, <1>5, <1>6, <1>7, <1>8, <1>9 DEF Inv

\* A refusal after a fault: the run has been disturbed.
LEMMA FaultStep ==
    ASSUME Inv, NEW l \in Launchers, NEW s, NEW i, pc[l] = s, job[l] = i, s # "idle",
           Fault(l), UNCHANGED <<hit, distinct, runs, outside>>, pidFile' \in PidOrNone,
           tidy' \in BOOLEAN, tidy' => tidy /\ Live \subseteq {port}
    PROVE  Inv'
  BY ReturnStep DEF Fault

LEMMA RefuseStep ==
    ASSUME Inv, NEW l \in Launchers, NEW s, NEW i, pc[l] = s, job[l] = i, s # "idle",
           Refuse(l), UNCHANGED <<hit, distinct, runs, outside, tidy>>,
           pidFile' \in PidOrNone,
           tidy => Live \subseteq {port}, clean => Taken,
           calm => s # "gone" /\ (OwesAt(s, i) /\ ~Taken => port \in Live \/ OthersOwe(l))
    PROVE  Inv'
  BY ReturnStep DEF Refuse, Inv, Locals

-----------------------------------------------------------------------------
(* The preflight.                                                          *)

LEMMA HubsArePids == Hubs \subseteq Pids /\ NoPid \notin Hubs
  BY StartupAssumption DEF Hubs

LEMMA OwnersStep ==
    ASSUME Inv, NEW l \in Launchers, Owners(l)
    PROVE  Inv'
  <1>1. PICK i : i = job[l]
    OBVIOUS
  <1>2. PICK ps : ps = IF owners THEN PortOwners ELSE {}
    OBVIOUS
  <1>3. PICK j : j = [i EXCEPT !.pids = ps]
    OBVIOUS
  <1>4. pc[l] = "owners" /\ Goto(l, "occupied", j)
        /\ UNCHANGED <<hit, distinct, runs, outside, tidy, pidFile>>
    BY <1>1, <1>2, <1>3 DEF Owners, At
  <1>5. /\ i \in Job
        /\ tidy => TidyAt("owners", i)
        /\ clean => CleanAt(l, "owners", i)
        /\ Genuine(i)
    BY <1>1, <1>4, Known
  <1>6. /\ ps \in SUBSET Pids /\ ps \subseteq {port}
        /\ port \in Hubs => PortOwners = {port}
    BY <1>2, HubsArePids DEF Inv, Sound, PidOrNone, PortOwners, Hubs
  <1>7. j \in Job /\ j.pids = ps /\ j.pid = i.pid
    BY <1>3, <1>5, <1>6, Updates DEF Job
  <1>8. tidy => TidyAt("occupied", j)
    BY <1>5 DEF TidyAt, Verifying
  <1>9. clean => CleanAt(l, "occupied", j)
    <2> SUFFICES ASSUME clean = TRUE PROVE CleanAt(l, "occupied", j)
      BY DEF Inv, Locals
    <2>1. Hubs \subseteq {port} /\ termed = {}
      BY <1>5 DEF CleanAt, Stages
    <2>2. CASE owners /\ ps = {}
      <3>1. Hubs = {}
        BY <1>2, <1>6, <2>1, <2>2
      <3> QED
        BY <1>7, <2>1, <2>2, <3>1 DEF CleanAt, Verifying
    <2>3. CASE owners /\ ps # {}
      <3>1. ps = {port} /\ port # NoPid
        BY <1>2, <1>6, <2>3, StartupAssumption
      <3> QED
        BY <1>7, <2>1, <2>3, <3>1 DEF CleanAt, Verifying
    <2>4. CASE ~owners
      BY <1>2, <1>7, <2>1, <2>4 DEF CleanAt, Verifying
    <2> QED
      BY <2>2, <2>3, <2>4
  <1>10. Genuine(j)
    <2>1. port \in Pids => proc[port] # "lookalike"
      BY StartupAssumption DEF Inv, Sound, Binders
    <2> QED
      BY <1>5, <1>6, <1>7, <2>1 DEF Genuine
  <1>11. Fits("occupied", j)
    BY <1>6, <1>7 DEF Fits, Harmless
  <1> QED
    BY <1>1, <1>4, <1>5, <1>7, <1>8, <1>9, <1>10, <1>11, GotoStep
    DEF Inv, Locals, ChildAt, OwesAt, Verifying, Stages

LEMMA OccupiedStep ==
    ASSUME Inv, NEW l \in Launchers, Occupied(l)
    PROVE  Inv'
  <1>1. PICK i : i = job[l]
    OBVIOUS
  <1>2. PICK stage : stage = IF Listening \/ i.pids # {} THEN "classify" ELSE "start"
    OBVIOUS
  <1>3. pc[l] = "occupied" /\ Goto(l, stage, i)
        /\ UNCHANGED <<hit, distinct, runs, outside, tidy, pidFile>>
    BY <1>1, <1>2 DEF Occupied, At
  <1>4. /\ i \in Job
        /\ tidy => TidyAt("occupied", i)
        /\ clean => CleanAt(l, "occupied", i)
        /\ Genuine(i) /\ (calm => (Taken => Fits("occupied", i)))
    BY <1>1, <1>3, Known
  <1>5. stage \in {"classify", "start"} /\ (stage = "start" => port = NoPid /\ i.pids = {})
        /\ (stage = "classify" => port # NoPid \/ i.pids # {})
    BY <1>2 DEF Listening
  <1>6. tidy => TidyAt(stage, i)
    BY <1>4, <1>5, HubsArePids DEF TidyAt, Verifying, Live
  <1>7. clean => CleanAt(l, stage, i)
    <2> SUFFICES ASSUME clean = TRUE PROVE CleanAt(l, stage, i)
      BY DEF Inv, Locals
    <2>1. /\ Hubs \subseteq {port} /\ termed = {}
          /\ owners => \/ i.pids = {} /\ Hubs = {}
                       \/ i.pids = {port} /\ port # NoPid
          /\ ~owners => i.pids = {}
      BY <1>4 DEF CleanAt, Stages
    <2>2. stage = "start" => Hubs = {}
      BY <1>5, <2>1, HubsArePids
    <2> QED
      BY <1>5, <2>1, <2>2 DEF CleanAt, Verifying
  <1>8. calm => (Taken => Fits(stage, i))
    BY <1>4, <1>5 DEF Fits, Harmless, Taken
  <1> QED
    BY <1>1, <1>3, <1>4, <1>5, <1>6, <1>7, <1>8, GotoStep
    DEF Inv, Locals, ChildAt, OwesAt, Verifying, Stages

\* What is on its way to being stopped.
LEMMA ChosenStep ==
    ASSUME Inv, NEW l \in Launchers, NEW i, pc[l] = "classify", job[l] = i,
           NEW hubs \in SUBSET Found, hubs # {}, NEW j,
           j = [i EXCEPT !.pids = hubs, !.old = hubs],
           owners => hubs \subseteq i.pids,
           NEW stage, stage = IF owners THEN "stop" ELSE "anchor",
           Continue(l, stage, j),
           UNCHANGED <<system, hit, distinct, runs, outside, tidy, calm, pidFile>>,
           clean' \in BOOLEAN, clean' => clean /\ Hubs \subseteq hubs
    PROVE  Inv'
  <1>1. /\ i \in Job
        /\ tidy => TidyAt("classify", i)
        /\ clean => CleanAt(l, "classify", i)
        /\ Genuine(i) /\ (calm => (Taken => Fits("classify", i)))
    BY Known
  <1>2. j \in Job /\ j.pids = hubs /\ j.old = hubs /\ j.pid = i.pid
    BY <1>1, FoundHubs, Updates DEF Job
  <1>3. stage \in {"stop", "anchor"} /\ stage \in Stages \ {"idle"}
    BY DEF Stages
  <1>4. tidy => TidyAt(stage, j)
    BY <1>1, <1>3 DEF TidyAt, Verifying
  <1>5. Hubs' = Hubs /\ UNCHANGED <<owners, parent, termed, port>>
    BY Still DEF Inv
  <1>6. clean' => clean /\ CleanAt(l, stage, j)'
    <2> SUFFICES ASSUME clean' = TRUE PROVE clean /\ CleanAt(l, stage, j)'
      OBVIOUS
    <2>1. clean = TRUE /\ Hubs \subseteq hubs
      BY DEF Inv, Locals
    <2>2. termed = {} /\ Hubs \subseteq {port}
      BY <1>1, <2>1 DEF CleanAt, Stages
    <2> QED
      BY <1>2, <1>3, <1>5, <2>1, <2>2 DEF CleanAt, Verifying
  <1>7. Taken /\ owners => ~(i.pids \subseteq {port})
    BY FoundHubs, PortIsHub DEF Inv, Taken
  <1>8. calm => (Taken => Fits(stage, j))
    BY <1>1, <1>3, <1>7 DEF Fits, Doomed
  <1>9. Genuine(j)
    BY <1>1, <1>2 DEF Genuine
  <1>10. ChildAt(l, stage, j) /\ ~OwesAt("classify", i)
    BY <1>3 DEF ChildAt, OwesAt, Verifying
  <1> QED
    BY <1>2, <1>3, <1>4, <1>6, <1>8, <1>9, <1>10, AheadStep DEF Inv, Locals

LEMMA ClassifyStep ==
    ASSUME Inv, NEW l \in Launchers, Classify(l)
    PROVE  Inv'
  <1>1. PICK i : i = job[l]
    OBVIOUS
  <1>2. pc[l] = "classify" /\ UNCHANGED <<hit, distinct, runs, outside, tidy, pidFile>>
    BY DEF Classify, At
  <1>3. /\ i \in Job
        /\ tidy => TidyAt("classify", i)
        /\ clean => CleanAt(l, "classify", i)
    BY <1>1, <1>2, Known
  <1>4. tidy => Live \subseteq {port}
    BY <1>3 DEF TidyAt
  <1>5. pidFile \in PidOrNone /\ ~OwesAt("classify", i)
    BY DEF Inv, Locals, OwesAt, Verifying
  <1>6. CASE owners /\ ClassifyOwners(l)
    <2>1. PICK hubs : hubs = {p \in i.pids : IsHub(l, p)}
      OBVIOUS
    <2>2. hubs = i.pids \cap Found
      BY <1>3, <2>1, HubSeen, FoundHubs, Updates
    <2>3. clean => \/ i.pids = {} /\ Taken
                   \/ i.pids = {port} /\ port # NoPid /\ Hubs \subseteq {port}
      BY <1>3, <1>6 DEF CleanAt, Taken
    <2>4. CASE (hubs = {} \/ hubs # i.pids) /\ Refuse(l)
      <3>1. clean => Taken
        BY <2>2, <2>3, <2>4, FoundHubs DEF Taken
      <3> QED
        BY <1>1, <1>2, <1>4, <1>5, <2>4, <3>1, RefuseStep DEF Inv, Locals
    <2>5. CASE hubs # {} /\ hubs = i.pids
               /\ Goto(l, "stop", [job[l] EXCEPT !.pids = hubs, !.old = hubs])
      <3>1. PICK j : j = [i EXCEPT !.pids = hubs, !.old = hubs]
        OBVIOUS
      <3>2. clean => Hubs \subseteq hubs
        BY <2>3, <2>5
      <3>3. /\ Continue(l, "stop", j) /\ UNCHANGED <<system, clean, calm>>
        BY <1>1, <2>5, <3>1 DEF Goto
      <3> QED
        BY <1>1, <1>2, <1>6, <2>2, <2>5, <3>1, <3>2, <3>3, ChosenStep DEF Inv, Locals
    <2> QED
      BY <1>1, <1>6, <2>1, <2>4, <2>5 DEF ClassifyOwners
  <1>7. CASE ~owners /\ ClassifyHinted(l)
    <2>1. PICK found \in {{}, Found}, hints \in Hints :
            LET seen == Candidates(found) \cup hints
                hubs == {p \in seen : IsHub(l, p)}
            IN /\ IF hubs = {} \/ \E p \in seen : NotHub(l, p)
                  THEN Return(l, "refused")
                  ELSE /\ Continue(l, "anchor", [job[l] EXCEPT !.pids = hubs, !.old = hubs])
                       /\ UNCHANGED system
               /\ clean' = (clean /\ found = Found)
               /\ UNCHANGED calm
      BY <1>7 DEF ClassifyHinted
    <2>2. PICK seen : seen = Candidates(found) \cup hints
      OBVIOUS
    <2>3. PICK hubs : hubs = {p \in seen : IsHub(l, p)}
      OBVIOUS
    <2>4. seen \subseteq Pids /\ found \subseteq seen
      BY <1>5, <2>1, <2>2, FoundHubs DEF Candidates, Hints, PidOrNone
    <2>5. hubs = seen \cap Found
      BY <2>3, <2>4, HubSeen, FoundHubs
    <2>6. clean' = (clean /\ found = Found) /\ UNCHANGED calm
      BY <2>1
    <2>7. CASE (hubs = {} \/ \E p \in seen : NotHub(l, p)) /\ Return(l, "refused")
      <3>1. ASSUME clean' = TRUE
            PROVE  Taken \/ Suspects
        <4>1. clean = TRUE /\ found = Found
          BY <2>6, <3>1 DEF Inv, Locals
        <4>2. CASE hubs = {}
          <5>1. Found = {}
            BY <2>4, <2>5, <4>1, <4>2
          <5>2. port # NoPid
            BY <1>3, <1>7, <4>1 DEF CleanAt
          <5> QED
            BY <5>1, <5>2, FoundHubs DEF Taken
        <4>3. ASSUME NEW p \in seen, NotHub(l, p)
              PROVE  Suspects
          <5>1. p \in Pids /\ p \notin Found
            BY <2>4, <4>3 DEF NotHub, Found, Marked
          <5>2. p = pidFile \/ proc[p] = "server"
            <6>1. CASE p \in Candidates(found)
              BY <4>1, <5>1, <6>1 DEF Candidates
            <6>2. CASE p \in hints
              <7>1. proc[p] \in Marked \cup {"server"}
                BY <2>1, <6>2 DEF Hints
              <7> QED
                BY <5>1, <7>1 DEF Found
            <6> QED
              BY <2>2, <6>1, <6>2
          <5>3. proc[p] # "zombie"
            <6> SUFFICES ASSUME proc[p] = "zombie" PROVE FALSE
              OBVIOUS
            <6>1. parent[p] # l
              BY <4>3 DEF NotHub, Alive
            <6>2. parent[p] \in Launchers /\ pc[parent[p]] # "idle"
              BY <5>1 DEF Inv, Ties, Kin
            <6>3. Alone
              BY <4>1 DEF Inv, CleanInv
            <6> QED
              BY <1>2, <6>1, <6>2, <6>3 DEF Alone
          <5> QED
            BY <1>7, <4>3, <5>1, <5>2, <5>3 DEF NotHub, Suspects
        <4> QED
          BY <2>7, <4>2, <4>3
      <3> QED
        BY <1>1, <1>2, <1>4, <1>5, <2>6, <2>7, <3>1, ReturnStep DEF Inv, Locals
    <2>8. CASE hubs # {} /\ Continue(l, "anchor", [job[l] EXCEPT !.pids = hubs, !.old = hubs])
               /\ UNCHANGED system
      <3>1. PICK j : j = [i EXCEPT !.pids = hubs, !.old = hubs]
        OBVIOUS
      <3>2. clean' => clean /\ Hubs \subseteq hubs
        BY <2>4, <2>5, <2>6, FoundHubs
      <3>3. Continue(l, "anchor", j) /\ UNCHANGED <<system, calm>>
        BY <1>1, <2>6, <2>8, <3>1
      <3>4. clean' \in BOOLEAN
        BY <2>6
      <3>5. hubs \in SUBSET Found
        BY <2>5
      <3> QED
        BY <1>1, <1>2, <1>7, <2>8, <3>1, <3>2, <3>3, <3>4, <3>5, ChosenStep
    <2> QED
      BY <2>1, <2>2, <2>3, <2>7, <2>8
  <1> QED
    BY <1>6, <1>7 DEF Classify

LEMMA AnchorStep ==
    ASSUME Inv, NEW l \in Launchers, Anchor(l)
    PROVE  Inv'
  <1>1. PICK i : i = job[l]
    OBVIOUS
  <1>2. pc[l] = "anchor" /\ UNCHANGED <<hit, distinct, runs, outside, tidy, pidFile>>
    BY DEF Anchor, At
  <1>3. /\ i \in Job
        /\ tidy => TidyAt("anchor", i)
        /\ clean => CleanAt(l, "anchor", i)
        /\ Genuine(i) /\ (calm => (Taken => Fits("anchor", i)))
    BY <1>1, <1>2, Known
  <1>4. CASE Goto(l, "stop", i)
    <2>1. tidy => TidyAt("stop", i)
      BY <1>3 DEF TidyAt, Verifying
    <2>2. clean => CleanAt(l, "stop", i)
      BY <1>3 DEF CleanAt, Verifying, Stages
    <2>3. calm => (Taken => Fits("stop", i))
      BY <1>3 DEF Fits, Harmless, Doomed
    <2> QED
      BY <1>1, <1>2, <1>3, <1>4, <2>1, <2>2, <2>3, GotoStep
      DEF Inv, Locals, ChildAt, OwesAt, Verifying, Stages
  <1>5. CASE Fault(l)
    BY <1>1, <1>2, <1>3, <1>5, FaultStep DEF TidyAt, Inv, Locals
  <1> QED
    BY <1>1, <1>4, <1>5 DEF Anchor

-----------------------------------------------------------------------------
(* The old hub is stopped.                                                 *)

\* What was seen is told to end, and its end waited for.
LEMMA TellStep ==
    ASSUME Inv, NEW l \in Launchers, NEW i, pc[l] = "stop", job[l] = i,
           NEW p \in Found \cap i.pids, NEW j, j = [i EXCEPT !.pid = p],
           termed' = termed \cup {p}, hit' = hit \cup {proc[p]}, Continue(l, "gone", j),
           UNCHANGED <<owners, proc, parent, port, distinct, clean, calm, tidy, pidFile,
                       runs, outside>>
    PROVE  Inv'
  <1>1. Sound' /\ Hubs' = Hubs /\ Live' = Live \ {p}
    BY Told DEF Inv
  <1>2. /\ i \in Job
        /\ tidy => TidyAt("stop", i)
        /\ clean => CleanAt(l, "stop", i)
        /\ Genuine(i)
        /\ calm => TermsWatched /\ ForeignHolds /\ (Taken => Fits("stop", i))
    BY Known
  <1>3. "gone" \in Stages /\ j \in Job /\ j.pid = p /\ j.pids = i.pids /\ j.old = i.old
    BY <1>2, FoundHubs, Updates DEF Job, Stages, PidOrNone
  <1>4. /\ pc' = [pc EXCEPT ![l] = "gone"] /\ job' = [job EXCEPT ![l] = j]
        /\ answer' = answer
    BY DEF Continue
  <1>5. Locals'
    <2>1. ForeignUntouched'
      <3>1. p \in Hubs \/ proc[p] = "lookalike"
        BY FoundHubs
      <3>2. owners /\ distinct => proc[p] # "lookalike"
        BY <1>2, FoundHubs DEF Genuine
      <3> QED
        BY <3>1, <3>2 DEF Inv, Locals, ForeignUntouched, Hubs, Marked
    <2> QED
      BY <1>3, <1>4, <2>1, LocalsMove DEF Inv, Locals
  <1>6. TidyInv'
    <2>1. tidy' => tidy /\ TidyAt("gone", j)'
      BY <1>1, <1>2 DEF TidyAt, Verifying
    <2> QED
      BY <1>3, <1>4, <2>1, TidyMove DEF Inv
  <1>7. CleanInv'
    <2>1. clean' => clean /\ CleanAt(l, "gone", j)'
      BY <1>1, <1>2, <1>3 DEF CleanAt, Verifying, Stages
    <2> QED
      BY <1>3, <1>4, <2>1, CleanMove DEF Inv
  <1>8. CalmInv'
    <2> SUFFICES ASSUME calm = TRUE PROVE CalmInv'
      BY DEF CalmInv, Inv, Locals
    <2>1. /\ pc'[l] = "gone" /\ job'[l] = j
          /\ \A k \in Launchers \ {l} : pc'[k] = pc[k] /\ job'[k] = job[k]
      BY <1>3, <1>4, Moved DEF Inv
    <2>2. TermsWatched'
      <3>1. ASSUME NEW q \in (termed \cup {p}) \cap Hubs
            PROVE  \E k \in Launchers : pc'[k] = "gone" /\ job'[k].pid = q
        <4>1. CASE q = p
          BY <1>3, <2>1, <4>1
        <4>2. CASE q \in termed
          <5>1. PICK k \in Launchers : pc[k] = "gone" /\ job[k].pid = q
            BY <1>2, <4>2 DEF TermsWatched
          <5> QED
            BY <2>1, <5>1
        <4> QED
          BY <4>1, <4>2
      <3> QED
        BY <1>1, <3>1 DEF TermsWatched
    <2>3. ForeignHolds'
      <3> SUFFICES ASSUME Taken PROVE ForeignHolds'
        BY <1>1 DEF ForeignHolds, Taken
      <3>1. Fits("gone", j)
        BY <1>2, <1>3 DEF Fits, Harmless, Doomed
      <3>2. /\ Hubs = {}
            /\ \A k \in Launchers : Fits(pc[k], job[k]) /\ answer[k] # "ok"
        BY <1>2 DEF ForeignHolds
      <3>3. ASSUME NEW k \in Launchers
            PROVE  Fits(pc[k], job[k])'
        <4>1. CASE k = l
          BY <2>1, <3>1, <4>1 DEF Fits
        <4>2. CASE k # l
          BY <2>1, <3>2, <4>2 DEF Fits
        <4> QED
          BY <4>1, <4>2
      <3> QED
        BY <1>1, <1>4, <3>2, <3>3 DEF ForeignHolds
    <2>4. ASSUME NEW k \in Launchers
          PROVE  ChildAt(k, pc[k], job[k])'
      BY <1>1, <2>1 DEF ChildAt, Inv, CalmInv, Verifying
    <2>5. Claimed'
      BY <2>1 DEF Claimed, OwesAt
    <2> QED
      BY <2>2, <2>3, <2>4, <2>5 DEF CalmInv
  <1>9. Ties'
    <2>1. pc' \in [Launchers -> Stages] /\ pc'[l] = "gone" /\ job'[l] = j
          /\ \A k \in Launchers \ {l} : pc'[k] = pc[k] /\ job'[k] = job[k]
      BY <1>3, <1>4, Moved DEF Inv
    <2>2. Kin'
      BY <2>1, KinAhead DEF Inv
    <2>3. Genuine(j)'
      BY <1>2, <1>3 DEF Genuine
    <2>4. \A k \in Launchers : Genuine(job[k])'
      BY <2>1, <2>3, GenuineAhead DEF Inv
    <2> QED
      BY <2>2, <2>4 DEF Ties
  <1> QED
    BY <1>1, <1>5, <1>6, <1>7, <1>8, <1>9 DEF Inv

\* What a stop of a hub keeps.
LEMMA StopGoes ==
    ASSUME Inv, NEW l \in Launchers, NEW i, pc[l] = "stop", job[l] = i,
           NEW stage \in {"stop", "release"}, NEW j, Goto(l, stage, j),
           NEW ps \in SUBSET i.pids, j = [i EXCEPT !.pids = ps],
           UNCHANGED <<hit, distinct, runs, outside, tidy, pidFile>>
    PROVE  Inv'
  <1>1. /\ i \in Job
        /\ tidy => TidyAt("stop", i)
        /\ clean => CleanAt(l, "stop", i)
        /\ Genuine(i) /\ (calm => (Taken => Fits("stop", i)))
    BY Known
  <1>2. j \in Job /\ j.old = i.old /\ j.pids = ps /\ j.pid = i.pid
    BY <1>1, Updates DEF Job
  <1>3. tidy => TidyAt(stage, j)
    BY <1>1 DEF TidyAt, Verifying
  <1>4. clean => CleanAt(l, stage, j)
    BY <1>1, <1>2 DEF CleanAt, Verifying, Stages
  <1>5. calm => (Taken => Fits(stage, j))
    BY <1>1, <1>2 DEF Fits, Harmless, Doomed
  <1>6. Genuine(j)
    BY <1>1, <1>2 DEF Genuine
  <1>7. ChildAt(l, stage, j) /\ OwesAt(stage, j)
    BY DEF ChildAt, OwesAt, Verifying
  <1>8. stage \in Stages \ {"idle"} /\ stage \notin {"ident", "own", "health"}
    BY DEF Stages
  <1>9. pidFile' \in PidOrNone
    BY DEF Inv, Locals
  <1> QED
    BY <1>2, <1>3, <1>4, <1>5, <1>6, <1>7, <1>8, <1>9, GotoStep

LEMMA StopStep ==
    ASSUME Inv, NEW l \in Launchers, Stop(l)
    PROVE  Inv'
  <1>1. PICK i : i = job[l]
    OBVIOUS
  <1>2. pc[l] = "stop" /\ UNCHANGED <<distinct, runs, outside, tidy, pidFile>>
    BY DEF Stop, At
  <1>3. /\ i \in Job
        /\ tidy => TidyAt("stop", i)
    BY <1>1, <1>2, Known
  <1>4. CASE i.pids = {} /\ Goto(l, "release", i) /\ UNCHANGED hit
    <2>1. i = [i EXCEPT !.pids = {}]
      BY <1>3, <1>4 DEF Job
    <2> QED
      BY <1>1, <1>2, <1>4, <2>1, StopGoes
  <1>5. ASSUME NEW p \in i.pids, Goto(l, "stop", Left(l, p)), UNCHANGED hit
        PROVE  Inv'
    <2>1. PICK j : j = [i EXCEPT !.pids = i.pids \ {p}]
      OBVIOUS
    <2>2. j = Left(l, p)
      BY <1>1, <1>3, <2>1 DEF Left, Job
    <2> QED
      BY <1>1, <1>2, <1>5, <2>1, <2>2, StopGoes
  <1>6. CASE Fault(l) /\ UNCHANGED hit
    BY <1>1, <1>2, <1>3, <1>6, FaultStep DEF TidyAt, Inv, Locals
  <1>7. ASSUME NEW p \in i.pids, IsHub(l, p), termed' = termed \cup {p},
               hit' = hit \cup {proc[p]},
               Continue(l, "gone", [job[l] EXCEPT !.pid = p]),
               UNCHANGED <<owners, proc, parent, port, clean, calm>>
        PROVE  Inv'
    <2>1. PICK j : j = [i EXCEPT !.pid = p]
      OBVIOUS
    <2>2. p \in Found
      BY <1>3, <1>7, HubSeen, Updates
    <2> QED
      BY <1>1, <1>2, <1>7, <2>1, <2>2, TellStep
  <1> QED
    BY <1>1, <1>4, <1>5, <1>6, <1>7 DEF Stop

LEMMA GoneStep ==
    ASSUME Inv, NEW l \in Launchers, Gone(l)
    PROVE  Inv'
  <1>1. PICK i : i = job[l]
    OBVIOUS
  <1>2. pc[l] = "gone" /\ UNCHANGED <<hit, distinct, runs, outside, tidy, pidFile>>
    BY DEF Gone, At
  <1>3. /\ i \in Job
        /\ tidy => TidyAt("gone", i)
        /\ clean => CleanAt(l, "gone", i)
        /\ Genuine(i) /\ (calm => (Taken => Fits("gone", i)))
    BY <1>1, <1>2, Known
  <1>4. CASE Fault(l)
    BY <1>1, <1>2, <1>3, <1>4, FaultStep DEF TidyAt, Inv, Locals
  <1>5. CASE ~Alive(l, i.pid) /\ Goto(l, "stop", [Left(l, i.pid) EXCEPT !.pid = NoPid])
    <2>1. PICK j : j = [Left(l, i.pid) EXCEPT !.pid = NoPid]
      OBVIOUS
    <2>2. j \in Job /\ j.old = i.old /\ j.pids \subseteq i.pids /\ j.pid = NoPid
      BY <1>1, <1>3, <2>1 DEF Left, Job
    <2>3. i.pid \notin Found
      BY <1>5, FoundHubs DEF Alive, Found, Marked
    <2>4. tidy => TidyAt("stop", j)
      BY <1>3 DEF TidyAt, Verifying
    <2>5. clean => CleanAt(l, "stop", j)
      BY <1>3, <2>2, <2>3 DEF CleanAt, Verifying, Stages, Inv, Sound
    <2>6. calm => (Taken => Fits("stop", j))
      BY <1>3, <2>2 DEF Fits, Harmless, Doomed
    <2>9. Genuine(j) /\ i.pid \notin Hubs
      BY <1>3, <2>2, <2>3, FoundHubs, StartupAssumption DEF Genuine
    <2>7. Goto(l, "stop", j) /\ pidFile' \in PidOrNone
      BY <1>2, <1>5, <2>1 DEF Inv, Locals
    <2>8. OwesAt("stop", j) /\ ChildAt(l, "stop", j) /\ "stop" \in Stages \ {"idle"}
      BY DEF OwesAt, ChildAt, Verifying, Stages
    <2> QED
      BY <1>1, <1>2, <2>2, <2>4, <2>5, <2>6, <2>7, <2>8, <2>9, GotoStep
  <1> QED
    BY <1>1, <1>4, <1>5 DEF Gone

LEMMA ReleaseStep ==
    ASSUME Inv, NEW l \in Launchers, Release(l)
    PROVE  Inv'
  <1>1. PICK i : i = job[l]
    OBVIOUS
  <1>2. pc[l] = "release" /\ UNCHANGED <<hit, distinct, runs, outside, tidy, pidFile>>
    BY DEF Release, At
  <1>3. /\ i \in Job
        /\ tidy => TidyAt("release", i)
        /\ clean => CleanAt(l, "release", i)
        /\ Genuine(i)
        /\ calm => TermsWatched /\ (Taken => Fits("release", i))
    BY <1>1, <1>2, Known
  <1>4. CASE (~Listening \/ (owners /\ PortOwners = {})) /\ Goto(l, "forget", i)
    <2>1. port \notin Hubs /\ (~owners => port = NoPid)
      BY <1>4, FoundHubs DEF Listening, PortOwners, Hubs
    <2>4. calm => ~Taken
      BY <1>3, <1>4 DEF Taken, Listening, Fits, Harmless
    <2>2. tidy => TidyAt("forget", i)
      BY <1>3, <2>1, HubsArePids DEF TidyAt, Verifying, Live
    <2>3. clean => CleanAt(l, "forget", i)
      BY <1>3, <2>1, HubsArePids DEF CleanAt, Verifying, Stages
    <2> QED
      BY <1>1, <1>2, <1>3, <1>4, <2>2, <2>3, <2>4, GotoStep
      DEF Inv, Locals, ChildAt, OwesAt, Verifying, Stages
  <1>5. CASE Fault(l)
    BY <1>1, <1>2, <1>3, <1>5, FaultStep DEF TidyAt, Inv, Locals
  <1>6. CASE Listening /\ port \notin i.old /\ Refuse(l)
    <2>1. port # NoPid
      BY <1>6 DEF Listening
    <2>2. clean => Taken
      BY <1>3, <1>6, <2>1 DEF CleanAt, Taken
    <2>3. ~Taken => port \in Hubs
      BY <2>1 DEF Taken
    <2>4. calm /\ ~Taken => port \in Live \/ OthersOwe(l)
      BY <1>2, <1>3, <2>3, HubClaimed DEF Inv
    <2>5. tidy => Live \subseteq {port}
      BY <1>3 DEF TidyAt
    <2> QED
      BY <1>1, <1>2, <1>6, <2>1, <2>2, <2>4, <2>5, RefuseStep DEF Inv, Locals
  <1> QED
    BY <1>1, <1>4, <1>5, <1>6 DEF Release

LEMMA ForgetStep ==
    ASSUME Inv, NEW l \in Launchers, Forget(l)
    PROVE  Inv'
  <1>1. PICK i : i = job[l]
    OBVIOUS
  <1>2. /\ pc[l] = "forget" /\ UNCHANGED <<hit, distinct, runs, outside, tidy>>
        /\ Goto(l, "start", i)
    BY <1>1 DEF Forget, At
  <1>3. pidFile' \in PidOrNone
    BY DEF Forget, Inv, Locals, PidOrNone
  <1>4. /\ i \in Job
        /\ tidy => TidyAt("forget", i)
        /\ clean => CleanAt(l, "forget", i)
        /\ Genuine(i) /\ (calm => (Taken => Fits("forget", i)))
    BY <1>1, <1>2, Known
  <1>5. tidy => TidyAt("start", i)
    BY <1>4 DEF TidyAt, Verifying
  <1>6. clean => CleanAt(l, "start", i)
    BY <1>4 DEF CleanAt, Verifying, Stages
  <1>7. calm => ~Taken
    BY <1>4 DEF Fits, Harmless, Doomed
  <1> QED
    BY <1>1, <1>2, <1>3, <1>4, <1>5, <1>6, <1>7, GotoStep
    DEF Inv, Locals, ChildAt, OwesAt, Verifying, Stages

-----------------------------------------------------------------------------
(* A new hub is started and verified.                                      *)

LEMMA BornStep ==
    ASSUME Inv, NEW l \in Launchers, NEW i, pc[l] = "start", job[l] = i,
           NEW p \in Pids, Starts(p, "hub", l),
           NEW j, j = [i EXCEPT !.pid = p], Continue(l, "record", j),
           calm' = (calm /\ \A k \in Launchers \ {l} : p \notin job[k].old \cup {job[k].pid}),
           UNCHANGED <<owners, termed, port, distinct, clean, tidy, pidFile, hit,
                       runs, outside>>
    PROVE  Inv'
  <1>1. /\ Sound' /\ p \notin Hubs
        /\ Hubs' = Hubs \cup {p} /\ Live' = Live \cup {p}
        /\ parent'[p] = l /\ \A q \in Pids \ {p} : parent'[q] = parent[q]
        /\ proc'[p] = "hub" /\ \A q \in Pids \ {p} : proc'[q] = proc[q]
        /\ p \notin termed
    <2>1. proc[p] = "none"
      BY DEF Starts
    <2>2. p \notin termed
      BY <2>1 DEF Inv, Sound, Found, Marked
    <2> QED
      BY <2>2, Birth DEF Inv
  <1>2. /\ i \in Job
        /\ tidy => TidyAt("start", i)
        /\ clean => CleanAt(l, "start", i)
        /\ Genuine(i)
        /\ calm => TermsWatched /\ (Taken => Fits("start", i))
    BY Known
  <1>3. "record" \in Stages /\ j \in Job /\ j.pid = p /\ j.pids = i.pids
    BY <1>2, Updates DEF Job, Stages, PidOrNone
  <1>4. /\ pc' = [pc EXCEPT ![l] = "record"] /\ job' = [job EXCEPT ![l] = j]
        /\ answer' = answer
    BY DEF Continue
  <1>5. Locals'
    <2>1. ForeignUntouched'
      BY DEF Inv, Locals, ForeignUntouched
    <2> QED
      BY <1>3, <1>4, <2>1, LocalsMove DEF Inv, Locals
  <1>6. TidyInv'
    <2>1. tidy' => tidy /\ TidyAt("record", j)'
      BY <1>1, <1>2, <1>3 DEF TidyAt, Verifying
    <2> QED
      BY <1>3, <1>4, <2>1, TidyMove DEF Inv
  <1>7. CleanInv'
    <2>1. clean' => clean /\ CleanAt(l, "record", j)'
      BY <1>1, <1>2, <1>3 DEF CleanAt, Verifying, Stages
    <2> QED
      BY <1>3, <1>4, <2>1, CleanMove DEF Inv
  <1>8. CalmInv'
    <2> SUFFICES ASSUME calm = TRUE,
                        \A k \in Launchers \ {l} : p \notin job[k].old \cup {job[k].pid}
                 PROVE  CalmInv'
      BY DEF CalmInv, Inv, Locals
    <2>1. /\ pc'[l] = "record" /\ job'[l] = j
          /\ \A k \in Launchers \ {l} : pc'[k] = pc[k] /\ job'[k] = job[k]
      BY <1>3, <1>4, Moved DEF Inv
    <2>2. TermsWatched'
      BY <1>1, <1>2, <2>1 DEF TermsWatched
    <2>3. ForeignHolds'
      <3>1. ~Taken
        BY <1>2 DEF Fits, Harmless, Doomed
      <3> QED
        BY <1>1, <3>1 DEF ForeignHolds, Taken
    <2>4. ASSUME NEW k \in Launchers
          PROVE  ChildAt(k, pc[k], job[k])'
      <3>1. CASE k = l
        BY <1>1, <1>3, <2>1, <3>1 DEF ChildAt
      <3>2. CASE k # l
        <4>1. ChildAt(k, pc[k], job[k]) /\ job[k].pid # p
          BY <3>2 DEF Inv, CalmInv
        <4>2. job[k].pid \in Hubs => job[k].pid \in Pids
          BY DEF Hubs
        <4> QED
          BY <1>1, <2>1, <3>2, <4>1, <4>2 DEF ChildAt
      <3> QED
        BY <3>1, <3>2
    <2>5. Claimed'
      BY <1>1, <1>3, <2>1 DEF Claimed, OwesAt, Verifying
    <2> QED
      BY <2>2, <2>3, <2>4, <2>5 DEF CalmInv
  <1>9. Ties'
    <2>1. pc' \in [Launchers -> Stages] /\ pc'[l] = "record" /\ job'[l] = j
          /\ \A k \in Launchers \ {l} : pc'[k] = pc[k] /\ job'[k] = job[k]
      BY <1>3, <1>4, Moved DEF Inv
    <2>2. Kin'
      BY <1>1, <2>1 DEF Inv, Ties, Kin
    <2>3. Genuine(j)'
      BY <1>1, <1>2, <1>3 DEF Genuine
    <2>4. \A k \in Launchers : Genuine(job[k])'
      BY <1>1, <2>1, <2>3, GenuineAhead DEF Inv
    <2> QED
      BY <2>2, <2>4 DEF Ties
  <1> QED
    BY <1>1, <1>5, <1>6, <1>7, <1>8, <1>9 DEF Inv

LEMMA StartStep ==
    ASSUME Inv, NEW l \in Launchers, Start(l)
    PROVE  Inv'
  <1>1. PICK i : i = job[l]
    OBVIOUS
  <1>2. pc[l] = "start" /\ UNCHANGED <<hit, distinct, runs, outside, tidy, pidFile>>
    BY DEF Start, At
  <1>3. tidy => TidyAt("start", i)
    BY <1>1, <1>2, Known
  <1>4. CASE Fault(l)
    BY <1>1, <1>2, <1>3, <1>4, FaultStep DEF TidyAt, Inv, Locals
  <1>5. ASSUME NEW p \in Pids, Starts(p, "hub", l),
               Continue(l, "record", [job[l] EXCEPT !.pid = p]),
               calm' = (calm /\ \A k \in Launchers \ {l} :
                                  p \notin job[k].old \cup {job[k].pid}),
               UNCHANGED <<owners, termed, port, clean>>
        PROVE  Inv'
    <2>1. PICK j : j = [i EXCEPT !.pid = p]
      OBVIOUS
    <2> QED
      BY <1>1, <1>2, <1>5, <2>1, BornStep
  <1> QED
    BY <1>4, <1>5 DEF Start

LEMMA RecordStep ==
    ASSUME Inv, NEW l \in Launchers, Record(l)
    PROVE  Inv'
  <1>1. PICK i : i = job[l]
    OBVIOUS
  <1>2. PICK saved \in BOOLEAN :
          /\ pidFile' = IF saved THEN i.pid ELSE pidFile
          /\ IF i.pid \in i.old
             THEN Fault(l) /\ tidy' = FALSE
             ELSE /\ Continue(l, "ident", [i EXCEPT !.tries = Retries])
                  /\ clean' = (clean /\ saved)
                  /\ calm' = (calm /\ saved)
                  /\ UNCHANGED <<system, tidy>>
    BY <1>1 DEF Record
  <1>3. pc[l] = "record" /\ UNCHANGED <<hit, distinct, runs, outside>>
    BY DEF Record
  <1>4. /\ i \in Job
        /\ tidy => TidyAt("record", i)
        /\ clean => CleanAt(l, "record", i)
        /\ Genuine(i)
        /\ calm => ChildAt(l, "record", i) /\ (Taken => Fits("record", i))
    BY <1>1, <1>3, Known
  <1>5. pidFile' \in PidOrNone
    BY <1>2, <1>4, Updates DEF Inv, Locals
  <1>6. CASE Fault(l) /\ tidy' = FALSE
    BY <1>1, <1>3, <1>5, <1>6, FaultStep
  <1>7. CASE /\ Continue(l, "ident", [i EXCEPT !.tries = Retries])
             /\ clean' = (clean /\ saved)
             /\ calm' = (calm /\ saved)
             /\ UNCHANGED <<system, tidy>>
    <2>1. PICK j : j = [i EXCEPT !.tries = Retries]
      OBVIOUS
    <2>2. j \in Job /\ j.pid = i.pid /\ j.pids = i.pids
      <3>1. Retries \in 0..Retries
        BY StartupAssumption
      <3> QED
        BY <1>4, <2>1, <3>1 DEF Job
    <2>3. Hubs' = Hubs /\ UNCHANGED <<owners, parent, termed, port>>
      BY <1>7, Still DEF Inv
    <2>4. tidy => TidyAt("ident", j)
      BY <1>4, <2>2 DEF TidyAt, Verifying
    <2>5. ASSUME clean' = TRUE
          PROVE  clean /\ CleanAt(l, "ident", j)'
      <3>1. clean = TRUE /\ pidFile' = i.pid
        BY <1>2, <1>7, <2>5 DEF Inv, Locals
      <3> QED
        BY <1>4, <2>2, <2>3, <3>1 DEF CleanAt, Verifying, Stages
    <2>6. ASSUME calm' = TRUE
          PROVE  /\ calm
                 /\ ~Taken
                 /\ ChildAt(l, "ident", j)
                 /\ OwesAt("record", i) => OwesAt("ident", j)
      <3>1. calm = TRUE
        BY <1>7, <2>6 DEF Inv, Locals
      <3> QED
        BY <1>1, <1>3, <1>4, <2>2, <3>1
        DEF Fits, Harmless, Doomed, ChildAt, OwesAt, Verifying
    <2>8. Genuine(j)
      BY <1>4, <2>2 DEF Genuine
    <2>7. clean' \in BOOLEAN /\ calm' \in BOOLEAN
      BY <1>7 DEF Inv, Locals
    <2> QED
      BY <1>1, <1>3, <1>5, <1>7, <2>1, <2>2, <2>4, <2>5, <2>6, <2>7, <2>8, AheadStep
      DEF Stages
  <1> QED
    BY <1>2, <1>6, <1>7

\* The child's state is polled again, or the launcher gives up.
LEMMA RetryStep ==
    ASSUME Inv, NEW l \in Launchers, NEW s \in {"ident", "own", "health"}, pc[l] = s,
           Retry(l), UNCHANGED <<hit, distinct, runs, outside, tidy, pidFile>>
    PROVE  Inv'
  <1>1. PICK i : i = job[l]
    OBVIOUS
  <1>2. /\ i \in Job
        /\ tidy => TidyAt(s, i)
        /\ clean => CleanAt(l, s, i)
        /\ Genuine(i)
        /\ calm => ChildAt(l, s, i) /\ (Taken => Fits(s, i))
    BY <1>1, Known
  <1>3. tidy => Live \subseteq {i.pid} /\ (~owners => port \in {NoPid, i.pid})
    BY <1>2 DEF TidyAt, Verifying
  <1>4. clean => /\ termed = {} /\ Hubs \subseteq {i.pid} /\ pidFile = i.pid
                 /\ i.pid \in Hubs => parent[i.pid] = l
                 /\ i.pid \notin Hubs => port \notin {NoPid, i.pid}
                 /\ ~owners => port \in Hubs \cup {NoPid}
    BY <1>2 DEF CleanAt, Verifying, Stages
  <1>5. calm => ~Taken
    BY <1>2 DEF Fits, Harmless, Doomed
  <1>6. tidy => TidyAt("giveup", i)
    BY <1>3 DEF TidyAt, Verifying
  <1>7. CASE (~Alive(l, i.pid) \/ parent[i.pid] # l) /\ Goto(l, "giveup", i)
    <2>1. i.pid \in Hubs => Alive(l, i.pid)
      BY HubsArePids DEF Alive, Hubs
    <2>2. clean => i.pid \notin Hubs
      BY <1>4, <1>7, <2>1
    <2>3. clean => CleanAt(l, "giveup", i)
      BY <1>4, <2>2 DEF CleanAt, Verifying
    <2>4. calm => i.pid \notin Hubs
      BY <1>2, <1>7, <2>1 DEF ChildAt, Verifying
    <2>5. calm => ChildAt(l, "giveup", i) /\ ~OwesAt(s, i)
      BY <2>4 DEF ChildAt, OwesAt, Verifying, Live
    <2> QED
      BY <1>1, <1>2, <1>5, <1>6, <1>7, <2>3, <2>5, GotoStep DEF Inv, Locals, Stages
  <1>8. CASE i.tries > 0 /\ Goto(l, "ident", [i EXCEPT !.tries = i.tries - 1])
    <2>1. PICK j : j = [i EXCEPT !.tries = i.tries - 1]
      OBVIOUS
    <2>2. i.tries - 1 \in 0..Retries
      <3>1. i.tries \in 0..Retries
        BY <1>2 DEF Job
      <3> QED
        BY <1>8, <3>1, StartupAssumption
    <2>3. j \in Job /\ j.pid = i.pid /\ Genuine(j)
      BY <1>2, <2>1, <2>2, Updates DEF Job, Genuine
    <2>4. tidy => TidyAt("ident", j)
      BY <1>3, <2>3 DEF TidyAt, Verifying
    <2>5. clean => CleanAt(l, "ident", j)
      BY <1>4, <2>3 DEF CleanAt, Verifying
    <2>6. calm => ChildAt(l, "ident", j) /\ (OwesAt(s, i) => OwesAt("ident", j))
      BY <1>2, <2>3 DEF ChildAt, OwesAt, Verifying
    <2>7. Goto(l, "ident", j) /\ pidFile' \in PidOrNone /\ "ident" \in Stages \ {"idle"}
      BY <1>8, <2>1 DEF Inv, Locals, Stages
    <2> QED
      BY <1>1, <1>5, <2>3, <2>4, <2>5, <2>6, <2>7, GotoStep
  <1>9. CASE Continue(l, "giveup", i) /\ clean' = FALSE /\ calm' = FALSE /\ UNCHANGED system
    BY <1>1, <1>2, <1>6, <1>9, AheadStep DEF Inv, Locals, Stages
  <1>10. [job[l] EXCEPT !.tries = @ - 1] = [i EXCEPT !.tries = i.tries - 1]
    BY <1>1
  <1> QED
    BY <1>1, <1>7, <1>8, <1>9, <1>10 DEF Retry

LEMMA IdentStep ==
    ASSUME Inv, NEW l \in Launchers, Ident(l)
    PROVE  Inv'
  <1>1. PICK i : i = job[l]
    OBVIOUS
  <1>2. pc[l] = "ident" /\ UNCHANGED <<hit, distinct, runs, outside, tidy, pidFile>>
    BY DEF Ident, At
  <1>3. /\ i \in Job
        /\ tidy => TidyAt("ident", i)
        /\ clean => CleanAt(l, "ident", i)
        /\ Genuine(i)
        /\ calm => ChildAt(l, "ident", i) /\ (Taken => Fits("ident", i))
    BY <1>1, <1>2, Known
  <1>4. CASE Goto(l, "own", i)
    <2>1. tidy => TidyAt("own", i)
      BY <1>3 DEF TidyAt, Verifying
    <2>2. clean => CleanAt(l, "own", i)
      BY <1>3 DEF CleanAt, Verifying, Stages
    <2>3. calm => /\ ~Taken
                  /\ ChildAt(l, "own", i)
                  /\ OwesAt("ident", i) => OwesAt("own", i)
      BY <1>1, <1>2, <1>3 DEF Fits, Harmless, Doomed, ChildAt, OwesAt, Verifying
    <2> QED
      BY <1>1, <1>2, <1>3, <1>4, <2>1, <2>2, <2>3, GotoStep DEF Inv, Locals, Stages
  <1>5. CASE Retry(l)
    BY <1>2, <1>5, RetryStep
  <1> QED
    BY <1>1, <1>4, <1>5 DEF Ident

LEMMA OwnStep ==
    ASSUME Inv, NEW l \in Launchers, Own(l)
    PROVE  Inv'
  <1>1. PICK i : i = job[l]
    OBVIOUS
  <1>2. pc[l] = "own" /\ UNCHANGED <<hit, distinct, runs, outside, tidy, pidFile>>
    BY DEF Own, At
  <1>3. /\ i \in Job
        /\ tidy => TidyAt("own", i)
        /\ clean => CleanAt(l, "own", i)
        /\ Genuine(i)
        /\ calm => ChildAt(l, "own", i) /\ (Taken => Fits("own", i))
    BY <1>1, <1>2, Known
  <1>4. CASE (IF owners THEN port = i.pid ELSE port # NoPid) /\ Goto(l, "health", i)
    <2>1. tidy => TidyAt("health", i)
      BY <1>3, <1>4 DEF TidyAt, Verifying
    <2>2. clean => CleanAt(l, "health", i)
      <3> SUFFICES ASSUME clean = TRUE PROVE CleanAt(l, "health", i)
        BY DEF Inv, Locals
      <3>1. /\ termed = {} /\ Hubs \subseteq {i.pid} /\ pidFile = i.pid
            /\ i.pid \in Hubs => parent[i.pid] = l
            /\ i.pid \notin Hubs => port \notin {NoPid, i.pid}
            /\ ~owners => port \in Hubs \cup {NoPid}
        BY <1>3 DEF CleanAt, Verifying, Stages
      <3>2. port = i.pid /\ port \in Hubs
        BY <1>4, <3>1
      <3> QED
        BY <3>1, <3>2 DEF CleanAt, Verifying
    <2>3. calm => /\ ~Taken
                  /\ ChildAt(l, "health", i)
                  /\ OwesAt("own", i) => OwesAt("health", i)
      BY <1>1, <1>2, <1>3 DEF Fits, Harmless, Doomed, ChildAt, OwesAt, Verifying
    <2> QED
      BY <1>1, <1>2, <1>3, <1>4, <2>1, <2>2, <2>3, GotoStep DEF Inv, Locals, Stages
  <1>5. CASE Retry(l)
    BY <1>2, <1>5, RetryStep
  <1> QED
    BY <1>1, <1>4, <1>5 DEF Own, Listening

LEMMA HealthStep ==
    ASSUME Inv, NEW l \in Launchers, Health(l)
    PROVE  Inv'
  <1>1. PICK i : i = job[l]
    OBVIOUS
  <1>2. pc[l] = "health" /\ UNCHANGED <<hit, distinct, runs, outside, tidy, pidFile>>
    BY DEF Health, At
  <1>3. /\ i \in Job
        /\ tidy => TidyAt("health", i)
        /\ clean => CleanAt(l, "health", i)
        /\ calm => TermsWatched /\ (Taken => Fits("health", i))
    BY <1>1, <1>2, Known
  <1>4. CASE Listening /\ Return(l, "ok") /\ UNCHANGED <<clean, calm>>
    <2>1. tidy => Live \subseteq {port}
      BY <1>3 DEF TidyAt
    <2>2. clean => port \in Live /\ port = pidFile
      BY <1>3 DEF CleanAt, Stages, Live
    <2>3. calm => port \in Hubs
      BY <1>3, <1>4 DEF Taken, Fits, Harmless, Doomed, Listening
    <2>4. calm => port \in Live \/ OthersOwe(l)
      BY <1>2, <1>3, <2>3, HubClaimed DEF Inv
    <2> QED
      BY <1>1, <1>2, <1>4, <2>1, <2>2, <2>3, <2>4, ReturnStep DEF Inv, Locals
  <1>5. CASE Retry(l)
    BY <1>2, <1>5, RetryStep
  <1> QED
    BY <1>4, <1>5 DEF Health

LEMMA GiveUpStep ==
    ASSUME Inv, NEW l \in Launchers, GiveUp(l)
    PROVE  Inv'
  <1>1. PICK i : i = job[l]
    OBVIOUS
  <1>2. /\ pc[l] = "giveup" /\ Continue(l, "erase", i)
        /\ UNCHANGED <<owners, proc, parent, port, pidFile, distinct, clean, calm, tidy,
                       runs, outside>>
    BY <1>1 DEF GiveUp, At
  <1>3. /\ i \in Job
        /\ tidy => TidyAt("giveup", i)
        /\ clean => CleanAt(l, "giveup", i)
        /\ Genuine(i)
        /\ calm => ChildAt(l, "giveup", i) /\ (Taken => Fits("giveup", i))
    BY <1>1, <1>2, Known
  <1>4. /\ pc' = [pc EXCEPT ![l] = "erase"] /\ job' = [job EXCEPT ![l] = i]
        /\ answer' = answer /\ "erase" \in Stages
    BY <1>2 DEF Continue, Stages
  <1>5. CASE /\ IsHub(l, i.pid)
             /\ termed' = termed \cup {i.pid} /\ hit' = hit \cup {proc[i.pid]}
    <2>1. i.pid \in Found
      BY <1>5, Updates, <1>3 DEF IsHub, Alive, Found, PidOrNone
    <2>2. Sound' /\ Hubs' = Hubs /\ Live' = Live \ {i.pid}
      BY <1>2, <1>5, <2>1, Told DEF Inv
    <2>3. i.pid \in Hubs => clean = FALSE /\ calm = FALSE
      BY <1>3 DEF CleanAt, ChildAt, Inv, Locals
    <2>4. ForeignUntouched'
      <3>1. i.pid \in Hubs \/ proc[i.pid] = "lookalike"
        BY <2>1, FoundHubs
      <3>2. owners /\ distinct => proc[i.pid] # "lookalike"
        BY <1>3, <2>1, FoundHubs DEF Genuine
      <3> QED
        BY <1>2, <1>5, <3>1, <3>2 DEF Inv, Locals, ForeignUntouched, Hubs, Marked
    <2>5. Locals'
      BY <1>2, <1>3, <1>4, <2>4, LocalsMove DEF Inv, Locals
    <2>6. tidy' => tidy /\ TidyAt("erase", i)'
      BY <1>2, <1>3, <2>2 DEF TidyAt, Verifying
    <2>7. TidyInv'
      BY <1>2, <1>3, <1>4, <2>6, TidyMove DEF Inv
    <2>8. CleanInv' /\ CalmInv'
      <3>1. CASE i.pid \in Hubs
        BY <1>2, <2>3, <3>1 DEF CleanInv, CalmInv
      <3>2. CASE i.pid \notin Hubs
        <4>1. Live' = Live
          BY <2>2, <3>2 DEF Live
        <4>2. clean' => clean /\ CleanAt(l, "erase", i)'
          BY <1>2, <1>3, <2>2 DEF CleanAt, Verifying
        <4>3. CleanInv'
          BY <1>2, <1>3, <1>4, <4>2, CleanMove DEF Inv
        <4>4. ASSUME calm' = TRUE
              PROVE  /\ calm
                     /\ pc[l] # "gone" /\ ~Taken
                     /\ ChildAt(l, "erase", i)'
                     /\ (\E k \in Launchers : answer'[k] = "ok") =>
                            port \in Live \/ OthersOwe(l)
          <5>1. calm = TRUE
            BY <1>2, <4>4
          <5>2. ~OwesAt("giveup", i)
            BY DEF OwesAt, Verifying
          <5>3. ChildAt(l, "erase", i)'
            BY <1>2, <2>2, <3>2 DEF ChildAt, Verifying
          <5>4. ~Taken
            BY <1>3, <5>1 DEF Fits, Harmless, Doomed
          <5> QED
            BY <1>1, <1>2, <1>4, <5>1, <5>2, <5>3, <5>4, Known
        <4>5. CalmInv'
          BY <1>2, <1>3, <1>4, <2>2, <4>1, <4>4, CalmMove DEF Inv
        <4> QED
          BY <4>3, <4>5
      <3> QED
        BY <3>1, <3>2
    <2>9. Ties'
      <3>1. pc' \in [Launchers -> Stages] /\ pc'[l] = "erase" /\ job'[l] = i
            /\ \A k \in Launchers \ {l} : pc'[k] = pc[k] /\ job'[k] = job[k]
        BY <1>3, <1>4, Moved DEF Inv
      <3>2. Kin'
        BY <1>2, <3>1, KinAhead DEF Inv
      <3>3. Genuine(i)'
        BY <1>2, <1>3 DEF Genuine
      <3>4. \A k \in Launchers : Genuine(job[k])'
        BY <1>2, <3>1, <3>3, GenuineAhead DEF Inv
      <3> QED
        BY <3>2, <3>4 DEF Ties
    <2> QED
      BY <2>2, <2>5, <2>7, <2>8, <2>9 DEF Inv
  <1>6. CASE ~IsHub(l, i.pid) /\ UNCHANGED <<termed, hit>>
    <2>1. i.pid \notin Hubs
      BY <1>6, HubsArePids, FoundHubs, HubSeen
    <2>2. tidy => TidyAt("erase", i)
      BY <1>3, <2>1 DEF TidyAt, Verifying, Live
    <2>3. clean => CleanAt(l, "erase", i)
      BY <1>3 DEF CleanAt, Verifying
    <2>4. calm => /\ ~Taken
                  /\ ChildAt(l, "erase", i)
                  /\ ~OwesAt("giveup", i)
      BY <1>1, <1>2, <1>3 DEF Fits, Harmless, Doomed, ChildAt, OwesAt, Verifying
    <2>5. Goto(l, "erase", i)
      BY <1>2, <1>6 DEF Goto, system
    <2> QED
      BY <1>1, <1>2, <1>3, <1>4, <1>6, <2>2, <2>3, <2>4, <2>5, GotoStep DEF Inv, Locals
  <1> QED
    BY <1>1, <1>5, <1>6 DEF GiveUp

LEMMA EraseStep ==
    ASSUME Inv, NEW l \in Launchers, Erase(l)
    PROVE  Inv'
  <1>1. PICK i : i = job[l]
    OBVIOUS
  <1>2. pc[l] = "erase" /\ UNCHANGED <<hit, distinct, runs, outside, tidy>> /\ Refuse(l)
    BY DEF Erase, At
  <1>3. /\ tidy => TidyAt("erase", i)
        /\ clean => CleanAt(l, "erase", i)
    BY <1>1, <1>2, Known
  <1>4. pidFile' \in PidOrNone
    BY DEF Erase, PidOrNone
  <1>5. tidy => Live \subseteq {port}
    BY <1>3 DEF TidyAt
  <1>6. clean => Taken
    BY <1>3 DEF CleanAt, Taken
  <1>7. ~OwesAt("erase", i)
    BY DEF OwesAt, Verifying
  <1> QED
    BY <1>1, <1>2, <1>4, <1>5, <1>6, <1>7, RefuseStep

LEMMA BeginStep ==
    ASSUME Inv, NEW l \in Launchers, Begin(l)
    PROVE  Inv'
  <1>1. /\ pc[l] = "idle" /\ pc' = [pc EXCEPT ![l] = "owners"]
        /\ UNCHANGED <<system, pidFile, job, hit, distinct, calm, outside>>
        /\ runs < MaxRuns /\ runs' = runs + 1
        /\ answer' = [k \in Launchers |-> IF k = l \/ AtRest THEN "none" ELSE answer[k]]
    BY DEF Begin
  <1>2. clean' => AtRest /\ termed = {} /\ Hubs \subseteq {port}
    BY DEF Begin
  <1>3. tidy' => tidy /\ AtRest
    BY DEF Begin
  <1>4. /\ Sound' /\ Hubs' = Hubs /\ Live' = Live
        /\ UNCHANGED <<owners, proc, parent, termed, port>>
    BY <1>1, Still DEF Inv
  <1>5. /\ pc'[l] = "owners" /\ \A k \in Launchers \ {l} : pc'[k] = pc[k]
        /\ pc' \in [Launchers -> Stages]
    BY <1>1 DEF Inv, Locals, Stages
  <1>6. AtRest => Alone' /\ \A k \in Launchers \ {l} : pc'[k] = "idle"
    BY <1>5 DEF AtRest, Alone
  <1>7. Locals'
    <2>1. answer' \in [Launchers -> {"none", "ok", "refused"}]
      BY <1>1 DEF Inv, Locals
    <2>2. runs' \in 0..MaxRuns
      BY <1>1, StartupAssumption DEF Inv, Locals
    <2>3. clean' \in BOOLEAN /\ tidy' \in BOOLEAN
      BY DEF Begin
    <2>4. ForeignUntouched'
      BY <1>1, <1>4 DEF Inv, Locals, ForeignUntouched
    <2> QED
      BY <1>1, <1>5, <2>1, <2>2, <2>3, <2>4 DEF Inv, Locals
  <1>8. TidyInv'
    <2> SUFFICES ASSUME tidy, AtRest PROVE TidyInv'
      BY <1>3 DEF TidyInv
    <2>1. Live \subseteq {port}
      BY DEF Inv, TidyInv
    <2>2. TidyAt("owners", job[l])'
      BY <1>4, <2>1 DEF TidyAt, Verifying
    <2>3. ASSUME NEW k \in Launchers, pc'[k] # "idle"
          PROVE  TidyAt(pc[k], job[k])'
      <3>1. k = l
        BY <1>6, <2>3
      <3> QED
        BY <1>5, <2>2, <3>1 DEF TidyAt
    <2> QED
      BY <1>4, <1>6, <2>1, <2>3 DEF TidyInv
  <1>9. CleanInv'
    <2> SUFFICES ASSUME AtRest, termed = {}, Hubs \subseteq {port} PROVE CleanInv'
      BY <1>2 DEF CleanInv
    <2>1. \A k \in Launchers : answer'[k] = "none"
      BY <1>1
    <2>2. CleanAt(l, "owners", job[l])'
      BY <1>4 DEF CleanAt, Verifying
    <2>3. ASSUME NEW k \in Launchers, pc'[k] # "idle"
          PROVE  CleanAt(k, pc[k], job[k])'
      <3>1. k = l
        BY <1>6, <2>3
      <3> QED
        BY <1>5, <2>2, <3>1 DEF CleanAt
    <2> QED
      BY <1>6, <2>1, <2>3 DEF CleanInv, Unanswered
  <1>10. CalmInv'
    <2> SUFFICES ASSUME calm PROVE CalmInv'
      BY <1>1 DEF CalmInv
    <2>1. TermsWatched'
      BY <1>1, <1>4, <1>5 DEF Inv, CalmInv, TermsWatched
    <2>2. ForeignHolds'
      <3> SUFFICES ASSUME Taken PROVE ForeignHolds'
        BY <1>4 DEF ForeignHolds, Taken
      <3>1. /\ Hubs = {}
            /\ \A k \in Launchers : Fits(pc[k], job[k]) /\ answer[k] # "ok"
        BY DEF Inv, CalmInv, ForeignHolds
      <3>2. \A k \in Launchers : Fits(pc[k], job[k])'
        BY <1>1, <1>4, <1>5, <3>1 DEF Fits, Harmless
      <3> QED
        BY <1>1, <1>4, <3>1, <3>2 DEF ForeignHolds
    <2>3. ASSUME NEW k \in Launchers
          PROVE  ChildAt(k, pc[k], job[k])'
      BY <1>1, <1>4, <1>5 DEF Inv, CalmInv, ChildAt, Verifying
    <2>4. ASSUME NEW k \in Launchers, answer'[k] = "ok"
          PROVE  Claimed'
      <3>1. answer[k] = "ok"
        BY <1>1, <2>4
      <3>2. CASE port \in Live
        BY <1>4, <3>2 DEF Claimed
      <3>3. ASSUME NEW m \in Launchers, OwesAt(pc[m], job[m])
            PROVE  Claimed'
        <4>1. m # l
          BY <1>1, <3>3 DEF OwesAt, Verifying
        <4> QED
          BY <1>1, <1>4, <1>5, <3>3, <4>1 DEF Claimed, OwesAt
      <3> QED
        BY <3>1, <3>2, <3>3 DEF Inv, CalmInv, Claimed
    <2> QED
      BY <2>1, <2>2, <2>3, <2>4 DEF CalmInv
  <1>11. Ties'
    <2>1. Kin'
      BY <1>4, <1>5 DEF Inv, Ties, Kin
    <2>2. \A k \in Launchers : Genuine(job[k])'
      BY <1>1, <1>4 DEF Inv, Ties, Genuine
    <2> QED
      BY <2>1, <2>2 DEF Ties
  <1> QED
    BY <1>4, <1>7, <1>8, <1>9, <1>10, <1>11 DEF Inv

LEMMA LauncherStep ==
    ASSUME Inv, NEW l \in Launchers, Begin(l) \/ Step(l)
    PROVE  Inv'
  BY BeginStep, OwnersStep, OccupiedStep, ClassifyStep, AnchorStep, StopStep,
     GoneStep, ReleaseStep, ForgetStep, StartStep, RecordStep, IdentStep,
     OwnStep, HealthStep, GiveUpStep, EraseStep DEF Step

-----------------------------------------------------------------------------
(* What happens outside the launchers.                                     *)

\* The launchers' own variables keep their types.
LEMMA LocalsKept ==
    ASSUME Inv, External, outside' \in 0..MaxOutside,
           distinct' \in BOOLEAN, distinct' => distinct,
           clean' \in BOOLEAN, calm' \in BOOLEAN, tidy' \in BOOLEAN
    PROVE  Locals'
  BY DEF Inv, Locals, External, ForeignUntouched

\* Nobody gets a new parent but init, who leaves nothing behind.
LEMMA TiesKept ==
    ASSUME Inv, External, distinct' = distinct,
           \A q \in Pids : parent'[q] \in {parent[q], "init"},
           \A q \in Pids : proc'[q] = "zombie" => parent'[q] \in Launchers,
           \A q \in Pids : proc'[q] = "lookalike" => proc[q] = "lookalike"
    PROVE  Ties'
  <1>1. UNCHANGED <<owners, pc, job>>
    BY DEF External
  <1>2. Kin'
    BY <1>1, StartupAssumption DEF Inv, Ties, Kin
  <1>3. \A l \in Launchers : Genuine(job[l])'
    BY <1>1 DEF Inv, Ties, Genuine
  <1> QED
    BY <1>2, <1>3 DEF Ties

\* What a process leaves behind when it ends does not look like the hub.
LEMMA TiesDeath ==
    ASSUME Inv, External, distinct' = distinct, NEW p \in Pids, Dies(p)
    PROVE  Ties'
  <1>1. /\ parent' = parent /\ proc'[p] \in {"none", "zombie"}
        /\ \A q \in Pids \ {p} : proc'[q] = proc[q]
        /\ proc'[p] = "zombie" => parent[p] \in Launchers
    BY Death DEF Inv
  <1>2. ASSUME NEW q \in Pids
        PROVE  /\ parent'[q] \in {parent[q], "init"}
               /\ proc'[q] = "zombie" => parent'[q] \in Launchers
               /\ proc'[q] = "lookalike" => proc[q] = "lookalike"
    <2>1. CASE q = p
      BY <1>1, <2>1
    <2>2. CASE q # p
      BY <1>1, <2>2 DEF Inv, Ties, Kin
    <2> QED
      BY <2>1, <2>2
  <1> QED
    BY <1>2, TiesKept

\* What makes a run refuse stays while programs without the marker do.
LEMMA ReasonKept ==
    ASSUME Taken \/ Suspects, UNCHANGED <<owners, pidFile, port>>, Hubs' \subseteq Hubs,
           \A q \in Pids : proc[q] \in {"server", "foreign"} => proc'[q] = proc[q]
    PROVE  (Taken \/ Suspects)'
  <1>1. Taken => Taken'
    BY DEF Taken
  <1>2. Suspects => Suspects'
    BY DEF Suspects
  <1> QED
    BY <1>1, <1>2

\* Hubs, signals and the port stay as they are, and hubs keep their parents.
LEMMA HubsKept ==
    ASSUME Inv, External, Hubs' = Hubs, Live' = Live, UNCHANGED <<termed, port>>,
           \A q \in Hubs : parent'[q] = parent[q],
           \A q \in Pids : proc[q] \in {"server", "foreign"} => proc'[q] = proc[q],
           tidy' => tidy, clean' => clean, calm' => calm
    PROVE  TidyInv' /\ CleanInv' /\ CalmInv'
  <1>1. UNCHANGED <<owners, pidFile, pc, job, answer>>
    BY DEF External
  <1>2. TidyInv'
    BY <1>1 DEF Inv, TidyInv, Alone, AtRest, TidyAt
  <1>3. CleanInv'
    <2>1. ASSUME NEW l \in Launchers, CleanAt(l, pc[l], job[l])
          PROVE  CleanAt(l, pc[l], job[l])'
      BY <1>1, <2>1 DEF CleanAt
    <2>2. (Taken \/ Suspects) => (Taken \/ Suspects)'
      BY <1>1, ReasonKept
    <2> QED
      BY <1>1, <2>1, <2>2 DEF Inv, CleanInv, Alone, Unanswered
  <1>4. CalmInv'
    <2> SUFFICES ASSUME calm PROVE CalmInv'
      BY DEF CalmInv
    <2>1. TermsWatched' /\ ForeignHolds'
      BY <1>1 DEF Inv, CalmInv, TermsWatched, ForeignHolds, Taken, Fits
    <2>2. ASSUME NEW l \in Launchers
          PROVE  ChildAt(l, pc[l], job[l])'
      BY <1>1 DEF Inv, CalmInv, ChildAt
    <2>3. Claimed => Claimed'
      BY <1>1 DEF Claimed, OwesAt
    <2> QED
      BY <1>1, <2>1, <2>2, <2>3 DEF Inv, CalmInv
  <1> QED
    BY <1>2, <1>3, <1>4

LEMMA BindStep ==
    ASSUME Inv, NEW p \in Pids, Bind(p)
    PROVE  Inv'
  <1>1. /\ port = NoPid /\ proc[p] \in Binders /\ port' = p
        /\ UNCHANGED <<owners, proc, parent, termed, distinct, outside>>
        /\ UNCHANGED <<pidFile, pc, job, answer>>
        /\ External
    BY DEF Bind, External
  <1>2. Hubs' = Hubs /\ Live' = Live /\ Found' = Found
    BY <1>1 DEF Hubs, Live, Found
  <1>3. tidy' => tidy /\ (p \in Live \/ owners)
    BY DEF Bind, Live
  <1>4. clean' => clean /\ (p \in Hubs \/ owners)
    BY DEF Bind, Hubs
  <1>5. calm' => calm /\ p \in Hubs
    BY DEF Bind, Hubs
  <1>6. Sound'
    BY <1>1, <1>2 DEF Inv, Sound, PidOrNone
  <1>7. Locals'
    <2>1. clean' \in BOOLEAN /\ calm' \in BOOLEAN /\ tidy' \in BOOLEAN
      BY DEF Bind
    <2> QED
      BY <1>1, <2>1, LocalsKept DEF Inv, Locals
  <1>8. p # NoPid /\ NoPid \notin Hubs /\ NoPid \notin Live
    BY StartupAssumption, HubsArePids DEF Live
  <1>9. TidyInv'
    <2> SUFFICES ASSUME tidy, p \in Live \/ owners PROVE TidyInv'
      BY <1>3 DEF TidyInv
    <2>1. ASSUME NEW l \in Launchers, NEW s, NEW j, TidyAt(s, j)
          PROVE  TidyAt(s, j)'
      BY <1>1, <1>2, <1>8, <2>1 DEF TidyAt, Verifying
    <2>2. ASSUME NEW l \in Launchers, pc[l] # "idle"
          PROVE  TidyAt(pc[l], job[l])'
      <3>1. PICK s, j : s = pc[l] /\ j = job[l]
        OBVIOUS
      <3>2. TidyAt(s, j)
        BY <2>2, <3>1 DEF Inv, TidyInv
      <3>3. TidyAt(s, j)'
        BY <2>1, <3>2
      <3> QED
        BY <1>1, <3>1, <3>3 DEF TidyAt
    <2>3. (AtRest => Live \subseteq {port})'
      BY <1>1, <1>2, <1>8 DEF Inv, TidyInv, AtRest
    <2> QED
      BY <1>1, <2>2, <2>3 DEF Inv, TidyInv, Alone
  <1>10. CleanInv'
    <2> SUFFICES ASSUME clean, p \in Hubs \/ owners PROVE CleanInv'
      BY <1>4 DEF CleanInv
    <2>1. ASSUME NEW l \in Launchers, NEW s, NEW j, CleanAt(l, s, j)
          PROVE  CleanAt(l, s, j)'
      <3>1. s \in {"owners", "occupied", "classify", "anchor", "stop", "gone", "release"}
               => Hubs = {}
        BY <1>1, <1>8, <2>1 DEF CleanAt
      <3>2. s \notin {"health", "giveup", "erase"}
        BY <1>1, <1>8, <2>1 DEF CleanAt
      <3>3. s \in Verifying => j.pid \in Hubs /\ Hubs \subseteq {j.pid} /\ parent[j.pid] = l
        BY <1>1, <2>1 DEF CleanAt
      <3>4. s \in {"forget", "start"} => Hubs = {} /\ owners
        BY <2>1 DEF CleanAt
      <3>5. s \in {"occupied", "classify"} /\ owners => j.pids = {}
        BY <1>1, <2>1 DEF CleanAt
      <3>6. /\ s \in Stages \ {"idle", "gone", "giveup", "erase"} => termed' = {}
            /\ s = "gone" => termed' \subseteq {j.pid}
            /\ s \in {"ident", "own", "health"} => pidFile' = j.pid
        BY <1>1, <2>1 DEF CleanAt
      <3>7. s \in Verifying =>
              /\ Hubs' \subseteq {j.pid}
              /\ j.pid \in Hubs' => parent'[j.pid] = l
              /\ j.pid \notin Hubs' => port' \notin {NoPid, j.pid}
              /\ ~owners' => port' \in Hubs' \cup {NoPid}
        BY <1>1, <1>2, <3>3
      <3> QED
        BY <1>1, <1>2, <1>8, <3>1, <3>2, <3>4, <3>5, <3>6, <3>7 DEF CleanAt
    <2>2. ASSUME NEW l \in Launchers, pc[l] # "idle"
          PROVE  CleanAt(l, pc[l], job[l])'
      <3>1. PICK s, j : s = pc[l] /\ j = job[l]
        OBVIOUS
      <3>2. CleanAt(l, s, j)
        BY <2>2, <3>1 DEF Inv, CleanInv
      <3>3. CleanAt(l, s, j)'
        BY <2>1, <3>2
      <3> QED
        BY <1>1, <3>1, <3>3 DEF CleanAt
    <2>3. tidy => \A l \in Launchers : answer[l] # "ok"
      BY <1>1, <1>8 DEF Inv, CleanInv
    <2>4. (\E l \in Launchers : answer[l] = "refused") => Suspects
      BY <1>1 DEF Inv, CleanInv, Taken
    <2>5. tidy' => \A l \in Launchers : answer'[l] # "ok"
      BY <1>1, <1>3, <2>3
    <2>6. (\E l \in Launchers : answer'[l] = "refused") => Suspects'
      BY <1>1, <2>4 DEF Suspects
    <2>7. Alone' /\ \A l \in Launchers : pc'[l] # "idle" => Unanswered'
      BY <1>1 DEF Inv, CleanInv, Alone, Unanswered
    <2> QED
      BY <1>1, <2>2, <2>5, <2>6, <2>7 DEF CleanInv
  <1>11. CalmInv'
    <2> SUFFICES ASSUME calm, p \in Hubs PROVE CalmInv'
      BY <1>5 DEF CalmInv
    <2>1. TermsWatched'
      BY <1>1, <1>2 DEF Inv, CalmInv, TermsWatched
    <2>2. ForeignHolds'
      BY <1>1, <1>2 DEF ForeignHolds, Taken
    <2>3. ASSUME NEW l \in Launchers
          PROVE  ChildAt(l, pc[l], job[l])'
      BY <1>1, <1>2 DEF Inv, CalmInv, ChildAt
    <2>4. Claimed => Claimed'
      BY <1>1, <1>2, <1>8 DEF Claimed, OwesAt
    <2> QED
      BY <1>1, <2>1, <2>2, <2>3, <2>4 DEF Inv, CalmInv
  <1>12. Ties'
    BY <1>1 DEF Inv, Ties, Kin, Genuine
  <1> QED
    BY <1>6, <1>7, <1>9, <1>10, <1>11, <1>12 DEF Inv

\* A machine that was tidy is tidy after any end of a process.
LEMMA DeathTidy ==
    ASSUME Inv, NEW p \in Pids, Dies(p), External, tidy' => tidy
    PROVE  TidyInv'
  <1> SUFFICES ASSUME tidy PROVE TidyInv'
    BY DEF TidyInv
  <1>1. /\ Live' = Live \ {p} /\ owners' = owners
        /\ port' = IF port = p THEN NoPid ELSE port
    BY Death DEF Inv
  <1>2. UNCHANGED <<pc, job>>
    BY DEF External
  <1>3. Live \subseteq {port} => Live' \subseteq {port'}
    BY <1>1
  <1>4. ASSUME NEW s, NEW j, TidyAt(s, j)
        PROVE  TidyAt(s, j)'
    <2>1. port' \in {port, NoPid}
      BY <1>1
    <2> QED
      BY <1>1, <1>3, <1>4, <2>1 DEF TidyAt, Verifying
  <1>5. ASSUME NEW l \in Launchers, pc[l] # "idle"
        PROVE  TidyAt(pc[l], job[l])'
    <2>1. PICK s, j : s = pc[l] /\ j = job[l]
      OBVIOUS
    <2>2. TidyAt(s, j)
      BY <1>5, <2>1 DEF Inv, TidyInv
    <2>3. TidyAt(s, j)'
      BY <1>4, <2>2
    <2> QED
      BY <1>2, <2>1, <2>3 DEF TidyAt
  <1> QED
    BY <1>2, <1>3, <1>5 DEF Inv, TidyInv, Alone, AtRest

\* A hub that cannot bind ends: what races for the port is a hub that lives, a
\* hub whose end another launcher waits for, or no launcher has promised one.
LEMMA BindFailsStep ==
    ASSUME Inv, NEW p \in Pids, BindFails(p)
    PROVE  Inv'
  <1>1. /\ p \in Hubs /\ port \notin {NoPid, p} /\ Dies(p) /\ External
        /\ UNCHANGED <<distinct, clean, calm, tidy, outside>>
        /\ UNCHANGED <<owners, pidFile, pc, job, answer>>
    BY DEF BindFails, Hubs, External, history
  <1>2. /\ Sound' /\ Hubs' = Hubs \ {p} /\ Live' = Live \ {p}
        /\ termed' = termed \ {p} /\ parent' = parent /\ port' = port
        /\ \A q \in Pids \ {p} : proc'[q] = proc[q]
    BY <1>1, Death DEF Inv
  <1>3. Locals'
    BY <1>1, LocalsKept DEF Inv, Locals
  <1>4. TidyInv'
    BY <1>1, DeathTidy
  <1>5. CleanInv'
    <2> SUFFICES ASSUME clean PROVE CleanInv'
      BY <1>1 DEF CleanInv
    <2>1. ASSUME NEW l \in Launchers, NEW s, NEW j, CleanAt(l, s, j)
          PROVE  CleanAt(l, s, j)'
      <3>1. s \notin {"owners", "occupied", "classify", "anchor", "stop", "gone",
                      "release", "forget", "start", "giveup", "erase"}
        BY <1>1, <2>1 DEF CleanAt
      <3>2. s \in Verifying =>
              /\ j.pid = p /\ Hubs = {p}
              /\ ~owners => port \in Hubs
        BY <1>1, <2>1 DEF CleanAt
      <3>3. s \in Verifying => owners /\ Hubs' = {} /\ j.pid = p
        BY <1>1, <1>2, <3>2
      <3>4. s # "health"
        BY <1>1, <2>1, <3>2 DEF CleanAt, Verifying
      <3>5. s \in Stages \ {"idle", "gone", "giveup", "erase"} => termed' = {}
        BY <1>2, <2>1 DEF CleanAt
      <3>6. s \in {"ident", "own", "health"} => pidFile' = j.pid
        BY <1>1, <2>1 DEF CleanAt
      <3> QED
        BY <1>1, <1>2, <3>1, <3>3, <3>4, <3>5, <3>6 DEF CleanAt
    <2>2. ASSUME NEW l \in Launchers, pc[l] # "idle"
          PROVE  CleanAt(l, pc[l], job[l])'
      <3>1. PICK s, j : s = pc[l] /\ j = job[l]
        OBVIOUS
      <3>2. CleanAt(l, s, j)
        BY <2>2, <3>1 DEF Inv, CleanInv
      <3>3. CleanAt(l, s, j)'
        BY <2>1, <3>2
      <3> QED
        BY <1>1, <3>1, <3>3 DEF CleanAt
    <2>3. (Taken \/ Suspects) => (Taken \/ Suspects)'
      <3>1. \A q \in Pids : proc[q] \in {"server", "foreign"} => proc'[q] = proc[q]
        BY <1>1, <1>2 DEF Hubs
      <3> QED
        BY <1>1, <1>2, <3>1, ReasonKept
    <2>4. tidy /\ (\E l \in Launchers : answer[l] = "ok") =>
             (port \in Live /\ (owners => port = pidFile))'
      BY <1>1, <1>2 DEF Inv, CleanInv
    <2> QED
      BY <1>1, <2>2, <2>3, <2>4 DEF Inv, CleanInv, Alone, Unanswered
  <1>6. CalmInv'
    <2> SUFFICES ASSUME calm PROVE CalmInv'
      BY <1>1 DEF CalmInv
    <2>1. TermsWatched /\ TermsWatched'
      BY <1>1, <1>2 DEF Inv, CalmInv, TermsWatched
    <2>2. port \in Hubs
      BY <1>1 DEF Inv, CalmInv, ForeignHolds, Taken
    <2>3. ForeignHolds'
      BY <1>1, <1>2, <2>2 DEF ForeignHolds, Taken
    <2>4. ASSUME NEW l \in Launchers
          PROVE  ChildAt(l, pc[l], job[l])'
      BY <1>1, <1>2 DEF Inv, CalmInv, ChildAt
    <2>5. Claimed'
      <3>1. CASE port \in Live
        BY <1>1, <1>2, <3>1 DEF Claimed
      <3>2. CASE port \in termed
        <4>1. PICK k \in Launchers : pc[k] = "gone"
          BY <2>1, <2>2, <3>2 DEF TermsWatched
        <4> QED
          BY <1>1, <4>1 DEF Claimed, OwesAt
      <3> QED
        BY <2>2, <3>1, <3>2 DEF Live
    <2> QED
      BY <2>1, <2>3, <2>4, <2>5 DEF CalmInv
  <1>7. Ties'
    BY <1>1, TiesDeath
  <1> QED
    BY <1>2, <1>3, <1>4, <1>5, <1>6, <1>7 DEF Inv

\* What has been told to end ends.
LEMMA ExitStep ==
    ASSUME Inv, NEW p \in Pids, Exit(p)
    PROVE  Inv'
  <1>1. /\ p \in termed /\ Dies(p) /\ External
        /\ UNCHANGED <<distinct, clean, calm, tidy, outside>>
        /\ UNCHANGED <<owners, pidFile, pc, job, answer>>
    BY DEF Exit, External, history
  <1>2. /\ Sound' /\ Hubs' = Hubs \ {p} /\ Live' = Live \ {p}
        /\ termed' = termed \ {p} /\ parent' = parent
        /\ port' = IF port = p THEN NoPid ELSE port
        /\ \A q \in Pids \ {p} : proc'[q] = proc[q]
    BY <1>1, Death DEF Inv
  <1>3. p \in Found /\ p \notin Live /\ Live' = Live
    BY <1>1, <1>2 DEF Inv, Sound, Live
  <1>8. port \notin Hubs => port' = port
    BY <1>2, <1>3, PortIsHub DEF Inv
  <1>4. Locals'
    BY <1>1, LocalsKept DEF Inv, Locals
  <1>5. TidyInv'
    BY <1>1, DeathTidy
  <1>6. CleanInv'
    <2> SUFFICES ASSUME clean PROVE CleanInv'
      BY <1>1 DEF CleanInv
    <2>1. ASSUME NEW l \in Launchers, NEW s \in Stages, NEW j, CleanAt(l, s, j)
          PROVE  CleanAt(l, s, j)'
      <3>1. s \in {"idle", "gone", "giveup", "erase"}
        BY <1>1, <2>1 DEF CleanAt
      <3>2. s = "gone" => Hubs \subseteq {port} /\ Hubs \subseteq j.old /\ termed \subseteq {j.pid}
        BY <2>1 DEF CleanAt
      <3>3. s = "gone" => Hubs' \subseteq {port'} /\ Hubs' \subseteq j.old /\ termed' \subseteq {j.pid}
        BY <1>2, <3>2
      <3>4. s \in {"giveup", "erase"} => Hubs' = {} /\ port' # NoPid
        BY <1>2, <1>8, <2>1 DEF CleanAt
      <3> QED
        BY <3>1, <3>3, <3>4 DEF CleanAt, Verifying
    <2>2. ASSUME NEW l \in Launchers, pc[l] # "idle"
          PROVE  CleanAt(l, pc[l], job[l])'
      <3>1. PICK s, j : s = pc[l] /\ j = job[l]
        OBVIOUS
      <3>2. s \in Stages /\ CleanAt(l, s, j)
        BY <2>2, <3>1 DEF Inv, Locals, CleanInv
      <3>3. CleanAt(l, s, j)'
        BY <2>1, <3>2
      <3> QED
        BY <1>1, <3>1, <3>3 DEF CleanAt
    <2>3. port \in Live => port' = port
      BY <1>2, <1>3
    <2>4. ASSUME Taken \/ Suspects
          PROVE  (Taken \/ Suspects)'
      <3>1. \A q \in Pids : proc[q] \in {"server", "foreign"} => proc'[q] = proc[q]
        BY <1>2, <1>3 DEF Found, Marked
      <3>2. CASE Taken
        BY <1>1, <1>2, <1>8, <3>2 DEF Taken
      <3>3. CASE Suspects
        BY <1>1, <3>1, <3>3 DEF Suspects
      <3> QED
        BY <2>4, <3>2, <3>3
    <2>5. tidy /\ (\E l \in Launchers : answer[l] = "ok") =>
             (port \in Live /\ (owners => port = pidFile))'
      BY <1>1, <1>3, <2>3 DEF Inv, CleanInv
    <2> QED
      BY <1>1, <2>2, <2>4, <2>5 DEF Inv, CleanInv, Alone, Unanswered
  <1>7. CalmInv'
    <2> SUFFICES ASSUME calm PROVE CalmInv'
      BY <1>1 DEF CalmInv
    <2>1. TermsWatched'
      BY <1>1, <1>2 DEF Inv, CalmInv, TermsWatched
    <2>2. ForeignHolds'
      <3>1. Taken' => Taken
        BY <1>2 DEF Taken
      <3> SUFFICES ASSUME Taken PROVE ForeignHolds'
        BY <3>1 DEF ForeignHolds
      <3>2. /\ Hubs' = {}
            /\ \A k \in Launchers : Fits(pc[k], job[k]) /\ answer[k] # "ok"
        BY <1>2 DEF Inv, CalmInv, ForeignHolds
      <3>3. port' = port
        BY <1>8 DEF Taken
      <3>4. \A k \in Launchers : Fits(pc[k], job[k])'
        BY <1>1, <3>2, <3>3 DEF Fits
      <3> QED
        BY <1>1, <3>2, <3>4 DEF ForeignHolds
    <2>3. ASSUME NEW l \in Launchers
          PROVE  ChildAt(l, pc[l], job[l])'
      BY <1>1, <1>2 DEF Inv, CalmInv, ChildAt
    <2>4. Claimed => Claimed'
      BY <1>1, <1>2, <1>3 DEF Claimed, OwesAt
    <2> QED
      BY <1>1, <2>1, <2>2, <2>3, <2>4 DEF Inv, CalmInv
  <1>9. Ties'
    BY <1>1, TiesDeath
  <1> QED
    BY <1>2, <1>4, <1>5, <1>6, <1>7, <1>9 DEF Inv

LEMMA CrashStep ==
    ASSUME Inv, NEW p \in Pids, Crash(p)
    PROVE  Inv'
  <1>1. /\ Dies(p) /\ External /\ clean' = FALSE /\ calm' = FALSE
        /\ UNCHANGED <<distinct, tidy>>
        /\ outside < MaxOutside /\ outside' = outside + 1
    BY DEF Crash, Disturbs
  <1>2. Sound'
    BY <1>1, Death DEF Inv
  <1>3. outside' \in 0..MaxOutside
    BY <1>1, StartupAssumption DEF Inv, Locals
  <1>4. Locals'
    BY <1>1, <1>3, LocalsKept DEF Inv, Locals
  <1> QED
    BY <1>1, <1>2, <1>4, DeathTidy, TiesDeath DEF Inv, CleanInv, CalmInv

LEMMA OutsiderStep ==
    ASSUME Inv, NEW p \in Pids, NEW kind \in {"hub"} \cup Others, Outsider(p, kind)
    PROVE  Inv'
  <1>1. /\ Starts(p, kind, "init") /\ External /\ UNCHANGED <<termed, port>>
        /\ outside < MaxOutside /\ outside' = outside + 1
        /\ distinct' = (distinct /\ ~(kind = "lookalike" /\ \E l \in Launchers : Holds(l, p)))
        /\ clean' = (clean /\ kind # "hub")
        /\ calm' = (calm /\ kind # "hub")
        /\ tidy' = (tidy /\ kind # "hub")
        /\ UNCHANGED <<owners, pc, job>>
    BY DEF Outsider, Disturbs, External
  <1>2. /\ Sound' /\ p \notin Hubs
        /\ Hubs' = IF kind = "hub" THEN Hubs \cup {p} ELSE Hubs
        /\ Live' = IF kind = "hub" THEN Live \cup {p} ELSE Live
        /\ \A q \in Pids \ {p} : parent'[q] = parent[q] /\ proc'[q] = proc[q]
        /\ parent'[p] = "init" /\ proc'[p] = kind /\ proc[p] = "none"
    BY <1>1, Birth DEF Inv
  <1>3. Locals'
    <2>1. outside' \in 0..MaxOutside
      BY <1>1, StartupAssumption DEF Inv, Locals
    <2>2. distinct' \in BOOLEAN /\ clean' \in BOOLEAN /\ calm' \in BOOLEAN /\ tidy' \in BOOLEAN
      BY <1>1
    <2>3. distinct' => distinct
      BY <1>1
    <2> QED
      BY <1>1, <2>1, <2>2, <2>3, LocalsKept
  <1>4. Ties'
    <2>1. Kin'
      <3> SUFFICES ASSUME NEW q \in Pids
                   PROVE  /\ parent'[q] \in Launchers => pc'[parent'[q]] # "idle"
                          /\ proc'[q] = "zombie" => parent'[q] \in Launchers
        BY DEF Kin
      <3>1. CASE q = p
        BY <1>2, <3>1, StartupAssumption DEF Others
      <3>2. CASE q # p
        BY <1>1, <1>2, <3>2 DEF Inv, Ties, Kin
      <3> QED
        BY <3>1, <3>2
    <2>2. ASSUME NEW l \in Launchers, owners, distinct' = TRUE,
                 NEW q \in Pids \cap (job[l].pids \cup {job[l].pid})
          PROVE  proc'[q] # "lookalike"
      <3>1. CASE q = p
        <4>1. Holds(l, p)
          BY <2>2, <3>1 DEF Holds
        <4> QED
          BY <1>1, <1>2, <2>2, <3>1, <4>1
      <3>2. CASE q # p
        <4>1. distinct
          BY <1>1, <2>2
        <4> QED
          BY <1>2, <2>2, <3>2, <4>1 DEF Inv, Ties, Genuine
      <3> QED
        BY <3>1, <3>2
    <2>3. distinct' \in BOOLEAN
      BY <1>1
    <2>4. \A l \in Launchers : Genuine(job[l])'
      BY <1>1, <2>2, <2>3 DEF Genuine
    <2> QED
      BY <2>1, <2>4 DEF Ties
  <1>5. CASE kind = "hub"
    BY <1>1, <1>2, <1>3, <1>4, <1>5 DEF Inv, TidyInv, CleanInv, CalmInv
  <1>6. CASE kind # "hub"
    <2>1. Hubs' = Hubs /\ Live' = Live /\ \A q \in Hubs : parent'[q] = parent[q]
      BY <1>2, <1>6 DEF Hubs
    <2>2. \A q \in Pids : proc[q] \in {"server", "foreign"} => proc'[q] = proc[q]
      BY <1>2
    <2>3. (tidy' => tidy) /\ (clean' => clean) /\ (calm' => calm)
      BY <1>1
    <2> QED
      BY <1>1, <1>2, <1>3, <1>4, <2>1, <2>2, <2>3, HubsKept DEF Inv
  <1> QED
    BY <1>5, <1>6

LEMMA ReapStep ==
    ASSUME Inv, NEW p \in Pids, Reap(p)
    PROVE  Inv'
  <1>1. /\ proc[p] = "zombie" /\ proc' = [proc EXCEPT ![p] = "none"]
        /\ parent' = [parent EXCEPT ![p] = "init"]
        /\ External /\ UNCHANGED <<termed, port, distinct, clean, calm, tidy, outside>>
        /\ owners' = owners
    BY DEF Reap, External, history
  <1>2. Hubs' = Hubs /\ p \notin Hubs /\ Found' = Found
    BY <1>1 DEF Hubs, Inv, Sound, Found, Marked
  <1>3. Live' = Live
    BY <1>1, <1>2 DEF Live
  <1>4. Sound'
    <2>1. proc' \in [Pids -> Kinds] /\ parent' \in [Pids -> Launchers \cup {"init"}]
      BY <1>1 DEF Inv, Sound, Kinds
    <2>2. port # NoPid => proc'[port] \in Binders
      BY <1>1 DEF Inv, Sound, PidOrNone, Binders
    <2> QED
      BY <1>1, <1>2, <2>1, <2>2 DEF Inv, Sound
  <1>5. Locals'
    BY <1>1, LocalsKept DEF Inv, Locals
  <1>6. \A q \in Hubs : parent'[q] = parent[q]
    BY <1>1, <1>2 DEF Hubs, Inv, Sound
  <1>7. \A q \in Pids : proc[q] \in {"server", "foreign"} => proc'[q] = proc[q]
    BY <1>1 DEF Inv, Sound
  <1>8. Ties'
    <2>1. ASSUME NEW q \in Pids
          PROVE  /\ parent'[q] \in {parent[q], "init"}
                 /\ proc'[q] = "zombie" => parent'[q] \in Launchers
                 /\ proc'[q] = "lookalike" => proc[q] = "lookalike"
      <3>1. CASE q = p
        BY <1>1, <3>1 DEF Inv, Sound
      <3>2. CASE q # p
        BY <1>1, <3>2 DEF Inv, Sound, Ties, Kin
      <3> QED
        BY <3>1, <3>2
    <2> QED
      BY <1>1, <2>1, TiesKept
  <1> QED
    BY <1>1, <1>2, <1>3, <1>4, <1>5, <1>6, <1>7, <1>8, HubsKept DEF Inv

LEMMA LostStep ==
    ASSUME Inv, NEW l \in Launchers, Lost(l)
    PROVE  Inv'
  <1>1. /\ Continue(l, "idle", NoJob) /\ Leaves(l)
        /\ clean' = FALSE /\ calm' = FALSE /\ tidy' = FALSE
        /\ outside < MaxOutside /\ outside' = outside + 1
        /\ UNCHANGED <<pidFile, hit, distinct, runs>>
    BY DEF Lost, Disturbs
  <1>2. /\ Sound' /\ owners' = owners
        /\ \A q \in Pids : parent[q] # l => parent'[q] = parent[q]
        /\ \A q \in Pids : parent[q] = l => parent'[q] = "init" /\ proc'[q] # "zombie"
        /\ \A q \in Pids : proc'[q] = proc[q] \/ (proc[q] = "zombie" /\ proc'[q] = "none")
    BY <1>1, Departure DEF Inv
  <1>3. pc' \in [Launchers -> Stages] /\ job' \in [Launchers -> Job] /\ answer' = answer
    BY <1>1, NoJobIsJob DEF Inv, Locals, Continue, Stages
  <1>4. outside' \in 0..MaxOutside
    BY <1>1, StartupAssumption DEF Inv, Locals
  <1>5. Locals'
    BY <1>1, <1>2, <1>3, <1>4 DEF Inv, Locals, ForeignUntouched
  <1>6. Ties'
    <2>1. PICK j \in Job : j = NoJob
      BY NoJobIsJob
    <2>2. /\ job'[l] = j
          /\ \A k \in Launchers \ {l} : pc'[k] = pc[k] /\ job'[k] = job[k]
      BY <1>1, <2>1 DEF Continue, Inv, Locals
    <2>3. Kin'
      BY <1>2, <2>2, KinLeft DEF Inv
    <2>4. Genuine(j)'
      BY <2>1, StartupAssumption DEF Genuine, NoJob
    <2>5. \A p \in Pids : proc'[p] = "lookalike" => proc[p] = "lookalike"
      BY <1>2
    <2>6. \A k \in Launchers : Genuine(job[k])'
      BY <1>1, <1>2, <2>2, <2>4, <2>5, GenuineAhead DEF Inv
    <2> QED
      BY <2>3, <2>6 DEF Ties
  <1> QED
    BY <1>1, <1>2, <1>5, <1>6 DEF Inv, TidyInv, CleanInv, CalmInv

-----------------------------------------------------------------------------
(* The invariant.                                                          *)

LEMMA InitOK == Init => Inv
  <1> SUFFICES ASSUME Init PROVE Inv
    OBVIOUS
  <1>1. PICK hub, other \in PidOrNone, kind \in Others :
          /\ hub = NoPid \/ hub # other
          /\ proc = [p \in Pids |-> CASE p = hub -> "hub"
                                      [] p = other -> kind
                                      [] OTHER -> "none"]
          /\ port \in IF hub # NoPid THEN {hub}
                      ELSE IF kind \in Binders THEN {NoPid, other} ELSE {NoPid}
    BY DEF Init, PidOrNone
  <1>2. proc \in [Pids -> Kinds] /\ \A p \in Pids : proc[p] # "zombie"
    <2>1. ASSUME NEW p \in Pids
          PROVE  proc[p] \in Kinds \ {"zombie"}
      <3>1. CASE p = hub
        <4>1. p # other
          BY <1>1, <3>1, StartupAssumption
        <4> QED
          BY <1>1, <3>1, <4>1 DEF Kinds
      <3>2. CASE p # hub /\ p = other
        BY <1>1, <3>2 DEF Kinds, Others
      <3>3. CASE p # hub /\ p # other
        BY <1>1, <3>3 DEF Kinds
      <3> QED
        BY <3>1, <3>2, <3>3
    <2> QED
      BY <1>1, <2>1
  <1>3. /\ Hubs \subseteq {hub}
        /\ hub \in Pids => hub \in Hubs
    <2>1. ASSUME NEW p \in Pids
          PROVE  proc[p] = "hub" <=> p = hub
      <3>1. CASE p = hub
        <4>1. hub # NoPid /\ hub # other
          BY <1>1, <3>1, StartupAssumption
        <4> QED
          BY <1>1, <3>1, <4>1
      <3>2. CASE p # hub /\ p = other
        BY <1>1, <3>2 DEF Others
      <3>3. CASE p # hub /\ p # other
        BY <1>1, <3>3
      <3> QED
        BY <3>1, <3>2, <3>3
    <2> QED
      BY <2>1 DEF Hubs
  <1>4. \A p \in Pids : p = other /\ p # hub => proc[p] = kind
    BY <1>1
  <1>5. port \in PidOrNone /\ (port # NoPid => proc[port] \in Binders)
    <2>1. CASE hub = NoPid
      <3>1. port = NoPid \/ (port = other /\ kind \in Binders)
        BY <1>1, <2>1
      <3> QED
        BY <1>1, <1>4, <2>1, <3>1, StartupAssumption DEF PidOrNone
    <2>2. CASE hub # NoPid
      <3>1. port = hub /\ hub \in Pids
        BY <1>1, <2>2 DEF PidOrNone
      <3> QED
        BY <1>3, <3>1 DEF Hubs, PidOrNone, Binders
    <2> QED
      BY <2>1, <2>2
  <1>6. Hubs \subseteq {port} /\ (port # NoPid /\ port \notin Hubs => Hubs = {})
    <2>1. CASE hub = NoPid
      BY <1>3, <2>1, HubsArePids
    <2>2. CASE hub # NoPid
      BY <1>1, <1>3, <2>2 DEF PidOrNone
    <2> QED
      BY <2>1, <2>2
  <1>7. Sound
    BY <1>2, <1>5 DEF Init, Sound
  <1>8. Locals
    <2>1. runs \in 0..MaxRuns /\ outside \in 0..MaxOutside
      BY StartupAssumption DEF Init
    <2> QED
      BY <2>1, NoJobIsJob DEF Init, Locals, ForeignUntouched, Stages, PidOrNone
  <1>9. TidyInv
    BY <1>6 DEF Init, TidyInv, Alone, Live
  <1>10. CleanInv
    BY DEF Init, CleanInv, Alone
  <1>11. CalmInv
    <2>1. owners => NoJob.pids \subseteq {port}
      BY DEF NoJob
    <2> QED
      BY <1>6, <2>1 DEF Init, CalmInv, TermsWatched, ForeignHolds, Taken, Fits, Harmless,
                        ChildAt, Verifying
  <1>12. Ties
    <2>1. Kin
      BY <1>2, StartupAssumption DEF Init, Kin
    <2>2. Genuine(NoJob)
      BY StartupAssumption DEF Genuine, NoJob
    <2>3. \A l \in Launchers : Genuine(job[l])
      BY <2>2 DEF Init, Genuine
    <2> QED
      BY <2>1, <2>3 DEF Ties
  <1> QED
    BY <1>7, <1>8, <1>9, <1>10, <1>11, <1>12 DEF Inv

LEMMA NextOK ==
    ASSUME Inv, [Next]_vars
    PROVE  Inv'
  <1>1. CASE \E l \in Launchers : Begin(l) \/ Step(l)
    BY <1>1, LauncherStep
  <1>2. CASE Environment
    BY <1>2, BindStep, BindFailsStep, ExitStep, CrashStep, OutsiderStep, ReapStep,
       LostStep DEF Environment
  <1>3. CASE UNCHANGED vars
    <2>1. /\ Sound' /\ Hubs' = Hubs /\ Live' = Live
          /\ UNCHANGED <<owners, proc, parent, termed, port>>
      BY <1>3, Still DEF Inv, vars
    <2>2. External /\ UNCHANGED <<distinct, clean, calm, tidy, outside>>
      BY <1>3, <2>1 DEF External, vars, history
    <2>3. Locals'
      BY <2>2, LocalsKept DEF Inv, Locals
    <2>4. TidyInv' /\ CleanInv' /\ CalmInv'
      BY <2>1, <2>2, HubsKept
    <2>5. Ties'
      BY <2>1, <2>2 DEF External, Inv, Ties, Kin, Genuine
    <2> QED
      BY <2>1, <2>3, <2>4, <2>5 DEF Inv
  <1> QED
    BY <1>1, <1>2, <1>3 DEF Next

\* The machine, the launchers' variables and the three accounts are in order.
THEOREM InOrder == Spec => []Inv
  <1> QED
    BY InitOK, NextOK, PTL DEF Spec

\* stop_hub_gracefully and the clean-up of a failed start signal only programs
\* that have the hub's marker in their command line, whoever has been given the
\* PIDs that the preflight has seen.  Where the owners of the port can be seen
\* these are hubs, as long as no held PID is given to a lookalike.
THEOREM OnlyMarkedHit == Spec => []ForeignUntouched
  <1>1. Inv => ForeignUntouched
    BY DEF Inv, Locals
  <1> QED
    BY <1>1, InOrder, PTL

LEMMA AtMostOne ==
    ASSUME NEW S, NEW x, S \subseteq {x}
    PROVE  Cardinality(S) <= 1
  <1>1. IsFiniteSet({x}) /\ Cardinality({x}) = 1
    BY FS_Singleton
  <1>2. Cardinality(S) <= Cardinality({x})
    BY <1>1, FS_Subset
  <1> QED
    BY <1>1, <1>2

\* Runs of run_startup that do not overlap never have two hubs run at once, but
\* for one that has been told to end.
THEOREM NeverTwoHubs == Spec => []OneHub
  <1>1. Inv => OneHub
    <2> SUFFICES ASSUME Inv, tidy PROVE Cardinality(Live) <= 1
      BY DEF OneHub, Live
    <2>1. CASE AtRest
      BY <2>1, AtMostOne DEF Inv, TidyInv
    <2>2. CASE ~AtRest
      <3>1. PICK l \in Launchers : pc[l] # "idle"
        BY <2>2 DEF AtRest
      <3>2. TidyAt(pc[l], job[l]) /\ pc[l] \in Stages
        BY <3>1 DEF Inv, Locals, TidyInv
      <3>3. Live \subseteq {port} \/ Live \subseteq {job[l].pid}
        BY <3>2 DEF TidyAt, Stages, Verifying
      <3> QED
        BY <3>3, AtMostOne
    <2> QED
      BY <2>1, <2>2
  <1> QED
    BY <1>1, InOrder, PTL

\* An "ok" that run_startup prints after a run that was alone is true: a hub
\* listens, and where owners can be seen the PID file names it.
THEOREM OkHolds == Spec => []OkIsTrue
  <1>1. Inv => OkIsTrue
    BY DEF Inv, CleanInv, OkIsTrue, Live
  <1> QED
    BY <1>1, InOrder, PTL

\* Whichever launcher of a race prints "ok" first, no other one takes the hub
\* away without putting another in its place.
THEOREM RaceEndsWithHub == Spec => []RaceLeavesHub
  <1>1. Inv => RaceLeavesHub
    <2> SUFFICES ASSUME Inv, AtRest, calm, \E l \in Launchers : answer[l] = "ok"
                 PROVE  port \in Hubs
      BY DEF RaceLeavesHub
    <2>1. Claimed
      BY DEF Inv, CalmInv
    <2>2. \A k \in Launchers : ~OwesAt(pc[k], job[k])
      BY DEF AtRest, OwesAt, Verifying
    <2> QED
      BY <2>1, <2>2 DEF Claimed, Live
  <1> QED
    BY <1>1, InOrder, PTL

\* A run of run_startup that nothing came in the way of has not refused, unless
\* another program has the port, or owners cannot be seen and the PID file names
\* a program that is not the hub or the tools may list one.
THEOREM Heals == Spec => []SelfHealing
  <1>1. Inv => SelfHealing
    BY DEF Inv, CleanInv, SelfHealing, Listening, Taken, Suspects
  <1> QED
    BY <1>1, InOrder, PTL

=============================================================================
