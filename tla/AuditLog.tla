------------------------------ MODULE AuditLog ------------------------------
(***************************************************************************)
(* The durable audit log (FileAuditStore of storage/audit_store.py): one   *)
(* JSON line per record, a cache of the newest Retention records, and a    *)
(* rewrite of the file when there are more.  Appends hold the store's lock *)
(* and so follow each other; reading and writing may fail, a write may be  *)
(* cut short, and the process may end at any point.                        *)
(***************************************************************************)
EXTENDS Integers, Sequences, SequencesExt

CONSTANTS
    Retention,   \* YASIN_AUDIT_RETENTION_MAX
    MaxRecords,  \* bound: records ever submitted
    MaxFaults    \* bound: failures and crashes

ASSUME AuditLogAssumption ==
    Retention \in Nat \ {0} /\ MaxRecords \in Nat /\ MaxFaults \in Nat

VARIABLES
    file,       \* the lines: a record, or 0 for one nobody can parse
    unended,    \* the last line lacks its newline
    cache,      \* _cache: <<TRUE, records>>, or <<FALSE, <<>>>> for None
    rows,       \* the local variable items of append
    stage,      \* where append is
    submitted,  \* records are numbered in the order of append
    degraded,   \* get_audit_persistence_status
    faults,
    acked,      \* history: records whose append succeeded
    spoiled,    \* history: those that were written onto an unended line
    passed      \* history: those of the file that the read into the cache broke off before

vars == <<file, unended, cache, rows, stage, submitted, degraded, faults, acked, spoiled, passed>>

NoCache == <<FALSE, <<>>>>

Init ==
    /\ file = <<>> /\ unended = FALSE
    /\ cache = NoCache /\ rows = <<>>
    /\ stage = "idle"
    /\ submitted = 0 /\ degraded = FALSE /\ faults = 0
    /\ acked = {} /\ spoiled = {} /\ passed = {}

-----------------------------------------------------------------------------
Newest(s) == IF Len(s) > Retention THEN SubSeq(s, Len(s) - Retention + 1, Len(s)) ELSE s

\* The records of the first lines that can be parsed.
Kept(lines) ==
    LET kept[n \in 0..Len(lines)] ==
            IF n = 0 THEN <<>>
            ELSE IF lines[n] = 0 THEN kept[n - 1]
            ELSE Append(kept[n - 1], lines[n])
    IN  kept

Readable(lines) == Kept(lines)[Len(lines)]

Fault == faults < MaxFaults /\ faults' = faults + 1

\* The records _load takes from the file before it ends, or before the read
\* breaks off at any line.
Reads == {Kept(file)[n] : n \in 0..Len(file)}

\* A read that broke off after the records of taken passes over the others.  (If
\* it took none, the cache begins after all of them and no rewrite drops one.)
PassedOver(taken) ==
    IF taken = <<>> THEN {} ELSE {r \in 1..submitted : Contains(file, r) /\ ~Contains(taken, r)}

\* What _load may return: the cached list, or the newest of what it reads; lines
\* that cannot be parsed are left out, and a read that fails keeps what it has.
Loads(items) ==
    \/ cache[1] /\ items = cache[2] /\ UNCHANGED <<faults, passed>>
    \/ ~cache[1] /\ items = Newest(Readable(file)) /\ UNCHANGED <<faults, passed>>
    \/ ~cache[1] /\ \E taken \in Reads :
          items = Newest(taken) /\ Fault /\ passed' = passed \cup PassedOver(taken)

\* append, under the lock: the cached list itself grows.
Submit ==
    /\ stage = "idle" /\ submitted < MaxRecords
    /\ submitted' = submitted + 1
    /\ \E items \in {cache[2]} \cup {Newest(taken) : taken \in Reads} :
          LET all == Append(items, submitted') IN
          /\ Loads(items)
          /\ cache' = <<TRUE, all>>
          /\ rows' = Newest(all)
          /\ stage' = IF Len(all) > Retention THEN "rewrite" ELSE "write"
    /\ UNCHANGED <<file, unended, degraded, acked, spoiled>>

Succeeds ==
    /\ stage' = "idle" /\ rows' = <<>>
    /\ cache' = <<TRUE, rows>>
    /\ degraded' = FALSE
    /\ acked' = acked \cup {submitted}

\* A line added to the file; it joins a line that has no end.
Added(line) == IF unended THEN [file EXCEPT ![Len(file)] = 0] ELSE Append(file, line)

Write ==
    /\ stage = "write"
    /\ file' = Added(submitted)
    /\ unended' = FALSE
    /\ spoiled' = IF unended THEN spoiled \cup {submitted} ELSE spoiled
    /\ Succeeds
    /\ UNCHANGED <<submitted, faults, passed>>

\* Nothing, a part of the line, the line or the line and its newline is written.
CutShort ==
    \/ UNCHANGED <<file, unended>>
    \/ unended' = TRUE /\ file' = Added(0)
    \/ unended' \in BOOLEAN /\ file' = Added(submitted)

\* The failure is recorded and swallowed; the cache keeps the record.
WriteFails ==
    /\ stage = "write" /\ Fault
    /\ CutShort
    /\ stage' = "idle" /\ rows' = <<>>
    /\ degraded' = TRUE
    /\ UNCHANGED <<cache, submitted, acked, spoiled, passed>>

\* Mutant: the file itself is opened for writing.
TruncateAndWrite ==
    /\ stage = "rewrite"
    /\ file' = <<>>
    /\ stage' = "replace"
    /\ UNCHANGED <<unended, cache, rows, submitted, degraded, faults, acked, spoiled, passed>>

\* _rewrite: a file beside it is written...
WriteTmp ==
    /\ stage = "rewrite"
    /\ stage' = "replace"
    /\ UNCHANGED <<file, unended, cache, rows, submitted, degraded, faults, acked, spoiled, passed>>

\* ...and renamed.
Replace ==
    /\ stage = "replace"
    /\ file' = rows
    /\ unended' = FALSE
    /\ Succeeds
    /\ UNCHANGED <<submitted, faults, spoiled, passed>>

\* The failure is raised; the cache keeps one record too many.
RewriteFails ==
    /\ stage \in {"rewrite", "replace"} /\ Fault
    /\ stage' = "idle" /\ rows' = <<>>
    /\ degraded' = TRUE
    /\ UNCHANGED <<file, unended, cache, submitted, acked, spoiled, passed>>

Crash ==
    /\ Fault
    /\ IF stage = "write" THEN CutShort ELSE UNCHANGED <<file, unended>>
    /\ cache' = NoCache /\ rows' = <<>>
    /\ stage' = "idle" /\ degraded' = FALSE
    /\ passed' = {r \in passed : ~Contains(file', r)}
    /\ UNCHANGED <<submitted, acked, spoiled>>

Next == Submit \/ Write \/ WriteFails \/ WriteTmp \/ Replace \/ RewriteFails \/ Crash

Spec == Init /\ [][Next]_vars

-----------------------------------------------------------------------------
(* Properties.                                                             *)

\* Whatever fails or crashes, a record whose append succeeded can be read back
\* from the file as long as it is among the newest Retention ones, with two
\* exceptions: its append followed a write that left a line without its end, or a
\* read that filled the cache broke off between an earlier record and this one,
\* and no restart has found it in the file since.  (_load keeps what it took before
\* an OSError, and the next rewrite takes that for the whole file.)
AcknowledgedKept ==
    \A r \in acked \ (spoiled \cup passed) :
       r + Retention > submitted => Contains(file, r)

=============================================================================
