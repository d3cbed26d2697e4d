------------------------ MODULE Integrations_proofs ------------------------
(***************************************************************************)
(* Proofs about Integrations for any items, correlations, pull requests    *)
(* and bounds: what the correlation index says is true and stays, the      *)
(* executions it does not reach are reported, GitHub moves the right one,  *)
(* an item has one execution under way, and a sync pass leaves the board   *)
(* with the newest one.                                                    *)
(***************************************************************************)
EXTENDS Integrations, FiniteSetTheorems, SequenceTheorems,
        WellFoundedInduction, TLAPS

Execution == [status : Status, item : Items, corr : Corrs, again : BOOLEAN]

ReadyEvent == [corr : Corrs, item : Items]

Bound == [exec : 1..MaxExecs, item : Items \cup {Nil}, repo : Repos \cup {Nil},
          pr : Numbers \cup {Nil}, sha : PRs \cup {Nil}]

Index ==
    [rec : [Corrs -> {NoRecord} \cup Bound],
     byExec : [1..MaxExecs -> Corrs \cup {Nil}],
     byItem : [Items -> Corrs \cup {Nil}],
     byPr : [Keys -> Corrs \cup {Nil}],
     bySha : [PRs -> Corrs \cup {Nil}]]

Hub ==
    [events : Seq(ReadyEvent), processed : SUBSET Corrs,
     itemExec : [Items -> 0..MaxExecs], index : Index]

Labels == {Label(s) : s \in Status} \cup {Nil}

HubTypes ==
    /\ executions \in Seq(Execution) /\ Len(executions) <= MaxExecs
    /\ hub \in Hub
    /\ restarts \in Nat /\ born \in 0..Len(executions)

BoardTypes ==
    /\ board \in [Items -> [label : Labels, exec : Nat, corr : Corrs \cup {Nil}]]
    /\ pass \in [stage : {"idle", "next", "push"}, left : Seq(Nat), label : Labels,
                 clean : SUBSET Items]

TypeInv == HubTypes /\ BoardTypes

Claims ==
    [exec : 1..MaxExecs, corr : Corrs, item : Items \cup {Nil},
     repo : Repos \cup {Nil}, pr : Numbers \cup {Nil}, sha : PRs \cup {Nil}]

-----------------------------------------------------------------------------
(* The correlation index.                                                  *)

\* A record and its execution are noted under each other, and the record's item
\* under the record.
Sound(ix, ex) ==
    /\ \A c \in Corrs :
          ix.rec[c] # NoRecord =>
             /\ ix.rec[c].exec \in DOMAIN ex /\ ix.byExec[ix.rec[c].exec] = c
             /\ ix.rec[c].item # Nil => ix.byItem[ix.rec[c].item] = c
    /\ \A e \in 1..MaxExecs : ix.byExec[e] # Nil => ix.rec[ix.byExec[e]].exec = e

\* What was bound stays bound to the same.
Extends(ix, jx) ==
    /\ \A i \in Items : ix.byItem[i] # Nil => jx.byItem[i] = ix.byItem[i]
    /\ \A k \in Keys : ix.byPr[k] # Nil => jx.byPr[k] = ix.byPr[k]
    /\ \A c \in Corrs : ix.rec[c] # NoRecord => jx.rec[c].exec = ix.rec[c].exec

LEMMA BoundIsRecord ==
    ASSUME NEW r \in Bound
    PROVE  r # NoRecord
  <1>1. r.exec # 0 /\ NoRecord.exec = 0
    BY DEF Bound, NoRecord
  <1> QED
    BY <1>1

\* What becomes of a record.
LEMMA MergedFacts ==
    ASSUME NEW old \in {NoRecord} \cup Bound, NEW claim \in Claims
    PROVE  LET r == Merged(old, claim)
           IN  /\ r \in Bound /\ r.exec = claim.exec
               /\ \/ r.item = claim.item
                  \/ claim.item = Nil /\ old # NoRecord /\ r.item = old.item
               /\ \/ r.repo = claim.repo
                  \/ claim.repo = Nil /\ old # NoRecord /\ r.repo = old.repo
               /\ \/ r.pr = claim.pr
                  \/ claim.pr = Nil /\ old # NoRecord /\ r.pr = old.pr
               /\ \/ r.sha = claim.sha
                  \/ claim.sha = Nil /\ old # NoRecord /\ r.sha = old.sha
  <1> DEFINE r == Merged(old, claim)
  <1>1. CASE old = NoRecord
    <2>1. r = [exec |-> claim.exec, item |-> claim.item, repo |-> claim.repo,
               pr |-> claim.pr, sha |-> claim.sha]
      BY <1>1 DEF Merged
    <2> HIDE DEF r
    <2>2. /\ r \in Bound /\ r.exec = claim.exec
          /\ r.item = claim.item \/ (claim.item = Nil /\ old # NoRecord /\ r.item = old.item)
          /\ r.repo = claim.repo \/ (claim.repo = Nil /\ old # NoRecord /\ r.repo = old.repo)
          /\ r.pr = claim.pr \/ (claim.pr = Nil /\ old # NoRecord /\ r.pr = old.pr)
          /\ r.sha = claim.sha \/ (claim.sha = Nil /\ old # NoRecord /\ r.sha = old.sha)
      BY <2>1 DEF Claims, Bound
    <2> QED
      BY <2>2 DEF r
  <1>2. CASE old # NoRecord
    <2>1. r = [exec |-> claim.exec,
               item |-> IF claim.item # Nil THEN claim.item ELSE old.item,
               repo |-> IF claim.repo # Nil THEN claim.repo ELSE old.repo,
               pr |-> IF claim.pr # Nil THEN claim.pr ELSE old.pr,
               sha |-> IF claim.sha # Nil THEN claim.sha ELSE old.sha]
      BY <1>2 DEF Merged
    <2> HIDE DEF r
    <2>2. /\ r \in Bound /\ r.exec = claim.exec
          /\ r.item = claim.item \/ (claim.item = Nil /\ old # NoRecord /\ r.item = old.item)
          /\ r.repo = claim.repo \/ (claim.repo = Nil /\ old # NoRecord /\ r.repo = old.repo)
          /\ r.pr = claim.pr \/ (claim.pr = Nil /\ old # NoRecord /\ r.pr = old.pr)
          /\ r.sha = claim.sha \/ (claim.sha = Nil /\ old # NoRecord /\ r.sha = old.sha)
      BY <1>2, <2>1 DEF Claims, Bound
    <2> QED
      BY <2>2 DEF r
  <1> QED
    BY <1>1, <1>2

\* What Record changes.
LEMMA RecordFacts ==
    ASSUME NEW ix \in Index, NEW claim \in Claims
    PROVE  LET c == claim.corr
               r == Merged(ix.rec[c], claim)
               jx == Record(ix, claim)
           IN  /\ jx \in Index
               /\ jx.rec[c] = r
               /\ \A d \in Corrs : d # c => jx.rec[d] = ix.rec[d]
               /\ \A e \in 1..MaxExecs :
                     jx.byExec[e] = IF e = claim.exec THEN c ELSE ix.byExec[e]
               /\ \A i \in Items :
                     jx.byItem[i] = IF i = r.item THEN c ELSE ix.byItem[i]
               /\ \A k \in Keys :
                     jx.byPr[k] = IF r.pr # Nil /\ r.repo # Nil /\ k = <<r.repo, r.pr>>
                                  THEN c ELSE ix.byPr[k]
               /\ \A p \in PRs : jx.bySha[p] = IF p = r.sha THEN c ELSE ix.bySha[p]
  <1> DEFINE c == claim.corr
             r == Merged(ix.rec[c], claim)
             jx == Record(ix, claim)
  <1>1. c \in Corrs /\ ix.rec[c] \in {NoRecord} \cup Bound
    BY DEF Claims, Index
  <1>2. r \in Bound /\ r.exec = claim.exec
    BY <1>1, MergedFacts
  <1>3. jx = [rec |-> [ix.rec EXCEPT ![c] = r],
              byExec |-> [ix.byExec EXCEPT ![r.exec] = c],
              byItem |-> [i \in Items |-> IF i = r.item THEN c ELSE ix.byItem[i]],
              byPr |-> [k \in Keys |-> IF (r.pr # Nil /\ r.repo # Nil) /\ k = <<r.repo, r.pr>>
                                       THEN c ELSE ix.byPr[k]],
              bySha |-> [p \in PRs |-> IF p = r.sha THEN c ELSE ix.bySha[p]]]
    BY DEF Record
  <1> HIDE DEF jx, r
  <1>4. /\ jx.rec = [ix.rec EXCEPT ![c] = r]
        /\ jx.byExec = [ix.byExec EXCEPT ![r.exec] = c]
        /\ jx.byItem = [i \in Items |-> IF i = r.item THEN c ELSE ix.byItem[i]]
        /\ jx.byPr = [k \in Keys |-> IF (r.pr # Nil /\ r.repo # Nil) /\ k = <<r.repo, r.pr>>
                                     THEN c ELSE ix.byPr[k]]
        /\ jx.bySha = [p \in PRs |-> IF p = r.sha THEN c ELSE ix.bySha[p]]
    BY <1>3
  <1>5. claim.exec \in 1..MaxExecs
    BY DEF Claims
  <1>6. /\ ix.rec \in [Corrs -> {NoRecord} \cup Bound]
        /\ ix.byExec \in [1..MaxExecs -> Corrs \cup {Nil}]
        /\ ix.byItem \in [Items -> Corrs \cup {Nil}]
        /\ ix.byPr \in [Keys -> Corrs \cup {Nil}]
        /\ ix.bySha \in [PRs -> Corrs \cup {Nil}]
    BY DEF Index
  <1>7. /\ jx.rec \in [Corrs -> {NoRecord} \cup Bound]
        /\ jx.byExec \in [1..MaxExecs -> Corrs \cup {Nil}]
        /\ jx.byItem \in [Items -> Corrs \cup {Nil}]
        /\ jx.byPr \in [Keys -> Corrs \cup {Nil}]
        /\ jx.bySha \in [PRs -> Corrs \cup {Nil}]
    BY <1>1, <1>2, <1>4, <1>5, <1>6
  <1>8. jx \in Index
    <2>1. jx = [rec |-> jx.rec, byExec |-> jx.byExec, byItem |-> jx.byItem,
                byPr |-> jx.byPr, bySha |-> jx.bySha]
      BY <1>3
    <2> QED
      BY <1>7, <2>1 DEF Index
  <1>9. jx.rec[c] = r /\ \A d \in Corrs : d # c => jx.rec[d] = ix.rec[d]
    BY <1>1, <1>4, <1>6
  <1>10. \A e \in 1..MaxExecs :
           jx.byExec[e] = IF e = claim.exec THEN c ELSE ix.byExec[e]
    <2>1. jx.byExec = [ix.byExec EXCEPT ![claim.exec] = c]
      BY <1>2, <1>4
    <2> QED
      BY <1>6, <2>1
  <1>11. \A i \in Items : jx.byItem[i] = IF i = r.item THEN c ELSE ix.byItem[i]
    BY <1>4
  <1>12. \A k \in Keys :
            jx.byPr[k] = IF r.pr # Nil /\ r.repo # Nil /\ k = <<r.repo, r.pr>>
                         THEN c ELSE ix.byPr[k]
    BY <1>4
  <1>13. \A p \in PRs : jx.bySha[p] = IF p = r.sha THEN c ELSE ix.bySha[p]
    BY <1>4
  <1> QED
    BY <1>8, <1>9, <1>10, <1>11, <1>12, <1>13 DEF r, jx

\* Two bindings of one execution are of one correlation.
LEMMA NoConflict ==
    ASSUME NEW ix \in Index, NEW ex \in Seq(Execution), Sound(ix, ex),
           NEW claim \in Claims, claim.exec \in DOMAIN ex,
           ix.byExec[claim.exec] \in {Nil, claim.corr}, ~Conflict(ix, claim)
    PROVE  /\ claim.item # Nil => ix.byItem[claim.item] \in {Nil, claim.corr}
           /\ claim.pr # Nil /\ claim.repo # Nil =>
                 ix.byPr[<<claim.repo, claim.pr>>] \in {Nil, claim.corr}
           /\ ix.rec[claim.corr] # NoRecord => ix.rec[claim.corr].exec = claim.exec
  <1>1. ASSUME NEW b \in Corrs \cup {Nil}, ~Elsewhere(ix, b, claim)
        PROVE  b \in {Nil, claim.corr}
    <2> SUFFICES ASSUME b # Nil, b # claim.corr PROVE FALSE
      OBVIOUS
    <2>1. b \in Corrs /\ ix.rec[b].exec = claim.exec
      BY <1>1 DEF Elsewhere
    <2>2. claim.exec # 0 /\ NoRecord.exec = 0
      BY DEF Claims, NoRecord
    <2>3. ix.byExec[claim.exec] = b
      BY <2>1, <2>2 DEF Sound
    <2>4. b # Nil /\ b # claim.corr
      OBVIOUS
    <2> QED
      BY <2>3, <2>4
  <1>2. claim.item # Nil => ix.byItem[claim.item] \in Corrs \cup {Nil}
    BY DEF Claims, Index
  <1>3. claim.pr # Nil /\ claim.repo # Nil =>
           ix.byPr[<<claim.repo, claim.pr>>] \in Corrs \cup {Nil}
    BY DEF Claims, Index, Keys
  <1> QED
    BY <1>1, <1>2, <1>3 DEF Conflict

\* Registering keeps the index sound.
LEMMA RegisteredSound ==
    ASSUME NEW ix \in Index, NEW ex \in Seq(Execution), Sound(ix, ex),
           NEW claim \in Claims, claim.exec \in DOMAIN ex,
           ix.byExec[claim.exec] \in {Nil, claim.corr}
    PROVE  Registered(ix, claim) \in Index /\ Sound(Registered(ix, claim), ex)
  <1>1. CASE Conflict(ix, claim)
    BY <1>1 DEF Registered
  <1>2. CASE ~Conflict(ix, claim)
    <2> DEFINE c == claim.corr
               r == Merged(ix.rec[c], claim)
               jx == Record(ix, claim)
    <2>1. Registered(ix, claim) = jx
      BY <1>2 DEF Registered
    <2>2. /\ jx \in Index /\ jx.rec[c] = r
          /\ \A d \in Corrs : d # c => jx.rec[d] = ix.rec[d]
          /\ \A e \in 1..MaxExecs :
                jx.byExec[e] = IF e = claim.exec THEN c ELSE ix.byExec[e]
          /\ \A i \in Items : jx.byItem[i] = IF i = r.item THEN c ELSE ix.byItem[i]
      BY RecordFacts
    <2>3. c \in Corrs /\ ix.rec[c] \in {NoRecord} \cup Bound /\ claim.exec \in 1..MaxExecs
      BY DEF Claims, Index
    <2>4. /\ r \in Bound /\ r.exec = claim.exec
          /\ r.item = claim.item \/ (ix.rec[c] # NoRecord /\ r.item = ix.rec[c].item)
      BY <2>3, MergedFacts
    <2> HIDE DEF jx, r
    <2>5. r.item # Nil => r.item \in Items /\ ix.byItem[r.item] \in {Nil, c}
      BY <1>2, <2>3, <2>4, NoConflict DEF Sound, Bound
    <2>6. ASSUME NEW d \in Corrs, jx.rec[d] # NoRecord
          PROVE  /\ jx.rec[d].exec \in DOMAIN ex /\ jx.byExec[jx.rec[d].exec] = d
                 /\ jx.rec[d].item # Nil => jx.byItem[jx.rec[d].item] = d
      <3>1. CASE d = c
        BY <2>2, <2>3, <2>4, <2>5, <3>1
      <3>2. CASE d # c
        <4>1. jx.rec[d] = ix.rec[d] /\ ix.rec[d] # NoRecord
          BY <2>2, <2>6, <3>2
        <4>2. ix.rec[d] \in Bound
          BY <4>1 DEF Index
        <4>3. ix.rec[d].item # Nil =>
                 ix.rec[d].item \in Items /\ ix.byItem[ix.rec[d].item] = d
          BY <4>1, <4>2 DEF Sound, Bound
        <4>4. d # Nil
          BY IntegrationsAssumption
        <4>5. ix.rec[d].item # Nil => ix.rec[d].item # r.item
          BY <2>5, <3>2, <4>3, <4>4
        <4>6. ix.rec[d].item # Nil => jx.byItem[ix.rec[d].item] = d
          BY <2>2, <4>3, <4>5
        <4>7. ix.rec[d].exec \in DOMAIN ex /\ ix.byExec[ix.rec[d].exec] = d
          BY <4>1 DEF Sound
        <4>8. ix.rec[d].exec \in 1..MaxExecs
          BY <4>2 DEF Bound
        <4>9. ix.rec[d].exec # claim.exec
          BY <3>2, <4>4, <4>7
        <4>10. jx.byExec[ix.rec[d].exec] = d
          BY <2>2, <4>7, <4>8, <4>9
        <4> QED
          BY <4>1, <4>6, <4>7, <4>10
      <3> QED
        BY <3>1, <3>2
    <2>7. ASSUME NEW e \in 1..MaxExecs, jx.byExec[e] # Nil
          PROVE  jx.rec[jx.byExec[e]].exec = e
      <3>1. CASE e = claim.exec
        BY <2>2, <2>4, <3>1
      <3>2. CASE e # claim.exec
        <4>0. ix.byExec[e] \in Corrs \cup {Nil}
          BY DEF Index
        <4>1. jx.byExec[e] = ix.byExec[e] /\ ix.byExec[e] \in Corrs
          BY <2>2, <2>7, <3>2, <4>0
        <4>2. ix.rec[ix.byExec[e]].exec = e /\ e # 0
          BY <2>7, <4>1 DEF Sound
        <4>3. ix.rec[ix.byExec[e]] # NoRecord
          BY <4>2 DEF NoRecord
        <4>4. ix.byExec[e] # c
          BY <1>2, <3>2, <4>2, <4>3, NoConflict
        <4> QED
          BY <2>2, <4>1, <4>2, <4>4
      <3> QED
        BY <3>1, <3>2
    <2> QED
      BY <2>1, <2>2, <2>6, <2>7 DEF Sound
  <1> QED
    BY <1>1, <1>2

\* A claim says all there is to say of pull requests of what it adds to.
Full(ix, claim) ==
    LET r == ix.rec[claim.corr]
    IN r # NoRecord /\ r.exec = claim.exec =>
          claim.repo # Nil /\ (claim.pr = Nil => r.pr = Nil)

LEMMA RegisteredExtends ==
    ASSUME NEW ix \in Index, NEW ex \in Seq(Execution), Sound(ix, ex),
           NEW claim \in Claims, claim.exec \in DOMAIN ex,
           ix.byExec[claim.exec] \in {Nil, claim.corr}, Full(ix, claim)
    PROVE  Extends(ix, Registered(ix, claim))
  <1>1. CASE Conflict(ix, claim)
    BY <1>1 DEF Registered, Extends
  <1>2. CASE ~Conflict(ix, claim)
    <2> DEFINE c == claim.corr
               r == Merged(ix.rec[c], claim)
               jx == Record(ix, claim)
    <2>1. Registered(ix, claim) = jx
      BY <1>2 DEF Registered
    <2>2. /\ jx \in Index /\ jx.rec[c] = r
          /\ \A d \in Corrs : d # c => jx.rec[d] = ix.rec[d]
          /\ \A i \in Items : jx.byItem[i] = IF i = r.item THEN c ELSE ix.byItem[i]
          /\ \A k \in Keys :
                jx.byPr[k] = IF r.pr # Nil /\ r.repo # Nil /\ k = <<r.repo, r.pr>>
                             THEN c ELSE ix.byPr[k]
      BY RecordFacts
    <2>3. c \in Corrs /\ ix.rec[c] \in {NoRecord} \cup Bound /\ claim.exec \in 1..MaxExecs
      BY DEF Claims, Index
    <2>4. /\ r \in Bound /\ r.exec = claim.exec
          /\ r.item = claim.item \/ (ix.rec[c] # NoRecord /\ r.item = ix.rec[c].item)
          /\ \/ r.repo = claim.repo
             \/ claim.repo = Nil /\ ix.rec[c] # NoRecord /\ r.repo = ix.rec[c].repo
          /\ \/ r.pr = claim.pr
             \/ claim.pr = Nil /\ ix.rec[c] # NoRecord /\ r.pr = ix.rec[c].pr
      BY <2>3, MergedFacts
    <2> HIDE DEF jx, r
    <2>5. r.item # Nil => ix.byItem[r.item] \in {Nil, c}
      BY <1>2, <2>3, <2>4, NoConflict DEF Sound, Bound
    <2>6. ix.rec[c] # NoRecord => ix.rec[c].exec = claim.exec
      BY <1>2, NoConflict
    <2>7. r.pr # Nil /\ r.repo # Nil => r.pr = claim.pr /\ r.repo = claim.repo
      BY <2>4, <2>6 DEF Full
    <2>8. r.pr # Nil /\ r.repo # Nil => ix.byPr[<<r.repo, r.pr>>] \in {Nil, c}
      BY <1>2, <2>7, NoConflict
    <2>9. \A i \in Items : ix.byItem[i] # Nil => jx.byItem[i] = ix.byItem[i]
      <3>1. \A i \in Items : i # Nil
        BY IntegrationsAssumption
      <3> QED
        BY <2>2, <2>5, <3>1
    <2>10. \A k \in Keys : ix.byPr[k] # Nil => jx.byPr[k] = ix.byPr[k]
      BY <2>2, <2>8
    <2>11. \A d \in Corrs : ix.rec[d] # NoRecord => jx.rec[d].exec = ix.rec[d].exec
      BY <2>2, <2>4, <2>6
    <2> QED
      BY <2>1, <2>9, <2>10, <2>11 DEF Extends
  <1> QED
    BY <1>1, <1>2

\* More executions, and moves of those there are, leave the index sound.
LEMMA StaysSound ==
    ASSUME NEW ix, NEW ex, NEW ey, Sound(ix, ex), DOMAIN ex \subseteq DOMAIN ey
    PROVE  Sound(ix, ey)
  BY DEF Sound

LEMMA ExtendsItself ==
    ASSUME NEW ix
    PROVE  Extends(ix, ix)
  BY DEF Extends

LEMMA EmptySound ==
    ASSUME NEW ex
    PROVE  EmptyIndex \in Index /\ Sound(EmptyIndex, ex)
  BY DEF EmptyIndex, Index, Sound

-----------------------------------------------------------------------------
(* What the handlers do.                                                   *)

Queued(item, corr) ==
    [status |-> "queued", item |-> item, corr |-> corr, again |-> FALSE]

\* A new execution of an item, as the bridge enters it.
Creates(item, corr) ==
    /\ Len(executions) < MaxExecs
    /\ executions' = Append(executions, Queued(item, corr))
    /\ hub' = [events |-> hub'.events,
               processed |-> hub.processed \cup {corr},
               itemExec |-> [hub.itemExec EXCEPT ![item] = Len(executions) + 1],
               index |-> Registered(hub.index,
                            [Claim(Len(executions) + 1, corr) EXCEPT !.item = item])]

\* An execution under way moves.
Moves(e) ==
    /\ e \in DOMAIN executions /\ Live(e)
    /\ \E s \in Status : executions' = [executions EXCEPT ![e].status = s]

\* What the bridge makes of the hub, field by field.
Entered(h, corr, item, e, claim) ==
    [h EXCEPT !.processed = @ \cup {corr}, !.itemExec[item] = e,
              !.index = Registered(@, claim)]

LEMMA EnteredFields ==
    ASSUME NEW h, h = [events |-> h.events, processed |-> h.processed,
                       itemExec |-> h.itemExec, index |-> h.index],
           NEW corr, NEW item, NEW e, NEW claim
    PROVE  Entered(h, corr, item, e, claim)
              = [events |-> h.events, processed |-> h.processed \cup {corr},
                 itemExec |-> [h.itemExec EXCEPT ![item] = e],
                 index |-> Registered(h.index, claim)]
  <1> DEFINE h1 == [h EXCEPT !.processed = @ \cup {corr}]
             h2 == [h1 EXCEPT !.itemExec[item] = e]
             h3 == [h2 EXCEPT !.index = Registered(@, claim)]
  <1>1. PICK es, ps, items, ix, p, new :
           /\ es = h.events /\ ps = h.processed /\ items = h.itemExec /\ ix = h.index
           /\ p = ps \cup {corr} /\ new = [items EXCEPT ![item] = e]
    OBVIOUS
  <1>2. h = [events |-> es, processed |-> ps, itemExec |-> items, index |-> ix]
    BY <1>1
  <1>3. h \in [events : {es}, processed : {ps}, itemExec : {items}, index : {ix}]
    BY <1>2
  <1>4. h1 = [events |-> es, processed |-> p, itemExec |-> items, index |-> ix]
    BY <1>1, <1>3
  <1>5. h1 \in [events : {es}, processed : {p}, itemExec : {items}, index : {ix}]
    BY <1>4
  <1> HIDE DEF h1
  <1>6. h2 = [events |-> es, processed |-> p, itemExec |-> new, index |-> ix]
    BY <1>1, <1>5
  <1>7. h2 \in [events : {es}, processed : {p}, itemExec : {new}, index : {ix}]
    BY <1>6
  <1> HIDE DEF h2
  <1>8. h3 = [events |-> es, processed |-> p, itemExec |-> new, index |-> Registered(ix, claim)]
    BY <1>7
  <1>9. h3 = Entered(h, corr, item, e, claim)
    BY DEF Entered, h1, h2, h3
  <1> QED
    BY <1>1, <1>8, <1>9

LEMMA CreatedCreates ==
    ASSUME NEW x, NEW item, NEW corr, NEW es, NEW ps, x.executions = executions,
           x.hub = [events |-> es, processed |-> ps, itemExec |-> hub.itemExec,
                    index |-> hub.index],
           ps \cup {corr} = hub.processed \cup {corr}, Len(executions) < MaxExecs,
           executions' = Created(x, corr, item).executions,
           hub' = Created(x, corr, item).hub
    PROVE  Creates(item, corr) /\ hub'.events = es
  <1>1. PICK h, e, claim : /\ h = x.hub /\ e = Len(executions) + 1
                           /\ claim = [Claim(e, corr) EXCEPT !.item = item]
    OBVIOUS
  <1>2. /\ h = [events |-> h.events, processed |-> h.processed,
                itemExec |-> h.itemExec, index |-> h.index]
        /\ h.events = es /\ h.processed = ps /\ h.itemExec = hub.itemExec
        /\ h.index = hub.index
    BY <1>1
  <1>3. Entered(h, corr, item, e, claim)
           = [events |-> es, processed |-> ps \cup {corr},
              itemExec |-> [hub.itemExec EXCEPT ![item] = e],
              index |-> Registered(hub.index, claim)]
    BY <1>2, EnteredFields
  <1>4. Created(x, corr, item) =
           [executions |-> Append(executions, Queued(item, corr)),
            hub |-> Entered(h, corr, item, e, claim)]
    BY <1>1 DEF Created, Entered, Queued
  <1>5. /\ executions' = Append(executions, Queued(item, corr))
        /\ hub' = Entered(h, corr, item, e, claim)
    BY <1>4
  <1>6. hub'.events = es
    BY <1>3, <1>5
  <1> QED
    BY <1>1, <1>3, <1>5, <1>6 DEF Creates

LEMMA HubIsRecord ==
    ASSUME TypeInv, NEW es, NEW ps
    PROVE  /\ hub = [events |-> hub.events, processed |-> hub.processed,
                     itemExec |-> hub.itemExec, index |-> hub.index]
           /\ [hub EXCEPT !.events = es] =
                 [events |-> es, processed |-> hub.processed,
                  itemExec |-> hub.itemExec, index |-> hub.index]
           /\ [hub EXCEPT !.processed = ps] =
                 [events |-> hub.events, processed |-> ps,
                  itemExec |-> hub.itemExec, index |-> hub.index]
  <1>1. hub \in [events : Seq(ReadyEvent), processed : SUBSET Corrs,
                 itemExec : [Items -> 0..MaxExecs], index : Index]
    BY DEF TypeInv, HubTypes, BoardTypes, Hub
  <1>2. hub = [events |-> hub.events, processed |-> hub.processed,
               itemExec |-> hub.itemExec, index |-> hub.index]
    BY <1>1
  <1>3. [hub EXCEPT !.events = es] =
           [events |-> es, processed |-> hub.processed,
            itemExec |-> hub.itemExec, index |-> hub.index]
    BY <1>1
  <1>4. [hub EXCEPT !.processed = ps] =
           [events |-> hub.events, processed |-> ps,
            itemExec |-> hub.itemExec, index |-> hub.index]
    BY <1>1
  <1> QED
    BY <1>2, <1>3, <1>4

LEMMA ReadyCases ==
    ASSUME TypeInv, NEW i \in Items, ReadyWebhook(i)
    PROVE  \/ UNCHANGED <<executions, hub>>
           \/ \E corr \in Corrs :
                 LET event == [corr |-> corr, item |-> i]
                 IN /\ \A n \in DOMAIN hub.events : hub.events[n] # event
                    /\ \/ /\ corr \in hub.processed /\ executions' = executions
                          /\ hub' = [hub EXCEPT !.events = Append(hub.events, event)]
                       \/ /\ corr \notin hub.processed /\ Creates(i, corr)
                          /\ hub'.events = Append(hub.events, event)
  <1> DEFINE corr == CorrelationId(i)
             event == [corr |-> corr, item |-> i]
             x == [Store EXCEPT !.hub.events = Append(@, event)]
  <1>1. corr \in Corrs
    BY IntegrationsAssumption DEF TypeInv, HubTypes, BoardTypes, CorrelationId
  <1> HIDE DEF corr
  <1>2. /\ Len(executions) < MaxExecs /\ Len(executions) \in Nat
        /\ executions' = Ingest(Store, event).executions
        /\ hub' = Ingest(Store, event).hub
    BY DEF ReadyWebhook, Normalized, Becomes, TypeInv, HubTypes, BoardTypes, corr
  <1>3. Store.executions = executions /\ Store.hub = hub
    BY DEF Store
  <1>4. CASE Contains(hub.events, event)
    <2>1. Ingest(Store, event) = Store
      BY <1>3, <1>4 DEF Ingest
    <2> QED
      BY <1>2, <1>3, <2>1
  <1>5. CASE ~Contains(hub.events, event)
    <2>1. \A n \in DOMAIN hub.events : hub.events[n] # event
      BY <1>5 DEF Contains, TypeInv, HubTypes, BoardTypes, Hub
    <2>2. x = [executions |-> executions,
               hub |-> [hub EXCEPT !.events = Append(hub.events, event)]]
      BY DEF Store
    <2>3. Ingest(Store, event) = Process(x, event)
      BY <1>3, <1>5 DEF Ingest
    <2> HIDE DEF x
    <2>4. /\ x.executions = executions
          /\ x.hub = [hub EXCEPT !.events = Append(hub.events, event)]
          /\ x.hub.processed = hub.processed /\ x.hub.itemExec = hub.itemExec
          /\ x.hub.index = hub.index /\ x.hub.events = Append(hub.events, event)
      BY <2>2 DEF TypeInv, HubTypes, BoardTypes, Hub
    <2>5. event.corr = corr /\ event.item = i
      OBVIOUS
    <2> HIDE DEF event
    <2>6. CASE corr \in hub.processed
      <3>1. Process(x, event) = x
        BY <2>4, <2>5, <2>6 DEF Process
      <3> QED
        BY <1>1, <1>2, <2>1, <2>3, <2>4, <2>6, <3>1 DEF event
    <2>7. CASE corr \notin hub.processed
      <3>1. Process(x, event) = Created(x, corr, i)
        BY <1>2, <2>4, <2>5, <2>7 DEF Process
      <3>2. Creates(i, corr) /\ hub'.events = Append(hub.events, event)
        <4>1. x.hub = [events |-> Append(hub.events, event),
                       processed |-> hub.processed, itemExec |-> hub.itemExec,
                       index |-> hub.index]
          BY <2>4, HubIsRecord
        <4> QED
          BY <1>2, <2>3, <2>4, <3>1, <4>1, CreatedCreates
      <3> QED
        BY <1>1, <2>1, <2>7, <3>2 DEF event
    <2> QED
      BY <2>6, <2>7
  <1> QED
    BY <1>4, <1>5

LEMMA RetryCases ==
    ASSUME TypeInv, NEW i \in Items, RetryForItem(i)
    PROVE  /\ Existing(i) # 0 => ~Live(Existing(i))
           /\ \E n \in DOMAIN hub.events :
                 /\ hub.events[n] \in ReadyEvent /\ hub.events[n].item = i
                 /\ \A m \in DOMAIN hub.events : hub.events[m].item = i => m <= n
                 /\ Creates(i, hub.events[n].corr) /\ hub'.events = hub.events
  <1>1. PICK n \in DOMAIN hub.events :
           /\ hub.events[n].item = i
           /\ \A m \in DOMAIN hub.events : hub.events[m].item = i => m <= n
           /\ Becomes(Process([Store EXCEPT !.hub.processed = @ \ {hub.events[n].corr}],
                              hub.events[n]))
    BY DEF RetryForItem
  <1> DEFINE event == hub.events[n]
             x == [Store EXCEPT !.hub.processed = @ \ {event.corr}]
  <1>2. event \in ReadyEvent /\ event.corr \in Corrs /\ event.item = i
    <2>1. hub.events \in Seq(ReadyEvent)
      BY DEF TypeInv, HubTypes, BoardTypes, Hub
    <2>2. event \in ReadyEvent
      BY <2>1
    <2> QED
      BY <1>1, <2>2 DEF ReadyEvent
  <1>3. Len(executions) < MaxExecs /\ Len(executions) \in Nat
    BY DEF RetryForItem, TypeInv, HubTypes, BoardTypes
  <1>4. x = [executions |-> executions,
             hub |-> [hub EXCEPT !.processed = hub.processed \ {event.corr}]]
    BY DEF Store
  <1>5. executions' = Process(x, event).executions /\ hub' = Process(x, event).hub
    BY <1>1 DEF Becomes
  <1> HIDE DEF x
  <1>6. /\ x.executions = executions
        /\ x.hub = [hub EXCEPT !.processed = hub.processed \ {event.corr}]
        /\ x.hub.processed = hub.processed \ {event.corr}
        /\ x.hub.itemExec = hub.itemExec
        /\ x.hub.index = hub.index /\ x.hub.events = hub.events
    BY <1>4 DEF TypeInv, HubTypes, BoardTypes, Hub
  <1> HIDE DEF event
  <1>7. Process(x, event) = Created(x, event.corr, i)
    BY <1>2, <1>3, <1>6 DEF Process
  <1>8. (hub.processed \ {event.corr}) \cup {event.corr} = hub.processed \cup {event.corr}
    OBVIOUS
  <1>9. Creates(i, event.corr) /\ hub'.events = hub.events
    <2>1. x.hub = [events |-> hub.events, processed |-> hub.processed \ {event.corr},
                   itemExec |-> hub.itemExec, index |-> hub.index]
      BY <1>6, HubIsRecord
    <2> QED
      BY <1>3, <1>5, <1>6, <1>7, <1>8, <2>1, CreatedCreates
  <1> QED
    BY <1>1, <1>2, <1>9 DEF RetryForItem, event

\* What an event of GitHub may say.
GitEvents ==
    [kind : {"open", "closed", "merged", "in_progress", "success", "failure"},
     repo : Repos, pr : Numbers \cup {Nil}, sha : PRs, hint : Corrs \cup {Nil}]

LEMMA EventsTyped ==
    ASSUME TypeInv, NEW p \in PRs, NEW event \in PullRequestEvents(p) \cup CheckEvents(p)
    PROVE  event \in GitEvents
  <1>1. p[1] \in Repos /\ p[2] \in Numbers
    BY DEF Repos, Numbers
  <1>2. OwnerOf[p] \in Corrs
    BY IntegrationsAssumption
  <1>3. CASE event \in PullRequestEvents(p)
    BY <1>1, <1>2, <1>3 DEF PullRequestEvents, Event, GitEvents
  <1>4. CASE event \in CheckEvents(p)
    BY <1>1, <1>4 DEF CheckEvents, Event, GitEvents
  <1> QED
    BY <1>3, <1>4

LEMMA CandidatesTyped ==
    ASSUME NEW ix \in Index, NEW event \in GitEvents, NEW n \in Found(ix, event)
    PROVE  /\ n \in 1..3 /\ Candidates(ix, event)[n] \in Corrs
           /\ ix.rec[Candidates(ix, event)[n]] # NoRecord
  <1>1. /\ n \in 1..3 /\ Candidates(ix, event)[n] # Nil
        /\ ix.rec[Candidates(ix, event)[n]] # NoRecord
    BY DEF Found
  <1>2. event.hint \in Corrs \cup {Nil} /\ ix.bySha[event.sha] \in Corrs \cup {Nil}
    BY DEF GitEvents, Index
  <1>3. event.pr # Nil => ix.byPr[<<event.repo, event.pr>>] \in Corrs \cup {Nil}
    BY DEF GitEvents, Index, Keys
  <1> QED
    BY <1>1, <1>2, <1>3 DEF Candidates

\* An event resolves to one of its candidates, and to the execution of all.
LEMMA ResolveFacts ==
    ASSUME NEW ix \in Index, NEW event \in GitEvents, Resolve(ix, event) # Nil
    PROVE  \E n \in Found(ix, event) :
              /\ Resolve(ix, event) = Candidates(ix, event)[n]
              /\ \A m \in Found(ix, event) :
                    ix.rec[Candidates(ix, event)[m]].exec = ix.rec[Resolve(ix, event)].exec
  <1> DEFINE c == Candidates(ix, event)
             found == Found(ix, event)
             execs == {ix.rec[c[n]].exec : n \in found}
  <1>1. Cardinality(execs) = 1 /\ Resolve(ix, event) = c[First(found)]
    BY DEF Resolve
  <1>2. found \subseteq 1..3
    BY DEF Found
  <1> HIDE DEF found
  <1>3. IsFiniteSet(execs)
    <2>1. ASSUME NEW n \in Found(ix, event) PROVE ix.rec[c[n]].exec \in 1..MaxExecs
      <3>1. c[n] \in Corrs /\ ix.rec[c[n]] # NoRecord
        BY CandidatesTyped
      <3> HIDE DEF c
      <3>2. ix.rec[c[n]] \in Bound
        BY <3>1 DEF Index
      <3> QED
        BY <3>2 DEF Bound
    <2>2. execs \in SUBSET (1..MaxExecs)
      BY <2>1 DEF found
    <2>3. IsFiniteSet(1..MaxExecs)
      BY FS_Interval, IntegrationsAssumption
    <2> HIDE DEF execs
    <2> QED
      BY <2>2, <2>3, FS_Subset
  <1>4. PICK e : execs = {e}
    <2> HIDE DEF execs
    <2> QED
      BY <1>1, <1>3, FS_Singleton
  <1>5. \A n \in found : ix.rec[c[n]].exec = e
    BY <1>4
  <1>6. found # {}
    BY <1>4
  <1>7. First(found) \in found
    <2>1. \E n \in found : \A m \in found : n <= m
      <3>1. CASE 1 \in found
        BY <1>2, <3>1
      <3>2. CASE 1 \notin found /\ 2 \in found
        BY <1>2, <3>2
      <3>3. CASE 1 \notin found /\ 2 \notin found
        <4>1. \A n \in found : n = 3
          BY <1>2, <3>3
        <4>2. PICK n \in found : n = 3
          BY <1>6, <4>1
        <4>3. \A m \in found : n <= m
          BY <4>1, <4>2
        <4> QED
          BY <4>3
      <3> QED
        BY <3>1, <3>2, <3>3
    <2> QED
      BY <2>1 DEF First
  <1> QED
    BY <1>1, <1>5, <1>7 DEF found

LEMMA AllowedMoves ==
    \A s \in Status : /\ Allowed[s] \subseteq Status
                      /\ s \in TerminalStatus => Allowed[s] = {}
  BY DEF Status, Allowed, TerminalStatus

\* A webhook of GitHub moves the execution of one record, or none, and enriches
\* that record.
LEMMA ApplyCases ==
    ASSUME TypeInv, Sound(hub.index, executions), NEW event \in GitEvents, Apply(event)
    PROVE  LET c == Resolve(hub.index, event)
               e == hub.index.rec[c].exec
           IN  /\ c \in Corrs /\ c # Nil /\ hub.index.rec[c] # NoRecord
               /\ e \in DOMAIN executions /\ hub.index.byExec[e] = c
               /\ executions' = executions \/ Moves(e)
               /\ hub' = [hub EXCEPT !.index = Registered(hub.index, Enriched(c, event))]
               /\ Enriched(c, event) \in Claims
               /\ Enriched(c, event).exec = e /\ Enriched(c, event).corr = c
               /\ Enriched(c, event).repo = event.repo
               /\ Enriched(c, event).sha = event.sha
               /\ Enriched(c, event).item = Nil
               /\ Enriched(c, event).pr =
                     IF event.pr # Nil THEN event.pr ELSE hub.index.rec[c].pr
               /\ Full(hub.index, Enriched(c, event))
  <1> DEFINE c == Resolve(hub.index, event)
             e == hub.index.rec[c].exec
             next == After(event, executions[e].status)
  <1>1. /\ c # Nil
        /\ executions' = IF next \in Allowed[executions[e].status]
                         THEN [executions EXCEPT ![e].status = next]
                         ELSE executions
        /\ hub' = [hub EXCEPT !.index = Registered(hub.index, Enriched(c, event))]
    BY DEF Apply
  <1>2. hub.index \in Index /\ executions \in Seq(Execution)
    BY DEF TypeInv, HubTypes, BoardTypes, Hub
  <1>3. c \in Corrs /\ hub.index.rec[c] # NoRecord
    BY <1>1, <1>2, ResolveFacts, CandidatesTyped
  <1> HIDE DEF c
  <1>4. hub.index.rec[c] \in Bound
    BY <1>2, <1>3 DEF Index
  <1>5. e \in DOMAIN executions /\ hub.index.byExec[e] = c /\ e \in 1..MaxExecs
    BY <1>3, <1>4 DEF Sound, Bound
  <1>6. executions' = executions \/ Moves(e)
    <2>1. executions[e].status \in Status
      <3>1. executions[e] \in Execution
        BY <1>2, <1>5
      <3> QED
        BY <3>1 DEF Execution
    <2> HIDE DEF next, e
    <2>2. CASE next \in Allowed[executions[e].status]
      <3>1. Live(e) /\ next \in Status
        BY <2>1, <2>2, AllowedMoves DEF Live
      <3> QED
        BY <1>1, <1>5, <2>2, <3>1 DEF Moves
    <2> QED
      BY <1>1, <2>2
  <1>7. Enriched(c, event) =
           [exec |-> e, corr |-> c, item |-> Nil, repo |-> event.repo,
            pr |-> IF event.pr # Nil THEN event.pr ELSE hub.index.rec[c].pr,
            sha |-> event.sha]
    <2>1. Claim(e, c) \in [exec : {e}, corr : {c}, item : {Nil}, repo : {Nil},
                           pr : {Nil}, sha : {Nil}]
      BY DEF Claim
    <2> DEFINE pr == IF event.pr # Nil THEN event.pr ELSE hub.index.rec[c].pr
               c1 == [Claim(e, c) EXCEPT !.repo = event.repo]
               c2 == [c1 EXCEPT !.pr = pr]
               c3 == [c2 EXCEPT !.sha = event.sha]
    <2>2. c1 \in [exec : {e}, corr : {c}, item : {Nil}, repo : {event.repo},
                  pr : {Nil}, sha : {Nil}]
      BY <2>1
    <2> HIDE DEF c1, pr
    <2>3. c2 \in [exec : {e}, corr : {c}, item : {Nil}, repo : {event.repo},
                  pr : {pr}, sha : {Nil}]
      BY <2>2
    <2> HIDE DEF c2
    <2>4. c3 = [exec |-> e, corr |-> c, item |-> Nil, repo |-> event.repo,
                pr |-> pr, sha |-> event.sha]
      BY <2>3
    <2>5. Enriched(c, event) = c3
      BY DEF Enriched, c1, c2, c3, pr
    <2> QED
      BY <2>4, <2>5 DEF pr
  <1>8. hub.index.rec[c].pr \in Numbers \cup {Nil}
    BY <1>4 DEF Bound
  <1>9. /\ event.repo \in Repos /\ event.repo # Nil /\ event.sha \in PRs
        /\ event.pr \in Numbers \cup {Nil}
    BY IntegrationsAssumption DEF GitEvents
  <1>10. Enriched(c, event) \in Claims
    BY <1>3, <1>5, <1>7, <1>8, <1>9 DEF Claims
  <1>11. Full(hub.index, Enriched(c, event))
    BY <1>7, <1>9 DEF Full
  <1>12. PICK d, f, claim : d = c /\ f = e /\ claim = Enriched(c, event)
    OBVIOUS
  <1>13. /\ d \in Corrs /\ d # Nil /\ hub.index.rec[d] # NoRecord
         /\ f \in DOMAIN executions /\ hub.index.byExec[f] = d
         /\ executions' = executions \/ Moves(f)
    BY <1>1, <1>3, <1>5, <1>6, <1>12
  <1>14. /\ hub' = [hub EXCEPT !.index = Registered(hub.index, claim)]
         /\ claim \in Claims /\ Full(hub.index, claim)
    BY <1>1, <1>10, <1>11, <1>12
  <1>15. /\ claim.exec = f /\ claim.corr = d /\ claim.repo = event.repo
         /\ claim.sha = event.sha /\ claim.item = Nil
         /\ claim.pr = IF event.pr # Nil THEN event.pr ELSE hub.index.rec[d].pr
    BY <1>7, <1>12
  <1> QED
    BY <1>12, <1>13, <1>14, <1>15 DEF c

\* Registering a new execution, under whatever correlation.
LEMMA NewRegistered ==
    ASSUME TypeInv, Sound(hub.index, executions), Len(executions) < MaxExecs,
           NEW item \in Items, NEW corr \in Corrs, NEW ex \in Seq(Execution),
           Len(ex) = Len(executions) + 1,
           NEW claim, claim = [Claim(Len(executions) + 1, corr) EXCEPT !.item = item]
    PROVE  /\ claim \in Claims
           /\ claim.repo = Nil /\ claim.pr = Nil /\ claim.sha = Nil
           /\ Registered(hub.index, claim) \in Index
           /\ Sound(Registered(hub.index, claim), ex)
           /\ Extends(hub.index, Registered(hub.index, claim))
  <1>1. /\ executions \in Seq(Execution) /\ Len(executions) \in Nat
        /\ MaxExecs \in Nat /\ hub.index \in Index
    BY IntegrationsAssumption DEF TypeInv, HubTypes, Hub
  <1>2. PICK e, ix : e = Len(executions) + 1 /\ ix = hub.index
    OBVIOUS
  <1>3. /\ e \in 1..MaxExecs /\ e \notin DOMAIN executions
        /\ DOMAIN ex = 1..e /\ DOMAIN executions \subseteq DOMAIN ex
    BY <1>1, <1>2
  <1>4. claim = [exec |-> e, corr |-> corr, item |-> item, repo |-> Nil, pr |-> Nil,
                 sha |-> Nil]
    BY <1>2 DEF Claim
  <1>5. /\ claim \in Claims /\ claim.exec = e /\ claim.corr = corr
        /\ claim.repo = Nil /\ claim.pr = Nil /\ claim.sha = Nil
    BY <1>3, <1>4 DEF Claims
  <1>6. ix \in Index /\ Sound(ix, executions) /\ Sound(ix, ex)
    BY <1>1, <1>2, <1>3, StaysSound
  <1>7. \A c \in Corrs : ix.rec[c].exec # e
    <2> SUFFICES ASSUME NEW c \in Corrs, ix.rec[c].exec = e PROVE FALSE
      OBVIOUS
    <2>1. ix.rec[c] # NoRecord
      BY <1>3 DEF NoRecord
    <2> QED
      BY <1>3, <1>6, <2>1 DEF Sound
  <1>8. ix.byExec[e] = Nil
    <2>1. ix.byExec[e] \in Corrs \cup {Nil}
      BY <1>3, <1>6 DEF Index
    <2> QED
      BY <1>3, <1>6, <1>7, <2>1 DEF Sound
  <1>9. Full(ix, claim)
    BY <1>5, <1>7 DEF Full
  <1>10. claim.exec \in DOMAIN ex /\ ix.byExec[claim.exec] \in {Nil, claim.corr}
    BY <1>3, <1>5, <1>8
  <1>11. /\ Registered(ix, claim) \in Index /\ Sound(Registered(ix, claim), ex)
         /\ Extends(ix, Registered(ix, claim))
    BY <1>5, <1>6, <1>9, <1>10, RegisteredSound, RegisteredExtends
  <1> QED
    BY <1>2, <1>5, <1>11

\* What a creation changes.
LEMMA CreatesFacts ==
    ASSUME TypeInv, Sound(hub.index, executions), NEW item \in Items, NEW corr \in Corrs,
           Creates(item, corr), hub'.events \in Seq(ReadyEvent)
    PROVE  /\ hub' \in Hub /\ executions' \in Seq(Execution)
           /\ Len(executions') = Len(executions) + 1 /\ Len(executions') <= MaxExecs
           /\ executions'[Len(executions) + 1] = Queued(item, corr)
           /\ \A e \in 1..Len(executions) : executions'[e] = executions[e]
           /\ hub'.processed = hub.processed \cup {corr}
           /\ \A i \in Items : hub'.itemExec[i] =
                 IF i = item THEN Len(executions) + 1 ELSE hub.itemExec[i]
           /\ Sound(hub'.index, executions') /\ Extends(hub.index, hub'.index)
  <1>1. /\ executions \in Seq(Execution) /\ Len(executions) \in Nat
        /\ Len(executions) < MaxExecs /\ MaxExecs \in Nat
        /\ hub.itemExec \in [Items -> 0..MaxExecs] /\ hub.index \in Index
        /\ hub.processed \subseteq Corrs
    BY IntegrationsAssumption DEF TypeInv, HubTypes, Hub, Creates
  <1>2. PICK new, claim, e, ix :
           /\ new = Queued(item, corr) /\ e = Len(executions) + 1
           /\ claim = [Claim(Len(executions) + 1, corr) EXCEPT !.item = item]
           /\ ix = hub.index
    OBVIOUS
  <1>3. /\ executions' = Append(executions, new)
        /\ hub' = [events |-> hub'.events, processed |-> hub.processed \cup {corr},
                   itemExec |-> [hub.itemExec EXCEPT ![item] = e],
                   index |-> Registered(ix, claim)]
    BY <1>2 DEF Creates
  <1>4. new \in Execution
    BY <1>2 DEF Execution, Status, Queued
  <1>5. /\ executions' \in Seq(Execution) /\ Len(executions') = e
        /\ executions'[e] = new
        /\ \A d \in 1..Len(executions) : executions'[d] = executions[d]
    BY <1>1, <1>2, <1>3, <1>4
  <1>6. e \in 1..MaxExecs
    BY <1>1, <1>2
  <1>7. /\ Registered(ix, claim) \in Index
        /\ Sound(Registered(ix, claim), executions')
        /\ Extends(ix, Registered(ix, claim))
    <2>1. PICK ex : ex = executions'
      OBVIOUS
    <2>2. ex \in Seq(Execution) /\ Len(ex) = Len(executions) + 1
      BY <1>2, <1>5, <2>1
    <2> QED
      BY <1>1, <1>2, <2>1, <2>2, NewRegistered
  <1>8. /\ hub'.processed = hub.processed \cup {corr}
        /\ hub'.itemExec = [hub.itemExec EXCEPT ![item] = e]
        /\ hub'.index = Registered(ix, claim)
    BY <1>3
  <1>9. hub'.itemExec \in [Items -> 0..MaxExecs]
    BY <1>1, <1>6, <1>8
  <1>10. hub' \in Hub
    <2>1. hub' = [events |-> hub'.events, processed |-> hub'.processed,
                  itemExec |-> hub'.itemExec, index |-> hub'.index]
      BY <1>3
    <2>2. hub'.processed \in SUBSET Corrs /\ hub'.index \in Index
      BY <1>1, <1>7, <1>8
    <2> QED
      BY <1>9, <2>1, <2>2 DEF Hub
  <1>11. \A i \in Items : hub'.itemExec[i] = IF i = item THEN e ELSE hub.itemExec[i]
    BY <1>1, <1>8
  <1> QED
    BY <1>1, <1>2, <1>5, <1>6, <1>7, <1>8, <1>10, <1>11

\* What a move changes.
LEMMA MovesFacts ==
    ASSUME TypeInv, NEW e, Moves(e)
    PROVE  /\ executions' \in Seq(Execution) /\ Len(executions') = Len(executions)
           /\ DOMAIN executions' = DOMAIN executions
           /\ \A d \in DOMAIN executions :
                 /\ executions'[d].item = executions[d].item
                 /\ executions'[d].corr = executions[d].corr
                 /\ executions'[d].again = executions[d].again
                 /\ d # e => executions'[d] = executions[d]
                 /\ executions'[d].status \notin TerminalStatus => Live(d)
  <1>1. executions \in Seq(Execution) /\ e \in DOMAIN executions /\ Live(e)
    BY DEF TypeInv, HubTypes, Moves
  <1>2. PICK s \in Status : executions' = [executions EXCEPT ![e].status = s]
    BY DEF Moves
  <1>3. executions[e] \in Execution
    BY <1>1
  <1>4. PICK new : new = [executions[e] EXCEPT !.status = s]
    OBVIOUS
  <1>5. /\ new \in Execution /\ new.item = executions[e].item
        /\ new.corr = executions[e].corr /\ new.again = executions[e].again
    BY <1>3, <1>4 DEF Execution
  <1>6. executions' = [executions EXCEPT ![e] = new]
    BY <1>2, <1>4
  <1>7. /\ executions' \in Seq(Execution) /\ Len(executions') = Len(executions)
        /\ DOMAIN executions' = DOMAIN executions
    BY <1>1, <1>5, <1>6
  <1>8. executions'[e] = new /\ \A d \in DOMAIN executions : d # e => executions'[d] = executions[d]
    BY <1>1, <1>6
  <1> QED
    BY <1>1, <1>5, <1>7, <1>8 DEF Live

-----------------------------------------------------------------------------
(* The invariant of the hub.                                               *)

\* The executions of this process that webhooks started.
Young == {e \in (born + 1)..Len(executions) : ~executions[e].again}

\* The webhook an execution was created for.
EventOf(e) == [corr |-> executions[e].corr, item |-> executions[e].item]

\* An execution that is under way beside a newer one of its item was created
\* for a webhook that is not the item's last: retry takes the last.
Outrun(n) ==
    \E m \in DOMAIN hub.events : m > n /\ hub.events[m].item = hub.events[n].item

EventsInv ==
    /\ \A n \in DOMAIN hub.events : hub.events[n].corr \in hub.processed
    /\ \A m, n \in DOMAIN hub.events : m # n => hub.events[m] # hub.events[n]
    /\ \A e \in Young :
          /\ executions[e].corr \in hub.processed
          /\ hub.itemExec[executions[e].item] # 0
          /\ \E n \in DOMAIN hub.events :
                /\ hub.events[n] = EventOf(e)
                /\ Live(e) /\ e # hub.itemExec[executions[e].item] => Outrun(n)

HubInv == Sound(hub.index, executions) /\ EventsInv /\ OneLive

\* A set of natural numbers has a least one: inclusion is well-founded on the
\* intervals that they end.
LEMMA LeastNumber ==
    ASSUME NEW T \in SUBSET Nat, T # {}
    PROVE  \E m \in T : \A n \in T : m <= n
  <1> DEFINE Initial == {0..n : n \in T}
  <1>1. Initial \subseteq FiniteSubsetsOf(Nat)
    <2>1. ASSUME NEW n \in T PROVE 0..n \in FiniteSubsetsOf(Nat)
      <3>1. IsFiniteSet(0..n)
        BY FS_Interval
      <3>2. 0..n \in SUBSET Nat
        OBVIOUS
      <3> QED
        BY <3>1, <3>2 DEF FiniteSubsetsOf
    <2> QED
      BY <2>1
  <1>2. PICK s \in Initial : \A u \in Initial : ~(<<u, s>> \in StrictSubsetOrdering(Nat))
    <2>1. Initial # {}
      OBVIOUS
    <2> HIDE DEF Initial
    <2> QED
      BY <1>1, <2>1, FS_StrictSubsetOrderingWellFounded, WFMin
  <1>3. PICK m \in T : s = 0..m
    OBVIOUS
  <1>4. ASSUME NEW n \in T, n < m
        PROVE  FALSE
    <2>1. 0..n \in Initial
      OBVIOUS
    <2>2. 0..n \subseteq 0..m /\ m \in 0..m /\ m \notin 0..n
      BY <1>4
    <2>3. 0..n \in SUBSET Nat /\ 0..m \in SUBSET Nat
      OBVIOUS
    <2>4. <<0..n, 0..m>> \in StrictSubsetOrdering(Nat)
      BY <2>2, <2>3 DEF StrictSubsetOrdering
    <2> QED
      BY <1>2, <1>3, <2>1, <2>4
  <1> QED
    BY <1>4

\* Draining processes nothing twice: whatever it takes up again was processed.
LEMMA DrainKeeps ==
    ASSUME TypeInv, EventsInv, DrainPending
    PROVE  UNCHANGED <<executions, hub>>
  <1>1. PICK len \in Nat : len = Len(hub.events)
    BY DEF TypeInv, HubTypes, Hub
  <1>2. PICK x : x = Store
    OBVIOUS
  <1>3. ASSUME NEW n \in 1..len
        PROVE  Process(x, hub.events[n]) = x
    <2>1. n \in DOMAIN hub.events
      BY <1>1 DEF TypeInv, HubTypes, Hub
    <2>2. hub.events[n].corr \in x.hub.processed
      BY <1>2, <2>1 DEF EventsInv, Store
    <2> QED
      BY <2>2 DEF Process
  <1> DEFINE P(f) == f = [n \in 0..len |-> IF n = 0 THEN Store
                                           ELSE Process(f[n - 1], hub.events[n])]
  <1>4. P([n \in 0..len |-> x])
    <2>1. PICK f : f = [n \in 0..len |-> x]
      OBVIOUS
    <2>2. ASSUME NEW n \in 0..len
          PROVE  f[n] = IF n = 0 THEN Store ELSE Process(f[n - 1], hub.events[n])
      <3>1. CASE n = 0
        BY <1>2, <2>1, <3>1
      <3>2. CASE n # 0
        <4>1. n \in 1..len /\ n - 1 \in 0..len
          BY <3>2
        <4>2. f[n] = x /\ f[n - 1] = x
          BY <2>1, <4>1
        <4> QED
          BY <1>3, <3>2, <4>1, <4>2
      <3> QED
        BY <3>1, <3>2
    <2>3. f = [n \in 0..len |-> f[n]]
      BY <2>1
    <2>4. P(f)
      BY <2>2, <2>3
    <2> QED
      BY <2>1, <2>4
  <1>5. P(Drained)
    <2>1. Drained = CHOOSE f : P(f)
      BY <1>1 DEF Drained
    <2> HIDE DEF P
    <2> QED
      BY <1>4, <2>1
  <1>6. PICK f : f = Drained
    OBVIOUS
  <1>7. /\ 0 \in 0..len /\ f[0] = x
        /\ \A n \in 1..len : f[n] = Process(f[n - 1], hub.events[n])
    BY <1>2, <1>5, <1>6
  <1>8. f[len] = x
    <2> SUFFICES ASSUME f[len] # x PROVE FALSE
      OBVIOUS
    <2> DEFINE T == {n \in Nat : n <= len /\ f[n] # x}
    <2>1. PICK n \in T : \A m \in T : n <= m
      <3>1. T \in SUBSET Nat /\ len \in T
        OBVIOUS
      <3> HIDE DEF T
      <3> QED
        BY <3>1, LeastNumber
    <2>2. n \in 1..len
      BY <1>7
    <2>3. n - 1 \notin T /\ n - 1 \in Nat /\ n - 1 <= len
      BY <2>1, <2>2
    <2>4. f[n - 1] = x
      BY <2>3
    <2>5. f[n] = x
      BY <1>3, <1>7, <2>2, <2>4
    <2> QED
      BY <2>5
  <1>9. executions' = f[len].executions /\ hub' = f[len].hub
    BY <1>1, <1>6 DEF DrainPending, Becomes
  <1> QED
    BY <1>2, <1>8, <1>9 DEF Store

\* The steps that matter to the hub.
Noted(i, corr) ==
    LET event == [corr |-> corr, item |-> i]
    IN /\ \A n \in DOMAIN hub.events : hub.events[n] # event
       /\ corr \in hub.processed /\ executions' = executions
       /\ hub' = [hub EXCEPT !.events = Append(hub.events, event)]

Starts(i, corr) ==
    LET event == [corr |-> corr, item |-> i]
    IN /\ \A n \in DOMAIN hub.events : hub.events[n] # event
       /\ corr \notin hub.processed /\ Creates(i, corr)
       /\ hub'.events = Append(hub.events, event)

StartsAgain(i) ==
    /\ Existing(i) # 0 => ~Live(Existing(i))
    /\ \E n \in DOMAIN hub.events :
          /\ hub.events[n] \in ReadyEvent /\ hub.events[n].item = i
          /\ \A m \in DOMAIN hub.events : hub.events[m].item = i => m <= n
          /\ Creates(i, hub.events[n].corr) /\ hub'.events = hub.events

Repeats(e, corr) ==
    /\ Len(executions) < MaxExecs
    /\ executions' = Append(executions, [executions[e] EXCEPT !.status = "queued",
                                                             !.again = TRUE])
    /\ hub' = [hub EXCEPT !.index =
                 Registered(hub.index, [Claim(Len(executions) + 1, corr)
                                          EXCEPT !.item = executions[e].item])]

HubSteps ==
    \/ UNCHANGED <<executions, hub>>
    \/ hub' = hub /\ \E e \in DOMAIN executions : Moves(e)
    \/ \E i \in Items, corr \in Corrs : Noted(i, corr) \/ Starts(i, corr)
    \/ \E i \in Items : StartsAgain(i)
    \/ \E e \in DOMAIN executions, corr \in Corrs : Repeats(e, corr)
    \/ \E p \in PRs : GitHubWebhook(p)

LEMMA AgentMovesOne ==
    ASSUME TypeInv, NEW e \in DOMAIN executions, AgentMoves(e)
    PROVE  hub' = hub /\ Moves(e)
  <1>1. PICK s \in Allowed[executions[e].status] :
           executions' = [executions EXCEPT ![e].status = s]
    BY DEF AgentMoves
  <1>2. executions[e].status \in Status
    <2>1. executions[e] \in Execution
      BY DEF TypeInv, HubTypes
    <2> QED
      BY <2>1 DEF Execution
  <1>3. Live(e) /\ s \in Status
    BY <1>1, <1>2, AllowedMoves DEF Live
  <1> QED
    BY <1>1, <1>3 DEF AgentMoves, Moves

LEMMA NextIsHubStep ==
    ASSUME TypeInv, Sound(hub.index, executions), EventsInv, [Next]_vars
    PROVE  \/ Restart
           \/ UNCHANGED <<born, restarts>> /\ HubSteps
  <1>1. ASSUME NEW i \in Items, ReadyWebhook(i)
        PROVE  UNCHANGED <<born, restarts>> /\ HubSteps
    <2>1. UNCHANGED <<born, restarts>>
      BY <1>1 DEF ReadyWebhook, bounds
    <2>2. \/ UNCHANGED <<executions, hub>>
          \/ \E corr \in Corrs : Noted(i, corr) \/ Starts(i, corr)
      BY <1>1, ReadyCases DEF Noted, Starts
    <2> QED
      BY <2>1, <2>2 DEF HubSteps
  <1>2. ASSUME NEW i \in Items, CancelForItem(i)
        PROVE  UNCHANGED <<born, restarts>> /\ HubSteps
    <2>1. UNCHANGED <<born, restarts>> /\ hub' = hub
      BY <1>2 DEF CancelForItem, bounds
    <2>2. PICK e : e = Existing(i)
      OBVIOUS
    <2>3. Live(e) /\ executions' = [executions EXCEPT ![e].status = "cancelled"] /\ e # 0
      BY <1>2, <2>2 DEF CancelForItem
    <2>4. CASE e \in DOMAIN executions
      BY <2>1, <2>3, <2>4 DEF HubSteps, Moves, Status
    <2>5. CASE e \notin DOMAIN executions
      <3>1. executions' = executions
        BY <2>3, <2>5 DEF TypeInv, HubTypes
      <3> QED
        BY <2>1, <3>1 DEF HubSteps
    <2> QED
      BY <2>4, <2>5
  <1>3. ASSUME NEW i \in Items, RetryForItem(i)
        PROVE  UNCHANGED <<born, restarts>> /\ HubSteps
    <2>1. UNCHANGED <<born, restarts>>
      BY <1>3 DEF RetryForItem, bounds
    <2>2. StartsAgain(i)
      BY <1>3, RetryCases DEF StartsAgain
    <2> QED
      BY <2>1, <2>2 DEF HubSteps
  <1>4. ASSUME NEW i \in Items, EditColumn(i)
        PROVE  UNCHANGED <<born, restarts>> /\ HubSteps
    BY <1>4 DEF EditColumn, HubSteps
  <1>5. ASSUME DrainPending
        PROVE  UNCHANGED <<born, restarts>> /\ HubSteps
    <2>1. UNCHANGED <<born, restarts>>
      BY <1>5 DEF DrainPending, bounds
    <2> QED
      BY <1>5, <2>1, DrainKeeps DEF HubSteps
  <1>6. ASSUME NEW p \in PRs, GitHubWebhook(p)
        PROVE  UNCHANGED <<born, restarts>> /\ HubSteps
    <2>1. UNCHANGED <<born, restarts>>
      BY <1>6 DEF GitHubWebhook, Apply, bounds
    <2> QED
      BY <1>6, <2>1 DEF HubSteps
  <1>7. ASSUME SyncBegin \/ SyncRead \/ SyncWrite \/ SyncEnd
        PROVE  UNCHANGED <<born, restarts>> /\ HubSteps
    BY <1>7 DEF SyncBegin, SyncRead, SyncWrite, SyncEnd, HubSteps, bounds
  <1>8. ASSUME NEW e \in DOMAIN executions, AgentMoves(e)
        PROVE  UNCHANGED <<born, restarts>> /\ HubSteps
    <2>1. UNCHANGED <<born, restarts>>
      BY <1>8 DEF AgentMoves, bounds
    <2> QED
      BY <1>8, <2>1, AgentMovesOne DEF HubSteps
  <1>9. ASSUME NEW e \in DOMAIN executions, ControlRetry(e)
        PROVE  UNCHANGED <<born, restarts>> /\ HubSteps
    <2>1. UNCHANGED <<born, restarts>>
      BY <1>9 DEF ControlRetry, bounds
    <2>2. \E corr \in Corrs : Repeats(e, corr)
      BY <1>9 DEF ControlRetry, Repeats
    <2> QED
      BY <2>1, <2>2 DEF HubSteps
  <1>10. CASE UNCHANGED vars
    BY <1>10 DEF vars, bounds, HubSteps
  <1>11. CASE Next
    BY <1>1, <1>2, <1>3, <1>4, <1>5, <1>6, <1>7, <1>8, <1>9, <1>11 DEF Next
  <1> QED
    BY <1>10, <1>11


\* What holds of every such step.
HubKept ==
    /\ executions' \in Seq(Execution) /\ Len(executions') <= MaxExecs
    /\ Len(executions) <= Len(executions')
    /\ \A e \in DOMAIN executions :
          /\ executions'[e].item = executions[e].item
          /\ executions'[e].corr = executions[e].corr
          /\ executions'[e].again = executions[e].again
          /\ executions'[e].status \notin TerminalStatus => Live(e)
    /\ hub' \in Hub
    /\ Sound(hub'.index, executions') /\ Extends(hub.index, hub'.index)

LEMMA HubUnchanged ==
    ASSUME TypeInv, Sound(hub.index, executions), UNCHANGED <<executions, hub>>
    PROVE  HubKept
  <1>1. /\ executions' = executions /\ hub' = hub /\ Len(executions) \in Nat
        /\ executions \in Seq(Execution) /\ Len(executions) <= MaxExecs /\ hub \in Hub
    BY DEF TypeInv, HubTypes
  <1>2. Len(executions) <= Len(executions')
    BY <1>1
  <1>3. Sound(hub'.index, executions') /\ Extends(hub.index, hub'.index)
    BY <1>1, ExtendsItself
  <1> QED
    BY <1>1, <1>2, <1>3 DEF HubKept, Live

LEMMA MovesKeepsHub ==
    ASSUME TypeInv, Sound(hub.index, executions), hub' = hub, NEW e, Moves(e)
    PROVE  HubKept
  <1>1. /\ executions' \in Seq(Execution) /\ Len(executions') = Len(executions)
        /\ DOMAIN executions' = DOMAIN executions
        /\ \A d \in DOMAIN executions :
              /\ executions'[d].item = executions[d].item
              /\ executions'[d].corr = executions[d].corr
              /\ executions'[d].again = executions[d].again
              /\ executions'[d].status \notin TerminalStatus => Live(d)
    BY MovesFacts
  <1>2. Len(executions) \in Nat /\ Len(executions) <= MaxExecs /\ hub \in Hub
    BY DEF TypeInv, HubTypes
  <1>3. Sound(hub.index, executions')
    BY <1>1, StaysSound
  <1>4. Sound(hub'.index, executions') /\ Extends(hub.index, hub'.index)
    BY <1>3, ExtendsItself
  <1> QED
    BY <1>1, <1>2, <1>4 DEF HubKept

LEMMA NotedFields ==
    ASSUME TypeInv, NEW i \in Items, NEW corr \in Corrs, Noted(i, corr)
    PROVE  /\ hub' \in Hub /\ hub'.index = hub.index
           /\ hub'.processed = hub.processed /\ hub'.itemExec = hub.itemExec
           /\ hub'.events = Append(hub.events, [corr |-> corr, item |-> i])
           /\ hub'.events \in Seq(ReadyEvent)
  <1>1. hub \in Hub /\ hub.events \in Seq(ReadyEvent)
    BY DEF TypeInv, HubTypes, Hub
  <1>2. PICK event : event = [corr |-> corr, item |-> i]
    OBVIOUS
  <1>3. event \in ReadyEvent
    BY <1>2 DEF ReadyEvent
  <1>4. PICK es : es = Append(hub.events, event)
    OBVIOUS
  <1>5. es \in Seq(ReadyEvent)
    BY <1>1, <1>3, <1>4
  <1>6. hub' = [events |-> es, processed |-> hub.processed,
                itemExec |-> hub.itemExec, index |-> hub.index]
    BY <1>2, <1>4, HubIsRecord DEF Noted
  <1>7. hub.processed \in SUBSET Corrs /\ hub.index \in Index
        /\ hub.itemExec \in [Items -> 0..MaxExecs]
    BY <1>1 DEF Hub
  <1>8. hub' \in Hub
    BY <1>5, <1>6, <1>7 DEF Hub
  <1> QED
    BY <1>2, <1>4, <1>5, <1>6, <1>8

LEMMA NotedKeepsHub ==
    ASSUME TypeInv, Sound(hub.index, executions), NEW i \in Items, NEW corr \in Corrs,
           Noted(i, corr)
    PROVE  HubKept
  <1>1. /\ executions' = executions /\ Len(executions) \in Nat
        /\ executions \in Seq(Execution) /\ Len(executions) <= MaxExecs
    BY DEF TypeInv, HubTypes, Noted
  <1>2. hub' \in Hub /\ hub'.index = hub.index
    BY NotedFields
  <1>3. Sound(hub'.index, executions') /\ Extends(hub.index, hub'.index)
    BY <1>1, <1>2, ExtendsItself
  <1> QED
    BY <1>1, <1>2, <1>3 DEF HubKept, Live

LEMMA CreatesKeepsHub ==
    ASSUME TypeInv, Sound(hub.index, executions), NEW i \in Items, NEW corr \in Corrs,
           Creates(i, corr), hub'.events \in Seq(ReadyEvent)
    PROVE  HubKept
  <1>1. /\ hub' \in Hub /\ executions' \in Seq(Execution)
        /\ Len(executions') = Len(executions) + 1 /\ Len(executions') <= MaxExecs
        /\ \A e \in 1..Len(executions) : executions'[e] = executions[e]
        /\ Sound(hub'.index, executions') /\ Extends(hub.index, hub'.index)
    BY CreatesFacts
  <1>2. Len(executions) \in Nat /\ DOMAIN executions = 1..Len(executions)
    BY DEF TypeInv, HubTypes
  <1>3. Len(executions) <= Len(executions')
    BY <1>1, <1>2
  <1>4. \A e \in DOMAIN executions : executions'[e] = executions[e]
    BY <1>1, <1>2
  <1> QED
    BY <1>1, <1>3, <1>4 DEF HubKept, Live

\* The webhook of a first start is new to the hub, that of another one is not.
LEMMA StartsEvents ==
    ASSUME TypeInv, NEW i \in Items, NEW corr \in Corrs, Starts(i, corr)
    PROVE  /\ hub'.events \in Seq(ReadyEvent)
           /\ hub'.events = Append(hub.events, [corr |-> corr, item |-> i])
  <1>1. PICK event : event = [corr |-> corr, item |-> i]
    OBVIOUS
  <1>2. event \in ReadyEvent /\ hub'.events = Append(hub.events, event)
    BY <1>1 DEF ReadyEvent, Starts
  <1>3. hub.events \in Seq(ReadyEvent)
    BY DEF TypeInv, HubTypes, Hub
  <1> QED
    BY <1>1, <1>2, <1>3

LEMMA ApplyFields ==
    ASSUME TypeInv, NEW ix, hub' = [hub EXCEPT !.index = ix], ix \in Index
    PROVE  /\ hub' \in Hub /\ hub'.index = ix /\ hub'.events = hub.events
           /\ hub'.processed = hub.processed /\ hub'.itemExec = hub.itemExec
  <1>1. hub \in [events : Seq(ReadyEvent), processed : SUBSET Corrs,
                 itemExec : [Items -> 0..MaxExecs], index : Index]
    BY DEF TypeInv, HubTypes, Hub
  <1>2. hub' = [events |-> hub.events, processed |-> hub.processed,
                itemExec |-> hub.itemExec, index |-> ix]
    BY <1>1
  <1>3. /\ hub.events \in Seq(ReadyEvent) /\ hub.processed \in SUBSET Corrs
        /\ hub.itemExec \in [Items -> 0..MaxExecs]
    BY <1>1
  <1> QED
    BY <1>2, <1>3 DEF Hub

LEMMA WebhookKeepsHub ==
    ASSUME TypeInv, Sound(hub.index, executions), NEW p \in PRs, GitHubWebhook(p)
    PROVE  /\ HubKept /\ DOMAIN executions' = DOMAIN executions
           /\ hub'.events = hub.events
           /\ hub'.processed = hub.processed /\ hub'.itemExec = hub.itemExec
  <1>0. PICK event \in GitEvents : Apply(event)
    <2>1. PICK event \in PullRequestEvents(p) \cup CheckEvents(p) : Apply(event)
      BY DEF GitHubWebhook
    <2>2. event \in GitEvents
      BY EventsTyped
    <2> QED
      BY <2>1, <2>2
  <1>1. PICK c, e, claim :
           /\ c = Resolve(hub.index, event) /\ e = hub.index.rec[c].exec
           /\ claim = Enriched(c, event)
    OBVIOUS
  <1>2. /\ e \in DOMAIN executions /\ hub.index.byExec[e] = c
        /\ executions' = executions \/ Moves(e)
        /\ hub' = [hub EXCEPT !.index = Registered(hub.index, claim)]
        /\ claim \in Claims /\ claim.exec = e /\ claim.corr = c
        /\ Full(hub.index, claim)
    BY <1>0, <1>1, ApplyCases
  <1>3. PICK ix, ex : ix = hub.index /\ ex = executions
    OBVIOUS
  <1>4. /\ ix \in Index /\ ex \in Seq(Execution) /\ Len(executions) \in Nat
        /\ Len(executions) <= MaxExecs
    BY <1>3 DEF TypeInv, HubTypes, Hub
  <1>5. /\ Registered(ix, claim) \in Index /\ Sound(Registered(ix, claim), ex)
        /\ Extends(ix, Registered(ix, claim))
    <2>1. Sound(ix, ex) /\ ix.byExec[claim.exec] \in {Nil, claim.corr}
          /\ claim.exec \in DOMAIN ex /\ Full(ix, claim)
      BY <1>2, <1>3
    <2> QED
      BY <1>2, <1>4, <2>1, RegisteredSound, RegisteredExtends
  <1>6. PICK jx : jx = Registered(ix, claim)
    OBVIOUS
  <1>7. /\ hub' \in Hub /\ hub'.index = jx /\ hub'.events = hub.events
        /\ hub'.processed = hub.processed /\ hub'.itemExec = hub.itemExec
    <2>1. hub' = [hub EXCEPT !.index = jx] /\ jx \in Index
      BY <1>2, <1>3, <1>5, <1>6
    <2> QED
      BY <2>1, ApplyFields
  <1>8. /\ executions' \in Seq(Execution) /\ Len(executions') = Len(executions)
        /\ DOMAIN executions' = DOMAIN executions
        /\ \A d \in DOMAIN executions :
              /\ executions'[d].item = executions[d].item
              /\ executions'[d].corr = executions[d].corr
              /\ executions'[d].again = executions[d].again
              /\ executions'[d].status \notin TerminalStatus => Live(d)
    <2>1. CASE executions' = executions
      BY <1>3, <1>4, <2>1 DEF Live
    <2>2. CASE Moves(e)
      BY <2>2, MovesFacts
    <2> QED
      BY <1>2, <2>1, <2>2
  <1>9. Sound(jx, executions')
    <2>1. Sound(jx, executions)
      BY <1>3, <1>5, <1>6
    <2> QED
      BY <1>8, <2>1, StaysSound
  <1>10. Sound(hub'.index, executions') /\ Extends(hub.index, hub'.index)
    BY <1>3, <1>5, <1>6, <1>7, <1>9
  <1>11. Len(executions) <= Len(executions')
    BY <1>4, <1>8
  <1> QED
    BY <1>4, <1>7, <1>8, <1>10, <1>11 DEF HubKept

\* A retry of the Control API adds an execution, and to the index.
LEMMA RepeatsKeepsHub ==
    ASSUME TypeInv, Sound(hub.index, executions), NEW e \in DOMAIN executions,
           NEW corr \in Corrs, Repeats(e, corr)
    PROVE  /\ HubKept
           /\ \A d \in DOMAIN executions' : d \in DOMAIN executions \/ executions'[d].again
           /\ hub'.events = hub.events
           /\ hub'.processed = hub.processed /\ hub'.itemExec = hub.itemExec
  <1>1. /\ executions \in Seq(Execution) /\ Len(executions) \in Nat
        /\ Len(executions) < MaxExecs /\ MaxExecs \in Nat /\ executions[e] \in Execution
    BY IntegrationsAssumption DEF TypeInv, HubTypes, Repeats
  <1>2. PICK old, new, claim :
           /\ old = executions[e]
           /\ new = [old EXCEPT !.status = "queued", !.again = TRUE]
           /\ claim = [Claim(Len(executions) + 1, corr) EXCEPT !.item = old.item]
    OBVIOUS
  <1>3. /\ executions' = Append(executions, new)
        /\ hub' = [hub EXCEPT !.index = Registered(hub.index, claim)]
    BY <1>2 DEF Repeats
  <1>4. new \in Execution /\ new.again
    <2>1. PICK r : r = [old EXCEPT !.status = "queued"]
      OBVIOUS
    <2>2. r \in Execution /\ new = [r EXCEPT !.again = TRUE]
      BY <1>1, <1>2, <2>1 DEF Execution, Status
    <2> QED
      BY <2>2 DEF Execution
  <1>5. PICK len, ix : len = Len(executions) /\ ix = hub.index
    OBVIOUS
  <1>6. /\ executions' \in Seq(Execution) /\ Len(executions') = len + 1
        /\ DOMAIN executions' = 1..(len + 1) /\ DOMAIN executions = 1..len
        /\ executions'[len + 1] = new
        /\ \A d \in 1..len : executions'[d] = executions[d]
    BY <1>1, <1>3, <1>4, <1>5
  <1>7. /\ Registered(ix, claim) \in Index
        /\ Sound(Registered(ix, claim), executions')
        /\ Extends(ix, Registered(ix, claim))
    <2>1. PICK ex : ex = executions'
      OBVIOUS
    <2>2. ex \in Seq(Execution) /\ Len(ex) = Len(executions) + 1
      BY <1>5, <1>6, <2>1
    <2>3. PICK item \in Items : item = old.item
      BY <1>1, <1>2 DEF Execution
    <2> QED
      BY <1>1, <1>2, <1>5, <2>1, <2>2, <2>3, NewRegistered
  <1>8. PICK jx : jx = Registered(ix, claim)
    OBVIOUS
  <1>9. /\ hub' \in Hub /\ hub'.index = jx /\ hub'.events = hub.events
        /\ hub'.processed = hub.processed /\ hub'.itemExec = hub.itemExec
    <2>1. hub' = [hub EXCEPT !.index = jx] /\ jx \in Index
      BY <1>3, <1>5, <1>7, <1>8
    <2> QED
      BY <2>1, ApplyFields
  <1>10. \A d \in DOMAIN executions' : d \in DOMAIN executions \/ executions'[d].again
    <2> SUFFICES ASSUME NEW d \in 1..(len + 1)
                 PROVE  d \in 1..len \/ executions'[d].again
      BY <1>6
    <2>1. d \in 1..len \/ d = len + 1
      BY <1>1, <1>5
    <2> QED
      BY <1>4, <1>6, <2>1
  <1>11. Len(executions) <= Len(executions') /\ Len(executions') <= MaxExecs
    BY <1>1, <1>5, <1>6
  <1>12. \A d \in DOMAIN executions :
            /\ executions'[d].item = executions[d].item
            /\ executions'[d].corr = executions[d].corr
            /\ executions'[d].again = executions[d].again
            /\ executions'[d].status \notin TerminalStatus => Live(d)
    BY <1>6 DEF Live
  <1>13. Sound(hub'.index, executions') /\ Extends(hub.index, hub'.index)
    BY <1>5, <1>7, <1>8, <1>9
  <1> QED
    BY <1>6, <1>9, <1>10, <1>11, <1>12, <1>13 DEF HubKept

LEMMA HubStepKeeps ==
    ASSUME TypeInv, Sound(hub.index, executions), HubSteps
    PROVE  HubKept
  <1>1. ASSUME NEW i \in Items, StartsAgain(i)
        PROVE  HubKept
    <2>1. PICK n \in DOMAIN hub.events :
             /\ hub.events[n] \in ReadyEvent
             /\ Creates(i, hub.events[n].corr) /\ hub'.events = hub.events
      BY <1>1 DEF StartsAgain
    <2>2. PICK corr : corr = hub.events[n].corr
      OBVIOUS
    <2>3. corr \in Corrs /\ hub'.events \in Seq(ReadyEvent)
      BY <2>1, <2>2 DEF ReadyEvent, TypeInv, HubTypes, Hub
    <2> QED
      BY <2>1, <2>2, <2>3, CreatesKeepsHub
  <1>2. ASSUME NEW i \in Items, NEW corr \in Corrs, Starts(i, corr)
        PROVE  HubKept
    <2>1. Creates(i, corr)
      BY <1>2 DEF Starts
    <2> QED
      BY <1>2, <2>1, StartsEvents, CreatesKeepsHub
  <1> QED
    BY <1>1, <1>2, HubUnchanged, MovesKeepsHub, NotedKeepsHub, WebhookKeepsHub,
       RepeatsKeepsHub DEF HubSteps


\* The third part of EventsInv, of one execution.
Started(e) ==
    /\ executions[e].corr \in hub.processed
    /\ hub.itemExec[executions[e].item] # 0
    /\ \E n \in DOMAIN hub.events :
          /\ hub.events[n] = EventOf(e)
          /\ Live(e) /\ e # hub.itemExec[executions[e].item] => Outrun(n)

\* An execution of this process stays accounted for when events are only added
\* and every execution that is displaced has been, or is, outrun.
LEMMA StaysStarted ==
    ASSUME TypeInv, HubKept, EventsInv, NEW e \in Young,
           \A n \in DOMAIN hub.events :
              n \in DOMAIN hub'.events /\ hub'.events[n] = hub.events[n],
           hub.processed \subseteq hub'.processed,
           \A i \in Items : hub.itemExec[i] # 0 => hub'.itemExec[i] # 0,
           \A n \in DOMAIN hub.events :
              (/\ hub.events[n] = EventOf(e) /\ Live(e)
               /\ e = hub.itemExec[executions[e].item]
               /\ e # hub'.itemExec[executions[e].item])
                 => \E m \in DOMAIN hub'.events :
                       m > n /\ hub'.events[m].item = hub'.events[n].item
    PROVE  Started(e)'
  <1>1. /\ e \in DOMAIN executions /\ executions[e] \in Execution
        /\ Len(executions) \in Nat /\ born \in Nat
    BY DEF TypeInv, HubTypes, Young
  <1>2. /\ executions'[e].item = executions[e].item
        /\ executions'[e].corr = executions[e].corr
        /\ executions'[e].status \notin TerminalStatus => Live(e)
    BY <1>1 DEF HubKept
  <1>3. PICK i, corr : i = executions[e].item /\ corr = executions[e].corr
    OBVIOUS
  <1>4. i \in Items
    BY <1>1, <1>3 DEF Execution
  <1>5. corr \in hub.processed /\ hub.itemExec[i] # 0
    BY <1>3 DEF EventsInv
  <1>6. PICK n \in DOMAIN hub.events :
           /\ hub.events[n] = EventOf(e)
           /\ Live(e) /\ e # hub.itemExec[i] => Outrun(n)
    BY <1>3 DEF EventsInv
  <1>7. hub'.events[n] = hub.events[n] /\ n \in DOMAIN hub'.events
    OBVIOUS
  <1>8. EventOf(e)' = EventOf(e)
    BY <1>2 DEF EventOf
  <1>9. ASSUME Live(e)', e # hub'.itemExec[i]
        PROVE  \E m \in DOMAIN hub'.events :
                  m > n /\ hub'.events[m].item = hub'.events[n].item
    <2>1. Live(e)
      BY <1>2, <1>9 DEF Live
    <2>2. CASE e = hub.itemExec[i]
      BY <1>3, <1>6, <1>9, <2>1, <2>2
    <2>3. CASE e # hub.itemExec[i]
      <3>1. PICK m \in DOMAIN hub.events :
               m > n /\ hub.events[m].item = hub.events[n].item
        BY <1>6, <2>1, <2>3 DEF Outrun
      <3>2. m \in DOMAIN hub'.events /\ hub'.events[m] = hub.events[m]
        OBVIOUS
      <3> QED
        BY <1>7, <3>1, <3>2
    <2> QED
      BY <2>2, <2>3
  <1>10. executions'[e].item = i /\ executions'[e].corr = corr
    BY <1>2, <1>3
  <1>11. corr \in hub'.processed /\ hub'.itemExec[i] # 0
    BY <1>4, <1>5
  <1> QED
    BY <1>6, <1>7, <1>8, <1>9, <1>10, <1>11 DEF Started, Outrun

\* Webhooks start no execution, and what the hub notes of them is as it was.
LEMMA SameNotes ==
    ASSUME TypeInv, HubKept, EventsInv, OneLive, born' = born,
           \A e \in DOMAIN executions' : e \in DOMAIN executions \/ executions'[e].again,
           hub'.events = hub.events, hub'.processed = hub.processed,
           hub'.itemExec = hub.itemExec
    PROVE  EventsInv' /\ OneLive'
  <1>1. PICK len, new \in Nat : len = Len(executions) /\ new = Len(executions')
    BY DEF TypeInv, HubTypes, HubKept
  <1>2. /\ DOMAIN executions = 1..len /\ DOMAIN executions' = 1..new
        /\ len <= new /\ born \in 0..len
        /\ \A e \in 1..len : executions'[e].again = executions[e].again
    BY <1>1 DEF TypeInv, HubTypes, HubKept
  <1>3. Young' = Young
    <2>1. Young = {e \in (born + 1)..len : ~executions[e].again}
      BY <1>1 DEF Young
    <2>2. Young' = {e \in (born + 1)..new : ~executions'[e].again}
      BY <1>1 DEF Young
    <2>3. ASSUME NEW e \in (born + 1)..new, ~executions'[e].again
          PROVE  e \in (born + 1)..len /\ ~executions[e].again
      <3>1. e \in 1..new
        BY <1>2
      <3>2. e \in 1..len
        BY <1>2, <2>3, <3>1
      <3> QED
        BY <1>2, <2>3, <3>2
    <2>4. ASSUME NEW e \in (born + 1)..len, ~executions[e].again
          PROVE  e \in (born + 1)..new /\ ~executions'[e].again
      <3>1. e \in 1..len /\ e \in (born + 1)..new
        BY <1>2
      <3> QED
        BY <1>2, <2>4, <3>1
    <2> QED
      BY <2>1, <2>2, <2>3, <2>4
  <1>4. ASSUME NEW e \in Young PROVE Started(e)'
    <2>1. \A n \in DOMAIN hub.events :
             n \in DOMAIN hub'.events /\ hub'.events[n] = hub.events[n]
      OBVIOUS
    <2>2. hub.processed \subseteq hub'.processed
      OBVIOUS
    <2>3. \A j \in Items : hub.itemExec[j] # 0 => hub'.itemExec[j] # 0
      OBVIOUS
    <2>4. \A n \in DOMAIN hub.events :
             (/\ hub.events[n] = EventOf(e) /\ Live(e)
              /\ e = hub.itemExec[executions[e].item]
              /\ e # hub'.itemExec[executions[e].item])
               => \E m \in DOMAIN hub'.events :
                     m > n /\ hub'.events[m].item = hub'.events[n].item
      OBVIOUS
    <2> QED
      BY <2>1, <2>2, <2>3, <2>4, StaysStarted
  <1>5. EventsInv'
    BY <1>3, <1>4 DEF EventsInv, Started
  <1>6. OneLive'
    <2> SUFFICES ASSUME NEW d \in Young, NEW e \in Young, d # e, Live(d)', Live(e)'
                 PROVE  \/ executions'[d].item # executions'[e].item
                        \/ executions'[d].corr # executions'[e].corr
      BY <1>3 DEF OneLive, Young
    <2>1. d \in DOMAIN executions /\ e \in DOMAIN executions
      BY <1>1, <1>2 DEF Young
    <2>2. /\ executions'[d].item = executions[d].item
          /\ executions'[d].corr = executions[d].corr
          /\ executions'[e].item = executions[e].item
          /\ executions'[e].corr = executions[e].corr
          /\ Live(d) /\ Live(e)
      BY <2>1 DEF HubKept, Live
    <2> QED
      BY <2>2 DEF OneLive, Young
  <1> QED
    BY <1>5, <1>6

LEMMA NotedKeepsNotes ==
    ASSUME TypeInv, Sound(hub.index, executions), EventsInv, OneLive, born' = born,
           NEW i \in Items, NEW corr \in Corrs, Noted(i, corr)
    PROVE  EventsInv' /\ OneLive'
  <1>1. HubKept
    BY NotedKeepsHub
  <1>2. executions' = executions
    BY DEF Noted
  <1>3. PICK event : event = [corr |-> corr, item |-> i]
    OBVIOUS
  <1>4. /\ hub'.processed = hub.processed /\ hub'.itemExec = hub.itemExec
        /\ hub'.events = Append(hub.events, event)
        /\ \A n \in DOMAIN hub.events : hub.events[n] # event
        /\ event.corr \in hub.processed
    BY <1>3, NotedFields DEF Noted
  <1>5. PICK len \in Nat : len = Len(hub.events)
    BY DEF TypeInv, HubTypes, Hub
  <1>6. /\ DOMAIN hub.events = 1..len /\ DOMAIN hub'.events = 1..(len + 1)
        /\ hub'.events[len + 1] = event
        /\ \A n \in 1..len : hub'.events[n] = hub.events[n]
    BY <1>4, <1>5 DEF TypeInv, HubTypes, Hub
  <1>7. \A n \in DOMAIN hub.events :
           n \in DOMAIN hub'.events /\ hub'.events[n] = hub.events[n]
    BY <1>6
  <1>8. ASSUME NEW e \in Young PROVE Started(e)'
    <2>1. hub.processed \subseteq hub'.processed
      BY <1>4
    <2>2. \A j \in Items : hub.itemExec[j] # 0 => hub'.itemExec[j] # 0
      BY <1>4
    <2>3. \A n \in DOMAIN hub.events :
             (/\ hub.events[n] = EventOf(e) /\ Live(e)
              /\ e = hub.itemExec[executions[e].item]
              /\ e # hub'.itemExec[executions[e].item])
               => \E m \in DOMAIN hub'.events :
                     m > n /\ hub'.events[m].item = hub'.events[n].item
      BY <1>4
    <2> QED
      BY <1>1, <1>7, <2>1, <2>2, <2>3, StaysStarted
  <1>9. Young' = Young
    BY <1>2 DEF Young
  <1>10. \A n \in DOMAIN hub'.events : hub'.events[n].corr \in hub'.processed
    <2> SUFFICES ASSUME NEW n \in 1..(len + 1)
                 PROVE  hub'.events[n].corr \in hub'.processed
      BY <1>6
    <2>1. CASE n = len + 1
      BY <1>4, <1>6, <2>1
    <2>2. CASE n \in 1..len
      BY <1>4, <1>6, <2>2 DEF EventsInv
    <2> QED
      BY <2>1, <2>2
  <1>11. \A m, n \in DOMAIN hub'.events : m # n => hub'.events[m] # hub'.events[n]
    <2> SUFFICES ASSUME NEW m \in 1..(len + 1), NEW n \in 1..(len + 1), m # n
                 PROVE  hub'.events[m] # hub'.events[n]
      BY <1>6
    <2>1. CASE m \in 1..len /\ n \in 1..len
      BY <1>6, <2>1 DEF EventsInv
    <2>2. CASE m = len + 1 /\ n \in 1..len
      BY <1>4, <1>6, <2>2
    <2>3. CASE m \in 1..len /\ n = len + 1
      BY <1>4, <1>6, <2>3
    <2> QED
      BY <2>1, <2>2, <2>3
  <1>12. EventsInv'
    BY <1>8, <1>9, <1>10, <1>11 DEF EventsInv, Started
  <1>13. OneLive'
    BY <1>2 DEF OneLive, Live
  <1> QED
    BY <1>12, <1>13


\* A creation, of whatever webhook.
LEMMA CreationKeepsNotes ==
    ASSUME TypeInv, Sound(hub.index, executions), EventsInv, OneLive, born' = born,
           NEW i \in Items, NEW corr \in Corrs, Creates(i, corr),
           hub'.events \in Seq(ReadyEvent),
           \A n \in DOMAIN hub.events :
              n \in DOMAIN hub'.events /\ hub'.events[n] = hub.events[n],
           \A n \in DOMAIN hub'.events : hub'.events[n].corr \in hub'.processed,
           \A m, n \in DOMAIN hub'.events : m # n => hub'.events[m] # hub'.events[n],
           NEW k \in DOMAIN hub'.events, hub'.events[k] = [corr |-> corr, item |-> i],
           \A e \in Young : Live(e) /\ executions[e].item = i => executions[e].corr # corr,
           \A e \in Young, n \in DOMAIN hub.events :
              (/\ hub.events[n] = EventOf(e) /\ Live(e)
               /\ executions[e].item = i /\ e = hub.itemExec[i])
                 => \E m \in DOMAIN hub'.events :
                       m > n /\ hub'.events[m].item = hub'.events[n].item
    PROVE  EventsInv' /\ OneLive'
  <1>1. HubKept
    BY CreatesKeepsHub
  <1>2. PICK len \in Nat : len = Len(executions)
    BY DEF TypeInv, HubTypes
  <1>3. /\ Len(executions') = len + 1
        /\ executions'[len + 1] = Queued(i, corr)
        /\ \A e \in 1..len : executions'[e] = executions[e]
        /\ hub'.processed = hub.processed \cup {corr}
        /\ \A j \in Items : hub'.itemExec[j] = IF j = i THEN len + 1 ELSE hub.itemExec[j]
    BY <1>2, CreatesFacts
  <1>4. \A e \in Young' : e \in Young \/ e = len + 1
    <2>1. born \in 0..len /\ Young' = {e \in (born + 1)..(len + 1) : ~executions'[e].again}
      BY <1>2, <1>3 DEF TypeInv, HubTypes, Young
    <2> SUFFICES ASSUME NEW e \in (born + 1)..(len + 1), ~executions'[e].again, e # len + 1
                 PROVE  e \in Young
      BY <2>1
    <2>2. e \in (born + 1)..len /\ e \in 1..len
      BY <2>1
    <2>3. ~executions[e].again
      BY <1>3, <2>2
    <2> QED
      BY <1>2, <2>2, <2>3 DEF Young
  <1>5. \A e \in Young : e \in 1..len /\ executions'[e] = executions[e]
    <2>1. \A e \in Young : e \in 1..len
      BY <1>2 DEF Young, TypeInv, HubTypes
    <2> QED
      BY <1>3, <2>1
  <1>6. ASSUME NEW e \in Young PROVE Started(e)'
    <2>1. hub.processed \subseteq hub'.processed
      BY <1>3
    <2>2. \A j \in Items : hub.itemExec[j] # 0 => hub'.itemExec[j] # 0
      BY <1>3
    <2>3. executions[e].item \in Items
      <3>1. executions[e] \in Execution
        BY <1>2, <1>5 DEF TypeInv, HubTypes
      <3> QED
        BY <3>1 DEF Execution
    <2>4. \A n \in DOMAIN hub.events :
             (/\ hub.events[n] = EventOf(e) /\ Live(e)
              /\ e = hub.itemExec[executions[e].item]
              /\ e # hub'.itemExec[executions[e].item])
               => \E m \in DOMAIN hub'.events :
                     m > n /\ hub'.events[m].item = hub'.events[n].item
      BY <1>3, <2>3
    <2> QED
      BY <1>1, <2>1, <2>2, <2>4, StaysStarted
  <1>7. Started(len + 1)'
    <2>1. PICK new : new = len + 1
      OBVIOUS
    <2>2. executions'[new].item = i /\ executions'[new].corr = corr
      BY <1>3, <2>1 DEF Queued
    <2>3. hub'.itemExec[i] = new /\ new # 0 /\ corr \in hub'.processed
      BY <1>3, <2>1
    <2>4. EventOf(new)' = hub'.events[k]
      BY <2>2 DEF EventOf
    <2>5. Started(new)'
      BY <2>2, <2>3, <2>4 DEF Started
    <2> QED
      BY <2>1, <2>5
  <1>8. \A e \in Young' : Started(e)'
    BY <1>4, <1>6, <1>7
  <1>9. EventsInv'
    BY <1>8 DEF EventsInv, Started
  <1>10. OneLive'
    <2>1. ASSUME NEW d \in Young
          PROVE  Live(d)' => \/ executions'[d].item # i
                             \/ executions'[d].corr # corr
      BY <1>5 DEF Live
    <2>2. ASSUME NEW d \in Young, NEW e \in Young, d # e, Live(d)', Live(e)'
          PROVE  \/ executions'[d].item # executions'[e].item
                 \/ executions'[d].corr # executions'[e].corr
      BY <1>5, <2>2 DEF OneLive, Young, Live
    <2> SUFFICES ASSUME NEW d \in Young', NEW e \in Young', d # e, Live(d)', Live(e)'
                 PROVE  \/ executions'[d].item # executions'[e].item
                        \/ executions'[d].corr # executions'[e].corr
      BY DEF OneLive, Young
    <2>3. CASE d = len + 1
      <3>1. e \in Young
        BY <1>4, <2>3
      <3>2. executions'[d].item = i /\ executions'[d].corr = corr
        BY <1>3, <2>3 DEF Queued
      <3>3. executions'[e].item # i \/ executions'[e].corr # corr
        BY <2>1, <3>1
      <3> QED
        BY <3>2, <3>3
    <2>4. CASE e = len + 1
      <3>1. d \in Young
        BY <1>4, <2>4
      <3> QED
        BY <1>3, <2>1, <2>4, <3>1 DEF Queued
    <2>5. CASE d # len + 1 /\ e # len + 1
      <3>1. d \in Young /\ e \in Young
        BY <1>4, <2>5
      <3> QED
        BY <2>2, <3>1
    <2> QED
      BY <2>3, <2>4, <2>5
  <1> QED
    BY <1>9, <1>10

\* A first start: no execution of this process has its correlation.
LEMMA StartsKeepsNotes ==
    ASSUME TypeInv, Sound(hub.index, executions), EventsInv, OneLive, born' = born,
           NEW i \in Items, NEW corr \in Corrs, Starts(i, corr)
    PROVE  EventsInv' /\ OneLive'
  <1>1. PICK event : event = [corr |-> corr, item |-> i]
    OBVIOUS
  <1>2. /\ hub'.events \in Seq(ReadyEvent) /\ hub'.events = Append(hub.events, event)
        /\ \A n \in DOMAIN hub.events : hub.events[n] # event
        /\ corr \notin hub.processed /\ Creates(i, corr)
        /\ event.corr = corr /\ event.item = i
    BY <1>1, StartsEvents DEF Starts
  <1>3. hub'.processed = hub.processed \cup {corr}
    BY <1>2, CreatesFacts
  <1>4. PICK len \in Nat : len = Len(hub.events)
    BY DEF TypeInv, HubTypes, Hub
  <1>5. /\ DOMAIN hub.events = 1..len /\ DOMAIN hub'.events = 1..(len + 1)
        /\ hub'.events[len + 1] = event
        /\ \A n \in 1..len : hub'.events[n] = hub.events[n]
    BY <1>2, <1>4 DEF TypeInv, HubTypes, Hub
  <1>6. \A n \in DOMAIN hub.events :
           n \in DOMAIN hub'.events /\ hub'.events[n] = hub.events[n]
    BY <1>5
  <1>7. \A n \in DOMAIN hub'.events : hub'.events[n].corr \in hub'.processed
    <2> SUFFICES ASSUME NEW n \in 1..(len + 1)
                 PROVE  hub'.events[n].corr \in hub'.processed
      BY <1>5
    <2>1. CASE n = len + 1
      BY <1>2, <1>3, <1>5, <2>1
    <2>2. CASE n \in 1..len
      BY <1>3, <1>5, <2>2 DEF EventsInv
    <2> QED
      BY <2>1, <2>2
  <1>8. \A m, n \in DOMAIN hub'.events : m # n => hub'.events[m] # hub'.events[n]
    <2> SUFFICES ASSUME NEW m \in 1..(len + 1), NEW n \in 1..(len + 1), m # n
                 PROVE  hub'.events[m] # hub'.events[n]
      BY <1>5
    <2>1. CASE m \in 1..len /\ n \in 1..len
      BY <1>5, <2>1 DEF EventsInv
    <2>2. CASE m = len + 1 /\ n \in 1..len
      BY <1>2, <1>5, <2>2
    <2>3. CASE m \in 1..len /\ n = len + 1
      BY <1>2, <1>5, <2>3
    <2> QED
      BY <2>1, <2>2, <2>3
  <1>9. PICK k \in DOMAIN hub'.events : k = len + 1
    BY <1>5
  <1>10. hub'.events[k] = [corr |-> corr, item |-> i]
    BY <1>1, <1>5, <1>9
  <1>11. \A e \in Young : Live(e) /\ executions[e].item = i => executions[e].corr # corr
    BY <1>2 DEF EventsInv
  <1>12. \A e \in Young, n \in DOMAIN hub.events :
            (/\ hub.events[n] = EventOf(e) /\ Live(e)
             /\ executions[e].item = i /\ e = hub.itemExec[i])
               => \E m \in DOMAIN hub'.events :
                     m > n /\ hub'.events[m].item = hub'.events[n].item
    <2> SUFFICES ASSUME NEW e \in Young, NEW n \in DOMAIN hub.events,
                        hub.events[n] = EventOf(e), executions[e].item = i
                 PROVE  k > n /\ hub'.events[k].item = hub'.events[n].item
      OBVIOUS
    <2>1. hub.events[n].item = i
      BY DEF EventOf
    <2>2. n \in 1..len
      BY <1>5
    <2> QED
      BY <1>2, <1>5, <1>9, <2>1, <2>2
  <1> QED
    BY <1>2, <1>6, <1>7, <1>8, <1>10, <1>11, <1>12, CreationKeepsNotes

\* Another start of an item's last webhook: an execution under way that was
\* created for that webhook would be the one the item is known to have.
LEMMA StartsAgainKeepsNotes ==
    ASSUME TypeInv, Sound(hub.index, executions), EventsInv, OneLive, born' = born,
           NEW i \in Items, StartsAgain(i)
    PROVE  EventsInv' /\ OneLive'
  <1>1. PICK n \in DOMAIN hub.events :
           /\ hub.events[n] \in ReadyEvent /\ hub.events[n].item = i
           /\ \A m \in DOMAIN hub.events : hub.events[m].item = i => m <= n
           /\ Creates(i, hub.events[n].corr) /\ hub'.events = hub.events
    BY DEF StartsAgain
  <1>2. PICK corr : corr = hub.events[n].corr
    OBVIOUS
  <1>3. /\ corr \in Corrs /\ hub.events \in Seq(ReadyEvent) /\ Creates(i, corr)
        /\ hub.events[n] = [corr |-> corr, item |-> i]
    BY <1>1, <1>2 DEF ReadyEvent, TypeInv, HubTypes, Hub
  <1>4. hub'.processed = hub.processed \cup {corr}
    BY <1>1, <1>3, CreatesFacts
  <1>5. \A e \in Young : Live(e) /\ executions[e].item = i => e # hub.itemExec[i]
    <2> SUFFICES ASSUME NEW e \in Young, Live(e), executions[e].item = i,
                        e = hub.itemExec[i]
                 PROVE  FALSE
      OBVIOUS
    <2>1. e # 0
      BY DEF Young, TypeInv, HubTypes
    <2>2. Existing(i) = e
      BY <2>1 DEF Existing
    <2> QED
      BY <2>1, <2>2 DEF StartsAgain
  <1>6. \A e \in Young : Live(e) /\ executions[e].item = i => executions[e].corr # corr
    <2> SUFFICES ASSUME NEW e \in Young, Live(e), executions[e].item = i,
                        executions[e].corr = corr
                 PROVE  FALSE
      OBVIOUS
    <2>1. PICK k \in DOMAIN hub.events :
             /\ hub.events[k] = EventOf(e)
             /\ Live(e) /\ e # hub.itemExec[executions[e].item] => Outrun(k)
      BY DEF EventsInv
    <2>2. hub.events[k] = hub.events[n]
      BY <1>3, <2>1 DEF EventOf
    <2>3. k = n
      BY <2>2 DEF EventsInv
    <2>4. PICK m \in DOMAIN hub.events : m > n /\ hub.events[m].item = i
      BY <1>1, <1>5, <2>1, <2>3 DEF Outrun
    <2>5. m \in Nat /\ n \in Nat
      BY <1>3
    <2> QED
      BY <1>1, <2>4, <2>5
  <1>7. \A m \in DOMAIN hub'.events : hub'.events[m].corr \in hub'.processed
    BY <1>1, <1>4 DEF EventsInv
  <1>8. \A m, k \in DOMAIN hub'.events : m # k => hub'.events[m] # hub'.events[k]
    BY <1>1 DEF EventsInv
  <1>9. \A m \in DOMAIN hub.events :
           m \in DOMAIN hub'.events /\ hub'.events[m] = hub.events[m]
    BY <1>1
  <1>10. \A e \in Young, m \in DOMAIN hub.events :
            (/\ hub.events[m] = EventOf(e) /\ Live(e)
             /\ executions[e].item = i /\ e = hub.itemExec[i])
               => \E k \in DOMAIN hub'.events :
                     k > m /\ hub'.events[k].item = hub'.events[m].item
    BY <1>5
  <1>11. /\ n \in DOMAIN hub'.events /\ hub'.events[n] = [corr |-> corr, item |-> i]
         /\ hub'.events \in Seq(ReadyEvent)
    BY <1>1, <1>3
  <1> QED
    BY <1>3, <1>6, <1>7, <1>8, <1>9, <1>10, <1>11, CreationKeepsNotes

LEMMA HubStepKeepsInv ==
    ASSUME TypeInv, HubInv, HubSteps, born' = born
    PROVE  HubInv'
  <1>1. Sound(hub.index, executions) /\ EventsInv /\ OneLive
    BY DEF HubInv
  <1>2. HubKept
    BY <1>1, HubStepKeeps
  <1>3. ASSUME UNCHANGED <<executions, hub>>
        PROVE  EventsInv' /\ OneLive'
    BY <1>1, <1>2, <1>3, SameNotes
  <1>4. ASSUME hub' = hub, NEW e \in DOMAIN executions, Moves(e)
        PROVE  EventsInv' /\ OneLive'
    BY <1>1, <1>2, <1>4, SameNotes, MovesFacts
  <1>5. ASSUME NEW p \in PRs, GitHubWebhook(p)
        PROVE  EventsInv' /\ OneLive'
    BY <1>1, <1>2, <1>5, SameNotes, WebhookKeepsHub
  <1>6. ASSUME NEW e \in DOMAIN executions, NEW corr \in Corrs, Repeats(e, corr)
        PROVE  EventsInv' /\ OneLive'
    BY <1>1, <1>2, <1>6, SameNotes, RepeatsKeepsHub
  <1>7. EventsInv' /\ OneLive'
    BY <1>1, <1>3, <1>4, <1>5, <1>6, NotedKeepsNotes, StartsKeepsNotes, StartsAgainKeepsNotes
       DEF HubSteps
  <1>8. Sound(hub.index, executions)'
    BY <1>2 DEF HubKept
  <1> QED
    BY <1>7, <1>8 DEF HubInv


LEMMA HubInit ==
    ASSUME Init
    PROVE  HubTypes /\ HubInv
  <1>1. MaxExecs \in Nat /\ executions = <<>> /\ restarts = 0 /\ born = 0
    BY IntegrationsAssumption DEF Init
  <1>2. executions \in Seq(Execution) /\ Len(executions) = 0 /\ DOMAIN executions = {}
    BY <1>1
  <1>3. EmptyHub \in Hub
    <2>1. EmptyIndex \in Index
      BY EmptySound
    <2>2. [i \in Items |-> 0] \in [Items -> 0..MaxExecs]
      BY <1>1
    <2>3. <<>> \in Seq(ReadyEvent)
      OBVIOUS
    <2> QED
      BY <2>1, <2>2, <2>3 DEF EmptyHub, Hub
  <1>4. hub \in Hub /\ hub.events = <<>> /\ hub.index = EmptyIndex
    BY <1>3 DEF Init, EmptyHub
  <1>5. HubTypes
    BY <1>1, <1>2, <1>4 DEF HubTypes
  <1>6. Sound(hub.index, executions)
    BY <1>4, EmptySound
  <1>7. Young = {}
    BY <1>1, <1>2 DEF Young
  <1>8. DOMAIN hub.events = {}
    BY <1>4
  <1>9. EventsInv
    BY <1>7, <1>8 DEF EventsInv
  <1>10. OneLive
    BY <1>7 DEF OneLive, Young
  <1> QED
    BY <1>5, <1>6, <1>9, <1>10 DEF HubInv

LEMMA HubRestart ==
    ASSUME TypeInv, Restart
    PROVE  HubTypes' /\ HubInv'
  <1>1. /\ MaxExecs \in Nat /\ executions' = executions /\ born' = Len(executions)
        /\ executions \in Seq(Execution) /\ Len(executions) \in Nat
        /\ Len(executions) <= MaxExecs /\ restarts' \in Nat /\ hub' = EmptyHub
    BY IntegrationsAssumption DEF TypeInv, HubTypes, Restart
  <1>2. EmptyHub \in Hub
    <2>1. EmptyIndex \in Index
      BY EmptySound
    <2>2. [i \in Items |-> 0] \in [Items -> 0..MaxExecs]
      BY <1>1
    <2>3. <<>> \in Seq(ReadyEvent)
      OBVIOUS
    <2> QED
      BY <2>1, <2>2, <2>3 DEF EmptyHub, Hub
  <1>3. hub' \in Hub /\ hub'.events = <<>> /\ hub'.index = EmptyIndex
    BY <1>1, <1>2 DEF EmptyHub
  <1>4. HubTypes'
    BY <1>1, <1>3 DEF HubTypes
  <1>5. Sound(hub.index, executions)'
    BY <1>3, EmptySound
  <1>6. Young' = {}
    BY <1>1 DEF Young
  <1>7. DOMAIN hub'.events = {}
    BY <1>3
  <1>8. EventsInv'
    BY <1>6, <1>7 DEF EventsInv
  <1>9. OneLive'
    BY <1>6 DEF OneLive, Young
  <1> QED
    BY <1>4, <1>5, <1>8, <1>9 DEF HubInv

LEMMA HubNext ==
    ASSUME TypeInv, HubInv, [Next]_vars
    PROVE  HubTypes' /\ HubInv'
  <1>1. CASE Restart
    BY <1>1, HubRestart
  <1>2. CASE UNCHANGED <<born, restarts>> /\ HubSteps
    <2>1. HubKept
      BY <1>2, HubStepKeeps DEF HubInv
    <2>2. Len(executions) \in Nat /\ Len(executions') \in Nat
      BY <2>1 DEF TypeInv, HubTypes, HubKept
    <2>3. born' \in 0..Len(executions')
      BY <1>2, <2>1, <2>2 DEF TypeInv, HubTypes, HubKept
    <2>4. HubTypes'
      BY <1>2, <2>1, <2>3 DEF TypeInv, HubTypes, HubKept
    <2> QED
      BY <1>2, <2>4, HubStepKeepsInv
  <1> QED
    BY <1>1, <1>2, NextIsHubStep DEF HubInv

\* What is bound stays bound, step by step.
LEMMA StepExtends ==
    ASSUME TypeInv, HubInv, [Next]_vars, restarts' = restarts
    PROVE  Extends(hub.index, hub'.index)
  <1>1. ~Restart
    BY DEF Restart, TypeInv, HubTypes
  <1>2. HubSteps
    BY <1>1, NextIsHubStep DEF HubInv
  <1> QED
    BY <1>2, HubStepKeeps DEF HubInv, HubKept

LEMMA SoundReports ==
    ASSUME TypeInv, Sound(hub.index, executions)
    PROVE  UnreachableReported
  <1> SUFFICES ASSUME NEW e \in DOMAIN executions, e \notin Orphans
               PROVE  \E c \in Corrs : hub.index.rec[c].exec = e
    BY DEF UnreachableReported
  <1>1. PICK c : c = hub.index.byExec[e]
    OBVIOUS
  <1>2. c # Nil
    BY <1>1 DEF Orphans
  <1>3. e \in 1..MaxExecs /\ e # 0
    <2>1. /\ executions \in Seq(Execution) /\ Len(executions) <= MaxExecs
          /\ Len(executions) \in Nat /\ MaxExecs \in Nat
      BY IntegrationsAssumption DEF TypeInv, HubTypes
    <2> QED
      BY <2>1
  <1>4. c \in Corrs
    BY <1>1, <1>2, <1>3 DEF TypeInv, HubTypes, Hub, Index
  <1>5. hub.index.rec[c].exec = e
    BY <1>1, <1>2, <1>3 DEF Sound
  <1> QED
    BY <1>4, <1>5

-----------------------------------------------------------------------------
(* The sync pass.                                                          *)

\* How many executions the pass is through with.
Done == Len(executions) - Len(pass.left)

\* e is the newest execution of i among the first k.
NewestOf(i, e, k) ==
    executions[e].item = i /\ \A d \in (e + 1)..k : executions[d].item # i

Shows(i, e) ==
    board[i] = [label |-> Label(executions[e].status), exec |-> e,
                corr |-> executions[e].corr]

\* The executions are pushed from the oldest to the newest, so the board shows
\* the newest of those that were pushed, for every item nothing has disturbed.
BoardInv ==
    pass.stage # "idle" =>
       /\ Done \in Nat
       /\ \A n \in DOMAIN pass.left : pass.left[n] = Done + n
       /\ \A i \in pass.clean : \A e \in 1..Done : NewestOf(i, e, Done) => Shows(i, e)
       /\ pass.stage = "push" =>
             /\ pass.left # <<>>
             /\ executions[pass.left[1]].item \in pass.clean =>
                   pass.label = Label(executions[pass.left[1]].status)

\* What can happen to the board and to the pass.
BoardSteps ==
    \/ UNCHANGED <<board, pass>> /\ (Idle \/ UNCHANGED executions)
    \/ SyncBegin \/ SyncRead \/ SyncWrite \/ SyncEnd
    \/ \E e \in DOMAIN executions : AgentMoves(e)
    \/ \E i \in Items : EditColumn(i)
    \/ Restart

LEMMA NextIsBoardStep ==
    ASSUME [Next]_vars
    PROVE  BoardSteps
  <1>1. CASE UNCHANGED vars
    BY <1>1 DEF vars, BoardSteps
  <1>2. ASSUME NEW i \in Items, ReadyWebhook(i) \/ CancelForItem(i) \/ RetryForItem(i)
        PROVE  BoardSteps
    BY <1>2 DEF ReadyWebhook, CancelForItem, RetryForItem, BoardSteps
  <1>3. ASSUME DrainPending \/ \E e \in DOMAIN executions : ControlRetry(e)
        PROVE  BoardSteps
    BY <1>3 DEF DrainPending, ControlRetry, BoardSteps
  <1>4. ASSUME NEW p \in PRs, GitHubWebhook(p)
        PROVE  BoardSteps
    BY <1>4 DEF GitHubWebhook, Apply, BoardSteps
  <1>5. CASE Next
    BY <1>2, <1>3, <1>4, <1>5 DEF Next, BoardSteps
  <1> QED
    BY <1>1, <1>5

Shown == [label : Labels, exec : Nat, corr : Corrs \cup {Nil}]

LEMMA PassFacts ==
    ASSUME TypeInv
    PROVE  /\ pass = [stage |-> pass.stage, left |-> pass.left, label |-> pass.label,
                      clean |-> pass.clean]
           /\ pass.left \in Seq(Nat) /\ Len(pass.left) \in Nat
           /\ pass.stage \in {"idle", "next", "push"} /\ pass.label \in Labels
           /\ pass.clean \subseteq Items
           /\ Len(executions) \in Nat /\ DOMAIN executions = 1..Len(executions)
           /\ executions \in Seq(Execution)
  BY DEF TypeInv, HubTypes, BoardTypes

\* The execution whose turn it is.
LEMMA NextTurn ==
    ASSUME TypeInv, BoardInv, pass.stage # "idle", pass.left # <<>>
    PROVE  /\ pass.left[1] = Done + 1 /\ pass.left[1] \in DOMAIN executions
           /\ executions[pass.left[1]] \in Execution
           /\ Label(executions[pass.left[1]].status) \in Labels
  <1>1. /\ pass.left \in Seq(Nat) /\ Len(executions) \in Nat
        /\ DOMAIN executions = 1..Len(executions) /\ executions \in Seq(Execution)
    BY PassFacts
  <1>2. PICK len \in Nat : len = Len(pass.left)
    BY <1>1
  <1>3. len # 0 /\ 1 \in DOMAIN pass.left
    BY <1>1, <1>2
  <1>4. Done \in Nat /\ pass.left[1] = Done + 1
    BY <1>3 DEF BoardInv
  <1>5. Done + 1 \in 1..Len(executions)
    BY <1>1, <1>2, <1>3, <1>4 DEF Done
  <1>6. executions[pass.left[1]] \in Execution
    BY <1>1, <1>4, <1>5
  <1>7. Label(executions[pass.left[1]].status) \in Labels
    BY <1>6 DEF Execution, Labels
  <1> QED
    BY <1>1, <1>4, <1>5, <1>6, <1>7

LEMMA BeginKeepsBoard ==
    ASSUME TypeInv, BoardInv, SyncBegin
    PROVE  BoardTypes' /\ BoardInv'
  <1>1. /\ pass' = [stage |-> "next", left |-> Listed, label |-> Nil, clean |-> Items]
        /\ board' = board /\ executions' = executions
    BY DEF SyncBegin
  <1>2. PICK len \in Nat : len = Len(executions) /\ DOMAIN executions = 1..len
    BY PassFacts
  <1>3. Listed = [n \in 1..len |-> n]
    BY <1>2 DEF Listed
  <1>4. Listed \in Seq(Nat) /\ Len(Listed) = len /\ DOMAIN Listed = 1..len
    BY <1>2, <1>3
  <1>5. pass'.left = Listed /\ pass'.stage = "next"
    BY <1>1
  <1>6. Done' = 0
    BY <1>1, <1>2, <1>4, <1>5 DEF Done
  <1>7. BoardTypes'
    BY <1>1, <1>4 DEF TypeInv, BoardTypes, Labels
  <1>8. \A n \in DOMAIN pass'.left : pass'.left[n] = 0 + n
    BY <1>3, <1>5
  <1>9. BoardInv'
    BY <1>5, <1>6, <1>8 DEF BoardInv
  <1> QED
    BY <1>7, <1>9

LEMMA ReadKeepsBoard ==
    ASSUME TypeInv, BoardInv, SyncRead
    PROVE  BoardTypes' /\ BoardInv'
  <1>1. PICK e, label : e = pass.left[1] /\ label = Label(executions[e].status)
    OBVIOUS
  <1>2. /\ pass.stage = "next" /\ pass.left # <<>>
        /\ pass' = [pass EXCEPT !.stage = "push", !.label = label]
        /\ board' = board /\ executions' = executions
    BY <1>1 DEF SyncRead
  <1>3. label \in Labels
    BY <1>1, <1>2, NextTurn
  <1>4. pass \in [stage : {"idle", "next", "push"}, left : Seq(Nat), label : Labels,
                  clean : SUBSET Items]
    BY DEF TypeInv, BoardTypes
  <1>5. pass' = [stage |-> "push", left |-> pass.left, label |-> label,
                 clean |-> pass.clean]
    BY <1>2, <1>4
  <1>6. BoardTypes'
    BY <1>2, <1>3, <1>4, <1>5 DEF TypeInv, BoardTypes
  <1>7. Done' = Done
    BY <1>2, <1>5 DEF Done
  <1>8. /\ Done \in Nat
        /\ \A n \in DOMAIN pass.left : pass.left[n] = Done + n
        /\ \A i \in pass.clean : \A d \in 1..Done : NewestOf(i, d, Done) => Shows(i, d)
    BY <1>2 DEF BoardInv
  <1>9. \A i \in pass.clean : \A d \in 1..Done : NewestOf(i, d, Done)' => Shows(i, d)'
    BY <1>2, <1>7, <1>8 DEF NewestOf, Shows
  <1>10. /\ pass'.left = pass.left /\ pass'.clean = pass.clean /\ pass'.label = label
         /\ executions'[e].status = executions[e].status
    BY <1>2, <1>5
  <1>11. BoardInv'
    BY <1>1, <1>2, <1>7, <1>8, <1>9, <1>10 DEF BoardInv
  <1> QED
    BY <1>6, <1>11

\* What a push writes to the board.
Push(bd, i, label, e, corr, written) ==
    [bd EXCEPT ![i].label = IF written >= 1 THEN label ELSE @,
               ![i].exec = IF written >= 2 THEN e ELSE @,
               ![i].corr = IF written = 3 THEN corr ELSE @]

LEMMA Written ==
    ASSUME NEW bd \in [Items -> Shown], NEW i \in Items, NEW label \in Labels,
           NEW e \in Nat, NEW corr \in Corrs, NEW written \in 0..3, NEW cd,
           cd = Push(bd, i, label, e, corr, written)
    PROVE  /\ cd \in [Items -> Shown]
           /\ \A j \in Items : j # i => cd[j] = bd[j]
           /\ written = 3 => cd[i] = [label |-> label, exec |-> e, corr |-> corr]
  <1> DEFINE l == IF written >= 1 THEN label ELSE bd[i].label
             x == IF written >= 2 THEN e ELSE bd[i].exec
             c == IF written = 3 THEN corr ELSE bd[i].corr
             b1 == [bd EXCEPT ![i].label = IF written >= 1 THEN label ELSE @]
             b2 == [b1 EXCEPT ![i].exec = IF written >= 2 THEN e ELSE @]
             b3 == [b2 EXCEPT ![i].corr = IF written = 3 THEN corr ELSE @]
  <1>1. bd[i] \in Shown
    OBVIOUS
  <1>2. PICK l0 \in Labels, x0 \in Nat, c0 \in Corrs \cup {Nil} :
           bd[i] = [label |-> l0, exec |-> x0, corr |-> c0]
    BY <1>1 DEF Shown
  <1>3. l = (IF written >= 1 THEN label ELSE l0) /\ x = (IF written >= 2 THEN e ELSE x0)
        /\ c = (IF written = 3 THEN corr ELSE c0)
    BY <1>2
  <1>4. b1 = [bd EXCEPT ![i] = [label |-> l, exec |-> x0, corr |-> c0]]
    <2>1. PICK r : r = [bd[i] EXCEPT !.label = IF written >= 1 THEN label ELSE @]
      OBVIOUS
    <2>2. bd[i] \in [label : {l0}, exec : {x0}, corr : {c0}]
      BY <1>2
    <2>3. r = [label |-> l, exec |-> x0, corr |-> c0]
      BY <2>1, <2>2
    <2>4. b1 = [bd EXCEPT ![i] = r]
      BY <2>1
    <2> QED
      BY <2>3, <2>4
  <1>5. b1[i] = [label |-> l, exec |-> x0, corr |-> c0]
    BY <1>4
  <1>6. l \in Labels /\ x \in Nat /\ c \in Corrs \cup {Nil}
    BY <1>3
  <1>7. [label |-> l, exec |-> x0, corr |-> c0] \in Shown
    BY <1>6 DEF Shown
  <1>8. b1 \in [Items -> Shown] /\ \A j \in Items : j # i => b1[j] = bd[j]
    BY <1>4, <1>7
  <1> HIDE DEF b1, l
  <1>9. b2 = [b1 EXCEPT ![i] = [label |-> l, exec |-> x, corr |-> c0]]
    <2>1. PICK r : r = [b1[i] EXCEPT !.exec = IF written >= 2 THEN e ELSE @]
      OBVIOUS
    <2>2. b1[i] \in [label : {l}, exec : {x0}, corr : {c0}]
      BY <1>5
    <2>3. r = [label |-> l, exec |-> x, corr |-> c0]
      BY <1>3, <2>1, <2>2
    <2>4. b2 = [b1 EXCEPT ![i] = r]
      BY <2>1
    <2> QED
      BY <2>3, <2>4
  <1>10. [label |-> l, exec |-> x, corr |-> c0] \in Shown
    BY <1>6 DEF Shown
  <1>11. /\ b2[i] = [label |-> l, exec |-> x, corr |-> c0]
         /\ b2 \in [Items -> Shown] /\ \A j \in Items : j # i => b2[j] = bd[j]
    BY <1>8, <1>9, <1>10
  <1> HIDE DEF b2, x
  <1>12. b3 = [b2 EXCEPT ![i] = [label |-> l, exec |-> x, corr |-> c]]
    <2>1. PICK r : r = [b2[i] EXCEPT !.corr = IF written = 3 THEN corr ELSE @]
      OBVIOUS
    <2>2. b2[i] \in [label : {l}, exec : {x}, corr : {c0}]
      BY <1>11
    <2>3. r = [label |-> l, exec |-> x, corr |-> c]
      BY <1>3, <2>1, <2>2
    <2>4. b3 = [b2 EXCEPT ![i] = r]
      BY <2>1
    <2> QED
      BY <2>3, <2>4
  <1>13. [label |-> l, exec |-> x, corr |-> c] \in Shown
    BY <1>6 DEF Shown
  <1>14. /\ b3[i] = [label |-> l, exec |-> x, corr |-> c]
         /\ b3 \in [Items -> Shown] /\ \A j \in Items : j # i => b3[j] = bd[j]
    BY <1>11, <1>12, <1>13
  <1>15. written = 3 => l = label /\ x = e /\ c = corr
    BY DEF l, x
  <1>16. b3 = cd
    BY DEF Push, b1, b2, b3
  <1> HIDE DEF b3
  <1> QED
    BY <1>14, <1>15, <1>16


LEMMA WriteKeepsBoard ==
    ASSUME TypeInv, BoardInv, SyncWrite
    PROVE  BoardTypes' /\ BoardInv'
  <1>1. PICK e, i, corr, bd :
           /\ e = pass.left[1] /\ i = executions[e].item /\ corr = executions[e].corr
           /\ bd = board
    OBVIOUS
  <1>2. PICK written \in 0..3 :
           /\ board' = [bd EXCEPT ![i].label = IF written >= 1 THEN pass.label ELSE @,
                                  ![i].exec = IF written >= 2 THEN e ELSE @,
                                  ![i].corr = IF written = 3 THEN corr ELSE @]
           /\ pass' = [stage |-> "next", left |-> Tail(pass.left), label |-> Nil,
                       clean |-> IF written = 3 THEN pass.clean ELSE pass.clean \ {i}]
    BY <1>1 DEF SyncWrite
  <1>3. pass.stage = "push" /\ executions' = executions
    BY DEF SyncWrite
  <1>4. /\ pass.left # <<>>
        /\ i \in pass.clean => pass.label = Label(executions[e].status)
    BY <1>1, <1>3 DEF BoardInv
  <1>5. /\ e = Done + 1 /\ e \in DOMAIN executions /\ executions[e] \in Execution
    BY <1>1, <1>3, <1>4, NextTurn
  <1>6. /\ i \in Items /\ corr \in Corrs /\ pass.label \in Labels /\ bd \in [Items -> Shown]
        /\ pass.left \in Seq(Nat) /\ pass.clean \subseteq Items
        /\ Len(executions) \in Nat /\ DOMAIN executions = 1..Len(executions)
    BY <1>1, <1>5, PassFacts DEF Execution, TypeInv, BoardTypes, Shown
  <1>7. e \in Nat
    BY <1>5, <1>6
  <1>8. PICK label : label = pass.label
    OBVIOUS
  <1>9. /\ board' \in [Items -> Shown]
        /\ \A j \in Items : j # i => board'[j] = board[j]
        /\ written = 3 => board'[i] = [label |-> label, exec |-> e, corr |-> corr]
    <2>1. PICK cd : cd = board'
      OBVIOUS
    <2>2. cd = Push(bd, i, label, e, corr, written)
      BY <1>2, <1>8, <2>1 DEF Push
    <2>3. label \in Labels
      BY <1>6, <1>8
    <2>4. /\ cd \in [Items -> Shown]
          /\ \A j \in Items : j # i => cd[j] = bd[j]
          /\ written = 3 => cd[i] = [label |-> label, exec |-> e, corr |-> corr]
      BY <1>6, <1>7, <2>2, <2>3, Written
    <2> QED
      BY <1>1, <2>1, <2>4
  <1>10. PICK len \in Nat : len = Len(pass.left)
    BY <1>6
  <1>11. /\ Tail(pass.left) \in Seq(Nat) /\ len # 0 /\ Len(Tail(pass.left)) = len - 1
         /\ DOMAIN pass.left = 1..len /\ DOMAIN Tail(pass.left) = 1..(len - 1)
         /\ \A n \in 1..(len - 1) : Tail(pass.left)[n] = pass.left[n + 1]
    BY <1>4, <1>6, <1>10
  <1>12. /\ pass'.stage = "next" /\ pass'.left = Tail(pass.left)
         /\ pass'.clean \subseteq pass.clean
         /\ i \in pass'.clean => written = 3
    BY <1>2
  <1>13. BoardTypes'
    <2>1. PICK left, clean : left = Tail(pass.left) /\ clean = pass'.clean
      OBVIOUS
    <2>2. pass' = [stage |-> "next", left |-> left, label |-> Nil, clean |-> clean]
      BY <1>2, <2>1
    <2>3. Nil \in Labels
      BY DEF Labels
    <2>4. clean \in SUBSET Items /\ left \in Seq(Nat)
      BY <1>6, <1>11, <1>12, <2>1
    <2>5. pass' \in [stage : {"idle", "next", "push"}, left : Seq(Nat), label : Labels,
                     clean : SUBSET Items]
      BY <2>2, <2>3, <2>4
    <2> QED
      BY <1>9, <2>5 DEF BoardTypes, Shown
  <1>14. PICK k \in Nat : k = Done /\ e = k + 1
    <2>1. Done \in Nat
      BY <1>3 DEF BoardInv
    <2> QED
      BY <1>5, <2>1
  <1>15. Done' = k + 1
    <2>1. PICK left, all : left = Tail(pass.left) /\ all = Len(executions)
      OBVIOUS
    <2>2. pass'.left = left /\ Len(executions') = all
      BY <1>3, <1>12, <2>1
    <2>3. all \in Nat /\ Len(left) = len - 1 /\ k = all - len
      BY <1>6, <1>10, <1>11, <1>14, <2>1 DEF Done
    <2>4. Done' = all - Len(left)
      BY <2>2 DEF Done
    <2> QED
      BY <2>3, <2>4
  <1>16. \A n \in DOMAIN pass'.left : pass'.left[n] = (k + 1) + n
    <2>1. \A n \in 1..len : pass.left[n] = k + n
      BY <1>3, <1>11, <1>14 DEF BoardInv
    <2>2. ASSUME NEW n \in 1..(len - 1) PROVE Tail(pass.left)[n] = (k + 1) + n
      BY <1>11, <2>1
    <2> QED
      BY <1>11, <1>12, <2>2
  <1>17. ASSUME NEW j \in pass'.clean, NEW d \in 1..(k + 1), NewestOf(j, d, k + 1)
         PROVE  Shows(j, d)'
    <2>1. j \in pass.clean /\ j \in Items
      BY <1>6, <1>12
    <2>2. CASE d = k + 1
      <3>1. d = e /\ j = i /\ written = 3
        BY <1>1, <1>12, <1>14, <1>17, <2>2 DEF NewestOf
      <3>2. label = Label(executions[e].status)
        BY <1>4, <1>8, <2>1, <3>1
      <3>3. board'[j] = [label |-> Label(executions[d].status), exec |-> d,
                         corr |-> executions[d].corr]
        BY <1>1, <1>9, <3>1, <3>2
      <3> QED
        BY <1>3, <3>3 DEF Shows
    <2>3. CASE d # k + 1
      <3>1. d \in 1..k /\ k + 1 \in (d + 1)..(k + 1)
        BY <2>3
      <3>2. j # i
        BY <1>1, <1>14, <1>17, <3>1 DEF NewestOf
      <3>3. NewestOf(j, d, k)
        <4>1. \A x \in (d + 1)..k : x \in (d + 1)..(k + 1)
          BY <3>1
        <4> QED
          BY <1>17, <4>1 DEF NewestOf
      <3>4. Shows(j, d)
        BY <1>3, <1>14, <2>1, <3>1, <3>3 DEF BoardInv
      <3> QED
        BY <1>3, <1>9, <2>1, <3>2, <3>4 DEF Shows
    <2> QED
      BY <2>2, <2>3
  <1>18. \A j \in pass'.clean : \A d \in 1..(k + 1) :
            NewestOf(j, d, k + 1)' => Shows(j, d)'
    BY <1>3, <1>17 DEF NewestOf
  <1>19. BoardInv'
    <2>1. Done' \in Nat
      BY <1>15
    <2> QED
      BY <1>12, <1>15, <1>16, <1>18, <2>1 DEF BoardInv
  <1> QED
    BY <1>13, <1>19

LEMMA EndKeepsBoard ==
    ASSUME TypeInv, SyncEnd \/ Restart
    PROVE  BoardTypes' /\ BoardInv'
  <1>1. pass' = NoPass /\ board' = board
    BY DEF SyncEnd, Restart
  <1>2. <<>> \in Seq(Nat)
    OBVIOUS
  <1>3. BoardTypes'
    BY <1>1, <1>2 DEF TypeInv, BoardTypes, NoPass, Labels
  <1>4. pass'.stage = "idle"
    BY <1>1 DEF NoPass
  <1> QED
    BY <1>3, <1>4 DEF BoardInv

\* Nothing else that happens during a pass adds an execution, and what it
\* disturbs is no longer clean.
LEMMA DisturbedKeepsBoard ==
    ASSUME TypeInv, BoardInv, NEW i,
           pass' = [pass EXCEPT !.clean = @ \ {i}],
           board' \in [Items -> Shown],
           \A j \in Items : j # i => board'[j] = board[j],
           Len(executions') = Len(executions),
           \A e \in DOMAIN executions :
              /\ executions'[e].item = executions[e].item
              /\ executions[e].item # i => executions'[e] = executions[e]
    PROVE  BoardTypes' /\ BoardInv'
  <1>1. pass \in [stage : {"idle", "next", "push"}, left : Seq(Nat), label : Labels,
                  clean : SUBSET Items]
    BY DEF TypeInv, BoardTypes
  <1>2. pass' = [stage |-> pass.stage, left |-> pass.left, label |-> pass.label,
                 clean |-> pass.clean \ {i}]
    BY <1>1
  <1>3. BoardTypes'
    <2>1. pass.clean \ {i} \in SUBSET Items
      BY <1>1
    <2> QED
      BY <1>1, <1>2, <2>1 DEF BoardTypes, Shown
  <1>4. /\ pass'.stage = pass.stage /\ pass'.left = pass.left /\ pass'.label = pass.label
        /\ pass'.clean = pass.clean \ {i}
    BY <1>2
  <1>5. Done' = Done
    BY <1>4 DEF Done
  <1> SUFFICES ASSUME pass.stage # "idle"
               PROVE  BoardInv'
    BY <1>3, <1>4 DEF BoardInv
  <1>6. PICK k \in Nat : k = Done
    BY DEF BoardInv
  <1>7. /\ Len(executions) \in Nat /\ DOMAIN executions = 1..Len(executions)
        /\ Len(pass.left) \in Nat /\ pass.clean \subseteq Items
    BY PassFacts
  <1>8. \A d \in 1..k : d \in DOMAIN executions
    BY <1>6, <1>7 DEF Done
  <1>9. ASSUME NEW j \in pass'.clean, NEW d \in 1..k, NewestOf(j, d, k)'
        PROVE  Shows(j, d)'
    <2>1. j \in pass.clean /\ j # i /\ j \in Items
      BY <1>4, <1>7
    <2>2. \A x \in (d + 1)..k : x \in 1..k
      OBVIOUS
    <2>3. NewestOf(j, d, k)
      BY <1>8, <1>9, <2>2 DEF NewestOf
    <2>4. Shows(j, d)
      BY <1>6, <2>1, <2>3 DEF BoardInv
    <2>5. executions'[d] = executions[d]
      BY <1>8, <2>1, <2>3 DEF NewestOf
    <2> QED
      BY <2>1, <2>4, <2>5 DEF Shows
  <1>10. ASSUME pass.stage = "push"
         PROVE  /\ pass'.left # <<>>
                /\ executions'[pass'.left[1]].item \in pass'.clean =>
                      pass'.label = Label(executions'[pass'.left[1]].status)
    <2>1. /\ pass.left # <<>>
          /\ executions[pass.left[1]].item \in pass.clean =>
                pass.label = Label(executions[pass.left[1]].status)
      BY <1>10 DEF BoardInv
    <2>2. pass.left[1] \in DOMAIN executions
      BY <2>1, NextTurn
    <2>3. PICK e \in DOMAIN executions : e = pass.left[1]
      BY <2>2
    <2>4. /\ executions'[e].item = executions[e].item
          /\ executions[e].item # i => executions'[e] = executions[e]
      OBVIOUS
    <2> QED
      BY <1>4, <2>1, <2>3, <2>4
  <1>11. \A n \in DOMAIN pass'.left : pass'.left[n] = k + n
    BY <1>4, <1>6 DEF BoardInv
  <1> QED
    BY <1>5, <1>6, <1>9, <1>10, <1>11 DEF BoardInv

LEMMA AgentKeepsBoard ==
    ASSUME TypeInv, BoardInv, NEW e \in DOMAIN executions, AgentMoves(e)
    PROVE  BoardTypes' /\ BoardInv'
  <1>1. PICK i : i = executions[e].item
    OBVIOUS
  <1>2. pass' = [pass EXCEPT !.clean = @ \ {i}] /\ board' = board
    BY <1>1 DEF AgentMoves
  <1>3. Moves(e)
    BY AgentMovesOne
  <1>4. /\ Len(executions') = Len(executions)
        /\ \A d \in DOMAIN executions :
              /\ executions'[d].item = executions[d].item
              /\ d # e => executions'[d] = executions[d]
    BY <1>3, MovesFacts
  <1>5. board' \in [Items -> Shown]
    BY <1>2 DEF TypeInv, BoardTypes, Shown
  <1>6. \A d \in DOMAIN executions : executions[d].item # i => executions'[d] = executions[d]
    BY <1>1, <1>4
  <1> QED
    BY <1>2, <1>4, <1>5, <1>6, DisturbedKeepsBoard

LEMMA EditKeepsBoard ==
    ASSUME TypeInv, BoardInv, NEW i \in Items, EditColumn(i)
    PROVE  BoardTypes' /\ BoardInv'
  <1>1. PICK c \in Corrs : board' = [board EXCEPT ![i].corr = c]
    BY DEF EditColumn
  <1>2. pass' = [pass EXCEPT !.clean = @ \ {i}] /\ executions' = executions
    BY DEF EditColumn
  <1>3. board \in [Items -> Shown]
    BY DEF TypeInv, BoardTypes, Shown
  <1>4. PICK r : r = [board[i] EXCEPT !.corr = c]
    OBVIOUS
  <1>5. r \in Shown
    <2>1. board[i] \in Shown
      BY <1>3
    <2> QED
      BY <1>4, <2>1 DEF Shown
  <1>6. board' = [board EXCEPT ![i] = r]
    BY <1>1, <1>4
  <1>7. board' \in [Items -> Shown] /\ \A j \in Items : j # i => board'[j] = board[j]
    BY <1>3, <1>5, <1>6
  <1> QED
    BY <1>2, <1>7, DisturbedKeepsBoard

LEMMA BoardInit ==
    ASSUME Init
    PROVE  BoardTypes /\ BoardInv
  <1>1. <<>> \in Seq(Nat)
    OBVIOUS
  <1> QED
    BY <1>1 DEF Init, NoPass, BoardTypes, BoardInv, Labels

LEMMA BoardNext ==
    ASSUME TypeInv, BoardInv, [Next]_vars
    PROVE  BoardTypes' /\ BoardInv'
  <1>1. CASE UNCHANGED <<board, pass>> /\ (Idle \/ UNCHANGED executions)
    <2>0. board' = board /\ pass' = pass
      BY <1>1
    <2>1. BoardTypes'
      BY <2>0 DEF TypeInv, BoardTypes
    <2>2. CASE Idle
      BY <2>0, <2>1, <2>2 DEF Idle, BoardInv
    <2>3. CASE executions' = executions
      BY <2>0, <2>1, <2>3 DEF BoardInv, Done, NewestOf, Shows
    <2> QED
      BY <1>1, <2>1, <2>2, <2>3
  <1> QED
    BY <1>1, NextIsBoardStep, BeginKeepsBoard, ReadKeepsBoard, WriteKeepsBoard,
       EndKeepsBoard, AgentKeepsBoard, EditKeepsBoard DEF BoardSteps

\* At the end of a pass, every execution has been pushed.
LEMMA BoardIsShown ==
    ASSUME TypeInv, BoardInv
    PROVE  BoardShowsLatest
  <1> SUFFICES ASSUME pass.stage = "next", pass.left = <<>>, NEW i \in pass.clean,
                      {e \in DOMAIN executions : executions[e].item = i} # {}
               PROVE  Shows(i, CHOOSE e \in {d \in DOMAIN executions :
                                                executions[d].item = i} :
                                  \A d \in {c \in DOMAIN executions :
                                                executions[c].item = i} : d <= e)
    BY DEF BoardShowsLatest, Shows
  <1> DEFINE mine == {e \in DOMAIN executions : executions[e].item = i}
             newest == CHOOSE e \in mine : \A d \in mine : d <= e
  <1>1. PICK len \in Nat : len = Len(executions) /\ DOMAIN executions = 1..len
    BY PassFacts
  <1>2. Done = len
    BY <1>1 DEF Done
  <1>3. newest \in mine /\ \A d \in mine : d <= newest
    <2>1. \E e \in mine : \A d \in mine : d <= e
      <3> DEFINE T == {len - e : e \in mine}
      <3>1. T \in SUBSET Nat /\ T # {}
        BY <1>1
      <3> HIDE DEF T
      <3>2. PICK m \in T : \A n \in T : m <= n
        BY <3>1, LeastNumber
      <3>3. PICK e \in mine : m = len - e
        BY <3>2 DEF T
      <3>4. \A d \in mine : len - e <= len - d
        BY <3>2, <3>3 DEF T
      <3>5. \A d \in mine : d <= e
        BY <1>1, <3>4
      <3> QED
        BY <3>5
    <2> HIDE DEF mine
    <2> QED
      BY <2>1
  <1> HIDE DEF newest
  <1>4. newest \in 1..len /\ executions[newest].item = i
    BY <1>1, <1>3
  <1>5. ASSUME NEW d \in (newest + 1)..len PROVE executions[d].item # i
    <2>1. d \in DOMAIN executions /\ ~(d <= newest)
      BY <1>1, <1>4
    <2> QED
      BY <1>3, <2>1
  <1>6. NewestOf(i, newest, len)
    BY <1>4, <1>5 DEF NewestOf
  <1>7. Shows(i, newest)
    BY <1>2, <1>4, <1>6 DEF BoardInv
  <1> QED
    BY <1>7 DEF newest

-----------------------------------------------------------------------------
(* What GitHub says of a correlation.                                      *)

OfRepo(c, repo) == \E p \in PRs : OwnerOf[p] = c /\ p[1] = repo
OfNumber(c, pr) == \E p \in PRs : OwnerOf[p] = c /\ p[2] = pr

\* A record has the repository of one pull request of its correlation and the
\* number of another: a check changes the repository and leaves the number.
Owned(ix) ==
    /\ \A c \in Corrs :
          ix.rec[c] # NoRecord =>
             /\ ix.rec[c].repo # Nil => OfRepo(c, ix.rec[c].repo)
             /\ ix.rec[c].pr # Nil => OfNumber(c, ix.rec[c].pr)
             /\ ix.rec[c].sha # Nil => OwnerOf[ix.rec[c].sha] = c
    /\ \A k \in Keys :
          ix.byPr[k] # Nil =>
             /\ ix.rec[ix.byPr[k]] # NoRecord
             /\ OfRepo(ix.byPr[k], k[1]) /\ OfNumber(ix.byPr[k], k[2])
    /\ \A p \in PRs : ix.bySha[p] \in {Nil, OwnerOf[p]}

\* No repository has a pull request of another correlation under the number
\* that one has elsewhere.
NumbersApart ==
    \A p, q \in PRs :
       OwnerOf[p] = OwnerOf[q] /\ <<p[1], q[2]>> \in PRs
         => OwnerOf[<<p[1], q[2]>>] = OwnerOf[p]

GitInv == NumbersApart => Owned(hub.index)

LEMMA EmptyOwned ==
    Owned(EmptyIndex)
  BY DEF EmptyIndex, Owned

LEMMA RegisteredOwned ==
    ASSUME NEW ix \in Index, NEW claim \in Claims, Owned(ix),
           claim.repo # Nil => OfRepo(claim.corr, claim.repo),
           claim.pr # Nil => OfNumber(claim.corr, claim.pr),
           claim.sha # Nil => OwnerOf[claim.sha] = claim.corr
    PROVE  Owned(Registered(ix, claim))
  <1>1. CASE Conflict(ix, claim)
    BY <1>1 DEF Registered
  <1>2. CASE ~Conflict(ix, claim)
    <2> DEFINE r == Merged(ix.rec[claim.corr], claim)
               jx == Record(ix, claim)
    <2>1. PICK c : c = claim.corr
      OBVIOUS
    <2>2. Registered(ix, claim) = jx
      BY <1>2 DEF Registered
    <2>3. c \in Corrs /\ ix.rec[c] \in {NoRecord} \cup Bound
      BY <2>1 DEF Claims, Index
    <2>4. /\ jx.rec[c] = r
          /\ \A d \in Corrs : d # c => jx.rec[d] = ix.rec[d]
          /\ \A k \in Keys :
                jx.byPr[k] = IF r.pr # Nil /\ r.repo # Nil /\ k = <<r.repo, r.pr>>
                             THEN c ELSE ix.byPr[k]
          /\ \A p \in PRs : jx.bySha[p] = IF p = r.sha THEN c ELSE ix.bySha[p]
      BY <2>1, RecordFacts
    <2>5. /\ r \in Bound
          /\ r.repo = claim.repo \/ (ix.rec[c] # NoRecord /\ r.repo = ix.rec[c].repo)
          /\ r.pr = claim.pr \/ (ix.rec[c] # NoRecord /\ r.pr = ix.rec[c].pr)
          /\ r.sha = claim.sha \/ (ix.rec[c] # NoRecord /\ r.sha = ix.rec[c].sha)
      BY <2>1, <2>3, MergedFacts
    <2> HIDE DEF jx, r
    <2>6. ix.rec[c] # NoRecord =>
             /\ ix.rec[c].repo # Nil => OfRepo(c, ix.rec[c].repo)
             /\ ix.rec[c].pr # Nil => OfNumber(c, ix.rec[c].pr)
             /\ ix.rec[c].sha # Nil => OwnerOf[ix.rec[c].sha] = c
      BY <2>3 DEF Owned
    <2>7. /\ r.repo # Nil => OfRepo(c, r.repo)
          /\ r.pr # Nil => OfNumber(c, r.pr)
          /\ r.sha # Nil => OwnerOf[r.sha] = c
      BY <2>1, <2>5, <2>6
    <2>8. r # NoRecord
      BY <2>5, BoundIsRecord
    <2>9. ASSUME NEW d \in Corrs, jx.rec[d] # NoRecord
          PROVE  /\ jx.rec[d].repo # Nil => OfRepo(d, jx.rec[d].repo)
                 /\ jx.rec[d].pr # Nil => OfNumber(d, jx.rec[d].pr)
                 /\ jx.rec[d].sha # Nil => OwnerOf[jx.rec[d].sha] = d
      <3>1. CASE d = c
        BY <2>4, <2>7, <3>1
      <3>2. CASE d # c
        <4>1. jx.rec[d] = ix.rec[d]
          BY <2>4, <3>2
        <4> QED
          BY <2>9, <4>1 DEF Owned
      <3> QED
        BY <3>1, <3>2
    <2>10. ASSUME NEW k \in Keys, jx.byPr[k] # Nil
           PROVE  /\ jx.rec[jx.byPr[k]] # NoRecord
                  /\ OfRepo(jx.byPr[k], k[1]) /\ OfNumber(jx.byPr[k], k[2])
      <3>1. CASE r.pr # Nil /\ r.repo # Nil /\ k = <<r.repo, r.pr>>
        <4>1. jx.byPr[k] = c /\ k[1] = r.repo /\ k[2] = r.pr
          BY <2>4, <3>1
        <4> QED
          BY <2>4, <2>7, <2>8, <3>1, <4>1
      <3>2. CASE ~(r.pr # Nil /\ r.repo # Nil /\ k = <<r.repo, r.pr>>)
        <4>1. jx.byPr[k] = ix.byPr[k]
          BY <2>4, <3>2
        <4>2. ix.byPr[k] \in Corrs \cup {Nil}
          BY DEF Index
        <4>3. PICK d \in Corrs : d = ix.byPr[k]
          BY <2>10, <4>1, <4>2
        <4>4. ix.rec[d] # NoRecord /\ OfRepo(d, k[1]) /\ OfNumber(d, k[2])
          BY <2>10, <4>1, <4>3 DEF Owned
        <4>5. jx.rec[d] # NoRecord
          BY <2>4, <2>8, <4>4
        <4> QED
          BY <4>1, <4>3, <4>4, <4>5
      <3> QED
        BY <3>1, <3>2
    <2>11. ASSUME NEW p \in PRs
           PROVE  jx.bySha[p] \in {Nil, OwnerOf[p]}
      <3>1. p # Nil
        BY IntegrationsAssumption
      <3>2. CASE p = r.sha
        BY <2>4, <2>7, <3>1, <3>2
      <3>3. CASE p # r.sha
        <4>1. jx.bySha[p] = ix.bySha[p]
          BY <2>4, <3>3
        <4> QED
          BY <4>1 DEF Owned
      <3> QED
        BY <3>2, <3>3
    <2> QED
      BY <2>2, <2>9, <2>10, <2>11 DEF Owned
  <1> QED
    BY <1>1, <1>2

\* Whatever an event resolves to owns the pull request it is about.
LEMMA ResolvesRight ==
    ASSUME NumbersApart, TypeInv, Sound(hub.index, executions), Owned(hub.index),
           NEW p \in PRs, NEW event \in PullRequestEvents(p) \cup CheckEvents(p),
           Resolve(hub.index, event) # Nil
    PROVE  Resolve(hub.index, event) = OwnerOf[p]
  <1>1. PICK ix, c : ix = hub.index /\ c = Resolve(ix, event)
    OBVIOUS
  <1>2. ix \in Index /\ event \in GitEvents
    BY <1>1, EventsTyped DEF TypeInv, HubTypes, Hub
  <1>3. PICK n \in Found(ix, event) :
           /\ c = Candidates(ix, event)[n]
           /\ \A m \in Found(ix, event) :
                 ix.rec[Candidates(ix, event)[m]].exec = ix.rec[c].exec
    BY <1>1, <1>2, ResolveFacts
  <1>4. n \in 1..3 /\ c \in Corrs /\ ix.rec[c] # NoRecord /\ c # Nil
    BY <1>1, <1>2, <1>3, CandidatesTyped
  <1>5. p \in Keys /\ p = <<p[1], p[2]>>
    BY IntegrationsAssumption DEF Keys, Repos, Numbers
  <1>6. ix.byPr[p] # Nil =>
           ix.byPr[p] = OwnerOf[p] /\ ix.rec[ix.byPr[p]] # NoRecord
    <2> SUFFICES ASSUME ix.byPr[p] # Nil
                 PROVE  ix.byPr[p] = OwnerOf[p] /\ ix.rec[ix.byPr[p]] # NoRecord
      OBVIOUS
    <2>1. /\ ix.rec[ix.byPr[p]] # NoRecord
          /\ OfRepo(ix.byPr[p], p[1]) /\ OfNumber(ix.byPr[p], p[2])
      BY <1>1, <1>5 DEF Owned
    <2>2. PICK q \in PRs : OwnerOf[q] = ix.byPr[p] /\ q[1] = p[1]
      BY <2>1 DEF OfRepo
    <2>3. PICK r \in PRs : OwnerOf[r] = ix.byPr[p] /\ r[2] = p[2]
      BY <2>1 DEF OfNumber
    <2>4. <<q[1], r[2]>> = p
      BY <1>5, <2>2, <2>3
    <2>5. OwnerOf[p] = OwnerOf[q]
      BY <2>2, <2>3, <2>4 DEF NumbersApart
    <2> QED
      BY <2>1, <2>2, <2>5
  <1>7. ix.bySha[p] \in {Nil, OwnerOf[p]}
    BY <1>1 DEF Owned
  <1>8. /\ event.sha = p /\ event.repo = p[1] /\ event.pr \in {Nil, p[2]}
        /\ \/ event.hint \in {OwnerOf[p], Nil}
           \/ ix.byPr[p] # Nil /\ event.pr = p[2]
    <2>1. CASE event \in PullRequestEvents(p)
      BY <1>1, <2>1 DEF PullRequestEvents, Event
    <2>2. CASE event \in CheckEvents(p)
      BY <2>2 DEF CheckEvents, Event
    <2> QED
      BY <2>1, <2>2
  <1>9. p[2] # Nil
    BY IntegrationsAssumption DEF Numbers
  <1>10. Candidates(ix, event) =
            <<event.hint, IF event.pr # Nil THEN ix.byPr[p] ELSE Nil, ix.bySha[p]>>
    BY <1>5, <1>8 DEF Candidates
  <1>11. CASE n = 1
    <2>1. c = event.hint
      BY <1>3, <1>10, <1>11
    <2>2. CASE event.hint \in {OwnerOf[p], Nil}
      BY <1>1, <1>4, <2>1, <2>2
    <2>3. CASE ix.byPr[p] # Nil /\ event.pr = p[2]
      <3>1. PICK d : d = ix.byPr[p]
        OBVIOUS
      <3>2. Candidates(ix, event)[2] = d /\ d # Nil /\ ix.rec[d] # NoRecord
            /\ d = OwnerOf[p]
        BY <1>6, <1>9, <1>10, <2>3, <3>1
      <3>3. 2 \in Found(ix, event)
        BY <3>2 DEF Found
      <3>4. ix.rec[d].exec = ix.rec[c].exec
        BY <1>3, <3>2, <3>3
      <3>5. d \in Corrs
        BY <1>2, <3>2, <3>3, CandidatesTyped
      <3>6. ix.byExec[ix.rec[c].exec] = c /\ ix.byExec[ix.rec[d].exec] = d
        BY <1>1, <1>4, <3>2, <3>5 DEF Sound
      <3> QED
        BY <1>1, <3>2, <3>4, <3>6
    <2> QED
      BY <1>8, <2>2, <2>3
  <1>12. CASE n = 2
    <2>1. c = ix.byPr[p]
      BY <1>3, <1>4, <1>10, <1>12
    <2> QED
      BY <1>1, <1>4, <1>6, <2>1
  <1>13. CASE n = 3
    <2>1. c = ix.bySha[p]
      BY <1>3, <1>10, <1>13
    <2> QED
      BY <1>1, <1>4, <1>7, <2>1
  <1> QED
    BY <1>4, <1>11, <1>12, <1>13

\* What a webhook of a pull request does.
LEMMA WebhookCases ==
    ASSUME NumbersApart, TypeInv, Sound(hub.index, executions), Owned(hub.index),
           NEW p \in PRs, GitHubWebhook(p)
    PROVE  /\ Owned(hub'.index)
           /\ \E e \in DOMAIN executions :
                 /\ hub.index.byExec[e] = OwnerOf[p]
                 /\ executions' = executions \/ Moves(e)
  <1>1. PICK event \in PullRequestEvents(p) \cup CheckEvents(p) : Apply(event)
    BY DEF GitHubWebhook
  <1>2. event \in GitEvents
    BY EventsTyped
  <1>3. PICK c, e, claim, r :
           /\ c = Resolve(hub.index, event) /\ e = hub.index.rec[c].exec
           /\ claim = Enriched(c, event) /\ r = hub.index.rec[c]
    OBVIOUS
  <1>4. /\ c \in Corrs /\ c # Nil /\ r # NoRecord
        /\ e \in DOMAIN executions /\ hub.index.byExec[e] = c
        /\ executions' = executions \/ Moves(e)
        /\ hub' = [hub EXCEPT !.index = Registered(hub.index, claim)]
        /\ claim \in Claims /\ claim.corr = c
        /\ claim.repo = event.repo /\ claim.sha = event.sha
        /\ claim.pr = IF event.pr # Nil THEN event.pr ELSE r.pr
    BY <1>1, <1>2, <1>3, ApplyCases
  <1>5. c = OwnerOf[p]
    BY <1>3, <1>4, ResolvesRight
  <1>6. event.sha = p /\ event.repo = p[1] /\ event.pr \in {Nil, p[2]}
    <2>1. CASE event \in PullRequestEvents(p)
      BY <2>1 DEF PullRequestEvents, Event
    <2>2. CASE event \in CheckEvents(p)
      BY <2>2 DEF CheckEvents, Event
    <2> QED
      BY <2>1, <2>2
  <1>7. OfRepo(c, p[1]) /\ OfNumber(c, p[2])
    BY <1>5 DEF OfRepo, OfNumber
  <1>8. r.pr # Nil => OfNumber(c, r.pr)
    BY <1>3, <1>4 DEF Owned
  <1>9. claim.pr # Nil => OfNumber(c, claim.pr)
    BY <1>4, <1>6, <1>7, <1>8
  <1>10. PICK ix, jx : ix = hub.index /\ jx = Registered(ix, claim)
    OBVIOUS
  <1>11. ix \in Index /\ Owned(ix)
    BY <1>10 DEF TypeInv, HubTypes, Hub
  <1>12. Owned(jx)
    <2>1. claim.repo # Nil => OfRepo(claim.corr, claim.repo)
      BY <1>4, <1>6, <1>7
    <2>2. claim.pr # Nil => OfNumber(claim.corr, claim.pr)
      BY <1>4, <1>9
    <2>3. claim.sha # Nil => OwnerOf[claim.sha] = claim.corr
      BY <1>4, <1>5, <1>6
    <2> QED
      BY <1>4, <1>10, <1>11, <2>1, <2>2, <2>3, RegisteredOwned
  <1>13. hub'.index = jx
    <2>1. hub \in [events : Seq(ReadyEvent), processed : SUBSET Corrs,
                   itemExec : [Items -> 0..MaxExecs], index : Index]
      BY DEF TypeInv, HubTypes, Hub
    <2>2. hub' = [hub EXCEPT !.index = jx]
      BY <1>4, <1>10
    <2> QED
      BY <2>1, <2>2
  <1> QED
    BY <1>4, <1>5, <1>12, <1>13

LEMMA CreatesOwned ==
    ASSUME TypeInv, Owned(hub.index), NEW i \in Items, NEW corr \in Corrs, Creates(i, corr)
    PROVE  Owned(hub'.index)
  <1>1. PICK e, claim, ix :
           /\ e = Len(executions) + 1
           /\ claim = [Claim(Len(executions) + 1, corr) EXCEPT !.item = i]
           /\ ix = hub.index
    OBVIOUS
  <1>2. claim = [exec |-> e, corr |-> corr, item |-> i, repo |-> Nil, pr |-> Nil,
                 sha |-> Nil]
    BY <1>1 DEF Claim
  <1>3. e \in 1..MaxExecs
    BY <1>1, IntegrationsAssumption DEF TypeInv, HubTypes, Creates
  <1>4. claim \in Claims /\ claim.repo = Nil /\ claim.pr = Nil /\ claim.sha = Nil
    BY <1>2, <1>3 DEF Claims
  <1>5. ix \in Index /\ Owned(ix)
    BY <1>1 DEF TypeInv, HubTypes, Hub
  <1>6. Owned(Registered(ix, claim))
    BY <1>4, <1>5, RegisteredOwned
  <1>7. hub'.index = Registered(ix, claim)
    BY <1>1 DEF Creates
  <1> QED
    BY <1>6, <1>7

LEMMA RepeatsOwned ==
    ASSUME TypeInv, Sound(hub.index, executions), Owned(hub.index),
           NEW e \in DOMAIN executions, NEW corr \in Corrs, Repeats(e, corr)
    PROVE  Owned(hub'.index)
  <1>1. PICK item, claim, ix :
           /\ item = executions[e].item
           /\ claim = [Claim(Len(executions) + 1, corr) EXCEPT !.item = item]
           /\ ix = hub.index
    OBVIOUS
  <1>2. /\ executions \in Seq(Execution) /\ Len(executions) \in Nat
        /\ Len(executions) < MaxExecs /\ executions[e] \in Execution
    BY DEF TypeInv, HubTypes, Repeats
  <1>3. item \in Items
    BY <1>1, <1>2 DEF Execution
  <1>4. PICK ex \in Seq(Execution) : Len(ex) = Len(executions) + 1
    <2>1. Append(executions, executions[e]) \in Seq(Execution)
      BY <1>2
    <2>2. Len(Append(executions, executions[e])) = Len(executions) + 1
      BY <1>2
    <2> QED
      BY <2>1, <2>2
  <1>5. /\ claim \in Claims /\ claim.repo = Nil /\ claim.pr = Nil /\ claim.sha = Nil
    BY <1>1, <1>2, <1>3, <1>4, NewRegistered
  <1>6. ix \in Index /\ Owned(ix)
    BY <1>1 DEF TypeInv, HubTypes, Hub
  <1>7. Owned(Registered(ix, claim))
    BY <1>5, <1>6, RegisteredOwned
  <1>8. hub'.index = Registered(ix, claim)
    <2>1. PICK jx : jx = Registered(ix, claim)
      OBVIOUS
    <2>2. hub \in [events : Seq(ReadyEvent), processed : SUBSET Corrs,
                   itemExec : [Items -> 0..MaxExecs], index : Index]
      BY DEF TypeInv, HubTypes, Hub
    <2>3. hub' = [hub EXCEPT !.index = jx]
      BY <1>1, <2>1 DEF Repeats
    <2> QED
      BY <2>1, <2>2, <2>3
  <1> QED
    BY <1>7, <1>8

LEMMA GitNext ==
    ASSUME NumbersApart, TypeInv, HubInv, Owned(hub.index), [Next]_vars
    PROVE  Owned(hub'.index)
  <1>1. CASE Restart
    <2>1. hub'.index = EmptyIndex
      BY <1>1 DEF Restart, EmptyHub
    <2> QED
      BY <2>1, EmptyOwned
  <1>2. CASE HubSteps
    <2>1. Sound(hub.index, executions)
      BY DEF HubInv
    <2>2. ASSUME hub' = hub
          PROVE  Owned(hub'.index)
      BY <2>2
    <2>3. ASSUME NEW i \in Items, NEW corr \in Corrs, Noted(i, corr)
          PROVE  Owned(hub'.index)
      <3>1. hub'.index = hub.index
        BY <2>3, NotedFields
      <3> QED
        BY <3>1
    <2>4. ASSUME NEW i \in Items, NEW corr \in Corrs, Starts(i, corr)
          PROVE  Owned(hub'.index)
      BY <2>4, CreatesOwned DEF Starts
    <2>5. ASSUME NEW i \in Items, StartsAgain(i)
          PROVE  Owned(hub'.index)
      <3>1. PICK n \in DOMAIN hub.events :
               hub.events[n] \in ReadyEvent /\ Creates(i, hub.events[n].corr)
        BY <2>5 DEF StartsAgain
      <3>2. PICK corr : corr = hub.events[n].corr
        OBVIOUS
      <3>3. corr \in Corrs
        BY <3>1, <3>2 DEF ReadyEvent
      <3> QED
        BY <3>1, <3>2, <3>3, CreatesOwned
    <2>6. ASSUME NEW p \in PRs, GitHubWebhook(p)
          PROVE  Owned(hub'.index)
      BY <2>1, <2>6, WebhookCases
    <2>7. ASSUME NEW e \in DOMAIN executions, NEW corr \in Corrs, Repeats(e, corr)
          PROVE  Owned(hub'.index)
      BY <2>1, <2>7, RepeatsOwned
    <2> QED
      BY <1>2, <2>2, <2>3, <2>4, <2>5, <2>6, <2>7 DEF HubSteps
  <1> QED
    BY <1>1, <1>2, NextIsHubStep DEF HubInv

-----------------------------------------------------------------------------
(* The theorems.                                                           *)

Inv == TypeInv /\ HubInv /\ BoardInv /\ GitInv

THEOREM Invariance ==
    Spec => []Inv
  <1>1. Init => Inv
    <2> SUFFICES ASSUME Init PROVE Inv
      OBVIOUS
    <2>1. hub.index = EmptyIndex
      BY DEF Init, EmptyHub
    <2>2. Owned(hub.index)
      BY <2>1, EmptyOwned
    <2> QED
      BY <2>2, HubInit, BoardInit DEF Inv, TypeInv, GitInv
  <1>2. Inv /\ [Next]_vars => Inv'
    <2> SUFFICES ASSUME Inv, [Next]_vars PROVE Inv'
      OBVIOUS
    <2>1. TypeInv /\ HubInv /\ BoardInv /\ (NumbersApart => Owned(hub.index))
      BY DEF Inv, GitInv
    <2>2. HubTypes' /\ HubInv'
      BY <2>1, HubNext
    <2>3. BoardTypes' /\ BoardInv'
      BY <2>1, BoardNext
    <2>4. NumbersApart => Owned(hub'.index)
      BY <2>1, GitNext
    <2>5. GitInv'
      BY <2>4 DEF GitInv, NumbersApart
    <2> QED
      BY <2>2, <2>3, <2>5 DEF Inv, TypeInv
  <1> QED
    BY <1>1, <1>2, PTL DEF Spec

\* Whatever is bound, in whatever order: an execution the index does not lead
\* to is one the hub lists as an orphan.
THEOREM OrphansKnown ==
    Spec => []UnreachableReported
  <1>1. Inv => UnreachableReported
    BY SoundReports DEF Inv, HubInv
  <1> QED
    BY <1>1, Invariance, PTL

\* However often Ready is delivered, retried and drained, and however users
\* edit the correlation column, an item has at most one execution under way for
\* a correlation among those that webhooks started since the hub did; retries
\* of the Control API, which add to them, do not change that.
THEOREM OneAtATime ==
    Spec => []OneLive
  <1>1. Inv => OneLive
    BY DEF Inv, HubInv
  <1> QED
    BY <1>1, Invariance, PTL

\* A pass that nothing disturbed leaves the board of every item with the state
\* of the item's newest execution.
THEOREM BoardIsRight ==
    Spec => []BoardShowsLatest
  <1>1. Inv => BoardShowsLatest
    BY BoardIsShown DEF Inv
  <1> QED
    BY <1>1, Invariance, PTL

\* Between two restarts, what an item, a pull request or a correlation is bound
\* to never changes.
THEOREM BindingsStay ==
    Spec => BindingStable
  <1>1. Inv /\ [Next]_vars =>
           [restarts' = restarts =>
              /\ \A i \in Items :
                    hub.index.byItem[i] # Nil =>
                       hub'.index.byItem[i] = hub.index.byItem[i]
              /\ \A k \in Keys :
                    hub.index.byPr[k] # Nil => hub'.index.byPr[k] = hub.index.byPr[k]
              /\ \A c \in Corrs :
                    hub.index.rec[c] # NoRecord =>
                       hub'.index.rec[c].exec = hub.index.rec[c].exec]_vars
    <2> SUFFICES ASSUME Inv, [Next]_vars, restarts' = restarts
                 PROVE  /\ \A i \in Items :
                              hub.index.byItem[i] # Nil =>
                                 hub'.index.byItem[i] = hub.index.byItem[i]
                        /\ \A k \in Keys :
                              hub.index.byPr[k] # Nil =>
                                 hub'.index.byPr[k] = hub.index.byPr[k]
                        /\ \A c \in Corrs :
                              hub.index.rec[c] # NoRecord =>
                                 hub'.index.rec[c].exec = hub.index.rec[c].exec
      OBVIOUS
    <2>1. Extends(hub.index, hub'.index)
      BY StepExtends DEF Inv
    <2> QED
      BY <2>1 DEF Extends
  <1> QED
    BY <1>1, Invariance, PTL DEF Spec, BindingStable

\* Where no repository has a pull request of another execution under a number
\* that an execution's pull request has elsewhere, an event of a pull request
\* or its checks moves only the execution registered for its correlation.
THEOREM OnlyItsOwn ==
    ASSUME NumbersApart
    PROVE  Spec => RightExecution
  <1>1. Inv /\ [Next]_vars =>
           [\A e \in DOMAIN executions :
               executions'[e].status # executions[e].status =>
                  \A p \in PRs :
                     hub.index.byExec[e] # OwnerOf[p] => ~GitHubWebhook(p)]_vars
    <2> SUFFICES ASSUME Inv, NEW e \in DOMAIN executions,
                        executions'[e].status # executions[e].status,
                        NEW p \in PRs, hub.index.byExec[e] # OwnerOf[p], GitHubWebhook(p)
                 PROVE  FALSE
      OBVIOUS
    <2>1. TypeInv /\ Sound(hub.index, executions) /\ Owned(hub.index)
      BY DEF Inv, HubInv, GitInv
    <2>2. PICK d \in DOMAIN executions :
             hub.index.byExec[d] = OwnerOf[p] /\ (executions' = executions \/ Moves(d))
      BY <2>1, WebhookCases
    <2>3. d # e /\ Moves(d)
      BY <2>2
    <2> QED
      BY <2>1, <2>3, MovesFacts
  <1> QED
    BY <1>1, Invariance, PTL DEF Spec, RightExecution

=============================================================================
