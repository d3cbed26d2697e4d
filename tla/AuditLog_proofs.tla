-------------------------- MODULE AuditLog_proofs --------------------------
(***************************************************************************)
(* The audit log keeps what it acknowledged, for any retention and any     *)
(* number of records, failures and crashes.                                *)
(*                                                                         *)
(* _load filters a file line by line, so its result is a recursive         *)
(* function of the file.  What it computes is proved by induction over the *)
(* lines, with the set of the numbers a statement holds for in the place   *)
(* of a predicate.                                                         *)
(***************************************************************************)
EXTENDS AuditLog, FiniteSetTheorems, SequenceTheorems, WellFoundedInduction,
        TLAPS

-----------------------------------------------------------------------------
(* Induction.                                                              *)

\* A set of natural numbers has a least one: inclusion is well-founded on the
\* intervals that they end.
LEMMA LeastNumber ==
    ASSUME NEW T \in SUBSET Nat, T # {}
    PROVE  \E m \in T : \A n \in T : m <= n
  <1> DEFINE Initial == {0..n : n \in T}
  <1>1. Initial \subseteq FiniteSubsetsOf(Nat)
    <2>1. ASSUME NEW n \in T PROVE 0..n \in FiniteSubsetsOf(Nat)
      <3>1. IsFiniteSet(0..n)
        BY FS_Interval
      <3>2. 0..n \in SUBSET Nat
        OBVIOUS
      <3> QED
        BY <3>1, <3>2 DEF FiniteSubsetsOf
    <2> QED
      BY <2>1
  <1>2. PICK s \in Initial : \A u \in Initial : ~(<<u, s>> \in StrictSubsetOrdering(Nat))
    <2>1. Initial # {}
      OBVIOUS
    <2> HIDE DEF Initial
    <2> QED
      BY <1>1, <2>1, FS_StrictSubsetOrderingWellFounded, WFMin
  <1>3. PICK m \in T : s = 0..m
    OBVIOUS
  <1>4. ASSUME NEW n \in T, n < m
        PROVE  FALSE
    <2>1. 0..n \in Initial
      OBVIOUS
    <2>2. 0..n \subseteq 0..m /\ m \in 0..m /\ m \notin 0..n
      BY <1>4
    <2>3. 0..n \in SUBSET Nat /\ 0..m \in SUBSET Nat
      OBVIOUS
    <2>4. <<0..n, 0..m>> \in StrictSubsetOrdering(Nat)
      BY <2>2, <2>3 DEF StrictSubsetOrdering
    <2> QED
      BY <1>2, <1>3, <2>1, <2>4
  <1> QED
    BY <1>4

\* A set with 0 and the successors of its numbers has every natural number.
LEMMA SetInduction ==
    ASSUME NEW S, 0 \in S, \A n \in Nat : n \in S => n + 1 \in S
    PROVE  \A n \in Nat : n \in S
  <1> SUFFICES ASSUME NEW k \in Nat, k \notin S PROVE FALSE
    OBVIOUS
  <1> DEFINE T == {n \in Nat : n \notin S}
  <1>1. PICK m \in T : \A n \in T : m <= n
    BY LeastNumber
  <1>2. m # 0 /\ m - 1 \in Nat
    OBVIOUS
  <1>3. m - 1 \in S
    BY <1>1, <1>2
  <1> QED
    BY <1>2, <1>3

-----------------------------------------------------------------------------
(* What _load keeps of the lines.                                          *)

\* The body of the recursion.
KeptAt(g, lines, n) ==
    IF n = 0 THEN <<>>
    ELSE IF lines[n] = 0 THEN g[n - 1] ELSE Append(g[n - 1], lines[n])

\* The recursion defines a function of every length...
LEMMA KeptExists ==
    ASSUME NEW lines
    PROVE  \A m \in Nat : \E g : g = [n \in 0..m |-> KeptAt(g, lines, n)]
  <1> DEFINE S == {m \in Nat : \E g : g = [n \in 0..m |-> KeptAt(g, lines, n)]}
  <1>1. 0 \in S
    <2>1. [n \in 0..0 |-> <<>>] = [n \in 0..0 |-> KeptAt([k \in 0..0 |-> <<>>], lines, n)]
      BY DEF KeptAt
    <2> QED
      BY <2>1
  <1>2. ASSUME NEW m \in Nat, m \in S PROVE m + 1 \in S
    <2>1. PICK g : g = [n \in 0..m |-> KeptAt(g, lines, n)]
      BY <1>2
    <2> DEFINE h == [n \in 0..(m + 1) |-> IF n = m + 1 THEN KeptAt(g, lines, n) ELSE g[n]]
    <2>2. ASSUME NEW n \in 0..(m + 1)
          PROVE  h[n] = KeptAt(h, lines, n)
      <3>1. CASE n = m + 1
        BY <3>1 DEF KeptAt
      <3>2. CASE n # m + 1
        <4>1. n \in 0..m /\ (n # 0 => n - 1 \in 0..m)
          BY <3>2
        <4>2. g[n] = KeptAt(g, lines, n)
          BY <2>1, <4>1
        <4>3. h[n] = g[n] /\ (n # 0 => h[n - 1] = g[n - 1])
          BY <4>1, <3>2
        <4> QED
          BY <4>2, <4>3 DEF KeptAt
      <3> QED
        BY <3>1, <3>2
    <2>3. h = [n \in 0..(m + 1) |-> KeptAt(h, lines, n)]
      <3>1. h = [n \in 0..(m + 1) |-> h[n]]
        OBVIOUS
      <3> HIDE DEF h
      <3> QED
        BY <2>2, <3>1
    <2> HIDE DEF h
    <2> QED
      BY <2>3
  <1> HIDE DEF S
  <1>3. \A m \in Nat : m \in S
    BY <1>1, <1>2, SetInduction
  <1> QED
    BY <1>3 DEF S

\* ...so that Kept is the one its definition describes.
LEMMA KeptIs ==
    ASSUME NEW lines \in Seq(Nat)
    PROVE  Kept(lines) = [n \in 0..Len(lines) |-> KeptAt(Kept(lines), lines, n)]
  <1> DEFINE P(g) == g = [n \in 0..Len(lines) |-> KeptAt(g, lines, n)]
  <1>1. \E g : P(g)
    <2>1. PICK m \in Nat : m = Len(lines)
      OBVIOUS
    <2>2. PICK g : g = [n \in 0..m |-> KeptAt(g, lines, n)]
      BY KeptExists
    <2>3. P(g)
      BY <2>1, <2>2
    <2> QED
      BY <2>3, Zenon
  <1>2. Kept(lines) = CHOOSE g : P(g)
    BY DEF Kept, KeptAt
  <1> HIDE DEF P
  <1>3. P(Kept(lines))
    BY <1>1, <1>2
  <1> QED
    BY <1>3 DEF P

\* The numbers grow along s.
Grows(s) == \A i, j \in DOMAIN s : i < j => s[i] < s[j]

\* The numbers grow along the lines that can be parsed.
InOrder(lines) ==
    \A i, j \in DOMAIN lines :
        i < j /\ lines[i] # 0 /\ lines[j] # 0 => lines[i] < lines[j]

\* out is what the first n lines hold.
Holds(out, lines, n) ==
    /\ out \in Seq(Nat)
    /\ \A k \in DOMAIN out : \E i \in 1..n : lines[i] # 0 /\ out[k] = lines[i]
    /\ \A i \in 1..n : lines[i] # 0 => \E k \in DOMAIN out : out[k] = lines[i]
    /\ Grows(out)

LEMMA AppendHolds ==
    ASSUME NEW lines \in Seq(Nat), InOrder(lines), NEW n \in Nat,
           n + 1 \in DOMAIN lines, NEW out, Holds(out, lines, n),
           lines[n + 1] # 0
    PROVE  Holds(Append(out, lines[n + 1]), lines, n + 1)
  <1> DEFINE x == lines[n + 1]
             new == Append(out, x)
  <1>1. PICK len \in Nat : len = Len(out)
    BY DEF Holds
  <1>2. /\ out \in Seq(Nat) /\ DOMAIN out = 1..len /\ x \in Nat
        /\ new \in Seq(Nat) /\ DOMAIN new = 1..(len + 1)
        /\ \A k \in 1..len : new[k] = out[k]
        /\ new[len + 1] = x
    BY <1>1 DEF Holds
  <1> HIDE DEF new
  <1>3. ASSUME NEW k \in 1..len
        PROVE  \E i \in 1..n : lines[i] # 0 /\ new[k] = lines[i]
    <2>1. PICK i \in 1..n : lines[i] # 0 /\ out[k] = lines[i]
      BY <1>2, Zenon DEF Holds
    <2>2. new[k] = out[k]
      BY <1>2
    <2> QED
      BY <2>1, <2>2, Zenon
  <1>4. ASSUME NEW k \in DOMAIN new
        PROVE  \E i \in 1..(n + 1) : lines[i] # 0 /\ new[k] = lines[i]
    <2>1. CASE k = len + 1
      <3>1. n + 1 \in 1..(n + 1) /\ new[k] = lines[n + 1]
        BY <1>2, <2>1
      <3> QED
        BY <3>1
    <2>2. CASE k # len + 1
      <3>1. k \in 1..len
        BY <1>2, <2>2
      <3>2. PICK i \in 1..n : lines[i] # 0 /\ new[k] = lines[i]
        BY <1>3, <3>1
      <3>3. i \in 1..(n + 1)
        OBVIOUS
      <3> QED
        BY <3>2, <3>3
    <2> QED
      BY <2>1, <2>2
  <1>5. ASSUME NEW i \in 1..(n + 1), lines[i] # 0
        PROVE  \E k \in DOMAIN new : new[k] = lines[i]
    <2>1. CASE i = n + 1
      <3>1. len + 1 \in DOMAIN new
        BY <1>2
      <3> QED
        BY <1>2, <2>1, <3>1
    <2>2. CASE i # n + 1
      <3>1. PICK k \in DOMAIN out : out[k] = lines[i]
        BY <1>5, <2>2 DEF Holds
      <3>2. k \in DOMAIN new /\ new[k] = out[k]
        BY <1>2
      <3> QED
        BY <3>1, <3>2
    <2> QED
      BY <2>1, <2>2
  <1>6. ASSUME NEW i \in DOMAIN new, NEW j \in DOMAIN new, i < j
        PROVE  new[i] < new[j]
    <2>1. i \in 1..len
      BY <1>2, <1>6
    <2>2. CASE j = len + 1
      <3>1. PICK l \in 1..n : lines[l] # 0 /\ new[i] = lines[l]
        BY <1>3, <2>1
      <3>2. l \in DOMAIN lines /\ l < n + 1
        OBVIOUS
      <3> QED
        BY <1>2, <2>2, <3>1, <3>2 DEF InOrder
    <2>3. CASE j # len + 1
      <3>1. j \in 1..len
        BY <1>2, <2>3
      <3> QED
        BY <1>2, <1>6, <2>1, <3>1 DEF Holds, Grows
    <2> QED
      BY <2>2, <2>3
  <1> QED
    BY <1>2, <1>4, <1>5, <1>6 DEF Holds, Grows, new

\* Of a file whose records are in order _load takes exactly the records of the
\* lines it read, in order.
LEMMA KeptHolds ==
    ASSUME NEW lines \in Seq(Nat), InOrder(lines)
    PROVE  \A n \in 0..Len(lines) : Holds(Kept(lines)[n], lines, n)
  <1> DEFINE g == Kept(lines)
             S == {n \in Nat : n <= Len(lines) => Holds(g[n], lines, n)}
  <1>1. \A n \in 0..Len(lines) : g[n] = KeptAt(g, lines, n)
    BY KeptIs
  <1> HIDE DEF g
  <1>2. 0 \in S
    <2>1. g[0] = <<>>
      BY <1>1 DEF KeptAt
    <2>2. <<>> \in Seq(Nat) /\ DOMAIN <<>> = {} /\ 1..0 = {}
      OBVIOUS
    <2>3. Holds(<<>>, lines, 0)
      BY <2>2, Zenon DEF Holds, Grows
    <2> QED
      BY <2>1, <2>3
  <1>3. ASSUME NEW n \in Nat, n \in S PROVE n + 1 \in S
    <2> SUFFICES ASSUME n + 1 <= Len(lines)
                 PROVE  Holds(g[n + 1], lines, n + 1)
      OBVIOUS
    <2>1. n + 1 \in DOMAIN lines /\ n + 1 \in 0..Len(lines)
      OBVIOUS
    <2>2. Holds(g[n], lines, n)
      BY <1>3
    <2>3. g[n + 1] = IF lines[n + 1] = 0 THEN g[n] ELSE Append(g[n], lines[n + 1])
      BY <1>1, <2>1 DEF KeptAt
    <2>4. CASE lines[n + 1] # 0
      BY <2>1, <2>2, <2>3, <2>4, AppendHolds
    <2>5. CASE lines[n + 1] = 0
      BY <2>2, <2>3, <2>5 DEF Holds
    <2> QED
      BY <2>4, <2>5
  <1> HIDE DEF S
  <1>4. \A n \in Nat : n \in S
    BY <1>2, <1>3, SetInduction
  <1>5. \A n \in 0..Len(lines) : n \in Nat /\ n <= Len(lines)
    OBVIOUS
  <1> QED
    BY <1>4, <1>5 DEF S, g

-----------------------------------------------------------------------------
(* The newest records.                                                     *)

\* Along growing numbers, places are not further apart than the numbers.
LEMMA GrowsFast ==
    ASSUME NEW s \in Seq(Nat), Grows(s)
    PROVE  \A d \in Nat : \A i \in DOMAIN s :
               i + d \in DOMAIN s => s[i] + d <= s[i + d]
  <1> DEFINE S == {d \in Nat : \A i \in DOMAIN s :
                      i + d \in DOMAIN s => s[i] + d <= s[i + d]}
  <1>1. 0 \in S
    OBVIOUS
  <1>2. ASSUME NEW d \in Nat, d \in S PROVE d + 1 \in S
    <2> SUFFICES ASSUME NEW i \in DOMAIN s, i + (d + 1) \in DOMAIN s
                 PROVE  s[i] + (d + 1) <= s[i + (d + 1)]
      OBVIOUS
    <2>1. i + d \in DOMAIN s /\ i + d < i + (d + 1)
      OBVIOUS
    <2>2. s[i] + d <= s[i + d]
      BY <1>2, <2>1
    <2>3. s[i + d] < s[i + (d + 1)]
      BY <2>1 DEF Grows
    <2>4. \A a, b, c \in Nat : a + d <= b /\ b < c => a + (d + 1) <= c
      OBVIOUS
    <2>5. s[i] \in Nat /\ s[i + d] \in Nat /\ s[i + (d + 1)] \in Nat
      BY <2>1
    <2> QED
      BY <2>2, <2>3, <2>4, <2>5
  <1> HIDE DEF S
  <1>3. \A d \in Nat : d \in S
    BY <1>1, <1>2, SetInduction
  <1> QED
    BY <1>3 DEF S

\* No number of s is above m.
UpTo(s, m) == \A n \in DOMAIN s : s[n] <= m

\* Dropping all but the newest keeps the order and every number that is less
\* than Retention below the bound.
LEMMA NewestKeeps ==
    ASSUME NEW s \in Seq(Nat), Grows(s), NEW m \in Nat, UpTo(s, m)
    PROVE  /\ Newest(s) \in Seq(Nat) /\ Grows(Newest(s)) /\ UpTo(Newest(s), m)
           /\ Range(Newest(s)) \subseteq Range(s)
           /\ \A r \in Range(s) : r + Retention > m => r \in Range(Newest(s))
  <1>1. Retention \in Nat \ {0} /\ Len(s) \in Nat /\ DOMAIN s = 1..Len(s)
    BY AuditLogAssumption
  <1>2. CASE Len(s) <= Retention
    BY <1>1, <1>2 DEF Newest
  <1>3. CASE Len(s) > Retention
    <2> DEFINE cut == Len(s) - Retention
               new == SubSeq(s, cut + 1, Len(s))
    <2>1. /\ cut \in Nat /\ cut + Retention = Len(s) /\ cut < Len(s)
          /\ Newest(s) = new
      BY <1>1, <1>3 DEF Newest
    <2> HIDE DEF cut
    <2>2. /\ new \in Seq(Nat) /\ DOMAIN new = 1..Retention
          /\ \A k \in 1..Retention : new[k] = s[cut + k] /\ cut + k \in DOMAIN s
      <3>1. PICK len \in Nat : len = Len(s)
        OBVIOUS
      <3>2. /\ cut + 1 \in Int /\ cut + 1 <= len /\ len - (cut + 1) + 1 = Retention
        <4>1. \A c, r, l \in Nat : c + r = l /\ c < l =>
                /\ c + 1 \in Int /\ c + 1 <= l /\ l - (c + 1) + 1 = r
          OBVIOUS
        <4>2. cut \in Nat /\ Retention \in Nat /\ cut + Retention = len /\ cut < len
          BY <1>1, <2>1, <3>1
        <4> QED
          BY <4>1, <4>2, <3>1
      <3>3. ASSUME NEW k \in (cut + 1)..len PROVE s[k] \in Nat
        <4>1. k \in DOMAIN s
          BY <1>1, <2>1, <3>1
        <4> QED
          BY <4>1
      <3>4. new = SubSeq(s, cut + 1, len)
        BY <3>1
      <3> HIDE DEF new
      <3>5. /\ new \in Seq(Nat) /\ Len(new) = len - (cut + 1) + 1
            /\ \A k \in 1..(len - (cut + 1) + 1) : new[k] = s[cut + 1 + k - 1]
        BY <3>2, <3>3, <3>4, SubSeqProperties
      <3>6. \A k \in 1..Retention : cut + 1 + k - 1 = cut + k
        BY <1>1, <2>1
      <3>7. \A k \in 1..Retention : cut + k \in 1..Len(s)
        BY <1>1, <2>1
      <3>8. DOMAIN new = 1..Retention
        <4>1. Len(new) = Retention /\ DOMAIN new = 1..Len(new)
          BY <3>2, <3>5
        <4> QED
          BY <4>1
      <3>9. ASSUME NEW k \in 1..Retention PROVE new[k] = s[cut + k]
        <4>1. new[k] = s[cut + 1 + k - 1]
          BY <3>2, <3>5
        <4> QED
          BY <3>6, <4>1
      <3> QED
        BY <1>1, <3>5, <3>7, <3>8, <3>9
    <2> HIDE DEF new
    <2>3. Grows(new)
      <3> SUFFICES ASSUME NEW i \in 1..Retention, NEW j \in 1..Retention, i < j
                   PROVE  new[i] < new[j]
        BY <2>2 DEF Grows
      <3>1. cut + i < cut + j
        BY <1>1, <2>1
      <3> QED
        BY <2>2, <3>1 DEF Grows
    <2>4. UpTo(new, m) /\ Range(new) \subseteq Range(s)
      BY <2>2 DEF UpTo, Range
    <2>5. ASSUME NEW i \in DOMAIN s, s[i] + Retention > m
          PROVE  s[i] \in Range(new)
      <3>1. cut < i
        <4> SUFFICES ASSUME i <= cut PROVE FALSE
          BY <1>1, <2>1
        <4>1. i + Retention \in DOMAIN s
          BY <1>1, <2>1
        <4>2. s[i] + Retention <= s[i + Retention]
          BY <1>1, <4>1, GrowsFast
        <4>3. s[i + Retention] <= m /\ s[i] \in Nat /\ s[i + Retention] \in Nat
          BY <4>1 DEF UpTo
        <4> QED
          BY <1>1, <2>5, <4>2, <4>3
      <3>2. i - cut \in 1..Retention /\ cut + (i - cut) = i
        BY <1>1, <2>1, <3>1
      <3> QED
        BY <2>2, <3>2 DEF Range
    <2>6. ASSUME NEW r \in Range(s), r + Retention > m
          PROVE  r \in Range(new)
      <3>1. PICK i \in DOMAIN s : r = s[i]
        BY DEF Range
      <3> QED
        BY <2>5, <2>6, <3>1
    <2> QED
      BY <2>1, <2>2, <2>3, <2>4, <2>6
  <1> QED
    BY <1>1, <1>2, <1>3

\* s has every number of R, or begins after it.
Remembers(s, R) == \A r \in R : r \in Range(s) \/ \A n \in DOMAIN s : r < s[n]

\* Appending the next record to what append was given, and dropping the oldest.
LEMMA NewestRemembers ==
    ASSUME NEW items \in Seq(Nat), Grows(items), NEW m \in Nat, UpTo(items, m),
           NEW R \in SUBSET (1..m), \A r \in R : r + Retention > m + 1,
           Remembers(items, R)
    PROVE  LET all == Append(items, m + 1)
           IN  /\ all \in Seq(Nat) /\ Grows(all) /\ UpTo(all, m + 1)
               /\ Newest(all) \in Seq(Nat) /\ Grows(Newest(all))
               /\ UpTo(Newest(all), m + 1) /\ m + 1 \in Range(Newest(all))
               /\ Remembers(all, R) /\ Remembers(Newest(all), R)
               /\ Len(all) > Retention => R \subseteq Range(Newest(all))
  <1> DEFINE all == Append(items, m + 1)
  <1>1. /\ Len(items) \in Nat /\ DOMAIN items = 1..Len(items)
        /\ all \in Seq(Nat) /\ Len(all) = Len(items) + 1
        /\ DOMAIN all = 1..(Len(items) + 1)
        /\ \A k \in 1..Len(items) : all[k] = items[k]
        /\ all[Len(items) + 1] = m + 1
    OBVIOUS
  <1> HIDE DEF all
  <1>2. UpTo(all, m + 1)
    BY <1>1 DEF UpTo
  <1>3. Grows(all)
    <2> SUFFICES ASSUME NEW i \in DOMAIN all, NEW j \in DOMAIN all, i < j
                 PROVE  all[i] < all[j]
      BY DEF Grows
    <2>1. i \in 1..Len(items) /\ all[i] = items[i] /\ items[i] \in Nat /\ items[i] <= m
      BY <1>1 DEF UpTo
    <2>2. CASE j = Len(items) + 1
      BY <1>1, <2>1, <2>2
    <2>3. CASE j # Len(items) + 1
      <3>1. j \in 1..Len(items) /\ all[j] = items[j]
        BY <1>1, <2>3
      <3> QED
        BY <1>1, <2>1, <3>1 DEF Grows
    <2> QED
      BY <2>2, <2>3
  <1>4. Remembers(all, R)
    <2> SUFFICES ASSUME NEW r \in R
                 PROVE  r \in Range(all) \/ \A n \in DOMAIN all : r < all[n]
      BY DEF Remembers
    <2>1. CASE r \in Range(items)
      BY <1>1, <2>1 DEF Range
    <2>2. CASE \A n \in DOMAIN items : r < items[n]
      <3>1. r < m + 1
        OBVIOUS
      <3>2. ASSUME NEW n \in DOMAIN all PROVE r < all[n]
        <4>1. CASE n = Len(items) + 1
          BY <1>1, <3>1, <4>1
        <4>2. CASE n # Len(items) + 1
          <5>1. n \in DOMAIN items /\ all[n] = items[n]
            BY <1>1, <4>2
          <5> QED
            BY <2>2, <5>1
        <4> QED
          BY <4>1, <4>2
      <3> QED
        BY <3>2
    <2> QED
      BY <2>1, <2>2 DEF Remembers
  <1>5. /\ Newest(all) \in Seq(Nat) /\ Grows(Newest(all))
        /\ UpTo(Newest(all), m + 1) /\ Range(Newest(all)) \subseteq Range(all)
        /\ \A r \in Range(all) : r + Retention > m + 1 => r \in Range(Newest(all))
    BY <1>1, <1>2, <1>3, NewestKeeps
  <1>6. m + 1 \in Range(Newest(all))
    <2>1. m + 1 \in Range(all)
      <3>1. Len(items) + 1 \in DOMAIN all
        BY <1>1
      <3> QED
        BY <1>1, <3>1 DEF Range
    <2>2. m + 1 + Retention > m + 1
      BY AuditLogAssumption
    <2> QED
      BY <1>5, <2>1, <2>2
  <1>7. Remembers(Newest(all), R)
    <2> SUFFICES ASSUME NEW r \in R, r \notin Range(Newest(all)),
                        NEW n \in DOMAIN Newest(all)
                 PROVE  r < Newest(all)[n]
      BY DEF Remembers
    <2>1. r \notin Range(all)
      BY <1>5
    <2>2. Newest(all)[n] \in Range(all)
      BY <1>5 DEF Range
    <2> QED
      BY <1>4, <2>1, <2>2 DEF Remembers, Range
  <1>8. ASSUME Len(all) > Retention, NEW r \in R
        PROVE  r \in Range(Newest(all))
    <2> SUFFICES ASSUME r \notin Range(all) PROVE FALSE
      BY <1>5
    <2>1. 1 \in DOMAIN all /\ 1 + Len(items) \in DOMAIN all
      BY <1>1
    <2>2. r < all[1] /\ all[1] \in Nat
      BY <1>1, <1>4, <2>1 DEF Remembers
    <2>3. all[1] + Len(items) <= all[1 + Len(items)]
      BY <1>1, <1>3, <2>1, GrowsFast
    <2>4. all[1 + Len(items)] = m + 1
      BY <1>1
    <2> QED
      BY <1>1, <1>8, <2>2, <2>3, <2>4, AuditLogAssumption
  <1> QED
    BY <1>1, <1>2, <1>3, <1>4, <1>5, <1>6, <1>7, <1>8 DEF all

-----------------------------------------------------------------------------
(* The invariant.                                                          *)

\* The acknowledged records that have to be in the file.
Recent == {r \in acked \ (spoiled \cup passed) : r + Retention > submitted}

TypeInv ==
    /\ file \in Seq(Nat) /\ unended \in BOOLEAN
    /\ cache \in BOOLEAN \X Seq(Nat) /\ rows \in Seq(Nat)
    /\ stage \in {"idle", "write", "rewrite", "replace"}
    /\ submitted \in Nat /\ acked \subseteq 1..submitted
    /\ stage # "idle" => submitted \in 1..submitted

\* The records of the file are in order.  A line without its end is none of an
\* acknowledged record, so joining it loses none.
FileInv ==
    /\ InOrder(file) /\ UpTo(file, submitted)
    /\ stage # "idle" => submitted \notin Range(file) \cup acked
    /\ unended => file # <<>> /\ file[Len(file)] \notin acked

\* The cache is a run of records in order.  It may lack older ones, because the
\* file could not be read when it was filled, but then it holds every record
\* from its first on that was not passed over: by the time it is long enough for a rewrite the older
\* ones are not recent any more.
CacheInv ==
    /\ Grows(cache[2]) /\ UpTo(cache[2], submitted)
    /\ cache[1] => Remembers(cache[2], Recent)

RowsInv ==
    stage # "idle" =>
        /\ Grows(rows) /\ UpTo(rows, submitted) /\ submitted \in Range(rows)
        /\ Remembers(rows, Recent)
        /\ stage \in {"rewrite", "replace"} => Recent \subseteq Range(rows)

Inv == TypeInv /\ FileInv /\ CacheInv /\ RowsInv /\ Recent \subseteq Range(file)

-----------------------------------------------------------------------------
(* The steps.                                                              *)

LEMMA RecentShrinks ==
    ASSUME TypeInv, submitted' \in Nat, submitted' >= submitted,
           acked' = acked, spoiled \subseteq spoiled', passed \subseteq passed'
    PROVE  Recent' \subseteq Recent
  <1>1. ASSUME NEW r \in Recent' PROVE r \in Recent
    <2>1. /\ r \in acked \ (spoiled \cup passed) /\ r \in Nat /\ submitted \in Nat
          /\ r + Retention > submitted'
      BY DEF TypeInv, Recent
    <2>2. r + Retention > submitted
      BY <2>1, AuditLogAssumption
    <2> QED
      BY <2>1, <2>2 DEF Recent
  <1> QED
    BY <1>1

\* The newest of what was read, wherever the read broke off, holds what has to be
\* in the file but for what it passed over.
LEMMA TakenRemembers ==
    ASSUME Inv, NEW n \in 0..Len(file), NEW R \in SUBSET Recent,
           \A r \in R : r \notin PassedOver(Kept(file)[n])
    PROVE  LET items == Newest(Kept(file)[n])
           IN  /\ items \in Seq(Nat) /\ Grows(items) /\ UpTo(items, submitted)
               /\ Remembers(items, R)
  <1> DEFINE out == Kept(file)[n]
  <1>1. /\ file \in Seq(Nat) /\ InOrder(file) /\ UpTo(file, submitted)
        /\ submitted \in Nat /\ DOMAIN file = 1..Len(file) /\ Len(file) \in Nat
    BY DEF Inv, TypeInv, FileInv
  <1>2. Holds(out, file, n)
    BY <1>1, KeptHolds
  <1>3. \A r \in R : r \notin PassedOver(out)
    OBVIOUS
  <1> HIDE DEF out
  <1>4. out \in Seq(Nat) /\ Grows(out)
    BY <1>2 DEF Holds
  <1>5. UpTo(out, submitted)
    <2>1. 1..n \subseteq DOMAIN file
      BY <1>1
    <2> QED
      BY <1>1, <1>2, <2>1 DEF Holds, UpTo
  <1>6. /\ Newest(out) \in Seq(Nat) /\ Grows(Newest(out))
        /\ UpTo(Newest(out), submitted)
        /\ \A r \in Range(out) : r + Retention > submitted => r \in Range(Newest(out))
    BY <1>1, <1>4, <1>5, NewestKeeps
  <1>7. Remembers(Newest(out), R)
    <2>1. CASE out = <<>>
      <3>1. Len(<<>>) = 0 /\ DOMAIN <<>> = {} /\ ~(0 > Retention)
        BY AuditLogAssumption
      <3>2. Newest(out) = <<>>
        BY <2>1, <3>1, Zenon DEF Newest
      <3> QED
        BY <3>1, <3>2, Zenon DEF Remembers
    <2>2. CASE out # <<>>
      <3> SUFFICES ASSUME NEW r \in R PROVE r \in Range(Newest(out))
        BY DEF Remembers
      <3>1. r \in Range(file) /\ r \in 1..submitted /\ r + Retention > submitted
        BY DEF Inv, TypeInv, Recent
      <3>2. Contains(file, r)
        BY <1>1, <3>1 DEF Range, Contains
      <3>3. Contains(out, r)
        BY <1>3, <2>2, <3>1, <3>2 DEF PassedOver
      <3>4. r \in Range(out)
        BY <1>4, <3>3 DEF Contains, Range
      <3> QED
        BY <1>6, <3>1, <3>4
    <2> QED
      BY <2>1, <2>2
  <1> QED
    BY <1>6, <1>7 DEF out

\* What append is given holds what has to be in the file.
LEMMA LoadsRemembers ==
    ASSUME Inv, NEW items, Loads(items), NEW R, R = Recent \ passed'
    PROVE  /\ items \in Seq(Nat) /\ Grows(items) /\ UpTo(items, submitted)
           /\ Remembers(items, R) /\ passed \subseteq passed'
  <1>1. CASE cache[1] /\ items = cache[2] /\ UNCHANGED <<faults, passed>>
    BY <1>1 DEF Inv, TypeInv, CacheInv, Remembers
  <1>2. CASE items = Newest(Readable(file)) /\ UNCHANGED <<faults, passed>>
    <2>1. Len(file) \in 0..Len(file) /\ Len(file) \in Nat
      BY DEF Inv, TypeInv
    <2>2. ASSUME NEW r \in R PROVE r \notin PassedOver(Kept(file)[Len(file)])
      <3>1. /\ file \in Seq(Nat) /\ InOrder(file) /\ r \in Range(file) /\ r # 0
            /\ DOMAIN file = 1..Len(file)
        BY DEF Inv, TypeInv, FileInv, Recent
      <3>2. Holds(Kept(file)[Len(file)], file, Len(file))
        BY <2>1, <3>1, KeptHolds
      <3>3. PICK i \in 1..Len(file) : file[i] = r
        BY <3>1 DEF Range
      <3>4. PICK k \in DOMAIN Kept(file)[Len(file)] : Kept(file)[Len(file)][k] = r
        BY <3>1, <3>2, <3>3 DEF Holds
      <3>5. DOMAIN Kept(file)[Len(file)] = 1..Len(Kept(file)[Len(file)])
        BY <3>2 DEF Holds
      <3> QED
        BY <3>4, <3>5 DEF PassedOver, Contains
    <2> QED
      BY <1>2, <2>1, <2>2, TakenRemembers DEF Readable
  <1>3. ASSUME NEW n \in 0..Len(file), items = Newest(Kept(file)[n]),
               passed' = passed \cup PassedOver(Kept(file)[n])
        PROVE  /\ items \in Seq(Nat) /\ Grows(items) /\ UpTo(items, submitted)
               /\ Remembers(items, R) /\ passed \subseteq passed'
    <2>1. \A r \in R : r \notin PassedOver(Kept(file)[n])
      BY <1>3
    <2> QED
      BY <1>3, <2>1, TakenRemembers
  <1> QED
    BY <1>1, <1>2, <1>3 DEF Loads, Reads

LEMMA SubmitStep ==
    ASSUME Inv, Submit
    PROVE  Inv'
  <1>1. PICK items : /\ Loads(items)
                     /\ cache' = <<TRUE, Append(items, submitted')>>
                     /\ rows' = Newest(Append(items, submitted'))
                     /\ stage' = IF Len(Append(items, submitted')) > Retention
                                 THEN "rewrite" ELSE "write"
    BY DEF Submit
  <1>2. /\ stage = "idle" /\ submitted' = submitted + 1
        /\ UNCHANGED <<file, unended, acked, spoiled>>
    BY DEF Submit
  <1> DEFINE all == Append(items, submitted + 1)
  <1>3. submitted \in Nat /\ acked \subseteq 1..submitted
    BY DEF Inv, TypeInv
  <1> DEFINE R == Recent \ passed'
  <1>0. /\ items \in Seq(Nat) /\ Grows(items) /\ UpTo(items, submitted)
        /\ Remembers(items, R) /\ passed \subseteq passed'
    BY <1>1, LoadsRemembers
  <1>4. Recent' \subseteq Recent /\ Recent' \subseteq R
    <2>1. Recent' \subseteq Recent
      BY <1>0, <1>2, <1>3, RecentShrinks DEF Inv
    <2>2. \A r \in Recent' : r \notin passed'
      BY DEF Recent
    <2> QED
      BY <2>1, <2>2
  <1>5. \A r \in Recent' : r + Retention > submitted + 1
    BY <1>2 DEF Recent
  <1>6. Recent' \in SUBSET (1..submitted)
    BY <1>3, <1>4 DEF Recent
  <1>7. /\ items \in Seq(Nat) /\ Grows(items) /\ UpTo(items, submitted)
        /\ Remembers(items, Recent')
    BY <1>0, <1>4 DEF Remembers
  <1>8. /\ all \in Seq(Nat) /\ Grows(all) /\ UpTo(all, submitted + 1)
        /\ Newest(all) \in Seq(Nat) /\ Grows(Newest(all))
        /\ UpTo(Newest(all), submitted + 1) /\ submitted + 1 \in Range(Newest(all))
        /\ Remembers(all, Recent') /\ Remembers(Newest(all), Recent')
        /\ Len(all) > Retention => Recent' \subseteq Range(Newest(all))
    BY <1>3, <1>5, <1>6, <1>7, NewestRemembers
  <1>9. /\ cache' = <<TRUE, all>> /\ rows' = Newest(all)
        /\ stage' = IF Len(all) > Retention THEN "rewrite" ELSE "write"
    BY <1>1, <1>2
  <1> HIDE DEF all
  <1>10. TypeInv'
    <2>1. submitted + 1 \in Nat /\ submitted + 1 \in 1..(submitted + 1)
          /\ 1..submitted \subseteq 1..(submitted + 1)
      BY <1>3
    <2>2. cache' \in BOOLEAN \X Seq(Nat)
      BY <1>8, <1>9
    <2> QED
      BY <1>2, <1>3, <1>8, <1>9, <2>1, <2>2 DEF Inv, TypeInv
  <1>11. FileInv'
    <2>1. submitted + 1 \notin Range(file) \cup acked
      BY <1>3 DEF Inv, TypeInv, FileInv, UpTo, Range
    <2>2. UpTo(file, submitted + 1)
      BY <1>3 DEF Inv, TypeInv, FileInv, UpTo
    <2> QED
      BY <1>2, <2>1, <2>2 DEF Inv, FileInv
  <1>12. CacheInv'
    BY <1>2, <1>8, <1>9 DEF CacheInv
  <1>13. RowsInv'
    BY <1>2, <1>8, <1>9 DEF RowsInv
  <1>14. Recent' \subseteq Range(file)'
    BY <1>2, <1>4 DEF Inv
  <1> QED
    BY <1>10, <1>11, <1>12, <1>13, <1>14 DEF Inv

\* Adding a line keeps the order and every acknowledged record.
LEMMA AddedKeeps ==
    ASSUME Inv, stage = "write", NEW line \in {0, submitted}
    PROVE  /\ Added(line) \in Seq(Nat) /\ InOrder(Added(line))
           /\ UpTo(Added(line), submitted) /\ Added(line) # <<>>
           /\ Added(line)[Len(Added(line))] \notin acked
           /\ ~unended => line \in Range(Added(line))
           /\ \A r \in acked : r \in Range(file) => r \in Range(Added(line))
  <1>1. PICK len \in Nat : len = Len(file)
    BY DEF Inv, TypeInv
  <1>2. /\ file \in Seq(Nat) /\ DOMAIN file = 1..len /\ line \in Nat
        /\ InOrder(file) /\ UpTo(file, submitted)
        /\ submitted \in Nat /\ acked \subseteq 1..submitted
        /\ submitted \notin Range(file) \cup acked
        /\ unended => file # <<>> /\ file[len] \notin acked
    BY <1>1 DEF Inv, TypeInv, FileInv
  <1>3. CASE unended
    <2> DEFINE new == [file EXCEPT ![len] = 0]
    <2>1. len \in 1..len
      BY <1>1, <1>2, <1>3
    <2>2. /\ new \in Seq(Nat) /\ Len(new) = len /\ DOMAIN new = 1..len
          /\ new[len] = 0 /\ \A k \in 1..len : k # len => new[k] = file[k]
      BY <1>1, <1>2, <2>1
    <2>3. Added(line) = new
      BY <1>1, <1>3 DEF Added
    <2> HIDE DEF new
    <2>4. InOrder(new)
      BY <1>2, <2>1, <2>2 DEF InOrder
    <2>5. UpTo(new, submitted)
      BY <1>2, <2>2 DEF UpTo
    <2>6. new # <<>> /\ new[Len(new)] \notin acked
      BY <1>2, <2>1, <2>2
    <2>7. ASSUME NEW r \in acked, r \in Range(file) PROVE r \in Range(new)
      <3>1. PICK k \in 1..len : file[k] = r
        BY <1>2, <2>7 DEF Range
      <3>2. k # len
        BY <1>2, <1>3, <3>1
      <3> QED
        BY <2>2, <3>1, <3>2 DEF Range
    <2> QED
      BY <1>3, <2>2, <2>3, <2>4, <2>5, <2>6, <2>7
  <1>4. CASE ~unended
    <2> DEFINE new == Append(file, line)
    <2>1. /\ new \in Seq(Nat) /\ Len(new) = len + 1 /\ DOMAIN new = 1..(len + 1)
          /\ new[len + 1] = line /\ \A k \in 1..len : new[k] = file[k]
      BY <1>1, <1>2
    <2>2. Added(line) = new
      BY <1>4 DEF Added
    <2> HIDE DEF new
    <2>3. len + 1 \in DOMAIN new /\ \A k \in DOMAIN new : k = len + 1 \/ k \in 1..len
      BY <2>1
    <2>4. UpTo(new, submitted)
      BY <1>2, <2>1, <2>3 DEF UpTo
    <2>5. \A k \in 1..len : new[k] < submitted /\ new[k] \in Nat
      BY <1>2, <2>1 DEF UpTo, Range
    <2>6. ASSUME NEW i \in DOMAIN new, NEW j \in DOMAIN new, i < j,
                 new[i] # 0, new[j] # 0
          PROVE  new[i] < new[j]
      <3>1. i \in 1..len
        BY <2>1, <2>6
      <3>2. CASE j = len + 1
        BY <2>1, <2>5, <2>6, <3>1, <3>2
      <3>3. CASE j \in 1..len
        BY <1>2, <2>1, <2>6, <3>1, <3>3 DEF InOrder
      <3> QED
        BY <2>3, <3>2, <3>3
    <2>7. new # <<>> /\ new[Len(new)] \notin acked
      BY <1>2, <2>1
    <2>8. line \in Range(new)
      BY <2>1, <2>3 DEF Range
    <2>9. ASSUME NEW r \in acked, r \in Range(file) PROVE r \in Range(new)
      <3>1. PICK k \in 1..len : file[k] = r
        BY <1>2, <2>9 DEF Range
      <3>2. k \in DOMAIN new
        BY <2>1
      <3> QED
        BY <2>1, <3>1, <3>2 DEF Range
    <2> QED
      BY <2>1, <2>2, <2>4, <2>6, <2>7, <2>8, <2>9 DEF InOrder
  <1> QED
    BY <1>3, <1>4 DEF Inv, TypeInv

LEMMA WriteStep ==
    ASSUME Inv, Write
    PROVE  Inv'
  <1>1. /\ stage = "write" /\ file' = Added(submitted) /\ unended' = FALSE
        /\ spoiled' = IF unended THEN spoiled \cup {submitted} ELSE spoiled
        /\ stage' = "idle" /\ rows' = <<>> /\ cache' = <<TRUE, rows>>
        /\ acked' = acked \cup {submitted} /\ submitted' = submitted
        /\ passed' = passed
    BY DEF Write, Succeeds
  <1>2. /\ Added(submitted) \in Seq(Nat) /\ InOrder(Added(submitted))
        /\ UpTo(Added(submitted), submitted)
        /\ ~unended => submitted \in Range(Added(submitted))
        /\ \A r \in acked : r \in Range(file) => r \in Range(Added(submitted))
    BY <1>1, AddedKeeps
  <1>3. Recent' \subseteq Recent \cup (IF unended THEN {} ELSE {submitted})
    BY <1>1 DEF Recent
  <1>4. submitted \in 1..submitted
    BY <1>1 DEF Inv, TypeInv
  <1>5. TypeInv'
    <2>1. rows \in Seq(Nat)
      BY <1>1 DEF Inv, TypeInv
    <2>2. <<TRUE, rows>> \in BOOLEAN \X Seq(Nat)
      BY <2>1
    <2>3. cache' \in BOOLEAN \X Seq(Nat) /\ <<>> \in Seq(Nat)
      BY <1>1, <2>2
    <2> QED
      BY <1>1, <1>2, <1>4, <2>3 DEF Inv, TypeInv
  <1>6. FileInv'
    BY <1>1, <1>2 DEF FileInv
  <1>7. CacheInv'
    <2>1. /\ Grows(rows) /\ UpTo(rows, submitted) /\ submitted \in Range(rows)
          /\ Remembers(rows, Recent)
      BY <1>1 DEF Inv, RowsInv
    <2>2. Remembers(rows, Recent')
      BY <1>3, <2>1 DEF Remembers
    <2> QED
      BY <1>1, <2>1, <2>2 DEF CacheInv
  <1>8. Recent' \subseteq Range(file')
    BY <1>1, <1>2, <1>3 DEF Inv, Recent
  <1> QED
    BY <1>1, <1>5, <1>6, <1>7, <1>8 DEF Inv, RowsInv

\* A write that fails or is cut short by the end of the process.
LEMMA CutShortKeeps ==
    ASSUME Inv, stage = "write", CutShort
    PROVE  /\ file' \in Seq(Nat) /\ unended' \in BOOLEAN /\ InOrder(file')
           /\ UpTo(file', submitted)
           /\ unended' => file' # <<>> /\ file'[Len(file')] \notin acked
           /\ Recent \subseteq Range(file')
  <1>1. CASE UNCHANGED <<file, unended>>
    BY <1>1 DEF Inv, TypeInv, FileInv
  <1>2. ASSUME NEW line \in {0, submitted}, file' = Added(line), unended' \in BOOLEAN
        PROVE  /\ file' \in Seq(Nat) /\ unended' \in BOOLEAN /\ InOrder(file')
               /\ UpTo(file', submitted)
               /\ unended' => file' # <<>> /\ file'[Len(file')] \notin acked
               /\ Recent \subseteq Range(file')
    BY <1>2, AddedKeeps DEF Inv, Recent
  <1> QED
    BY <1>1, <1>2 DEF CutShort

\* Back to idle, acknowledging nothing.
LEMMA Unacknowledged ==
    ASSUME Inv, stage' = "idle", rows' = <<>>,
           file' \in Seq(Nat), unended' \in BOOLEAN, InOrder(file'),
           UpTo(file', submitted),
           unended' => file' # <<>> /\ file'[Len(file')] \notin acked,
           Recent \subseteq Range(file'),
           cache' = cache \/ cache' = NoCache,
           UNCHANGED <<submitted, acked, spoiled>>,
           \/ UNCHANGED passed
           \/ cache' = NoCache /\ passed' = {r \in passed : ~Contains(file', r)}
    PROVE  Inv'
  <1>1. /\ UNCHANGED passed => Recent' = Recent
        /\ Recent' \subseteq Range(file')
    <2>1. CASE UNCHANGED passed
      BY <2>1 DEF Recent
    <2>2. CASE passed' = {r \in passed : ~Contains(file', r)}
      <3>1. ASSUME NEW r \in Recent', r \notin Recent PROVE r \in Range(file')
        <4>1. r \in passed /\ r \notin passed'
          BY <3>1 DEF Recent
        <4>2. Contains(file', r)
          BY <2>2, <4>1
        <4>3. PICK i \in 1..Len(file') : file'[i] = r
          BY <4>2 DEF Contains
        <4>4. i \in DOMAIN file'
          OBVIOUS
        <4> QED
          BY <4>3, <4>4 DEF Range
      <3> QED
        BY <2>2, <3>1 DEF Recent
    <2> QED
      BY <2>1, <2>2
  <1>2. cache' \in BOOLEAN \X Seq(Nat)
    <2>1. <<>> \in Seq(Nat) /\ cache \in BOOLEAN \X Seq(Nat)
      BY DEF Inv, TypeInv
    <2>2. \A rs \in Seq(Nat) : <<FALSE, rs>> \in BOOLEAN \X Seq(Nat)
      OBVIOUS
    <2>3. NoCache \in BOOLEAN \X Seq(Nat)
      BY <2>1, <2>2 DEF NoCache
    <2> QED
      BY <2>1, <2>3
  <1>3. TypeInv'
    BY <1>2 DEF Inv, TypeInv
  <1>4. FileInv'
    BY DEF FileInv
  <1>5. CacheInv'
    <2>1. CASE cache' = cache /\ UNCHANGED passed
      BY <1>1, <2>1 DEF Inv, CacheInv
    <2>2. CASE cache' = NoCache
      <3>1. cache'[1] = FALSE /\ cache'[2] = <<>> /\ DOMAIN <<>> = {}
        BY <2>2 DEF NoCache
      <3> QED
        BY <3>1, Zenon DEF CacheInv, Grows, UpTo
    <2> QED
      BY <2>1, <2>2
  <1> QED
    BY <1>1, <1>3, <1>4, <1>5 DEF Inv, RowsInv

LEMMA ReplaceStep ==
    ASSUME Inv, Replace
    PROVE  Inv'
  <1>1. /\ stage = "replace" /\ file' = rows /\ unended' = FALSE
        /\ stage' = "idle" /\ rows' = <<>> /\ cache' = <<TRUE, rows>>
        /\ acked' = acked \cup {submitted} /\ UNCHANGED <<submitted, spoiled, passed>>
    BY DEF Replace, Succeeds
  <1>2. /\ rows \in Seq(Nat) /\ Grows(rows) /\ UpTo(rows, submitted)
        /\ submitted \in Range(rows) /\ Remembers(rows, Recent)
        /\ Recent \subseteq Range(rows)
    BY <1>1 DEF Inv, TypeInv, RowsInv
  <1>3. Recent' \subseteq Recent \cup {submitted}
    BY <1>1 DEF Recent
  <1>4. submitted \in 1..submitted
    BY <1>1 DEF Inv, TypeInv
  <1>5. TypeInv'
    <2>1. rows \in Seq(Nat)
      BY <1>1, <1>2
    <2>2. <<TRUE, rows>> \in BOOLEAN \X Seq(Nat)
      BY <2>1
    <2>3. cache' \in BOOLEAN \X Seq(Nat) /\ <<>> \in Seq(Nat)
      BY <1>1, <2>2
    <2> QED
      BY <1>1, <1>2, <1>4, <2>3 DEF Inv, TypeInv
  <1>6. FileInv'
    BY <1>1, <1>2 DEF FileInv, InOrder, Grows
  <1>7. CacheInv'
    BY <1>1, <1>2, <1>3 DEF CacheInv, Remembers
  <1>8. Recent' \subseteq Range(file')
    BY <1>1, <1>2, <1>3
  <1> QED
    BY <1>1, <1>5, <1>6, <1>7, <1>8 DEF Inv, RowsInv

LEMMA StepKeeps ==
    ASSUME Inv, [Next]_vars
    PROVE  Inv'
  <1>1. CASE WriteFails
    BY <1>1, CutShortKeeps, Unacknowledged DEF WriteFails
  <1>2. CASE RewriteFails
    BY <1>2, Unacknowledged DEF RewriteFails, Inv, TypeInv, FileInv
  <1>3. CASE Crash
    <2>1. CASE stage = "write"
      BY <1>3, <2>1, CutShortKeeps, Unacknowledged DEF Crash
    <2>2. CASE stage # "write"
      BY <1>3, <2>2, Unacknowledged DEF Crash, Inv, TypeInv, FileInv
    <2> QED
      BY <2>1, <2>2
  <1>4. CASE WriteTmp
    BY <1>4 DEF WriteTmp, Inv, TypeInv, FileInv, CacheInv, RowsInv, Recent
  <1>5. CASE UNCHANGED vars
    BY <1>5 DEF vars, Inv, TypeInv, FileInv, CacheInv, RowsInv, Recent
  <1> QED
    BY <1>1, <1>2, <1>3, <1>4, <1>5, SubmitStep, WriteStep, ReplaceStep DEF Next

LEMMA InitKeeps ==
    ASSUME Init
    PROVE  Inv
  <1>1. <<>> \in Seq(Nat) /\ DOMAIN <<>> = {}
    OBVIOUS
  <1>2. TypeInv
    BY <1>1 DEF Init, TypeInv, NoCache
  <1>3. FileInv
    BY <1>1, Zenon DEF Init, FileInv, InOrder, UpTo
  <1>4. CacheInv
    <2>1. cache[1] = FALSE /\ cache[2] = <<>>
      BY DEF Init, NoCache
    <2> QED
      BY <1>1, <2>1, Zenon DEF CacheInv, Grows, UpTo
  <1>5. Recent = {}
    BY DEF Init, Recent
  <1> QED
    BY <1>2, <1>3, <1>4, <1>5 DEF Init, Inv, RowsInv

\* Whatever fails or crashes, at any line and for any retention, a record whose
\* append succeeded stays in the file as long as it is among the newest ones, but
\* for one that was glued to an unended line and one that a read passed over
\* because it broke off after other records: a cache that begins later than the
\* file does loses nothing, because by the time it is long enough for a rewrite
\* what it lacks is old enough to go.  (append, _load, _rewrite.)
THEOREM KeepsAcknowledged == Spec => []AcknowledgedKept
  <1>1. Inv => AcknowledgedKept
    <2> SUFFICES ASSUME Inv, NEW r \in acked \ (spoiled \cup passed), r + Retention > submitted
                 PROVE  Contains(file, r)
      BY DEF AcknowledgedKept
    <2>1. r \in Range(file) /\ file \in Seq(Nat)
      BY DEF Inv, TypeInv, Recent
    <2>2. PICK k \in DOMAIN file : file[k] = r
      BY <2>1 DEF Range
    <2> QED
      BY <2>1, <2>2 DEF Contains
  <1> QED
    BY <1>1, InitKeeps, StepKeeps, PTL DEF Spec

=============================================================================
