--------------------------- MODULE MetricsProofs ---------------------------
(***************************************************************************)
(* The usage series of a tenant, for any number of buckets, any page size, *)
(* range and clocks: the pages make a listing, a total adds up all that    *)
(* was listed, and the series has every window there is to report.         *)
(*                                                                         *)
(* The first thing needed is that a page is what the query says: a finite  *)
(* set of names has one order.                                             *)
(***************************************************************************)
EXTENDS Metrics, TLAPS, FiniteSetTheorems

-----------------------------------------------------------------------------
(***************************************************************************)
(* A finite set of names, in order.                                        *)
(***************************************************************************)
InOrder(s) == \A i, j \in DOMAIN s : i < j => s[i] < s[j]

\* Names in order are pairwise different.
LEMMA InOrderIsInjective ==
    ASSUME NEW S \in SUBSET Nat, NEW n \in Nat, NEW s \in [1..n -> S], InOrder(s)
    PROVE  s \in Injection(1..n, S)
  <1>1. ASSUME NEW i \in 1..n, NEW j \in 1..n, i # j PROVE s[i] # s[j]
    <2>1. i < j \/ j < i
      BY <1>1
    <2>2. s[i] \in Nat /\ s[j] \in Nat
      OBVIOUS
    <2>3. QED
      BY <2>1, <2>2 DEF InOrder
  <1>2. QED
    BY <1>1 DEF Injection, IsInjective

\* There is an order, by counting for each name those up to it, ...
LEMMA OrderExists ==
    ASSUME NEW S \in SUBSET Nat, IsFiniteSet(S)
    PROVE  \E s \in [1..Cardinality(S) -> S] : InOrder(s)
  <1>. DEFINE n == Cardinality(S)
              UpTo(x) == {y \in S : y <= x}
              rank == [x \in S |-> Cardinality(UpTo(x))]
  <1>1. n \in Nat
    BY FS_CardinalityType
  <1>2. ASSUME NEW x \in S PROVE IsFiniteSet(UpTo(x)) /\ Cardinality(UpTo(x)) \in 1..n
    <2>1. IsFiniteSet(UpTo(x)) /\ Cardinality(UpTo(x)) <= n
      BY FS_Subset
    <2>2. Cardinality(UpTo(x)) \in Nat
      BY <2>1, FS_CardinalityType
    <2>3. UpTo(x) # {}
      OBVIOUS
    <2>4. Cardinality(UpTo(x)) # 0
      BY <2>1, <2>3, FS_EmptySet
    <2>5. QED
      BY <1>1, <2>1, <2>2, <2>4
  <1>3. ASSUME NEW x \in S, NEW y \in S, x < y PROVE rank[x] < rank[y]
    <2>0. x \in Nat /\ y \in Nat /\ \A z \in S : z \in Nat
      OBVIOUS
    <2>1. /\ \A z \in UpTo(x) : z \in UpTo(y)
          /\ y \in UpTo(y) /\ y \notin UpTo(x)
      BY <1>3, <2>0
    <2>2. IsFiniteSet(UpTo(x)) /\ IsFiniteSet(UpTo(y))
          /\ Cardinality(UpTo(x)) \in 1..n /\ Cardinality(UpTo(y)) \in 1..n
      BY <1>2
    <2>3. Cardinality(UpTo(x)) <= Cardinality(UpTo(y)) /\ Cardinality(UpTo(x)) # Cardinality(UpTo(y))
      <3>. HIDE DEF UpTo
      <3>1. QED
        BY <2>1, <2>2, FS_Subset
    <2>4. rank[x] = Cardinality(UpTo(x)) /\ rank[y] = Cardinality(UpTo(y))
      OBVIOUS
    <2>. HIDE DEF UpTo, rank, n
    <2>5. QED
      BY <1>1, <2>2, <2>3, <2>4
  <1>4. rank \in [S -> 1..n]
    BY <1>2
  <1>5. rank \in Injection(S, 1..n)
    <2>1. ASSUME NEW x \in S, NEW y \in S, x # y PROVE rank[x] # rank[y]
      <3>. HIDE DEF rank, n
      <3>1. x < y \/ y < x
        BY <2>1
      <3>2. rank[x] \in 1..n /\ rank[y] \in 1..n
        BY <1>4
      <3>3. QED
        BY <1>1, <1>3, <3>1, <3>2
    <2>. HIDE DEF rank, n
    <2>2. QED
      BY <1>4, <2>1 DEF Injection, IsInjective
  <1>6. rank \in Surjection(S, 1..n)
    <2>1. IsFiniteSet(1..n) /\ Cardinality(1..n) = n
      BY <1>1, FS_Interval
    <2>2. QED
      BY <1>5, <2>1, FS_Injection
  <1>. HIDE DEF rank
  <1>. DEFINE s == [i \in 1..n |-> CHOOSE x \in S : rank[x] = i]
  <1>7. \A i \in 1..n : s[i] \in S /\ rank[s[i]] = i
    BY <1>6 DEF Surjection
  <1>8. s \in [1..n -> S]
    BY <1>7
  <1>9. ASSUME NEW i \in 1..n, NEW j \in 1..n, i < j PROVE s[i] < s[j]
    <2>. HIDE DEF s, n
    <2>1. s[i] \in Nat /\ s[j] \in Nat /\ s[i] \in S /\ s[j] \in S
      BY <1>7
    <2>2. ~(s[j] < s[i]) /\ s[i] # s[j]
      BY <1>1, <1>3, <1>7, <1>9, <2>1
    <2>3. QED
      BY <2>1, <2>2
  <1>10. InOrder(s)
    BY <1>8, <1>9 DEF InOrder
  <1>. HIDE DEF s
  <1>11. QED
    BY <1>8, <1>10

\* ... and it has every name.
LEMMA OrderIsWhole ==
    ASSUME NEW S \in SUBSET Nat, IsFiniteSet(S), NEW s \in [1..Cardinality(S) -> S], InOrder(s)
    PROVE  \A x \in S : \E i \in 1..Cardinality(S) : s[i] = x
  <1>1. Cardinality(S) \in Nat
    BY FS_CardinalityType
  <1>2. s \in Injection(1..Cardinality(S), S)
    BY <1>1, InOrderIsInjective
  <1>3. Cardinality(1..Cardinality(S)) = Cardinality(S)
    BY <1>1, FS_Interval
  <1>4. s \in Surjection(1..Cardinality(S), S)
    BY <1>2, <1>3, FS_Injection
  <1>5. QED
    BY <1>4 DEF Surjection

-----------------------------------------------------------------------------
(***************************************************************************)
(* The inductive invariant.                                                *)
(***************************************************************************)
\* What was there throughout is there, and what is there was there at some moment.
History == rows \subseteq Names /\ kept \subseteq rows /\ rows \subseteq met

\* The instants of the range asked for, as far as the present.
Grid == {x \in (from + 1)..end : (x - from) % Window = 0} \cup {end}

Asking ==
    /\ range \in Asked /\ ParseRange(range)
    /\ clock \in Nat /\ cursor \in Nat
    /\ pc \in {"list", "sample", "sum"} => from < end

\* The pages so far are in order and end at the cursor, and before it they have all
\* there was to see; the last one has the rest.
Collected ==
    /\ items \in Seq(Nat) /\ InOrder(items) /\ Answer!Listed(items) \subseteq met
    /\ pc \in {"range", "list"} =>
          /\ \A i \in DOMAIN items : items[i] <= cursor
          /\ \A x \in kept : x <= cursor => x \in Answer!Listed(items)
    /\ pc \in {"sample", "sum", "answered", "failed"} => kept \subseteq Answer!Listed(items)

\* There is a run for each listed bucket; one sampled when the service's clock had
\* come up to hilt's has the whole grid.
Sampled ==
    /\ runs \in [1..Len(items) -> [asked : BOOLEAN, at : Nat, ends : SUBSET Int]]
    /\ \A i \in DOMAIN runs : runs[i].asked /\ runs[i].at >= Now => runs[i].ends = Grid
    /\ pc \in {"sum", "answered"} => \A i \in DOMAIN runs : runs[i].asked

\* The instants that every run has.
Shared == {at \in UNION {runs[i].ends : i \in DOMAIN runs} : \A i \in DOMAIN runs : at \in runs[i].ends}

\* A total adds up all that was listed.
Summed ==
    /\ \A t \in series : t.of = items
    /\ {t.end : t \in series} = IF pc = "answered" THEN Shared ELSE {}

MetricsInv ==
    /\ pc \in {"range", "empty", "list", "sample", "sum", "answered", "failed"}
    /\ History /\ Asking /\ Collected /\ Sampled /\ Summed

-----------------------------------------------------------------------------
(***************************************************************************)
(* Times.                                                                  *)
(***************************************************************************)
\* Truncating does not turn two times round.
LEMMA TruncateKeepsOrder ==
    ASSUME NEW a \in Nat, NEW b \in Nat, a <= b
    PROVE  /\ Truncate(a) \in Nat /\ Truncate(b) \in Nat
           /\ Truncate(a) <= Truncate(b)
  <1>. DEFINE p == Truncate(a)
              q == Truncate(b)
  <1>1. /\ p \in Int /\ Second * p <= a /\ a < Second * (p + 1)
        /\ q \in Int /\ Second * q <= b /\ b < Second * (q + 1)
    BY MetricsAssumption DEF Truncate
  <1>2. p >= 0 /\ q >= 0
    BY MetricsAssumption DEF Truncate
  <1>3. ASSUME q < p PROVE FALSE
    <2>. HIDE DEF p, q
    <2>1. PICK d \in Nat : p = q + 1 + d
      <3>1. p - q - 1 \in Nat /\ p = q + 1 + (p - q - 1)
        BY <1>1, <1>3
      <3>2. QED
        BY <3>1
    <2>2. Second * p = Second * (q + 1) + Second * d
      BY <1>1, <2>1, MetricsAssumption
    <2>3. Second * d \in Nat /\ Second * p \in Int /\ Second * (q + 1) \in Int
      BY <1>1, <2>1, MetricsAssumption
    <2>4. QED
      BY <1>1, <2>2, <2>3
  <1>. HIDE DEF p, q
  <1>4. p \in Nat /\ q \in Nat /\ p <= q
    BY <1>1, <1>2, <1>3
  <1>5. QED
    BY <1>4 DEF p, q

LEMMA TimesTyped ==
    ASSUME Asking
    PROVE  /\ from \in Nat /\ end \in Nat
           /\ range[1] \in Nat /\ range[2] \in Nat
           /\ Truncate(range[2]) \in Nat /\ Truncate(Now) \in Nat
           /\ end <= Truncate(Now)
  <1>1. range \in Nat \X Nat
    BY MetricsAssumption DEF Asking
  <1>2. range[1] \in Nat /\ range[2] \in Nat /\ Now \in Nat
    BY <1>1, MetricsAssumption
  <1>3. /\ Truncate(range[1]) \in Nat /\ Truncate(range[2]) \in Nat /\ Truncate(Now) \in Nat
    BY <1>2, TruncateKeepsOrder
  <1>4. QED
    BY <1>2, <1>3 DEF from, end, clamp

LEMMA MinOfTwo ==
    ASSUME NEW a \in Int, NEW b \in Int
    PROVE  Min({a, b}) = IF a <= b THEN a ELSE b
  <1>. DEFINE m == IF a <= b THEN a ELSE b
  <1>1. m \in {a, b} /\ \A y \in {a, b} : m <= y
    OBVIOUS
  <1>2. ASSUME NEW x \in {a, b}, \A y \in {a, b} : x <= y PROVE x = m
    BY <1>2
  <1>. HIDE DEF m
  <1>3. Min({a, b}) = m
    BY <1>1, <1>2 DEF Min
  <1>4. QED
    BY <1>3 DEF m

\* A run sampled when the service's clock has come up to hilt's has the whole grid.
LEMMA SampleIsWhole ==
    ASSUME Asking, from < end
    PROVE  /\ SampleUsage(from, end) \subseteq Int
           /\ clock >= Now => SampleUsage(from, end) = Grid
  <1>. DEFINE now == Truncate(clock)
  <1>1. from \in Nat /\ end \in Nat /\ clock \in Nat /\ end <= Truncate(Now) /\ Truncate(Now) \in Nat
    BY TimesTyped DEF Asking
  <1>2. now \in Nat
    BY <1>1, TruncateKeepsOrder
  <1>3. Min({end, now}) = IF end <= now THEN end ELSE now
    <2>. HIDE DEF now
    <2>1. QED
      BY <1>1, <1>2, MinOfTwo
  <1>. DEFINE last == Min({end, now})
  <1>4. last \in Nat
    BY <1>1, <1>2, <1>3
  <1>5. SampleUsage(from, end) =
          IF last <= from THEN {}
          ELSE {t \in (from + 1)..last : (t - from) % Window = 0} \cup {last}
    BY DEF SampleUsage
  <1>6. SampleUsage(from, end) \subseteq Int
    <2>. HIDE DEF last
    <2>1. QED
      BY <1>1, <1>4, <1>5
  <1>7. ASSUME clock >= Now PROVE last = end
    <2>1. Truncate(Now) <= now
      BY <1>1, <1>7, TruncateKeepsOrder, MetricsAssumption
    <2>. HIDE DEF now
    <2>2. QED
      BY <1>1, <1>2, <1>3, <2>1
  <1>8. ASSUME clock >= Now PROVE SampleUsage(from, end) = Grid
    <2>1. last = end
      BY <1>7, <1>8
    <2>2. ~(last <= from)
      BY <1>1, <2>1
    <2>. HIDE DEF last
    <2>3. QED
      BY <1>5, <2>1, <2>2 DEF Grid
  <1>9. QED
    BY <1>6, <1>8

-----------------------------------------------------------------------------
(***************************************************************************)
(* A page.                                                                 *)
(***************************************************************************)
\* What a page is fetched from: the rows after the cursor, every one, in order.
LEMMA FoundIs ==
    ASSUME History, Asking
    PROVE  /\ found \in Seq(Nat) /\ Len(found) \in Nat /\ InOrder(found)
           /\ \A i \in 1..Len(found) : found[i] \in rows /\ found[i] > cursor
           /\ \A x \in rows : x > cursor => \E i \in 1..Len(found) : found[i] = x
  <1>. DEFINE after == {x \in rows : x > cursor}
              n == Cardinality(after)
  <1>1. after \in SUBSET Nat /\ IsFiniteSet(after)
    <2>1. after \in SUBSET Names /\ after \in SUBSET Nat
      BY MetricsAssumption DEF History
    <2>2. QED
      BY <2>1, FS_Subset, MetricsAssumption
  <1>2. n \in Nat
    BY <1>1, FS_CardinalityType
  <1>3. found = CHOOSE s \in [1..n -> after] : InOrder(s)
    BY DEF found, InOrder
  <1>4. found \in [1..n -> after] /\ InOrder(found)
    <2>. HIDE DEF after
    <2>1. \E s \in [1..n -> after] : InOrder(s)
      BY <1>1, OrderExists
    <2>2. QED
      BY <1>3, <2>1
  <1>5. \A x \in after : \E i \in 1..n : found[i] = x
    <2>. HIDE DEF after
    <2>1. QED
      BY <1>1, <1>4, OrderIsWhole
  <1>6. \A i \in 1..n : found[i] \in after
    <2>. HIDE DEF after
    <2>1. QED
      BY <1>4
  <1>7. found \in Seq(Nat) /\ Len(found) = n
    <2>1. found \in [1..n -> Nat]
      <3>. HIDE DEF after, n
      <3>1. QED
        BY <1>1, <1>4
    <2>2. found \in Seq(Nat) /\ DOMAIN found = 1..n
      <3>. HIDE DEF n
      <3>1. QED
        BY <1>2, <2>1
    <2>3. Len(found) = n
      <3>. HIDE DEF n
      <3>1. QED
        BY <1>2, <2>2
    <2>4. QED
      BY <2>2, <2>3
  <1>. HIDE DEF n
  <1>8. QED
    BY <1>2, <1>4, <1>5, <1>6, <1>7

\* The listing after a page of limit rows, k of them found.
LEMMA PageCollects ==
    ASSUME History, Asking, Collected, pc = "list",
           NEW limit \in Limits, NEW k, k = (IF Len(found) > limit THEN limit ELSE Len(found)),
           NEW to, to = nextCursor(found, limit),
           NEW list, list = items \o SubSeq(found, 1, k)
    PROVE  /\ list \in Seq(Nat) /\ InOrder(list) /\ Answer!Listed(list) \subseteq met
           /\ to \in Nat
           /\ to # NoCursor =>
                 /\ \A i \in DOMAIN list : list[i] <= to
                 /\ \A x \in kept : x <= to => x \in Answer!Listed(list)
           /\ to = NoCursor => kept \subseteq Answer!Listed(list)
  <1>. DEFINE m == Len(items)
              f == found
  <1>1. /\ f \in Seq(Nat) /\ Len(f) \in Nat
        /\ \A i \in 1..Len(f) : f[i] \in Nat /\ f[i] \in rows /\ f[i] > cursor
        /\ \A x \in rows : x > cursor => \E i \in 1..Len(f) : f[i] = x
        /\ \A i, j \in 1..Len(f) : i < j => f[i] < f[j]
    BY FoundIs, SMTT(30) DEF InOrder
  <1>2. /\ items \in Seq(Nat) /\ m \in Nat /\ cursor \in Nat /\ limit \in Nat /\ limit > 0
        /\ \A i \in 1..m : items[i] \in Nat /\ items[i] <= cursor /\ items[i] \in met
        /\ \A i, j \in 1..m : i < j => items[i] < items[j]
        /\ \A x \in kept : x <= cursor => \E i \in 1..m : items[i] = x
    <2>1. items \in Seq(Nat) /\ m \in Nat /\ cursor \in Nat /\ limit \in Nat /\ limit > 0
      BY MetricsAssumption DEF Asking, Collected
    <2>2. \A i \in 1..m : items[i] \in Nat /\ items[i] <= cursor /\ items[i] \in met
      BY <2>1, SMTT(30) DEF Collected, Answer!Listed
    <2>3. \A i, j \in 1..m : i < j => items[i] < items[j]
      BY <2>1 DEF Collected, InOrder
    <2>4. \A x \in kept : x <= cursor => \E i \in 1..m : items[i] = x
      BY DEF Collected, Answer!Listed
    <2>5. QED
      BY <2>1, <2>2, <2>3, <2>4
  <1>3. k \in 0..Len(f) /\ (Len(f) > limit => k = limit) /\ (~(Len(f) > limit) => k = Len(f))
    BY <1>1, <1>2
  <1>. HIDE DEF f
  <1>4. /\ list \in Seq(Nat) /\ Len(list) = m + k
        /\ \A i \in 1..m : list[i] = items[i]
        /\ \A i \in 1..k : list[m + i] = f[i]
    <2>1. SubSeq(f, 1, k) \in Seq(Nat) /\ Len(SubSeq(f, 1, k)) = k
          /\ \A i \in 1..k : SubSeq(f, 1, k)[i] = f[i]
      BY <1>1, <1>3
    <2>2. list = items \o SubSeq(f, 1, k)
      BY DEF f
    <2>. DEFINE page == SubSeq(f, 1, k)
    <2>. HIDE DEF page
    <2>3. list = items \o page
      BY <2>2 DEF page
    <2>4. page \in Seq(Nat) /\ Len(page) = k /\ \A i \in 1..k : page[i] = f[i]
      BY <2>1 DEF page
    <2>5. list \in Seq(Nat) /\ Len(list) = m + k
      BY <1>2, <1>3, <2>3, <2>4
    <2>6. \A i \in 1..m : list[i] = items[i]
      BY <1>2, <1>3, <2>3, <2>4
    <2>7. ASSUME NEW i \in 1..k PROVE list[m + i] = f[i]
      <3>1. m + i \in 1..(m + k) /\ m + i > m /\ m + i - m = i
        BY <1>2, <1>3
      <3>2. list[m + i] = page[m + i - m]
        BY <1>2, <1>3, <2>3, <2>4, <3>1
      <3>3. QED
        BY <2>4, <3>1, <3>2
    <2>8. QED
      BY <2>5, <2>6, <2>7
  <1>. HIDE DEF m
  <1>5. ASSUME NEW i \in 1..Len(list)
        PROVE  \/ i \in 1..m /\ list[i] = items[i]
               \/ i - m \in 1..k /\ list[i] = f[i - m] /\ i - m \in 1..Len(f)
    <2>1. CASE i <= m
      BY <1>2, <1>4, <2>1
    <2>2. CASE i > m
      <3>1. i - m \in 1..k /\ i = m + (i - m) /\ i - m \in 1..Len(f)
        BY <1>1, <1>2, <1>3, <1>4, <2>2
      <3>2. QED
        BY <1>4, <3>1
    <2>3. QED
      BY <1>2, <2>1, <2>2
  <1>6. ASSUME NEW i \in 1..Len(list), NEW j \in 1..Len(list), i < j PROVE list[i] < list[j]
    <2>1. CASE i \in 1..m /\ j \in 1..m
      BY <1>2, <1>4, <1>6, <2>1
    <2>2. CASE i \in 1..m /\ j \notin 1..m
      <3>1. list[i] = items[i] /\ list[j] = f[j - m] /\ j - m \in 1..Len(f)
        <4>1. list[i] = items[i]
          BY <1>4, <2>2
        <4>2. j - m \in 1..k /\ list[j] = f[j - m] /\ j - m \in 1..Len(f)
          BY <1>5, <2>2
        <4>3. QED
          BY <4>1, <4>2
      <3>2. list[i] <= cursor /\ list[i] \in Nat
        BY <1>2, <2>2, <3>1
      <3>3. list[j] > cursor /\ list[j] \in Nat
        <4>1. f[j - m] > cursor /\ f[j - m] \in Nat
          BY <1>1, <3>1
        <4>2. QED
          BY <3>1, <4>1
      <3>4. QED
        BY <1>2, <3>2, <3>3, SMTT(30)
    <2>3. CASE i \notin 1..m
      <3>1. j \notin 1..m
        BY <1>2, <1>6, <2>3
      <3>2. i - m \in 1..Len(f) /\ j - m \in 1..Len(f) /\ i - m < j - m
        BY <1>2, <1>5, <1>6, <2>3, <3>1
      <3>3. f[i - m] < f[j - m]
        BY <1>1, <3>2
      <3>4. QED
        BY <1>5, <2>3, <3>1, <3>3
    <2>4. QED
      BY <2>1, <2>2, <2>3
  <1>7. InOrder(list)
    <2>1. DOMAIN list = 1..Len(list)
      BY <1>4
    <2>2. QED
      BY <1>6, <2>1 DEF InOrder
  <1>8. Answer!Listed(list) \subseteq met
    <2>1. ASSUME NEW i \in 1..Len(list) PROVE list[i] \in met
      <3>1. CASE i \in 1..m
        BY <1>2, <1>4, <3>1
      <3>2. CASE i \notin 1..m
        BY <1>1, <1>5, <3>2 DEF History
      <3>3. QED
        BY <3>1, <3>2
    <2>2. QED
      BY <2>1 DEF Answer!Listed
  <1>9. /\ to = IF Len(f) > limit THEN f[limit] ELSE 0
        /\ Len(f) > limit => limit \in 1..Len(f) /\ f[limit] \in Nat /\ f[limit] > 0
    <2>1. to = IF Len(f) > limit THEN f[limit] ELSE 0
      BY DEF nextCursor, NoCursor, f
    <2>2. Len(f) > limit => limit \in 1..Len(f)
      BY <1>1, <1>2
    <2>3. QED
      BY <1>1, <1>2, <2>1, <2>2
  <1>10. to \in Nat /\ (to = NoCursor <=> ~(Len(f) > limit))
    BY <1>9 DEF NoCursor
  \* What was found at all is in the listing, if it is among the first k.
  <1>11. \A i \in 1..k : f[i] \in Answer!Listed(list)
    <2>1. \A i \in 1..k : m + i \in 1..Len(list)
      BY <1>2, <1>3, <1>4
    <2>2. QED
      BY <1>4, <2>1 DEF Answer!Listed
  <1>12. \A x \in kept : x <= cursor => x \in Answer!Listed(list)
    <2>1. \A i \in 1..m : i \in 1..Len(list)
      BY <1>2, <1>3, <1>4
    <2>2. QED
      BY <1>2, <1>4, <2>1 DEF Answer!Listed
  <1>13. ASSUME to # NoCursor, NEW i \in DOMAIN list PROVE list[i] <= to
    <2>1. Len(f) > limit /\ k = limit /\ to = f[limit] /\ limit \in 1..Len(f) /\ to > cursor /\ to \in Nat
      BY <1>1, <1>3, <1>9, <1>10, <1>13
    <2>2. i \in 1..Len(list)
      BY <1>4
    <2>3. CASE i \in 1..m
      BY <1>2, <1>4, <2>1, <2>3
    <2>4. CASE i \notin 1..m
      <3>1. i - m \in 1..limit /\ list[i] = f[i - m] /\ i - m \in 1..Len(f)
        BY <1>5, <2>1, <2>2, <2>4
      <3>2. f[i - m] <= f[limit]
        <4>1. i - m = limit \/ i - m < limit
          BY <1>2, <3>1
        <4>2. f[i - m] \in Nat /\ f[limit] \in Nat
          BY <1>1, <2>1, <3>1
        <4>3. QED
          BY <1>1, <2>1, <3>1, <4>1, <4>2
      <3>3. QED
        BY <2>1, <3>1, <3>2
    <2>5. QED
      BY <2>3, <2>4
  <1>14. ASSUME NEW x \in kept, x > cursor
         PROVE  \E i \in 1..Len(f) : f[i] = x
    BY <1>1, <1>14 DEF History
  <1>15. \A x \in kept : x \in Nat
    BY MetricsAssumption DEF History
  <1>16. ASSUME to # NoCursor, NEW x \in kept, x <= to PROVE x \in Answer!Listed(list)
    <2>1. Len(f) > limit /\ k = limit /\ to = f[limit] /\ limit \in 1..Len(f)
      BY <1>3, <1>9, <1>10, <1>16
    <2>2. CASE x <= cursor
      BY <1>12, <2>2
    <2>3. CASE x > cursor
      <3>1. PICK i \in 1..Len(f) : f[i] = x
        BY <1>14, <2>3
      <3>2. ~(limit < i)
        <4>1. f[limit] \in Nat /\ f[i] \in Nat /\ f[i] <= f[limit]
          BY <1>1, <1>16, <2>1, <3>1
        <4>2. QED
          BY <1>1, <2>1, <3>1, <4>1
      <3>3. i \in 1..k
        BY <1>1, <1>2, <2>1, <3>2
      <3>4. QED
        BY <1>11, <3>1, <3>3
    <2>4. QED
      BY <1>2, <1>15, <2>2, <2>3
  <1>17. ASSUME to = NoCursor, NEW x \in kept PROVE x \in Answer!Listed(list)
    <2>1. k = Len(f)
      BY <1>3, <1>10, <1>17
    <2>2. x <= cursor \/ x > cursor
      BY <1>2, <1>15
    <2>3. QED
      BY <1>11, <1>12, <1>14, <2>1, <2>2
  <1>18. QED
    BY <1>4, <1>7, <1>8, <1>10, <1>13, <1>16, <1>17

-----------------------------------------------------------------------------
(***************************************************************************)
(* The steps.                                                              *)
(***************************************************************************)
LEMMA InitMetrics == Init => MetricsInv
  <1>. SUFFICES ASSUME Init PROVE MetricsInv
    OBVIOUS
  <1>1. History
    BY DEF Init, History
  <1>2. Asking
    BY MetricsAssumption DEF Init, Asking, NoCursor
  <1>3. Collected
    BY <1>1, MetricsAssumption DEF Init, Collected, InOrder, Answer!Listed, History, NoCursor
  <1>4. Sampled
    BY DEF Init, Sampled
  <1>5. Summed
    BY DEF Init, Summed
  <1>6. QED
    BY <1>1, <1>2, <1>3, <1>4, <1>5 DEF Init, MetricsInv

\* A step that leaves the range alone keeps its bounds and its grid.
LEMMA RangeStays ==
    ASSUME range' = range
    PROVE  from' = from /\ end' = end /\ Grid' = Grid
  BY DEF from, end, Grid

LEMMA RowsMove ==
    ASSUME MetricsInv, CreateBucket \/ DeleteBucket
    PROVE  MetricsInv'
  <1>1. /\ rows' \subseteq Names /\ kept' \subseteq rows' /\ rows' \subseteq met'
        /\ kept' \subseteq kept /\ met \subseteq met'
    BY DEF MetricsInv, History, CreateBucket, DeleteBucket
  <1>2. pc = "list" /\ UNCHANGED <<range, items, cursor, runs, clock, pc, series>>
    BY DEF CreateBucket, DeleteBucket
  <1>3. Asking'
    BY <1>2 DEF MetricsInv, Asking, from, end
  <1>4. Collected'
    BY <1>1, <1>2 DEF MetricsInv, Collected, InOrder, Answer!Listed
  <1>5. Sampled'
    BY <1>2, RangeStays DEF MetricsInv, Sampled
  <1>6. Summed'
    BY <1>2 DEF MetricsInv, Summed
  <1>7. QED
    BY <1>1, <1>2, <1>3, <1>4, <1>5, <1>6 DEF MetricsInv, History

LEMMA ClockMoves ==
    ASSUME MetricsInv, Tick
    PROVE  MetricsInv'
  <1>1. /\ pc = "sample" /\ clock' = clock + 1
        /\ UNCHANGED <<rows, kept, met, range, items, cursor, runs, pc, series>>
    BY DEF Tick
  <1>2. Asking'
    BY <1>1 DEF MetricsInv, Asking, from, end
  <1>3. Collected'
    BY <1>1 DEF MetricsInv, Collected, InOrder, Answer!Listed
  <1>4. Sampled'
    BY <1>1, RangeStays DEF MetricsInv, Sampled
  <1>5. QED
    BY <1>1, <1>2, <1>3, <1>4 DEF MetricsInv, History, Summed, Shared

LEMMA RangeChecked ==
    ASSUME MetricsInv, CheckRange
    PROVE  MetricsInv'
  <1>1. /\ pc = "range" /\ pc' = IF end > from THEN "list" ELSE "empty"
        /\ UNCHANGED <<rows, kept, met, range, items, cursor, runs, clock, series>>
    BY DEF CheckRange
  <1>2. Asking'
    BY <1>1, RangeStays, TimesTyped DEF MetricsInv, Asking
  <1>3. Collected'
    BY <1>1 DEF MetricsInv, Collected, InOrder, Answer!Listed
  <1>4. Sampled'
    BY <1>1, RangeStays DEF MetricsInv, Sampled
  <1>5. QED
    BY <1>1, <1>2, <1>3, <1>4 DEF MetricsInv, History, Summed, Shared

LEMMA PageRead ==
    ASSUME MetricsInv, Page
    PROVE  MetricsInv'
  <1>1. PICK limit \in Limits :
          /\ items' = items \o SubSeq(found, 1, IF Len(found) > limit THEN limit ELSE Len(found))
          /\ cursor' = nextCursor(found, limit)
    BY DEF Page
  <1>2. /\ pc = "list"
        /\ pc' = IF cursor' # NoCursor THEN "list"
                 ELSE IF items' = <<>> THEN "answered" ELSE "sample"
        /\ runs' = [i \in 1..Len(items') |-> NoRun]
        /\ UNCHANGED <<rows, kept, met, range, clock, series>>
    BY DEF Page
  <1>3. /\ items' \in Seq(Nat) /\ InOrder(items') /\ Answer!Listed(items') \subseteq met
        /\ cursor' \in Nat
        /\ cursor' # NoCursor =>
              /\ \A i \in DOMAIN items' : items'[i] <= cursor'
              /\ \A x \in kept : x <= cursor' => x \in Answer!Listed(items')
        /\ cursor' = NoCursor => kept \subseteq Answer!Listed(items')
    <2>. DEFINE k == IF Len(found) > limit THEN limit ELSE Len(found)
                list == items'
                to == cursor'
    <2>1. list = items \o SubSeq(found, 1, k) /\ to = nextCursor(found, limit)
      BY <1>1
    <2>. HIDE DEF list, to
    <2>2. /\ list \in Seq(Nat) /\ InOrder(list) /\ Answer!Listed(list) \subseteq met
          /\ to \in Nat
          /\ to # NoCursor =>
                /\ \A i \in DOMAIN list : list[i] <= to
                /\ \A x \in kept : x <= to => x \in Answer!Listed(list)
          /\ to = NoCursor => kept \subseteq Answer!Listed(list)
      BY <1>2, <2>1, PageCollects DEF MetricsInv
    <2>3. QED
      BY <2>2 DEF list, to
  <1>4. /\ pc' \in {"list", "answered", "sample"}
        /\ pc' = "list" <=> cursor' # NoCursor
        /\ pc' = "answered" => items' = <<>>
    BY <1>2
  <1>5. Asking'
    BY <1>2, <1>3, <1>4, RangeStays DEF MetricsInv, Asking
  <1>6. Collected'
    BY <1>2, <1>3, <1>4 DEF Collected, InOrder, Answer!Listed
  <1>7. runs' \in [1..Len(items') -> [asked : BOOLEAN, at : Nat, ends : SUBSET Int]]
        /\ \A i \in DOMAIN runs' : ~runs'[i].asked
        /\ (items' = <<>> => runs' = <<>> /\ DOMAIN runs' = {})
    BY <1>2, <1>3 DEF NoRun
  <1>8. Sampled'
    BY <1>4, <1>7 DEF Sampled
  <1>9. Summed'
    <2>1. series = {}
      BY <1>2 DEF MetricsInv, Summed
    <2>2. pc' = "answered" => Shared' = {}
      BY <1>4, <1>7 DEF Shared
    <2>3. QED
      BY <1>2, <2>1, <2>2 DEF Summed
  <1>10. QED
    BY <1>2, <1>4, <1>5, <1>6, <1>8, <1>9 DEF MetricsInv, History

LEMMA RunSampled ==
    ASSUME MetricsInv, Sample
    PROVE  MetricsInv'
  <1>1. PICK i \in DOMAIN runs :
          runs' = [runs EXCEPT ![i] = [asked |-> TRUE, at |-> clock,
                                       ends |-> SampleUsage(from, end)]]
    BY DEF Sample
  <1>2. /\ pc = "sample"
        /\ pc' = IF \A j \in DOMAIN runs : runs'[j].asked THEN "sum" ELSE "sample"
        /\ UNCHANGED <<rows, kept, met, range, items, cursor, clock, series>>
    BY DEF Sample
  <1>3. Asking'
    BY <1>2, RangeStays DEF MetricsInv, Asking
  <1>4. Collected'
    BY <1>2 DEF MetricsInv, Collected, InOrder, Answer!Listed
  <1>5. Sampled'
    <2>1. /\ SampleUsage(from, end) \subseteq Int
          /\ clock >= Now => SampleUsage(from, end) = Grid
      BY <1>2, SampleIsWhole DEF MetricsInv, Asking
    <2>2. runs' \in [1..Len(items) -> [asked : BOOLEAN, at : Nat, ends : SUBSET Int]]
      BY <1>1, <2>1 DEF MetricsInv, Asking, Sampled
    <2>3. ASSUME NEW j \in DOMAIN runs', runs'[j].asked, runs'[j].at >= Now
          PROVE  runs'[j].ends = Grid
      BY <1>1, <2>1, <2>3 DEF MetricsInv, Sampled
    <2>4. DOMAIN runs' = DOMAIN runs
      BY <1>1
    <2>5. QED
      BY <1>2, <2>2, <2>3, <2>4, RangeStays DEF Sampled
  <1>6. Summed'
    BY <1>2 DEF MetricsInv, Summed
  <1>7. QED
    BY <1>2, <1>3, <1>4, <1>5, <1>6 DEF MetricsInv, History

LEMMA SampleFailed ==
    ASSUME MetricsInv, SampleFails
    PROVE  MetricsInv'
  <1>1. /\ pc = "sample" /\ pc' = "failed"
        /\ UNCHANGED <<rows, kept, met, range, items, cursor, runs, clock, series>>
    BY DEF SampleFails
  <1>2. Asking'
    BY <1>1, RangeStays DEF MetricsInv, Asking
  <1>3. Collected'
    BY <1>1 DEF MetricsInv, Collected, InOrder, Answer!Listed
  <1>4. Sampled'
    BY <1>1, RangeStays DEF MetricsInv, Sampled
  <1>5. QED
    BY <1>1, <1>2, <1>3, <1>4 DEF MetricsInv, History, Summed

\* An instant is reported when every run has it: as many runs as there are are all of them.
LEMMA ReportedIs ==
    ASSUME Collected, Sampled, NEW at
    PROVE  /\ reported(at) <=> \A i \in DOMAIN runs : at \in runs[i].ends
           /\ reported(at) => total(at) = [end |-> at, of |-> items]
  <1>1. /\ Len(items) \in Nat /\ DOMAIN runs = 1..Len(items) /\ Len(runs) = Len(items)
        /\ items = [i \in 1..Len(items) |-> items[i]]
    BY DEF Collected, Sampled
  <1>2. IsFiniteSet(DOMAIN runs) /\ Cardinality(DOMAIN runs) = Len(runs)
    <2>. DEFINE n == Len(items)
    <2>1. n \in Nat /\ DOMAIN runs = 1..n /\ Len(runs) = n
      BY <1>1
    <2>. HIDE DEF n
    <2>2. IsFiniteSet(1..n) /\ Cardinality(1..n) = n
      BY <2>1, FS_Interval
    <2>3. QED
      BY <2>1, <2>2
  <1>3. reported(at) <=> counted(at) = DOMAIN runs
    <2>1. counted(at) \in SUBSET DOMAIN runs
      BY DEF counted
    <2>2. QED
      BY <1>2, <2>1, FS_Subset DEF reported
  <1>4. counted(at) = DOMAIN runs <=> \A i \in DOMAIN runs : at \in runs[i].ends
    BY DEF counted
  <1>5. counted(at) = DOMAIN runs => total(at) = [end |-> at, of |-> items]
    BY <1>1 DEF total
  <1>6. QED
    BY <1>3, <1>4, <1>5

LEMMA SeriesSummed ==
    ASSUME MetricsInv, sum
    PROVE  MetricsInv'
  <1>1. /\ pc = "sum" /\ pc' = "answered"
        /\ series' = {total(at) : at \in {t \in UNION {runs[i].ends : i \in DOMAIN runs} :
                                             reported(t)}}
        /\ UNCHANGED <<rows, kept, met, range, items, cursor, runs, clock>>
    BY DEF sum
  <1>2. Asking'
    BY <1>1, RangeStays DEF MetricsInv, Asking
  <1>3. Collected'
    BY <1>1 DEF MetricsInv, Collected, InOrder, Answer!Listed
  <1>4. Sampled'
    BY <1>1, RangeStays DEF MetricsInv, Sampled
  <1>5. series' = {[end |-> at, of |-> items] : at \in Shared}
    <2>1. series' = {total(at) : at \in Shared}
      BY <1>1, ReportedIs DEF MetricsInv, Shared
    <2>2. \A at \in Shared : total(at) = [end |-> at, of |-> items]
      BY ReportedIs DEF MetricsInv, Shared
    <2>3. QED
      BY <2>1, <2>2
  <1>6. Shared' = Shared
    BY <1>1 DEF Shared
  <1>7. Summed'
    <2>1. \A t \in series' : t.of = items
      BY <1>5
    <2>2. {t.end : t \in series'} = Shared
      <3>1. ASSUME NEW t \in series' PROVE t.end \in Shared
        BY <1>5
      <3>2. ASSUME NEW at \in Shared PROVE \E t \in series' : t.end = at
        <4>1. [end |-> at, of |-> items] \in series' /\ [end |-> at, of |-> items].end = at
          BY <1>5
        <4>2. QED
          BY <4>1
      <3>3. QED
        BY <3>1, <3>2
    <2>3. QED
      BY <1>1, <1>6, <2>1, <2>2 DEF Summed
  <1>8. QED
    BY <1>1, <1>2, <1>3, <1>4, <1>7 DEF MetricsInv, History

LEMMA NextMetrics == MetricsInv /\ [Next]_vars => MetricsInv'
  <1>. SUFFICES ASSUME MetricsInv, [Next]_vars PROVE MetricsInv'
    OBVIOUS
  <1>1. CASE UNCHANGED vars
    <2>1. UNCHANGED <<rows, kept, met, range, items, cursor, runs, clock, pc, series>>
      BY <1>1 DEF vars
    <2>2. History' /\ Asking'
      BY <2>1, RangeStays DEF MetricsInv, History, Asking
    <2>3. Collected'
      BY <2>1 DEF MetricsInv, Collected, InOrder, Answer!Listed
    <2>4. Sampled'
      BY <2>1, RangeStays DEF MetricsInv, Sampled
    <2>5. Summed'
      <3>1. Shared' = Shared
        BY <2>1 DEF Shared
      <3>2. QED
        BY <2>1, <3>1 DEF MetricsInv, Summed
    <2>6. QED
      BY <2>1, <2>2, <2>3, <2>4, <2>5 DEF MetricsInv
  <1>2. QED
    BY <1>1, RowsMove, ClockMoves, RangeChecked, PageRead, RunSampled, SampleFailed, SeriesSummed
       DEF Next

\* The invariant holds of every request, whatever is asked for, in pages of whatever
\* size, and however the two clocks and the table go on.
THEOREM ListedAndSummed == Spec => []MetricsInv
  BY InitMetrics, NextMetrics, PTL DEF Spec

-----------------------------------------------------------------------------
(***************************************************************************)
(* What it is for.                                                         *)
(***************************************************************************)
\* A total adds up every listed bucket once: the listing has no name twice and all that
\* was there throughout (Collect, and the sum over the runs that reached an instant).
THEOREM TotalsAreAlwaysWhole == Spec => []TotalsAreWhole
  <1>1. MetricsInv => TotalsAreWhole
    <2>. SUFFICES ASSUME MetricsInv, NEW t \in series, NEW b \in kept
                  PROVE  Cardinality({i \in DOMAIN t.of : t.of[i] = b}) = 1
      BY DEF TotalsAreWhole
    <2>1. t.of = items /\ items \in Seq(Nat) /\ pc = "answered"
      BY DEF MetricsInv, Summed, Collected
    <2>2. PICK i \in 1..Len(items) : items[i] = b
      BY <2>1 DEF MetricsInv, Collected, Answer!Listed
    <2>3. ASSUME NEW j \in DOMAIN items, items[j] = b PROVE j = i
      <3>1. i \in DOMAIN items /\ j \in Nat /\ i \in Nat /\ b \in Nat
        BY <2>1, <2>2
      <3>2. ~(i < j) /\ ~(j < i)
        BY <2>2, <2>3, <3>1 DEF MetricsInv, Collected, InOrder
      <3>3. QED
        BY <3>1, <3>2
    <2>4. {j \in DOMAIN t.of : t.of[j] = b} = {i}
      BY <2>1, <2>2, <2>3
    <2>5. QED
      BY <2>4, FS_Singleton
  <1>2. QED
    BY <1>1, ListedAndSummed, PTL

\* The series has every window of the range up to the present and the last instant, and
\* no other: the end is cut to hilt's clock before the runs are asked (clamp), so that a
\* service whose clock goes on between the calls cuts none of them anywhere else.
THEOREM SeriesIsAlwaysComplete == Spec => []SeriesIsComplete
  <1>1. MetricsInv => SeriesIsComplete
    <2>. DEFINE last == Min({Truncate(range[2]), Truncate(Now)})
    <2>. SUFFICES ASSUME MetricsInv, pc = "answered", items # <<>>,
                         \A i \in DOMAIN runs : runs[i].at >= Now
                  PROVE  {t.end : t \in series} =
                           {x \in (from + 1)..last : (x - from) % Window = 0} \cup {last}
      BY DEF SeriesIsComplete
    <2>1. last = end
      <3>1. Truncate(range[2]) \in Int /\ Truncate(Now) \in Int
        BY TimesTyped DEF MetricsInv
      <3>2. last = IF Truncate(range[2]) <= Truncate(Now) THEN Truncate(range[2]) ELSE Truncate(Now)
        BY <3>1, MinOfTwo
      <3>3. QED
        BY <3>1, <3>2 DEF end, clamp
    <2>2. \A i \in DOMAIN runs : runs[i].ends = Grid
      BY DEF MetricsInv, Sampled
    <2>3. DOMAIN runs # {}
      <3>1. Len(items) \in Nat /\ Len(items) # 0 /\ DOMAIN runs = 1..Len(items)
        BY DEF MetricsInv, Collected, Sampled
      <3>2. 1 \in 1..Len(items)
        BY <3>1
      <3>3. QED
        BY <3>1, <3>2
    <2>4. Shared = Grid
      BY <2>2, <2>3 DEF Shared
    <2>5. {t.end : t \in series} = Grid
      BY <2>4 DEF MetricsInv, Summed
    <2>. HIDE DEF last
    <2>6. QED
      BY <2>1, <2>5 DEF Grid
  <1>2. QED
    BY <1>1, ListedAndSummed, PTL

\* The pages of one listing, read one after another while buckets come and go, are one
\* answer of Listing: it is given with the last page, and every step before it is a row
\* inserted or removed, or nothing.
THEOREM PagesAreAListing == Spec => PagesMakeAListing
  <1>1. Init => Answer!Init
    BY DEF Init, Answer!Init, Answer!NoAnswer
  <1>2. MetricsInv /\ MetricsInv' /\ [Next]_vars => [Answer!Next]_(Answer!listing)
    <2>. SUFFICES ASSUME MetricsInv, MetricsInv', [Next]_vars
                  PROVE  [Answer!Next]_(Answer!listing)
      OBVIOUS
    <2>1. CASE CreateBucket
      BY <2>1 DEF CreateBucket, MetricsInv, History, Answer!Next, Answer!Insert, Answer!Write
    <2>2. CASE DeleteBucket
      BY <2>2 DEF DeleteBucket, MetricsInv, History, Answer!Next, Answer!Remove, Answer!Write
    <2>3. CASE Page
      <3>1. pc = "list" /\ UNCHANGED <<rows, kept, met>>
        BY <2>3 DEF Page
      <3>2. CASE pc' = "list"
        BY <3>1, <3>2 DEF Answer!listing
      <3>3. CASE pc' # "list"
        <4>1. pc' \in {"answered", "sample"}
          BY <2>3, <3>3 DEF Page
        <4>2. Answer!Ascending(items') /\ kept' \subseteq Answer!Listed(items')
              /\ Answer!Listed(items') \subseteq met'
          BY <4>1 DEF MetricsInv, Collected, InOrder, Answer!Ascending
        <4>3. QED
          BY <3>1, <4>1, <4>2 DEF Answer!Next, Answer!Answer
      <3>4. QED
        BY <3>2, <3>3
    <2>4. CASE CheckRange
      BY <2>4 DEF CheckRange, Answer!listing
    <2>5. CASE Tick \/ Sample \/ SampleFails \/ sum
      <3>1. UNCHANGED <<rows, kept, met, items>>
            /\ pc \notin {"range", "empty", "list"} /\ pc' \notin {"range", "empty", "list"}
        BY <2>5 DEF Tick, Sample, SampleFails, sum
      <3>2. QED
        BY <3>1 DEF Answer!listing
    <2>6. CASE UNCHANGED vars
      BY <2>6 DEF vars, Answer!listing
    <2>7. QED
      BY <2>1, <2>2, <2>3, <2>4, <2>5, <2>6 DEF Next
  <1>3. QED
    BY <1>1, <1>2, ListedAndSummed, PTL DEF Spec, PagesMakeAListing, Answer!Spec
=============================================================================
