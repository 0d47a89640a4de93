--------------------------- MODULE AriBatchProofs ---------------------------
(***************************************************************************)
(* Proofs about the batch builder, for any calendar, weeks, fields, values  *)
(* and size of a chunk: the entries it builds say what they were built      *)
(* from.  The argument follows the code from the encodings of one span up   *)
(* to the chunks of a batch; at each level it says of a list of entries     *)
(* what the last of those that cover a date carries.                        *)
(***************************************************************************)
EXTENDS AriBatch, FiniteSetTheorems, TLAPS

-----------------------------------------------------------------------------
(* Numbers, and functions defined step by step *)

\* Any set of naturals has a least one.
LEMMA Least ==
  ASSUME NEW T \in SUBSET Nat, T # {}
  PROVE  \E m \in T : \A k \in T : m <= k
  <1>1. PICK x \in T : \A y \in T : ~ (<<y, x>> \in OpToRel(<, Nat))
    BY WFMin, NatLessThanWellFounded
  <1>2. \A y \in T : ~ (y < x)
    BY <1>1 DEF OpToRel
  <1>3. \A k \in T : k \in Nat /\ x \in Nat
    OBVIOUS
  <1> QED
    BY <1>2, <1>3

\* Any set of numbers up to n has a greatest one.
LEMMA Greatest ==
  ASSUME NEW n \in Nat, NEW T \in SUBSET (0..n), T # {}
  PROVE  \E m \in T : \A k \in T : k <= m
  <1> DEFINE U == {n - i : i \in T}
  <1>0. \A i \in T : i \in Int /\ n - i \in Nat
    OBVIOUS
  <1>1. U \in SUBSET Nat /\ U # {}
    BY <1>0
  <1>2. PICK u \in U : \A v \in U : u <= v
    BY <1>1, Least
  <1>3. PICK i \in T : u = n - i
    BY <1>2
  <1>4. \A k \in T : u <= n - k
    BY <1>2
  <1>5. \A k \in T : n - i <= n - k => k <= i
    BY <1>0
  <1> QED
    BY <1>3, <1>4, <1>5

\* What Min and Max choose of a set of numbers up to n.
LEMMA MinMax ==
  ASSUME NEW n \in Nat, NEW T \in SUBSET (0..n), T # {}
  PROVE  /\ Min(T) \in T /\ \A k \in T : Min(T) <= k
         /\ Max(T) \in T /\ \A k \in T : k <= Max(T)
  <1>1. T \in SUBSET Nat
    OBVIOUS
  <1>2. \E m \in T : \A k \in T : m <= k
    BY <1>1, Least
  <1>3. \E m \in T : \A k \in T : m >= k
    <2>1. PICK m \in T : \A k \in T : k <= m
      BY Greatest
    <2>2. \A k \in T : k \in Int /\ m \in Int
      OBVIOUS
    <2> QED
      BY <2>1, <2>2
  <1>4. Min(T) \in T /\ \A k \in T : Min(T) <= k
    BY <1>2 DEF Min
  <1>5. Max(T) \in T /\ \A k \in T : Max(T) >= k
    BY <1>3 DEF Max
  <1> HIDE DEF Max
  <1>6. \A k \in T : \A m \in T : m >= k => k <= m
    BY <1>1
  <1> QED
    BY <1>4, <1>5, <1>6

\* A set of numbers that has lo and goes from each one to the next up to n has them all.
LEMMA GoesOn ==
  ASSUME NEW lo \in Nat, NEW n \in Nat, NEW P,
         lo \in P, \A i \in lo..n : i \in P /\ i < n => i + 1 \in P
  PROVE  \A i \in lo..n : i \in P
  <1> SUFFICES ASSUME NEW bad \in lo..n, bad \notin P PROVE FALSE
    OBVIOUS
  <1> DEFINE T == {i \in lo..n : i \notin P}
  <1>1. T \in SUBSET Nat /\ T # {}
    OBVIOUS
  <1>2. PICK m \in T : \A k \in T : m <= k
    BY <1>1, Least
  <1>3. m \in lo..n /\ m # lo
    BY <1>2
  <1>4. m - 1 \in lo..n /\ m - 1 \notin T
    BY <1>2, <1>3
  <1>5. m - 1 \in P /\ m - 1 < n /\ (m - 1) + 1 = m
    BY <1>3, <1>4
  <1> QED
    BY <1>2, <1>4, <1>5

\* The function f starts with a at lo and takes the step h from each value to the next.
Stepwise(f, lo, n, a, h) == \A i \in lo..n : f[i] = IF i = lo THEN a ELSE h[<<i, f[i - 1]>>]

\* A function defined from lo on, each value from the one before, is there.
LEMMA StepByStep ==
  ASSUME NEW lo \in Nat, NEW n \in Nat, NEW V, NEW a \in V, NEW h \in [(lo..n) \X V -> V]
  PROVE  \E f \in [lo..n -> V] : Stepwise(f, lo, n, a, h)
  <1> USE DEF Stepwise
  <1> DEFINE Upto(k, f) == \A i \in lo..k : f[i] = IF i = lo THEN a ELSE h[<<i, f[i - 1]>>]
             P == {k \in lo..n : \E f \in [lo..n -> V] : Upto(k, f)}
  <1>1. CASE lo > n
    <2>1. lo..n = {}
      BY <1>1
    <2>2. [i \in lo..n |-> a] \in [lo..n -> V]
      OBVIOUS
    <2> QED
      BY <2>1, <2>2
  <1>2. CASE lo <= n
    <2>1. lo \in P
      <3>1. [i \in lo..n |-> a] \in [lo..n -> V]
        OBVIOUS
      <3>2. Upto(lo, [i \in lo..n |-> a]) /\ lo \in lo..n
        BY <1>2
      <3> HIDE DEF Upto
      <3> QED
        BY <3>1, <3>2
    <2>2. ASSUME NEW k \in lo..n, k \in P, k < n PROVE k + 1 \in P
      <3>1. PICK f \in [lo..n -> V] : Upto(k, f)
        BY <2>2
      <3> DEFINE g == [f EXCEPT ![k + 1] = h[<<k + 1, f[k]>>]]
      <3>2. /\ k + 1 \in lo..n /\ f[k] \in V /\ <<k + 1, f[k]>> \in (lo..n) \X V
            /\ (k + 1) - 1 = k /\ k + 1 # lo
        BY <2>2
      <3>3. g \in [lo..n -> V]
        BY <3>2
      <3>4. \A i \in lo..k : g[i] = f[i] /\ (i # lo => g[i - 1] = f[i - 1])
        BY <2>2
      <3>5. g[k + 1] = h[<<k + 1, g[k]>>]
        BY <3>2
      <3>6. \A i \in lo..(k + 1) : i \in lo..k \/ i = k + 1
        BY <2>2
      <3> HIDE DEF g
      <3>7. ASSUME NEW i \in lo..(k + 1) PROVE g[i] = IF i = lo THEN a ELSE h[<<i, g[i - 1]>>]
        <4>1. CASE i = k + 1
          BY <4>1, <3>2, <3>5
        <4>2. CASE i \in lo..k
          <5>1. f[i] = IF i = lo THEN a ELSE h[<<i, f[i - 1]>>]
            BY <3>1, <4>2
          <5> QED
            BY <3>4, <4>2, <5>1
        <4> QED
          BY <3>6, <4>1, <4>2
      <3>8. Upto(k + 1, g)
        BY <3>7
      <3> HIDE DEF Upto
      <3> QED
        BY <3>2, <3>3, <3>8
    <2> HIDE DEF P
    <2>3. \A i \in lo..n : i \in P
      BY <2>1, <2>2, GoesOn
    <2>4. n \in P
      BY <1>2, <2>3
    <2>5. PICK f \in [lo..n -> V] : Upto(n, f)
      BY <2>4 DEF P
    <2> QED
      BY <2>5
  <1> QED
    BY <1>1, <1>2

-----------------------------------------------------------------------------
(* Lists of entries *)

\* One of the list is in G; the last one in G is in R as well.
Hits(s, G) == \E i \in DOMAIN s : s[i] \in G

Right(s, G, R) ==
  \A i \in DOMAIN s : s[i] \in G /\ (\A j \in DOMAIN s : j > i => s[j] \notin G) => s[i] \in R

\* A list after another one.
LEMMA Concatenated ==
  ASSUME NEW X, NEW s \in Seq(X), NEW t \in Seq(X), NEW G, NEW R
  PROVE  /\ s \o t \in Seq(X)
         /\ Right(s, G, R) /\ Right(t, G, R) => Right(s \o t, G, R)
         /\ Hits(s \o t, G) <=> Hits(s, G) \/ Hits(t, G)
  <1> DEFINE u == s \o t
             a == Len(s)
             b == Len(t)
  <1>1. /\ u \in Seq(X) /\ a \in Nat /\ b \in Nat
        /\ DOMAIN s = 1..a /\ DOMAIN t = 1..b /\ DOMAIN u = 1..(a + b)
        /\ \A i \in 1..a : u[i] = s[i]
        /\ \A i \in 1..b : u[a + i] = t[i]
    OBVIOUS
  <1>2. \A i \in 1..(a + b) : i \in 1..a \/ (i - a \in 1..b /\ i = a + (i - a))
    BY <1>1
  <1> HIDE DEF u, a, b
  <1>3. ASSUME Right(s, G, R), Right(t, G, R) PROVE Right(u, G, R)
    <2> SUFFICES ASSUME NEW i \in 1..(a + b), u[i] \in G,
                        \A j \in 1..(a + b) : j > i => u[j] \notin G
                 PROVE  u[i] \in R
      BY <1>1 DEF Right
    <2>1. CASE i \in 1..a
      <3>1. s[i] \in G /\ \A j \in 1..a : j > i => s[j] \notin G
        BY <1>1, <2>1
      <3> QED
        BY <1>1, <1>3, <2>1, <3>1 DEF Right
    <2>2. CASE i - a \in 1..b
      <3>1. t[i - a] \in G /\ u[i] = t[i - a]
        BY <1>1, <1>2, <2>2
      <3>2. ASSUME NEW j \in 1..b, j > i - a PROVE t[j] \notin G
        <4>1. a + j \in 1..(a + b) /\ a + j > i
          BY <1>1, <3>2
        <4> QED
          BY <1>1, <4>1
      <3> QED
        BY <1>1, <1>3, <2>2, <3>1, <3>2 DEF Right
    <2> QED
      BY <1>2, <2>1, <2>2
  <1>4. ASSUME Hits(u, G) PROVE Hits(s, G) \/ Hits(t, G)
    <2>1. PICK i \in 1..(a + b) : u[i] \in G
      BY <1>1, <1>4 DEF Hits
    <2>2. CASE i \in 1..a
      BY <1>1, <2>1, <2>2 DEF Hits
    <2>3. CASE i - a \in 1..b
      <3>1. t[i - a] \in G
        BY <1>1, <1>2, <2>1, <2>3
      <3> QED
        BY <1>1, <2>3, <3>1 DEF Hits
    <2> QED
      BY <1>2, <2>1, <2>2, <2>3
  <1>5. ASSUME Hits(s, G) \/ Hits(t, G) PROVE Hits(u, G)
    <2>1. \A i \in 1..b : a + i \in 1..(a + b)
      BY <1>1
    <2>2. 1..a \subseteq 1..(a + b)
      BY <1>1
    <2> QED
      BY <1>1, <1>5, <2>1, <2>2 DEF Hits
  <1> QED
    BY <1>1, <1>3, <1>4, <1>5 DEF u

\* The lists of a list, joined one after the other.
LEMMA JoinsUp ==
  ASSUME NEW X, NEW ss \in Seq(Seq(X)), Len(ss) # 0
  PROVE  \E f \in [1..Len(ss) -> Seq(X)] :
           /\ FlattenSeq(ss) = f[Len(ss)]
           /\ \A i \in 1..Len(ss) : f[i] = IF i = 1 THEN ss[i] ELSE f[i - 1] \o ss[i]
  <1> DEFINE n == Len(ss)
             h == [p \in (1..n) \X Seq(X) |-> p[2] \o ss[p[1]]]
             IsJoined(f) == f = [i \in 1..n |-> IF i = 1 THEN ss[i] ELSE f[i - 1] \o ss[i]]
             f0 == CHOOSE f : IsJoined(f)
  <1>1. n \in Nat /\ n # 0 /\ \A i \in 1..n : ss[i] \in Seq(X)
    OBVIOUS
  <1> HIDE DEF n
  <1>2. h \in [(1..n) \X Seq(X) -> Seq(X)]
    <2>1. ASSUME NEW p \in (1..n) \X Seq(X) PROVE p[2] \o ss[p[1]] \in Seq(X)
      <3>1. p[2] \in Seq(X) /\ ss[p[1]] \in Seq(X)
        BY <1>1
      <3> QED
        BY <3>1, Concatenated
    <2> QED
      BY <2>1
  <1>3. \A i \in 1..n : \A s \in Seq(X) : h[<<i, s>>] = s \o ss[i]
    OBVIOUS
  <1> HIDE DEF h
  <1> DEFINE V == Seq(X)
  <1>4. 1 \in Nat /\ n \in Nat /\ ss[1] \in V /\ h \in [(1..n) \X V -> V]
    BY <1>1, <1>2
  <1> HIDE DEF V
  <1> DEFINE a == ss[1]
  <1> HIDE DEF a
  <1>20. a \in V
    BY <1>4 DEF a
  <1>21. \E f \in [1..n -> V] : Stepwise(f, 1, n, a, h)
    BY <1>4, <1>20, StepByStep
  <1>5. PICK f \in [1..n -> V] :
             \A i \in 1..n : f[i] = IF i = 1 THEN a ELSE h[<<i, f[i - 1]>>]
    BY <1>21 DEF Stepwise
  <1> USE DEF a
  <1> USE DEF V
  <1>6. ASSUME NEW i \in 1..n
        PROVE (IF i = 1 THEN ss[1] ELSE h[<<i, f[i - 1]>>])
                = IF i = 1 THEN ss[i] ELSE f[i - 1] \o ss[i]
    <2>1. i # 1 => i - 1 \in 1..n
      BY <1>1
    <2>2. CASE i = 1
      BY <2>2
    <2>3. CASE i # 1
      <3>1. h[<<i, f[i - 1]>>] = f[i - 1] \o ss[i]
        BY <1>3, <1>5, <2>1, <2>3
      <3> QED
        BY <2>3, <3>1
    <2> QED
      BY <2>2, <2>3
  <1>7. IsJoined(f)
    <2>1. f = [i \in 1..n |-> f[i]]
      BY <1>5
    <2>2. \A i \in 1..n : f[i] = IF i = 1 THEN ss[i] ELSE f[i - 1] \o ss[i]
      BY <1>5, <1>6
    <2> QED
      BY ONLY <2>1, <2>2
  <1>8. IsJoined(f0)
    <2> HIDE DEF IsJoined
    <2> QED
      BY <1>7
  <1>9. FlattenSeq(ss) = f0[n]
    BY <1>1 DEF FlattenSeq, n
  <1> HIDE DEF f0
  <1>10. /\ DOMAIN f0 = 1..n /\ f0 = [i \in 1..n |-> f0[i]]
         /\ \A i \in 1..n : f0[i] = IF i = 1 THEN ss[i] ELSE f0[i - 1] \o ss[i]
    BY <1>8
  <1>11. \A i \in 1..n : f0[i] \in Seq(X)
    <2> DEFINE P == {i \in 1..n : f0[i] \in Seq(X)}
    <2>1. 1 \in P
      <3>1. 1 \in 1..n
        BY <1>1
      <3>2. f0[1] = ss[1]
        BY <1>10, <3>1
      <3> QED
        BY <1>1, <3>1, <3>2
    <2>2. ASSUME NEW i \in 1..n, i \in P, i < n PROVE i + 1 \in P
      <3>1. i + 1 \in 1..n /\ (i + 1) - 1 = i /\ i + 1 # 1
        BY <1>1, <2>2
      <3>2. f0[i + 1] = f0[i] \o ss[i + 1]
        BY <1>10, <3>1
      <3>3. f0[i] \o ss[i + 1] \in Seq(X)
        BY <1>1, <2>2, <3>1, Concatenated
      <3> QED
        BY <3>1, <3>2, <3>3
    <2> HIDE DEF P
    <2>3. \A i \in 1..n : i \in P
      BY <1>1, <2>1, <2>2, GoesOn
    <2> QED
      BY <2>3 DEF P
  <1>12. f0 \in [1..n -> Seq(X)]
    BY <1>10, <1>11
  <1> QED
    BY <1>9, <1>10, <1>12 DEF n

\* What is right in each list is right in all of them together, and nothing is lost.
LEMMA Flattened ==
  ASSUME NEW X, NEW ss \in Seq(Seq(X)), NEW G, NEW R
  PROVE  /\ FlattenSeq(ss) \in Seq(X)
         /\ (\A k \in DOMAIN ss : Right(ss[k], G, R)) => Right(FlattenSeq(ss), G, R)
         /\ Hits(FlattenSeq(ss), G) <=> \E k \in DOMAIN ss : Hits(ss[k], G)
  <1>1. CASE Len(ss) = 0
    <2>1. ss = <<>> /\ FlattenSeq(ss) = ss /\ DOMAIN ss = {}
      BY <1>1 DEF FlattenSeq
    <2>2. <<>> \in Seq(X)
      OBVIOUS
    <2> QED
      BY <2>1, <2>2 DEF Right, Hits
  <1>2. CASE Len(ss) # 0
    <2> DEFINE n == Len(ss)
    <2>1. n \in Nat /\ n # 0 /\ DOMAIN ss = 1..n /\ \A i \in 1..n : ss[i] \in Seq(X)
      BY <1>2
    <2>2. PICK f \in [1..n -> Seq(X)] :
             /\ FlattenSeq(ss) = f[n]
             /\ \A i \in 1..n : f[i] = IF i = 1 THEN ss[i] ELSE f[i - 1] \o ss[i]
      BY <1>2, JoinsUp
    <2> HIDE DEF n
    <2> DEFINE P == {i \in 1..n :
                       /\ (\A k \in 1..i : Right(ss[k], G, R)) => Right(f[i], G, R)
                       /\ Hits(f[i], G) <=> \E k \in 1..i : Hits(ss[k], G)}
    <2>3. 1 \in P
      <3>1. f[1] = ss[1] /\ 1 \in 1..n /\ 1..1 = {1}
        BY <2>1, <2>2
      <3> QED
        BY <3>1
    <2>4. ASSUME NEW i \in 1..n, i \in P, i < n PROVE i + 1 \in P
      <3>1. i + 1 \in 1..n /\ (i + 1) - 1 = i /\ i + 1 # 1
        BY <2>1, <2>4
      <3>2. f[i + 1] = f[i] \o ss[i + 1] /\ f[i] \in Seq(X) /\ ss[i + 1] \in Seq(X)
        BY <2>1, <2>2, <3>1
      <3>3. 1..(i + 1) = 1..i \cup {i + 1}
        BY <3>1
      <3> DEFINE s == f[i]
                 t == ss[i + 1]
      <3>4. /\ Right(f[i], G, R) /\ Right(ss[i + 1], G, R) => Right(f[i + 1], G, R)
            /\ Hits(f[i + 1], G) <=> Hits(f[i], G) \/ Hits(ss[i + 1], G)
        <4>1. s \in Seq(X) /\ t \in Seq(X) /\ f[i + 1] = s \o t
          BY <3>2
        <4> HIDE DEF s, t
        <4>2. /\ Right(s, G, R) /\ Right(t, G, R) => Right(s \o t, G, R)
              /\ Hits(s \o t, G) <=> Hits(s, G) \/ Hits(t, G)
          BY <4>1, Concatenated
        <4> QED
          BY <4>1, <4>2 DEF s, t
      <3>5. (\A k \in 1..(i + 1) : Right(ss[k], G, R)) => Right(f[i + 1], G, R)
        BY <2>4, <3>3, <3>4
      <3>6. Hits(f[i + 1], G) <=> \E k \in 1..(i + 1) : Hits(ss[k], G)
        BY <2>4, <3>3, <3>4
      <3> QED
        BY <3>1, <3>5, <3>6
    <2> HIDE DEF P
    <2>5. \A i \in 1..n : i \in P
      BY <2>1, <2>3, <2>4, GoesOn
    <2>6. n \in P /\ f[n] \in Seq(X)
      BY <2>1, <2>5
    <2> QED
      BY <2>1, <2>2, <2>6 DEF P
  <1> QED
    BY <1>1, <1>2

-----------------------------------------------------------------------------
(* Sorting *)

\* The list s has every member of T, and no more entries than members.
Lists(s, T) == /\ Cardinality(T) \in Nat /\ s \in [1..Cardinality(T) -> T]
               /\ \A t \in T : \E i \in 1..Cardinality(T) : s[i] = t

LEMMA SortedLists ==
  ASSUME NEW T, IsFiniteSet(T), NEW at, \A t \in T : at[t] \in Int,
         \A t, u \in T : at[t] = at[u] => t = u
  PROVE  Lists(Sorted(T, at), T)
  <1> DEFINE before(t) == {u \in T : at[u] < at[t]}
             n == Cardinality(T)
             rank == [t \in T |-> Cardinality(before(t)) + 1]
  <1>1. n \in Nat
    BY FS_CardinalityType
  <1>2. ASSUME NEW t \in T
        PROVE  /\ IsFiniteSet(before(t)) /\ Cardinality(before(t)) \in Nat
               /\ Cardinality(before(t)) < n
    <2>1. /\ IsFiniteSet(T \ {t}) /\ Cardinality(T \ {t}) = n - 1
      BY FS_RemoveElement
    <2>2. before(t) \in SUBSET (T \ {t})
      OBVIOUS
    <2>3. IsFiniteSet(before(t)) /\ Cardinality(before(t)) <= n - 1
      BY <2>1, <2>2, FS_Subset
    <2> QED
      BY <1>1, <2>3, FS_CardinalityType
  <1>3. ASSUME NEW t \in T, NEW u \in T, at[t] < at[u] PROVE rank[t] < rank[u]
    <2>1. IsFiniteSet(before(u) \ {t}) /\ Cardinality(before(u) \ {t}) = Cardinality(before(u)) - 1
      BY <1>2, <1>3, FS_RemoveElement
    <2>2. before(t) \in SUBSET (before(u) \ {t})
      BY <1>3
    <2>3. Cardinality(before(t)) <= Cardinality(before(u)) - 1
      BY <2>1, <2>2, FS_Subset
    <2>4. Cardinality(before(t)) \in Nat /\ Cardinality(before(u)) \in Nat
      BY <1>2
    <2>5. rank[t] = Cardinality(before(t)) + 1 /\ rank[u] = Cardinality(before(u)) + 1
      OBVIOUS
    <2> HIDE DEF rank, before
    <2> QED
      BY <2>3, <2>4, <2>5
  <1>4. rank \in [T -> 1..n] /\ \A t \in T : rank[t] = Cardinality(before(t)) + 1
    <2>1. ASSUME NEW t \in T PROVE Cardinality(before(t)) + 1 \in 1..n
      <3> HIDE DEF before
      <3> QED
        BY <1>1, <1>2
    <2> HIDE DEF before
    <2> QED
      BY <2>1
  <1>5. \A t, u \in T : rank[t] = rank[u] => t = u
    <2> SUFFICES ASSUME NEW t \in T, NEW u \in T, rank[t] = rank[u] PROVE t = u
      OBVIOUS
    <2>1. rank[t] \in 1..n /\ rank[u] \in 1..n
      BY <1>4
    <2>2. at[t] \in Int /\ at[u] \in Int
      OBVIOUS
    <2> HIDE DEF rank
    <2>3. ~ (at[t] < at[u]) /\ ~ (at[u] < at[t])
      BY <1>1, <1>3, <2>1
    <2> QED
      BY <2>2, <2>3
  <1> HIDE DEF rank
  <1>6. rank \in Injection(T, 1..n)
    BY <1>4, <1>5 DEF Injection, IsInjective
  <1>7. IsFiniteSet(1..n) /\ Cardinality(1..n) = n
    BY <1>1, FS_Interval
  <1>8. rank \in Surjection(T, 1..n)
    <2>1. Cardinality(T) = Cardinality(1..n) <=> rank \in Surjection(T, 1..n)
      BY <1>6, <1>7, FS_Injection
    <2> QED
      BY <1>7, <2>1
  <1>9. \A i \in 1..n : \E t \in T : rank[t] = i
    BY <1>8 DEF Surjection
  <1>10. ASSUME NEW i \in 1..n
         PROVE  /\ Sorted(T, at)[i] \in T /\ rank[Sorted(T, at)[i]] = i
    <2> DEFINE chosen == CHOOSE t \in T : Cardinality(before(t)) = i - 1
    <2>1. \E t \in T : Cardinality(before(t)) = i - 1
      <3>1. PICK t \in T : rank[t] = i
        BY <1>9
      <3>2. Cardinality(before(t)) \in Nat
        BY <1>2
      <3>3. Cardinality(before(t)) + 1 = i
        BY <1>4, <3>1
      <3> HIDE DEF before
      <3> QED
        BY <3>2, <3>3
    <2> HIDE DEF before
    <2>2. chosen \in T /\ Cardinality(before(chosen)) = i - 1
      BY <2>1
    <2> USE DEF before
    <2>3. Sorted(T, at)[i] = chosen
      BY DEF Sorted
    <2> HIDE DEF chosen
    <2> QED
      BY <1>4, <2>2, <2>3
  <1>11. Sorted(T, at) \in [1..n -> T]
    <2>1. DOMAIN Sorted(T, at) = 1..n /\ Sorted(T, at) = [i \in 1..n |-> Sorted(T, at)[i]]
      BY DEF Sorted
    <2> QED
      BY <1>10, <2>1
  <1>12. ASSUME NEW t \in T PROVE \E i \in 1..n : Sorted(T, at)[i] = t
    <2>1. rank[t] \in 1..n
      BY <1>4
    <2>2. Sorted(T, at)[rank[t]] = t
      BY <1>5, <1>10, <2>1
    <2> QED
      BY <2>1, <2>2
  <1> QED
    BY <1>1, <1>11, <1>12 DEF Lists

-----------------------------------------------------------------------------
(* Intervals of dates *)

LEMMA DatesAreNumbers == \A S \in SUBSET Dates : \A d \in S : d \in Nat
  BY CalendarIsThere DEF Dates

\* A set of dates, with those of them that go on to the next.
LEMMA IntervalsOfDates ==
  ASSUME NEW S \in SUBSET Dates, NEW J
  PROVE  /\ IsFiniteSet(Intervals(S, J))
         /\ \A r \in Intervals(S, J) : /\ r[1] \in S /\ r[2] \in S /\ r[1] <= r[2]
                                       /\ r[1]..r[2] \subseteq S
                                       /\ \A d \in r[1]..(r[2] - 1) : d + 1 \in S /\ d \in J
         /\ \A r, q \in Intervals(S, J) : r[1] = q[1] => r = q
         /\ \A d \in S : \E r \in Intervals(S, J) : d \in r[1]..r[2]
  <1>1. LastDate \in Nat /\ \A d \in S : d \in 1..LastDate /\ d \in Nat
    BY CalendarIsThere DEF Dates
  <1>2. IsFiniteSet(Intervals(S, J))
    <2>1. IsFiniteSet(1..LastDate)
      BY <1>1, FS_Interval
    <2>2. IsFiniteSet(S)
      BY <2>1, FS_Subset DEF Dates
    <2>3. IsFiniteSet(S \X S)
      BY <2>2, FS_Product
    <2>4. Intervals(S, J) \in SUBSET (S \X S)
      BY DEF Intervals
    <2> QED
      BY <2>3, <2>4, FS_Subset
  <1>3. ASSUME NEW r \in Intervals(S, J)
        PROVE  /\ r \in S \X S /\ r[1] \in S /\ r[2] \in S /\ r[1] <= r[2]
               /\ r[1]..r[2] \subseteq S
               /\ \A d \in r[1]..(r[2] - 1) : d + 1 \in S /\ d \in J
               /\ r[2] + 1 \in S => r[2] \notin J
    <2>1. /\ r \in S \X S /\ r[1] \in S /\ r[2] \in S /\ r[1] <= r[2]
          /\ \A d \in r[1]..(r[2] - 1) : d + 1 \in S /\ d \in J
          /\ r[2] + 1 \in S => r[2] \notin J
      BY DEF Intervals
    <2>2. ASSUME NEW d \in r[1]..r[2] PROVE d \in S
      <3>1. CASE d = r[1]
        BY <2>1, <3>1
      <3>2. CASE d # r[1]
        <4>1. r[1] \in Nat /\ r[2] \in Nat
          BY <1>1, <2>1
        <4>2. d - 1 \in r[1]..(r[2] - 1) /\ (d - 1) + 1 = d
          BY <3>2, <4>1
        <4> QED
          BY <2>1, <4>2
      <3> QED
        BY <3>1, <3>2
    <2> QED
      BY <2>1, <2>2
  <1>4. ASSUME NEW r \in Intervals(S, J), NEW q \in Intervals(S, J), r[1] = q[1], r[2] < q[2]
        PROVE  FALSE
    <2>1. r[1] \in Nat /\ r[2] \in Nat /\ q[2] \in Nat /\ r[1] <= r[2]
      BY <1>1, <1>3
    <2>2. r[2] \in q[1]..(q[2] - 1)
      BY <1>4, <2>1
    <2> QED
      BY <1>3, <2>2
  <1>5. \A r, q \in Intervals(S, J) : r[1] = q[1] => r = q
    <2> SUFFICES ASSUME NEW r \in Intervals(S, J), NEW q \in Intervals(S, J), r[1] = q[1]
                 PROVE  r = q
      OBVIOUS
    <2>1. r[2] \in Nat /\ q[2] \in Nat
      BY <1>1, <1>3
    <2>2. r[2] = q[2]
      BY <1>4, <2>1
    <2>3. r = <<r[1], r[2]>> /\ q = <<q[1], q[2]>>
      BY <1>3
    <2> QED
      BY <2>2, <2>3
  <1>6. ASSUME NEW d \in S PROVE \E r \in Intervals(S, J) : d \in r[1]..r[2]
    <2> DEFINE A == {a \in S : a <= d /\ \A x \in a..(d - 1) : x + 1 \in S /\ x \in J}
               B == {b \in S : d <= b /\ \A x \in d..(b - 1) : x + 1 \in S /\ x \in J}
    <2>1. d \in A /\ A \in SUBSET Nat /\ d \in B /\ B \in SUBSET (0..LastDate)
      BY <1>1
    <2>2. PICK a \in A : \A k \in A : a <= k
      BY <2>1, Least
    <2>3. PICK b \in B : \A k \in B : k <= b
      BY <1>1, <2>1, Greatest
    <2>4. /\ a \in S /\ b \in S /\ a \in Nat /\ b \in Nat /\ d \in Nat /\ a <= d /\ d <= b
          /\ \A x \in a..(d - 1) : x + 1 \in S /\ x \in J
          /\ \A x \in d..(b - 1) : x + 1 \in S /\ x \in J
      BY <1>1
    <2>5. \A x \in a..(b - 1) : x + 1 \in S /\ x \in J
      <3>1. \A x \in a..(b - 1) : x \in a..(d - 1) \/ x \in d..(b - 1)
        BY <2>4
      <3> QED
        BY <2>4, <3>1
    <2>6. a - 1 \in S => a - 1 \notin J
      <3> SUFFICES ASSUME a - 1 \in S, a - 1 \in J PROVE FALSE
        OBVIOUS
      <3>1. \A x \in (a - 1)..(d - 1) : x \in a..(d - 1) \/ (x = a - 1 /\ x + 1 = a)
        BY <2>4
      <3>2. a - 1 \in A
        BY <2>4, <3>1
      <3> QED
        BY <2>2, <2>4, <3>2
    <2>7. b + 1 \in S => b \notin J
      <3> SUFFICES ASSUME b + 1 \in S, b \in J PROVE FALSE
        OBVIOUS
      <3>1. \A x \in d..((b + 1) - 1) : x \in d..(b - 1) \/ x = b
        BY <2>4
      <3>2. b + 1 \in B
        BY <2>4, <3>1
      <3> QED
        BY <2>3, <2>4, <3>2
    <2>8. <<a, b>> \in Intervals(S, J)
      BY <2>4, <2>5, <2>6, <2>7 DEF Intervals
    <2>9. d \in <<a, b>>[1]..<<a, b>>[2]
      BY <2>4
    <2> QED
      BY <2>8, <2>9
  <1> QED
    BY <1>2, <1>3, <1>5, <1>6

\* The list of them by their starts has them all.
LEMMA ByStartLists ==
  ASSUME NEW S \in SUBSET Dates, NEW J, NEW Q \in SUBSET Intervals(S, J)
  PROVE  Lists(ByStart(Q), Q)
  <1> DEFINE at == [r \in Q |-> r[1]]
  <1>1. IsFiniteSet(Q)
    <2>1. IsFiniteSet(Intervals(S, J))
      BY IntervalsOfDates
    <2> DEFINE T == Intervals(S, J)
    <2> HIDE DEF T
    <2>2. IsFiniteSet(T) /\ Q \in SUBSET T
      BY <2>1 DEF T
    <2> QED
      BY <2>2, FS_Subset
  <1>2. \A r \in Q : at[r] \in Int
    <2>1. \A r \in Intervals(S, J) : r[1] \in S
      BY IntervalsOfDates
    <2> HIDE DEF at
    <2>2. \A r \in Q : r[1] \in S
      BY <2>1
    <2>3. \A r \in Q : at[r] = r[1]
      BY DEF at
    <2>4. S \subseteq Int
      BY CalendarIsThere DEF Dates
    <2>5. ASSUME NEW r \in Q PROVE at[r] \in Int
      <3>1. at[r] = r[1] /\ r[1] \in S
        BY <2>2, <2>3
      <3> QED
        BY <2>4, <3>1
    <2> QED
      BY <2>5
  <1>3. \A r, q \in Q : at[r] = at[q] => r = q
    BY IntervalsOfDates
  <1>4. ByStart(Q) = Sorted(Q, at)
    BY DEF ByStart
  <1> HIDE DEF at
  <1> QED
    BY <1>1, <1>2, <1>3, <1>4, SortedLists

-----------------------------------------------------------------------------
(* Encoding one field over one span *)

\* The field entries within a span, and those of them that cover a date or carry a value.
Strokes(S, V) == {e \in [from : S, to : S, days : SUBSET AllDays, value : V] : e.from <= e.to}
On(S, V, d) == {e \in Strokes(S, V) : d \in expandDates(e)}
With(S, V, v) == {e \in Strokes(S, V) : e.value = v}

\* What a list of entries gives each date of the span is the value of f there.
Encodes(es, S, V, f) ==
  /\ es \in Seq(Strokes(S, V))
  /\ \A d \in S : Hits(es, On(S, V, d)) /\ Right(es, On(S, V, d), With(S, V, f[d]))

\* A span of dates: its ends, and the weekdays in it.
LEMMA SpanFacts ==
  ASSUME NEW a \in Dates, NEW b \in Dates, a <= b
  PROVE  /\ a..b \in SUBSET Dates /\ a \in a..b /\ b \in a..b
         /\ WholeSpan(a..b) = <<a, b>>
         /\ \A d \in a..b : d \in Nat /\ weekdayOf(d) \in AllDays
  <1>1. /\ LastDate \in Nat /\ a \in 1..LastDate /\ b \in 1..LastDate /\ a \in Nat /\ b \in Nat
        /\ WeekLength \in Nat \ {0}
    BY CalendarIsThere DEF Dates
  <1>2. a..b \in SUBSET Dates /\ a \in a..b /\ b \in a..b /\ \A d \in a..b : d \in Nat
    BY <1>1 DEF Dates
  <1>3. \A d \in a..b : weekdayOf(d) \in AllDays
    BY <1>1, <1>2 DEF weekdayOf, AllDays
  <1>4. a..b \in SUBSET (0..LastDate)
    BY <1>1
  <1>5. /\ Min(a..b) \in a..b /\ \A k \in a..b : Min(a..b) <= k
        /\ Max(a..b) \in a..b /\ \A k \in a..b : k <= Max(a..b)
    BY <1>1, <1>2, <1>4, MinMax
  <1>6. Min(a..b) = a
    <2>1. Min(a..b) <= a /\ Min(a..b) \in a..b
      BY <1>2, <1>5
    <2> QED
      BY <1>1, <2>1
  <1>7. Max(a..b) = b
    <2>1. b <= Max(a..b) /\ Max(a..b) \in a..b
      BY <1>2, <1>5
    <2> QED
      BY <1>1, <2>1
  <1> QED
    BY <1>2, <1>3, <1>6, <1>7 DEF WholeSpan

\* f has one value over the run r.
FlatOver(f, r) == \A d \in r[1]..r[2] : f[d] = f[r[1]]

\* A run of equal values has one value.
LEMMA RunIsEqual ==
  ASSUME NEW S \in SUBSET Dates, NEW f, NEW r \in equalRuns(S, f)
  PROVE  FlatOver(f, r)
  <1> DEFINE J == {d \in S : d + 1 \in S /\ f[d] = f[d + 1]}
             P == {d \in r[1]..r[2] : f[d] = f[r[1]]}
  <1>1. r \in Intervals(S, J)
    BY DEF equalRuns
  <1>2. /\ r[1] \in S /\ r[2] \in S /\ r[1] <= r[2]
        /\ \A d \in r[1]..(r[2] - 1) : d \in J
    <2> HIDE DEF J
    <2> QED
      BY <1>1, IntervalsOfDates
  <1>3. r[1] \in Nat /\ r[2] \in Nat
    <2>1. \A d \in S : d \in Nat
      BY DatesAreNumbers
    <2> QED
      BY <1>2, <2>1
  <1>4. r[1] \in P
    BY <1>2, <1>3
  <1>5. ASSUME NEW d \in r[1]..r[2], d \in P, d < r[2] PROVE d + 1 \in P
    <2>1. d \in r[1]..(r[2] - 1) /\ d + 1 \in r[1]..r[2]
      BY <1>3, <1>5
    <2>2. f[d] = f[d + 1]
      BY <1>2, <2>1
    <2> QED
      BY <1>5, <2>1, <2>2
  <1> HIDE DEF P
  <1>6. \A d \in r[1]..r[2] : d \in P
    BY <1>3, <1>4, <1>5, GoesOn
  <1> QED
    BY <1>6 DEF P, FlatOver

\* Entries of some runs: each covers its run, and gives it the value it has.
LEMMA RunsGive ==
  ASSUME NEW a \in Dates, NEW b \in Dates, a <= b, NEW V, NEW f \in [a..b -> V],
         NEW Q \in SUBSET equalRuns(a..b, f)
  PROVE  /\ RunEntries(Q, f) \in Seq(Strokes(a..b, V))
         /\ \A i \in DOMAIN RunEntries(Q, f) : \A d \in expandDates(RunEntries(Q, f)[i]) :
              RunEntries(Q, f)[i].value = f[d]
         /\ \A r \in Q : \A d \in r[1]..r[2] : Hits(RunEntries(Q, f), On(a..b, V, d))
  <1> DEFINE S == a..b
             J == {d \in S : d + 1 \in S /\ f[d] = f[d + 1]}
             n == Cardinality(Q)
             es == RunEntries(Q, f)
  <1>1. /\ S \in SUBSET Dates /\ \A d \in S : d \in Nat /\ weekdayOf(d) \in AllDays
    BY SpanFacts
  <1>2. Q \in SUBSET Intervals(S, J)
    BY DEF equalRuns
  <1> HIDE DEF J
  <1>3. /\ n \in Nat /\ ByStart(Q) \in [1..n -> Q]
        /\ \A r \in Q : \E i \in 1..n : ByStart(Q)[i] = r
    <2> HIDE DEF S
    <2>1. Lists(ByStart(Q), Q)
      BY <1>1, <1>2, ByStartLists
    <2> QED
      BY <2>1 DEF Lists
  <1>4. \A r \in Q : r[1] \in S /\ r[2] \in S /\ r[1] <= r[2] /\ r[1]..r[2] \subseteq S
    <2>1. \A r \in Intervals(S, J) : r[1] \in S /\ r[2] \in S /\ r[1] <= r[2] /\ r[1]..r[2] \subseteq S
      BY <1>1, IntervalsOfDates
    <2> QED
      BY <1>2, <2>1
  <1>5. \A r \in Q : \A d \in r[1]..r[2] : f[d] = f[r[1]]
    <2>1. S \in SUBSET Dates
      BY <1>1
    <2>2. Q \in SUBSET equalRuns(S, f)
      OBVIOUS
    <2> HIDE DEF S
    <2>3. ASSUME NEW r \in Q PROVE FlatOver(f, r)
      <3>1. r \in equalRuns(S, f)
        BY <2>2
      <3> QED
        BY ONLY <2>1, <3>1, RunIsEqual
    <2> QED
      BY <2>3 DEF FlatOver
  <1>6. /\ DOMAIN es = 1..n
        /\ \A i \in 1..n : /\ es[i].from = ByStart(Q)[i][1] /\ es[i].to = ByStart(Q)[i][2]
                           /\ es[i].days = AllDays /\ es[i].value = f[ByStart(Q)[i][1]]
                           /\ es[i] = [from |-> es[i].from, to |-> es[i].to, days |-> es[i].days,
                                       value |-> es[i].value]
    <2> DEFINE rs == ByStart(Q)
               e(i) == FieldEntry(rs[i], AllDays, f[rs[i][1]])
    <2>1. es = [i \in 1..n |-> e(i)]
      BY DEF RunEntries
    <2> HIDE DEF rs, n, es
    <2>2. DOMAIN es = 1..n /\ \A i \in 1..n : es[i] = e(i)
      BY <2>1
    <2> SUFFICES ASSUME NEW i \in 1..n
                 PROVE  /\ es[i].from = rs[i][1] /\ es[i].to = rs[i][2]
                        /\ es[i].days = AllDays /\ es[i].value = f[rs[i][1]]
                        /\ es[i] = [from |-> es[i].from, to |-> es[i].to, days |-> es[i].days,
                                    value |-> es[i].value]
      BY <2>2 DEF rs
    <2>3. es[i] = FieldEntry(rs[i], AllDays, f[rs[i][1]])
      BY <2>2
    <2> QED
      BY <2>3 DEF FieldEntry
  <1> HIDE DEF n, es, S
  <1>7. \A i \in 1..n : es[i] \in Strokes(S, V)
    <2> SUFFICES ASSUME NEW i \in 1..n PROVE es[i] \in Strokes(S, V)
      OBVIOUS
    <2> DEFINE r == ByStart(Q)[i]
    <2>1. r \in Q
      BY <1>3
    <2>2. r[1] \in S /\ r[2] \in S /\ r[1] <= r[2]
      BY <1>4, <2>1
    <2>3. f[r[1]] \in V
      BY <2>2 DEF S
    <2> QED
      BY <1>6, <2>2, <2>3 DEF Strokes
  <1>8. es \in Seq(Strokes(S, V))
    <2>1. es = [i \in 1..n |-> es[i]]
      BY DEF es, n, RunEntries
    <2> QED
      BY <1>3, <1>7, <2>1
  <1>9. \A i \in 1..n : expandDates(es[i]) = ByStart(Q)[i][1]..ByStart(Q)[i][2]
    <2> SUFFICES ASSUME NEW i \in 1..n
                 PROVE  expandDates(es[i]) = ByStart(Q)[i][1]..ByStart(Q)[i][2]
      OBVIOUS
    <2>1. ByStart(Q)[i] \in Q
      BY <1>3
    <2>2. \A d \in ByStart(Q)[i][1]..ByStart(Q)[i][2] : weekdayOf(d) \in AllDays
      BY <1>1, <1>4, <2>1
    <2> QED
      BY <1>6, <2>2 DEF expandDates
  <1>10. \A i \in 1..n : \A d \in expandDates(es[i]) : es[i].value = f[d]
    <2> SUFFICES ASSUME NEW i \in 1..n, NEW d \in expandDates(es[i]) PROVE es[i].value = f[d]
      OBVIOUS
    <2> DEFINE r == ByStart(Q)[i]
    <2>1. r \in Q /\ d \in r[1]..r[2] /\ es[i].value = f[r[1]]
      BY <1>3, <1>6, <1>9
    <2> HIDE DEF r
    <2> QED
      BY <1>5, <2>1
  <1>11. ASSUME NEW r \in Q, NEW d \in r[1]..r[2] PROVE Hits(es, On(S, V, d))
    <2>1. PICK i \in 1..n : ByStart(Q)[i] = r
      BY <1>3
    <2>2. d \in expandDates(es[i])
      BY <1>9, <2>1
    <2>3. es[i] \in On(S, V, d)
      BY <1>7, <2>2 DEF On
    <2> QED
      BY <1>6, <2>3 DEF Hits
  <1> QED
    BY <1>6, <1>8, <1>10, <1>11 DEF es, S

\* Run lengths: every run once.
LEMMA RunLengthEncodes ==
  ASSUME NEW a \in Dates, NEW b \in Dates, a <= b, NEW V, NEW f \in [a..b -> V]
  PROVE  Encodes(runLength(a..b, f), a..b, V, f)
  <1> DEFINE S == a..b
             Q == equalRuns(S, f)
             es == RunEntries(Q, f)
  <1>1. S \in SUBSET Dates
    BY SpanFacts
  <1>2. /\ es \in Seq(Strokes(S, V))
        /\ \A i \in DOMAIN es : \A d \in expandDates(es[i]) : es[i].value = f[d]
        /\ \A r \in Q : \A d \in r[1]..r[2] : Hits(es, On(S, V, d))
    BY RunsGive
  <1>3. \A d \in S : \E r \in Q : d \in r[1]..r[2]
    BY <1>1, IntervalsOfDates DEF equalRuns
  <1>7. \A d \in S : f[d] \in V
    OBVIOUS
  <1> HIDE DEF S, Q, es
  <1>4. \A i \in DOMAIN es : es[i] \in Strokes(S, V)
    BY <1>2
  <1>5. ASSUME NEW d \in S PROVE Hits(es, On(S, V, d)) /\ Right(es, On(S, V, d), With(S, V, f[d]))
    <2>1. Hits(es, On(S, V, d))
      BY <1>2, <1>3
    <2>2. Right(es, On(S, V, d), With(S, V, f[d]))
      BY <1>2, <1>4 DEF Right, On, With
    <2> QED
      BY <2>1, <2>2
  <1>6. Encodes(es, S, V, f)
    BY <1>2, <1>5 DEF Encodes
  <1> QED
    BY <1>6 DEF es, Q, S, runLength

\* The values of a span are listed each once.
LEMMA ValuesListed ==
  ASSUME NEW S \in SUBSET Dates, NEW f
  PROVE  Lists(ValuesInOrder(S, f), {f[d] : d \in S})
  <1> DEFINE vs == {f[d] : d \in S}
             first(v) == {d \in S : f[d] = v}
             at == [v \in vs |-> Min(first(v))]
  <1>1. LastDate \in Nat /\ S \in SUBSET (0..LastDate)
    BY CalendarIsThere DEF Dates
  <1>2. IsFiniteSet(vs)
    <2>1. IsFiniteSet(0..LastDate)
      BY <1>1, FS_Interval
    <2>2. IsFiniteSet(S)
      BY <1>1, <2>1, FS_Subset
    <2> DEFINE g == [d \in S |-> f[d]]
    <2>3. g \in Surjection(S, vs)
      BY DEF Surjection
    <2> HIDE DEF g, vs
    <2> QED
      BY <2>2, <2>3, FS_Surjection
  <1>3. ASSUME NEW v \in vs PROVE at[v] \in S /\ f[at[v]] = v
    <2>1. first(v) \in SUBSET (0..LastDate) /\ first(v) # {}
      BY <1>1
    <2> HIDE DEF first
    <2>2. Min(first(v)) \in first(v)
      BY <1>1, <2>1, MinMax
    <2> QED
      BY <2>2 DEF first
  <1>8. \A d \in S : d \in Int
    BY <1>1
  <1> HIDE DEF vs, at
  <1>4. \A v \in vs : at[v] \in Int
    BY <1>8, <1>3
  <1>5. \A v, w \in vs : at[v] = at[w] => v = w
    BY <1>3
  <1>6. ValuesInOrder(S, f) = Sorted(vs, at)
    BY DEF ValuesInOrder, vs, at
  <1>7. Lists(Sorted(vs, at), vs)
    BY <1>2, <1>4, <1>5, SortedLists
  <1> QED
    BY <1>6, <1>7 DEF vs

\* Weekdays: values that depend on the weekday alone, one entry for each.
LEMMA WeekdaysEncode ==
  ASSUME NEW a \in Dates, NEW b \in Dates, a <= b, NEW V, NEW f \in [a..b -> V],
         WeekdayPeriodic(a..b, f)
  PROVE  Encodes(weekdayEncoding(a..b, f), a..b, V, f)
  <1> DEFINE S == a..b
             vs == ValuesInOrder(S, f)
             n == Len(vs)
             days(v) == {weekdayOf(d) : d \in {e \in S : f[e] = v}}
             es == weekdayEncoding(S, f)
  <1>1. /\ S \in SUBSET Dates /\ a \in S /\ b \in S
        /\ WholeSpan(S) = <<a, b>>
        /\ \A d \in S : d \in Nat /\ weekdayOf(d) \in AllDays
    BY SpanFacts
  <1>2. Lists(vs, {f[d] : d \in S})
    <2> HIDE DEF S
    <2> QED
      BY <1>1, ValuesListed
  <1>3. /\ n \in Nat /\ DOMAIN vs = 1..n
        /\ \A i \in 1..n : \E d \in S : vs[i] = f[d]
        /\ \A d \in S : \E i \in 1..n : vs[i] = f[d]
    <2> HIDE DEF vs, S
    <2>1. Len(vs) = Cardinality({f[d] : d \in S})
      BY <1>2 DEF Lists
    <2> QED
      BY <1>2, <2>1 DEF Lists
  <1>4. /\ DOMAIN es = 1..n /\ es = [i \in 1..n |-> es[i]]
        /\ \A i \in 1..n : es[i] = [from |-> a, to |-> b, days |-> days(vs[i]), value |-> vs[i]]
    <2>1. es = [i \in 1..n |-> FieldEntry(WholeSpan(S), days(vs[i]), vs[i])]
      BY DEF weekdayEncoding
    <2>2. \A i \in 1..n : FieldEntry(WholeSpan(S), days(vs[i]), vs[i])
                           = [from |-> a, to |-> b, days |-> days(vs[i]), value |-> vs[i]]
      <3> HIDE DEF S, days, vs, n
      <3> QED
        BY <1>1 DEF FieldEntry
    <2> HIDE DEF S, days, vs, n, es
    <2> QED
      BY <2>1, <2>2
  <1>5. \A d, e \in S : weekdayOf(d) = weekdayOf(e) => f[d] = f[e]
    BY DEF WeekdayPeriodic
  <1>6. \A d \in S : f[d] \in V
    OBVIOUS
  <1>7. \A d \in a..b : d \in S
    OBVIOUS
  <1> HIDE DEF S, vs, n, es
  <1>8. \A i \in 1..n : days(vs[i]) \in SUBSET AllDays /\ vs[i] \in V
    BY <1>1, <1>3, <1>6
  <1>9. \A i \in 1..n : es[i] \in Strokes(S, V)
    <2> HIDE DEF days
    <2> QED
      BY <1>1, <1>4, <1>8 DEF Strokes
  <1>10. es \in Seq(Strokes(S, V))
    <2> HIDE DEF days
    <2> QED
      BY <1>3, <1>4, <1>9
  <1>11. \A i \in 1..n : \A d \in S : d \in expandDates(es[i]) <=> weekdayOf(d) \in days(vs[i])
    <2> HIDE DEF days
    <2>1. \A d \in S : d \in a..b
      BY DEF S
    <2> QED
      BY <1>4, <2>1 DEF expandDates
  <1>12. ASSUME NEW d \in S PROVE Hits(es, On(S, V, d)) /\ Right(es, On(S, V, d), With(S, V, f[d]))
    <2>1. PICK i \in 1..n : vs[i] = f[d]
      BY <1>3
    <2>2. weekdayOf(d) \in days(vs[i])
      BY <2>1
    <2>3. es[i] \in On(S, V, d)
      BY <1>9, <1>11, <2>2 DEF On
    <2>4. Hits(es, On(S, V, d))
      BY <1>4, <2>3 DEF Hits
    <2>5. ASSUME NEW j \in 1..n, es[j] \in On(S, V, d) PROVE es[j] \in With(S, V, f[d])
      <3>1. weekdayOf(d) \in days(vs[j])
        BY <1>11, <2>5 DEF On
      <3>2. PICK e \in S : f[e] = vs[j] /\ weekdayOf(d) = weekdayOf(e)
        BY <3>1
      <3>3. f[d] = vs[j]
        BY <1>5, <3>2
      <3>4. es[j].value = f[d]
        <4> HIDE DEF days
        <4> QED
          BY <1>4, <3>3
      <3> QED
        BY <1>9, <3>4 DEF With
    <2> QED
      BY <1>4, <2>4, <2>5 DEF Right
  <1>13. Encodes(es, S, V, f)
    BY <1>10, <1>12 DEF Encodes
  <1> QED
    BY <1>13 DEF es, S

\* The dominant value is a value of the span.
LEMMA DominantIsThere ==
  ASSUME NEW S \in SUBSET Dates, S # {}, NEW f
  PROVE  \E d \in S : Dominant(S, f) = f[d]
  <1> DEFINE shows(v) == {d \in S : f[d] = v}
             vs == ValuesInOrder(S, f)
             n == Len(vs)
             count == [i \in 1..n |-> Cardinality(shows(vs[i]))]
             Best(i) == /\ \A j \in 1..n : count[j] <= count[i]
                        /\ \A j \in 1..(i - 1) : count[j] < count[i]
  <1>1. LastDate \in Nat /\ S \in SUBSET (0..LastDate)
    BY CalendarIsThere DEF Dates
  <1>2. IsFiniteSet(S) /\ Cardinality(S) \in Nat
    <2>1. IsFiniteSet(0..LastDate)
      BY <1>1, FS_Interval
    <2> QED
      BY <1>1, <2>1, FS_Subset, FS_CardinalityType
  <1>3. Lists(vs, {f[d] : d \in S})
    BY ValuesListed
  <1>4. /\ n \in Nat /\ DOMAIN vs = 1..n
        /\ \A i \in 1..n : \E d \in S : vs[i] = f[d]
        /\ \A d \in S : \E i \in 1..n : vs[i] = f[d]
    <2> HIDE DEF vs
    <2> DEFINE W == {f[d] : d \in S}
               c == Cardinality(W)
    <2>1. c \in Nat /\ vs \in [1..c -> W] /\ \A w \in W : \E i \in 1..c : vs[i] = w
      <3> HIDE DEF W
      <3> QED
        BY <1>3 DEF Lists, W
    <2> HIDE DEF c
    <2>2. n = c /\ DOMAIN vs = 1..n
      <3> HIDE DEF W
      <3> QED
        BY <2>1
    <2>3. \A i \in 1..n : vs[i] \in W
      BY <2>1, <2>2
    <2> HIDE DEF n
    <2>4. \A d \in S : f[d] \in W
      OBVIOUS
    <2>5. \A d \in S : \E i \in 1..n : vs[i] = f[d]
      BY <2>1, <2>2, <2>4
    <2>6. \A i \in 1..n : \E d \in S : vs[i] = f[d]
      BY <2>3
    <2> QED
      BY <2>1, <2>2, <2>5, <2>6
  <1>5. \A i \in 1..n : count[i] \in 0..Cardinality(S)
    <2> SUFFICES ASSUME NEW i \in 1..n PROVE count[i] \in 0..Cardinality(S)
      OBVIOUS
    <2> DEFINE T == shows(vs[i])
    <2>1. T \in SUBSET S
      OBVIOUS
    <2>2. count[i] = Cardinality(T)
      OBVIOUS
    <2> HIDE DEF T, count
    <2>3. IsFiniteSet(T) /\ Cardinality(T) <= Cardinality(S)
      BY <1>2, <2>1, FS_Subset
    <2> QED
      BY <1>2, <2>2, <2>3, FS_CardinalityType
  <1>6. Dominant(S, f) = vs[CHOOSE i \in 1..n : Best(i)]
    <2>1. \A i \in DOMAIN vs : /\ i \in 1..n
                               /\ count[i] = Cardinality(shows(vs[i]))
      BY <1>4
    <2> DEFINE Chosen(i) == /\ \A j \in DOMAIN vs : Cardinality(shows(vs[j])) <= Cardinality(shows(vs[i]))
                            /\ \A j \in 1..(i - 1) :
                                 Cardinality(shows(vs[j])) < Cardinality(shows(vs[i]))
    <2>2. Dominant(S, f) = vs[CHOOSE i \in DOMAIN vs : Chosen(i)]
      BY DEF Dominant
    <2>3. \A i \in DOMAIN vs : Chosen(i) <=> Best(i)
      <3> SUFFICES ASSUME NEW i \in DOMAIN vs PROVE Chosen(i) <=> Best(i)
        OBVIOUS
      <3>1. \A j \in 1..(i - 1) : j \in DOMAIN vs
        BY <1>4
      <3> HIDE DEF count, shows, vs, n
      <3> QED
        BY <1>4, <2>1, <3>1
    <2> HIDE DEF Chosen, Best, vs, n
    <2> QED
      BY <1>4, <2>2, <2>3
  <1> HIDE DEF vs, n, count
  <1>7. 1 \in 1..n
    <2>1. PICK d \in S : TRUE
      OBVIOUS
    <2>2. PICK i \in 1..n : vs[i] = f[d]
      BY <1>4
    <2> QED
      BY <1>4, <2>2
  <1>8. \E i \in 1..n : Best(i)
    <2> DEFINE C == {count[i] : i \in 1..n}
    <2>1. C \in SUBSET (0..Cardinality(S)) /\ C # {}
      BY <1>5, <1>7
    <2>2. PICK m \in C : \A k \in C : k <= m
      BY <1>2, <2>1, Greatest
    <2> DEFINE I == {i \in 1..n : count[i] = m}
    <2>3. I \in SUBSET Nat /\ I # {}
      BY <2>2
    <2>4. PICK i \in I : \A k \in I : i <= k
      BY <2>3, Least
    <2>5. i \in 1..n /\ count[i] = m /\ \A j \in 1..n : count[j] <= m /\ count[j] \in Nat
      BY <1>5, <2>2
    <2>6. ASSUME NEW j \in 1..(i - 1) PROVE count[j] < count[i]
      <3>1. j \in 1..n /\ ~ (i <= j)
        BY <1>4, <2>5
      <3>2. count[j] # m
        BY <2>4, <3>1
      <3> QED
        BY <2>5, <3>1, <3>2
    <2> QED
      BY <2>5, <2>6
  <1> HIDE DEF Best
  <1>9. (CHOOSE i \in 1..n : Best(i)) \in 1..n
    BY <1>8
  <1> QED
    BY <1>4, <1>6, <1>9

\* One value for the whole span first, then the runs that have another one: where the last
\* entry is the first, no run has another value.
LEMMA BaseEncodes ==
  ASSUME NEW a \in Dates, NEW b \in Dates, a <= b, NEW V, NEW f \in [a..b -> V]
  PROVE  Encodes(baseAndOverride(a..b, f), a..b, V, f)
  <1> DEFINE S == a..b
             v == Dominant(S, f)
             base == FieldEntry(WholeSpan(S), AllDays, v)
             Q == {r \in equalRuns(S, f) : f[r[1]] # v}
             es == RunEntries(Q, f)
  <1>1. /\ S \in SUBSET Dates /\ a \in S /\ b \in S
        /\ WholeSpan(S) = <<a, b>>
        /\ \A d \in S : d \in Nat /\ weekdayOf(d) \in AllDays
    BY SpanFacts
  <1>2. CASE \A d \in S : f[d] = v
    <2>1. baseAndOverride(S, f) = runLength(S, f)
      BY <1>2 DEF baseAndOverride
    <2> QED
      BY <2>1, RunLengthEncodes
  <1>3. CASE ~ \A d \in S : f[d] = v
    <2>1. baseAndOverride(S, f) = <<base>> \o es
      BY <1>3 DEF baseAndOverride
    <2>2. v \in V
      <3>1. S # {}
        BY <1>1
      <3>2. PICK d \in S : v = f[d]
        BY <1>1, <3>1, DominantIsThere
      <3> QED
        BY <3>2
    <2>3. /\ es \in Seq(Strokes(S, V))
          /\ \A i \in DOMAIN es : \A d \in expandDates(es[i]) : es[i].value = f[d]
          /\ \A r \in Q : \A d \in r[1]..r[2] : Hits(es, On(S, V, d))
      <3>1. Q \in SUBSET equalRuns(S, f)
        OBVIOUS
      <3> HIDE DEF Q
      <3> QED
        BY <3>1, RunsGive
    <2>4. ASSUME NEW d \in S, f[d] # v PROVE Hits(es, On(S, V, d))
      <3>1. PICK r \in equalRuns(S, f) : d \in r[1]..r[2]
        BY <1>1, IntervalsOfDates DEF equalRuns
      <3>2. f[d] = f[r[1]]
        BY <1>1, <3>1, RunIsEqual DEF FlatOver
      <3> QED
        BY <2>3, <2>4, <3>1, <3>2
    <2>5. \A d \in S : f[d] \in V /\ d \in a..b
      OBVIOUS
    <2>6. base = [from |-> a, to |-> b, days |-> AllDays, value |-> v]
      <3> HIDE DEF S, v
      <3> QED
        BY <1>1 DEF FieldEntry
    <2> DEFINE both == <<base>> \o es
    <2> HIDE DEF S, v, Q, es, base
    <2>7. base \in Strokes(S, V) /\ \A d \in S : d \in expandDates(base)
      BY <1>1, <2>2, <2>5, <2>6 DEF Strokes, expandDates
    <2>8. <<base>> \in Seq(Strokes(S, V))
      BY <2>7
    <2>9. ASSUME NEW d \in S
          PROVE  Hits(both, On(S, V, d)) /\ Right(both, On(S, V, d), With(S, V, f[d]))
      <3> DEFINE G == On(S, V, d)
                 R == With(S, V, f[d])
      <3>1. base \in G
        BY <2>7 DEF On
      <3>2. /\ Right(<<base>>, G, R) /\ Right(es, G, R) => Right(both, G, R)
            /\ Hits(both, G) <=> Hits(<<base>>, G) \/ Hits(es, G)
        <4> HIDE DEF G, R
        <4> QED
          BY <2>3, <2>8, Concatenated
      <3>3. Hits(<<base>>, G)
        BY <3>1 DEF Hits
      <3>4. Right(es, G, R)
        <4>1. \A i \in DOMAIN es : es[i] \in Strokes(S, V)
          BY <2>3
        <4> QED
          BY <2>3, <4>1 DEF Right, On, With
      <3>5. CASE f[d] = v
        <4>1. base \in R
          BY <2>6, <2>7, <3>5 DEF With
        <4>2. Right(<<base>>, G, R)
          BY <4>1 DEF Right
        <4> QED
          BY <3>2, <3>3, <3>4, <4>2
      <3>6. CASE f[d] # v
        <4>1. PICK k \in DOMAIN es : es[k] \in G
          BY <2>4, <3>6 DEF Hits
        <4>2. ASSUME NEW i \in DOMAIN both, both[i] \in G,
                     \A j \in DOMAIN both : j > i => both[j] \notin G
              PROVE  both[i] \in R
          <5> DEFINE m == Len(es)
          <5>1. /\ m \in Nat /\ DOMAIN es = 1..m /\ DOMAIN both = 1..(m + 1)
                /\ \A j \in 1..m : both[j + 1] = es[j]
            BY <2>3
          <5> HIDE DEF m, both, G, R
          <5>2. k + 1 \in DOMAIN both /\ both[k + 1] \in G /\ k >= 1 /\ k \in Nat /\ i \in Nat
            BY <4>1, <5>1
          <5>3. ~ (k + 1 > i)
            BY <4>2, <5>2
          <5>4. i - 1 \in 1..m /\ both[i] = es[i - 1]
            BY <5>1, <5>2, <5>3
          <5>5. \A j \in 1..m : j > i - 1 => es[j] \notin G
            <6> SUFFICES ASSUME NEW j \in 1..m, j > i - 1 PROVE es[j] \notin G
              OBVIOUS
            <6>1. j + 1 \in DOMAIN both /\ j + 1 > i /\ both[j + 1] = es[j]
              BY <5>1, <5>2
            <6> QED
              BY <4>2, <6>1
          <5> QED
            BY <3>4, <4>2, <5>1, <5>4, <5>5 DEF Right
        <4>3. Right(both, G, R)
          BY <4>2 DEF Right
        <4> QED
          BY <3>2, <3>3, <4>3
      <3> QED
        BY <3>5, <3>6
    <2>10. both \in Seq(Strokes(S, V))
      BY <2>3, <2>8, Concatenated
    <2>11. Encodes(both, S, V, f)
      BY <2>9, <2>10 DEF Encodes
    <2> QED
      BY <2>1, <2>11 DEF S, both
  <1> QED
    BY <1>2, <1>3

\* Whichever of the three encodings is the shortest.
LEMMA SpanIsEncoded ==
  ASSUME NEW a \in Dates, NEW b \in Dates, a <= b, NEW V, NEW f \in [a..b -> V]
  PROVE  Encodes(encodeSpan(a..b, f), a..b, V, f)
  BY RunLengthEncodes, WeekdaysEncode, BaseEncodes DEF encodeSpan, Shorter

-----------------------------------------------------------------------------
(* The field entries of a lane *)

\* Cells to be sent: some dates of some lanes, each with the values of some fields.
SomeFields(V) == UNION {[F -> V] : F \in (SUBSET Fields) \ {{}}}
Calendars(V) == UNION {[D -> SomeFields(V)] : D \in SUBSET (Lanes \X Dates)}

\* The entries of one field, and those that set a field at a date, or set a value.
FieldStrokes(V) == [field : Fields, entry : Strokes(Dates, V)]
Setting(V, g, d) == {x \in FieldStrokes(V) : x.field = g /\ d \in expandDates(x.entry)}
Valued(V, v) == {x \in FieldStrokes(V) : x.entry.value = v}

\* Of a lane's cells, the list sets what D names, to what it is to be, and nothing else.
Says(xs, V, want, lane, D) ==
  /\ xs \in Seq(FieldStrokes(V))
  /\ \A g \in Fields, d \in Dates :
       /\ Hits(xs, Setting(V, g, d)) <=> <<g, d>> \in D
       /\ Right(xs, Setting(V, g, d), Valued(V, want[<<lane, d>>][g]))

\* Each of n lists says its part of it.
EachSays(ss, n, V, want, lane, D) ==
  ss = [k \in 1..n |-> ss[k]] /\ \A k \in 1..n : Says(ss[k], V, want, lane, D[k])

\* What lists say, they say together.
LEMMA SaysTogether ==
  ASSUME NEW V, NEW want, NEW lane, NEW n \in Nat, NEW ss, NEW D,
         EachSays(ss, n, V, want, lane, D)
  PROVE  Says(FlattenSeq(ss), V, want, lane, UNION {D[k] : k \in 1..n})
  <1>1. ss \in Seq(Seq(FieldStrokes(V))) /\ DOMAIN ss = 1..n
    <2>1. ss = [k \in 1..n |-> ss[k]] /\ \A k \in 1..n : ss[k] \in Seq(FieldStrokes(V))
      BY DEF EachSays, Says
    <2> HIDE DEF FieldStrokes
    <2> QED
      BY <2>1
  <1>2. FlattenSeq(ss) \in Seq(FieldStrokes(V))
    BY <1>1, Flattened
  <1>3. ASSUME NEW g \in Fields, NEW d \in Dates
        PROVE  /\ Hits(FlattenSeq(ss), Setting(V, g, d)) <=> <<g, d>> \in UNION {D[k] : k \in 1..n}
               /\ Right(FlattenSeq(ss), Setting(V, g, d), Valued(V, want[<<lane, d>>][g]))
    <2> DEFINE G == Setting(V, g, d)
               R == Valued(V, want[<<lane, d>>][g])
    <2>1. \A k \in 1..n : (Hits(ss[k], G) <=> <<g, d>> \in D[k]) /\ Right(ss[k], G, R)
      BY DEF EachSays, Says
    <2> HIDE DEF G, R
    <2>2. /\ (\A k \in DOMAIN ss : Right(ss[k], G, R)) => Right(FlattenSeq(ss), G, R)
          /\ Hits(FlattenSeq(ss), G) <=> \E k \in DOMAIN ss : Hits(ss[k], G)
      BY <1>1, Flattened
    <2>3. Right(FlattenSeq(ss), G, R)
      BY <1>1, <2>1, <2>2
    <2>4. Hits(FlattenSeq(ss), G) <=> <<g, d>> \in UNION {D[k] : k \in 1..n}
      BY <1>1, <2>1, <2>2
    <2> QED
      BY <2>3, <2>4 DEF G, R
  <1> QED
    BY <1>2, <1>3 DEF Says

\* The dates of a lane that carry a field, and the value each has.
LEMMA DatesHaveValues ==
  ASSUME NEW V, NEW want \in Calendars(V), NEW lane, NEW g
  PROVE  /\ DatesWith(want, lane, g) \in SUBSET Dates
         /\ \A d \in DatesWith(want, lane, g) : want[<<lane, d>>][g] \in V
  <1>1. DatesWith(want, lane, g) \in SUBSET Dates
    BY DEF DatesWith
  <1>2. ASSUME NEW d \in DatesWith(want, lane, g) PROVE want[<<lane, d>>][g] \in V
    <2>1. <<lane, d>> \in DOMAIN want /\ g \in DOMAIN want[<<lane, d>>]
      BY DEF DatesWith
    <2>2. want[<<lane, d>>] \in SomeFields(V)
      BY <2>1 DEF Calendars
    <2> QED
      BY <2>1, <2>2 DEF SomeFields
  <1> QED
    BY <1>1, <1>2

\* One span of one field.
LEMMA SpanSays ==
  ASSUME NEW V, NEW want \in Calendars(V), NEW lane, NEW g \in Fields,
         NEW a \in Dates, NEW b \in Dates, a <= b, a..b \subseteq DatesWith(want, lane, g)
  PROVE  Says(OfSpan(want, lane, g, <<a, b>>), V, want, lane, {g} \X (a..b))
  <1> DEFINE S == a..b
             f == [d \in S |-> want[<<lane, d>>][g]]
             es == encodeSpan(S, f)
             os == OfSpan(want, lane, g, <<a, b>>)
             n == Len(es)
  <1>1. f \in [S -> V] /\ \A d \in S : f[d] = want[<<lane, d>>][g]
    BY DatesHaveValues
  <1>2. S \in SUBSET Dates
    BY SpanFacts
  <1>3. Encodes(es, S, V, f)
    <2> HIDE DEF f
    <2> QED
      BY <1>1, SpanIsEncoded
  <1>4. os = [i \in 1..n |-> [field |-> g, entry |-> es[i]]]
    BY DEF OfSpan
  <1>5. n \in Nat /\ DOMAIN es = 1..n /\ \A i \in 1..n : es[i] \in Strokes(S, V)
    <2>1. es \in Seq(Strokes(S, V))
      BY <1>3 DEF Encodes
    <2> HIDE DEF es
    <2> QED
      BY <2>1
  <1>6. \A d \in S : d \in a..b
    OBVIOUS
  <1>7. \A d \in a..b : d \in S
    OBVIOUS
  <1>8. \A d \in S : d \in Nat
    BY <1>2, DatesAreNumbers
  <1> HIDE DEF S, f, es, os, n
  <1>9. Strokes(S, V) \subseteq Strokes(Dates, V)
    BY <1>2 DEF Strokes
  <1>10. \A i \in 1..n : os[i] \in FieldStrokes(V) /\ os[i].field = g /\ os[i].entry = es[i]
    BY <1>4, <1>5, <1>9 DEF FieldStrokes
  <1>11. DOMAIN os = 1..n /\ os \in Seq(FieldStrokes(V))
    BY <1>4, <1>5, <1>10
  <1>12. \A i \in 1..n : \A d \in expandDates(es[i]) : d \in S
    <2> SUFFICES ASSUME NEW i \in 1..n, NEW d \in expandDates(es[i]) PROVE d \in S
      OBVIOUS
    <2>1. es[i].from \in S /\ es[i].to \in S /\ d \in es[i].from..es[i].to
      BY <1>5 DEF Strokes, expandDates
    <2>2. es[i].from \in a..b /\ es[i].to \in a..b /\ es[i].from \in Nat /\ es[i].to \in Nat
      BY <1>6, <1>8, <2>1
    <2>3. a \in Nat /\ b \in Nat
      BY DatesAreNumbers
    <2>4. d \in a..b
      BY <2>1, <2>2, <2>3
    <2> QED
      BY <1>7, <2>4
  <1>13. ASSUME NEW h \in Fields, NEW d \in Dates
         PROVE  /\ Hits(os, Setting(V, h, d)) <=> <<h, d>> \in {g} \X (a..b)
                /\ Right(os, Setting(V, h, d), Valued(V, want[<<lane, d>>][h]))
    <2>1. \A i \in 1..n : os[i] \in Setting(V, h, d) <=> h = g /\ d \in expandDates(es[i])
      BY <1>10 DEF Setting
    <2>2. \A i \in 1..n : \A v : os[i] \in Valued(V, v) <=> es[i].value = v
      BY <1>10 DEF Valued
    <2>3. CASE h = g /\ d \in S
      <3>1. Hits(es, On(S, V, d)) /\ Right(es, On(S, V, d), With(S, V, f[d]))
        BY <1>3, <2>3 DEF Encodes
      <3>2. \A i \in 1..n : /\ es[i] \in On(S, V, d) <=> d \in expandDates(es[i])
                            /\ es[i] \in With(S, V, f[d]) <=> es[i].value = f[d]
        BY <1>5 DEF On, With
      <3>3. Hits(os, Setting(V, h, d))
        BY <1>5, <1>11, <2>1, <2>3, <3>1, <3>2 DEF Hits
      <3>4. Right(os, Setting(V, h, d), Valued(V, f[d]))
        BY <1>5, <1>11, <2>1, <2>2, <2>3, <3>1, <3>2 DEF Right
      <3> QED
        BY <1>1, <1>6, <2>3, <3>3, <3>4
    <2>4. CASE ~ (h = g /\ d \in S)
      <3>1. \A i \in 1..n : os[i] \notin Setting(V, h, d)
        BY <1>12, <2>1, <2>4
      <3>2. ~ (<<h, d>> \in {g} \X (a..b))
        BY <1>7, <2>4
      <3> QED
        BY <1>11, <3>1, <3>2 DEF Hits, Right
    <2> QED
      BY <2>3, <2>4
  <1> QED
    BY <1>11, <1>13 DEF Says, os

\* The spans of one field.
LEMMA FieldSays ==
  ASSUME NEW V, NEW want \in Calendars(V), NEW lane, NEW g \in Fields
  PROVE  Says(OfField(want, lane, g), V, want, lane, {g} \X DatesWith(want, lane, g))
  <1> DEFINE S == DatesWith(want, lane, g)
             spans == contiguousSpans(S)
             n == Len(spans)
             ss == [i \in 1..n |-> OfSpan(want, lane, g, spans[i])]
             D == [i \in 1..n |-> {g} \X (spans[i][1]..spans[i][2])]
  <1>1. S \in SUBSET Dates
    BY DatesHaveValues
  <1>2. Lists(spans, Intervals(S, S))
    <2> HIDE DEF S
    <2> QED
      BY <1>1, ByStartLists DEF contiguousSpans
  <1>3. /\ \A r \in Intervals(S, S) : r[1] \in S /\ r[2] \in S /\ r[1] <= r[2] /\ r[1]..r[2] \subseteq S
        /\ \A d \in S : \E r \in Intervals(S, S) : d \in r[1]..r[2]
    <2> HIDE DEF S
    <2> QED
      BY <1>1, IntervalsOfDates
  <1>4. \A r \in Intervals(S, S) : r = <<r[1], r[2]>>
    BY DEF Intervals
  <1>5. OfField(want, lane, g) = FlattenSeq(ss)
    BY DEF OfField
  <1>6. S = DatesWith(want, lane, g)
    OBVIOUS
  <1> HIDE DEF S, spans
  <1>7. /\ n \in Nat /\ \A i \in 1..n : spans[i] \in Intervals(S, S)
        /\ \A r \in Intervals(S, S) : \E i \in 1..n : spans[i] = r
    <2>1. Len(spans) = Cardinality(Intervals(S, S))
      BY <1>2 DEF Lists
    <2> QED
      BY <1>2, <2>1 DEF Lists
  <1>8. \A i \in 1..n : Says(ss[i], V, want, lane, D[i])
    <2> SUFFICES ASSUME NEW i \in 1..n PROVE Says(ss[i], V, want, lane, D[i])
      OBVIOUS
    <2> DEFINE a == spans[i][1]
               b == spans[i][2]
    <2>1. /\ a \in S /\ b \in S /\ a <= b /\ a..b \subseteq S /\ spans[i] = <<a, b>>
      BY <1>3, <1>4, <1>7
    <2>2. a \in Dates /\ b \in Dates
      BY <1>1, <2>1
    <2>3. ss[i] = OfSpan(want, lane, g, spans[i]) /\ D[i] = {g} \X (a..b)
      OBVIOUS
    <2> HIDE DEF a, b, ss, D
    <2>4. Says(OfSpan(want, lane, g, <<a, b>>), V, want, lane, {g} \X (a..b))
      BY <1>6, <2>1, <2>2, SpanSays
    <2> QED
      BY <2>1, <2>3, <2>4
  <1>9. UNION {D[i] : i \in 1..n} = {g} \X S
    <2>1. \A i \in 1..n : D[i] \subseteq {g} \X S
      BY <1>3, <1>7
    <2>2. \A d \in S : \E i \in 1..n : <<g, d>> \in D[i]
      <3> SUFFICES ASSUME NEW d \in S PROVE \E i \in 1..n : <<g, d>> \in D[i]
        OBVIOUS
      <3>1. PICK r \in Intervals(S, S) : d \in r[1]..r[2]
        BY <1>3
      <3>2. PICK i \in 1..n : spans[i] = r
        BY <1>7
      <3> QED
        BY <3>1, <3>2
    <2> HIDE DEF D
    <2> QED
      BY <2>1, <2>2
  <1>10. ss = [i \in 1..n |-> ss[i]]
    OBVIOUS
  <1> HIDE DEF ss, D, n
  <1>11. n \in Nat
    BY <1>7
  <1>12. Says(FlattenSeq(ss), V, want, lane, UNION {D[i] : i \in 1..n})
    <2>1. EachSays(ss, n, V, want, lane, D)
      BY <1>8, <1>10 DEF EachSays
    <2> QED
      BY <1>11, <2>1, SaysTogether
  <1> QED
    BY <1>5, <1>6, <1>9, <1>12

\* All the fields of a lane.
LEMMA LaneSays ==
  ASSUME NEW V, NEW want \in Calendars(V), NEW lane
  PROVE  Says(FieldEntries(want, lane), V, want, lane,
              UNION {{g} \X DatesWith(want, lane, g) : g \in Fields})
  <1> DEFINE n == Len(FieldOrder)
             ss == [i \in 1..n |-> OfField(want, lane, FieldOrder[i])]
             D == [i \in 1..n |-> {FieldOrder[i]} \X DatesWith(want, lane, FieldOrder[i])]
  <1>1. /\ n \in Nat /\ \A i \in 1..n : FieldOrder[i] \in Fields
        /\ \A g \in Fields : \E i \in 1..n : FieldOrder[i] = g
    BY OrdersAreLists DEF Fields, ToSet
  <1>2. \A i \in 1..n : Says(ss[i], V, want, lane, D[i])
    <2> SUFFICES ASSUME NEW i \in 1..n PROVE Says(ss[i], V, want, lane, D[i])
      OBVIOUS
    <2> DEFINE g == FieldOrder[i]
    <2>1. g \in Fields /\ ss[i] = OfField(want, lane, g) /\ D[i] = {g} \X DatesWith(want, lane, g)
      BY <1>1
    <2> HIDE DEF g, ss, D
    <2> QED
      BY <2>1, FieldSays
  <1>3. UNION {D[i] : i \in 1..n} = UNION {{g} \X DatesWith(want, lane, g) : g \in Fields}
    <2> DEFINE E(g) == {g} \X DatesWith(want, lane, g)
    <2>1. \A i \in 1..n : D[i] = E(FieldOrder[i])
      OBVIOUS
    <2> HIDE DEF E, D, n
    <2>2. UNION {D[i] : i \in 1..n} = UNION {E(g) : g \in Fields}
      BY <1>1, <2>1
    <2> QED
      BY <2>2 DEF E
  <1>4. ss = [i \in 1..n |-> ss[i]]
    OBVIOUS
  <1>5. FieldEntries(want, lane) = FlattenSeq(ss)
    BY DEF FieldEntries
  <1> HIDE DEF ss, D, n
  <1>6. Says(FlattenSeq(ss), V, want, lane, UNION {D[i] : i \in 1..n})
    <2>1. EachSays(ss, n, V, want, lane, D)
      BY <1>2, <1>4 DEF EachSays
    <2> QED
      BY <1>1, <2>1, SaysTogether
  <1> QED
    BY <1>3, <1>5, <1>6

-----------------------------------------------------------------------------
(* Merging *)

\* The entries of a batch, and those that set a field of a cell, or set it to a value.
BatchStrokes(V) ==
  {e \in [lane : Lanes, from : Dates, to : Dates, days : SUBSET AllDays, vals : SomeFields(V)] :
     e.from <= e.to}
Sets(V, c, g) == {e \in BatchStrokes(V) : Covers(e, c) /\ g \in DOMAIN e.vals}
SetsTo(V, g, v) == {e \in BatchStrokes(V) : g \in DOMAIN e.vals /\ e.vals[g] = v}

\* Whatever is last set, the merged entries set as the field entries do.
Merges(es, xs, V, lane) ==
  /\ es \in Seq(BatchStrokes(V))
  /\ \A i \in DOMAIN es : es[i].lane = lane
  /\ \A g \in Fields, d \in Dates :
       /\ Hits(es, Sets(V, <<lane, d>>, g)) <=> Hits(xs, Setting(V, g, d))
       /\ \A v : Right(xs, Setting(V, g, d), Valued(V, v)) =>
                   Right(es, Sets(V, <<lane, d>>, g), SetsTo(V, g, v))

\* The entry that a field entry is by itself.
LEMMA EntryAlone ==
  ASSUME NEW V, NEW lane \in Lanes, NEW x \in FieldStrokes(V), NEW e,
         e = [lane |-> lane, from |-> x.entry.from, to |-> x.entry.to, days |-> x.entry.days,
              vals |-> [g \in {x.field} |-> x.entry.value]]
  PROVE  /\ e \in BatchStrokes(V)
         /\ \A g \in Fields, d \in Dates :
              e \in Sets(V, <<lane, d>>, g) <=> x \in Setting(V, g, d)
         /\ e \in SetsTo(V, x.field, x.entry.value)
  <1>1. /\ x.field \in Fields /\ x.entry.from \in Dates /\ x.entry.to \in Dates
        /\ x.entry.days \in SUBSET AllDays /\ x.entry.value \in V /\ x.entry.from <= x.entry.to
    BY DEF FieldStrokes, Strokes
  <1> DEFINE vals == [g \in {x.field} |-> x.entry.value]
  <1>2. vals \in SomeFields(V) /\ DOMAIN vals = {x.field} /\ vals[x.field] = x.entry.value
    <2>1. {x.field} \in (SUBSET Fields) \ {{}} /\ vals \in [{x.field} -> V]
      BY <1>1
    <2> QED
      BY <2>1 DEF SomeFields
  <1> HIDE DEF vals
  <1>3. /\ e.lane = lane /\ e.from = x.entry.from /\ e.to = x.entry.to
        /\ e.days = x.entry.days /\ e.vals = vals
    BY DEF vals
  <1>4. e \in BatchStrokes(V)
    <2>1. e = [lane |-> lane, from |-> x.entry.from, to |-> x.entry.to, days |-> x.entry.days,
               vals |-> vals]
      BY DEF vals
    <2> QED
      BY <1>1, <1>2, <2>1 DEF BatchStrokes
  <1>5. expandDates(e) = expandDates(x.entry)
    BY <1>3 DEF expandDates
  <1>6. ASSUME NEW g \in Fields, NEW d \in Dates
        PROVE  e \in Sets(V, <<lane, d>>, g) <=> x \in Setting(V, g, d)
    <2>1. Covers(e, <<lane, d>>) <=> d \in expandDates(x.entry)
      BY <1>3, <1>5 DEF Covers
    <2>2. g \in DOMAIN e.vals <=> g = x.field
      BY <1>2, <1>3
    <2> QED
      BY <1>4, <2>1, <2>2 DEF Sets, Setting
  <1>7. e \in SetsTo(V, x.field, x.entry.value)
    BY <1>2, <1>3, <1>4 DEF SetsTo
  <1> QED
    BY <1>4, <1>6, <1>7

\* The entry that a field entry makes of one of the same range.
joined(e, x) == [e EXCEPT !.vals = [g \in DOMAIN e.vals \cup {x.field} |->
                                      IF g = x.field THEN x.entry.value ELSE e.vals[g]]]

LEMMA EntryJoined ==
  ASSUME NEW V, NEW lane \in Lanes, NEW x \in FieldStrokes(V),
         NEW e \in BatchStrokes(V), e.lane = lane, NEW k,
         e.from = x.entry.from, e.to = x.entry.to, e.days = x.entry.days, k = joined(e, x)
  PROVE  /\ k \in BatchStrokes(V) /\ k.lane = lane
         /\ \A g \in Fields, d \in Dates :
              /\ x \in Setting(V, g, d) =>
                   k \in Sets(V, <<lane, d>>, g) /\ k \in SetsTo(V, g, x.entry.value)
              /\ x.field # g =>
                   /\ k \in Sets(V, <<lane, d>>, g) <=> e \in Sets(V, <<lane, d>>, g)
                   /\ \A v : e \in SetsTo(V, g, v) => k \in SetsTo(V, g, v)
              /\ k \in Sets(V, <<lane, d>>, g) =>
                   e \in Sets(V, <<lane, d>>, g) \/ x \in Setting(V, g, d)
  <1> DEFINE vals == [g \in DOMAIN e.vals \cup {x.field} |->
                        IF g = x.field THEN x.entry.value ELSE e.vals[g]]
  <1>1. /\ x.field \in Fields /\ x.entry.value \in V
    BY DEF FieldStrokes, Strokes
  <1>2. /\ e = [lane |-> e.lane, from |-> e.from, to |-> e.to, days |-> e.days, vals |-> e.vals]
        /\ e.lane \in Lanes /\ e.from \in Dates /\ e.to \in Dates /\ e.days \in SUBSET AllDays
        /\ e.vals \in SomeFields(V) /\ e.from <= e.to
    BY DEF BatchStrokes
  <1>3. PICK F \in (SUBSET Fields) \ {{}} : e.vals \in [F -> V]
    BY <1>2 DEF SomeFields
  <1>4. DOMAIN e.vals = F
    BY <1>3
  <1>5. /\ vals \in SomeFields(V) /\ DOMAIN vals = DOMAIN e.vals \cup {x.field}
        /\ vals[x.field] = x.entry.value
        /\ \A g \in DOMAIN e.vals : g # x.field => vals[g] = e.vals[g]
    <2>1. F \cup {x.field} \in (SUBSET Fields) \ {{}} /\ vals \in [F \cup {x.field} -> V]
      BY <1>1, <1>3, <1>4
    <2> QED
      BY <2>1 DEF SomeFields
  <1>6. k = [lane |-> e.lane, from |-> e.from, to |-> e.to, days |-> e.days, vals |-> vals]
    BY <1>2 DEF joined
  <1> HIDE DEF vals
  <1>7. /\ k.lane = lane /\ k.from = e.from /\ k.to = e.to /\ k.days = e.days /\ k.vals = vals
        /\ k \in BatchStrokes(V)
    BY <1>2, <1>5, <1>6 DEF BatchStrokes
  <1>8. expandDates(k) = expandDates(e) /\ expandDates(x.entry) = expandDates(e)
    BY <1>7 DEF expandDates
  <1>9. ASSUME NEW g \in Fields, NEW d \in Dates
        PROVE  /\ x \in Setting(V, g, d) =>
                   k \in Sets(V, <<lane, d>>, g) /\ k \in SetsTo(V, g, x.entry.value)
               /\ x.field # g =>
                   /\ k \in Sets(V, <<lane, d>>, g) <=> e \in Sets(V, <<lane, d>>, g)
                   /\ \A v : e \in SetsTo(V, g, v) => k \in SetsTo(V, g, v)
               /\ k \in Sets(V, <<lane, d>>, g) =>
                   e \in Sets(V, <<lane, d>>, g) \/ x \in Setting(V, g, d)
    <2>1. /\ Covers(k, <<lane, d>>) <=> d \in expandDates(e)
          /\ Covers(e, <<lane, d>>) <=> d \in expandDates(e)
      BY <1>7, <1>8 DEF Covers
    <2>2. /\ k \in Sets(V, <<lane, d>>, g) <=> d \in expandDates(e) /\ g \in DOMAIN vals
          /\ e \in Sets(V, <<lane, d>>, g) <=> d \in expandDates(e) /\ g \in DOMAIN e.vals
          /\ x \in Setting(V, g, d) <=> x.field = g /\ d \in expandDates(e)
      BY <1>7, <1>8, <2>1 DEF Sets, Setting
    <2>3. \A v : /\ k \in SetsTo(V, g, v) <=> g \in DOMAIN vals /\ vals[g] = v
                 /\ e \in SetsTo(V, g, v) <=> g \in DOMAIN e.vals /\ e.vals[g] = v
      BY <1>7 DEF SetsTo
    <2>4. x.field # g /\ g \in DOMAIN e.vals => vals[g] = e.vals[g]
      BY <1>5
    <2> QED
      BY <1>5, <2>2, <2>3, <2>4
  <1> QED
    BY <1>7, <1>9

\* One round of the merge.  A field entry that joins an entry before the end is still after
\* every entry its field is in.
LEMMA OneMerged ==
  ASSUME NEW V, NEW lane \in Lanes, NEW es \in Seq(BatchStrokes(V)),
         \A i \in DOMAIN es : es[i].lane = lane, NEW x \in FieldStrokes(V)
  PROVE  /\ MergeOne(lane, es, x) \in Seq(BatchStrokes(V))
         /\ \A i \in DOMAIN MergeOne(lane, es, x) : MergeOne(lane, es, x)[i].lane = lane
         /\ \A g \in Fields, d \in Dates :
              IF x \in Setting(V, g, d)
              THEN /\ Hits(MergeOne(lane, es, x), Sets(V, <<lane, d>>, g))
                   /\ Right(MergeOne(lane, es, x), Sets(V, <<lane, d>>, g),
                            SetsTo(V, g, x.entry.value))
              ELSE /\ Hits(MergeOne(lane, es, x), Sets(V, <<lane, d>>, g))
                        <=> Hits(es, Sets(V, <<lane, d>>, g))
                   /\ \A v : Right(es, Sets(V, <<lane, d>>, g), SetsTo(V, g, v)) =>
                               Right(MergeOne(lane, es, x), Sets(V, <<lane, d>>, g), SetsTo(V, g, v))
  <1> DEFINE ms == MergeOne(lane, es, x)
             n == Len(es)
             Same == SameRange(es, x)
             Outcome(g, d) ==
               IF x \in Setting(V, g, d)
               THEN /\ Hits(ms, Sets(V, <<lane, d>>, g))
                    /\ Right(ms, Sets(V, <<lane, d>>, g), SetsTo(V, g, x.entry.value))
               ELSE /\ Hits(ms, Sets(V, <<lane, d>>, g)) <=> Hits(es, Sets(V, <<lane, d>>, g))
                    /\ \A v : Right(es, Sets(V, <<lane, d>>, g), SetsTo(V, g, v)) =>
                                Right(ms, Sets(V, <<lane, d>>, g), SetsTo(V, g, v))
  <1>1. /\ n \in Nat /\ DOMAIN es = 1..n /\ \A i \in 1..n : es[i] \in BatchStrokes(V)
        /\ es = [i \in 1..n |-> es[i]]
    OBVIOUS
  <1>2. CASE ~ Joins(es, x)
    <2> DEFINE e == [lane |-> lane, from |-> x.entry.from, to |-> x.entry.to,
                     days |-> x.entry.days, vals |-> [g \in {x.field} |-> x.entry.value]]
    <2>1. ms = Append(es, e)
      BY <1>2 DEF MergeOne
    <2>2. e.lane = lane
      OBVIOUS
    <2>3. /\ e \in BatchStrokes(V)
          /\ \A g \in Fields, d \in Dates :
              e \in Sets(V, <<lane, d>>, g) <=> x \in Setting(V, g, d)
          /\ e \in SetsTo(V, x.field, x.entry.value)
      <3> HIDE DEF ms, n, Same, Outcome
      <3> QED
        BY EntryAlone
    <2> HIDE DEF e, ms
    <2>4. /\ ms \in Seq(BatchStrokes(V)) /\ DOMAIN ms = 1..(n + 1) /\ ms[n + 1] = e
          /\ \A i \in 1..n : ms[i] = es[i]
      BY <2>1, <2>3
    <2>5. \A i \in 1..(n + 1) : i \in 1..n \/ i = n + 1
      BY <1>1
    <2>6. \A i \in 1..n : i \in 1..(n + 1) /\ n + 1 > i /\ ~ (i > n + 1)
      BY <1>1
    <2>7. n + 1 \in 1..(n + 1)
      BY <1>1
    <2> HIDE DEF n
    <2>8. \A i \in DOMAIN ms : ms[i].lane = lane
      BY <1>1, <2>2, <2>4, <2>5
    <2>9. ASSUME NEW g \in Fields, NEW d \in Dates PROVE Outcome(g, d)
      <3> DEFINE G == Sets(V, <<lane, d>>, g)
      <3>1. CASE x \in Setting(V, g, d)
        <4>1. e \in G /\ e \in SetsTo(V, g, x.entry.value)
          BY <2>3, <3>1 DEF Setting
        <4> HIDE DEF G
        <4>2. Hits(ms, G)
          BY <2>4, <2>7, <4>1 DEF Hits
        <4>3. Right(ms, G, SetsTo(V, g, x.entry.value))
          BY <2>4, <2>5, <2>6, <2>7, <4>1 DEF Right
        <4> QED
          BY <3>1, <4>2, <4>3 DEF G
      <3>2. CASE x \notin Setting(V, g, d)
        <4>1. e \notin G
          BY <2>3, <3>2
        <4> HIDE DEF G
        <4>2. Hits(ms, G) <=> Hits(es, G)
          BY <1>1, <2>4, <2>5, <2>6, <4>1 DEF Hits
        <4>3. ASSUME NEW v, Right(es, G, SetsTo(V, g, v)) PROVE Right(ms, G, SetsTo(V, g, v))
          BY <1>1, <2>4, <2>5, <2>6, <4>1, <4>3 DEF Right
        <4> QED
          BY <3>2, <4>2, <4>3 DEF G
      <3> QED
        BY <3>1, <3>2
    <2> QED
      BY <2>4, <2>8, <2>9 DEF ms
  <1>3. CASE Joins(es, x)
    <2> DEFINE m == Max(Same)
               k == joined(es[m], x)
    <2>1. /\ m \in 1..n /\ m \in Same
          /\ \A i \in WithField(es, x) : i < m
      <3>1. Same \in SUBSET (0..n) /\ Same # {} /\ Same \subseteq 1..n
        BY <1>1, <1>3 DEF Joins, SameRange
      <3> HIDE DEF Same
      <3>2. m \in Same
        BY <1>1, <3>1, MinMax
      <3>3. \A i \in WithField(es, x) : i < m
        BY <1>3 DEF Joins, Same
      <3> QED
        BY <3>1, <3>2, <3>3
    <2>2. ms = [es EXCEPT ![m] = k]
      BY <1>3, <2>1 DEF MergeOne, joined
    <2>3. /\ es[m].from = x.entry.from /\ es[m].to = x.entry.to /\ es[m].days = x.entry.days
          /\ es[m] \in BatchStrokes(V) /\ es[m].lane = lane
      BY <1>1, <2>1 DEF SameRange
    <2> HIDE DEF m, ms, Outcome, n, Same
    <2>4. /\ k \in BatchStrokes(V) /\ k.lane = lane
          /\ \A g \in Fields, d \in Dates :
              /\ x \in Setting(V, g, d) =>
                   k \in Sets(V, <<lane, d>>, g) /\ k \in SetsTo(V, g, x.entry.value)
              /\ x.field # g =>
                   /\ k \in Sets(V, <<lane, d>>, g) <=> es[m] \in Sets(V, <<lane, d>>, g)
                   /\ \A v : es[m] \in SetsTo(V, g, v) => k \in SetsTo(V, g, v)
              /\ k \in Sets(V, <<lane, d>>, g) =>
                   es[m] \in Sets(V, <<lane, d>>, g) \/ x \in Setting(V, g, d)
      BY <2>3, EntryJoined
    <2> HIDE DEF k
    <2>5. /\ ms \in Seq(BatchStrokes(V)) /\ DOMAIN ms = 1..n /\ ms[m] = k
          /\ \A i \in 1..n : i # m => ms[i] = es[i]
      BY <1>1, <2>1, <2>2, <2>4
    <2>6. \A i \in DOMAIN ms : ms[i].lane = lane
      BY <1>1, <2>4, <2>5
    <2>7. \A d \in Dates : \A i \in 1..n : es[i] \in Sets(V, <<lane, d>>, x.field) => i < m
      BY <1>1, <2>1 DEF Sets, WithField
    <2>8. ASSUME NEW g \in Fields, NEW d \in Dates PROVE Outcome(g, d)
      <3> DEFINE G == Sets(V, <<lane, d>>, g)
      <3>1. \A i \in 1..n : i > m => i # m /\ ~ (i < m)
        BY <2>1 DEF n
      <3>2. CASE x \in Setting(V, g, d)
        <4>1. k \in G /\ k \in SetsTo(V, g, x.entry.value) /\ x.field = g
          BY <2>4, <3>2 DEF Setting
        <4>2. \A i \in 1..n : es[i] \in G => i < m
          BY <2>7, <4>1
        <4> HIDE DEF G
        <4>3. Hits(ms, G)
          BY <2>1, <2>5, <4>1 DEF Hits
        <4>4. ASSUME NEW i \in 1..n, ms[i] \in G, \A j \in 1..n : j > i => ms[j] \notin G
              PROVE  ms[i] \in SetsTo(V, g, x.entry.value)
          <5>1. ~ (m > i)
            BY <2>1, <2>5, <4>1, <4>4
          <5>2. i # m => ms[i] = es[i] /\ i < m
            BY <2>5, <4>2, <4>4
          <5>3. i = m
            BY <1>1, <2>1, <5>1, <5>2
          <5> QED
            BY <2>5, <4>1, <5>3
        <4>5. Right(ms, G, SetsTo(V, g, x.entry.value))
          BY <2>5, <4>4 DEF Right
        <4> QED
          BY <3>2, <4>3, <4>5 DEF G, Outcome
      <3>3. CASE x \notin Setting(V, g, d)
        <4>1. k \in G <=> es[m] \in G
          <5>1. CASE x.field # g
            BY <2>4, <5>1
          <5>2. CASE x.field = g
            <6>1. es[m] \notin G
              <7>1. ~ (m < m)
                BY <1>1, <2>1
              <7> QED
                BY <2>1, <2>7, <5>2, <7>1
            <6> QED
              BY <2>4, <3>3, <6>1
          <5> QED
            BY <5>1, <5>2
        <4>2. ASSUME NEW v, es[m] \in G, es[m] \in SetsTo(V, g, v) PROVE k \in SetsTo(V, g, v)
          <5>1. x.field # g
            <6>1. ~ (m < m)
              BY <1>1, <2>1
            <6> QED
              BY <2>1, <2>7, <4>2, <6>1
          <5> QED
            BY <2>4, <4>2, <5>1
        <4> HIDE DEF G
        <4>3. \A i \in 1..n : ms[i] \in G <=> es[i] \in G
          BY <2>5, <4>1
        <4>4. Hits(ms, G) <=> Hits(es, G)
          BY <1>1, <2>5, <4>3 DEF Hits
        <4>5. ASSUME NEW v, Right(es, G, SetsTo(V, g, v)) PROVE Right(ms, G, SetsTo(V, g, v))
          <5> SUFFICES ASSUME NEW i \in 1..n, ms[i] \in G,
                              \A j \in 1..n : j > i => ms[j] \notin G
                       PROVE  ms[i] \in SetsTo(V, g, v)
            BY <2>5 DEF Right
          <5>1. es[i] \in G /\ es[i] \in SetsTo(V, g, v)
            BY <1>1, <4>3, <4>5 DEF Right
          <5> QED
            BY <2>5, <4>2, <5>1
        <4> QED
          BY <3>3, <4>4, <4>5 DEF G, Outcome
      <3> QED
        BY <3>2, <3>3
    <2> QED
      BY <2>5, <2>6, <2>8 DEF ms, Outcome
  <1> QED
    BY <1>2, <1>3

\* p is the first n of xs.
FirstOf(p, n, xs) == p = [i \in 1..n |-> xs[i]]

\* The first entries of a list, and one more.
LEMMA OneFurther ==
  ASSUME NEW xs, NEW n \in Nat, NEW G, NEW R, NEW p, NEW q,
         FirstOf(p, n, xs), FirstOf(q, n + 1, xs)
  PROVE  /\ xs[n + 1] \in G => Hits(q, G) /\ (Right(q, G, R) => xs[n + 1] \in R)
         /\ xs[n + 1] \notin G => (Hits(q, G) <=> Hits(p, G)) /\ (Right(q, G, R) => Right(p, G, R))
  <1>1. /\ DOMAIN p = 1..n /\ DOMAIN q = 1..(n + 1) /\ n + 1 \in 1..(n + 1)
        /\ \A i \in 1..n : p[i] = xs[i] /\ q[i] = xs[i] /\ i \in 1..(n + 1)
        /\ q[n + 1] = xs[n + 1]
        /\ \A i \in 1..(n + 1) : (i \in 1..n \/ i = n + 1) /\ ~ (i > n + 1)
    BY DEF FirstOf
  <1>2. CASE xs[n + 1] \in G
    BY <1>1, <1>2 DEF Hits, Right
  <1>3. CASE xs[n + 1] \notin G
    <2>1. Hits(q, G) <=> Hits(p, G)
      BY <1>1, <1>3 DEF Hits
    <2>2. ASSUME Right(q, G, R) PROVE Right(p, G, R)
      <3> SUFFICES ASSUME NEW i \in 1..n, p[i] \in G, \A j \in 1..n : j > i => p[j] \notin G
                   PROVE  p[i] \in R
        BY <1>1 DEF Right
      <3>1. \A j \in 1..(n + 1) : j > i => q[j] \notin G
        BY <1>1, <1>3
      <3> QED
        BY <1>1, <2>2, <3>1 DEF Right
    <2> QED
      BY <1>3, <2>1, <2>2
  <1> QED
    BY <1>2, <1>3

\* All rounds of the merge.
LEMMA AllMerged ==
  ASSUME NEW V, NEW lane \in Lanes, NEW xs \in Seq(FieldStrokes(V))
  PROVE  Merges(MergeAll(lane, xs), xs, V, lane)
  <1> DEFINE n == Len(xs)
             W == {es \in Seq(BatchStrokes(V)) : \A i \in DOMAIN es : es[i].lane = lane}
             h == [p \in (0..n) \X W |->
                     IF p[1] \in 1..n THEN MergeOne(lane, p[2], xs[p[1]]) ELSE <<>>]
             IsMerged(f) == f = [i \in 0..n |-> IF i = 0 THEN <<>> ELSE MergeOne(lane, f[i - 1], xs[i])]
             f0 == CHOOSE f : IsMerged(f)
             upTo(k) == [i \in 1..k |-> xs[i]]
             P == {k \in 0..n : Merges(f0[k], upTo(k), V, lane)}
  <1>1. n \in Nat /\ \A i \in 1..n : xs[i] \in FieldStrokes(V)
    OBVIOUS
  <1>2. <<>> \in W
    <2>1. <<>> \in Seq(BatchStrokes(V))
      OBVIOUS
    <2> QED
      BY <2>1
  <1>3. \A es \in W : \A i \in 1..n : MergeOne(lane, es, xs[i]) \in W
    <2> SUFFICES ASSUME NEW es \in W, NEW i \in 1..n PROVE MergeOne(lane, es, xs[i]) \in W
      OBVIOUS
    <2>1. xs[i] \in FieldStrokes(V) /\ es \in Seq(BatchStrokes(V)) /\ \A j \in DOMAIN es : es[j].lane = lane
      BY <1>1
    <2> DEFINE x == xs[i]
    <2> HIDE DEF x
    <2>2. /\ MergeOne(lane, es, x) \in Seq(BatchStrokes(V))
          /\ \A j \in DOMAIN MergeOne(lane, es, x) : MergeOne(lane, es, x)[j].lane = lane
      BY <2>1, OneMerged DEF x
    <2> QED
      BY <2>2 DEF x
  <1> HIDE DEF n, W
  <1>4. h \in [(0..n) \X W -> W]
    BY <1>2, <1>3
  <1>5. PICK f \in [0..n -> W] : Stepwise(f, 0, n, <<>>, h)
    <2> DEFINE a == <<>>
    <2>1. a \in W /\ 0 \in Nat
      BY <1>2
    <2> HIDE DEF a, h
    <2>2. \E f \in [0..n -> W] : Stepwise(f, 0, n, a, h)
      BY <1>1, <1>4, <2>1, StepByStep
    <2> QED
      BY <2>2 DEF a
  <1>6. IsMerged(f)
    <2>1. ASSUME NEW i \in 0..n
          PROVE  f[i] = IF i = 0 THEN <<>> ELSE MergeOne(lane, f[i - 1], xs[i])
      <3>1. CASE i = 0
        BY <1>5, <3>1 DEF Stepwise
      <3>2. CASE i # 0
        <4>1. i \in 1..n /\ i - 1 \in 0..n /\ <<i, f[i - 1]>> \in (0..n) \X W
          BY <1>1, <1>5, <3>2
        <4>2. f[i] = h[<<i, f[i - 1]>>]
          BY <1>5, <3>2 DEF Stepwise
        <4> QED
          BY <3>2, <4>1, <4>2
      <3> QED
        BY <3>1, <3>2
    <2>2. f = [i \in 0..n |-> f[i]]
      BY <1>5
    <2> QED
      BY <2>1, <2>2
  <1>7. IsMerged(f0)
    <2> HIDE DEF IsMerged
    <2> QED
      BY <1>6
  <1>8. MergeAll(lane, xs) = f0[n]
    BY DEF MergeAll, n
  <1> HIDE DEF f0, h
  <1>9. f0[0] = <<>> /\ \A i \in 0..n : i # 0 => f0[i] = MergeOne(lane, f0[i - 1], xs[i])
    BY <1>1, <1>7
  <1> HIDE DEF IsMerged
  <1>10. 0 \in P
    <2>1. upTo(0) = <<>> /\ f0[0] = <<>> /\ 0 \in 0..n
      BY <1>1, <1>9
    <2>2. <<>> \in Seq(BatchStrokes(V))
      OBVIOUS
    <2>3. Merges(<<>>, <<>>, V, lane)
      BY <2>2 DEF Merges, Hits, Right
    <2> QED
      BY <2>1, <2>3
  <1>11. ASSUME NEW k \in 0..n, k \in P, k < n PROVE k + 1 \in P
    <2> DEFINE es == f0[k]
               x == xs[k + 1]
               p == upTo(k)
               q == upTo(k + 1)
    <2>1. k + 1 \in 0..n /\ k + 1 \in 1..n /\ (k + 1) - 1 = k /\ k + 1 # 0 /\ k \in Nat
      BY <1>1, <1>11
    <2>2. f0[k + 1] = MergeOne(lane, es, x)
      BY <1>9, <2>1
    <2>3. Merges(es, p, V, lane)
      BY <1>11
    <2>4. x \in FieldStrokes(V)
      BY <1>1, <2>1
    <2>5. FirstOf(p, k, xs) /\ FirstOf(q, k + 1, xs)
      BY DEF FirstOf
    <2>6. x = xs[k + 1]
      OBVIOUS
    <2> HIDE DEF es, x, p, q
    <2>7. /\ es \in Seq(BatchStrokes(V)) /\ \A i \in DOMAIN es : es[i].lane = lane
      BY <2>3 DEF Merges
    <2> DEFINE ms == MergeOne(lane, es, x)
    <2>8. /\ ms \in Seq(BatchStrokes(V))
          /\ \A i \in DOMAIN ms : ms[i].lane = lane
          /\ \A g \in Fields, d \in Dates :
              IF x \in Setting(V, g, d)
              THEN /\ Hits(ms, Sets(V, <<lane, d>>, g))
                   /\ Right(ms, Sets(V, <<lane, d>>, g), SetsTo(V, g, x.entry.value))
              ELSE /\ Hits(ms, Sets(V, <<lane, d>>, g)) <=> Hits(es, Sets(V, <<lane, d>>, g))
                   /\ \A v : Right(es, Sets(V, <<lane, d>>, g), SetsTo(V, g, v)) =>
                               Right(ms, Sets(V, <<lane, d>>, g), SetsTo(V, g, v))
      BY <2>4, <2>7, OneMerged
    <2> HIDE DEF ms
    <2>9. ASSUME NEW g \in Fields, NEW d \in Dates
          PROVE  /\ Hits(ms, Sets(V, <<lane, d>>, g)) <=> Hits(q, Setting(V, g, d))
                 /\ \A v : Right(q, Setting(V, g, d), Valued(V, v)) =>
                             Right(ms, Sets(V, <<lane, d>>, g), SetsTo(V, g, v))
      <3> DEFINE G == Setting(V, g, d)
                 H == Sets(V, <<lane, d>>, g)
      <3> HIDE DEF H
      <3>1. /\ Hits(es, H) <=> Hits(p, G)
            /\ \A v : Right(p, G, Valued(V, v)) => Right(es, H, SetsTo(V, g, v))
        BY <2>3 DEF Merges, H
      <3> HIDE DEF G
      <3>2. \A v : /\ x \in G => Hits(q, G) /\ (Right(q, G, Valued(V, v)) => x \in Valued(V, v))
                   /\ x \notin G => /\ Hits(q, G) <=> Hits(p, G)
                                    /\ Right(q, G, Valued(V, v)) => Right(p, G, Valued(V, v))
        <4> SUFFICES ASSUME NEW v
                     PROVE  /\ x \in G => Hits(q, G) /\ (Right(q, G, Valued(V, v)) => x \in Valued(V, v))
                            /\ x \notin G => /\ Hits(q, G) <=> Hits(p, G)
                                             /\ Right(q, G, Valued(V, v)) => Right(p, G, Valued(V, v))
          OBVIOUS
        <4> DEFINE R == Valued(V, v)
        <4> HIDE DEF R
        <4>1. /\ xs[k + 1] \in G => Hits(q, G) /\ (Right(q, G, R) => xs[k + 1] \in R)
              /\ xs[k + 1] \notin G => (Hits(q, G) <=> Hits(p, G)) /\ (Right(q, G, R) => Right(p, G, R))
          BY <2>1, <2>5, OneFurther
        <4> QED
          BY <2>6, <4>1 DEF R
      <3>3. \A v : x \in Valued(V, v) => x.entry.value = v
        BY DEF Valued
      <3>4. CASE x \in G
        <4>1. Hits(ms, H) /\ Right(ms, H, SetsTo(V, g, x.entry.value))
          BY <2>8, <3>4 DEF G, H
        <4>2. Hits(q, G)
          BY <3>2, <3>4
        <4>3. \A v : Right(q, G, Valued(V, v)) => Right(ms, H, SetsTo(V, g, v))
          BY <3>2, <3>3, <3>4, <4>1
        <4> QED
          BY <4>1, <4>2, <4>3 DEF G, H
      <3>5. CASE x \notin G
        <4>1. /\ Hits(ms, H) <=> Hits(es, H)
              /\ \A v : Right(es, H, SetsTo(V, g, v)) => Right(ms, H, SetsTo(V, g, v))
          BY <2>8, <3>5 DEF G, H
        <4>2. Hits(q, G) <=> Hits(p, G)
          BY <3>2, <3>5
        <4>3. \A v : Right(q, G, Valued(V, v)) => Right(p, G, Valued(V, v))
          BY <3>2, <3>5
        <4>4. Hits(ms, H) <=> Hits(q, G)
          BY <3>1, <4>1, <4>2
        <4>5. \A v : Right(q, G, Valued(V, v)) => Right(ms, H, SetsTo(V, g, v))
          BY <3>1, <4>1, <4>3
        <4> QED
          BY <4>4, <4>5 DEF G, H
      <3> QED
        BY <3>4, <3>5
    <2>10. Merges(ms, q, V, lane)
      BY <2>8, <2>9 DEF Merges
    <2> QED
      BY <2>1, <2>2, <2>10 DEF ms, q
  <1> HIDE DEF P, upTo
  <1>12. \A k \in 0..n : k \in P
    BY <1>1, <1>10, <1>11, GoesOn
  <1>13. Merges(f0[n], upTo(n), V, lane)
    BY <1>1, <1>12 DEF P
  <1>14. upTo(n) = xs
    BY DEF upTo, n
  <1> QED
    BY <1>8, <1>13, <1>14

-----------------------------------------------------------------------------
(* The batch *)

\* A list of entries writes what it is to, cell by cell and field by field.
WritesCells(es, V, want) ==
  /\ es \in Seq(BatchStrokes(V))
  /\ \A c \in Lanes \X Dates, g \in Fields :
       /\ Hits(es, Sets(V, c, g)) <=> (c \in DOMAIN want /\ g \in DOMAIN want[c])
       /\ Right(es, Sets(V, c, g), SetsTo(V, g, want[c][g]))

\* A list that writes the cells of a lane, and no others.
WritesLane(es, V, want, lane) ==
  /\ es \in Seq(BatchStrokes(V))
  /\ \A c \in Lanes \X Dates, g \in Fields :
       /\ Hits(es, Sets(V, c, g)) <=> (c[1] = lane /\ c \in DOMAIN want /\ g \in DOMAIN want[c])
       /\ Right(es, Sets(V, c, g), SetsTo(V, g, want[c][g]))

\* The entries of a lane write its cells.
LEMMA LaneWrites ==
  ASSUME NEW V, NEW want \in Calendars(V), NEW lane \in Lanes
  PROVE  WritesLane(OfLane(want, lane), V, want, lane)
  <1> DEFINE xs == FieldEntries(want, lane)
             D == UNION {{g} \X DatesWith(want, lane, g) : g \in Fields}
             es == OfLane(want, lane)
  <1>1. Says(xs, V, want, lane, D)
    BY LaneSays
  <1>2. \A g \in Fields, d \in Dates :
          <<g, d>> \in D <=> (<<lane, d>> \in DOMAIN want /\ g \in DOMAIN want[<<lane, d>>])
    BY DEF DatesWith
  <1> HIDE DEF D, xs
  <1>3. xs \in Seq(FieldStrokes(V))
    BY <1>1 DEF Says
  <1>4. Merges(es, xs, V, lane)
    BY <1>3, AllMerged DEF OfLane, xs
  <1> HIDE DEF es
  <1>5. /\ es \in Seq(BatchStrokes(V))
        /\ \A i \in DOMAIN es : es[i].lane = lane
    BY <1>4 DEF Merges
  <1>6. ASSUME NEW c \in Lanes \X Dates, NEW g \in Fields
        PROVE  /\ Hits(es, Sets(V, c, g)) <=> (c[1] = lane /\ c \in DOMAIN want /\ g \in DOMAIN want[c])
               /\ Right(es, Sets(V, c, g), SetsTo(V, g, want[c][g]))
    <2>1. CASE c[1] = lane
      <3> DEFINE d == c[2]
      <3>1. d \in Dates /\ c = <<lane, d>>
        BY <2>1
      <3> HIDE DEF d
      <3> DEFINE v == want[<<lane, d>>][g]
                 H == Sets(V, <<lane, d>>, g)
                 G == Setting(V, g, d)
      <3>2. /\ Hits(xs, G) <=> <<g, d>> \in D
            /\ Right(xs, G, Valued(V, v))
        BY <1>1, <3>1 DEF Says
      <3> HIDE DEF v
      <3>3. /\ Hits(es, H) <=> Hits(xs, G)
            /\ Right(xs, G, Valued(V, v)) => Right(es, H, SetsTo(V, g, v))
        BY <1>4, <3>1 DEF Merges
      <3> HIDE DEF H, G
      <3>4. Right(es, H, SetsTo(V, g, v))
        BY <3>2, <3>3
      <3>5. Hits(es, H) <=> (<<lane, d>> \in DOMAIN want /\ g \in DOMAIN want[<<lane, d>>])
        BY <1>2, <3>1, <3>2, <3>3
      <3> QED
        BY <2>1, <3>1, <3>4, <3>5 DEF H, v
    <2>2. CASE c[1] # lane
      <3>1. \A i \in DOMAIN es : es[i] \notin Sets(V, c, g)
        BY <1>5, <2>2 DEF Sets, Covers
      <3> QED
        BY <2>2, <3>1 DEF Hits, Right
    <2> QED
      BY <2>1, <2>2
  <1> QED
    BY <1>5, <1>6 DEF WritesLane, es

\* The entries of all lanes write all cells.
LEMMA BatchWrites ==
  ASSUME NEW V, NEW want \in Calendars(V)
  PROVE  WritesCells(BatchEntries(want), V, want)
  <1> DEFINE n == Len(LaneOrder)
             ss == [i \in 1..n |-> OfLane(want, LaneOrder[i])]
             es == FlattenSeq(ss)
  <1>1. /\ n \in Nat /\ \A i \in 1..n : LaneOrder[i] \in Lanes
        /\ \A l \in Lanes : \E i \in 1..n : LaneOrder[i] = l
    BY OrdersAreLists DEF Lanes, ToSet
  <1>2. \A i \in 1..n : WritesLane(ss[i], V, want, LaneOrder[i])
    <2> SUFFICES ASSUME NEW i \in 1..n PROVE WritesLane(ss[i], V, want, LaneOrder[i])
      OBVIOUS
    <2>1. WritesLane(OfLane(want, LaneOrder[i]), V, want, LaneOrder[i])
      BY <1>1, LaneWrites
    <2> QED
      BY <2>1
  <1>3. BatchEntries(want) = es
    BY DEF BatchEntries
  <1>4. ss = [i \in 1..n |-> ss[i]]
    OBVIOUS
  <1> HIDE DEF ss, n
  <1>5. ss \in Seq(Seq(BatchStrokes(V))) /\ DOMAIN ss = 1..n
    <2>1. \A i \in 1..n : ss[i] \in Seq(BatchStrokes(V))
      BY <1>2 DEF WritesLane
    <2> DEFINE X == Seq(BatchStrokes(V))
    <2> HIDE DEF X
    <2>2. ss \in Seq(X) /\ DOMAIN ss = 1..n
      BY <1>1, <1>4, <2>1 DEF X
    <2> QED
      BY <2>2 DEF X
  <1>6. es \in Seq(BatchStrokes(V))
    BY <1>5, Flattened
  <1>7. ASSUME NEW c \in Lanes \X Dates, NEW g \in Fields
        PROVE  /\ Hits(es, Sets(V, c, g)) <=> (c \in DOMAIN want /\ g \in DOMAIN want[c])
               /\ Right(es, Sets(V, c, g), SetsTo(V, g, want[c][g]))
    <2> DEFINE G == Sets(V, c, g)
               R == SetsTo(V, g, want[c][g])
    <2>1. \A i \in 1..n :
            /\ Hits(ss[i], G) <=> (c[1] = LaneOrder[i] /\ c \in DOMAIN want /\ g \in DOMAIN want[c])
            /\ Right(ss[i], G, R)
      BY <1>2 DEF WritesLane
    <2> HIDE DEF G, R
    <2>2. /\ (\A k \in DOMAIN ss : Right(ss[k], G, R)) => Right(es, G, R)
          /\ Hits(es, G) <=> \E k \in DOMAIN ss : Hits(ss[k], G)
      BY <1>5, Flattened
    <2>3. \E i \in 1..n : LaneOrder[i] = c[1]
      BY <1>1
    <2>4. Right(es, G, R)
      BY <1>5, <2>1, <2>2
    <2>5. Hits(es, G) <=> (c \in DOMAIN want /\ g \in DOMAIN want[c])
      BY <1>5, <2>1, <2>2, <2>3
    <2> QED
      BY <2>4, <2>5 DEF G, R
  <1> QED
    BY <1>3, <1>6, <1>7 DEF WritesCells

-----------------------------------------------------------------------------
(* What the channel manager makes of it *)

\* Entries that write the cells, applied to an empty calendar, give the cells.
LEMMA WritesApplied ==
  ASSUME NEW V, NEW want \in Calendars(V), NEW es, WritesCells(es, V, want)
  PROVE  applyEntries(Blank, es) =
           [c \in DOMAIN Blank |-> IF c \in DOMAIN want THEN want[c] ELSE NoValues]
  <1> DEFINE writers(c, g) == {i \in DOMAIN es : Covers(es[i], c) /\ g \in DOMAIN es[i].vals}
             written(c) == {g \in Fields : writers(c, g) # {}}
             then(c) == [g \in DOMAIN Blank[c] \cup written(c) |->
                           IF g \in written(c) THEN es[Max(writers(c, g))].vals[g] ELSE Blank[c][g]]
  <1>1. es \in Seq(BatchStrokes(V)) /\ Len(es) \in Nat /\ DOMAIN es = 1..Len(es)
    BY DEF WritesCells
  <1>2. ASSUME NEW c \in Lanes \X Dates
        PROVE  then(c) = IF c \in DOMAIN want THEN want[c] ELSE NoValues
    <2>1. Blank[c] = NoValues /\ DOMAIN NoValues = {}
      BY DEF Blank, NoValues
    <2>2. \A g \in Fields : writers(c, g) = {i \in DOMAIN es : es[i] \in Sets(V, c, g)}
      BY <1>1 DEF Sets
    <2>3. \A g \in Fields : writers(c, g) # {} <=> (c \in DOMAIN want /\ g \in DOMAIN want[c])
      <3> SUFFICES ASSUME NEW g \in Fields
                   PROVE  writers(c, g) # {} <=> (c \in DOMAIN want /\ g \in DOMAIN want[c])
        OBVIOUS
      <3>1. Hits(es, Sets(V, c, g)) <=> (c \in DOMAIN want /\ g \in DOMAIN want[c])
        BY DEF WritesCells
      <3> QED
        BY <2>2, <3>1 DEF Hits
    <2> DEFINE last(g) == es[Max(writers(c, g))].vals[g]
    <2>4. ASSUME NEW g \in Fields, writers(c, g) # {} PROVE last(g) = want[c][g]
      <3> DEFINE W == writers(c, g)
                 i == Max(W)
                 G == Sets(V, c, g)
      <3>1. W \in SUBSET (0..Len(es)) /\ W # {}
        BY <1>1, <2>4
      <3>2. W = {j \in DOMAIN es : es[j] \in G}
        BY <2>2
      <3> HIDE DEF W, G
      <3>3. i \in W /\ \A j \in W : j <= i
        BY <1>1, <3>1, MinMax
      <3> HIDE DEF i
      <3>4. i \in DOMAIN es /\ es[i] \in G
        BY <3>2, <3>3
      <3>5. ASSUME NEW j \in DOMAIN es, j > i PROVE es[j] \notin G
        <4>1. j \in Int /\ i \in Int /\ ~ (j <= i)
          BY <1>1, <3>4, <3>5
        <4> QED
          BY <3>2, <3>3, <4>1
      <3>6. Right(es, G, SetsTo(V, g, want[c][g]))
        BY DEF WritesCells, G
      <3>7. es[i] \in SetsTo(V, g, want[c][g])
        BY <3>4, <3>5, <3>6 DEF Right
      <3> QED
        BY <3>7 DEF SetsTo, i, W
    <2> HIDE DEF last, writers
    <2>5. CASE c \in DOMAIN want
      <3>1. want[c] \in SomeFields(V)
        BY <2>5 DEF Calendars
      <3>2. DOMAIN want[c] \in SUBSET Fields /\ want[c] = [g \in DOMAIN want[c] |-> want[c][g]]
        BY <3>1 DEF SomeFields
      <3>3. written(c) = DOMAIN want[c]
        BY <2>3, <2>5, <3>2
      <3>4. \A g \in DOMAIN want[c] : last(g) = want[c][g]
        BY <2>3, <2>4, <2>5, <3>2
      <3> DEFINE w == want[c]
                 F == DOMAIN w
      <3>5. then(c) = [g \in F |-> last(g)]
        BY <2>1, <3>3 DEF last
      <3>6. w = [g \in F |-> w[g]]
        BY <3>2
      <3>7. \A g \in F : last(g) = w[g]
        BY <3>4
      <3> HIDE DEF w, F
      <3>8. [g \in F |-> last(g)] = [g \in F |-> w[g]]
        BY <3>7
      <3> QED
        BY <2>5, <3>5, <3>6, <3>8 DEF w
    <2>6. CASE c \notin DOMAIN want
      <3>1. written(c) = {}
        BY <2>3, <2>6
      <3>2. then(c) = NoValues
        BY <2>1, <3>1 DEF NoValues
      <3> QED
        BY <2>6, <3>2
    <2> QED
      BY <2>5, <2>6
  <1>3. DOMAIN Blank = Lanes \X Dates
    BY DEF Blank
  <1>4. applyEntries(Blank, es) = [c \in DOMAIN Blank |-> then(c)]
    BY DEF applyEntries, applyTaken
  <1> HIDE DEF then
  <1> QED
    BY <1>2, <1>3, <1>4

-----------------------------------------------------------------------------
(* Chunks *)

\* Two pieces of a list that follow each other are one piece.
LEMMA Pieces ==
  ASSUME NEW X, NEW list \in Seq(X), NEW a \in Nat, NEW b \in Nat, a <= b, b <= Len(list)
  PROVE  /\ SubSeq(list, 1, a) \o SubSeq(list, a + 1, b) = SubSeq(list, 1, b)
         /\ SubSeq(list, a + 1, b) \in Seq(X) /\ Len(SubSeq(list, a + 1, b)) = b - a
  <1> DEFINE n == Len(list)
             s == SubSeq(list, 1, a)
             t == SubSeq(list, a + 1, b)
             u == SubSeq(list, 1, b)
  <1>1. n \in Nat /\ \A i \in 1..n : list[i] \in X
    OBVIOUS
  <1>2. s \in Seq(X) /\ t \in Seq(X) /\ u \in Seq(X)
    <2>1. /\ \A i \in 1..a : i \in 1..n
          /\ \A i \in (a + 1)..b : i \in 1..n
          /\ \A i \in 1..b : i \in 1..n
      BY <1>1
    <2> QED
      BY <1>1, <2>1
  <1>3. Len(s) = a /\ Len(u) = b /\ Len(t) = b - a
    OBVIOUS
  <1>4. \A i \in 1..a : s[i] = list[i]
    OBVIOUS
  <1>5. \A i \in 1..b : u[i] = list[i]
    OBVIOUS
  <1>6. \A i \in 1..(b - a) : t[i] = list[a + i]
    OBVIOUS
  <1> HIDE DEF s, t, u
  <1>7. s \o t \in Seq(X) /\ Len(s \o t) = b
    BY <1>2, <1>3
  <1>8. ASSUME NEW i \in 1..b PROVE (s \o t)[i] = u[i]
    <2>1. CASE i <= a
      BY <1>2, <1>3, <1>4, <1>5, <2>1
    <2>2. CASE i > a
      <3>1. i - a \in 1..(b - a) /\ a + (i - a) = i
        BY <2>2
      <3>2. (s \o t)[i] = t[i - a]
        BY <1>2, <1>3, <2>2, <3>1
      <3> QED
        BY <1>5, <1>6, <3>1, <3>2
    <2>3. i <= a \/ i > a
      OBVIOUS
    <2> QED
      BY <2>1, <2>2, <2>3
  <1>9. s \o t = u
    <2> DEFINE v == s \o t
    <2>1. v \in [1..b -> X]
      <3> HIDE DEF v
      <3>1. v \in Seq(X) /\ Len(v) = b
        BY <1>7 DEF v
      <3> QED
        BY <3>1
    <2>2. u \in [1..b -> X]
      BY <1>2, <1>3
    <2>3. \A i \in 1..b : v[i] = u[i]
      BY <1>8
    <2> HIDE DEF v
    <2>4. v = u
      BY <2>1, <2>2, <2>3
    <2> QED
      BY <2>4 DEF v
  <1> QED
    BY <1>2, <1>3, <1>9 DEF s, t, u

\* As many pieces of a size as it takes to hold n.
LEMMA Rounded ==
  ASSUME NEW n \in Nat, NEW size \in Nat \ {0}, NEW m, m = (n + size - 1) \div size
  PROVE  /\ m \in Nat /\ n <= m * size /\ m * size < n + size
         /\ m = 0 <=> n = 0
  <1> DEFINE t == n + size - 1
  <1>1. t \in Nat /\ t + 1 = n + size
    OBVIOUS
  <1>2. m = t \div size
    OBVIOUS
  <1> HIDE DEF t
  <1>3. m \in Int /\ m * size \in Int /\ m * size <= t /\ t < m * size + size
    BY <1>1, <1>2
  <1>4. n <= m * size /\ m * size < n + size
    BY <1>1, <1>3
  <1>5. m \in Nat
    BY <1>3, <1>4
  <1>6. m = 0 => n = 0
    BY <1>4
  <1>7. n = 0 => m = 0
    BY <1>4, <1>5
  <1> QED
    BY <1>4, <1>5, <1>6, <1>7

\* Products by a natural keep the order.
LEMMA InProportion ==
  ASSUME NEW size \in Nat, NEW a \in Nat, NEW b \in Nat, a <= b
  PROVE  a * size \in Nat /\ b * size \in Nat /\ a * size <= b * size
  <1>1. b - a \in Nat
    OBVIOUS
  <1>2. a * size \in Nat /\ b * size \in Nat /\ (b - a) * size \in Nat
    BY <1>1
  <1>3. b * size = a * size + (b - a) * size
    OBVIOUS
  <1> QED
    BY <1>2, <1>3

\* Cut into chunks, a list is still all there, and no chunk is empty or too large.
LEMMA Chunked ==
  ASSUME NEW X, NEW list \in Seq(X), NEW size \in Nat \ {0}
  PROVE  /\ chunk(list, size) \in Seq(Seq(X))
         /\ \A k \in DOMAIN chunk(list, size) : Len(chunk(list, size)[k]) \in 1..size
         /\ FlattenSeq(chunk(list, size)) = list
  <1> DEFINE n == Len(list)
             m == (n + size - 1) \div size
             end(k) == IF k * size < n THEN k * size ELSE n
             ss == [k \in 1..m |-> SubSeq(list, (k - 1) * size + 1, end(k))]
  <1>1. n \in Nat /\ list = SubSeq(list, 1, n)
    OBVIOUS
  <1>2. chunk(list, size) = ss
    BY DEF chunk
  <1> HIDE DEF n
  <1>3. /\ m \in Nat /\ n <= m * size /\ m * size < n + size
        /\ m = 0 <=> n = 0
    BY <1>1, Rounded
  <1>4. ss = [k \in 1..m |-> ss[k]] /\ \A k \in 1..m : ss[k] = SubSeq(list, (k - 1) * size + 1, end(k))
    OBVIOUS
  <1> HIDE DEF m, ss
  <1>5. ASSUME NEW k \in 1..m
        PROVE  /\ end(k - 1) = (k - 1) * size /\ (k - 1) * size < n
               /\ end(k - 1) \in Nat /\ end(k) \in Nat /\ end(k - 1) < end(k) /\ end(k) <= n
               /\ end(k) <= end(k - 1) + size
    <2>1. k - 1 \in Nat /\ m - 1 \in Nat /\ k \in Nat /\ k - 1 <= m - 1
      BY <1>3
    <2>2. (k - 1) * size \in Nat /\ (m - 1) * size \in Nat /\ (k - 1) * size <= (m - 1) * size
      BY <2>1, InProportion
    <2>3. (m - 1) * size = m * size - size /\ k * size = (k - 1) * size + size
      BY <1>3, <2>1
    <2>4. m * size \in Nat
      BY <1>3, InProportion
    <2> DEFINE a == (k - 1) * size
               b == (m - 1) * size
               c == m * size
               e == k * size
    <2>5. /\ a \in Nat /\ b \in Nat /\ c \in Nat /\ a <= b /\ b = c - size /\ e = a + size
          /\ c < n + size
      BY <1>3, <2>2, <2>3, <2>4
    <2>6. end(k - 1) = (IF a < n THEN a ELSE n) /\ end(k) = IF e < n THEN e ELSE n
      OBVIOUS
    <2> HIDE DEF a, b, c, e, end
    <2>7. a < n /\ e \in Nat
      BY <1>1, <2>5
    <2>8. /\ end(k - 1) = a /\ end(k - 1) \in Nat /\ end(k) \in Nat
          /\ end(k - 1) < end(k) /\ end(k) <= n /\ end(k) <= end(k - 1) + size
      BY <1>1, <2>5, <2>6, <2>7
    <2> QED
      BY <2>7, <2>8 DEF a
  <1>6. end(m) = n
    BY <1>1, <1>3
  <1>7. end(0) = 0
    <2>1. 0 * size = 0
      OBVIOUS
    <2> QED
      BY <1>1, <2>1
  <1> HIDE DEF end
  <1>8. \A k \in 1..m : ss[k] = SubSeq(list, end(k - 1) + 1, end(k))
    BY <1>4, <1>5
  <1>9. ASSUME NEW k \in 1..m
        PROVE  /\ ss[k] \in Seq(X) /\ Len(ss[k]) \in 1..size
               /\ SubSeq(list, 1, end(k - 1)) \o ss[k] = SubSeq(list, 1, end(k))
    <2> DEFINE a == end(k - 1)
               b == end(k)
    <2>1. a \in Nat /\ b \in Nat /\ a < b /\ b <= n /\ b <= a + size
      BY <1>5
    <2>2. ss[k] = SubSeq(list, a + 1, b)
      BY <1>8
    <2> HIDE DEF a, b
    <2>3. a <= b /\ b <= Len(list)
      BY <2>1 DEF n
    <2>4. /\ SubSeq(list, 1, a) \o SubSeq(list, a + 1, b) = SubSeq(list, 1, b)
          /\ SubSeq(list, a + 1, b) \in Seq(X) /\ Len(SubSeq(list, a + 1, b)) = b - a
      BY <2>1, <2>3, Pieces
    <2>5. b - a \in 1..size
      BY <2>1
    <2> QED
      BY <2>2, <2>4, <2>5 DEF a, b
  <1>10. ss \in Seq(Seq(X)) /\ DOMAIN ss = 1..m /\ Len(ss) = m
    <2> DEFINE Y == Seq(X)
    <2>1. \A k \in 1..m : ss[k] \in Y
      BY <1>9
    <2> HIDE DEF Y
    <2>2. ss = [k \in 1..m |-> ss[k]]
      BY <1>4
    <2>3. ss \in [1..m -> Y]
      BY <2>1, <2>2
    <2>4. ss \in Seq(Y) /\ DOMAIN ss = 1..m /\ Len(ss) = m
      BY <1>3, <2>3
    <2> QED
      BY <2>4 DEF Y
  <1>11. FlattenSeq(ss) = list
    <2>1. CASE m = 0
      <3>1. Len(list) = 0 /\ Len(ss) = 0
        BY <1>3, <1>10, <2>1 DEF n
      <3>2. list = <<>> /\ ss = <<>> /\ FlattenSeq(ss) = ss
        BY <1>10, <3>1 DEF FlattenSeq
      <3> QED
        BY <3>2
    <2>2. CASE m # 0
      <3>0. m \in Nat
        BY <1>3
      <3>6. \E f \in [1..Len(ss) -> Seq(X)] :
               /\ FlattenSeq(ss) = f[Len(ss)]
               /\ \A i \in 1..Len(ss) : f[i] = IF i = 1 THEN ss[i] ELSE f[i - 1] \o ss[i]
        <4>1. ss \in Seq(Seq(X)) /\ Len(ss) # 0
          BY <1>10, <2>2
        <4> QED
          BY <4>1, JoinsUp
      <3>1. PICK f \in [1..m -> Seq(X)] :
               /\ FlattenSeq(ss) = f[m]
               /\ \A i \in 1..m : f[i] = IF i = 1 THEN ss[i] ELSE f[i - 1] \o ss[i]
        BY <1>10, <3>6
      <3> DEFINE P == {k \in 1..m : f[k] = SubSeq(list, 1, end(k))}
      <3>2. 1 \in P
        <4>1. 1 \in 1..m /\ 1 - 1 = 0
          BY <2>2, <3>0
        <4>2. f[1] = ss[1]
          BY <3>1, <4>1
        <4>3. ss[1] = SubSeq(list, 1, end(1))
          BY <1>7, <1>8, <4>1
        <4> QED
          BY <4>1, <4>2, <4>3
      <3>3. ASSUME NEW k \in 1..m, k \in P, k < m PROVE k + 1 \in P
        <4>1. k + 1 \in 1..m /\ (k + 1) - 1 = k /\ k + 1 # 1
          BY <1>3, <3>3
        <4>2. f[k + 1] = f[k] \o ss[k + 1]
          BY <3>1, <4>1
        <4>3. SubSeq(list, 1, end(k)) \o ss[k + 1] = SubSeq(list, 1, end(k + 1))
          BY <1>9, <4>1
        <4> QED
          BY <3>3, <4>1, <4>2, <4>3
      <3> HIDE DEF P
      <3>4. \A k \in 1..m : k \in P
        BY <1>3, <3>2, <3>3, GoesOn
      <3>5. m \in P
        BY <1>3, <2>2, <3>4
      <3> QED
        BY <1>1, <1>6, <3>1, <3>5 DEF P
    <2> QED
      BY <2>1, <2>2
  <1> QED
    BY <1>2, <1>9, <1>10, <1>11

\* A list that a call can take is one chunk, or none when there is nothing in it.
LEMMA OneChunk ==
  ASSUME NEW X, NEW list \in Seq(X), NEW size \in Nat \ {0}, Len(list) <= size
  PROVE  /\ chunk(list, size) \in Seq(Seq(X))
         /\ Len(chunk(list, size)) <= 1
         /\ \A k \in DOMAIN chunk(list, size) : chunk(list, size)[k] = list
  <1> DEFINE n == Len(list)
             m == (n + size - 1) \div size
             ss == chunk(list, size)
  <1>1. n \in Nat /\ n <= size /\ list = SubSeq(list, 1, n)
    OBVIOUS
  <1>2. /\ ss = [k \in 1..m |-> ss[k]]
        /\ \A k \in 1..m : ss[k] = SubSeq(list, (k - 1) * size + 1,
                                          IF k * size < n THEN k * size ELSE n)
    BY DEF chunk
  <1>3. ss \in Seq(Seq(X))
    BY Chunked
  <1> HIDE DEF n, ss
  <1>4. m \in Nat /\ m * size < n + size
    BY <1>1, Rounded
  <1> HIDE DEF m
  <1>5. m <= 1
    <2> SUFFICES ASSUME m >= 2 PROVE FALSE
      BY <1>4
    <2>1. 2 * size <= m * size /\ m * size \in Nat
      BY <1>4, InProportion
    <2> DEFINE p == m * size
    <2>2. 2 * size <= p /\ p < n + size /\ p \in Nat
      BY <1>4, <2>1
    <2> HIDE DEF p
    <2> QED
      BY <1>1, <2>2
  <1>6. DOMAIN ss = 1..m /\ Len(ss) = m
    BY <1>2, <1>3, <1>4
  <1>7. ASSUME NEW k \in 1..m PROVE ss[k] = list
    <2>1. k = 1 /\ (1 - 1) * size = 0 /\ 1 * size = size
      BY <1>4, <1>5
    <2>2. ss[1] = SubSeq(list, 1, IF size < n THEN size ELSE n)
      <3> DEFINE from(j) == (j - 1) * size
                 to(j) == j * size
      <3>1. \A j \in 1..m : ss[j] = SubSeq(list, from(j) + 1, IF to(j) < n THEN to(j) ELSE n)
        BY <1>2
      <3>2. from(1) = 0 /\ to(1) = size /\ 1 \in 1..m
        BY <2>1
      <3> HIDE DEF from, to
      <3>3. 0 + 1 = 1
        OBVIOUS
      <3> QED
        BY <3>1, <3>2, <3>3
    <2>3. (IF size < n THEN size ELSE n) = n
      BY <1>1
    <2>4. ss[1] = SubSeq(list, 1, n)
      BY <2>2, <2>3
    <2> QED
      BY <1>1, <2>1, <2>4
  <1> QED
    BY <1>3, <1>5, <1>6, <1>7 DEF ss
=============================================================================
