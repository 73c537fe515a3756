---------------------------- MODULE StoreMerges -----------------------------
(***************************************************************************)
(* Facts about the operators of Store: highest and lowest numbers, sorted  *)
(* lists, files cut from a merge, and the inputs of a compaction.          *)
(***************************************************************************)
EXTENDS StoreInvariant, FiniteSetTheorems

USE Zenon

----------------------------------------------------------------------------
(* Numbers in order *)

\* Counting the smaller elements numbers a finite set from 0 on (Rank).
LEMMA Ranks ==
  ASSUME NEW S, S \subseteq Int, IsFiniteSet(S)
  PROVE  /\ Cardinality(S) \in Nat
         /\ \A x \in S : Rank(S, x) \in 0 .. Cardinality(S) - 1
         /\ \A x, y \in S : x < y => Rank(S, x) < Rank(S, y)
         /\ \A i \in 0 .. Cardinality(S) - 1 : \E x \in S : Rank(S, x) = i
<1> DEFINE n == Cardinality(S)
<1>1. n \in Nat
  BY FS_CardinalityType
<1>2. ASSUME NEW x \in S
      PROVE  Rank(S, x) \in 0 .. n - 1
  <2>1. {y \in S : y < x} \subseteq S \ {x}
    BY SMT
  <2>2. IsFiniteSet(S \ {x}) /\ Cardinality(S \ {x}) = n - 1
    BY FS_RemoveElement
  <2>3. /\ Cardinality({y \in S : y < x}) <= n - 1
        /\ IsFiniteSet({y \in S : y < x})
    BY <2>1, <2>2, FS_Subset
  <2>4. Cardinality({y \in S : y < x}) \in Nat
    BY <2>3, FS_CardinalityType
  <2> QED
    BY <1>1, <2>3, <2>4, SMT DEF Rank
<1>3. ASSUME NEW x \in S, NEW y \in S, x < y
      PROVE  Rank(S, x) < Rank(S, y)
  <2>1. {z \in S : z < x} \subseteq {z \in S : z < y} /\ IsFiniteSet({z \in S : z < y})
    <3>1. PICK T : T = {z \in S : z < y}
      OBVIOUS
    <3>2. T \in SUBSET S
      BY <3>1
    <3>3. IsFiniteSet(T)
      BY <3>2, FS_Subset
    <3>4. \A z \in S : z < x => z < y
      <4> SUFFICES ASSUME NEW z \in S, z < x PROVE z < y
        OBVIOUS
      <4> z \in Int /\ x \in Int /\ y \in Int
        OBVIOUS
      <4> QED
        BY <1>3, SMT
    <3> QED
      BY <3>1, <3>3, <3>4
  <2>2. x \in {z \in S : z < y} /\ x \notin {z \in S : z < x}
    BY <1>3, SMT
  <2>3. /\ Cardinality({z \in S : z < x}) <= Cardinality({z \in S : z < y})
        /\ Cardinality({z \in S : z < x}) # Cardinality({z \in S : z < y})
    BY <2>1, <2>2, FS_Subset
  <2>4. Rank(S, x) \in Int /\ Rank(S, y) \in Int
    BY <1>1, <1>2, SMT
  <2> QED
    BY <2>3, <2>4, SMT DEF Rank
<1>4. ASSUME NEW i \in 0 .. n - 1
      PROVE  \E x \in S : Rank(S, x) = i
  <2> DEFINE f == [x \in S |-> Rank(S, x)]
  <2>1. f \in [S -> 0 .. n - 1]
    BY <1>2
  <2>2. ASSUME NEW x \in S, NEW y \in S, f[x] = f[y]
        PROVE  x = y
    <3>1. Rank(S, x) = Rank(S, y) /\ Rank(S, x) \in Int
      BY <2>2, <1>1, <1>2, SMT
    <3>2. ~(x < y) /\ ~(y < x)
      BY <3>1, <1>3, SMT
    <3> QED
      BY <3>2, SMT
  <2>3. f \in Injection(S, 0 .. n - 1)
    BY <2>1, <2>2 DEF Injection, IsInjective
  <2>4. IsFiniteSet(0 .. n - 1) /\ Cardinality(0 .. n - 1) = n
    <3>1. PICK b \in Int : b = n - 1
      BY <1>1, SMT
    <3>2. /\ IsFiniteSet(0 .. b)
          /\ Cardinality(0 .. b) = IF 0 > b THEN 0 ELSE b - 0 + 1
      BY FS_Interval, SMT
    <3> QED
      BY <1>1, <3>1, <3>2, SMT
  <2>5. f \in Surjection(S, 0 .. n - 1)
    BY <2>3, <2>4, FS_Injection
  <2> QED
    BY <2>5 DEF Surjection
<1> QED
  BY <1>1, <1>2, <1>3, <1>4

\* A finite set of numbers has a greatest and a least element (Max, Min).
LEMMA Extremes ==
  ASSUME NEW S, S \subseteq Int, IsFiniteSet(S), S # {}
  PROVE  /\ Max(S) \in S /\ \A x \in S : x <= Max(S)
         /\ Min(S) \in S /\ \A x \in S : Min(S) <= x
<1>1. PICK n \in Nat :
        /\ n = Cardinality(S)
        /\ \A x \in S : Rank(S, x) \in 0 .. n - 1
        /\ \A x, y \in S : x < y => Rank(S, x) < Rank(S, y)
        /\ \A i \in 0 .. n - 1 : \E x \in S : Rank(S, x) = i
  BY Ranks
<1>2. 0 \in 0 .. n - 1 /\ n - 1 \in 0 .. n - 1
  <2>1. n # 0
    BY <1>1, FS_EmptySet
  <2> QED
    BY <2>1, SMT
<1>3. PICK hi \in S : Rank(S, hi) = n - 1
  BY <1>1, <1>2
<1>4. PICK lo \in S : Rank(S, lo) = 0
  BY <1>1, <1>2
<1>5. ASSUME NEW x \in S
      PROVE  lo <= x /\ x <= hi
  <2>1. Rank(S, x) \in 0 .. n - 1
    BY <1>1
  <2>2. ~(x < lo) /\ ~(hi < x)
    BY <1>1, <1>3, <1>4, <2>1, SMT
  <2> QED
    BY <2>2, SMT
<1>6. \A x \in S : hi >= x
  BY <1>5
<1>7. Max(S) \in S /\ \A x \in S : Max(S) >= x
  BY <1>6 DEF Max
<1>8. Min(S) \in S /\ \A x \in S : Min(S) <= x
  BY <1>5 DEF Min
<1> QED
  BY <1>7, <1>8

\* The highest number of a set, or 0 (Highest).
LEMMA HighestIs ==
  ASSUME NEW S, S \subseteq Nat, IsFiniteSet(S)
  PROVE  /\ Highest(S) \in Nat /\ Highest(S) \in S \cup {0}
         /\ \A x \in S : x <= Highest(S)
<1>1. IsFiniteSet(S \cup {0}) /\ S \cup {0} # {} /\ S \cup {0} \subseteq Int
  BY FS_AddElement, SMT
<1>2. PICK T : T = S \cup {0}
  OBVIOUS
<1>3. Max(T) \in T /\ \A x \in T : x <= Max(T)
  BY <1>1, <1>2, Extremes
<1>4. Max(T) \in Nat
  <2>1. \A x \in T : x \in Nat
    BY <1>2, SMT
  <2> QED
    BY <1>3, <2>1
<1>5. Highest(S) = Max(T)
  BY <1>2 DEF Highest
<1> QED
  BY <1>2, <1>3, <1>4, <1>5

\* Sorting a finite set lists its elements in order (Ascending, Descending).
LEMMA Sorted ==
  ASSUME NEW S, S \subseteq Nat, IsFiniteSet(S)
  PROVE  /\ Cardinality(S) \in Nat
         /\ Ascending(S) \in Seq(Nat) /\ Range(Ascending(S)) = S
         /\ Len(Ascending(S)) = Cardinality(S)
         /\ \A i, j \in DOMAIN Ascending(S) :
              i < j => Ascending(S)[i] < Ascending(S)[j]
         /\ Descending(S) \in Seq(Nat) /\ Range(Descending(S)) = S
         /\ \A i, j \in DOMAIN Descending(S) :
              i < j => Descending(S)[i] > Descending(S)[j]
<1>1. PICK n \in Nat :
        /\ n = Cardinality(S)
        /\ \A x \in S : Rank(S, x) \in 0 .. n - 1
        /\ \A x, y \in S : x < y => Rank(S, x) < Rank(S, y)
        /\ \A i \in 0 .. n - 1 : \E x \in S : Rank(S, x) = i
  <2>1. S \subseteq Int
    BY SMT
  <2> QED
    BY <2>1, Ranks
<1>2. PICK up : up = Ascending(S)
  OBVIOUS
<1>3. PICK down : down = Descending(S)
  OBVIOUS
<1>4. DOMAIN up = 1 .. n /\ DOMAIN down = 1 .. n
  BY <1>1, <1>2, <1>3 DEF Ascending, Descending
<1>5. ASSUME NEW i \in 1 .. n
      PROVE  /\ up[i] \in S /\ Rank(S, up[i]) = i - 1
             /\ down[i] \in S /\ Rank(S, down[i]) = n - i
  <2>1. i - 1 \in 0 .. n - 1 /\ n - i \in 0 .. n - 1
    BY SMT
  <2>2. up[i] = CHOOSE x \in S : Rank(S, x) = i - 1
    BY <1>1, <1>2 DEF Ascending
  <2>3. down[i] = CHOOSE x \in S : Rank(S, x) = n - i
    BY <1>1, <1>3 DEF Descending
  <2>4. \E x \in S : Rank(S, x) = i - 1
    BY <1>1, <2>1
  <2>5. \E x \in S : Rank(S, x) = n - i
    BY <1>1, <2>1
  <2> QED
    BY <2>2, <2>3, <2>4, <2>5
<1>6. up \in Seq(Nat) /\ Len(up) = n /\ down \in Seq(Nat)
  <2>1. up = [i \in 1 .. n |-> up[i]] /\ down = [i \in 1 .. n |-> down[i]]
    BY <1>1, <1>2, <1>3, SMT DEF Ascending, Descending
  <2>2. \A i \in 1 .. n : up[i] \in Nat /\ down[i] \in Nat
    BY <1>5
  <2>3. up \in [1 .. n -> Nat] /\ down \in [1 .. n -> Nat]
    BY <2>1, <2>2
  <2> QED
    BY <2>3, SMT
<1>7. \A x, y \in S : Rank(S, x) = Rank(S, y) => x = y
  <2> SUFFICES ASSUME NEW x \in S, NEW y \in S, Rank(S, x) = Rank(S, y)
               PROVE  x = y
    OBVIOUS
  <2>1. Rank(S, x) \in Int
    BY <1>1, SMT
  <2>2. ~(x < y) /\ ~(y < x)
    BY <1>1, <2>1, SMT
  <2> QED
    BY <2>2, SMT
<1>8. ASSUME NEW x \in S
      PROVE  x \in Range(up) /\ x \in Range(down)
  <2>1. PICK k \in 0 .. n - 1 : k = Rank(S, x)
    BY <1>1
  <2>2. k + 1 \in 1 .. n /\ n - k \in 1 .. n
    BY SMT
  <2>3. up[k + 1] \in S /\ Rank(S, up[k + 1]) = k
    BY <1>5, <2>2, SMT
  <2>4. down[n - k] \in S /\ Rank(S, down[n - k]) = k
    BY <1>5, <2>2, SMT
  <2>5. up[k + 1] = x /\ down[n - k] = x
    BY <1>7, <2>1, <2>3, <2>4
  <2> QED
    BY <1>4, <2>2, <2>5 DEF Range
<1>9. Range(up) = S /\ Range(down) = S
  BY <1>4, <1>5, <1>8 DEF Range
<1>10. ASSUME NEW i \in 1 .. n, NEW j \in 1 .. n, i < j
       PROVE  up[i] < up[j] /\ down[i] > down[j]
  <2>1. /\ up[i] \in S /\ Rank(S, up[i]) = i - 1
        /\ up[j] \in S /\ Rank(S, up[j]) = j - 1
        /\ down[i] \in S /\ Rank(S, down[i]) = n - i
        /\ down[j] \in S /\ Rank(S, down[j]) = n - j
    BY <1>5
  <2>2. \A x, y \in S : Rank(S, x) < Rank(S, y) => x < y
    <3> SUFFICES ASSUME NEW x \in S, NEW y \in S, Rank(S, x) < Rank(S, y)
                 PROVE  x < y
      OBVIOUS
    <3>1. Rank(S, x) \in Int /\ Rank(S, y) \in Int /\ x \in Int /\ y \in Int
      BY <1>1, SMT
    <3>2. ~(y < x) /\ x # y
      BY <1>1, <3>1, SMT
    <3> QED
      BY <3>1, <3>2, SMT
  <2>3. i - 1 < j - 1 /\ n - j < n - i
    BY <1>10, SMT
  <2>4. up[i] < up[j] /\ down[j] < down[i]
    BY <2>1, <2>2, <2>3
  <2>5. down[i] \in Int /\ down[j] \in Int
    <3>1. \A x \in S : x \in Int
      BY SMT
    <3> QED
      BY <2>1, <3>1
  <2> QED
    BY <2>4, <2>5
<1> QED
  BY <1>1, <1>2, <1>3, <1>4, <1>6, <1>9, <1>10

\* Leaving elements out of a falling list leaves a falling list (Retained).
LEMMA RetainedFalls ==
  ASSUME NEW s \in Seq(Nat), NEW removed,
         \A i, j \in DOMAIN s : i < j => s[i] > s[j]
  PROVE  LET t == Retained(s, removed)
         IN  /\ t \in Seq(Nat) /\ Range(t) = Range(s) \ removed
             /\ \A i, j \in DOMAIN t : i < j => t[i] > t[j]
<1>1. PICK S : S = {i \in DOMAIN s : s[i] \notin removed}
  OBVIOUS
<1>2. PICK kept : kept = Ascending(S)
  OBVIOUS
<1>3. PICK t : t = Retained(s, removed)
  OBVIOUS
<1>4. S \subseteq DOMAIN s /\ DOMAIN s = 1 .. Len(s) /\ Len(s) \in Nat
  BY <1>1, SMT
<1>5. S \subseteq Nat /\ IsFiniteSet(S)
  <2>1. PICK n \in Nat : n = Len(s)
    BY <1>4
  <2>2. IsFiniteSet(1 .. n)
    BY FS_Interval, SMT
  <2>3. S \in SUBSET (1 .. n)
    BY <1>4, <2>1
  <2> QED
    <3>1. IsFiniteSet(S)
      BY <2>2, <2>3, FS_Subset
    <3> QED
      BY <2>3, <3>1, SMT
<1>6. /\ kept \in Seq(Nat) /\ Range(kept) = S
      /\ \A i, j \in DOMAIN kept : i < j => kept[i] < kept[j]
  BY <1>2, <1>5, Sorted
<1>7. t = [i \in DOMAIN kept |-> s[kept[i]]]
  BY <1>1, <1>2, <1>3 DEF Retained
<1>8. \A i \in DOMAIN kept : kept[i] \in S /\ kept[i] \in DOMAIN s
  BY <1>4, <1>6 DEF Range
<1>9. t \in Seq(Nat)
  <2>1. PICK n \in Nat : DOMAIN kept = 1 .. n
    BY <1>6, SMT
  <2>2. t \in [1 .. n -> Nat]
    BY <1>7, <1>8, <2>1, SMT
  <2> QED
    BY <2>2, SMT
<1>10. Range(t) = Range(s) \ removed
  <2>1. ASSUME NEW x \in Range(t)
        PROVE  x \in Range(s) \ removed
    <3>1. PICK i \in DOMAIN kept : x = s[kept[i]]
      BY <2>1, <1>7 DEF Range
    <3> QED
      BY <1>1, <1>8, <3>1 DEF Range
  <2>2. ASSUME NEW x \in Range(s) \ removed
        PROVE  x \in Range(t)
    <3>1. PICK i \in DOMAIN s : x = s[i] /\ i \in S
      BY <2>2, <1>1 DEF Range
    <3>2. PICK j \in DOMAIN kept : kept[j] = i
      BY <1>6, <3>1 DEF Range
    <3> QED
      BY <1>7, <3>1, <3>2 DEF Range
  <2> QED
    BY <2>1, <2>2
<1>11. ASSUME NEW i \in DOMAIN t, NEW j \in DOMAIN t, i < j
       PROVE  t[i] > t[j]
  <2>1. i \in DOMAIN kept /\ j \in DOMAIN kept
    BY <1>7
  <2>2. kept[i] < kept[j] /\ kept[i] \in DOMAIN s /\ kept[j] \in DOMAIN s
    BY <1>6, <1>8, <1>11, <2>1
  <2> QED
    BY <1>7, <2>1, <2>2
<1> QED
  BY <1>3, <1>9, <1>10, <1>11

----------------------------------------------------------------------------
(* Key ranges *)

\* Sets of keys are finite, and so are sets of records with one per key.
LEMMA FiniteRecords ==
  ASSUME NEW R, R \subseteq Records
  PROVE  /\ {r.key : r \in R} \subseteq Nat /\ IsFiniteSet({r.key : r \in R})
         /\ OnePerKey(R) => /\ IsFiniteSet(R)
                            /\ Cardinality({r.key : r \in R}) = Cardinality(R)
<1>1. PICK K : K = {r.key : r \in R}
  OBVIOUS
<1>2. K \in SUBSET Keys
  BY <1>1 DEF Records
<1>3. K \subseteq Nat /\ IsFiniteSet(K)
  <2>1. IsFiniteSet(Keys) /\ Keys \subseteq Nat
    BY KeysAssumption
  <2>2. IsFiniteSet(K)
    BY <1>2, <2>1, FS_Subset
  <2> QED
    BY <1>2, <2>1, <2>2
<1>4. ASSUME OnePerKey(R)
      PROVE  IsFiniteSet(R) /\ Cardinality(K) = Cardinality(R)
  <2>1. PICK f : f = [r \in R |-> r.key]
    OBVIOUS
  <2>2. f \in [R -> K] /\ \A r \in R : f[r] = r.key
    BY <1>1, <2>1
  <2>3. f \in Injection(R, K)
    BY <1>4, <2>2 DEF Injection, IsInjective, OnePerKey
  <2>4. f \in Surjection(R, K)
    BY <1>1, <2>2 DEF Surjection
  <2>5. IsFiniteSet(R)
    BY <1>3, <2>3, FS_Injection
  <2> QED
    BY <2>3, <2>4, <2>5, FS_Surjection
<1> QED
  BY <1>1, <1>3, <1>4

\* The key range of a table's meta data bounds its keys, tightly (meta_of).
LEMMA KeyRange ==
  ASSUME NEW n, tables[n] \subseteq Records, tables[n] # {}
  PROVE  /\ MinKey(n) \in Nat /\ MaxKey(n) \in Nat /\ MinKey(n) <= MaxKey(n)
         /\ \A r \in tables[n] :
              r.key \in Nat /\ MinKey(n) <= r.key /\ r.key <= MaxKey(n)
         /\ \E r \in tables[n] : r.key = MinKey(n)
         /\ \E r \in tables[n] : r.key = MaxKey(n)
<1>1. PICK K : K = {r.key : r \in tables[n]}
  OBVIOUS
<1>2. K \subseteq Nat /\ IsFiniteSet(K) /\ K # {} /\ K \subseteq Int
  <2>1. K \subseteq Nat /\ IsFiniteSet(K)
    BY <1>1, FiniteRecords
  <2>2. \A k \in K : k \in Nat
    BY <2>1
  <2>3. \A k \in K : k \in Int
    BY <2>2, SMT
  <2>4. K # {}
    BY <1>1
  <2> QED
    BY <2>1, <2>3, <2>4
<1>3. Min(K) \in K /\ \A k \in K : Min(K) <= k
  BY <1>2, Extremes
<1>4. Highest(K) \in Nat /\ Highest(K) \in K \cup {0} /\ \A k \in K : k <= Highest(K)
  BY <1>2, HighestIs
<1>5. \A k \in K : k \in Nat
  BY <1>2
<1>6. Highest(K) \in K
  <2>1. PICK k \in K : TRUE
    BY <1>2
  <2>2. CASE Highest(K) = 0
    <3>1. k <= 0 /\ k \in Nat
      BY <1>4, <1>5, <2>2
    <3> QED
      BY <2>2, <3>1, SMT
  <2> QED
    BY <1>4, <2>2
<1>7. MinKey(n) = Min(K) /\ MaxKey(n) = Highest(K)
  BY <1>1 DEF MinKey, MaxKey
<1>8. \A r \in tables[n] : r.key \in K
  BY <1>1
<1>9. \A k \in K : \E r \in tables[n] : r.key = k
  BY <1>1
<1> QED
  BY <1>3, <1>4, <1>5, <1>6, <1>7, <1>8, <1>9

\* Two tables whose keys are apart have ranges apart, and the other way round.
LEMMA RangesApart ==
  ASSUME NEW m, tables[m] \subseteq Records, tables[m] # {},
         NEW n, tables[n] \subseteq Records, tables[n] # {}
  PROVE  LeftOf(tables[m], tables[n]) <=> MaxKey(m) < MinKey(n)
<1>1. /\ MaxKey(m) \in Nat
      /\ \A r \in tables[m] : r.key \in Nat /\ r.key <= MaxKey(m)
      /\ \E r \in tables[m] : r.key = MaxKey(m)
  BY KeyRange
<1>2. /\ MinKey(n) \in Nat
      /\ \A r \in tables[n] : r.key \in Nat /\ MinKey(n) <= r.key
      /\ \E r \in tables[n] : r.key = MinKey(n)
  BY KeyRange
<1>3. LeftOf(tables[m], tables[n]) => MaxKey(m) < MinKey(n)
  BY <1>1, <1>2 DEF LeftOf
<1>4. ASSUME MaxKey(m) < MinKey(n), NEW r \in tables[m], NEW s \in tables[n]
      PROVE  r.key < s.key
  <2>1. r.key \in Nat /\ r.key <= MaxKey(m) /\ s.key \in Nat /\ MinKey(n) <= s.key
    BY <1>1, <1>2
  <2> QED
    BY <1>1, <1>2, <1>4, <2>1, SMT
<1> QED
  BY <1>3, <1>4 DEF LeftOf

----------------------------------------------------------------------------
(* The output of a merge, cut into files *)

\* Rounding up to pieces of equal size (write_merged).
LEMMA Division ==
  ASSUME NEW a \in Nat, NEW m \in Nat \ {0}
  PROVE  a \div m \in Nat /\ m * (a \div m) <= a /\ a < m * (a \div m) + m
BY SMT

\* A product grows with its second factor.
LEMMA Products ==
  ASSUME NEW m \in Nat \ {0}, NEW a \in Nat, NEW b \in Nat
  PROVE  /\ a <= b => m * a <= m * b
         /\ a < b => m * a + m <= m * b
BY SMT

\* Pieces of m elements: each of c elements falls into one of the pieces counted,
\* and no piece counted is empty (write_merged).
LEMMA Pieces ==
  ASSUME NEW c \in Nat, NEW m \in Nat \ {0}
  PROVE  LET count == (c + m - 1) \div m
         IN  /\ count \in Nat
             /\ \A p \in Nat : p < c => p \div m \in Nat /\ p \div m < count
             /\ \A i \in 1 .. count :
                  m * (i - 1) < c /\ (m * (i - 1)) \div m = i - 1
<1>1. PICK a \in Nat : a = c + m - 1
  BY SMT
<1>2. PICK count \in Nat : count = a \div m
  BY Division
<1>3. m * count <= a /\ a < m * count + m
  BY <1>2, Division
<1>4. ASSUME NEW p \in Nat, p < c
      PROVE  p \div m \in Nat /\ p \div m < count
  <2>1. PICK q \in Nat : q = p \div m
    BY Division
  <2>2. m * q <= p
    BY <2>1, Division
  <2>3. c <= m * count
    BY <1>1, <1>3, SMT
  <2>4. ~(count <= q)
    BY <1>4, <2>2, <2>3, Products, SMT
  <2> QED
    BY <2>1, <2>4, SMT
<1>5. ASSUME NEW i \in 1 .. count
      PROVE  m * (i - 1) < c /\ (m * (i - 1)) \div m = i - 1
  <2>1. PICK j \in Nat : j = i - 1
    BY <1>5, SMT
  <2>2. j < count
    BY <1>5, <2>1, SMT
  <2>3. m * j + m <= m * count
    BY <2>2, Products
  <2>4. m * j < c
    BY <1>1, <1>3, <2>3, SMT
  <2>5. PICK b \in Nat : b = m * j
    BY SMT
  <2>6. PICK q \in Nat : q = b \div m
    BY <2>5, Division
  <2>7. m * q <= b /\ b < m * q + m
    BY <2>5, <2>6, Division
  <2>8. ~(j < q)
    BY <2>5, <2>7, Products, SMT
  <2>9. ~(q < j)
    BY <2>5, <2>7, Products, SMT
  <2> QED
    BY <2>1, <2>4, <2>5, <2>6, <2>8, <2>9, SMT
<1> QED
  BY <1>1, <1>2, <1>4, <1>5

\* The output files of a merge hold its records and nothing else, none of them is
\* empty, and their keys are apart (write_merged).
LEMMA CutFiles ==
  ASSUME NEW R, R \subseteq Records, OnePerKey(R)
  PROVE  LET pieces == Cut(R)
         IN  /\ pieces \in Seq(SUBSET R)
             /\ \A i \in DOMAIN pieces : pieces[i] # {}
             /\ \A r \in R : \E i \in DOMAIN pieces : r \in pieces[i]
             /\ \A i, j \in DOMAIN pieces :
                  i # j => Disjoint(pieces[i], pieces[j])
<1>1. PICK K : K = {r.key : r \in R}
  OBVIOUS
<1>2. /\ K \subseteq Nat /\ IsFiniteSet(K) /\ IsFiniteSet(R)
      /\ Cardinality(K) = Cardinality(R)
  BY <1>1, FiniteRecords
<1>3. PICK m \in Nat \ {0} : m = MemtableBytes
  BY ConfigAssumption
<1>4. PICK c \in Nat : c = Cardinality(R)
  BY <1>2, FS_CardinalityType
<1>5. PICK count \in Nat : count = (c + m - 1) \div m
  BY Pieces
<1>6. PICK p : p = [r \in R |-> Rank(K, r.key)]
  OBVIOUS
<1>7. \A r \in R : r.key \in K /\ r.key \in Nat
  <2>1. \A r \in R : r.key \in K
    BY <1>1
  <2> QED
    BY <1>2, <2>1
<1>7a. /\ \A x \in K : Rank(K, x) \in 0 .. c - 1
       /\ \A x, y \in K : x < y => Rank(K, x) < Rank(K, y)
       /\ \A i \in 0 .. c - 1 : \E x \in K : Rank(K, x) = i
  <2>1. \A x \in K : x \in Int
    <3>1. \A x \in K : x \in Nat
      BY <1>2
    <3> QED
      BY <3>1, SMT
  <2>2. K \subseteq Int
    BY <2>1
  <2>3. Cardinality(K) = c
    BY <1>2, <1>4
  <2>4. /\ \A x \in K : Rank(K, x) \in 0 .. Cardinality(K) - 1
        /\ \A x, y \in K : x < y => Rank(K, x) < Rank(K, y)
        /\ \A i \in 0 .. Cardinality(K) - 1 : \E x \in K : Rank(K, x) = i
    BY <1>2, <2>2, Ranks
  <2> QED
    BY <2>3, <2>4
<1>7b. \A r \in R : p[r] = Rank(K, r.key)
  BY <1>6
<1>8. \A r \in R : p[r] \in Nat /\ p[r] < c
  BY <1>4, <1>7, <1>7a, <1>7b, SMT
<1>9. \A r, s \in R : r.key < s.key => p[r] < p[s]
  BY <1>7, <1>7a, <1>7b
<1>10. \A i \in 0 .. c - 1 : \E r \in R : p[r] = i
  <2>1. \A x \in K : \E r \in R : r.key = x
    BY <1>1
  <2> QED
    BY <1>7a, <1>7b, <2>1, SMT
<1>11. PICK pieces : pieces = Cut(R)
  OBVIOUS
<1>12. pieces = [i \in 1 .. count |-> {r \in R : p[r] \div m = i - 1}]
  BY <1>1, <1>3, <1>4, <1>5, <1>6, <1>11 DEF Cut, Position
<1>13. \A q \in Nat : q < c => q \div m \in Nat /\ q \div m < count
  BY <1>5, Pieces
<1>14. \A i \in 1 .. count : m * (i - 1) < c /\ (m * (i - 1)) \div m = i - 1
  BY <1>5, Pieces
<1>15. pieces \in Seq(SUBSET R) /\ DOMAIN pieces = 1 .. count
  BY <1>12, SMT
<1>16. ASSUME NEW i \in DOMAIN pieces
       PROVE  pieces[i] # {}
  <2>1. i \in 1 .. count
    BY <1>15
  <2>2. m * (i - 1) \in 0 .. c - 1
    BY <1>14, <2>1, Products, SMT
  <2>3. PICK r \in R : p[r] = m * (i - 1)
    BY <1>10, <2>2
  <2>4. p[r] \div m = i - 1
    BY <1>14, <2>1, <2>3
  <2> QED
    BY <1>12, <2>1, <2>4
<1>17. ASSUME NEW r \in R
       PROVE  \E i \in DOMAIN pieces : r \in pieces[i]
  <2>1. PICK q \in Nat : q = p[r] \div m
    BY <1>8, <1>13
  <2>2. q < count
    BY <1>8, <1>13, <2>1
  <2>3. q + 1 \in 1 .. count /\ (q + 1) - 1 = q
    BY <2>2, SMT
  <2>4. r \in pieces[q + 1]
    BY <1>12, <2>1, <2>3
  <2> QED
    BY <1>15, <2>3, <2>4
<1>18. ASSUME NEW i \in 1 .. count, NEW j \in 1 .. count, i < j
       PROVE  LeftOf(pieces[i], pieces[j])
  <2>1. SUFFICES ASSUME NEW r \in pieces[i], NEW s \in pieces[j]
                 PROVE  r.key < s.key
    BY DEF LeftOf
  <2>2. r \in R /\ s \in R /\ p[r] \div m = i - 1 /\ p[s] \div m = j - 1
    BY <1>12, <1>18, <2>1
  <2>3. PICK a \in Nat : a = p[r]
    BY <1>8, <2>2
  <2>4. PICK b \in Nat : b = p[s]
    BY <1>8, <2>2
  <2>5. PICK x \in Nat : x = i - 1
    BY <1>18, SMT
  <2>6. PICK y \in Nat : y = j - 1
    BY <1>18, SMT
  <2>7. a < m * x + m
    BY <2>2, <2>3, <2>5, Division
  <2>8. m * y <= b
    BY <2>2, <2>4, <2>6, Division
  <2>9. m * x + m <= m * y
    BY <1>18, <2>5, <2>6, Products, SMT
  <2>10. p[r] < p[s]
    BY <2>3, <2>4, <2>7, <2>8, <2>9, SMT
  <2>11. r.key # s.key
    BY <1>6, <2>2, <2>3, <2>4, <2>10, SMT
  <2>12. ~(s.key < r.key)
    BY <1>9, <2>2, <2>3, <2>4, <2>10, SMT
  <2> QED
    BY <1>7, <2>2, <2>11, <2>12, SMT
<1>19. ASSUME NEW i \in DOMAIN pieces, NEW j \in DOMAIN pieces, i # j
       PROVE  Disjoint(pieces[i], pieces[j])
  BY <1>15, <1>18, <1>19, SMT DEF Disjoint
<1> QED
  BY <1>11, <1>15, <1>16, <1>17, <1>19

----------------------------------------------------------------------------
(* The inputs of a compaction *)

\* All of level 0 or files of one deeper level, with all files of the level below
\* that touch them: any other file of that level is apart from all of the inputs
\* (plan).
LEMMA InputsApart ==
  ASSUME NEW files, files \subseteq File, NEW level \in Nat,
         Layout(files),
         \A n \in DOMAIN tables : tables[n] \subseteq Records /\ tables[n] # {}
  PROVE  LET inputs == InputsFor(files, level)
         IN  /\ inputs \subseteq files
             /\ \A f \in inputs : f.level \in {level, level + 1}
             /\ level = 0 => AtLevel(files, 0) \subseteq inputs
             /\ \A g \in files \ inputs :
                  g.level = level + 1 => Disjoint(tables[g.number], Content(inputs))
<1>1. PICK upper : upper = IF level = 0 THEN AtLevel(files, 0)
                           ELSE {f \in AtLevel(files, level) :
                                   f.number = Min({e.number : e \in AtLevel(files, level)})}
  OBVIOUS
<1>2. PICK los : los = {MinKey(f.number) : f \in upper}
  OBVIOUS
<1>3. PICK his : his = {MaxKey(f.number) : f \in upper}
  OBVIOUS
<1>4. PICK inputs : inputs = InputsFor(files, level)
  OBVIOUS
<1>5. inputs = upper \cup {f \in AtLevel(files, level + 1) :
                             Overlaps(f.number, Lowest(los), Highest(his))}
  BY <1>1, <1>2, <1>3, <1>4 DEF InputsFor
<1>6. upper \subseteq files /\ \A f \in upper : f.level = level
  BY <1>1 DEF AtLevel
<1>7. ASSUME NEW f \in files
      PROVE  /\ tables[f.number] \subseteq Records /\ tables[f.number] # {}
             /\ MinKey(f.number) \in Nat /\ MaxKey(f.number) \in Nat
             /\ MinKey(f.number) <= MaxKey(f.number)
             /\ MinKey(f.number) \in Keys /\ MaxKey(f.number) \in Keys
  <2>1. f.number \in DOMAIN tables
    BY <1>7 DEF Layout, Numbers
  <2>2. tables[f.number] \subseteq Records /\ tables[f.number] # {}
    BY <2>1
  <2>3. PICK n : n = f.number
    OBVIOUS
  <2>4. /\ MinKey(n) \in Nat /\ MaxKey(n) \in Nat /\ MinKey(n) <= MaxKey(n)
        /\ \E r \in tables[n] : r.key = MinKey(n)
        /\ \E r \in tables[n] : r.key = MaxKey(n)
    BY <2>2, <2>3, KeyRange
  <2>5. \A r \in tables[n] : r.key \in Keys
    BY <2>2, <2>3 DEF Records
  <2> QED
    BY <2>2, <2>3, <2>4, <2>5
<1>8. /\ los \subseteq Keys /\ his \subseteq Keys
      /\ \A f \in upper : MinKey(f.number) \in los /\ MaxKey(f.number) \in his
  BY <1>2, <1>3, <1>6, <1>7
<1>9. /\ IsFiniteSet(los) /\ los \subseteq Int /\ los \subseteq Nat
      /\ IsFiniteSet(his) /\ his \subseteq Nat
  <2>1. IsFiniteSet(Keys) /\ \A k \in Keys : k \in Nat
    BY KeysAssumption
  <2>2. \A k \in Keys : k \in Int
    BY <2>1, SMT
  <2>3. los \in SUBSET Keys /\ his \in SUBSET Keys
    BY <1>8
  <2>4. IsFiniteSet(los) /\ IsFiniteSet(his)
    BY <2>1, <2>3, FS_Subset
  <2> QED
    BY <1>8, <2>1, <2>2, <2>4
<1>10. PICK hi \in Nat : hi = Highest(his) /\ \A k \in his : k <= hi
  BY <1>9, HighestIs
<1>11. PICK lo \in Nat : lo = Lowest(los) /\ (\A k \in los : lo <= k)
                          /\ (upper = {} => lo = 0)
  <2>1. CASE los = {}
    BY <2>1 DEF Lowest
  <2>2. CASE los # {}
    <3>1. Min(los) \in los /\ \A k \in los : Min(los) <= k
      BY <1>9, <2>2, Extremes
    <3>2. Lowest(los) = Min(los)
      BY <2>2 DEF Lowest
    <3>3. upper # {}
      BY <1>2, <2>2
    <3>4. Min(los) \in Nat
      BY <1>9, <3>1
    <3> QED
      BY <3>1, <3>2, <3>3, <3>4
  <2> QED
    BY <2>1, <2>2
<1>12. lo <= hi
  <2>1. CASE upper = {}
    BY <1>10, <1>11, <2>1, SMT
  <2>2. CASE upper # {}
    <3>1. PICK f \in upper : TRUE
      BY <2>2
    <3>2. /\ MinKey(f.number) \in Nat /\ MaxKey(f.number) \in Nat
          /\ MinKey(f.number) <= MaxKey(f.number)
      BY <1>6, <1>7, <3>1
    <3>3. lo <= MinKey(f.number) /\ MaxKey(f.number) <= hi
      BY <1>8, <1>10, <1>11, <3>1
    <3> QED
      BY <3>2, <3>3, SMT
  <2> QED
    BY <2>1, <2>2
<1>13. ASSUME NEW g \in files \ inputs, g.level = level + 1
       PROVE  Disjoint(tables[g.number], Content(inputs))
  <2>1. /\ MinKey(g.number) \in Nat /\ MaxKey(g.number) \in Nat
        /\ MinKey(g.number) <= MaxKey(g.number)
        /\ tables[g.number] \subseteq Records /\ tables[g.number] # {}
    BY <1>7, <1>13
  <2>2. MaxKey(g.number) < lo \/ hi < MinKey(g.number)
    BY <1>5, <1>10, <1>11, <1>13, <2>1, SMT DEF AtLevel, Overlaps
  <2>3. ASSUME NEW f \in inputs
        PROVE  /\ f \in files /\ f # g
               /\ f \in upper => lo <= MinKey(f.number) /\ MaxKey(f.number) <= hi
               /\ f \notin upper =>
                    /\ MinKey(f.number) <= hi /\ lo <= MaxKey(f.number)
                    /\ Disjoint(tables[f.number], tables[g.number])
    <3>1. f \in files /\ f # g
      BY <1>5, <1>6, <1>13, <2>3 DEF AtLevel
    <3>2. f \in upper => lo <= MinKey(f.number) /\ MaxKey(f.number) <= hi
      BY <1>8, <1>10, <1>11
    <3>3. ASSUME f \notin upper
          PROVE  /\ MinKey(f.number) <= hi /\ lo <= MaxKey(f.number)
                 /\ Disjoint(tables[f.number], tables[g.number])
      <4>1. f.level = level + 1 /\ Overlaps(f.number, lo, hi)
        BY <1>5, <1>10, <1>11, <2>3, <3>3 DEF AtLevel
      <4>2. level + 1 > 0
        BY SMT
      <4> QED
        BY <1>13, <3>1, <4>1, <4>2 DEF Layout, Overlaps
    <3> QED
      BY <3>1, <3>2, <3>3
  <2>4. CASE MaxKey(g.number) < lo
    <3>1. ASSUME NEW f \in inputs
          PROVE  LeftOf(tables[g.number], tables[f.number])
      <4>1. /\ MinKey(f.number) \in Nat /\ MaxKey(f.number) \in Nat
            /\ tables[f.number] \subseteq Records /\ tables[f.number] # {}
        BY <1>7, <2>3
      <4>2. /\ LeftOf(tables[g.number], tables[f.number])
                 <=> MaxKey(g.number) < MinKey(f.number)
            /\ LeftOf(tables[f.number], tables[g.number])
                 <=> MaxKey(f.number) < MinKey(g.number)
        BY <2>1, <4>1, RangesApart
      <4>3. CASE f \in upper
        BY <2>1, <2>3, <2>4, <4>1, <4>2, <4>3, SMT
      <4>4. CASE f \notin upper
        BY <2>1, <2>3, <2>4, <4>1, <4>2, <4>4, SMT DEF Disjoint
      <4> QED
        BY <4>3, <4>4
    <3> QED
      BY <3>1 DEF Disjoint, LeftOf, Content
  <2>5. CASE hi < MinKey(g.number)
    <3>1. ASSUME NEW f \in inputs
          PROVE  LeftOf(tables[f.number], tables[g.number])
      <4>1. /\ MinKey(f.number) \in Nat /\ MaxKey(f.number) \in Nat
            /\ tables[f.number] \subseteq Records /\ tables[f.number] # {}
        BY <1>7, <2>3
      <4>2. /\ LeftOf(tables[g.number], tables[f.number])
                 <=> MaxKey(g.number) < MinKey(f.number)
            /\ LeftOf(tables[f.number], tables[g.number])
                 <=> MaxKey(f.number) < MinKey(g.number)
        BY <2>1, <4>1, RangesApart
      <4>3. CASE f \in upper
        BY <2>1, <2>3, <2>5, <4>1, <4>2, <4>3, SMT
      <4>4. CASE f \notin upper
        BY <2>1, <2>3, <2>5, <4>1, <4>2, <4>4, SMT DEF Disjoint
      <4> QED
        BY <4>3, <4>4
    <3> QED
      BY <3>1 DEF Disjoint, LeftOf, Content
  <2> QED
    BY <2>2, <2>4, <2>5
<1>14. \A f \in inputs : f.level \in {level, level + 1}
  BY <1>5, <1>6 DEF AtLevel
<1>15. inputs \subseteq files /\ (level = 0 => AtLevel(files, 0) \subseteq inputs)
  BY <1>1, <1>5, <1>6 DEF AtLevel
<1> QED
  BY <1>4, <1>13, <1>14, <1>15

----------------------------------------------------------------------------
(* Newest versions *)

\* The newest records are one per key.
LEMMA NewestIsOne ==
  ASSUME NEW R, R \subseteq Records, OneSeq(R)
  PROVE  OnePerKey(NewestOf(R)) /\ NewestOf(R) \subseteq R
<1>1. ASSUME NEW r \in NewestOf(R), NEW s \in NewestOf(R), r.key = s.key
      PROVE  r = s
  <2>1. r \in R /\ s \in R /\ r.seq <= s.seq /\ s.seq <= r.seq
    BY <1>1 DEF NewestOf
  <2>2. r.seq \in Int /\ s.seq \in Int
    BY <2>1, ConfigAssumption, SMT DEF Records
  <2> QED
    BY <2>1, <2>2, SMT DEF OneSeq
<1>2. NewestOf(R) \subseteq R
  BY DEF NewestOf
<1> QED
  BY <1>1, <1>2 DEF OnePerKey

\* The newest records of a set answer for all of them.
LEMMA NewestCovers ==
  ASSUME NEW R, R \subseteq Records, NEW r \in R
  PROVE  \E d \in NewestOf(R) : d.key = r.key /\ d.seq >= r.seq
<1>1. PICK S : S = {s.seq : s \in {x \in R : x.key = r.key}}
  OBVIOUS
<1>2. MaxSeq \in Nat /\ \A x \in S : x \in 1 .. MaxSeq /\ x \in Int
  BY <1>1, ConfigAssumption, SMT DEF Records
<1>3. S # {} /\ S \subseteq Int /\ IsFiniteSet(S) /\ r.seq \in S
  <2>1. r.seq \in S
    BY <1>1
  <2>2. PICK T : T = 1 .. MaxSeq
    OBVIOUS
  <2>3. IsFiniteSet(T)
    BY <1>2, <2>2, FS_Interval, SMT
  <2>4. S \subseteq T
    BY <1>2, <2>2
  <2>5. IsFiniteSet(S)
    BY <2>3, <2>4, FS_Subset
  <2>6. S \subseteq Int
    BY <1>2
  <2> QED
    BY <2>1, <2>5, <2>6
<1>4. Max(S) \in S /\ \A x \in S : x <= Max(S)
  BY <1>3, Extremes
<1>5. PICK d \in R : d.key = r.key /\ d.seq = Max(S)
  BY <1>1, <1>4
<1>6. \A o \in R : o.key = d.key => o.seq \in S
  BY <1>1, <1>5
<1>7. d \in NewestOf(R)
  BY <1>4, <1>5, <1>6 DEF NewestOf
<1>8. d.seq >= r.seq
  BY <1>2, <1>3, <1>4, <1>5
<1> QED
  BY <1>5, <1>7, <1>8
=============================================================================
