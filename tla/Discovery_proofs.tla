---------------------------- MODULE Discovery_proofs ----------------------------
(***************************************************************************)
(* What the operators of Discovery compute, for every tree and every path:    *)
(* the order of their bytes is a strict one, names that are joined can be     *)
(* taken apart, a sorted list has what it was made of, and a path that meets    *)
(* no link leads where it says.                                              *)
(***************************************************************************)
EXTENDS Discovery, FiniteSetTheorems, FunctionTheorems, SequenceTheorems, WellFoundedInduction, TLAPS

-----------------------------------------------------------------------------
(* Induction over the naturals, for sets of them.                          *)

Smaller == {p \in Nat \X Nat : p[1] < p[2]}

LEMMA Least ==
  ASSUME NEW T \in SUBSET Nat, T # {}
  PROVE  \E n \in T : \A m \in T : n <= m
  <1>1. IsWellFoundedOn(Smaller, Nat)
    BY NatLessThanWellFounded, Zenon DEF OpToRel, Smaller
  <1>2. \A m, n \in Nat : <<m, n>> \in Smaller <=> m < n
    BY DEF Smaller
  <1>3. PICK n \in T : \A m \in T : ~(<<m, n>> \in Smaller)
    BY <1>1, WFMin
  <1>4. \A m \in T : ~(m < n)
    BY <1>2, <1>3
  <1> QED
    BY <1>4

LEMMA Induct ==
  ASSUME NEW T \in SUBSET Nat, 0 \in T, \A n \in T : n + 1 \in T
  PROVE  T = Nat
  <1> DEFINE U == Nat \ T
  <1>1. SUFFICES ASSUME U # {} PROVE FALSE
    OBVIOUS
  <1>2. U \in SUBSET Nat
    OBVIOUS
  <1> HIDE DEF U
  <1>3. PICK n \in U : \A m \in U : n <= m
    BY <1>1, <1>2, Least
  <1>4. n \in Nat /\ n # 0
    BY <1>2 DEF U
  <1>5. n - 1 \in Nat /\ n - 1 \notin U
    BY <1>3, <1>4
  <1>6. n - 1 \in T /\ (n - 1) + 1 = n
    BY <1>4, <1>5 DEF U
  <1> QED
    BY <1>6 DEF U

\* From 0 up to a number.
LEMMA Upwards ==
  ASSUME NEW n \in Nat, NEW T, 0 \in T, \A k \in 1 .. n : k - 1 \in T => k \in T
  PROVE  \A k \in 0 .. n : k \in T
  <1> DEFINE D == {k \in Nat : k <= n => k \in T}
  <1>1. D \in SUBSET Nat /\ 0 \in D
    OBVIOUS
  <1>2. ASSUME NEW k \in D PROVE k + 1 \in D
    <2>1. k \in Nat /\ k + 1 \in Nat /\ (k + 1) - 1 = k
      OBVIOUS
    <2>2. k + 1 <= n => k \in T /\ k + 1 \in 1 .. n
      BY <2>1
    <2> QED
      BY <2>1, <2>2
  <1> HIDE DEF D
  <1>3. D = Nat
    BY <1>1, <1>2, Induct
  <1> QED
    BY <1>3 DEF D

\* A finite set of numbers has a greatest one.
LEMMA Greatest ==
  ASSUME NEW n \in Nat, NEW T \in SUBSET (0 .. n), T # {}
  PROVE  Max(T) \in T /\ \A m \in T : m <= Max(T)
  <1> DEFINE U == {n - m : m \in T}
  <1>0. \A m \in T : m \in Nat /\ n - m \in Nat
    OBVIOUS
  <1>1. U \in SUBSET Nat /\ U # {}
    BY <1>0
  <1>2. PICK u \in U : \A v \in U : u <= v
    BY <1>1, Least
  <1>3. PICK x \in T : u = n - x
    BY <1>2
  <1>4. \A m \in T : x >= m
    <2>1. \A m \in T : n - m \in U
      OBVIOUS
    <2> HIDE DEF U
    <2>2. \A m \in T : n - x <= n - m
      BY <1>2, <1>3, <2>1
    <2> QED
      BY <1>0, <2>2
  <1> DEFINE Is(y) == y \in T /\ \A m \in T : y >= m
  <1>5. Is(x)
    BY <1>4
  <1>6. Max(T) = CHOOSE y : Is(y)
    BY DEF Max
  <1>7. Is(Max(T))
    <2> HIDE DEF Is
    <2> QED
      BY <1>5, <1>6
  <1> QED
    BY <1>7

\* A scan from the beginning: f[i] is made of f[i - 1] by step[i].
Scans(f, n, V, base, step) ==
  f \in [0 .. n -> V] /\ f[0] = base /\ \A i \in 1 .. n : f[i] = step[i][f[i - 1]]

LEMMA Scan ==
  ASSUME NEW n \in Nat, NEW V, NEW base \in V,
         NEW step, \A i \in 1 .. n : \A v \in V : step[i][v] \in V
  PROVE  \E f : Scans(f, n, V, base, step)
  <1> DEFINE Upto(k, f) == /\ f \in [0 .. k -> V]
                           /\ f[0] = base
                           /\ \A i \in 1 .. k : f[i] = step[i][f[i - 1]]
             T == {k \in Nat : \E f : Upto(k, f)}
  <1>1. 0 \in T
    <2>1. Upto(0, [i \in 0 .. 0 |-> base])
      OBVIOUS
    <2> HIDE DEF Upto
    <2> QED
      BY <2>1
  <1>2. ASSUME NEW k \in 1 .. n, k - 1 \in T PROVE k \in T
    <2>1. PICK f : Upto(k - 1, f)
      BY <1>2
    <2> DEFINE v == step[k][f[k - 1]]
               g == [i \in 0 .. k |-> IF i = k THEN v ELSE f[i]]
    <2>2. v \in V
      BY <2>1
    <2> HIDE DEF v
    <2>3. g \in [0 .. k -> V] /\ g[0] = base
      BY <2>1, <2>2
    <2>4. ASSUME NEW i \in 1 .. k PROVE g[i] = step[i][g[i - 1]]
      <3>1. CASE i = k
        BY <3>1, <2>1 DEF v
      <3>2. CASE i # k
        BY <3>2, <2>1
      <3> QED
        BY <3>1, <3>2
    <2> HIDE DEF g
    <2>5. Upto(k, g)
      BY <2>3, <2>4
    <2> HIDE DEF Upto
    <2> QED
      BY <2>5
  <1> HIDE DEF T
  <1>3. n \in T
    BY <1>1, <1>2, Upwards
  <1> QED
    BY <1>3 DEF T, Scans

-----------------------------------------------------------------------------
(* The order of bytes.                                                     *)

\* Before, byte by byte.
LEMMA BeforeIs ==
  ASSUME NEW l \in Seq(Nat), NEW r \in Seq(Nat)
  PROVE  Before(l, r) <=>
             \/ Len(l) < Len(r) /\ \A k \in 1 .. Len(l) : l[k] = r[k]
             \/ \E i \in 1 .. Len(l) : /\ i <= Len(r) /\ l[i] < r[i]
                                       /\ \A k \in 1 .. i - 1 : l[k] = r[k]
  <1>1. IsStrictPrefix(l, r) <=> Len(l) < Len(r) /\ \A k \in 1 .. Len(l) : l[k] = r[k]
    <2>1. ASSUME Len(l) <= Len(r)
          PROVE  SubSeq(l, 1, Len(l)) = SubSeq(r, 1, Len(l)) <=> \A k \in 1 .. Len(l) : l[k] = r[k]
      BY <2>1
    <2>2. Len(l) = Len(r) => (l = r <=> \A k \in 1 .. Len(l) : l[k] = r[k])
      BY SeqEqual
    <2> QED
      BY <2>1, <2>2 DEF IsStrictPrefix, IsPrefix
  <1>2. ASSUME NEW i \in 1 .. Len(l), i <= Len(r)
        PROVE  SubSeq(l, 1, i - 1) = SubSeq(r, 1, i - 1) <=> \A k \in 1 .. i - 1 : l[k] = r[k]
    BY <1>2
  <1>3. DOMAIN l \cap DOMAIN r = {i \in 1 .. Len(l) : i <= Len(r)}
    OBVIOUS
  <1> QED
    BY <1>1, <1>2, <1>3 DEF Before

LEMMA BeforeIrreflexive == ASSUME NEW l \in Seq(Nat) PROVE ~Before(l, l)
BY BeforeIs

LEMMA BeforeTransitive ==
  ASSUME NEW l \in Seq(Nat), NEW m \in Seq(Nat), NEW r \in Seq(Nat), Before(l, m), Before(m, r)
  PROVE  Before(l, r)
  <1>0. /\ Len(l) \in Nat /\ Len(m) \in Nat /\ Len(r) \in Nat
        /\ \A k \in 1 .. Len(l) : l[k] \in Nat
        /\ \A k \in 1 .. Len(m) : m[k] \in Nat
        /\ \A k \in 1 .. Len(r) : r[k] \in Nat
    OBVIOUS
  <1>1. CASE Len(l) < Len(m) /\ \A k \in 1 .. Len(l) : l[k] = m[k]
    <2>1. CASE Len(m) < Len(r) /\ \A k \in 1 .. Len(m) : m[k] = r[k]
      <3>1. \A k \in 1 .. Len(l) : k \in 1 .. Len(m)
        BY <1>0, <1>1
      <3>2. Len(l) < Len(r) /\ \A k \in 1 .. Len(l) : l[k] = r[k]
        BY <1>0, <1>1, <2>1, <3>1
      <3> QED
        BY <3>2, BeforeIs
    <2>2. CASE \E i \in 1 .. Len(m) : /\ i <= Len(r) /\ m[i] < r[i]
                                      /\ \A k \in 1 .. i - 1 : m[k] = r[k]
      <3>1. PICK i \in 1 .. Len(m) : i <= Len(r) /\ m[i] < r[i] /\ \A k \in 1 .. i - 1 : m[k] = r[k]
        BY <2>2
      <3>2. CASE i <= Len(l)
        <4>1. l[i] < r[i] /\ \A k \in 1 .. i - 1 : l[k] = r[k]
          BY <1>0, <1>1, <3>1, <3>2
        <4> QED
          BY <1>0, <3>1, <3>2, <4>1, BeforeIs
      <3>3. CASE Len(l) < i
        <4>1. Len(l) < Len(r) /\ \A k \in 1 .. Len(l) : l[k] = r[k]
          BY <1>0, <1>1, <3>1, <3>3
        <4> QED
          BY <4>1, BeforeIs
      <3> QED
        BY <1>0, <3>1, <3>2, <3>3
    <2> QED
      BY <2>1, <2>2, BeforeIs
  <1>2. CASE \E i \in 1 .. Len(l) : /\ i <= Len(m) /\ l[i] < m[i]
                                    /\ \A k \in 1 .. i - 1 : l[k] = m[k]
    <2>0. PICK i \in 1 .. Len(l) : i <= Len(m) /\ l[i] < m[i] /\ \A k \in 1 .. i - 1 : l[k] = m[k]
      BY <1>2
    <2>1. CASE Len(m) < Len(r) /\ \A k \in 1 .. Len(m) : m[k] = r[k]
      <3>1. i \in Nat /\ i <= Len(m) /\ Len(m) \in Nat /\ i \in 1 .. Len(m)
        BY <1>0, <2>0
      <3>2. i <= Len(r) /\ m[i] = r[i] /\ l[i] < r[i]
        BY <1>0, <2>0, <2>1, <3>1
      <3>3. \A k \in 1 .. i - 1 : k \in 1 .. Len(m)
        BY <3>1
      <3>4. \A k \in 1 .. i - 1 : l[k] = r[k]
        BY <2>0, <2>1, <3>3
      <3> QED
        BY <3>2, <3>4, BeforeIs
    <2>2. CASE \E j \in 1 .. Len(m) : /\ j <= Len(r) /\ m[j] < r[j]
                                      /\ \A k \in 1 .. j - 1 : m[k] = r[k]
      <3>1. PICK j \in 1 .. Len(m) : j <= Len(r) /\ m[j] < r[j] /\ \A k \in 1 .. j - 1 : m[k] = r[k]
        BY <2>2
      <3>2. CASE i <= j
        <4>1. i \in Nat /\ j \in Nat /\ i \in 1 .. Len(m) /\ i \in 1 .. Len(r)
          BY <1>0, <2>0, <3>1, <3>2
        <4>2. \A k \in 1 .. i - 1 : k \in 1 .. j - 1
          BY <3>2, <4>1
        <4>3. i = j \/ i \in 1 .. j - 1
          BY <3>2, <4>1
        <4>4. m[i] < r[i] \/ m[i] = r[i]
          BY <3>1, <4>3
        <4>5. l[i] \in Nat /\ m[i] \in Nat /\ r[i] \in Nat
          BY <1>0, <4>1
        <4> DEFINE a == l[i]
                   b == m[i]
                   c == r[i]
        <4>6. l[i] < r[i]
          <5>1. a < b /\ (b < c \/ b = c) /\ a \in Nat /\ b \in Nat /\ c \in Nat
            BY <2>0, <4>4, <4>5
          <5> HIDE DEF a, b, c
          <5>2. a < c
            BY <5>1
          <5> QED
            BY <5>2 DEF a, c
        <4>7. \A k \in 1 .. i - 1 : l[k] = r[k]
          BY <2>0, <3>1, <4>2
        <4>8. i <= Len(r)
          BY <1>0, <4>1
        <4> QED
          BY <4>6, <4>7, <4>8, BeforeIs
      <3>3. CASE j < i
        <4>0. j \in 1 .. i - 1 /\ j \in 1 .. Len(l) /\ \A k \in 1 .. j - 1 : k \in 1 .. i - 1
          BY <1>0, <3>3
        <4>1. /\ j \in 1 .. Len(l) /\ j <= Len(r) /\ l[j] < r[j]
              /\ \A k \in 1 .. j - 1 : l[k] = r[k]
          BY <2>0, <3>1, <4>0
        <4> QED
          BY <4>1, BeforeIs
      <3> QED
        BY <1>0, <2>0, <3>1, <3>2, <3>3
    <2> QED
      BY <2>1, <2>2, BeforeIs
  <1> QED
    BY <1>1, <1>2, BeforeIs

LEMMA BeforeTotal ==
  ASSUME NEW l \in Seq(Nat), NEW r \in Seq(Nat), l # r
  PROVE  Before(l, r) \/ Before(r, l)
  <1> DEFINE Both == {k \in Nat : k >= 1 /\ k <= Len(l) /\ k <= Len(r)}
             T == {k \in Both : l[k] # r[k]}
  <1>0. /\ Len(l) \in Nat /\ Len(r) \in Nat
        /\ \A k \in 1 .. Len(l) : l[k] \in Nat
        /\ \A k \in 1 .. Len(r) : r[k] \in Nat
    OBVIOUS
  <1>1. CASE T = {}
    <2>1. \A k \in 1 .. Len(l) : k <= Len(r) => l[k] = r[k]
      <3>1. ASSUME NEW k \in 1 .. Len(l), k <= Len(r) PROVE k \in Both
        BY <1>0, <3>1
      <3> HIDE DEF Both
      <3> QED
        BY <1>1, <3>1
    <2>2. Len(l) # Len(r)
      BY <2>1, SeqEqual
    <2>3. CASE Len(l) < Len(r)
      BY <2>1, <2>3, <1>0, BeforeIs
    <2>4. CASE Len(r) < Len(l)
      BY <2>1, <2>4, <1>0, BeforeIs
    <2> QED
      BY <1>0, <2>2, <2>3, <2>4
  <1>2. CASE T # {}
    <2>1. PICK i \in T : \A k \in T : i <= k
      BY <1>2, Least
    <2>2. i \in 1 .. Len(l) /\ i <= Len(r) /\ i \in 1 .. Len(r) /\ l[i] # r[i]
      BY <1>0
    <2>3. \A k \in 1 .. i - 1 : l[k] = r[k]
      <3>1. ASSUME NEW k \in 1 .. i - 1 PROVE k \in Both /\ ~(i <= k)
        BY <1>0, <2>2
      <3> HIDE DEF Both
      <3> QED
        BY <2>1, <3>1
    <2>4. l[i] < r[i] \/ r[i] < l[i]
      BY <1>0, <2>2
    <2> QED
      BY <1>0, <2>2, <2>3, <2>4, BeforeIs
  <1> QED
    BY <1>1, <1>2

-----------------------------------------------------------------------------
(* Sorting.                                                                *)

\* Keys that differ have as many ranks as there are paths, in the order of their bytes.
LEMMA Ranks ==
  ASSUME NEW paths, IsFiniteSet(paths), NEW key \in [paths -> Seq(Nat)],
         \A p, q \in paths : key[p] = key[q] => p = q,
         NEW rank, rank = [p \in paths |-> Cardinality({q \in paths : Before(key[q], key[p])})]
  PROVE  /\ rank \in Bijection(paths, 0 .. Cardinality(paths) - 1)
         /\ \A p, q \in paths : rank[p] < rank[q] => Before(key[p], key[q])
  <1> DEFINE Earlier(p) == {q \in paths : Before(key[q], key[p])}
             n == Cardinality(paths)
  <1>0. n \in Nat
    BY FS_CardinalityType
  <1>1. ASSUME NEW p \in paths
        PROVE  IsFiniteSet(Earlier(p)) /\ Cardinality(Earlier(p)) \in 0 .. n - 1
    <2>1. Earlier(p) \in SUBSET paths /\ p \notin Earlier(p)
      BY BeforeIrreflexive
    <2> HIDE DEF Earlier
    <2>2. IsFiniteSet(Earlier(p)) /\ Cardinality(Earlier(p)) <= n
      BY <2>1, FS_Subset
    <2>3. Cardinality(Earlier(p)) # n
      BY <2>1, FS_Subset
    <2>4. Cardinality(Earlier(p)) \in Nat
      BY <2>2, FS_CardinalityType
    <2> QED
      BY <1>0, <2>2, <2>3, <2>4
  <1>2. ASSUME NEW p \in paths, NEW q \in paths, Before(key[p], key[q])
        PROVE  Cardinality(Earlier(p)) < Cardinality(Earlier(q))
    <2>1. Earlier(p) \in SUBSET Earlier(q)
      <3>1. ASSUME NEW r \in paths, Before(key[r], key[p]) PROVE Before(key[r], key[q])
        BY <1>2, <3>1, BeforeTransitive
      <3> QED
        BY <3>1
    <2>2. p \in Earlier(q) /\ p \notin Earlier(p)
      BY <1>2, BeforeIrreflexive
    <2> HIDE DEF Earlier
    <2>3. IsFiniteSet(Earlier(q)) /\ Cardinality(Earlier(q)) \in Nat /\ Cardinality(Earlier(p)) \in Nat
      BY <1>0, <1>1
    <2>4. Cardinality(Earlier(p)) <= Cardinality(Earlier(q)) /\ Cardinality(Earlier(p)) # Cardinality(Earlier(q))
      BY <2>1, <2>2, <2>3, FS_Subset
    <2> QED
      BY <2>3, <2>4
  <1>3. \A p \in paths : rank[p] = Cardinality(Earlier(p))
    OBVIOUS
  <1>4. rank \in [paths -> 0 .. n - 1]
    BY <1>1
  <1> HIDE DEF Earlier
  <1>5. ASSUME NEW p \in paths, NEW q \in paths
        PROVE  /\ rank[p] < rank[q] => Before(key[p], key[q])
               /\ rank[p] = rank[q] => p = q
    <2>1. rank[p] \in Nat /\ rank[q] \in Nat
      BY <1>0, <1>4
    <2>2. Before(key[p], key[q]) \/ Before(key[q], key[p]) \/ p = q
      BY BeforeTotal
    <2>3. Before(key[p], key[q]) => rank[p] < rank[q]
      BY <1>2, <1>3
    <2>4. Before(key[q], key[p]) => rank[q] < rank[p]
      BY <1>2, <1>3
    <2>5. p = q => rank[p] = rank[q]
      OBVIOUS
    <2> DEFINE a == rank[p]
               b == rank[q]
    <2>6. a \in Nat /\ b \in Nat /\ (a < b \/ b < a \/ a = b)
      BY <2>1
    <2> HIDE DEF a, b
    <2>7. ~(a < b /\ b < a) /\ ~(a = b /\ (a < b \/ b < a))
      BY <2>6
    <2> QED
      BY <2>2, <2>3, <2>4, <2>5, <2>7 DEF a, b
  <1>6. rank \in Injection(paths, 0 .. n - 1)
    BY <1>4, <1>5, Fun_IsInj
  <1>7. IsFiniteSet(0 .. n - 1) /\ Cardinality(0 .. n - 1) = n
    <2>1. 0 \in Int /\ n - 1 \in Int
      BY <1>0
    <2> DEFINE z == n - 1
               c == Cardinality(0 .. z)
    <2> HIDE DEF z, c
    <2>2. IsFiniteSet(0 .. z) /\ c = IF 0 > z THEN 0 ELSE z - 0 + 1
      BY <2>1, FS_Interval DEF z, c
    <2>3. c = n
      BY <1>0, <2>2 DEF z
    <2> QED
      BY <2>2, <2>3 DEF z, c
  <1>8. rank \in Surjection(paths, 0 .. n - 1)
    BY <1>6, <1>7, FS_Injection
  <1>9. rank \in Bijection(paths, 0 .. n - 1)
    BY <1>6, <1>8, Fun_IsBij
  <1> QED
    BY <1>5, <1>9

\* Paths whose keys differ are sorted: each is there once, in the order of its bytes.
LEMMA SortedIs ==
  ASSUME NEW root, NEW paths, IsFiniteSet(paths),
         \A p \in paths : Native(lexically_relative(p, root)) \in Seq(Nat),
         \A p, q \in paths :
             Native(lexically_relative(p, root)) = Native(lexically_relative(q, root)) => p = q
  PROVE  LET s == SortedByPath(root, paths)
         IN  /\ Cardinality(paths) \in Nat /\ DOMAIN s = 1 .. Cardinality(paths)
             /\ \A i \in DOMAIN s : s[i] \in paths
             /\ \A p \in paths : \E i \in DOMAIN s : s[i] = p
             /\ \A i, j \in DOMAIN s :
                    i < j => /\ s[i] # s[j]
                             /\ Before(Native(lexically_relative(s[i], root)),
                                       Native(lexically_relative(s[j], root)))
  <1> DEFINE s == SortedByPath(root, paths)
             key == [p \in paths |-> Native(lexically_relative(p, root))]
             rank == [p \in paths |-> Cardinality({q \in paths : Before(key[q], key[p])})]
             n == Cardinality(paths)
  <1>1. key \in [paths -> Seq(Nat)] /\ \A p, q \in paths : key[p] = key[q] => p = q
    OBVIOUS
  <1>2. \A p \in paths : key[p] = Native(lexically_relative(p, root))
    OBVIOUS
  <1>3. s = [i \in 1 .. n |-> CHOOSE p \in paths : rank[p] = i - 1]
    BY DEF SortedByPath
  <1> HIDE DEF key, s
  <1>4. /\ rank \in Bijection(paths, 0 .. n - 1)
        /\ \A p, q \in paths : rank[p] < rank[q] => Before(key[p], key[q])
    BY <1>1, Ranks
  <1>5. n \in Nat
    BY FS_CardinalityType
  <1> HIDE DEF rank, n
  <1>6. /\ rank \in [paths -> 0 .. n - 1]
        /\ \A p, q \in paths : rank[p] = rank[q] => p = q
        /\ \A k \in 0 .. n - 1 : \E p \in paths : rank[p] = k
    BY <1>4 DEF Bijection, Injection, Surjection, IsInjective
  <1>7. ASSUME NEW i \in 1 .. n PROVE s[i] \in paths /\ rank[s[i]] = i - 1
    <2>1. i - 1 \in 0 .. n - 1
      BY <1>5
    <2>2. \E p \in paths : rank[p] = i - 1
      BY <1>6, <2>1
    <2>3. s[i] = CHOOSE p \in paths : rank[p] = i - 1
      BY <1>3
    <2> QED
      BY <2>2, <2>3
  <1>8. ASSUME NEW p \in paths PROVE \E i \in 1 .. n : s[i] = p
    <2>1. rank[p] \in 0 .. n - 1
      BY <1>6
    <2> DEFINE i == rank[p] + 1
    <2>2. i \in 1 .. n /\ i - 1 = rank[p]
      BY <1>5, <2>1
    <2>3. s[i] = p
      BY <1>6, <1>7, <2>2
    <2> QED
      BY <2>2, <2>3
  <1>9. ASSUME NEW i \in 1 .. n, NEW j \in 1 .. n, i < j
        PROVE  s[i] # s[j] /\ Before(key[s[i]], key[s[j]])
    <2>1. rank[s[i]] < rank[s[j]] /\ rank[s[i]] # rank[s[j]] /\ s[i] \in paths /\ s[j] \in paths
      BY <1>5, <1>7, <1>9
    <2> QED
      BY <1>4, <2>1
  <1>10. DOMAIN s = 1 .. n
    BY <1>3
  <1>11. /\ \A i \in DOMAIN s : s[i] \in paths
         /\ \A p \in paths : \E i \in DOMAIN s : s[i] = p
    BY <1>7, <1>8, <1>10
  <1>12. ASSUME NEW i \in DOMAIN s, NEW j \in DOMAIN s, i < j
         PROVE  /\ s[i] # s[j]
                /\ Before(Native(lexically_relative(s[i], root)),
                          Native(lexically_relative(s[j], root)))
    <2>1. /\ s[i] # s[j] /\ Before(key[s[i]], key[s[j]])
          /\ s[i] \in paths /\ s[j] \in paths
      BY <1>7, <1>9, <1>10, <1>12
    <2> QED
      BY <1>2, <2>1
  <1> QED
    BY <1>5, <1>10, <1>11, <1>12 DEF n, s

-----------------------------------------------------------------------------
(* Prefixes.                                                               *)

LEMMA PrefixIs ==
  ASSUME NEW S, NEW p \in Seq(S), NEW q \in Seq(S)
  PROVE  IsPrefix(p, q) <=> Len(p) <= Len(q) /\ \A k \in 1 .. Len(p) : p[k] = q[k]
  <1>1. ASSUME Len(p) <= Len(q)
        PROVE  SubSeq(p, 1, Len(p)) = SubSeq(q, 1, Len(p)) <=> \A k \in 1 .. Len(p) : p[k] = q[k]
    BY <1>1
  <1> QED
    BY <1>1 DEF IsPrefix

\* What is left of a path after a prefix of it.
LEMMA PrefixRest ==
  ASSUME NEW S, NEW p \in Seq(S), NEW q \in Seq(S), IsPrefix(p, q)
  PROVE  LET r == SubSeq(q, Len(p) + 1, Len(q))
         IN  /\ r \in Seq(S) /\ q = p \o r /\ Len(r) = Len(q) - Len(p)
             /\ p = q <=> r = <<>>
             /\ r # <<>> => Last(r) = Last(q)
  <1> DEFINE m == Len(p)
             n == Len(q)
             r == SubSeq(q, m + 1, n)
  <1>1. /\ m \in Nat /\ n \in Nat /\ m <= n /\ \A k \in 1 .. m : p[k] = q[k]
        /\ \A k \in 1 .. n : q[k] \in S
    BY PrefixIs
  <1> HIDE DEF m, n
  <1>2. \A i \in m + 1 .. n : q[i] \in S
    BY <1>1
  <1>3. /\ r \in Seq(S)
        /\ Len(r) = IF m + 1 <= n THEN n - (m + 1) + 1 ELSE 0
        /\ \A i \in 1 .. n - (m + 1) + 1 : r[i] = q[(m + 1) + i - 1]
    BY <1>1, <1>2, SubSeqProperties
  <1> HIDE DEF r
  <1>4. Len(r) = n - m /\ \A i \in 1 .. n - m : r[i] = q[m + i]
    <2>1. n - (m + 1) + 1 = n - m /\ \A i \in 1 .. n - m : (m + 1) + i - 1 = m + i
      BY <1>1
    <2>2. Len(r) = n - m
      <3>1. m \in Nat /\ n \in Nat /\ m <= n
        BY <1>1
      <3> DEFINE l == Len(r)
      <3>2. l = IF m + 1 <= n THEN n - (m + 1) + 1 ELSE 0
        BY <1>3
      <3> HIDE DEF l
      <3>3. l = n - m
        BY <3>1, <3>2
      <3> QED
        BY <3>3 DEF l
    <2>3. ASSUME NEW i \in 1 .. n - m PROVE r[i] = q[m + i]
      <3>1. r[i] = q[(m + 1) + i - 1]
        BY <1>3, <2>1
      <3> QED
        BY <2>1, <3>1
    <2> QED
      BY <2>2, <2>3
  <1>5. p = q => m = n
    BY DEF m, n
  <1>6. p = q => r = <<>>
    BY <1>1, <1>3, <1>4, <1>5
  <1>7. q = p \o r
    <2>1. /\ p \o r \in Seq(S) /\ Len(p \o r) = m + (n - m)
          /\ \A i \in 1 .. m + (n - m) : (p \o r)[i] = IF i <= m THEN p[i] ELSE r[i - m]
      <3>1. /\ p \o r \in Seq(S) /\ Len(p \o r) = Len(p) + Len(r)
            /\ \A i \in 1 .. Len(p) + Len(r) :
                   (p \o r)[i] = IF i <= Len(p) THEN p[i] ELSE r[i - Len(p)]
        BY <1>3, ConcatProperties
      <3> QED
        BY <1>4, <3>1 DEF m
    <2> DEFINE w == p \o r
    <2> HIDE DEF w
    <2>2. ASSUME NEW i \in 1 .. n PROVE w[i] = q[i]
      <3>1. i \in 1 .. m + (n - m)
        BY <1>1
      <3>2. CASE i <= m
        <4>1. i \in 1 .. m
          BY <3>2
        <4> QED
          BY <1>1, <2>1, <3>1, <3>2, <4>1 DEF w
      <3>3. CASE ~(i <= m)
        <4> DEFINE j == i - m
        <4>1. j \in 1 .. n - m /\ m + j = i
          BY <1>1, <3>3
        <4>2. w[i] = r[j]
          BY <2>1, <3>1, <3>3 DEF w
        <4> HIDE DEF j
        <4> QED
          BY <1>4, <4>1, <4>2
      <3> QED
        BY <3>2, <3>3
    <2>3. w \in Seq(S) /\ Len(w) = n
      BY <1>1, <2>1 DEF w
    <2>4. w = q
      BY <2>2, <2>3, SeqEqual DEF n
    <2> QED
      BY <2>4 DEF w
  <1>8. r = <<>> => p = q
    BY <1>7, ConcatEmptySeq
  <1>9. r # <<>> => Last(r) = Last(q)
    <2> SUFFICES ASSUME r # <<>> PROVE Last(r) = Last(q)
      OBVIOUS
    <2>1. Len(r) # 0
      BY <1>3, EmptySeq
    <2>2. n - m \in 1 .. n - m /\ m + (n - m) = n
      BY <1>1, <1>4, <2>1
    <2> QED
      BY <1>4, <2>2 DEF Last, n
  <1> QED
    BY <1>3, <1>4, <1>6, <1>7, <1>8, <1>9 DEF m, n, r

LEMMA PrefixConcat ==
  ASSUME NEW S, NEW p \in Seq(S), NEW r \in Seq(S)
  PROVE  LET q == p \o r
         IN  /\ q \in Seq(S) /\ Len(q) = Len(p) + Len(r)
             /\ IsPrefix(p, q)
             /\ IsStrictPrefix(p, q) <=> r # <<>>
             /\ SubSeq(q, Len(p) + 1, Len(q)) = r
  <1> DEFINE m == Len(p)
             n == Len(r)
             q == p \o r
  <1>1. /\ m \in Nat /\ n \in Nat /\ q \in Seq(S) /\ Len(q) = m + n
        /\ \A i \in 1 .. m + n : q[i] = IF i <= m THEN p[i] ELSE r[i - m]
    BY ConcatProperties
  <1>a. q = p \o r
    OBVIOUS
  <1> HIDE DEF m, n, q
  <1>2. \A i \in 1 .. m : i \in 1 .. m + n /\ i <= m
    BY <1>1
  <1>3. m <= Len(q) /\ \A i \in 1 .. m : p[i] = q[i]
    BY <1>1, <1>2
  <1>4. IsPrefix(p, q)
    BY <1>1, <1>3, PrefixIs DEF m
  <1>5. p = q <=> r = <<>>
    BY ConcatEqualIffEmpty, <1>a
  <1> DEFINE rest == SubSeq(q, m + 1, Len(q))
  <1>6. rest \in Seq(S) /\ q = p \o rest
    BY <1>1, <1>4, PrefixRest DEF m
  <1> HIDE DEF rest
  <1>7. rest = r
    BY <1>a, <1>6, ConcatSimplifications
  <1> QED
    BY <1>1, <1>4, <1>5, <1>7 DEF IsStrictPrefix, m, n, rest, q

-----------------------------------------------------------------------------
(* Joined names.                                                           *)

String == Seq(0 .. 255)

LEMMA JoinedOnce ==
  ASSUME NEW path \in Seq(String)
  PROVE  \E f \in [0 .. Len(path) -> String] :
             /\ f[0] = <<>>
             /\ \A i \in 1 .. Len(path) :
                    f[i] = (IF i = 1 THEN <<>> ELSE Append(f[i - 1], 47)) \o path[i]
             /\ Native(path) = f[Len(path)]
  <1> DEFINE m == Len(path)
             step == [i \in 1 .. m |-> [v \in String |->
                         (IF i = 1 THEN <<>> ELSE Append(v, 47)) \o path[i]]]
             Is(f) == f = [n \in 0 .. m |->
                              IF n = 0 THEN <<>>
                              ELSE (IF n = 1 THEN <<>> ELSE Append(f[n - 1], 47)) \o path[n]]
             f0 == CHOOSE f : Is(f)
  <1>1. m \in Nat /\ \A i \in 1 .. m : path[i] \in String
    OBVIOUS
  <1>2. \A v \in String : Append(v, 47) \in String
    BY AppendProperties DEF String
  <1>3. <<>> \in String /\ \A v, w \in String : v \o w \in String
    BY ConcatProperties DEF String
  <1>4. \A i \in 1 .. m : \A v \in String :
            step[i][v] = (IF i = 1 THEN <<>> ELSE Append(v, 47)) \o path[i] /\ step[i][v] \in String
    BY <1>1, <1>2, <1>3
  <1> HIDE DEF step, m
  <1>5. PICK f \in [0 .. m -> String] : f[0] = <<>> /\ \A i \in 1 .. m : f[i] = step[i][f[i - 1]]
    <2>1. \A i \in 1 .. m : \A v \in String : step[i][v] \in String
      BY <1>4
    <2>2. \E f : Scans(f, m, String, <<>>, step)
      BY <1>1, <1>3, <2>1, Scan
    <2> QED
      BY <2>2 DEF Scans
  <1>6. \A i \in 1 .. m : i - 1 \in 0 .. m
    BY <1>1
  <1>7. \A i \in 1 .. m : f[i] = (IF i = 1 THEN <<>> ELSE Append(f[i - 1], 47)) \o path[i]
    BY <1>4, <1>5, <1>6
  <1>8. \A i \in 0 .. m : i # 0 => i \in 1 .. m
    BY <1>1
  <1>9. Is(f)
    <2>1. \A n \in 0 .. m :
              f[n] = IF n = 0 THEN <<>>
                     ELSE (IF n = 1 THEN <<>> ELSE Append(f[n - 1], 47)) \o path[n]
      BY <1>5, <1>7, <1>8
    <2> QED
      BY <1>5, <2>1
  <1>10. Is(f0)
    <2> HIDE DEF Is
    <2> QED
      BY <1>9
  <1>11. /\ DOMAIN f0 = 0 .. m
         /\ \A n \in 0 .. m :
              f0[n] = IF n = 0 THEN <<>>
                     ELSE (IF n = 1 THEN <<>> ELSE Append(f0[n - 1], 47)) \o path[n]
    BY <1>10
  <1>12. Native(path) = f0[m]
    BY DEF Native, m
  <1> HIDE DEF f0, Is
  <1>13. \A k \in 0 .. m : f0[k] = f[k]
    <2> DEFINE T == {k \in 0 .. m : f0[k] = f[k]}
    <2>1. 0 \in T
      <3>1. 0 \in 0 .. m
        BY <1>1
      <3> QED
        BY <1>5, <1>11, <3>1
    <2>2. ASSUME NEW k \in 1 .. m, k - 1 \in T PROVE k \in T
      <3>1. k \in 0 .. m /\ k # 0
        BY <1>1
      <3>2. f0[k] = (IF k = 1 THEN <<>> ELSE Append(f0[k - 1], 47)) \o path[k]
        BY <1>11, <3>1
      <3>3. f[k] = (IF k = 1 THEN <<>> ELSE Append(f[k - 1], 47)) \o path[k]
        BY <1>7
      <3> QED
        BY <2>2, <3>1, <3>2, <3>3
    <2> HIDE DEF T
    <2>3. \A k \in 0 .. m : k \in T
      BY <1>1, <2>1, <2>2, Upwards
    <2> QED
      BY <2>3 DEF T
  <1>14. m \in 0 .. m
    BY <1>1
  <1>15. Native(path) = f[m]
    BY <1>12, <1>13, <1>14
  <1>16. /\ f \in [0 .. m -> String] /\ f[0] = <<>>
         /\ \A i \in 1 .. m : f[i] = (IF i = 1 THEN <<>> ELSE Append(f[i - 1], 47)) \o path[i]
         /\ Native(path) = f[m]
    BY <1>5, <1>7, <1>15
  <1> QED
    BY <1>16 DEF m

LEMMA NativeIsString == ASSUME NEW path \in Seq(String) PROVE Native(path) \in String
  <1>1. Len(path) \in 0 .. Len(path)
    OBVIOUS
  <1>2. PICK f \in [0 .. Len(path) -> String] : Native(path) = f[Len(path)]
    BY JoinedOnce
  <1> QED
    BY <1>1, <1>2

\* One name more.
LEMMA NativeAppend ==
  ASSUME NEW path \in Seq(String), NEW name \in String
  PROVE  Native(Append(path, name)) =
             (IF path = <<>> THEN <<>> ELSE Append(Native(path), 47)) \o name
  <1> DEFINE longer == Append(path, name)
             m == Len(path)
  <1>1. /\ m \in Nat /\ longer \in Seq(String) /\ Len(longer) = m + 1
        /\ \A i \in 1 .. m : longer[i] = path[i]
        /\ longer[m + 1] = name
        /\ path = <<>> <=> m = 0
    OBVIOUS
  <1>2. PICK f \in [0 .. m -> String] :
            /\ f[0] = <<>>
            /\ \A i \in 1 .. m : f[i] = (IF i = 1 THEN <<>> ELSE Append(f[i - 1], 47)) \o path[i]
            /\ Native(path) = f[m]
    BY JoinedOnce
  <1> HIDE DEF longer
  <1>3. PICK g \in [0 .. m + 1 -> String] :
            /\ g[0] = <<>>
            /\ \A i \in 1 .. m + 1 :
                   g[i] = (IF i = 1 THEN <<>> ELSE Append(g[i - 1], 47)) \o longer[i]
            /\ Native(longer) = g[m + 1]
    <2> HIDE DEF m
    <2>1. \E g \in [0 .. Len(longer) -> String] :
            /\ g[0] = <<>>
            /\ \A i \in 1 .. Len(longer) :
                   g[i] = (IF i = 1 THEN <<>> ELSE Append(g[i - 1], 47)) \o longer[i]
            /\ Native(longer) = g[Len(longer)]
      BY <1>1, JoinedOnce, Zenon
    <2>2. Len(longer) = m + 1
      BY <1>1
    <2> QED
      BY <2>1, <2>2, Zenon
  <1> HIDE DEF m
  <1>4. \A k \in 0 .. m : g[k] = f[k]
    <2> DEFINE T == {k \in 0 .. m : g[k] = f[k]}
    <2>1. 0 \in T
      BY <1>1, <1>2, <1>3
    <2>2. ASSUME NEW k \in 1 .. m, k - 1 \in T PROVE k \in T
      <3>1. k \in 0 .. m /\ k \in 1 .. m + 1
        BY <1>1
      <3>2. f[k] = (IF k = 1 THEN <<>> ELSE Append(f[k - 1], 47)) \o path[k]
        BY <1>2
      <3>3. g[k] = (IF k = 1 THEN <<>> ELSE Append(g[k - 1], 47)) \o path[k]
        BY <1>1, <1>3, <3>1
      <3> QED
        BY <2>2, <3>1, <3>2, <3>3
    <2> HIDE DEF T
    <2>3. \A k \in 0 .. m : k \in T
      BY <1>1, <2>1, <2>2, Upwards
    <2> QED
      BY <2>3 DEF T
  <1>5. m + 1 \in 1 .. m + 1 /\ (m + 1) - 1 = m /\ m \in 0 .. m /\ (m + 1 = 1 <=> m = 0)
    BY <1>1
  <1>6. g[m + 1] = (IF m + 1 = 1 THEN <<>> ELSE Append(g[m], 47)) \o name
    BY <1>1, <1>3, <1>5
  <1> QED
    BY <1>1, <1>2, <1>3, <1>4, <1>5, <1>6 DEF longer

Joined(a, x) == Append(a, 47) \o x

\* Names have no "/" in them, so that a joined path can be taken apart.
IsJoint(s, a, x) ==
  /\ s \in String /\ Len(s) = Len(a) + 1 + Len(x) /\ Len(a) \in Nat /\ Len(x) \in Nat
  /\ \A i \in 1 .. Len(a) : s[i] = a[i]
  /\ s[Len(a) + 1] = 47
  /\ \A i \in 1 .. Len(x) : s[Len(a) + 1 + i] = x[i]

LEMMA Joint ==
  ASSUME NEW a \in String, NEW x \in String
  PROVE  IsJoint(Joined(a, x), a, x)
  <1> DEFINE s == Joined(a, x)
             b == Append(a, 47)
             m == Len(a)
             n == Len(x)
  <1>1. /\ m \in Nat /\ n \in Nat /\ b \in String /\ Len(b) = m + 1
        /\ \A i \in 1 .. m : b[i] = a[i]
        /\ b[m + 1] = 47
    BY AppendProperties DEF String
  <1> HIDE DEF b, m, n
  <1>2. /\ s \in String /\ Len(s) = (m + 1) + n
        /\ \A i \in 1 .. (m + 1) + n : s[i] = IF i <= m + 1 THEN b[i] ELSE x[i - (m + 1)]
    <2>1. s = b \o x
      BY DEF b, Joined
    <2> HIDE DEF s
    <2> DEFINE d == b \o x
    <2>2. /\ d \in Seq(0 .. 255) /\ Len(d) = Len(b) + Len(x)
          /\ \A i \in 1 .. Len(b) + Len(x) : d[i] = IF i <= Len(b) THEN b[i] ELSE x[i - Len(b)]
      <3>1. b \in Seq(0 .. 255) /\ x \in Seq(0 .. 255)
        BY <1>1 DEF String
      <3> QED
        BY <3>1, ConcatProperties
    <2> HIDE DEF d
    <2>3. s = d
      BY <2>1 DEF d
    <2> QED
      BY <1>1, <2>2, <2>3 DEF String, n
  <1> HIDE DEF s
  <1>3. \A i \in 1 .. m : i \in 1 .. (m + 1) + n /\ i <= m + 1
    BY <1>1
  <1>4. m + 1 \in 1 .. (m + 1) + n /\ m + 1 <= m + 1
    BY <1>1
  <1>5. \A i \in 1 .. n : /\ m + 1 + i \in 1 .. (m + 1) + n /\ ~(m + 1 + i <= m + 1)
                          /\ (m + 1 + i) - (m + 1) = i
    BY <1>1
  <1>6. /\ \A i \in 1 .. m : s[i] = a[i]
        /\ s[m + 1] = 47
    BY <1>1, <1>2, <1>3, <1>4
  <1>7. ASSUME NEW i \in 1 .. n PROVE s[m + 1 + i] = x[i]
    <2> DEFINE j == m + 1 + i
    <2>1. j \in 1 .. (m + 1) + n /\ ~(j <= m + 1) /\ j - (m + 1) = i
      BY <1>5
    <2> HIDE DEF j
    <2>2. s[j] = x[i]
      BY <1>2, <2>1
    <2> QED
      BY <2>2 DEF j
  <1> QED
    BY <1>1, <1>2, <1>6, <1>7 DEF m, n, s, IsJoint

LEMMA LastJoint ==
  ASSUME NEW a \in String, NEW b \in String, NEW x \in Name, NEW y \in Name,
         Joined(a, x) = Joined(b, y)
  PROVE  a = b /\ x = y
  <1> DEFINE s == Joined(a, x)
  <1>0. /\ x \in String /\ y \in String
        /\ \A i \in 1 .. Len(x) : x[i] # 47
        /\ \A i \in 1 .. Len(y) : y[i] # 47
    BY RangeEquality DEF Name, String
  <1>a. s = Joined(b, y)
    OBVIOUS
  <1> HIDE DEF s
  <1>b. IsJoint(s, a, x) /\ IsJoint(s, b, y)
    <2>1. IsJoint(Joined(a, x), a, x) /\ IsJoint(Joined(b, y), b, y)
      BY <1>0, Joint, Zenon
    <2> QED
      BY <1>a, <2>1 DEF s
  <1>1. /\ Len(s) = Len(a) + 1 + Len(x) /\ Len(a) \in Nat /\ Len(x) \in Nat
        /\ \A i \in 1 .. Len(a) : s[i] = a[i]
        /\ s[Len(a) + 1] = 47
        /\ \A i \in 1 .. Len(x) : s[Len(a) + 1 + i] = x[i]
    BY <1>b DEF IsJoint
  <1>2. /\ Len(s) = Len(b) + 1 + Len(y) /\ Len(b) \in Nat /\ Len(y) \in Nat
        /\ \A i \in 1 .. Len(b) : s[i] = b[i]
        /\ s[Len(b) + 1] = 47
        /\ \A i \in 1 .. Len(y) : s[Len(b) + 1 + i] = y[i]
    BY <1>b DEF IsJoint
  <1> DEFINE m == Len(a)
             n == Len(b)
  <1>3. ~(m < n)
    <2> SUFFICES ASSUME m < n PROVE FALSE
      OBVIOUS
    <2> DEFINE i == n - m
    <2>1. i \in 1 .. Len(x) /\ Len(a) + 1 + i = Len(b) + 1
      BY <1>1, <1>2
    <2> HIDE DEF i
    <2>2. s[Len(a) + 1 + i] = x[i] /\ x[i] # 47
      BY <1>0, <1>1, <2>1
    <2> QED
      BY <1>2, <2>1, <2>2
  <1>4. ~(n < m)
    <2> SUFFICES ASSUME n < m PROVE FALSE
      OBVIOUS
    <2> DEFINE i == m - n
    <2>1. i \in 1 .. Len(y) /\ Len(b) + 1 + i = Len(a) + 1
      BY <1>1, <1>2
    <2> HIDE DEF i
    <2>2. s[Len(b) + 1 + i] = y[i] /\ y[i] # 47
      BY <1>0, <1>2, <2>1
    <2> QED
      BY <1>1, <2>1, <2>2
  <1>5. Len(a) = Len(b) /\ Len(x) = Len(y)
    BY <1>1, <1>2, <1>3, <1>4
  <1>6. \A i \in 1 .. Len(a) : a[i] = b[i]
    BY <1>1, <1>2, <1>5
  <1>7. \A i \in 1 .. Len(x) : x[i] = y[i]
    BY <1>1, <1>2, <1>5
  <1>8. a = b
    BY <1>5, <1>6, SeqEqual DEF String
  <1>9. x = y
    BY <1>0, <1>5, <1>7, SeqEqual DEF String
  <1> QED
    BY <1>8, <1>9

LEMMA NoJoint ==
  ASSUME NEW a \in String, NEW x \in String, NEW y \in Name
  PROVE  Joined(a, x) # y
  <1> DEFINE s == Joined(a, x)
  <1>1. Len(s) = Len(a) + 1 + Len(x) /\ Len(a) \in Nat /\ Len(x) \in Nat /\ s[Len(a) + 1] = 47
    BY Joint DEF IsJoint
  <1> HIDE DEF s
  <1>2. \A i \in 1 .. Len(y) : y[i] # 47
    BY RangeEquality DEF Name, String
  <1>3. Len(a) + 1 \in 1 .. Len(s)
    BY <1>1
  <1>4. s # y
    BY <1>1, <1>2, <1>3
  <1> QED
    BY <1>4 DEF s

LEMMA NamesAreStrings ==
  /\ Name \subseteq String
  /\ \A p \in Seq(Name) : p \in Seq(String) /\ Native(p) \in String
  <1>1. Name \subseteq String
    BY DEF Name, String
  <1>2. ASSUME NEW p \in Seq(Name) PROVE p \in Seq(String)
    BY <1>1, SeqMonotonic
  <1> QED
    BY <1>1, <1>2, NativeIsString

LEMMA NativeLast ==
  ASSUME NEW p \in Seq(Name), NEW q \in Seq(Name), NEW x \in Name, NEW y \in Name,
         Native(Append(p, x)) = Native(Append(q, y))
  PROVE  x = y /\ (p = <<>> <=> q = <<>>) /\ (p # <<>> => Native(p) = Native(q))
  <1> DEFINE a == Native(p)
             b == Native(q)
  <1>0. a \in String /\ b \in String
    BY NamesAreStrings
  <1>1. x \in String /\ y \in String /\ p \in Seq(String) /\ q \in Seq(String)
    BY NamesAreStrings
  <1>2. /\ Native(Append(p, x)) = (IF p = <<>> THEN <<>> ELSE Append(a, 47)) \o x
        /\ Native(Append(q, y)) = (IF q = <<>> THEN <<>> ELSE Append(b, 47)) \o y
    BY <1>1, NativeAppend
  <1>3. <<>> \o x = x /\ <<>> \o y = y
    BY <1>1, ConcatEmptySeq DEF String
  <1> HIDE DEF a, b
  <1>4. CASE p = <<>> /\ q = <<>>
    BY <1>2, <1>3, <1>4
  <1>5. CASE p = <<>> /\ q # <<>>
    <2>1. Joined(b, y) = x
      BY <1>2, <1>3, <1>5 DEF Joined
    <2> QED
      BY <1>0, <1>1, <2>1, NoJoint
  <1>6. CASE p # <<>> /\ q = <<>>
    <2>1. Joined(a, x) = y
      BY <1>2, <1>3, <1>6 DEF Joined
    <2> QED
      BY <1>0, <1>1, <2>1, NoJoint
  <1>7. CASE p # <<>> /\ q # <<>>
    <2>1. Joined(a, x) = Joined(b, y)
      BY <1>2, <1>7 DEF Joined
    <2>2. a = b /\ x = y
      BY <1>0, <2>1, LastJoint
    <2> QED
      BY <1>7, <2>2 DEF a, b
  <1> QED
    BY <1>4, <1>5, <1>6, <1>7

\* Paths that differ do so in their bytes.
LEMMA NativeInjective ==
  ASSUME NEW p \in Seq(Name), NEW q \in Seq(Name), p # <<>>, q # <<>>, Native(p) = Native(q)
  PROVE  p = q
  <1> DEFINE T == {n \in Nat : \A r, s \in Seq(Name) :
                       Len(r) = n /\ s # <<>> /\ r # <<>> /\ Native(r) = Native(s) => r = s}
  <1>1. 0 \in T
    OBVIOUS
  <1>2. ASSUME NEW n \in T PROVE n + 1 \in T
    <2>1. n \in Nat /\ n + 1 \in Nat
      OBVIOUS
    <2> SUFFICES ASSUME NEW r \in Seq(Name), NEW s \in Seq(Name),
                        Len(r) = n + 1, s # <<>>, r # <<>>, Native(r) = Native(s)
                 PROVE  r = s
      BY <2>1
    <2>2. PICK r0 \in Seq(Name), x \in Name : r = Append(r0, x)
      BY SequenceEmptyOrAppend
    <2>3. PICK s0 \in Seq(Name), y \in Name : s = Append(s0, y)
      BY SequenceEmptyOrAppend
    <2>4. Len(r0) = n
      BY <2>1, <2>2
    <2>5. x = y /\ (r0 = <<>> <=> s0 = <<>>) /\ (r0 # <<>> => Native(r0) = Native(s0))
      BY <2>2, <2>3, NativeLast
    <2>6. r0 # <<>> => r0 = s0
      BY <2>4, <2>5
    <2> QED
      BY <2>2, <2>3, <2>5, <2>6
  <1>3. T \in SUBSET Nat
    OBVIOUS
  <1> HIDE DEF T
  <1>4. T = Nat
    BY <1>1, <1>2, <1>3, Induct
  <1>5. Len(p) \in T
    BY <1>4
  <1> QED
    BY <1>5 DEF T

\* A path is before what it leads to.
LEMMA EmptyNameIs == EmptyName \in Name
  <1>1. <<>> \in Seq(0 .. 255) /\ Range(<<>>) = {}
    BY DEF Range
  <1> QED
    BY <1>1 DEF EmptyName, Name

LEMMA JoinMore ==
  ASSUME NEW a \in String, NEW w \in String, NEW x \in String
  PROVE  /\ Joined(w, x) \in String /\ Joined(w, x) # <<>>
         /\ Joined(Joined(a, w), x) = Joined(a, Joined(w, x))
  <1> DEFINE b == Append(a, 47)
             c == Append(w, 47)
  <1>1. b \in String /\ c \in String /\ c # <<>>
    BY AppendProperties DEF String
  <1>2. <<47>> \in String /\ c = w \o <<47>>
    BY AppendIsConcat DEF String
  <1> HIDE DEF b, c
  <1>3. b \o w \in String /\ c \o x \in String
    BY <1>1, ConcatProperties DEF String
  <1>4. Append(b \o w, 47) = (b \o w) \o <<47>>
    <2> DEFINE d == b \o w
    <2>1. d \in Seq(0 .. 255) /\ 47 \in 0 .. 255
      BY <1>3 DEF String
    <2> HIDE DEF d
    <2>2. Append(d, 47) = d \o <<47>>
      BY <2>1, AppendIsConcat
    <2> QED
      BY <2>2 DEF d
  <1>5. (b \o w) \o <<47>> = b \o c
    <2>1. (b \o w) \o <<47>> = b \o (w \o <<47>>)
      <3>1. b \in Seq(0 .. 255) /\ w \in Seq(0 .. 255) /\ <<47>> \in Seq(0 .. 255)
        BY <1>1, <1>2 DEF String
      <3> DEFINE t == <<47>>
      <3> HIDE DEF t
      <3>2. (b \o w) \o t = b \o (w \o t)
        BY <3>1, ConcatAssociative DEF t
      <3> QED
        BY <3>2 DEF t
    <2> QED
      BY <1>2, <2>1
  <1>6. (b \o c) \o x = b \o (c \o x)
    <2>1. b \in Seq(0 .. 255) /\ c \in Seq(0 .. 255) /\ x \in Seq(0 .. 255)
      BY <1>1 DEF String
    <2> QED
      BY <2>1, ConcatAssociative
  <1>7. c \o x # <<>>
    BY <1>1, ConcatEqualIffEmpty DEF String
  <1> QED
    <2>1. Joined(w, x) = c \o x /\ Joined(a, w) = b \o w
      BY DEF Joined, b, c
    <2>2. Joined(Joined(a, w), x) = Append(b \o w, 47) \o x
      BY <2>1 DEF Joined
    <2>3. Joined(a, Joined(w, x)) = b \o (c \o x)
      BY <2>1 DEF Joined, b
    <2> QED
      BY <1>3, <1>4, <1>5, <1>6, <1>7, <2>1, <2>2, <2>3

\* A path with names.
Path == Seq(Name) \ {<<>>}

LEMMA PathIs ==
  ASSUME NEW p \in Path
  PROVE  /\ p \in Seq(Name) /\ p \in Seq(String) /\ p # <<>> /\ Native(p) \in String
         /\ Len(p) \in Nat \ {0}
         /\ Front(p) \in Seq(Name) /\ Last(p) \in Name /\ p = Append(Front(p), Last(p))
         /\ Len(Front(p)) = Len(p) - 1
  <1>1. p \in Seq(Name) /\ p # <<>>
    BY DEF Path
  <1>2. p \in Seq(String) /\ Native(p) \in String
    BY <1>1, NamesAreStrings
  <1>3. PICK q \in Seq(Name), x \in Name : p = Append(q, x)
    BY <1>1, SequenceEmptyOrAppend
  <1>4. Len(p) = Len(q) + 1 /\ Len(q) \in Nat /\ Last(p) = x /\ Front(p) = q
    <2>1. /\ Len(p) = Len(q) + 1 /\ Len(q) \in Nat
          /\ \A i \in 1 .. Len(q) : p[i] = q[i]
          /\ p[Len(q) + 1] = x
      BY <1>3, AppendProperties
    <2>2. Last(p) = x
      BY <2>1 DEF Last
    <2>3. Front(p) = q
      <3>1. Front(p) = SubSeq(p, 1, Len(q))
        BY <2>1 DEF Front
      <3>2. \A i \in 1 .. Len(q) : p[i] \in Name
        BY <1>1, <2>1
      <3> DEFINE f == SubSeq(p, 1, Len(q))
      <3>3. f \in Seq(Name) /\ Len(f) = Len(q) /\ \A i \in 1 .. Len(q) : f[i] = p[i]
        BY <2>1, <3>2, SubSeqProperties
      <3> HIDE DEF f
      <3>4. f = q
        BY <2>1, <3>3, SeqEqual
      <3> QED
        BY <3>1, <3>4 DEF f
    <2> QED
      BY <2>1, <2>2, <2>3
  <1> QED
    BY <1>1, <1>2, <1>3, <1>4

LEMMA AppendIsPath ==
  ASSUME NEW p \in Seq(Name), NEW x \in Name
  PROVE  /\ Append(p, x) \in Path /\ Front(Append(p, x)) = p /\ Last(Append(p, x)) = x
         /\ Len(Append(p, x)) = Len(p) + 1
  <1> DEFINE q == Append(p, x)
  <1>1. q \in Path /\ q \in Seq(Name) /\ Len(q) = Len(p) + 1
    BY AppendProperties DEF Path
  <1>2. q = Append(Front(q), Last(q)) /\ Front(q) \in Seq(Name) /\ Last(q) \in Name
    BY <1>1, PathIs
  <1>3. p = Front(q) /\ x = Last(q)
    BY <1>2, AppendInjective
  <1> QED
    BY <1>1, <1>3

LEMMA ConcatAppend ==
  ASSUME NEW S, NEW p \in Seq(S), NEW s \in Seq(S), NEW x \in S
  PROVE  p \o s \in Seq(S) /\ p \o Append(s, x) = Append(p \o s, x)
  <1> DEFINE d == p \o s
  <1>1. d \in Seq(S)
    BY ConcatProperties
  <1>2. <<x>> \in Seq(S) /\ Append(s, x) = s \o <<x>>
    BY AppendIsConcat
  <1>3. p \o (s \o <<x>>) = d \o <<x>>
    BY <1>2, ConcatAssociative
  <1> HIDE DEF d
  <1>4. Append(d, x) = d \o <<x>>
    BY <1>1, AppendIsConcat
  <1> QED
    BY <1>1, <1>2, <1>3, <1>4 DEF d

\* Paths that differ do so in their bytes.
LEMMA NativeDiffers ==
  ASSUME NEW p \in Path, NEW q \in Path, Native(p) = Native(q)
  PROVE  p = q
BY PathIs, NativeInjective

LEMMA NativeOneMore ==
  ASSUME NEW p \in Path, NEW x \in Name
  PROVE  Native(Append(p, x)) = Joined(Native(p), x)
  <1>1. p \in Seq(String) /\ p # <<>>
    BY PathIs
  <1>2. x \in String
    BY NamesAreStrings
  <1> QED
    BY <1>1, <1>2, NativeAppend DEF Joined

\* What is joined to a path.
Joins(p, s) ==
  \E w \in String : /\ Native(p \o s) = Joined(Native(p), w)
                    /\ Last(s) # EmptyName => w # <<>>

LEMMA JoinsOne ==
  ASSUME NEW p \in Path, NEW x \in Name
  PROVE  Joins(p, <<x>>)
  <1>1. p \o <<x>> = Append(p, x)
    BY PathIs, AppendIsConcat
  <1>2. x \in String /\ Last(<<x>>) = x
    BY NamesAreStrings DEF Last
  <1>3. Native(p \o <<x>>) = Joined(Native(p), x)
    BY <1>1, NativeOneMore
  <1> QED
    BY <1>2, <1>3 DEF Joins, EmptyName

LEMMA JoinsMore ==
  ASSUME NEW p \in Path, NEW s \in Seq(Name), NEW x \in Name, Joins(p, s)
  PROVE  Joins(p, Append(s, x))
  <1> DEFINE a == Native(p)
             t == Append(s, x)
  <1>1. PICK v \in String : Native(p \o s) = Joined(a, v)
    BY DEF Joins
  <1>2. p \o s \in Path
    BY PathIs, ConcatProperties, ConcatEqualIffEmpty DEF Path
  <1>3. p \o t = Append(p \o s, x)
    BY PathIs, ConcatAppend
  <1>4. Native(p \o t) = Joined(Joined(a, v), x)
    BY <1>1, <1>2, <1>3, NativeOneMore
  <1>5. a \in String /\ x \in String
    BY PathIs, NamesAreStrings
  <1> DEFINE w == Joined(v, x)
  <1>6. w \in String /\ w # <<>> /\ Joined(Joined(a, v), x) = Joined(a, w)
    <2> HIDE DEF a
    <2>1. /\ Joined(v, x) \in String /\ Joined(v, x) # <<>>
          /\ Joined(Joined(a, v), x) = Joined(a, Joined(v, x))
      BY <1>5, JoinMore
    <2> QED
      BY <2>1
  <1>7. Native(p \o t) = Joined(a, w)
    BY <1>4, <1>6
  <1> HIDE DEF w, t
  <1>8. Joins(p, t)
    BY <1>6, <1>7 DEF Joins
  <1> QED
    BY <1>8 DEF t

LEMMA NativeConcat ==
  ASSUME NEW p \in Path, NEW r \in Path
  PROVE  Joins(p, r)
  <1> DEFINE T == {n \in Nat : \A s \in Path : Len(s) = n + 1 => Joins(p, s)}
  <1>1. 0 \in T
    <2> SUFFICES ASSUME NEW s \in Path, Len(s) = 1 PROVE Joins(p, s)
      OBVIOUS
    <2>1. s = <<s[1]>> /\ s[1] \in Name
      BY PathIs
    <2> QED
      BY <2>1, JoinsOne
  <1>2. ASSUME NEW n \in T PROVE n + 1 \in T
    <2>1. n \in Nat /\ n + 1 \in Nat
      OBVIOUS
    <2> SUFFICES ASSUME NEW s \in Path, Len(s) = (n + 1) + 1 PROVE Joins(p, s)
      BY <2>1
    <2> DEFINE t == Front(s)
    <2>2. t \in Seq(Name) /\ Len(t) = n + 1 /\ Last(s) \in Name /\ s = Append(t, Last(s))
      BY <2>1, PathIs
    <2>3. t \in Path
      <3>1. Len(t) # 0
        BY <2>1, <2>2
      <3> QED
        BY <2>2, <3>1, EmptySeq DEF Path
    <2> HIDE DEF t
    <2>4. Joins(p, t)
      BY <2>2, <2>3
    <2> HIDE DEF T
    <2> QED
      BY <2>2, <2>4, JoinsMore
  <1>3. T \in SUBSET Nat
    OBVIOUS
  <1> HIDE DEF T
  <1>4. T = Nat
    BY <1>1, <1>2, <1>3, Induct
  <1>5. Len(r) - 1 \in T /\ Len(r) = (Len(r) - 1) + 1
    BY <1>4, PathIs
  <1> QED
    BY <1>5 DEF T

LEMMA PrefixBefore ==
  ASSUME NEW a \in String, NEW w \in String, w # <<>>
  PROVE  Before(a, a \o w)
  <1>1. IsStrictPrefix(a, a \o w)
    BY PrefixConcat DEF String
  <1> QED
    BY <1>1 DEF Before

\* A path is before what it leads to, without or with a "/" at its end.
LEMMA NativeBefore ==
  ASSUME NEW p \in Path, NEW q \in Path, IsStrictPrefix(p, q)
  PROVE  /\ Before(Native(p), Native(q))
         /\ Last(q) # EmptyName => Before(Native(Append(p, EmptyName)), Native(q))
  <1> DEFINE a == Native(p)
  <1>0. p \in Seq(Name) /\ q \in Seq(Name) /\ IsPrefix(p, q) /\ p # q
    BY PathIs DEF IsStrictPrefix
  <1>1. PICK r : r \in Path /\ q = p \o r /\ Last(r) = Last(q)
    <2> DEFINE rest == SubSeq(q, Len(p) + 1, Len(q))
    <2>1. rest \in Seq(Name) /\ q = p \o rest /\ rest # <<>> /\ Last(rest) = Last(q)
      BY <1>0, PrefixRest
    <2> HIDE DEF rest
    <2> QED
      BY <2>1 DEF Path
  <1>2. PICK w \in String : Native(q) = Joined(a, w) /\ (Last(q) # EmptyName => w # <<>>)
    BY <1>1, NativeConcat DEF Joins
  <1>3. a \in String /\ EmptyName \in Name
    BY PathIs, EmptyNameIs
  <1>4. Native(Append(p, EmptyName)) = Joined(a, <<>>)
    BY <1>3, NativeOneMore DEF EmptyName
  <1> HIDE DEF a
  <1> DEFINE b == Append(a, 47)
  <1>5. b \in String /\ <<47>> \in String /\ b = a \o <<47>> /\ b \o <<>> = b
    BY <1>3, AppendProperties, AppendIsConcat, ConcatEmptySeq DEF String
  <1> HIDE DEF b
  <1>6. Before(a, Native(q))
    <2>1. Native(q) = a \o (<<47>> \o w)
      <3>1. Native(q) = b \o w /\ w \in String
        BY <1>2 DEF Joined, b
      <3>2. (a \o <<47>>) \o w = a \o (<<47>> \o w)
        BY <1>3, <1>5, ConcatAssociative DEF String
      <3> QED
        BY <1>5, <3>1, <3>2
    <2>2. <<47>> \o w \in String /\ <<47>> \o w # <<>>
      BY <1>5, ConcatProperties, ConcatEqualIffEmpty DEF String
    <2> QED
      BY <1>3, <2>1, <2>2, PrefixBefore
  <1>7. Last(q) # EmptyName => Before(b, Native(q))
    <2> SUFFICES ASSUME Last(q) # EmptyName PROVE Before(b, Native(q))
      OBVIOUS
    <2>1. Native(q) = b \o w /\ w \in String /\ w # <<>>
      BY <1>2 DEF Joined, b
    <2> QED
      BY <1>5, <2>1, PrefixBefore
  <1> QED
    <2>1. Native(Append(p, EmptyName)) = b
      BY <1>4, <1>5 DEF Joined, b
    <2> QED
      BY <1>6, <1>7, <2>1 DEF a

-----------------------------------------------------------------------------
(* Normal forms.                                                           *)

LEMMA FrontIs ==
  ASSUME NEW S, NEW p \in Seq(S), p # <<>>
  PROVE  /\ Front(p) \in Seq(S) /\ Len(Front(p)) = Len(p) - 1 /\ Len(p) \in Nat \ {0}
         /\ \A i \in 1 .. Len(p) - 1 : Front(p)[i] = p[i]
  <1>1. Len(p) \in Nat \ {0} /\ \A i \in 1 .. Len(p) : p[i] \in S
    BY EmptySeq
  <1> DEFINE m == Len(p) - 1
             f == SubSeq(p, 1, m)
  <1>2. m \in Nat /\ \A i \in 1 .. m : i \in 1 .. Len(p)
    BY <1>1
  <1> HIDE DEF m
  <1>3. \A i \in 1 .. m : p[i] \in S
    BY <1>1, <1>2
  <1>4. /\ f \in Seq(S) /\ Len(f) = IF 1 <= m THEN m - 1 + 1 ELSE 0
        /\ \A i \in 1 .. m - 1 + 1 : f[i] = p[1 + i - 1]
    BY <1>2, <1>3, SubSeqProperties
  <1> HIDE DEF f
  <1>5. m - 1 + 1 = m /\ \A i \in 1 .. m : 1 + i - 1 = i
    BY <1>2
  <1>6. Len(f) = m /\ \A i \in 1 .. m : f[i] = p[i]
    BY <1>2, <1>4, <1>5
  <1>7. Front(p) = f
    BY DEF Front, f, m
  <1> QED
    BY <1>1, <1>4, <1>6, <1>7 DEF m

\* A normal form: proper names, and perhaps a "/" after them.
Normal == {<<>>} \cup NormalPath \cup {Append(p, EmptyName) : p \in NormalPath}

LEMMA NormalIs ==
  ASSUME NEW path \in Seq(Name)
  PROVE  lexically_normal(path) \in Normal
  <1> DEFINE m == Len(path)
             V == Seq(Proper)
             step == [i \in 1 .. m |-> [v \in V |->
                         IF path[i] \in {EmptyName, Dot} THEN v
                         ELSE IF path[i] # DotDot THEN Append(v, path[i])
                         ELSE IF v = <<>> THEN <<>> ELSE Front(v)]]
             Is(f) == f = [n \in 0 .. m |->
                              IF n = 0 THEN <<>>
                              ELSE IF path[n] \in {EmptyName, Dot} THEN f[n - 1]
                              ELSE IF path[n] # DotDot THEN Append(f[n - 1], path[n])
                              ELSE IF f[n - 1] = <<>> THEN <<>> ELSE Front(f[n - 1])]
             f0 == CHOOSE f : Is(f)
  <1>1. m \in Nat /\ \A i \in 1 .. m : path[i] \in Name
    OBVIOUS
  <1>2. \A v \in V : v # <<>> => Front(v) \in V
    BY FrontIs
  <1>3. <<>> \in V /\ \A v \in V : \A x \in Proper : Append(v, x) \in V
    OBVIOUS
  <1>4. ASSUME NEW i \in 1 .. m, NEW v \in V
        PROVE  /\ step[i][v] = IF path[i] \in {EmptyName, Dot} THEN v
                               ELSE IF path[i] # DotDot THEN Append(v, path[i])
                               ELSE IF v = <<>> THEN <<>> ELSE Front(v)
               /\ step[i][v] \in V
    <2>1. step[i][v] = IF path[i] \in {EmptyName, Dot} THEN v
                       ELSE IF path[i] # DotDot THEN Append(v, path[i])
                       ELSE IF v = <<>> THEN <<>> ELSE Front(v)
      OBVIOUS
    <2>2. path[i] \in {EmptyName, Dot, DotDot} \/ path[i] \in Proper
      BY <1>1 DEF Proper
    <2> HIDE DEF step, V
    <2> QED
      BY <1>2, <1>3, <2>1, <2>2
  <1> HIDE DEF step, m, V
  <1>5. PICK f \in [0 .. m -> V] : f[0] = <<>> /\ \A i \in 1 .. m : f[i] = step[i][f[i - 1]]
    <2>1. \E f : Scans(f, m, V, <<>>, step)
      BY <1>1, <1>3, <1>4, Scan
    <2> QED
      BY <2>1 DEF Scans
  <1>6. \A i \in 1 .. m : i - 1 \in 0 .. m
    BY <1>1
  <1>7. \A i \in 0 .. m : i # 0 => i \in 1 .. m
    BY <1>1
  <1>8. Is(f)
    <2>1. ASSUME NEW n \in 0 .. m
          PROVE  f[n] = IF n = 0 THEN <<>>
                        ELSE IF path[n] \in {EmptyName, Dot} THEN f[n - 1]
                        ELSE IF path[n] # DotDot THEN Append(f[n - 1], path[n])
                        ELSE IF f[n - 1] = <<>> THEN <<>> ELSE Front(f[n - 1])
      <3>1. CASE n = 0
        BY <1>5, <3>1
      <3>2. CASE n # 0
        <4>1. n \in 1 .. m /\ f[n - 1] \in V
          BY <1>5, <1>6, <1>7, <3>2
        <4>2. f[n] = step[n][f[n - 1]]
          BY <1>5, <4>1
        <4> QED
          BY <1>4, <3>2, <4>1, <4>2
      <3> QED
        BY <3>1, <3>2
    <2> QED
      BY <1>5, <2>1
  <1>9. Is(f0)
    <2> HIDE DEF Is
    <2> QED
      BY <1>8
  <1>10. \A n \in 0 .. m :
             f0[n] = IF n = 0 THEN <<>>
                     ELSE IF path[n] \in {EmptyName, Dot} THEN f0[n - 1]
                     ELSE IF path[n] # DotDot THEN Append(f0[n - 1], path[n])
                     ELSE IF f0[n - 1] = <<>> THEN <<>> ELSE Front(f0[n - 1])
    BY <1>9
  <1>11. lexically_normal(path) = IF f0[m] # <<>> /\ Last(path) \in {EmptyName, Dot, DotDot}
                                  THEN Append(f0[m], EmptyName) ELSE f0[m]
    BY DEF lexically_normal, m
  <1> HIDE DEF f0, Is
  <1>12. \A k \in 0 .. m : f0[k] \in V
    <2> DEFINE T == {k \in 0 .. m : f0[k] \in V}
    <2>1. 0 \in T
      <3>1. 0 \in 0 .. m
        BY <1>1
      <3> QED
        BY <1>3, <1>10, <3>1
    <2>2. ASSUME NEW k \in 1 .. m, k - 1 \in T PROVE k \in T
      <3>1. k \in 0 .. m /\ k # 0
        BY <1>1
      <3>2. f0[k] = IF path[k] \in {EmptyName, Dot} THEN f0[k - 1]
                    ELSE IF path[k] # DotDot THEN Append(f0[k - 1], path[k])
                    ELSE IF f0[k - 1] = <<>> THEN <<>> ELSE Front(f0[k - 1])
        BY <1>10, <3>1
      <3>3. f0[k - 1] \in V
        BY <2>2
      <3>4. f0[k] = step[k][f0[k - 1]]
        BY <1>4, <3>2, <3>3
      <3> QED
        BY <1>4, <3>1, <3>3, <3>4
    <2> HIDE DEF T
    <2>3. \A k \in 0 .. m : k \in T
      BY <1>1, <2>1, <2>2, Upwards
    <2> QED
      BY <2>3 DEF T
  <1>13. f0[m] \in V
    BY <1>1, <1>12
  <1> QED
    BY <1>11, <1>13 DEF Normal, NormalPath, V

\* A path without the "/" at its end.
Bare(path) == IF path # <<>> /\ Last(path) = EmptyName THEN Front(path) ELSE path

LEMMA ProperIs ==
  /\ Proper \subseteq Name /\ EmptyName \notin Proper
  /\ \A p \in Seq(Proper) : p \in Seq(Name)
  /\ \A p \in NormalPath : p \in Seq(Proper) /\ p \in Path /\ p # <<>> /\ Last(p) \in Proper
  <1>1. Proper \subseteq Name /\ EmptyName \notin Proper
    BY DEF Proper
  <1>2. ASSUME NEW p \in Seq(Proper) PROVE p \in Seq(Name)
    BY <1>1, SeqMonotonic
  <1>3. ASSUME NEW p \in NormalPath PROVE p \in Seq(Proper) /\ p \in Path /\ p # <<>> /\ Last(p) \in Proper
    <2>1. p \in Seq(Proper) /\ p # <<>>
      BY DEF NormalPath
    <2>2. Len(p) \in Nat \ {0} /\ Len(p) \in 1 .. Len(p)
      BY <2>1, FrontIs
    <2>3. Last(p) \in Proper
      BY <2>1, <2>2 DEF Last
    <2> QED
      BY <1>2, <2>1, <2>3 DEF Path
  <1> QED
    BY <1>1, <1>2, <1>3

LEMMA BareIs ==
  ASSUME NEW d \in Normal
  PROVE  /\ d \in Seq(Name) /\ Bare(d) \in Seq(Proper)
         /\ d = <<>> \/ Bare(d) \in NormalPath
         /\ d = Bare(d) \/ d = Append(Bare(d), EmptyName)
         /\ d # Bare(d) <=> (d # <<>> /\ Last(d) = EmptyName)
  <1>1. CASE d = <<>>
    BY <1>1 DEF Bare
  <1>2. CASE d \in NormalPath
    <2>1. d \in Seq(Name) /\ d \in Seq(Proper) /\ d # <<>> /\ Last(d) # EmptyName
      BY <1>2, ProperIs
    <2> QED
      BY <1>2, <2>1 DEF Bare
  <1>3. CASE d \in {Append(p, EmptyName) : p \in NormalPath}
    <2>1. PICK p \in NormalPath : d = Append(p, EmptyName)
      BY <1>3
    <2>2. p \in Seq(Name) /\ p \in Seq(Proper)
      BY ProperIs
    <2>3. d \in Path /\ Front(d) = p /\ Last(d) = EmptyName /\ Len(d) = Len(p) + 1
      BY <2>1, <2>2, AppendIsPath, EmptyNameIs
    <2>4. d \in Seq(Name) /\ d # <<>> /\ d # p
      BY <2>2, <2>3, PathIs
    <2>5. Bare(d) = p
      BY <2>3, <2>4 DEF Bare
    <2> QED
      BY <2>1, <2>2, <2>3, <2>4, <2>5
  <1> QED
    BY <1>1, <1>2, <1>3 DEF Normal

\* The relative path of what is below the base, and of what is not.
LEMMA RelativeIs ==
  ASSUME NEW base \in Seq(Name), NEW path \in Seq(Name)
  PROVE  LET rest == SubSeq(path, Len(base) + 1, Len(path))
         IN  /\ IsPrefix(base, path) => lexically_relative(path, base) =
                    (IF rest \in {<<>>, <<EmptyName>>} THEN <<Dot>> ELSE rest)
             /\ ~IsPrefix(base, path) => Head(lexically_relative(path, base)) = DotDot
  <1> DEFINE C == {n \in 0 .. Len(base) :
                      n <= Len(path) /\ SubSeq(path, 1, n) = SubSeq(base, 1, n)}
             common == Max(C)
             left == SubSeq(path, common + 1, Len(path))
             up == Len(base) - common
             ups == [i \in 1 .. up |-> DotDot]
             rest == SubSeq(path, Len(base) + 1, Len(path))
  <1>1. lexically_relative(path, base) =
            IF up = 0 /\ left \in {<<>>, <<EmptyName>>} THEN <<Dot>> ELSE ups \o left
    BY DEF lexically_relative
  <1>2. common \in C /\ \A n \in C : n <= common
    <2>1. C \in SUBSET (0 .. Len(base)) /\ Len(base) \in Nat
      OBVIOUS
    <2>2. SubSeq(path, 1, 0) = <<>> /\ SubSeq(base, 1, 0) = <<>>
      OBVIOUS
    <2>3. 0 \in C
      BY <2>2
    <2> HIDE DEF C
    <2> QED
      BY <2>1, <2>3, Greatest
  <1>3. Len(base) \in C <=> IsPrefix(base, path)
    BY DEF IsPrefix
  <1>4. common \in 0 .. Len(base) /\ common <= Len(path) /\ Len(base) \in Nat /\ Len(path) \in Nat
    BY <1>2
  <1> HIDE DEF C, common
  <1>5. left \in Seq(Name) /\ (common = Len(base) => left = rest)
    <2>1. \A i \in common + 1 .. Len(path) : path[i] \in Name
      BY <1>4
    <2>2. left \in Seq(Name)
      BY <1>4, <2>1, SubSeqProperties
    <2> QED
      BY <2>2
  <1> HIDE DEF left, rest
  <1>6. ASSUME IsPrefix(base, path)
        PROVE  lexically_relative(path, base) = IF rest \in {<<>>, <<EmptyName>>} THEN <<Dot>> ELSE rest
    <2>1. common = Len(base)
      BY <1>2, <1>3, <1>4, <1>6
    <2>2. up = 0
      BY <1>4, <2>1
    <2>3. ups = <<>>
      BY <2>2
    <2> HIDE DEF up, ups
    <2>4. ups \o left = left
      BY <1>5, <2>3, ConcatEmptySeq
    <2> QED
      BY <1>1, <1>5, <2>1, <2>2, <2>4
  <1>7. ASSUME ~IsPrefix(base, path) PROVE Head(lexically_relative(path, base)) = DotDot
    <2>1. common # Len(base)
      BY <1>2, <1>3, <1>7
    <2>2. up \in Nat \ {0}
      BY <1>4, <2>1
    <2> HIDE DEF up
    <2>3. ups \in Seq({DotDot}) /\ Len(ups) = up /\ ups[1] = DotDot
      BY <2>2
    <2>4. left \in Seq(Name \cup {DotDot}) /\ ups \in Seq(Name \cup {DotDot})
      BY <1>5, <2>3, SeqMonotonic
    <2> HIDE DEF ups
    <2> DEFINE w == ups \o left
    <2>5. w \in Seq(Name \cup {DotDot}) /\ Len(w) = Len(ups) + Len(left) /\ w[1] = ups[1]
      <3>1. /\ w \in Seq(Name \cup {DotDot}) /\ Len(w) = Len(ups) + Len(left)
            /\ \A i \in 1 .. Len(ups) + Len(left) :
                   w[i] = IF i <= Len(ups) THEN ups[i] ELSE left[i - Len(ups)]
        BY <2>4, ConcatProperties
      <3> HIDE DEF w
      <3>2. Len(left) \in Nat
        BY <1>5
      <3> QED
        BY <2>2, <2>3, <3>1, <3>2
    <2> HIDE DEF w
    <2>6. w # <<>> /\ Head(w) = w[1]
      BY <1>5, <2>2, <2>3, <2>5
    <2>7. lexically_relative(path, base) = w
      BY <1>1, <2>2 DEF w
    <2> QED
      BY <2>3, <2>5, <2>6, <2>7
  <1> QED
    BY <1>6, <1>7 DEF rest

-----------------------------------------------------------------------------
(* Where paths lead.                                                       *)

\* Links have targets that are paths.
Linked(tree) == \A p \in DOMAIN tree : tree[p].target.names \in Seq(Name)

Led(tree, there) == IF IsLink(tree, there) THEN TargetOf(tree, there) ELSE there

LEMMA LedIs ==
  ASSUME NEW tree, Linked(tree), NEW p \in Path
  PROVE  Led(tree, p) \in Seq(Name)
  <1>1. p \in Seq(Name) /\ Front(p) \in Seq(Name)
    BY PathIs
  <1>2. CASE IsLink(tree, p)
    <2> DEFINE names == tree[p].target.names
    <2>1. names \in Seq(Name)
      BY <1>2 DEF IsLink, Linked
    <2> HIDE DEF names
    <2>2. Front(p) \o names \in Seq(Name)
      BY <1>1, <2>1, ConcatProperties
    <2>3. lexically_normal(names) \in Seq(Name) /\ lexically_normal(Front(p) \o names) \in Seq(Name)
      BY <2>1, <2>2, NormalIs, BareIs
    <2>4. TargetOf(tree, p) \in {lexically_normal(names), lexically_normal(Front(p) \o names)}
      BY DEF TargetOf, names
    <2> QED
      BY <1>2, <2>3, <2>4 DEF Led
  <1> QED
    BY <1>1, <1>2 DEF Led

ResolvedBy(f, tree, path) ==
  /\ f \in [0 .. Len(path) -> Seq(Name)] /\ f[0] = <<>>
  /\ \A i \in 1 .. Len(path) : f[i] = Led(tree, Append(f[i - 1], path[i]))
  /\ Resolve(tree, path) = f[Len(path)]

LEMMA ResolvedOnce ==
  ASSUME NEW tree, Linked(tree), NEW path \in Seq(Name)
  PROVE  \E f : ResolvedBy(f, tree, path)
  <1> DEFINE m == Len(path)
             V == Seq(Name)
             step == [i \in 1 .. m |-> [v \in V |-> Led(tree, Append(v, path[i]))]]
             Is(f) == f = [n \in 0 .. m |->
                              IF n = 0 THEN <<>>
                              ELSE LET there == Append(f[n - 1], path[n])
                                   IN  IF IsLink(tree, there) THEN TargetOf(tree, there) ELSE there]
             f0 == CHOOSE f : Is(f)
  <1>1. m \in Nat /\ \A i \in 1 .. m : path[i] \in Name
    OBVIOUS
  <1>2. ASSUME NEW v \in V, NEW x \in Name PROVE Led(tree, Append(v, x)) \in V
    BY AppendIsPath, LedIs
  <1>3. <<>> \in V
    OBVIOUS
  <1>4. ASSUME NEW i \in 1 .. m, NEW v \in V
        PROVE  step[i][v] = Led(tree, Append(v, path[i])) /\ step[i][v] \in V
    BY <1>1, <1>2
  <1> HIDE DEF step, m, V
  <1>5. PICK f \in [0 .. m -> V] : f[0] = <<>> /\ \A i \in 1 .. m : f[i] = step[i][f[i - 1]]
    <2>1. \E f : Scans(f, m, V, <<>>, step)
      BY <1>1, <1>3, <1>4, Scan
    <2> QED
      BY <2>1 DEF Scans
  <1>6. \A i \in 1 .. m : i - 1 \in 0 .. m
    BY <1>1
  <1>7. \A i \in 0 .. m : i # 0 => i \in 1 .. m
    BY <1>1
  <1>8. Is(f)
    <2>1. ASSUME NEW n \in 0 .. m, n # 0 PROVE f[n] = Led(tree, Append(f[n - 1], path[n]))
      <3>1. n \in 1 .. m /\ f[n - 1] \in V
        BY <1>5, <1>6, <1>7, <2>1
      <3>2. f[n] = step[n][f[n - 1]]
        BY <1>5, <3>1
      <3> QED
        BY <1>4, <3>1, <3>2
    <2> QED
      BY <1>5, <2>1 DEF Led
  <1>9. Is(f0)
    <2> HIDE DEF Is
    <2> QED
      BY <1>8
  <1>10. f0 = [n \in 0 .. m |-> IF n = 0 THEN <<>> ELSE Led(tree, Append(f0[n - 1], path[n]))]
    BY <1>9 DEF Led
  <1>11. Resolve(tree, path) = f0[m]
    BY DEF Resolve, m
  <1> HIDE DEF f0, Is
  <1>12. /\ DOMAIN f0 = 0 .. m /\ f0[0] = <<>>
         /\ \A k \in 1 .. m : f0[k] = Led(tree, Append(f0[k - 1], path[k]))
    <2>1. 0 \in 0 .. m /\ \A k \in 1 .. m : k \in 0 .. m /\ k # 0
      BY <1>1
    <2>2. /\ DOMAIN f0 = 0 .. m
          /\ \A k \in 0 .. m : f0[k] = IF k = 0 THEN <<>> ELSE Led(tree, Append(f0[k - 1], path[k]))
      BY <1>10
    <2> QED
      BY <2>1, <2>2
  <1>13. \A k \in 0 .. m : f0[k] = f[k]
    <2> DEFINE T == {k \in 0 .. m : f0[k] = f[k]}
    <2>1. 0 \in T
      BY <1>1, <1>5, <1>12
    <2>2. ASSUME NEW k \in 1 .. m, k - 1 \in T PROVE k \in T
      <3>1. k \in 0 .. m /\ f[k - 1] \in V /\ f0[k - 1] = f[k - 1]
        BY <1>1, <1>5, <1>6, <2>2
      <3>2. f0[k] = Led(tree, Append(f[k - 1], path[k]))
        BY <1>12, <3>1
      <3>3. f[k] = step[k][f[k - 1]]
        BY <1>5
      <3>4. f[k] = Led(tree, Append(f[k - 1], path[k]))
        BY <1>4, <3>1, <3>3
      <3> QED
        BY <3>1, <3>2, <3>4
    <2> HIDE DEF T
    <2>3. \A k \in 0 .. m : k \in T
      BY <1>1, <2>1, <2>2, Upwards
    <2> QED
      BY <2>3 DEF T
  <1>14. f0 = f
    <2>1. f0 = [k \in 0 .. m |-> f0[k]]
      BY <1>10
    <2>2. f = [k \in 0 .. m |-> f[k]]
      BY <1>5
    <2>3. [k \in 0 .. m |-> f0[k]] = [k \in 0 .. m |-> f[k]]
      BY <1>13
    <2> QED
      BY <2>1, <2>2, <2>3
  <1>15. ResolvedBy(f, tree, path)
    BY <1>5, <1>11, <1>12, <1>14 DEF ResolvedBy, m, V
  <1> QED
    BY <1>15

\* One name more.
LEMMA ResolveAppend ==
  ASSUME NEW tree, Linked(tree), NEW p \in Seq(Name), NEW x \in Name
  PROVE  Resolve(tree, Append(p, x)) = Led(tree, Append(Resolve(tree, p), x))
  <1> DEFINE longer == Append(p, x)
             m == Len(p)
  <1>1. /\ m \in Nat /\ longer \in Seq(Name) /\ Len(longer) = m + 1
        /\ \A i \in 1 .. m : longer[i] = p[i]
        /\ longer[m + 1] = x
    OBVIOUS
  <1>2. PICK f : ResolvedBy(f, tree, p)
    BY ResolvedOnce
  <1> HIDE DEF longer
  <1>3. PICK g : ResolvedBy(g, tree, longer)
    BY <1>1, ResolvedOnce
  <1>4. /\ f[0] = <<>> /\ \A i \in 1 .. m : f[i] = Led(tree, Append(f[i - 1], p[i]))
        /\ Resolve(tree, p) = f[m]
    BY <1>2 DEF ResolvedBy
  <1>5. /\ g[0] = <<>> /\ \A i \in 1 .. m + 1 : g[i] = Led(tree, Append(g[i - 1], longer[i]))
        /\ Resolve(tree, longer) = g[m + 1]
    BY <1>1, <1>3 DEF ResolvedBy
  <1> HIDE DEF m
  <1>6. \A k \in 0 .. m : g[k] = f[k]
    <2> DEFINE T == {k \in 0 .. m : g[k] = f[k]}
    <2>1. 0 \in T
      BY <1>1, <1>4, <1>5
    <2>2. ASSUME NEW k \in 1 .. m, k - 1 \in T PROVE k \in T
      <3>1. k \in 0 .. m /\ k \in 1 .. m + 1 /\ g[k - 1] = f[k - 1]
        BY <1>1, <2>2
      <3>2. g[k] = Led(tree, Append(f[k - 1], p[k]))
        BY <1>1, <1>5, <3>1
      <3>3. f[k] = Led(tree, Append(f[k - 1], p[k]))
        BY <1>4
      <3> QED
        BY <3>1, <3>2, <3>3
    <2> HIDE DEF T
    <2>3. \A k \in 0 .. m : k \in T
      BY <1>1, <2>1, <2>2, Upwards
    <2> QED
      BY <2>3 DEF T
  <1>7. m + 1 \in 1 .. m + 1 /\ (m + 1) - 1 = m /\ m \in 0 .. m
    BY <1>1
  <1>8. g[m + 1] = Led(tree, Append(g[m], x))
    BY <1>1, <1>5, <1>7
  <1> QED
    BY <1>4, <1>5, <1>6, <1>7, <1>8 DEF longer

LEMMA ResolveIs ==
  ASSUME NEW tree, Linked(tree)
  PROVE  Resolve(tree, <<>>) = <<>> /\ \A p \in Seq(Name) : Resolve(tree, p) \in Seq(Name)
  <1>1. Resolve(tree, <<>>) = <<>>
    <2>1. <<>> \in Seq(Name) /\ Len(<<>>) = 0
      OBVIOUS
    <2>2. PICK f : ResolvedBy(f, tree, <<>>)
      BY <2>1, ResolvedOnce
    <2> QED
      BY <2>1, <2>2 DEF ResolvedBy
  <1>2. ASSUME NEW p \in Seq(Name) PROVE Resolve(tree, p) \in Seq(Name)
    <2>1. PICK f : ResolvedBy(f, tree, p)
      BY ResolvedOnce
    <2>2. Len(p) \in 0 .. Len(p)
      OBVIOUS
    <2> QED
      BY <2>1, <2>2 DEF ResolvedBy
  <1> QED
    BY <1>1, <1>2

\* The prefixes of what has a name more.
LEMMA PrefixAppend ==
  ASSUME NEW S, NEW u \in Seq(S), NEW t \in Seq(S), NEW x \in S
  PROVE  IsPrefix(u, Append(t, x)) <=> (IsPrefix(u, t) \/ u = Append(t, x))
  <1> DEFINE s == Append(t, x)
             m == Len(u)
             n == Len(t)
  <1>1. /\ m \in Nat /\ n \in Nat /\ s \in Seq(S) /\ Len(s) = n + 1
        /\ \A i \in 1 .. n : s[i] = t[i]
    OBVIOUS
  <1> HIDE DEF s
  <1>2. IsPrefix(u, s) <=> m <= n + 1 /\ \A k \in 1 .. m : u[k] = s[k]
    BY <1>1, PrefixIs
  <1>3. IsPrefix(u, t) <=> m <= n /\ \A k \in 1 .. m : u[k] = t[k]
    BY PrefixIs
  <1>4. u = s <=> m = n + 1 /\ \A k \in 1 .. m : u[k] = s[k]
    BY <1>1, SeqEqual
  <1> HIDE DEF m, n
  <1>5. m <= n => \A k \in 1 .. m : k \in 1 .. n
    BY <1>1
  <1>6. m <= n + 1 <=> (m <= n \/ m = n + 1)
    BY <1>1
  <1>7. m <= n => ((\A k \in 1 .. m : u[k] = s[k]) <=> \A k \in 1 .. m : u[k] = t[k])
    BY <1>1, <1>5
  <1>8. IsPrefix(u, s) <=> (IsPrefix(u, t) \/ u = s)
    BY <1>2, <1>3, <1>4, <1>6, <1>7
  <1> QED
    BY <1>8 DEF s

LEMMA PrefixOrder ==
  ASSUME NEW S, NEW p \in Seq(S), NEW q \in Seq(S)
  PROVE  /\ IsPrefix(p, p) /\ IsPrefix(<<>>, p)
         /\ IsPrefix(p, q) /\ IsPrefix(q, p) => p = q
         /\ IsPrefix(p, q) => Len(p) <= Len(q)
         /\ IsStrictPrefix(p, q) => Len(p) < Len(q)
         /\ Len(p) = Len(q) /\ IsPrefix(p, q) => p = q
         /\ \A r \in Seq(S) : /\ IsPrefix(p, q) /\ IsPrefix(q, r) => IsPrefix(p, r)
                              /\ IsPrefix(p, r) /\ IsPrefix(q, r) => IsPrefix(p, q) \/ IsPrefix(q, p)
  <1> DEFINE m == Len(p)
             n == Len(q)
  <1>0. m \in Nat /\ n \in Nat /\ <<>> \in Seq(S) /\ Len(<<>>) = 0
    OBVIOUS
  <1>1. IsPrefix(p, q) <=> m <= n /\ \A k \in 1 .. m : p[k] = q[k]
    BY PrefixIs
  <1>2. IsPrefix(q, p) <=> n <= m /\ \A k \in 1 .. n : q[k] = p[k]
    BY PrefixIs
  <1>3. p = q <=> m = n /\ \A k \in 1 .. m : p[k] = q[k]
    BY SeqEqual
  <1>4. IsPrefix(p, p) /\ IsPrefix(<<>>, p)
    <2>1. IsPrefix(p, p)
      BY PrefixIs DEF m
    <2>2. Len(<<>>) = 0 /\ SubSeq(<<>>, 1, 0) = <<>> /\ SubSeq(p, 1, 0) = <<>>
      OBVIOUS
    <2>3. IsPrefix(<<>>, p)
      BY <1>0, <2>2 DEF IsPrefix
    <2> QED
      BY <2>1, <2>3
  <1>5. ASSUME NEW r \in Seq(S), IsPrefix(p, q), IsPrefix(q, r) PROVE IsPrefix(p, r)
    <2> DEFINE l == Len(r)
    <2>1. l \in Nat /\ n <= l /\ \A k \in 1 .. n : q[k] = r[k]
      BY <1>5, PrefixIs
    <2>2. IsPrefix(p, r) <=> m <= l /\ \A k \in 1 .. m : p[k] = r[k]
      BY PrefixIs
    <2> HIDE DEF l, m, n
    <2>3. m <= l /\ \A k \in 1 .. m : k \in 1 .. n
      BY <1>0, <1>1, <1>5, <2>1
    <2> QED
      BY <1>1, <1>5, <2>1, <2>2, <2>3
  <1>6. ASSUME NEW r \in Seq(S), IsPrefix(p, r), IsPrefix(q, r) PROVE IsPrefix(p, q) \/ IsPrefix(q, p)
    <2>1. \A k \in 1 .. m : p[k] = r[k]
      BY <1>6, PrefixIs
    <2>2. \A k \in 1 .. n : q[k] = r[k]
      BY <1>6, PrefixIs
    <2> HIDE DEF m, n
    <2>3. m <= n \/ n <= m
      BY <1>0
    <2>4. m <= n => \A k \in 1 .. m : k \in 1 .. n
      BY <1>0
    <2>5. n <= m => \A k \in 1 .. n : k \in 1 .. m
      BY <1>0
    <2> QED
      BY <1>1, <1>2, <2>1, <2>2, <2>3, <2>4, <2>5
  <1>7. IsStrictPrefix(p, q) <=> IsPrefix(p, q) /\ p # q
    BY DEF IsStrictPrefix
  <1> HIDE DEF m, n
  <1>8. /\ IsPrefix(p, q) /\ IsPrefix(q, p) => p = q
        /\ IsPrefix(p, q) => m <= n
        /\ IsStrictPrefix(p, q) => m < n
        /\ m = n /\ IsPrefix(p, q) => p = q
    BY <1>0, <1>1, <1>2, <1>3, <1>7
  <1> QED
    BY <1>4, <1>5, <1>6, <1>8 DEF m, n

\* No link is met on the way from a place.
Clear(tree, place, s) == \A t \in Path : IsPrefix(t, s) => ~IsLink(tree, place \o t)

LEMMA ResolveClear ==
  ASSUME NEW tree, Linked(tree), NEW p \in Seq(Name), NEW s \in Seq(Name),
         Clear(tree, Resolve(tree, p), s)
  PROVE  Resolve(tree, p \o s) = Resolve(tree, p) \o s
  <1> DEFINE place == Resolve(tree, p)
             T == {n \in Nat : \A u \in Seq(Name) :
                       Len(u) = n /\ Clear(tree, place, u) => Resolve(tree, p \o u) = place \o u}
  <1>0. place \in Seq(Name)
    BY ResolveIs
  <1>1. 0 \in T
    <2> SUFFICES ASSUME NEW u \in Seq(Name), Len(u) = 0
                 PROVE  Resolve(tree, p \o u) = place \o u
      OBVIOUS
    <2>1. u = <<>>
      BY EmptySeq
    <2>2. p \o u = p /\ place \o u = place
      BY <1>0, <2>1, ConcatEmptySeq
    <2> QED
      BY <2>2
  <1>2. ASSUME NEW n \in T PROVE n + 1 \in T
    <2>1. n \in Nat /\ n + 1 \in Nat
      OBVIOUS
    <2> SUFFICES ASSUME NEW u \in Seq(Name), Len(u) = n + 1, Clear(tree, place, u)
                 PROVE  Resolve(tree, p \o u) = place \o u
      BY <2>1
    <2>2. PICK t \in Seq(Name), x \in Name : u = Append(t, x)
      <3>1. u # <<>>
        BY <2>1
      <3> QED
        BY <3>1, SequenceEmptyOrAppend
    <2>3. Len(t) = n
      BY <2>1, <2>2, AppendIsPath
    <2>4. Clear(tree, place, t)
      <3> SUFFICES ASSUME NEW v \in Path, IsPrefix(v, t) PROVE ~IsLink(tree, place \o v)
        BY DEF Clear
      <3>1. IsPrefix(v, u)
        BY <2>2, PathIs, PrefixAppend
      <3> QED
        BY <3>1 DEF Clear
    <2>5. Resolve(tree, p \o t) = place \o t
      BY <2>3, <2>4
    <2>6. u \in Path /\ IsPrefix(u, u)
      BY <2>2, AppendIsPath, PrefixOrder
    <2>7. ~IsLink(tree, place \o u)
      BY <2>6 DEF Clear
    <2> HIDE DEF place, T
    <2>8. /\ p \o t \in Seq(Name) /\ p \o u = Append(p \o t, x)
          /\ place \o u = Append(place \o t, x)
      <3>1. p \o t \in Seq(Name) /\ p \o Append(t, x) = Append(p \o t, x)
        BY ConcatAppend
      <3>2. place \o Append(t, x) = Append(place \o t, x)
        BY <1>0, ConcatAppend
      <3> QED
        BY <2>2, <3>1, <3>2
    <2> DEFINE d == p \o t
    <2>9. d \in Seq(Name) /\ Resolve(tree, d) = place \o t
      BY <2>5, <2>8
    <2> HIDE DEF d
    <2>10. Resolve(tree, Append(d, x)) = Led(tree, Append(Resolve(tree, d), x))
      BY <2>9, ResolveAppend
    <2>11. Resolve(tree, p \o u) = Led(tree, place \o u)
      BY <2>8, <2>9, <2>10 DEF d
    <2> QED
      BY <2>7, <2>11 DEF Led
  <1>3. T \in SUBSET Nat
    OBVIOUS
  <1> HIDE DEF T
  <1>4. T = Nat
    BY <1>1, <1>2, <1>3, Induct
  <1>5. Len(s) \in T
    BY <1>4
  <1> QED
    BY <1>5 DEF T

LEMMA ResolveSame ==
  ASSUME NEW tree, Linked(tree), NEW p \in Seq(Name),
         \A q \in Path : IsPrefix(q, p) => ~IsLink(tree, q)
  PROVE  Resolve(tree, p) = p
  <1>1. <<>> \in Seq(Name) /\ Resolve(tree, <<>>) = <<>>
    BY ResolveIs
  <1>2. \A q \in Seq(Name) : <<>> \o q = q
    BY ConcatEmptySeq
  <1>3. Clear(tree, <<>>, p)
    BY <1>2, PathIs DEF Clear
  <1> DEFINE e == <<>>
  <1>4. e \in Seq(Name) /\ Resolve(tree, e) = e /\ Clear(tree, e, p)
    BY <1>1, <1>3
  <1> HIDE DEF e
  <1>5. Clear(tree, Resolve(tree, e), p)
    BY <1>4
  <1>6. Resolve(tree, e \o p) = Resolve(tree, e) \o p
    BY <1>4, <1>5, ResolveClear
  <1> QED
    BY <1>2, <1>4, <1>6 DEF e

=============================================================================
