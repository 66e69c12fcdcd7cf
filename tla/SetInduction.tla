---------------------------- MODULE SetInduction ----------------------------
(***************************************************************************)
(* Induction principles whose induction hypothesis is a SET rather than a  *)
(* predicate, so that they can be cited where the library's theorems,      *)
(* which take an operator, cannot: the least element of a set of naturals, *)
(* induction over the naturals and over the subsets of a finite set, and   *)
(* functions defined by recursion on the naturals and on a tree.           *)
(***************************************************************************)
EXTENDS Integers, FiniteSets, WellFoundedInduction, FiniteSetTheorems, TLAPS

(* A set of natural numbers that is not empty has a least element: the     *)
(* initial segments below its members are well founded by inclusion.       *)
LEMMA LeastElement ==
  ASSUME NEW S \in SUBSET Nat, S # {}
  PROVE  \E m \in S : \A k \in S : m <= k
<1>. DEFINE Below(n) == 0 .. n - 1
            T == {Below(n) : n \in S}
            R == StrictSubsetOrdering(Nat)
<1>1. IsWellFoundedOn(R, FiniteSubsetsOf(Nat))
  BY FS_StrictSubsetOrderingWellFounded
<1>2. T \subseteq FiniteSubsetsOf(Nat)
  <2>1. ASSUME NEW n \in S
        PROVE  Below(n) \in FiniteSubsetsOf(Nat)
    BY FS_Interval DEF FiniteSubsetsOf
  <2>. QED
    BY <2>1
<1>3. T # {}
  OBVIOUS
<1>. HIDE DEF R
<1>4. PICK x \in T : \A y \in T : ~(<<y, x>> \in R)
  BY <1>1, <1>2, <1>3, WFMin
<1>5. PICK m \in S : x = Below(m)
  OBVIOUS
<1>6. ASSUME NEW k \in S, k < m
      PROVE  FALSE
  <2>1. Below(k) \in SUBSET Nat /\ Below(m) \in SUBSET Nat /\ Below(k) \subseteq Below(m)
    BY <1>6
  <2>2. k \in Below(m) /\ k \notin Below(k)
    BY <1>6
  <2>3. <<Below(k), Below(m)>> \in R
    BY <2>1, <2>2 DEF R, StrictSubsetOrdering
  <2>. QED
    BY <1>4, <1>5, <2>3
<1>. QED
  BY <1>6

(* Induction over the naturals, for a set of them.                         *)
LEMMA SetOfAllNaturals ==
  ASSUME NEW S \in SUBSET Nat, 0 \in S, \A n \in S : n + 1 \in S
  PROVE  \A n \in Nat : n \in S
<1>. SUFFICES ASSUME Nat \ S # {}
              PROVE  FALSE
  OBVIOUS
<1>1. PICK m \in Nat \ S : \A k \in Nat \ S : m <= k
  <2>. DEFINE T == Nat \ S
  <2>1. T \in SUBSET Nat /\ T # {}
    OBVIOUS
  <2>. HIDE DEF T
  <2>2. \E m \in T : \A k \in T : m <= k
    BY <2>1, LeastElement
  <2>. QED
    BY <2>2 DEF T
<1>2. m - 1 \in Nat /\ m - 1 \notin Nat \ S
  BY <1>1
<1>. QED
  BY <1>1, <1>2

-----------------------------------------------------------------------------
(* The first n values of the function that begins with a and goes from one *)
(* value to the next by step.                                              *)
Starts(h, n, V, a, step) ==
  /\ h \in [0 .. n -> V]
  /\ h[0] = a
  /\ \A i \in 0 .. n - 1 : h[i + 1] = step[<<i, h[i]>>]

LEMMA StartsExist ==
  ASSUME NEW V, NEW a \in V, NEW step \in [Nat \X V -> V]
  PROVE  \A n \in Nat : \E h : Starts(h, n, V, a, step)
<1>. DEFINE S == {n \in Nat : \E h : Starts(h, n, V, a, step)}
<1>1. 0 \in S
  <2>1. Starts([i \in 0 .. 0 |-> a], 0, V, a, step)
    BY DEF Starts
  <2>. QED
    BY <2>1
<1>2. ASSUME NEW n \in S
      PROVE  n + 1 \in S
  <2>1. PICK h : Starts(h, n, V, a, step)
    OBVIOUS
  <2>. DEFINE k == [i \in 0 .. n + 1 |-> IF i <= n THEN h[i] ELSE step[<<n, h[n]>>]]
  <2>2. n \in Nat /\ h[n] \in V /\ step[<<n, h[n]>>] \in V
    BY <2>1 DEF Starts
  <2>3. k \in [0 .. n + 1 -> V] /\ k[0] = a
    BY <2>1, <2>2 DEF Starts
  <2>4. ASSUME NEW i \in 0 .. (n + 1) - 1
        PROVE  k[i + 1] = step[<<i, k[i]>>]
    <3>1. CASE i = n
      <4>1. k[n + 1] = step[<<n, h[n]>>] /\ k[n] = h[n]
        BY <2>2
      <4>. QED
        BY <3>1, <4>1
    <3>2. CASE i # n
      <4>1. i \in 0 .. n - 1 /\ i <= n /\ i + 1 <= n /\ i \in 0 .. n + 1 /\ i + 1 \in 0 .. n + 1
        BY <2>2, <3>2
      <4>. QED
        BY <2>1, <4>1 DEF Starts
    <3>. QED
      BY <3>1, <3>2
  <2>5. Starts(k, n + 1, V, a, step)
    <3>. HIDE DEF k
    <3>. QED
      BY <2>3, <2>4 DEF Starts
  <2>. QED
    BY <2>2, <2>5
<1>. HIDE DEF S
<1>3. S \in SUBSET Nat
  BY DEF S
<1>4. \A n \in Nat : n \in S
  BY <1>1, <1>2, <1>3, SetOfAllNaturals
<1>. QED
  BY <1>4 DEF S

LEMMA StartsAgree ==
  ASSUME NEW V, NEW a, NEW step, NEW n \in Nat, NEW m \in Nat, NEW h, NEW k,
         Starts(h, n, V, a, step), Starts(k, m, V, a, step)
  PROVE  \A i \in Nat : i <= n /\ i <= m => h[i] = k[i]
<1>. DEFINE S == {i \in Nat : i <= n /\ i <= m => h[i] = k[i]}
<1>1. 0 \in S
  BY DEF Starts
<1>2. ASSUME NEW i \in S
      PROVE  i + 1 \in S
  <2>1. CASE i + 1 <= n /\ i + 1 <= m
    <3>1. i \in 0 .. n - 1 /\ i \in 0 .. m - 1 /\ h[i] = k[i]
      BY <2>1
    <3>2. h[i + 1] = step[<<i, h[i]>>] /\ k[i + 1] = step[<<i, k[i]>>]
      BY <3>1 DEF Starts
    <3>3. h[i + 1] = k[i + 1]
      BY <3>1, <3>2
    <3>. QED
      BY <3>3
  <2>. QED
    BY <2>1
<1>. HIDE DEF S
<1>3. S \in SUBSET Nat
  BY DEF S
<1>4. \A i \in Nat : i \in S
  BY <1>1, <1>2, <1>3, SetOfAllNaturals
<1>. QED
  BY <1>4 DEF S

(* There is a function on the naturals that begins with a and goes from    *)
(* each value to the next by step.                                         *)
Iterates(f, V, a, step) ==
  /\ f \in [Nat -> V]
  /\ f[0] = a
  /\ \A n \in Nat : f[n + 1] = step[<<n, f[n]>>]

LEMMA Recursion ==
  ASSUME NEW V, NEW a \in V, NEW step \in [Nat \X V -> V]
  PROVE  \E f : Iterates(f, V, a, step)
<1>. DEFINE H(n) == CHOOSE h : Starts(h, n, V, a, step)
            f == [n \in Nat |-> H(n)[n]]
<1>1. \A n \in Nat : Starts(H(n), n, V, a, step)
  BY StartsExist
<1>. HIDE DEF H
<1>2. f \in [Nat -> V] /\ f[0] = a
  BY <1>1 DEF Starts
<1>3. ASSUME NEW n \in Nat
      PROVE  f[n + 1] = step[<<n, f[n]>>]
  <2>1. Starts(H(n), n, V, a, step) /\ Starts(H(n + 1), n + 1, V, a, step)
    BY <1>1
  <2>2. H(n)[n] = H(n + 1)[n]
    BY <2>1, StartsAgree
  <2>3. H(n + 1)[n + 1] = step[<<n, H(n + 1)[n]>>]
    BY <2>1 DEF Starts
  <2>. QED
    BY <2>2, <2>3
<1>4. Iterates(f, V, a, step)
  <2>. HIDE DEF f
  <2>. QED
    BY <1>2, <1>3 DEF Iterates
<1>. QED
  BY <1>4

-----------------------------------------------------------------------------
(* Induction over the subsets of a finite set, from each to some larger    *)
(* one: T is a set of subsets.                                             *)
LEMMA AllSubsets ==
  ASSUME NEW S, IsFiniteSet(S), NEW T, {} \in T,
         \A s \in SUBSET S : s # {} => \E x \in s : s \ {x} \in T => s \in T
  PROVE  \A s \in SUBSET S : s \in T
<1>. DEFINE N == {n \in Nat : \A s \in SUBSET S : Cardinality(s) = n => s \in T}
<1>1. \A s \in SUBSET S : IsFiniteSet(s) /\ Cardinality(s) \in Nat
  BY FS_Subset, FS_CardinalityType
<1>2. 0 \in N
  BY <1>1, FS_EmptySet
<1>3. ASSUME NEW n \in N
      PROVE  n + 1 \in N
  <2>1. ASSUME NEW s \in SUBSET S, Cardinality(s) = n + 1
        PROVE  s \in T
    <3>1. s # {}
      BY <1>1, <2>1, FS_EmptySet
    <3>2. PICK x \in s : s \ {x} \in T => s \in T
      BY <3>1
    <3>3. Cardinality(s \ {x}) = n
      <4>1. Cardinality(s \ {x}) = Cardinality(s) - 1
        BY <1>1, FS_RemoveElement
      <4>. QED
        BY <2>1, <4>1
    <3>. QED
      BY <3>2, <3>3
  <2>. QED
    BY <2>1
<1>. HIDE DEF N
<1>4. N \in SUBSET Nat
  BY DEF N
<1>5. \A n \in Nat : n \in N
  BY <1>2, <1>3, <1>4, SetOfAllNaturals
<1>. QED
  BY <1>1, <1>5 DEF N

-----------------------------------------------------------------------------
(* Trees, given by the parent of each node: a node whose parent is not in  *)
(* S is a root.  From every node there is a root above it: what is true of *)
(* each node if of its parent is true of all.                              *)
Rooted(S, up) ==
  \A T \in SUBSET S : (\A s \in S : (up[s] \in S => up[s] \in T) => s \in T) => T = S

(* The values of f at the roots are those of base; every other one comes   *)
(* from the parent's by step.                                              *)
Descends(f, S, up, V, base, step) ==
  /\ f \in [S -> V]
  /\ \A s \in S : f[s] = IF up[s] \in S THEN step[<<s, f[up[s]]>>] ELSE base[s]

(* A function defined by recursion along the parents exists: one more      *)
(* generation of its values is right with each step of an iteration, so    *)
(* that each value is right from some step on.                             *)
LEMMA TreeRecursion ==
  ASSUME NEW S, NEW up, Rooted(S, up),
         NEW V, NEW base \in [S -> V], NEW step \in [S \X V -> V]
  PROVE  \E f : Descends(f, S, up, V, base, step)
<1>. DEFINE F == [S -> V]
            Gen(h) == [s \in S |-> IF up[s] \in S THEN step[<<s, h[up[s]]>>] ELSE base[s]]
            next == [w \in Nat \X F |-> Gen(w[2])]
<1>1. \A h \in F : Gen(h) \in F
  OBVIOUS
<1>2. PICK H : /\ \A n \in Nat : H[n] \in F
               /\ \A n \in Nat : H[n + 1] = Gen(H[n])
  <2>1. next \in [Nat \X F -> F] /\ base \in F
    BY <1>1
  <2>2. \A n \in Nat : \A h \in F : next[<<n, h>>] = Gen(h)
    OBVIOUS
  <2>. HIDE DEF next, F, Gen
  <2>3. PICK H : Iterates(H, F, base, next)
    BY <2>1, Recursion
  <2>. QED
    BY <2>2, <2>3 DEF Iterates
<1>3. ASSUME NEW n \in Nat, NEW s \in S
      PROVE  H[n + 1][s] = IF up[s] \in S THEN step[<<s, H[n][up[s]]>>] ELSE base[s]
  <2>1. H[n + 1] = Gen(H[n])
    BY <1>2
  <2>. QED
    BY <2>1
<1>. HIDE DEF Gen, next
<1>. DEFINE Lim(s, v) == \E n \in Nat : \A m \in Nat : m >= n => H[m][s] = v
            f == [s \in S |-> CHOOSE v : Lim(s, v)]
<1>4. ASSUME NEW s \in S, up[s] \notin S
      PROVE  Lim(s, base[s])
  <2>1. ASSUME NEW m \in Nat, m >= 1
        PROVE  H[m][s] = base[s]
    <3>1. m - 1 \in Nat /\ (m - 1) + 1 = m
      BY <2>1
    <3>2. H[(m - 1) + 1][s] = base[s]
      BY <1>3, <1>4, <3>1
    <3>. QED
      BY <3>1, <3>2
  <2>2. 1 \in Nat
    OBVIOUS
  <2>. QED
    BY <2>1, <2>2
<1>5. ASSUME NEW s \in S, up[s] \in S, NEW v, Lim(up[s], v)
      PROVE  Lim(s, step[<<s, v>>])
  <2>1. PICK n \in Nat : \A m \in Nat : m >= n => H[m][up[s]] = v
    BY <1>5
  <2>2. ASSUME NEW m \in Nat, m >= n + 1
        PROVE  H[m][s] = step[<<s, v>>]
    <3>1. m - 1 \in Nat /\ (m - 1) + 1 = m /\ m - 1 >= n
      BY <2>2
    <3>2. H[(m - 1) + 1][s] = step[<<s, H[m - 1][up[s]]>>]
      BY <1>3, <1>5, <3>1
    <3>3. H[m - 1][up[s]] = v
      BY <2>1, <3>1
    <3>. QED
      BY <3>1, <3>2, <3>3
  <2>3. n + 1 \in Nat
    OBVIOUS
  <2>. QED
    BY <2>2, <2>3
<1>6. ASSUME NEW s, NEW v, NEW w, Lim(s, v), Lim(s, w)
      PROVE  v = w
  <2>1. PICK n \in Nat : \A m \in Nat : m >= n => H[m][s] = v
    BY <1>6
  <2>2. PICK k \in Nat : \A m \in Nat : m >= k => H[m][s] = w
    BY <1>6
  <2>3. n + k \in Nat /\ n + k >= n /\ n + k >= k
    OBVIOUS
  <2>. QED
    BY <2>1, <2>2, <2>3
<1>7. ASSUME NEW s \in S, NEW v, Lim(s, v)
      PROVE  v \in V
  <2>1. PICK n \in Nat : \A m \in Nat : m >= n => H[m][s] = v
    BY <1>7
  <2>2. H[n] \in [S -> V] /\ n >= n /\ n \in Nat
    BY <1>2
  <2>3. H[n][s] = v
    BY <2>1, <2>2
  <2>. QED
    BY <2>2, <2>3
<1>. HIDE DEF Lim
<1>8. \A s \in S : \E v : Lim(s, v)
  <2>. DEFINE T == {s \in S : \E v : Lim(s, v)}
  <2>1. ASSUME NEW s \in S, up[s] \in S => up[s] \in T
        PROVE  s \in T
    BY <1>4, <1>5, <2>1
  <2>2. T \in SUBSET S
    OBVIOUS
  <2>. HIDE DEF T
  <2>3. T = S
    BY <2>1, <2>2 DEF Rooted
  <2>. QED
    BY <2>3 DEF T
<1>9. \A s \in S : Lim(s, f[s])
  BY <1>8
<1>10. f \in [S -> V]
  BY <1>7, <1>8
<1>. HIDE DEF f
<1>11. \A s \in S : f[s] = IF up[s] \in S THEN step[<<s, f[up[s]]>>] ELSE base[s]
  BY <1>4, <1>5, <1>6, <1>9
<1>12. Descends(f, S, up, V, base, step)
  BY <1>10, <1>11 DEF Descends
<1>. QED
  BY <1>12
=============================================================================
