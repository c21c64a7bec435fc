----------------------------- MODULE FoldLemmas -----------------------------
(***************************************************************************)
(* What the folds of the community modules compute, as far as the other    *)
(* proofs need it: that a sum over a finite set does not depend on the     *)
(* order, and that a fold over a sequence goes through its elements one by *)
(* one.  What is folded is a function here, so that a lemma can be used    *)
(* for any operator; the inductions look for a least counterexample.       *)
(***************************************************************************)
EXTENDS Integers, FiniteSetsExt, SequencesExt, FiniteSetTheorems, WellFoundedInduction, TLAPS

(* A set of naturals that is not empty has a least element.                *)
LEMMA LeastNatural ==
  ASSUME NEW T \in SUBSET Nat, T # {}
  PROVE  \E n \in T : \A m \in T : n <= m
<1>1. PICK x \in T : \A y \in T : <<y, x>> \notin OpToRel(<, Nat)
  BY NatLessThanWellFounded, WFMin
<1>2. ASSUME NEW y \in T PROVE x <= y
  <2>1. ~(y < x)
    BY <1>1 DEF OpToRel
  <2> QED
    BY <2>1
<1> QED
  BY <1>2

(* A set of naturals that has 0 and with n also n + 1 has all of them.     *)
LEMMA AllNaturals ==
  ASSUME NEW T \in SUBSET Nat, 0 \in T, \A n \in T : n + 1 \in T
  PROVE  T = Nat
<1> SUFFICES ASSUME Nat \ T # {} PROVE FALSE
  OBVIOUS
<1>1. PICK n \in Nat \ T : \A m \in Nat \ T : n <= m
  BY LeastNatural
<1>2. n # 0 /\ n - 1 \in Nat /\ n - 1 + 1 = n
  BY <1>1
<1>3. n - 1 \in T
  BY <1>1, <1>2
<1> QED
  BY <1>1, <1>2, <1>3

-----------------------------------------------------------------------------

(* One step of a fold over the subsets of S: d[x] maps what was folded so  *)
(* far to what it is with x, and c chooses the x to take away.             *)
Folds(S, base, d, c, iter) ==
    iter = [s \in SUBSET S |-> IF s = {} THEN base ELSE d[c[s]][iter[s \ {c[s]}]]]

(* Taking away an element of a finite set leaves one that is smaller.      *)
LEMMA OneLess ==
  ASSUME NEW s, IsFiniteSet(s), NEW x \in s
  PROVE  /\ IsFiniteSet(s \ {x}) /\ Cardinality(s \ {x}) = Cardinality(s) - 1
         /\ Cardinality(s) \in Nat \ {0} /\ Cardinality(s \ {x}) \in Nat
<1>1. IsFiniteSet(s \ {x}) /\ Cardinality(s \ {x}) = Cardinality(s) - 1
  BY FS_RemoveElement
<1>2. Cardinality(s) \in Nat /\ Cardinality(s \ {x}) \in Nat
  BY <1>1, FS_CardinalityType
<1> QED
  BY <1>1, <1>2

(* A fold over a finite set has a value.                                   *)
LEMMA FoldExists ==
  ASSUME NEW S, IsFiniteSet(S), NEW V, NEW base \in V, NEW d, NEW c,
         \A x \in S : \A v \in V : d[x][v] \in V,
         \A s \in SUBSET S : s # {} => c[s] \in s
  PROVE  \E iter \in [SUBSET S -> V] : Folds(S, base, d, c, iter)
<1> DEFINE Step(iter, s) == IF s = {} THEN base ELSE d[c[s]][iter[s \ {c[s]}]]
           Upto(n) == \E iter \in [SUBSET S -> V] :
                          \A s \in SUBSET S : Cardinality(s) <= n => iter[s] = Step(iter, s)
           T == {n \in Nat : Upto(n)}
<1>1. \A s \in SUBSET S : IsFiniteSet(s) /\ Cardinality(s) \in Nat /\ Cardinality(s) <= Cardinality(S)
  BY FS_Subset, FS_CardinalityType
<1>2. \A s \in SUBSET S : s # {} => c[s] \in S /\ s \ {c[s]} \in SUBSET S
  OBVIOUS
<1>3. \A s \in SUBSET S : s # {} => Cardinality(s \ {c[s]}) = Cardinality(s) - 1 /\ Cardinality(s) # 0
  BY <1>1, OneLess
<1>4. 0 \in T
  <2> DEFINE iter == [s \in SUBSET S |-> base]
  <2>1. \A s \in SUBSET S : Cardinality(s) <= 0 => s = {}
    BY <1>1, FS_EmptySet
  <2>2. iter \in [SUBSET S -> V]
    OBVIOUS
  <2>3. \A s \in SUBSET S : Cardinality(s) <= 0 => iter[s] = Step(iter, s)
    BY <2>1
  <2> QED
    BY <2>2, <2>3
<1>5. ASSUME NEW n \in T PROVE n + 1 \in T
  <2>1. PICK old \in [SUBSET S -> V] :
            \A s \in SUBSET S : Cardinality(s) <= n => old[s] = Step(old, s)
    BY <1>5
  <2> DEFINE new == [s \in SUBSET S |-> IF Cardinality(s) = n + 1 THEN Step(old, s) ELSE old[s]]
  <2>2. \A s \in SUBSET S : Step(old, s) \in V
    BY <1>2
  <2>3. new \in [SUBSET S -> V]
    BY <2>2
  <2>4. ASSUME NEW s \in SUBSET S, Cardinality(s) <= n + 1
        PROVE  new[s] = Step(new, s)
    <3>1. n \in Nat /\ Cardinality(s) \in Nat
      BY <1>1, <1>5
    <3>2. CASE s = {}
      <4>1. Cardinality(s) = 0
        BY <3>2, FS_EmptySet
      <4>2. Cardinality(s) <= n /\ Cardinality(s) # n + 1
        BY <3>1, <4>1
      <4>3. old[s] = Step(old, s)
        BY <2>1, <4>2
      <4>4. new[s] = old[s] /\ old[s] = base
        BY <3>2, <4>2, <4>3
      <4> QED
        BY <3>2, <4>4
    <3>3. CASE s # {}
      <4> DEFINE t == s \ {c[s]}
      <4>1. t \in SUBSET S /\ Cardinality(t) = Cardinality(s) - 1
        BY <1>2, <1>3, <3>3
      <4>2. Cardinality(t) # n + 1
        BY <2>4, <3>1, <4>1
      <4>3. new[t] = old[t]
        BY <4>1, <4>2
      <4>4. new[s] = Step(old, s)
        <5>1. CASE Cardinality(s) = n + 1
          BY <5>1
        <5>2. CASE Cardinality(s) # n + 1
          <6>1. Cardinality(s) <= n
            BY <2>4, <3>1, <5>2
          <6> QED
            BY <2>1, <5>2, <6>1
        <5> QED
          BY <5>1, <5>2
      <4> QED
        BY <3>3, <4>3, <4>4
    <3> QED
      BY <3>2, <3>3
  <2>5. Upto(n + 1)
    BY <2>3, <2>4
  <2>6. n + 1 \in Nat
    BY <1>5
  <2> QED
    BY <2>5, <2>6
<1>6. Cardinality(S) \in T
  <2> HIDE DEF T
  <2>1. T \in SUBSET Nat
    BY DEF T
  <2>2. T = Nat
    BY <1>4, <1>5, <2>1, AllNaturals
  <2> QED
    BY <1>1, <2>2
<1>7. PICK iter \in [SUBSET S -> V] :
          \A s \in SUBSET S : Cardinality(s) <= Cardinality(S) => iter[s] = Step(iter, s)
  BY <1>6
<1>8. \A s \in SUBSET S : iter[s] = Step(iter, s)
  BY <1>1, <1>7
<1>9. Folds(S, base, d, c, iter)
  BY <1>8 DEF Folds
<1> QED
  BY <1>9

-----------------------------------------------------------------------------

(* The sum of w over the set S. *)
SumOf(w, S) == MapThenSumSet(LAMBDA x : w[x], S)

(* iter has the sums of w over the subsets of S. *)
Sums(S, w, iter) ==
    iter = [s \in SUBSET S |-> IF s = {} THEN 0
                ELSE LET x == CHOOSE y \in s : TRUE IN w[x] + iter[s \ {x}]]

(* There are such sums, and they are integers.                             *)
LEMMA SumsExist ==
  ASSUME NEW S, IsFiniteSet(S), NEW w \in [S -> Int]
  PROVE  \E iter \in [SUBSET S -> Int] : Sums(S, w, iter)
<1> DEFINE c == [s \in SUBSET S |-> CHOOSE y \in s : TRUE]
           d == [x \in S |-> [v \in Int |-> w[x] + v]]
<1>1. \A s \in SUBSET S : s # {} => c[s] \in s
  OBVIOUS
<1>2. \A x \in S : \A v \in Int : d[x][v] = w[x] + v /\ d[x][v] \in Int
  OBVIOUS
<1>3. PICK iter \in [SUBSET S -> Int] : Folds(S, 0, d, c, iter)
  <2> HIDE DEF c, d
  <2>1. 0 \in Int /\ \A x \in S : \A v \in Int : d[x][v] \in Int
    BY <1>2
  <2> QED
    BY <1>1, <2>1, FoldExists, Zenon
<1>4. \A s \in SUBSET S : iter[s] = IF s = {} THEN 0 ELSE d[c[s]][iter[s \ {c[s]}]]
  <2> HIDE DEF c, d
  <2> QED
    BY <1>3 DEF Folds
<1>5. ASSUME NEW s \in SUBSET S, s # {}
      PROVE  iter[s] = w[c[s]] + iter[s \ {c[s]}]
  <2> HIDE DEF c, d
  <2>1. iter[s] = d[c[s]][iter[s \ {c[s]}]]
    BY <1>4, <1>5
  <2>2. c[s] \in S /\ iter[s \ {c[s]}] \in Int
    BY <1>1, <1>3, <1>5
  <2> QED
    BY <1>2, <2>1, <2>2
<1>6. \A s \in SUBSET S : iter[s] = IF s = {} THEN 0
          ELSE LET x == CHOOSE y \in s : TRUE IN w[x] + iter[s \ {x}]
  BY <1>4, <1>5
<1>7. Sums(S, w, iter)
  BY <1>3, <1>6 DEF Sums
<1> QED
  BY <1>3, <1>7

(* Sums of functions that agree on S agree on every subset of S.           *)
LEMMA SumsAgree ==
  ASSUME NEW S, IsFiniteSet(S), NEW A, S \in SUBSET A, NEW B, S \in SUBSET B,
         NEW w, NEW v, \A x \in S : w[x] = v[x],
         NEW f, NEW g, Sums(A, w, f), Sums(B, v, g)
  PROVE  \A s \in SUBSET S : f[s] = g[s]
<1> DEFINE Bad == {s \in SUBSET S : f[s] # g[s]}
           T == {Cardinality(s) : s \in Bad}
<1> SUFFICES ASSUME Bad # {} PROVE FALSE
  OBVIOUS
<1>1. \A s \in SUBSET S : IsFiniteSet(s) /\ Cardinality(s) \in Nat
  BY FS_Subset, FS_CardinalityType
<1>2. T \in SUBSET Nat /\ T # {}
  BY <1>1
<1>3. PICK s \in Bad : \A t \in Bad : Cardinality(s) <= Cardinality(t)
  <2> HIDE DEF T
  <2>1. PICK n \in T : \A m \in T : n <= m
    BY <1>2, LeastNatural
  <2> QED
    BY <2>1 DEF T
<1>4. s \in SUBSET A /\ s \in SUBSET B
  BY <1>3
<1>5. s # {}
  BY <1>3, <1>4 DEF Sums
<1> DEFINE x == CHOOSE y \in s : TRUE
<1>6. x \in s
  BY <1>5
<1> DEFINE t == s \ {x}
<1>7. t \in SUBSET S /\ t \notin Bad
  <2>1. Cardinality(t) = Cardinality(s) - 1 /\ Cardinality(s) \in Nat
    BY <1>1, <1>3, <1>6, OneLess
  <2> QED
    BY <1>3, <2>1
<1>8. f[s] = w[x] + f[t] /\ g[s] = v[x] + g[t]
  BY <1>4, <1>5 DEF Sums
<1>9. f[t] = g[t] /\ w[x] = v[x]
  BY <1>3, <1>6, <1>7
<1> QED
  BY <1>3, <1>8, <1>9

(* They are what SumOf computes. *)
Tabulates(S, w, iter) ==
    /\ iter \in [SUBSET S -> Int] /\ Sums(S, w, iter)
    /\ \A s \in SUBSET S : SumOf(w, s) = iter[s]

(* The community module's sum over a subset of S is one of these.          *)
LEMMA SumOfSums ==
  ASSUME NEW S, IsFiniteSet(S), NEW w \in [S -> Int]
  PROVE  \E iter : Tabulates(S, w, iter)
<1>1. PICK iter \in [SUBSET S -> Int] : Sums(S, w, iter)
  BY SumsExist
<1>2. ASSUME NEW s \in SUBSET S PROVE SumOf(w, s) = iter[s]
  <2> DEFINE v == [x \in s |-> w[x]]
             f == CHOOSE g : Sums(s, w, g)
  <2>1. SumOf(w, s) = f[s]
    BY DEF SumOf, MapThenSumSet, MapThenFoldSet, Sums
  <2>2. IsFiniteSet(s)
    BY FS_Subset
  <2>3. \E g : Sums(s, w, g)
    <3>1. PICK g \in [SUBSET s -> Int] : Sums(s, v, g)
      <4> v \in [s -> Int]
        OBVIOUS
      <4> HIDE DEF v
      <4> QED
        BY <2>2, SumsExist
    <3>2. \A t \in SUBSET s : t # {} => v[CHOOSE y \in t : TRUE] = w[CHOOSE y \in t : TRUE]
      OBVIOUS
    <3>3. \A t \in SUBSET s : g[t] = IF t = {} THEN 0
            ELSE LET x == CHOOSE y \in t : TRUE IN w[x] + g[t \ {x}]
      <4> HIDE DEF v
      <4> QED
        BY <3>1, <3>2 DEF Sums
    <3>4. Sums(s, w, g)
      BY <3>1, <3>3 DEF Sums
    <3> QED
      BY <3>4
  <2>4. Sums(s, w, f)
    BY <2>3
  <2> HIDE DEF f
  <2>5. f[s] = iter[s]
    BY <1>1, <2>2, <2>4, SumsAgree
  <2> QED
    BY <2>1, <2>5
<1> QED
  BY <1>1, <1>2 DEF Tabulates

(* A sum of integers is an integer.                                        *)
LEMMA SumIsInt ==
  ASSUME NEW S, IsFiniteSet(S), NEW w \in [S -> Int]
  PROVE  SumOf(w, S) \in Int
<1>1. PICK f : Tabulates(S, w, f)
  BY SumOfSums
<1>2. S \in SUBSET S /\ f \in [SUBSET S -> Int] /\ \A s \in SUBSET S : SumOf(w, s) = f[s]
  BY <1>1 DEF Tabulates
<1> QED
  BY <1>2

(* The sum over no elements is 0.                                          *)
LEMMA SumOfNothing ==
  ASSUME NEW w PROVE SumOf(w, {}) = 0
<1>1. \E f : Sums({}, w, f)
  BY DEF Sums
<1>2. Sums({}, w, CHOOSE g : Sums({}, w, g))
  BY <1>1
<1>3. SumOf(w, {}) = (CHOOSE g : Sums({}, w, g))[{}]
  BY DEF SumOf, MapThenSumSet, MapThenFoldSet, Sums
<1> DEFINE f == CHOOSE g : Sums({}, w, g)
<1> HIDE DEF f
<1>4. Sums({}, w, f) /\ SumOf(w, {}) = f[{}]
  BY <1>2, <1>3 DEF f
<1> QED
  BY <1>4 DEF Sums

(* A sum can be split at any of its elements: the order in which they are  *)
(* added does not matter.                                                  *)
LEMMA SumSplits ==
  ASSUME NEW S, IsFiniteSet(S), NEW w \in [S -> Int], NEW x \in S
  PROVE  SumOf(w, S) = w[x] + SumOf(w, S \ {x})
<1>1. PICK iter : Tabulates(S, w, iter)
  BY SumOfSums
<1> DEFINE Splits(s) == \A y \in s : iter[s] = w[y] + iter[s \ {y}]
           Bad == {s \in SUBSET S : ~Splits(s)}
           T == {Cardinality(s) : s \in Bad}
<1>2. Bad = {}
  <2> SUFFICES ASSUME Bad # {} PROVE FALSE
    OBVIOUS
  <2>1. \A s \in SUBSET S : IsFiniteSet(s) /\ Cardinality(s) \in Nat
    BY FS_Subset, FS_CardinalityType
  <2>2. T \in SUBSET Nat /\ T # {}
    BY <2>1
  <2>3. PICK s \in Bad : \A t \in Bad : Cardinality(s) <= Cardinality(t)
    <3> HIDE DEF T
    <3>1. PICK n \in T : \A m \in T : n <= m
      BY <2>2, LeastNatural
    <3> QED
      BY <3>1 DEF T
  <2>4. PICK y \in s : iter[s] # w[y] + iter[s \ {y}]
    BY <2>3
  <2> DEFINE z == CHOOSE v \in s : TRUE
  <2>5. z \in s
    BY <2>4
  <2>6. iter[s] = w[z] + iter[s \ {z}]
    BY <1>1, <2>3, <2>4 DEF Sums, Tabulates
  <2> HIDE DEF z
  <2>7. y # z
    BY <2>4, <2>6
  <2>8. \A v \in s : s \ {v} \in SUBSET S /\ Splits(s \ {v})
    <3> TAKE v \in s
    <3>1. s \ {v} \in SUBSET S
      BY <2>3
    <3>2. Cardinality(s \ {v}) = Cardinality(s) - 1 /\ Cardinality(s) \in Nat
      BY <2>1, <2>3, OneLess
    <3>3. s \ {v} \notin Bad
      BY <2>3, <3>2
    <3> QED
      BY <3>1, <3>3
  <2> DEFINE r == (s \ {z}) \ {y}
  <2>9. r = (s \ {y}) \ {z} /\ r \in SUBSET S
    BY <2>3
  <2>10. iter[s \ {z}] = w[y] + iter[r] /\ iter[s \ {y}] = w[z] + iter[r]
    BY <2>4, <2>5, <2>7, <2>8, <2>9
  <2>11. w[y] \in Int /\ w[z] \in Int /\ iter[r] \in Int
    BY <1>1, <2>3, <2>4, <2>5, <2>9 DEF Tabulates
  <2> HIDE DEF r
  <2> QED
    BY <2>4, <2>6, <2>10, <2>11
<1>3. S \in SUBSET S /\ S \ {x} \in SUBSET S
  OBVIOUS
<1>4. iter[S] = w[x] + iter[S \ {x}]
  BY <1>2, <1>3
<1> QED
  BY <1>1, <1>3, <1>4 DEF Tabulates

(* A sum over S depends on the values on S alone.                          *)
LEMMA SumDependsOn ==
  ASSUME NEW S, IsFiniteSet(S), NEW A, NEW B, S \in SUBSET A, S \in SUBSET B,
         IsFiniteSet(A), IsFiniteSet(B), NEW w \in [A -> Int], NEW v \in [B -> Int],
         \A x \in S : w[x] = v[x]
  PROVE  SumOf(w, S) = SumOf(v, S)
<1>1. PICK f : Tabulates(A, w, f)
  BY SumOfSums
<1>2. PICK g : Tabulates(B, v, g)
  BY SumOfSums
<1>3. f[S] = g[S]
  BY <1>1, <1>2, SumsAgree DEF Tabulates
<1> QED
  BY <1>1, <1>2, <1>3 DEF Tabulates

(* Where only the value at x changes, the sum changes by that change.      *)
LEMMA SumChanges ==
  ASSUME NEW S, IsFiniteSet(S), NEW w \in [S -> Int], NEW v \in [S -> Int], NEW x \in S,
         \A y \in S \ {x} : w[y] = v[y]
  PROVE  SumOf(v, S) = SumOf(w, S) + (v[x] - w[x])
<1>1. SumOf(w, S) = w[x] + SumOf(w, S \ {x}) /\ SumOf(v, S) = v[x] + SumOf(v, S \ {x})
  BY SumSplits
<1>2. IsFiniteSet(S \ {x})
  BY FS_RemoveElement
<1>3. SumOf(w, S \ {x}) = SumOf(v, S \ {x})
  BY <1>2, SumDependsOn
<1>4. SumOf(w, S \ {x}) \in Int
  <2> DEFINE u == [y \in S \ {x} |-> w[y]]
  <2>1. u \in [S \ {x} -> Int] /\ \A y \in S \ {x} : w[y] = u[y]
    OBVIOUS
  <2> HIDE DEF u
  <2>2. SumOf(w, S \ {x}) = SumOf(u, S \ {x})
    BY <1>2, <2>1, SumDependsOn
  <2> QED
    BY <1>2, <2>1, <2>2, SumIsInt
<1>5. w[x] \in Int /\ v[x] \in Int
  OBVIOUS
<1> QED
  BY <1>1, <1>3, <1>4, <1>5

(* The sum of the sums is the sum of the pointwise sum.                    *)
LEMMA SumsAdd ==
  ASSUME NEW S, IsFiniteSet(S), NEW w \in [S -> Int], NEW v \in [S -> Int],
         NEW u \in [S -> Int], \A x \in S : u[x] = w[x] + v[x]
  PROVE  SumOf(u, S) = SumOf(w, S) + SumOf(v, S)
<1>1. PICK f : Tabulates(S, w, f)
  BY SumOfSums
<1>2. PICK g : Tabulates(S, v, g)
  BY SumOfSums
<1>3. PICK h : Tabulates(S, u, h)
  BY SumOfSums
<1> DEFINE k == [s \in SUBSET S |-> f[s] + g[s]]
<1>4. ASSUME NEW s \in SUBSET S, s # {}, NEW x \in s, x = CHOOSE y \in s : TRUE
      PROVE  k[s] = u[x] + k[s \ {x}]
  <2>1. f[s] = w[x] + f[s \ {x}] /\ g[s] = v[x] + g[s \ {x}]
    BY <1>1, <1>2, <1>4 DEF Sums, Tabulates
  <2>2. s \ {x} \in SUBSET S /\ w[x] \in Int /\ v[x] \in Int /\ u[x] = w[x] + v[x]
    BY <1>4
  <2>3. f[s \ {x}] \in Int /\ g[s \ {x}] \in Int
    BY <1>1, <1>2, <2>2 DEF Tabulates
  <2>4. k[s \ {x}] = f[s \ {x}] + g[s \ {x}] /\ k[s] = f[s] + g[s]
    BY <2>2
  <2> HIDE DEF k
  <2> QED
    BY <2>1, <2>2, <2>3, <2>4
<1>5. k[{}] = 0
  BY <1>1, <1>2 DEF Sums, Tabulates
<1>6. \A s \in SUBSET S : k[s] = IF s = {} THEN 0
          ELSE LET x == CHOOSE y \in s : TRUE IN u[x] + k[s \ {x}]
  <2> HIDE DEF k
  <2> TAKE s \in SUBSET S
  <2>1. CASE s = {}
    BY <1>5, <2>1
  <2>2. CASE s # {}
    <3>1. (CHOOSE y \in s : TRUE) \in s
      BY <2>2
    <3>2. k[s] = u[CHOOSE y \in s : TRUE] + k[s \ {CHOOSE y \in s : TRUE}]
      BY <1>4, <2>2, <3>1
    <3> QED
      BY <2>2, <3>2
  <2> QED
    BY <2>1, <2>2
<1>7. Sums(S, u, k)
  BY <1>6 DEF Sums
<1> HIDE DEF k
<1>8. h[S] = k[S]
  BY <1>3, <1>7, SumsAgree DEF Tabulates
<1>9. k[S] = f[S] + g[S]
  BY DEF k
<1> QED
  BY <1>1, <1>2, <1>3, <1>8, <1>9 DEF Tabulates

(* So can the sum over every subset of S.                                  *)
LEMMA SumSplitsWithin ==
  ASSUME NEW S, IsFiniteSet(S), NEW w \in [S -> Int], NEW s \in SUBSET S, NEW x \in s
  PROVE  SumOf(w, s) = w[x] + SumOf(w, s \ {x})
<1> DEFINE u == [y \in s |-> w[y]]
<1>1. u \in [s -> Int] /\ \A y \in s : w[y] = u[y]
  OBVIOUS
<1> HIDE DEF u
<1>2. IsFiniteSet(s) /\ IsFiniteSet(s \ {x}) /\ s \ {x} \in SUBSET S
  BY FS_Subset, FS_RemoveElement
<1>3. SumOf(w, s) = SumOf(u, s) /\ SumOf(w, s \ {x}) = SumOf(u, s \ {x})
  BY <1>1, <1>2, SumDependsOn
<1>4. SumOf(u, s) = u[x] + SumOf(u, s \ {x})
  BY <1>1, <1>2, SumSplits
<1> QED
  BY <1>1, <1>3, <1>4

(* Whatever adds up the values of w in some order computes their sum.      *)
LEMMA FoldIsSum ==
  ASSUME NEW S, IsFiniteSet(S), NEW w \in [S -> Int], NEW iter, iter[{}] = 0,
         \A s \in SUBSET S : s # {} =>
            \E x \in s : iter[s \ {x}] \in Int => iter[s] = w[x] + iter[s \ {x}]
  PROVE  iter[S] = SumOf(w, S)
<1> DEFINE Bad == {s \in SUBSET S : iter[s] # SumOf(w, s)}
           T == {Cardinality(s) : s \in Bad}
<1>0. \A s \in SUBSET S : IsFiniteSet(s) /\ Cardinality(s) \in Nat
  BY FS_Subset, FS_CardinalityType
<1>1. \A s \in SUBSET S : SumOf(w, s) \in Int
  <2>1. PICK f : Tabulates(S, w, f)
    BY SumOfSums
  <2> QED
    BY <2>1 DEF Tabulates
<1>2. \A s \in SUBSET S : \A x \in s : SumOf(w, s) = w[x] + SumOf(w, s \ {x})
  <2> TAKE s \in SUBSET S
  <2> TAKE x \in s
  <2> QED
    BY SumSplitsWithin
<1>3. Bad = {}
  <2> SUFFICES ASSUME Bad # {} PROVE FALSE
    OBVIOUS
  <2>2. T \in SUBSET Nat /\ T # {}
    BY <1>0
  <2>3. PICK s \in Bad : \A t \in Bad : Cardinality(s) <= Cardinality(t)
    <3> HIDE DEF T
    <3>1. PICK n \in T : \A m \in T : n <= m
      BY <2>2, LeastNatural
    <3> QED
      BY <3>1 DEF T
  <2>4. s # {}
    BY <2>3, SumOfNothing
  <2>5. PICK x \in s : iter[s \ {x}] \in Int => iter[s] = w[x] + iter[s \ {x}]
    BY <2>3, <2>4
  <2>6. Cardinality(s \ {x}) = Cardinality(s) - 1 /\ Cardinality(s) \in Nat
    BY <1>0, <2>3, OneLess
  <2>7. s \ {x} \in SUBSET S /\ s \ {x} \notin Bad
    BY <2>3, <2>6
  <2>8. iter[s \ {x}] = SumOf(w, s \ {x}) /\ iter[s \ {x}] \in Int
    BY <1>1, <2>7
  <2> QED
    BY <1>2, <2>3, <2>5, <2>8
<1> QED
  BY <1>3
-----------------------------------------------------------------------------

(* A set of positions that is not empty has a last one, and without it the *)
(* positions up to n end at n - 1: a fold from the left ends with these.   *)
LEMMA LastPosition ==
  ASSUME NEW n \in Nat
  PROVE  /\ IsFiniteSet(1 .. n)
         /\ \A s \in SUBSET (1 .. n) : s # {} => Max(s) \in s
         /\ \A s \in SUBSET (1 .. n) : s # {} => \E x \in s : \A y \in s : y <= x
         /\ n > 0 => Max(1 .. n) = n /\ (1 .. n) \ {n} = 1 .. n - 1
<1>1. IsFiniteSet(1 .. n)
  BY FS_Interval
<1>2. ASSUME NEW s \in SUBSET (1 .. n), s # {}
      PROVE  Max(s) \in s /\ \E x \in s : \A y \in s : y <= x
  <2> DEFINE T == {n - x : x \in s}
  <2>1. T \in SUBSET Nat /\ T # {}
    <3>1. \A x \in s : n - x \in Nat
      OBVIOUS
    <3>2. T \in SUBSET Nat
      <4>1. ASSUME NEW t \in T PROVE t \in Nat
        <5>1. PICK x \in s : t = n - x
          OBVIOUS
        <5> QED
          BY <3>1, <5>1
      <4> QED
        BY <4>1
    <3>3. PICK x \in s : TRUE
      BY <1>2
    <3>4. n - x \in T
      BY <3>3
    <3> QED
      BY <3>2, <3>4
  <2>2. PICK m \in T : \A k \in T : m <= k
    <3> HIDE DEF T
    <3> QED
      BY <2>1, LeastNatural
  <2>3. PICK x \in s : m = n - x
    BY <2>2
  <2>4. \A y \in s : y <= x
    <3> TAKE y \in s
    <3>1. n - x <= n - y
      BY <2>2, <2>3
    <3> QED
      BY <3>1
  <2> QED
    BY <2>4 DEF Max
<1>3. ASSUME n > 0 PROVE Max(1 .. n) = n
  <2>1. n \in 1 .. n /\ \A y \in 1 .. n : y <= n
    BY <1>3
  <2>2. \A x \in 1 .. n : (\A y \in 1 .. n : y <= x) => x = n
    BY <2>1
  <2> QED
    BY <2>1, <2>2 DEF Max
<1> QED
  BY <1>1, <1>2, <1>3

(* The sums over positions, added up from the left.                        *)
LEMMA SumFromLeft ==
  ASSUME NEW S, IsFiniteSet(S), NEW w \in [S -> Int],
         \A s \in SUBSET S : s # {} => Max(s) \in s
  PROVE  \E f \in [SUBSET S -> Int] : \A s \in SUBSET S :
             f[s] = IF s = {} THEN 0 ELSE f[s \ {Max(s)}] + w[Max(s)]
<1>2. PICK iter : Tabulates(S, w, iter)
  BY SumOfSums
<1>7. ASSUME NEW s \in SUBSET S, NEW x \in s
      PROVE  SumOf(w, s) = w[x] + SumOf(w, s \ {x})
  BY SumSplitsWithin
<1> DEFINE f == [s \in SUBSET S |-> SumOf(w, s)]
<1>3. f \in [SUBSET S -> Int]
  BY <1>2 DEF Tabulates
<1>4. ASSUME NEW s \in SUBSET S, s # {}
      PROVE  f[s] = f[s \ {Max(s)}] + w[Max(s)]
  <2>1. Max(s) \in s /\ s \ {Max(s)} \in SUBSET S
    BY <1>4
  <2>2. SumOf(w, s) = w[Max(s)] + SumOf(w, s \ {Max(s)})
    BY <1>7, <2>1
  <2>3. f[s] \in Int /\ f[s \ {Max(s)}] \in Int /\ w[Max(s)] \in Int
    BY <1>3, <2>1
  <2> QED
    BY <2>1, <2>2, <2>3
<1>5. f[{}] = 0
  BY SumOfNothing
<1> HIDE DEF f
<1>6. \A s \in SUBSET S : f[s] = IF s = {} THEN 0 ELSE f[s \ {Max(s)}] + w[Max(s)]
  BY <1>4, <1>5
<1> QED
  BY <1>3, <1>6

(* One more position adds its value.                                       *)
LEMMA SumAppends ==
  ASSUME NEW n \in Nat, NEW w \in [1 .. n + 1 -> Int], NEW v \in [1 .. n -> Int],
         \A i \in 1 .. n : v[i] = w[i]
  PROVE  SumOf(w, 1 .. n + 1) = SumOf(v, 1 .. n) + w[n + 1]
<1>1. IsFiniteSet(1 .. n) /\ IsFiniteSet(1 .. n + 1) /\ n + 1 \in 1 .. n + 1
      /\ (1 .. n + 1) \ {n + 1} = 1 .. n /\ 1 .. n \in SUBSET (1 .. n + 1)
  BY LastPosition
<1>2. SumOf(w, 1 .. n + 1) = w[n + 1] + SumOf(w, 1 .. n)
  BY <1>1, SumSplits
<1>3. SumOf(v, 1 .. n) = SumOf(w, 1 .. n) /\ SumOf(v, 1 .. n) \in Int
  BY <1>1, SumDependsOn, SumIsInt
<1> QED
  BY <1>1, <1>2, <1>3
-----------------------------------------------------------------------------

(* t has what a fold from the left has made of the first i elements: d[i]  *)
(* maps what came before the i-th to what it is with it.                   *)
Scans(n, base, d, t) == t[0] = base /\ \A i \in 1 .. n : t[i] = d[i][t[i - 1]]
ScansTo(n, base, d, t, v) == Scans(n, base, d, t) /\ t[n] = v

(* Two scans of the same elements agree.                                   *)
LEMMA ScansAgree ==
  ASSUME NEW n \in Nat, NEW base, NEW d, NEW t, NEW u, Scans(n, base, d, t), Scans(n, base, d, u)
  PROVE  \A i \in 0 .. n : t[i] = u[i]
<1> DEFINE T == {i \in Nat : i <= n => t[i] = u[i]}
<1>1. 0 \in T
  BY DEF Scans
<1>2. ASSUME NEW i \in T PROVE i + 1 \in T
  <2>1. i \in Nat /\ (i <= n => t[i] = u[i])
    OBVIOUS
  <2>2. CASE i + 1 <= n
    <3>1. i + 1 \in 1 .. n /\ (i + 1) - 1 = i /\ i <= n
      BY <2>1, <2>2
    <3>2. t[i + 1] = d[i + 1][t[i]] /\ u[i + 1] = d[i + 1][u[i]]
      BY <3>1 DEF Scans
    <3> QED
      BY <2>1, <3>1, <3>2
  <2> QED
    BY <2>1, <2>2
<1>3. T = Nat
  <2>1. T \in SUBSET Nat
    OBVIOUS
  <2> HIDE DEF T
  <2> QED
    BY <1>1, <1>2, <2>1, AllNaturals
<1> QED
  BY <1>3

(* g folds the positions, the last one outermost.                          *)
FoldsLeft(n, base, d, g) ==
    \A s \in SUBSET (1 .. n) : g[s] = IF s = {} THEN base ELSE d[Max(s)][g[s \ {Max(s)}]]

(* A fold over the positions up to n that takes the last one away has a    *)
(* value.                                                                  *)
LEMMA LeftFoldExists ==
  ASSUME NEW n \in Nat, NEW V, NEW base \in V, NEW d,
         \A i \in 1 .. n : \A v \in V : d[i][v] \in V
  PROVE  \E g \in [SUBSET (1 .. n) -> V] : FoldsLeft(n, base, d, g)
<1> DEFINE S == 1 .. n
           c == [s \in SUBSET S |-> Max(s)]
<1>1. IsFiniteSet(S) /\ \A s \in SUBSET S : s # {} => Max(s) \in s
  BY LastPosition
<1>2. \A s \in SUBSET S : s # {} => c[s] \in s
  BY <1>1
<1>3. \A s \in SUBSET S : c[s] = Max(s)
  OBVIOUS
<1> HIDE DEF c, S
<1>4. PICK g \in [SUBSET S -> V] : Folds(S, base, d, c, g)
  <2>1. \A x \in S : \A v \in V : d[x][v] \in V
    BY DEF S
  <2> QED
    BY <1>1, <1>2, <2>1, FoldExists, Zenon
<1>5. ASSUME NEW s \in SUBSET S PROVE g[s] = IF s = {} THEN base ELSE d[Max(s)][g[s \ {Max(s)}]]
  <2>1. g[s] = IF s = {} THEN base ELSE d[c[s]][g[s \ {c[s]}]]
    BY <1>4 DEF Folds
  <2> QED
    BY <1>3, <2>1
<1> QED
  BY <1>4, <1>5 DEF S, FoldsLeft

(* Such a fold scans the positions.                                        *)
LEMMA LeftFoldScans ==
  ASSUME NEW n \in Nat, NEW V, NEW base \in V, NEW d,
         \A i \in 1 .. n : \A v \in V : d[i][v] \in V,
         NEW g, g[{}] = base,
         \A s \in SUBSET (1 .. n) : s # {} /\ g[s \ {Max(s)}] \in V =>
             g[s] = d[Max(s)][g[s \ {Max(s)}]]
  PROVE  \E t \in [0 .. n -> V] : ScansTo(n, base, d, t, g[1 .. n])
<1> DEFINE T == {i \in Nat : i <= n => g[1 .. i] \in V}
<1>1. ASSUME NEW i \in Nat, i + 1 <= n, g[1 .. i] \in V
      PROVE  g[1 .. i + 1] = d[i + 1][g[1 .. i]]
  <2>1. i + 1 \in Nat /\ i + 1 > 0 /\ (i + 1) - 1 = i
    OBVIOUS
  <2>2. Max(1 .. i + 1) = i + 1 /\ (1 .. i + 1) \ {i + 1} = 1 .. i
    BY <2>1, LastPosition
  <2>3. 1 .. i + 1 \in SUBSET (1 .. n) /\ 1 .. i + 1 # {}
    <3>1. \A x \in 1 .. i + 1 : x \in 1 .. n
      BY <1>1
    <3>2. 1 \in 1 .. i + 1
      BY <1>1
    <3> QED
      BY <3>1, <3>2
  <2> QED
    BY <1>1, <2>2, <2>3
<1>2. 0 \in T
  <2>1. 1 .. 0 = {}
    OBVIOUS
  <2> QED
    BY <2>1
<1>3. ASSUME NEW i \in T PROVE i + 1 \in T
  <2>1. i \in Nat /\ (i <= n => g[1 .. i] \in V)
    OBVIOUS
  <2>2. CASE i + 1 <= n
    <3>1. i + 1 \in 1 .. n /\ g[1 .. i] \in V
      BY <2>1, <2>2
    <3>2. g[1 .. i + 1] = d[i + 1][g[1 .. i]]
      BY <1>1, <2>1, <2>2, <3>1
    <3> QED
      BY <2>1, <3>1, <3>2
  <2> QED
    BY <2>1, <2>2
<1>4. T = Nat
  <2>1. T \in SUBSET Nat
    OBVIOUS
  <2> HIDE DEF T
  <2> QED
    BY <1>2, <1>3, <2>1, AllNaturals
<1>5. \A i \in 0 .. n : g[1 .. i] \in V
  BY <1>4
<1> DEFINE t == [i \in 0 .. n |-> g[1 .. i]]
<1>6. t \in [0 .. n -> V] /\ t[n] = g[1 .. n]
  BY <1>5
<1>7. t[0] = base
  <2>1. 1 .. 0 = {}
    OBVIOUS
  <2> QED
    BY <2>1
<1>8. ASSUME NEW i \in 1 .. n PROVE t[i] = d[i][t[i - 1]]
  <2>1. i - 1 \in Nat /\ i - 1 \in 0 .. n /\ (i - 1) + 1 = i
    OBVIOUS
  <2>2. g[1 .. i] = d[i][g[1 .. i - 1]]
    BY <1>1, <1>5, <2>1
  <2> QED
    BY <2>1, <2>2
<1> QED
  BY <1>6, <1>7, <1>8 DEF Scans, ScansTo

(* There is a scan of any elements.                                        *)
LEMMA ScanExists ==
  ASSUME NEW n \in Nat, NEW V, NEW base \in V, NEW d,
         \A i \in 1 .. n : \A v \in V : d[i][v] \in V
  PROVE  \E t \in [0 .. n -> V] : Scans(n, base, d, t)
<1>1. PICK g \in [SUBSET (1 .. n) -> V] : FoldsLeft(n, base, d, g)
  BY LeftFoldExists
<1>2. g[{}] = base
  BY <1>1 DEF FoldsLeft
<1>3. \A s \in SUBSET (1 .. n) : s # {} /\ g[s \ {Max(s)}] \in V =>
             g[s] = d[Max(s)][g[s \ {Max(s)}]]
  BY <1>1 DEF FoldsLeft
<1> QED
  BY <1>2, <1>3, LeftFoldScans DEF ScansTo

(* A concatenation has in the end what it keeps from one sequence to the   *)
(* next: W[i] says what is true of the first i.                            *)
LEMMA FlattenWithin ==
  ASSUME NEW E, NEW ss \in Seq(Seq(E)), NEW W, <<>> \in W[0],
         \A i \in 1 .. Len(ss) : \A v \in Seq(E) : v \in W[i - 1] => v \o ss[i] \in W[i]
  PROVE  FlattenSeq(ss) \in Seq(E) /\ FlattenSeq(ss) \in W[Len(ss)]
<1> DEFINE n == Len(ss)
           P(f) == f = [i \in 1 .. n |-> IF i = 1 THEN ss[i] ELSE f[i - 1] \o ss[i]]
           d == [i \in 1 .. n |-> [v \in Seq(E) |-> v \o ss[i]]]
<1>1. n \in Nat /\ \A i \in 1 .. n : ss[i] \in Seq(E)
  OBVIOUS
<1>2. CASE n = 0
  <2>1. ss = <<>>
    BY <1>2
  <2>2. FlattenSeq(ss) = ss
    BY <1>2 DEF FlattenSeq
  <2>3. <<>> \in Seq(E)
    OBVIOUS
  <2>4. <<>> \in W[n]
    BY <1>2
  <2> HIDE DEF n
  <2> QED
    BY <2>1, <2>2, <2>3, <2>4, Zenon DEF n
<1>3. CASE n # 0
  <2>1. \A i \in 1 .. n : \A v \in Seq(E) : d[i][v] = v \o ss[i] /\ d[i][v] \in Seq(E)
    BY <1>1
  <2>2. <<>> \in Seq(E) /\ \A x \in Seq(E) : <<>> \o x = x
    OBVIOUS
  <2>3. PICK t \in [0 .. n -> Seq(E)] : Scans(n, <<>>, d, t)
    <3> HIDE DEF n, d
    <3> QED
      BY <1>1, <2>1, <2>2, ScanExists
  <2> DEFINE f == [i \in 1 .. n |-> t[i]]
  <2>4. P(f)
    <3>1. ASSUME NEW i \in 1 .. n PROVE f[i] = IF i = 1 THEN ss[i] ELSE f[i - 1] \o ss[i]
      <4>1. t[i] = d[i][t[i - 1]] /\ t[i - 1] \in Seq(E)
        <5> HIDE DEF d, n
        <5>1. i - 1 \in 0 .. n
          BY <1>1
        <5>2. t[i - 1] \in Seq(E)
          BY <2>3, <5>1
        <5> QED
          BY <2>3, <5>2 DEF Scans
      <4>2. t[i] = t[i - 1] \o ss[i]
        BY <2>1, <4>1
      <4>3. CASE i = 1
        <5>1. t[i - 1] = <<>>
          BY <2>3, <4>3 DEF Scans
        <5> QED
          BY <1>1, <2>2, <4>2, <4>3, <5>1
      <4>4. CASE i # 1
        <5>1. i - 1 \in 1 .. n
          BY <1>1, <4>4
        <5> QED
          BY <4>2, <4>4, <5>1
      <4> QED
        BY <4>3, <4>4
    <3> HIDE DEF f
    <3>2. f = [i \in 1 .. n |-> f[i]]
      BY DEF f
    <3> QED
      BY <3>1, <3>2
  <2>5. P(CHOOSE h : P(h))
    BY <2>4
  <2> DEFINE g == CHOOSE h : P(h)
  <2>6. \A i \in 1 .. n : g[i] = IF i = 1 THEN ss[i] ELSE g[i - 1] \o ss[i]
    BY <2>5
  <2>7. FlattenSeq(ss) = g[n]
    BY <1>3 DEF FlattenSeq
  <2> HIDE DEF g, P, n
  <2> DEFINE T == {i \in Nat : i + 1 <= n => g[i + 1] \in Seq(E) /\ g[i + 1] \in W[i + 1]}
  <2>20. ASSUME NEW i \in 1 .. n, NEW v \in Seq(E), v \in W[i - 1]
         PROVE  v \o ss[i] \in W[i]
    BY <2>20 DEF n
  <2>8. 0 \in T
    <3>1. 1 \in 1 .. n => g[1] = ss[1]
      BY <2>6
    <3>2. 0 + 1 = 1 /\ 1 - 1 = 0 /\ (0 + 1 <= n => 1 \in 1 .. n)
      BY <1>1
    <3>3. 1 \in 1 .. n => ss[1] \in Seq(E) /\ <<>> \o ss[1] = ss[1] /\ <<>> \o ss[1] \in W[1]
      BY <1>1, <2>2, <2>20, <3>2
    <3> QED
      BY <3>1, <3>2, <3>3
  <2>9. ASSUME NEW i \in T PROVE i + 1 \in T
    <3>1. i \in Nat /\ (i + 1 <= n => g[i + 1] \in Seq(E) /\ g[i + 1] \in W[i + 1])
      OBVIOUS
    <3>2. CASE i + 2 <= n
      <4>1. /\ i + 2 \in 1 .. n /\ i + 2 # 1 /\ (i + 2) - 1 = i + 1
            /\ g[i + 1] \in Seq(E) /\ g[i + 1] \in W[i + 1]
        BY <1>1, <3>1, <3>2
      <4>2. g[i + 2] = g[i + 1] \o ss[i + 2]
        BY <2>6, <4>1
      <4>3. g[i + 2] \in Seq(E)
        BY <1>1, <4>1, <4>2
      <4>4. g[i + 2] \in W[i + 2]
        <5> HIDE DEF T
        <5> QED
          BY <2>20, <4>1, <4>2
      <4>5. i + 1 \in Nat /\ (i + 1) + 1 = i + 2
        BY <3>1
      <4> HIDE DEF T
      <4> QED
        BY <4>3, <4>4, <4>5 DEF T
    <3> QED
      BY <1>1, <3>1, <3>2
  <2>10. T = Nat
    <3>1. T \in SUBSET Nat
      OBVIOUS
    <3> HIDE DEF T
    <3> QED
      BY <2>8, <2>9, <3>1, AllNaturals
  <2>11. (n - 1) + 1 <= n => g[(n - 1) + 1] \in Seq(E) /\ g[(n - 1) + 1] \in W[(n - 1) + 1]
    <3>1. n - 1 \in Nat
      BY <1>1, <1>3
    <3> QED
      BY <2>10, <3>1
  <2>12. (n - 1) + 1 = n /\ n <= n
    BY <1>1
  <2> HIDE DEF T
  <2> QED
    BY <2>7, <2>11, <2>12 DEF n
<1> QED
  BY <1>2, <1>3

(* Sequences of elements of E, concatenated, are one.                      *)
LEMMA FlattenTyped ==
  ASSUME NEW E, NEW ss \in Seq(Seq(E))
  PROVE  FlattenSeq(ss) \in Seq(E)
<1> DEFINE W == [i \in 0 .. Len(ss) |-> Seq(E)]
<1>1. <<>> \in W[0]
  OBVIOUS
<1>2. \A i \in 1 .. Len(ss) : \A v \in Seq(E) : v \in W[i - 1] => v \o ss[i] \in W[i]
  OBVIOUS
<1> HIDE DEF W
<1> QED
  BY <1>1, <1>2, FlattenWithin

(* What is made of each element of s, concatenated.                        *)
LEMMA FlattenMapped ==
  ASSUME NEW A, NEW E, NEW s \in Seq(A), NEW f \in [DOMAIN s -> Seq(E)]
  PROVE  FlattenSeq(f) \in Seq(E)
<1>1. f \in Seq(Seq(E))
  OBVIOUS
<1> QED
  BY <1>1, FlattenTyped

(* A scan has in the end what each of its steps keeps.                     *)
LEMMA ScanWithin ==
  ASSUME NEW n \in Nat, NEW base, NEW d, NEW t, Scans(n, base, d, t), NEW W, base \in W[0],
         \A i \in 1 .. n : t[i - 1] \in W[i - 1] => d[i][t[i - 1]] \in W[i]
  PROVE  \A i \in 0 .. n : t[i] \in W[i]
<1> DEFINE T == {i \in Nat : i <= n => t[i] \in W[i]}
<1>1. 0 \in T
  BY DEF Scans
<1>2. ASSUME NEW i \in T PROVE i + 1 \in T
  <2>1. i \in Nat /\ (i <= n => t[i] \in W[i])
    OBVIOUS
  <2>2. CASE i + 1 <= n
    <3>1. i + 1 \in 1 .. n /\ (i + 1) - 1 = i /\ t[i] \in W[i]
      BY <2>1, <2>2
    <3>2. t[i + 1] = d[i + 1][t[i]] /\ d[i + 1][t[i]] \in W[i + 1]
      BY <3>1 DEF Scans
    <3> QED
      BY <2>1, <3>2
  <2> QED
    BY <2>1, <2>2
<1>3. T = Nat
  <2>1. T \in SUBSET Nat
    OBVIOUS
  <2> HIDE DEF T
  <2> QED
    BY <1>1, <1>2, <2>1, AllNaturals
<1> QED
  BY <1>3

(* r is made of some of the elements of s, in their order: the j-th of r   *)
(* stands at f[j].                                                         *)
PicksAt(s, keep, r, f) ==
    /\ f \in [1 .. Len(r) -> DOMAIN s]
    /\ \A j \in 1 .. Len(r) : keep[f[j]] /\ r[j] = s[f[j]]
    /\ \A j, k \in 1 .. Len(r) : j < k => f[j] < f[k]
UpTo(i, r, f) == \A j \in 1 .. Len(r) : f[j] <= i

(* One more element, or none.                                              *)
LEMMA PickNext ==
  ASSUME NEW E, NEW s \in Seq(E), NEW keep, NEW i \in 1 .. Len(s), NEW r \in Seq(E), NEW f,
         PicksAt(s, keep, r, f), UpTo(i - 1, r, f)
  PROVE  /\ UpTo(i, r, f)
         /\ keep[i] => \E g : PicksAt(s, keep, Append(r, s[i]), g) /\ UpTo(i, Append(r, s[i]), g)
<1> DEFINE n == Len(r)
           g == [j \in 1 .. n + 1 |-> IF j = n + 1 THEN i ELSE f[j]]
           q == Append(r, s[i])
<1>1. n \in Nat /\ Len(q) = n + 1 /\ q[n + 1] = s[i] /\ \A j \in 1 .. n : q[j] = r[j]
  OBVIOUS
<1>2. \A j \in 1 .. n : f[j] \in DOMAIN s /\ f[j] \in Int /\ f[j] < i
  BY DEF PicksAt, UpTo
<1>3. g[n + 1] = i /\ \A j \in 1 .. n : g[j] = f[j]
  BY <1>1
<1>4. g \in [1 .. n + 1 -> DOMAIN s]
  BY <1>1, <1>2
<1> HIDE DEF g, q, n
<1>5. UpTo(i, r, f)
  BY <1>2 DEF UpTo, n
<1>6. ASSUME keep[i]
      PROVE  PicksAt(s, keep, q, g) /\ UpTo(i, q, g)
  <2>1. ASSUME NEW j \in 1 .. n + 1
        PROVE  keep[g[j]] /\ q[j] = s[g[j]] /\ g[j] <= i
    <3>1. CASE j = n + 1
      BY <1>1, <1>3, <1>6, <3>1
    <3>2. CASE j # n + 1
      <4>1. j \in 1 .. n
        BY <1>1, <3>2
      <4> QED
        BY <1>1, <1>2, <1>3, <4>1 DEF PicksAt, n
    <3> QED
      BY <3>1, <3>2
  <2>2. ASSUME NEW j \in 1 .. n + 1, NEW k \in 1 .. n + 1, j < k
        PROVE  g[j] < g[k]
    <3>1. j \in 1 .. n /\ g[j] = f[j] /\ f[j] < i
      BY <1>1, <1>2, <1>3, <2>2
    <3>2. CASE k = n + 1
      BY <1>3, <3>1, <3>2
    <3>3. CASE k # n + 1
      <4>1. k \in 1 .. n
        BY <1>1, <3>3
      <4> QED
        BY <1>3, <2>2, <3>1, <4>1 DEF PicksAt, n
    <3> QED
      BY <3>2, <3>3
  <2> QED
    BY <1>1, <1>4, <2>1, <2>2 DEF PicksAt, UpTo
<1> QED
  BY <1>5, <1>6 DEF q

(* What is kept of a sequence is in its order, and no more than there was. *)
LEMMA KeptInOrder ==
  ASSUME NEW E, NEW s \in Seq(E), NEW keep \in [DOMAIN s -> BOOLEAN], NEW ss,
         ss = [i \in DOMAIN s |-> IF keep[i] THEN <<s[i]>> ELSE <<>>]
  PROVE  /\ FlattenSeq(ss) \in Seq(E) /\ Len(FlattenSeq(ss)) <= Len(s)
         /\ \E f : PicksAt(s, keep, FlattenSeq(ss), f)
<1> DEFINE n == Len(s)
           W == [i \in 0 .. n |->
                    {r \in Seq(E) : Len(r) <= i /\ \E f : PicksAt(s, keep, r, f) /\ UpTo(i, r, f)}]
<1>1. n \in Nat /\ DOMAIN s = 1 .. n /\ \A i \in 1 .. n : s[i] \in E
  OBVIOUS
<1>2. ASSUME NEW i \in 1 .. n
      PROVE  ss[i] \in Seq(E) /\ (keep[i] => ss[i] = <<s[i]>>) /\ (~keep[i] => ss[i] = <<>>)
  <2>1. keep[i] => ss[i] = <<s[i]>>
    BY <1>1
  <2>2. ~keep[i] => ss[i] = <<>>
    BY <1>1
  <2>3. <<s[i]>> \in Seq(E) /\ <<>> \in Seq(E)
    BY <1>1
  <2> QED
    BY <2>1, <2>2, <2>3, Zenon
<1>3. ss \in Seq(Seq(E)) /\ Len(ss) = n
  <2>1. ss \in [1 .. n -> Seq(E)]
    <3>1. ss = [i \in 1 .. n |-> ss[i]]
      BY <1>1, Zenon
    <3> QED
      BY <1>2, <3>1
  <2> QED
    BY <1>1, <2>1
<1>4. <<>> \in W[0]
  <2> DEFINE f == [j \in 1 .. 0 |-> 0]
  <2>1. PicksAt(s, keep, <<>>, f) /\ UpTo(0, <<>>, f)
    BY DEF PicksAt, UpTo
  <2>2. <<>> \in Seq(E) /\ Len(<<>>) <= 0 /\ 0 \in 0 .. n
    BY <1>1
  <2> HIDE DEF f
  <2> QED
    BY <2>1, <2>2
<1>5. ASSUME NEW i \in 1 .. Len(ss), NEW v \in Seq(E), v \in W[i - 1]
      PROVE  v \o ss[i] \in W[i]
  <2>1. i \in 1 .. n /\ i - 1 \in 0 .. n /\ i \in 0 .. n
    BY <1>1, <1>3
  <2>2. PICK f : PicksAt(s, keep, v, f) /\ UpTo(i - 1, v, f)
    BY <1>5, <2>1
  <2>3. Len(v) <= i - 1
    BY <1>5, <2>1
  <2>4. /\ UpTo(i, v, f)
        /\ keep[i] => \E g : PicksAt(s, keep, Append(v, s[i]), g) /\ UpTo(i, Append(v, s[i]), g)
    <3>1. i \in 1 .. Len(s)
      BY <2>1
    <3> QED
      BY <2>2, <3>1, PickNext
  <2>7. ASSUME NEW q \in Seq(E), Len(q) <= i, NEW g, PicksAt(s, keep, q, g), UpTo(i, q, g)
        PROVE  q \in W[i]
    BY <2>1, <2>7
  <2>5. CASE keep[i]
    <3>1. v \o ss[i] = Append(v, s[i]) /\ Append(v, s[i]) \in Seq(E) /\ Len(Append(v, s[i])) <= i
      BY <1>1, <1>2, <2>1, <2>3, <2>5
    <3>2. PICK g : PicksAt(s, keep, Append(v, s[i]), g) /\ UpTo(i, Append(v, s[i]), g)
      BY <2>4, <2>5
    <3> HIDE DEF W
    <3> QED
      BY <2>7, <3>1, <3>2
  <2>6. CASE ~keep[i]
    <3>1. v \o ss[i] = v /\ Len(v) <= i
      BY <1>2, <2>1, <2>3, <2>6
    <3> HIDE DEF W
    <3> QED
      BY <2>2, <2>4, <2>7, <3>1
  <2> QED
    BY <2>5, <2>6
<1> HIDE DEF W
<1>6. FlattenSeq(ss) \in Seq(E) /\ FlattenSeq(ss) \in W[Len(ss)]
  BY <1>3, <1>4, <1>5, FlattenWithin
<1>7. n \in 0 .. n
  BY <1>1
<1> QED
  BY <1>3, <1>6, <1>7 DEF W
=============================================================================
