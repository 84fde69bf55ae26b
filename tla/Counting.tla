------------------------------ MODULE Counting ------------------------------
(***************************************************************************)
(* Lemmas about finite sets of numbers, induction over them, and sums      *)
(* (SumFunctionOnSet of the module Functions).  Induction is stated with   *)
(* the set of the cases that hold, instead of a predicate.                 *)
(***************************************************************************)
EXTENDS Integers, FiniteSets, Functions, FiniteSetTheorems, TLAPS

-----------------------------------------------------------------------------
(* Numbers of a set, by how many smaller ones it has. *)

Below(S, x) == {y \in S : y < x}
Rank(S, x) == Cardinality(Below(S, x))

LEMMA Ranks ==
    ASSUME NEW S, S \subseteq Nat, IsFiniteSet(S)
    PROVE  /\ \A x \in S : Rank(S, x) \in Nat /\ Rank(S, x) < Cardinality(S)
           /\ \A x, y \in S : Rank(S, x) = Rank(S, y) => x = y
<1>1. Cardinality(S) \in Nat
  BY FS_CardinalityType
<1>2. ASSUME NEW x \in S
      PROVE  IsFiniteSet(Below(S, x)) /\ Rank(S, x) \in Nat /\ Rank(S, x) < Cardinality(S)
  <2>1. IsFiniteSet(S \ {x}) /\ Cardinality(S \ {x}) = Cardinality(S) - 1
    BY FS_RemoveElement
  <2>2. Below(S, x) \in SUBSET (S \ {x})
    BY <1>2 DEF Below
  <2>3. IsFiniteSet(Below(S, x)) /\ Cardinality(Below(S, x)) <= Cardinality(S \ {x})
    BY <2>1, <2>2, FS_Subset
  <2>4. Cardinality(Below(S, x)) \in Nat
    BY <2>3, FS_CardinalityType
  <2> QED  BY <1>1, <2>1, <2>3, <2>4 DEF Rank
<1>3. ASSUME NEW x \in S, NEW y \in S, x < y PROVE Rank(S, x) < Rank(S, y)
  <2>1. x \in Nat /\ y \in Nat
    OBVIOUS
  <2>2. Below(S, x) \in SUBSET Below(S, y) /\ x \in Below(S, y) /\ x \notin Below(S, x)
    <3>1. \A z \in S : z < x => z < y
      BY <1>3, <2>1
    <3>2. Below(S, x) \subseteq Below(S, y)
      BY <3>1 DEF Below
    <3>3. x \in Below(S, y)
      BY <1>3 DEF Below
    <3>4. x \notin Below(S, x)
      <4>1. ~(x < x)
        BY <2>1
      <4> QED  BY <4>1 DEF Below
    <3> QED  BY <3>2, <3>3, <3>4
  <2>3. IsFiniteSet(Below(S, y))
    BY <1>2
  <2>4. /\ Cardinality(Below(S, x)) <= Cardinality(Below(S, y))
        /\ Cardinality(Below(S, y)) = Cardinality(Below(S, x)) => Below(S, y) = Below(S, x)
    BY <2>2, <2>3, FS_Subset
  <2>5. Rank(S, x) \in Nat /\ Rank(S, y) \in Nat
    BY <1>2
  <2>6. Cardinality(Below(S, x)) # Cardinality(Below(S, y))
    BY <2>2, <2>4
  <2> QED  BY <2>4, <2>5, <2>6 DEF Rank
<1>4. ASSUME NEW x \in S, NEW y \in S, Rank(S, x) = Rank(S, y) PROVE x = y
  <2>1. x \in Nat /\ y \in Nat /\ Rank(S, x) \in Nat
    BY <1>2
  <2>2. ~(x < y) /\ ~(y < x)
    BY <1>3, <1>4, <2>1
  <2> QED  BY <2>1, <2>2
<1> QED  BY <1>2, <1>4

LEMMA RanksInject ==
    ASSUME NEW S, S \subseteq Nat, IsFiniteSet(S), NEW F \in SUBSET S, NEW k \in Nat,
           \A x \in F : Rank(S, x) < k
    PROVE  [x \in F |-> Rank(S, x)] \in Injection(F, 0..(k - 1))
<1> DEFINE rank == [x \in F |-> Rank(S, x)]
<1>1. ASSUME NEW x \in F PROVE Rank(S, x) \in 0..(k - 1)
  <2>1. Rank(S, x) \in Nat /\ Rank(S, x) < k
    BY Ranks
  <2> QED  BY <2>1
<1>2. rank \in [F -> 0..(k - 1)]
  BY <1>1
<1>3. \A x, y \in F : Rank(S, x) = Rank(S, y) => x = y
  BY Ranks
<1>4. \A x, y \in F : rank[x] = rank[y] => x = y
  BY <1>3
<1> QED  BY <1>2, <1>4 DEF Injection, IsInjective

\* A set of numbers with an element has a least one.
LEMMA Least ==
    ASSUME NEW S, S \subseteq Nat, IsFiniteSet(S), S # {}
    PROVE  \E x \in S : \A y \in S : x <= y
<1> DEFINE n == Cardinality(S)
<1>1. n \in Nat \ {0}
  BY FS_CardinalityType, FS_EmptySet
<1>2. [x \in S |-> Rank(S, x)] \in Injection(S, 0..(n - 1))
  <2>1. \A x \in S : Rank(S, x) < n
    BY Ranks
  <2> QED  BY <1>1, <2>1, RanksInject
<1>3. IsFiniteSet(0..(n - 1)) /\ Cardinality(0..(n - 1)) = n
  <2> HIDE DEF n
  <2>1. n - 1 \in Int /\ (n - 1) - 0 + 1 = n /\ ~(0 > n - 1)
    BY <1>1
  <2> QED  BY <2>1, FS_Interval
<1>4. [x \in S |-> Rank(S, x)] \in Surjection(S, 0..(n - 1))
  BY <1>2, <1>3, FS_Injection
<1>5. 0 \in 0..(n - 1)
  BY <1>1
<1>6. PICK x \in S : Rank(S, x) = 0
  BY <1>4, <1>5 DEF Surjection
<1>7. Below(S, x) = {}
  <2>1. Below(S, x) \in SUBSET S
    BY DEF Below
  <2>2. IsFiniteSet(Below(S, x))
    BY <2>1, FS_Subset
  <2> QED  BY <1>6, <2>2, FS_EmptySet DEF Rank
<1>8. ASSUME NEW y \in S PROVE x <= y
  <2>1. x \in Nat /\ y \in Nat
    OBVIOUS
  <2> QED  BY <1>7, <2>1 DEF Below
<1> QED  BY <1>8

\* What holds of zero, and of a number's successor if it holds of the number.
LEMMA Upwards ==
    ASSUME NEW G, 0 \in G, \A k \in Nat : k \in G => k + 1 \in G
    PROVE  Nat \subseteq G
<1> SUFFICES ASSUME NEW n \in Nat, n \notin G PROVE FALSE
  OBVIOUS
<1> DEFINE bad == {k \in 0..n : k \notin G}
<1>1. bad \subseteq Nat /\ bad # {}
  OBVIOUS
<1>2. IsFiniteSet(bad)
  <2>1. IsFiniteSet(0..n) /\ bad \in SUBSET (0..n)
    BY FS_Interval
  <2> HIDE DEF bad
  <2> QED  BY <2>1, FS_Subset
<1>3. PICK k \in bad : \A m \in bad : k <= m
  <2> HIDE DEF bad
  <2> QED  BY <1>1, <1>2, Least
<1>4. k \in Nat /\ k # 0 /\ k <= n /\ k \notin G
  OBVIOUS
<1>5. k - 1 \in Nat /\ k - 1 \in 0..n /\ ~(k <= k - 1)
  BY <1>4
<1>6. k - 1 \in G
  BY <1>3, <1>5
<1>7. (k - 1) + 1 \in G
  BY <1>5, <1>6
<1> QED  BY <1>4, <1>7

\* What holds of a finite set if it holds of all its proper subsets.
LEMMA BySubsets ==
    ASSUME NEW S, IsFiniteSet(S), NEW G,
           \A T \in SUBSET S : (\A U \in SUBSET T : U # T => U \in G) => T \in G
    PROVE  S \in G
<1> DEFINE size(n) == \A T \in SUBSET S : Cardinality(T) < n => T \in G
           H == {n \in Nat : size(n)}
<1>1. \A T \in SUBSET S : IsFiniteSet(T) /\ Cardinality(T) \in Nat
  BY FS_Subset, FS_CardinalityType
<1>2. 0 \in H
  BY <1>1
<1>3. ASSUME NEW n \in Nat, n \in H PROVE n + 1 \in H
  <2>1. ASSUME NEW T \in SUBSET S, Cardinality(T) < n + 1 PROVE T \in G
    <3>1. ASSUME NEW U \in SUBSET T, U # T PROVE U \in G
      <4>1. U \in SUBSET S
        OBVIOUS
      <4>2. Cardinality(U) <= Cardinality(T) /\ Cardinality(U) # Cardinality(T)
        BY <1>1, <3>1, FS_Subset
      <4>3. Cardinality(U) < n
        <5> HIDE DEF size, H
        <5>1. Cardinality(U) \in Nat /\ Cardinality(T) \in Nat
          BY <1>1, <4>1
        <5> QED  BY <2>1, <4>2, <5>1
      <4> QED  BY <1>3, <4>1, <4>3
    <3> QED  BY <3>1
  <2> QED  BY <2>1
<1>4. Nat \subseteq H
  <2> HIDE DEF H
  <2> QED  BY <1>2, <1>3, Upwards
<1>5. Cardinality(S) + 1 \in H /\ Cardinality(S) \in Nat
  BY <1>1, <1>4
<1> QED  BY <1>5

-----------------------------------------------------------------------------
(* Sums.  A sum is the value at S of a function of the subsets of S. *)

Some(S) == CHOOSE x \in S : TRUE

SumStep(f, g, s) == IF s = {} THEN 0 ELSE f[Some(s)] + g[s \ {Some(s)}]

Sums(f, g, S) == g = [s \in SUBSET S |-> SumStep(f, g, s)]

LEMMA SumIsSums ==
    ASSUME NEW f, NEW S
    PROVE  SumFunctionOnSet(f, S) = (CHOOSE g : Sums(f, g, S))[S]
BY DEF SumFunctionOnSet, FoldFunctionOnSet, MapThenFoldSet, Sums, SumStep, Some

\* The subsets of up to k elements, and a function that sums over them.
Small(S, k) == {s \in SUBSET S : Cardinality(s) <= k}
SumsUpTo(f, g, S, k) == g = [s \in Small(S, k) |-> SumStep(f, g, s)]

LEMMA SubsetsAreFinite ==
    ASSUME NEW S, IsFiniteSet(S), NEW s \in SUBSET S
    PROVE  /\ IsFiniteSet(s) /\ Cardinality(s) \in Nat /\ Cardinality(s) <= Cardinality(S)
           /\ s # {} => /\ Some(s) \in s /\ s \ {Some(s)} \in SUBSET S
                        /\ Cardinality(s \ {Some(s)}) = Cardinality(s) - 1
<1>1. IsFiniteSet(s) /\ Cardinality(s) \in Nat /\ Cardinality(s) <= Cardinality(S)
  BY FS_Subset, FS_CardinalityType
<1>2. ASSUME s # {} PROVE Some(s) \in s
  BY <1>2 DEF Some
<1>3. ASSUME s # {} PROVE Cardinality(s \ {Some(s)}) = Cardinality(s) - 1
  BY <1>1, <1>2, <1>3, FS_RemoveElement
<1> QED  BY <1>1, <1>2, <1>3

LEMMA NextSums ==
    ASSUME NEW f, NEW S, IsFiniteSet(S), NEW k \in Nat, NEW g, SumsUpTo(f, g, S, k)
    PROVE  \E h : SumsUpTo(f, h, S, k + 1)
<1> DEFINE h == [s \in Small(S, k + 1) |-> IF s \in Small(S, k) THEN g[s] ELSE SumStep(f, g, s)]
<1>1. ASSUME NEW s \in Small(S, k + 1)
      PROVE  s # {} => s \ {Some(s)} \in Small(S, k) /\ s \ {Some(s)} \in Small(S, k + 1)
  <2>1. s \in SUBSET S /\ Cardinality(s) <= k + 1
    BY DEF Small
  <2>2. Cardinality(s) \in Nat
    BY <2>1, SubsetsAreFinite
  <2>3. ASSUME s # {}
        PROVE  s \ {Some(s)} \in SUBSET S /\ Cardinality(s \ {Some(s)}) = Cardinality(s) - 1
    BY <2>1, <2>3, SubsetsAreFinite
  <2> QED  BY <2>1, <2>2, <2>3 DEF Small
<1>2. ASSUME NEW s \in Small(S, k + 1), s \in Small(S, k) PROVE g[s] = SumStep(f, g, s)
  BY <1>2 DEF SumsUpTo
<1>3. ASSUME NEW s \in Small(S, k + 1) PROVE h[s] = SumStep(f, g, s)
  BY <1>2, <1>3
<1>4. ASSUME NEW s \in Small(S, k) PROVE s \in Small(S, k + 1)
  <2>1. s \in SUBSET S /\ Cardinality(s) <= k
    BY DEF Small
  <2>2. Cardinality(s) \in Nat
    BY <2>1, SubsetsAreFinite
  <2>3. Cardinality(s) <= k + 1
    BY <2>1, <2>2
  <2> QED  BY <2>1, <2>3 DEF Small
<1>5. ASSUME NEW s \in Small(S, k) PROVE h[s] = g[s]
  BY <1>4
<1>6. ASSUME NEW s \in Small(S, k + 1) PROVE h[s] = SumStep(f, h, s)
  <2> HIDE DEF h
  <2>1. CASE s = {}
    BY <1>3, <2>1 DEF SumStep
  <2>2. CASE s # {}
    <3>1. h[s \ {Some(s)}] = g[s \ {Some(s)}]
      BY <1>1, <1>5, <2>2
    <3> QED  BY <1>3, <2>2, <3>1 DEF SumStep
  <2> QED  BY <2>1, <2>2
<1>7. h = [s \in Small(S, k + 1) |-> h[s]]
  OBVIOUS
<1>8. h = [s \in Small(S, k + 1) |-> SumStep(f, h, s)]
  <2> HIDE DEF h
  <2> QED  BY <1>6, <1>7
<1> HIDE DEF h
<1>9. SumsUpTo(f, h, S, k + 1)
  BY <1>8 DEF SumsUpTo
<1> QED  BY <1>9

LEMMA SumsExist ==
    ASSUME NEW f, NEW S, IsFiniteSet(S)
    PROVE  \E g : Sums(f, g, S)
<1> DEFINE G == {k \in Nat : \E g : SumsUpTo(f, g, S, k)}
<1>1. 0 \in G
  <2> DEFINE g == [s \in Small(S, 0) |-> 0]
  <2>1. ASSUME NEW s \in Small(S, 0) PROVE s = {}
    <3>1. s \in SUBSET S /\ Cardinality(s) <= 0
      BY DEF Small
    <3>2. IsFiniteSet(s) /\ Cardinality(s) \in Nat
      BY <3>1, SubsetsAreFinite
    <3>3. Cardinality(s) = 0
      BY <3>1, <3>2
    <3> QED  BY <3>2, <3>3, FS_EmptySet
  <2>2. \A s \in Small(S, 0) : SumStep(f, g, s) = 0
    BY <2>1 DEF SumStep
  <2>3. SumsUpTo(f, g, S, 0)
    BY <2>2 DEF SumsUpTo
  <2> QED  BY <2>3
<1>2. ASSUME NEW k \in Nat, k \in G PROVE k + 1 \in G
  BY <1>2, NextSums
<1>3. Nat \subseteq G
  <2> HIDE DEF G
  <2> QED  BY <1>1, <1>2, Upwards
<1>4. Cardinality(S) \in Nat
  BY FS_CardinalityType
<1>5. PICK g : SumsUpTo(f, g, S, Cardinality(S))
  BY <1>3, <1>4
<1>6. Small(S, Cardinality(S)) = SUBSET S
  BY SubsetsAreFinite DEF Small
<1>7. Sums(f, g, S)
  BY <1>5, <1>6 DEF Sums, SumsUpTo
<1> QED  BY <1>7

LEMMA SumsAgree ==
    ASSUME NEW f, NEW S, IsFiniteSet(S), NEW T \in SUBSET S,
           NEW g, Sums(f, g, S), NEW h, Sums(f, h, T)
    PROVE  g[T] = h[T]
<1> DEFINE G == {s \in SUBSET T : g[s] = h[s]}
<1>1. ASSUME NEW s \in SUBSET T, \A u \in SUBSET s : u # s => u \in G PROVE s \in G
  <2>1. g[s] = SumStep(f, g, s) /\ h[s] = SumStep(f, h, s)
    BY DEF Sums
  <2>2. s # {} => g[s \ {Some(s)}] = h[s \ {Some(s)}]
    <3>1. s # {} => Some(s) \in s
      BY DEF Some
    <3>2. s # {} => s \ {Some(s)} \in SUBSET s /\ s \ {Some(s)} # s
      BY <3>1
    <3> QED  BY <1>1, <3>2
  <2> QED  BY <2>1, <2>2 DEF SumStep
<1>2. IsFiniteSet(T)
  BY FS_Subset
<1>3. T \in G
  <2> HIDE DEF G
  <2> QED  BY <1>1, <1>2, BySubsets
<1> QED  BY <1>3

\* Nothing adds up to nothing, and something to one of its elements and the rest.
LEMMA SumTakesOne ==
    ASSUME NEW f, NEW S, IsFiniteSet(S)
    PROVE  /\ S = {} => SumFunctionOnSet(f, S) = 0
           /\ S # {} => /\ Some(S) \in S
                        /\ SumFunctionOnSet(f, S)
                             = f[Some(S)] + SumFunctionOnSet(f, S \ {Some(S)})
<1> DEFINE g == CHOOSE g : Sums(f, g, S)
           T == S \ {Some(S)}
           h == CHOOSE h : Sums(f, h, T)
<1>1. T \in SUBSET S /\ IsFiniteSet(T)
  BY FS_Subset
<1>2. Sums(f, g, S)
  BY SumsExist
<1>3. Sums(f, h, T)
  BY <1>1, SumsExist
<1>4. SumFunctionOnSet(f, S) = g[S] /\ SumFunctionOnSet(f, T) = h[T]
  BY SumIsSums
<1> HIDE DEF g, h
<1>5. g[S] = SumStep(f, g, S)
  BY <1>2 DEF Sums
<1>6. g[T] = h[T]
  BY <1>1, <1>2, <1>3, SumsAgree
<1>7. S # {} => Some(S) \in S
  BY DEF Some
<1> QED  BY <1>4, <1>5, <1>6, <1>7 DEF SumStep

LEMMA SumIsInt ==
    ASSUME NEW f, NEW S, IsFiniteSet(S), \A x \in S : f[x] \in Int
    PROVE  SumFunctionOnSet(f, S) \in Int
<1> DEFINE G == {T \in SUBSET S : SumFunctionOnSet(f, T) \in Int}
<1>1. ASSUME NEW T \in SUBSET S, \A U \in SUBSET T : U # T => U \in G PROVE T \in G
  <2>1. IsFiniteSet(T)
    BY FS_Subset
  <2>2. CASE T = {}
    <3>1. SumFunctionOnSet(f, T) = 0
      BY <2>1, <2>2, SumTakesOne
    <3> QED  BY <3>1
  <2>3. CASE T # {}
    <3>1. Some(T) \in T /\ SumFunctionOnSet(f, T) = f[Some(T)] + SumFunctionOnSet(f, T \ {Some(T)})
      BY <2>1, <2>3, SumTakesOne
    <3>2. T \ {Some(T)} \in G
      <4> HIDE DEF G
      <4> QED  BY <1>1, <3>1
    <3> QED  BY <3>1, <3>2
  <2> QED  BY <2>2, <2>3
<1>2. S \in G
  <2> HIDE DEF G
  <2> QED  BY <1>1, BySubsets
<1> QED  BY <1>2

LEMMA SumIsNat ==
    ASSUME NEW f, NEW S, IsFiniteSet(S), \A x \in S : f[x] \in Nat
    PROVE  SumFunctionOnSet(f, S) \in Nat
<1> DEFINE G == {T \in SUBSET S : SumFunctionOnSet(f, T) \in Nat}
<1>1. ASSUME NEW T \in SUBSET S, \A U \in SUBSET T : U # T => U \in G PROVE T \in G
  <2>1. IsFiniteSet(T)
    BY FS_Subset
  <2>2. CASE T = {}
    <3>1. SumFunctionOnSet(f, T) = 0
      BY <2>1, <2>2, SumTakesOne
    <3> QED  BY <3>1
  <2>3. CASE T # {}
    <3>1. Some(T) \in T /\ SumFunctionOnSet(f, T) = f[Some(T)] + SumFunctionOnSet(f, T \ {Some(T)})
      BY <2>1, <2>3, SumTakesOne
    <3>2. T \ {Some(T)} \in G
      <4> HIDE DEF G
      <4> QED  BY <1>1, <3>1
    <3> QED  BY <3>1, <3>2
  <2> QED  BY <2>2, <2>3
<1>2. S \in G
  <2> HIDE DEF G
  <2> QED  BY <1>1, BySubsets
<1> QED  BY <1>2

\* It may be any of the elements.
LEMMA SumWithout ==
    ASSUME NEW f, NEW S, IsFiniteSet(S), \A x \in S : f[x] \in Int, NEW e \in S
    PROVE  SumFunctionOnSet(f, S) = f[e] + SumFunctionOnSet(f, S \ {e})
<1> DEFINE Takes(T) == \A x \in T : SumFunctionOnSet(f, T) = f[x] + SumFunctionOnSet(f, T \ {x})
           G == {T \in SUBSET S : Takes(T)}
<1>1. ASSUME NEW T \in SUBSET S, \A U \in SUBSET T : U # T => U \in G PROVE T \in G
  <2>1. IsFiniteSet(T)
    BY FS_Subset
  <2>2. SUFFICES ASSUME NEW x \in T
                 PROVE  SumFunctionOnSet(f, T) = f[x] + SumFunctionOnSet(f, T \ {x})
    OBVIOUS
  <2> DEFINE c == Some(T)
  <2>3. c \in T /\ SumFunctionOnSet(f, T) = f[c] + SumFunctionOnSet(f, T \ {c})
    BY <2>1, SumTakesOne
  <2>4. CASE x = c
    BY <2>3, <2>4
  <2>5. CASE x # c
    <3>1. T \ {c} \in G /\ T \ {x} \in G
      <4> HIDE DEF G, c
      <4> QED  BY <1>1, <2>3
    <3>2. SumFunctionOnSet(f, T \ {c}) = f[x] + SumFunctionOnSet(f, (T \ {c}) \ {x})
      BY <2>5, <3>1
    <3>3. SumFunctionOnSet(f, T \ {x}) = f[c] + SumFunctionOnSet(f, (T \ {x}) \ {c})
      BY <2>3, <2>5, <3>1
    <3>4. (T \ {c}) \ {x} = (T \ {x}) \ {c}
      OBVIOUS
    <3>5. f[x] \in Int /\ f[c] \in Int
      BY <2>3
    <3>6. SumFunctionOnSet(f, (T \ {x}) \ {c}) \in Int
      <4>1. IsFiniteSet((T \ {x}) \ {c})
        BY <2>1, FS_Subset
      <4> QED  BY <4>1, SumIsInt
    <3> HIDE DEF c, Takes, G
    <3>7. PICK r \in Int : r = SumFunctionOnSet(f, (T \ {x}) \ {c})
      BY <3>6
    <3>8. SumFunctionOnSet(f, T) = f[c] + (f[x] + r) /\ SumFunctionOnSet(f, T \ {x}) = f[c] + r
      BY <2>3, <3>2, <3>3, <3>4, <3>7
    <3> QED  BY <3>5, <3>7, <3>8
  <2> QED  BY <2>4, <2>5
<1>2. S \in G
  <2> HIDE DEF G
  <2> QED  BY <1>1, BySubsets
<1> QED  BY <1>2

\* What is counted may be renamed.
LEMMA SumRenamed ==
    ASSUME NEW f, NEW S, IsFiniteSet(S), \A x \in S : f[x] \in Int,
           NEW g, NEW m, \A x \in S : g[m[x]] = f[x],
           \A x, y \in S : m[x] = m[y] => x = y,
           NEW R, R = {m[x] : x \in S}
    PROVE  SumFunctionOnSet(g, R) = SumFunctionOnSet(f, S)
<1> DEFINE Im(T) == {m[x] : x \in T}
           G == {T \in SUBSET S : SumFunctionOnSet(g, Im(T)) = SumFunctionOnSet(f, T)}
<1>1. ASSUME NEW T \in SUBSET S, \A U \in SUBSET T : U # T => U \in G PROVE T \in G
  <2>1. IsFiniteSet(T)
    BY FS_Subset
  <2>2. IsFiniteSet(Im(T))
    <3>1. [x \in T |-> m[x]] \in Surjection(T, {m[x] : x \in T})
      BY DEF Surjection
    <3>2. IsFiniteSet({m[x] : x \in T})
      BY <2>1, <3>1, FS_Surjection
    <3> QED  BY <3>2
  <2>3. CASE T = {}
    <3>1. Im(T) = {}
      BY <2>3
    <3>2. SumFunctionOnSet(g, Im(T)) = 0
      <4> HIDE DEF Im
      <4> QED  BY <2>2, <3>1, SumTakesOne
    <3>3. SumFunctionOnSet(f, T) = 0
      BY <2>1, <2>3, SumTakesOne
    <3> QED  BY <3>2, <3>3
  <2>4. CASE T # {}
    <3> DEFINE c == Some(T)
    <3>1. c \in T /\ SumFunctionOnSet(f, T) = f[c] + SumFunctionOnSet(f, T \ {c})
      BY <2>1, <2>4, SumTakesOne
    <3>2. SumFunctionOnSet(g, Im(T \ {c})) = SumFunctionOnSet(f, T \ {c})
      <4>1. T \ {c} \in SUBSET T /\ T \ {c} # T
        BY <3>1
      <4>2. T \ {c} \in G
        <5> HIDE DEF G, c
        <5> QED  BY <1>1, <4>1
      <4> QED  BY <4>2
    <3>3. Im(T) \ {m[c]} = Im(T \ {c}) /\ m[c] \in Im(T)
      BY <3>1
    <3>4. \A y \in Im(T) : g[y] \in Int
      OBVIOUS
    <3>5. SumFunctionOnSet(g, Im(T)) = g[m[c]] + SumFunctionOnSet(g, Im(T) \ {m[c]})
      <4> HIDE DEF Im, c
      <4> QED  BY <2>2, <3>3, <3>4, SumWithout
    <3>6. g[m[c]] = f[c]
      BY <3>1
    <3> HIDE DEF Im, c
    <3>7. SumFunctionOnSet(g, Im(T)) = SumFunctionOnSet(f, T)
      BY <3>1, <3>2, <3>3, <3>5, <3>6
    <3> QED  BY <3>7
  <2> QED  BY <2>3, <2>4
<1>2. S \in G
  <2> HIDE DEF G
  <2> QED  BY <1>1, BySubsets
<1> QED  BY <1>2
=============================================================================
