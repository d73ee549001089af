------------------------------ MODULE DataTheorems -----------------------------
(***************************************************************************)
(* Lemmas about data that the proofs of several modules rest on: induction *)
(* over naturals and finite sets, sums over finite sets, and sorting.      *)
(*                                                                         *)
(* Induction is stated with a set in the place of the predicate, so that   *)
(* the provers can instantiate it.                                         *)
(***************************************************************************)
EXTENDS Integers, FiniteSetsExt, FiniteSetTheorems, WellFoundedInduction, TLAPS

(* Every set of naturals that is not empty has a least member. *)
LEMMA LeastNat ==
  ASSUME NEW S \in SUBSET Nat, S # {}
  PROVE  \E n \in S : \A m \in S : n <= m
<1>1. PICK n \in S : \A m \in S : ~(<<m, n>> \in OpToRel(<, Nat))
  BY NatLessThanWellFounded, WFMin
<1>2. \A m \in S : ~(m < n)
  BY <1>1 DEF OpToRel
<1> QED
  BY <1>2

(* A set with zero and every successor of a member holds every natural.    *)
LEMMA NatInduct ==
  ASSUME NEW Good, 0 \in Good, \A n \in Nat : n \in Good => n + 1 \in Good
  PROVE  Nat \subseteq Good
<1> DEFINE bad == Nat \ Good
<1>1. SUFFICES ASSUME bad # {} PROVE FALSE
  OBVIOUS
<1>2. PICK n \in bad : \A k \in bad : ~(<<k, n>> \in OpToRel(<, Nat))
  BY <1>1, NatLessThanWellFounded, WFMin
<1>3. n \in Nat /\ n - 1 \in Nat /\ n - 1 < n
  <2>1. n \in Nat /\ n # 0
    BY <1>2, Zenon
  <2> QED
    BY <2>1
<1>4. n - 1 \notin bad
  BY <1>2, <1>3 DEF OpToRel
<1>5. (n - 1) + 1 = n
  BY <1>3
<1> QED
  BY <1>2, <1>3, <1>4, <1>5

(* A set of subsets of S that has the empty set, and every subset of which *)
(* it has all those with one element less, has S.                          *)
LEMMA SubsetInduct ==
  ASSUME NEW S, IsFiniteSet(S), NEW Good, {} \in Good,
         \A T \in SUBSET S : T # {} /\ (\A x \in T : T \ {x} \in Good) => T \in Good
  PROVE  \A T \in SUBSET S : T \in Good
<1> DEFINE has == {n \in Nat : \A T \in SUBSET S : Cardinality(T) = n => T \in Good}
<1>0. \A T \in SUBSET S : IsFiniteSet(T) /\ Cardinality(T) \in Nat
  BY FS_Subset, FS_CardinalityType
<1>1. 0 \in has
  BY <1>0, FS_EmptySet
<1>2. ASSUME NEW n \in Nat, n \in has
      PROVE  n + 1 \in has
  <2>1. SUFFICES ASSUME NEW T \in SUBSET S, Cardinality(T) = n + 1
                 PROVE  T \in Good
    OBVIOUS
  <2>2. T # {}
    BY <2>1, FS_EmptySet
  <2>3. ASSUME NEW x \in T
        PROVE  T \ {x} \in Good
    <3>1. Cardinality(T \ {x}) = Cardinality(T) - 1 /\ T \ {x} \in SUBSET S
      BY <1>0, FS_RemoveElement
    <3>2. Cardinality(T \ {x}) = n
      BY <2>1, <3>1
    <3> QED
      BY <1>2, <3>1, <3>2
  <2> QED
    BY <2>2, <2>3
<1>3. Nat \subseteq has
  <2> HIDE DEF has
  <2> QED
    BY <1>1, <1>2, NatInduct
<1> QED
  BY <1>0, <1>3

(* The cardinality of a set that loses a member. *)
LEMMA CardRemove ==
  ASSUME NEW S, IsFiniteSet(S), NEW x \in S
  PROVE  /\ IsFiniteSet(S \ {x})
         /\ Cardinality(S) \in Nat \ {0}
         /\ Cardinality(S \ {x}) = Cardinality(S) - 1
         /\ Cardinality(S) = Cardinality(S \ {x}) + 1
<1>1. /\ IsFiniteSet(S \ {x}) /\ Cardinality(S \ {x}) = Cardinality(S) - 1
      /\ Cardinality(S) \in Nat /\ Cardinality(S \ {x}) \in Nat
  BY FS_RemoveElement, FS_CardinalityType
<1> QED
  BY <1>1

-------------------------------------------------------------------------------
(* Sums over finite sets.                                                  *)

(* The sum of f over S. *)
SumOver(f, S) == MapThenSumSet(LAMBDA i : f[i], S)

(* A table of the sums over every subset of S. *)
SumTable(f, S, g) ==
  g = [s \in SUBSET S |-> IF s = {} THEN 0
                          ELSE f[CHOOSE x \in s : TRUE] + g[s \ {CHOOSE x \in s : TRUE}]]

LEMMA SumIsTable ==
  ASSUME NEW f, NEW S
  PROVE  SumOver(f, S) = (CHOOSE g : SumTable(f, S, g))[S]
BY DEF SumOver, MapThenSumSet, MapThenFoldSet, SumTable

(* There is such a table for every finite set. *)
LEMMA SumTableExists ==
  ASSUME NEW f, NEW S, IsFiniteSet(S)
  PROVE  \E g : SumTable(f, S, g)
<1> DEFINE some(s) == CHOOSE x \in s : TRUE
           upTo(n) == {s \in SUBSET S : Cardinality(s) <= n}
           row(g, s) == IF s = {} THEN 0 ELSE f[some(s)] + g[s \ {some(s)}]
           has == {n \in Nat : \E g : \A s \in upTo(n) : g[s] = row(g, s)}
<1>0. \A s \in SUBSET S : /\ Cardinality(s) \in Nat
                          /\ Cardinality(s) = 0 => s = {}
                          /\ s # {} => /\ some(s) \in s
                                       /\ s \ {some(s)} \in SUBSET S
                                       /\ Cardinality(s \ {some(s)}) = Cardinality(s) - 1
  BY FS_Subset, FS_CardinalityType, FS_EmptySet, CardRemove
<1>1. 0 \in has
  <2> DEFINE g == [s \in SUBSET S |-> 0]
  <2>1. ASSUME NEW s \in upTo(0) PROVE s = {}
    <3>1. s \in SUBSET S /\ Cardinality(s) <= 0 /\ Cardinality(s) \in Nat
      BY <1>0
    <3>2. Cardinality(s) = 0
      BY <3>1
    <3> QED
      BY <1>0, <3>1, <3>2
  <2>2. \A s \in upTo(0) : g[s] = row(g, s)
    BY <2>1
  <2> QED
    BY <2>2
<1>2. ASSUME NEW n \in Nat, n \in has
      PROVE  n + 1 \in has
  <2>1. PICK g : \A s \in upTo(n) : g[s] = row(g, s)
    BY <1>2
  <2> DEFINE h == [s \in SUBSET S |-> IF s \in upTo(n) THEN g[s] ELSE row(g, s)]
  <2>2. ASSUME NEW s \in upTo(n + 1)
        PROVE  h[s] = row(h, s)
    <3>1. h[s] = row(g, s)
      BY <2>1
    <3>2. CASE s = {}
      BY <3>1, <3>2
    <3>3. CASE s # {}
      <4>1. s \ {some(s)} \in upTo(n)
        <5>1. Cardinality(s) <= n + 1 /\ Cardinality(s) \in Nat
              /\ Cardinality(s \ {some(s)}) = Cardinality(s) - 1
          BY <1>0, <3>3
        <5>2. Cardinality(s \ {some(s)}) <= n
          BY <5>1
        <5> QED
          BY <1>0, <3>3, <5>2
      <4>2. h[s \ {some(s)}] = g[s \ {some(s)}]
        BY <4>1
      <4> QED
        BY <3>1, <3>3, <4>2
    <3> QED
      BY <3>2, <3>3
  <2>3. \E k : \A s \in upTo(n + 1) : k[s] = row(k, s)
    <3> HIDE DEF h, upTo, row
    <3> QED
      BY <2>2
  <2>4. n + 1 \in Nat
    OBVIOUS
  <2> HIDE DEF upTo, row
  <2> QED
    BY <2>3, <2>4
<1>3. Cardinality(S) \in has
  <2>1. Nat \subseteq has
    <3> HIDE DEF has
    <3> QED
      BY <1>1, <1>2, NatInduct
  <2> QED
    BY <2>1, FS_CardinalityType
<1>4. PICK g : \A s \in upTo(Cardinality(S)) : g[s] = row(g, s)
  BY <1>3
<1>5. \A s \in SUBSET S : s \in upTo(Cardinality(S))
  BY FS_Subset
<1> DEFINE h == [s \in SUBSET S |-> g[s]]
<1>6. ASSUME NEW s \in SUBSET S PROVE h[s] = row(h, s)
  <2>1. h[s] = row(g, s)
    BY <1>4, <1>5
  <2>2. s # {} => h[s \ {some(s)}] = g[s \ {some(s)}]
    BY <1>0
  <2> QED
    BY <2>1, <2>2
<1>7. h = [s \in SUBSET S |-> row(h, s)]
  BY <1>6
<1>8. SumTable(f, S, h)
  BY <1>7 DEF SumTable
<1> QED
  BY <1>8

(* An entry of the table over S is the sum over that subset.               *)
LEMMA SumIsEntry ==
  ASSUME NEW f, NEW S, IsFiniteSet(S), NEW g, SumTable(f, S, g), NEW T \in SUBSET S
  PROVE  SumOver(f, T) = g[T]
<1> DEFINE some(s) == CHOOSE x \in s : TRUE
           has(h) == {s \in SUBSET T : h[s] = g[s]}
<1>1. IsFiniteSet(T) /\ T \in SUBSET T
  BY FS_Subset
<1>2. PICK h : SumTable(f, T, h) /\ SumOver(f, T) = h[T]
  BY <1>1, SumTableExists, SumIsTable
<1>3. {} \in has(h)
  BY <1>2 DEF SumTable
<1>4. ASSUME NEW s \in SUBSET T, s # {}, \A x \in s : s \ {x} \in has(h)
      PROVE  s \in has(h)
  <2>1. some(s) \in s
    BY <1>4
  <2>2. h[s \ {some(s)}] = g[s \ {some(s)}]
    BY <1>4, <2>1
  <2>3. h[s] = f[some(s)] + h[s \ {some(s)}] /\ g[s] = f[some(s)] + g[s \ {some(s)}]
    BY <1>2, <1>4 DEF SumTable
  <2> QED
    BY <2>2, <2>3
<1>5. T \in has(h)
  <2> HIDE DEF has
  <2> QED
    BY <1>1, <1>3, <1>4, SubsetInduct
<1> QED
  BY <1>2, <1>5

(* The sum over nothing; over a set, some member's value and the rest.     *)
LEMMA SumEmpty ==
  ASSUME NEW f
  PROVE  SumOver(f, {}) = 0
<1>1. PICK g : SumTable(f, {}, g)
  BY SumTableExists, FS_EmptySet
<1>2. SumOver(f, {}) = g[{}]
  BY <1>1, SumIsEntry, FS_EmptySet
<1>3. g[{}] = 0
  BY <1>1 DEF SumTable
<1> QED
  BY <1>2, <1>3

LEMMA SumSome ==
  ASSUME NEW f, NEW S, IsFiniteSet(S), S # {}
  PROVE  \E x \in S : SumOver(f, S) = f[x] + SumOver(f, S \ {x})
<1>1. PICK g : SumTable(f, S, g)
  BY SumTableExists
<1>2. SumOver(f, S) = g[S] /\ \A x \in S : SumOver(f, S \ {x}) = g[S \ {x}]
  BY <1>1, SumIsEntry
<1> QED
  BY <1>1, <1>2 DEF SumTable

(* A sum of integers is one, and does not depend on the order.             *)
LEMMA SumInt ==
  ASSUME NEW f, NEW S, IsFiniteSet(S), \A x \in S : f[x] \in Int
  PROVE  SumOver(f, S) \in Int
<1> DEFINE has == {T \in SUBSET S : SumOver(f, T) \in Int}
<1>1. {} \in has
  BY SumEmpty
<1>2. ASSUME NEW T \in SUBSET S, T # {}, \A x \in T : T \ {x} \in has
      PROVE  T \in has
  <2>1. PICK x \in T : SumOver(f, T) = f[x] + SumOver(f, T \ {x})
    BY <1>2, SumSome, FS_Subset
  <2> QED
    BY <1>2, <2>1
<1> QED
  <2> HIDE DEF has
  <2>1. \A T \in SUBSET S : T \in has
    BY <1>1, <1>2, SubsetInduct
  <2> QED
    BY <2>1 DEF has

LEMMA SumRemove ==
  ASSUME NEW f, NEW S, IsFiniteSet(S), \A x \in S : f[x] \in Int, NEW a \in S
  PROVE  SumOver(f, S) = f[a] + SumOver(f, S \ {a})
<1> DEFINE has == {T \in SUBSET S : \A x \in T : SumOver(f, T) = f[x] + SumOver(f, T \ {x})}
<1>0. \A T \in SUBSET S : IsFiniteSet(T) /\ SumOver(f, T) \in Int
  BY FS_Subset, SumInt
<1>1. {} \in has
  OBVIOUS
<1>2. ASSUME NEW T \in SUBSET S, T # {}, \A x \in T : T \ {x} \in has
      PROVE  T \in has
  <2>1. PICK c \in T : SumOver(f, T) = f[c] + SumOver(f, T \ {c})
    BY <1>0, <1>2, SumSome
  <2>2. ASSUME NEW x \in T, x # c
        PROVE  SumOver(f, T) = f[x] + SumOver(f, T \ {x})
    <3>1. SumOver(f, T \ {c}) = f[x] + SumOver(f, (T \ {c}) \ {x})
      BY <1>2, <2>2
    <3>2. SumOver(f, T \ {x}) = f[c] + SumOver(f, (T \ {x}) \ {c})
      BY <1>2, <2>2
    <3>3. (T \ {c}) \ {x} = (T \ {x}) \ {c}
      OBVIOUS
    <3>4. SumOver(f, (T \ {c}) \ {x}) \in Int /\ f[x] \in Int /\ f[c] \in Int
      BY <1>0
    <3>5. \A r \in Int : f[c] + (f[x] + r) = f[x] + (f[c] + r)
      BY <3>4
    <3> QED
      BY <2>1, <3>1, <3>2, <3>3, <3>4, <3>5, Zenon
  <2> QED
    BY <2>1, <2>2
<1> QED
  <2> HIDE DEF has
  <2>1. \A T \in SUBSET S : T \in has
    BY <1>1, <1>2, SubsetInduct
  <2> QED
    BY <2>1 DEF has

(* Comparing sums: by members, over disjoint parts, and after a change.    *)

LEMMA SumPlus ==
  ASSUME NEW S, IsFiniteSet(S), NEW f, NEW g, NEW h,
         \A x \in S : f[x] \in Int /\ g[x] \in Int /\ h[x] = f[x] + g[x]
  PROVE  SumOver(h, S) = SumOver(f, S) + SumOver(g, S)
<1> DEFINE has == {T \in SUBSET S : SumOver(h, T) = SumOver(f, T) + SumOver(g, T)}
<1>0. \A T \in SUBSET S : IsFiniteSet(T)
  BY FS_Subset
<1>1. {} \in has
  BY SumEmpty
<1>2. ASSUME NEW T \in SUBSET S, T # {}, \A x \in T : T \ {x} \in has
      PROVE  T \in has
  <2>1. PICK x \in T : TRUE
    BY <1>2
  <2>2. /\ SumOver(f, T) = f[x] + SumOver(f, T \ {x}) /\ SumOver(f, T \ {x}) \in Int
        /\ SumOver(g, T) = g[x] + SumOver(g, T \ {x}) /\ SumOver(g, T \ {x}) \in Int
        /\ SumOver(h, T) = h[x] + SumOver(h, T \ {x})
    BY <1>0, SumRemove, SumInt
  <2>3. SumOver(h, T \ {x}) = SumOver(f, T \ {x}) + SumOver(g, T \ {x})
    BY <1>2
  <2>4. \A m, n \in Int : (f[x] + g[x]) + (m + n) = (f[x] + m) + (g[x] + n)
    OBVIOUS
  <2> QED
    BY <2>2, <2>3, <2>4, Zenon
<1> QED
  <2> HIDE DEF has
  <2>1. \A T \in SUBSET S : T \in has
    BY <1>1, <1>2, SubsetInduct
  <2> QED
    BY <2>1 DEF has

LEMMA SumLeq ==
  ASSUME NEW S, IsFiniteSet(S), NEW f, NEW g,
         \A x \in S : f[x] \in Int /\ g[x] \in Int /\ f[x] <= g[x]
  PROVE  SumOver(f, S) <= SumOver(g, S)
<1> DEFINE has == {T \in SUBSET S : SumOver(f, T) <= SumOver(g, T)}
<1>0. \A T \in SUBSET S : IsFiniteSet(T)
  BY FS_Subset
<1>1. {} \in has
  BY SumEmpty
<1>2. ASSUME NEW T \in SUBSET S, T # {}, \A x \in T : T \ {x} \in has
      PROVE  T \in has
  <2>1. PICK x \in T : TRUE
    BY <1>2
  <2>2. /\ SumOver(f, T) = f[x] + SumOver(f, T \ {x}) /\ SumOver(f, T \ {x}) \in Int
        /\ SumOver(g, T) = g[x] + SumOver(g, T \ {x}) /\ SumOver(g, T \ {x}) \in Int
    BY <1>0, SumRemove, SumInt
  <2>3. SumOver(f, T \ {x}) <= SumOver(g, T \ {x})
    BY <1>2
  <2>4. \A m, n \in Int : m <= n => f[x] + m <= g[x] + n
    OBVIOUS
  <2> QED
    BY <2>2, <2>3, <2>4, Zenon
<1> QED
  <2> HIDE DEF has
  <2>1. \A T \in SUBSET S : T \in has
    BY <1>1, <1>2, SubsetInduct
  <2> QED
    BY <2>1 DEF has

LEMMA SumSame ==
  ASSUME NEW S, IsFiniteSet(S), NEW f, NEW g,
         \A x \in S : f[x] \in Int /\ f[x] = g[x]
  PROVE  SumOver(f, S) = SumOver(g, S)
<1>1. SumOver(f, S) <= SumOver(g, S) /\ SumOver(g, S) <= SumOver(f, S)
  BY SumLeq
<1>2. SumOver(f, S) \in Int /\ SumOver(g, S) \in Int
  BY SumInt
<1> QED
  BY <1>1, <1>2

LEMMA SumConstant ==
  ASSUME NEW S, IsFiniteSet(S), NEW c \in Int, NEW f, \A x \in S : f[x] = c
  PROVE  SumOver(f, S) = c * Cardinality(S)
<1> DEFINE has == {T \in SUBSET S : SumOver(f, T) = c * Cardinality(T)}
<1>0. \A T \in SUBSET S : IsFiniteSet(T)
  BY FS_Subset
<1>1. {} \in has
  BY SumEmpty, FS_EmptySet
<1>2. ASSUME NEW T \in SUBSET S, T # {}, \A x \in T : T \ {x} \in has
      PROVE  T \in has
  <2>1. PICK x \in T : TRUE
    BY <1>2
  <2>2. SumOver(f, T) = c + SumOver(f, T \ {x})
    BY <1>0, SumRemove
  <2>3. SumOver(f, T \ {x}) = c * Cardinality(T \ {x})
    BY <1>2
  <2>4. Cardinality(T) = Cardinality(T \ {x}) + 1 /\ Cardinality(T \ {x}) \in Nat
    BY <1>0, CardRemove, FS_CardinalityType
  <2>5. \A k \in Nat : c + c * k = c * (k + 1)
    OBVIOUS
  <2> QED
    BY <2>2, <2>3, <2>4, <2>5, Zenon
<1> QED
  <2> HIDE DEF has
  <2>1. \A T \in SUBSET S : T \in has
    BY <1>1, <1>2, SubsetInduct
  <2> QED
    BY <2>1 DEF has

LEMMA SumAtMost ==
  ASSUME NEW S, IsFiniteSet(S), NEW f, NEW c \in Int,
         \A x \in S : f[x] \in Int /\ f[x] <= c
  PROVE  SumOver(f, S) <= c * Cardinality(S)
<1> DEFINE g == [x \in S |-> c]
<1>1. SumOver(g, S) = c * Cardinality(S)
  BY SumConstant
<1>2. SumOver(f, S) <= SumOver(g, S)
  BY SumLeq
<1> QED
  BY <1>1, <1>2

LEMMA SumAtLeast ==
  ASSUME NEW S, IsFiniteSet(S), NEW f, NEW c \in Int,
         \A x \in S : f[x] \in Int /\ c <= f[x]
  PROVE  c * Cardinality(S) <= SumOver(f, S)
<1> DEFINE g == [x \in S |-> c]
<1>1. SumOver(g, S) = c * Cardinality(S)
  BY SumConstant
<1>2. SumOver(g, S) <= SumOver(f, S)
  BY SumLeq
<1> QED
  BY <1>1, <1>2

LEMMA SumNat ==
  ASSUME NEW S, IsFiniteSet(S), NEW f, \A x \in S : f[x] \in Nat
  PROVE  SumOver(f, S) \in Nat
<1>1. \A x \in S : f[x] \in Int /\ 0 <= f[x]
  OBVIOUS
<1>2. 0 * Cardinality(S) <= SumOver(f, S) /\ SumOver(f, S) \in Int
  BY <1>1, SumAtLeast, SumInt
<1> QED
  BY <1>2, FS_CardinalityType

LEMMA SumUnion ==
  ASSUME NEW S, IsFiniteSet(S), NEW T, IsFiniteSet(T), S \cap T = {},
         NEW f, \A x \in S \cup T : f[x] \in Int
  PROVE  SumOver(f, S \cup T) = SumOver(f, S) + SumOver(f, T)
<1> DEFINE has == {U \in SUBSET T : SumOver(f, S \cup U) = SumOver(f, S) + SumOver(f, U)}
<1>0. \A U \in SUBSET T : /\ IsFiniteSet(U) /\ IsFiniteSet(S \cup U)
                          /\ \A x \in S \cup U : f[x] \in Int
  BY FS_Subset, FS_Union
<1>1. {} \in has
  <2>1. S \cup {} = S /\ SumOver(f, S) \in Int
    BY SumInt
  <2>2. SumOver(f, S) + 0 = SumOver(f, S)
    BY <2>1
  <2> QED
    BY <2>1, <2>2, SumEmpty, Zenon
<1>2. ASSUME NEW U \in SUBSET T, U # {}, \A x \in U : U \ {x} \in has
      PROVE  U \in has
  <2>1. PICK x \in U : TRUE
    BY <1>2
  <2>2. SumOver(f, U) = f[x] + SumOver(f, U \ {x}) /\ SumOver(f, U \ {x}) \in Int
    <3>1. IsFiniteSet(U) /\ IsFiniteSet(U \ {x}) /\ \A y \in U : f[y] \in Int
      BY <1>0, FS_Subset
    <3> QED
      BY <3>1, SumRemove, SumInt
  <2>3. (S \cup U) \ {x} = S \cup (U \ {x})
    BY <2>1
  <2>4. SumOver(f, S \cup U) = f[x] + SumOver(f, S \cup (U \ {x}))
    BY <1>0, <2>3, SumRemove
  <2>5. SumOver(f, S \cup (U \ {x})) = SumOver(f, S) + SumOver(f, U \ {x})
    BY <1>2
  <2>6. SumOver(f, S) \in Int /\ f[x] \in Int
    BY SumInt
  <2>7. \A m, n \in Int : f[x] + (m + n) = m + (f[x] + n)
    BY <2>6
  <2> QED
    BY <2>2, <2>4, <2>5, <2>6, <2>7, Zenon
<1> QED
  <2> HIDE DEF has
  <2>1. \A U \in SUBSET T : U \in has
    BY <1>1, <1>2, SubsetInduct
  <2> QED
    BY <2>1 DEF has

LEMMA SumChange ==
  ASSUME NEW S, IsFiniteSet(S), NEW a \in S, NEW f, NEW g,
         \A x \in S : f[x] \in Int /\ g[x] \in Int /\ (x # a => g[x] = f[x])
  PROVE  SumOver(g, S) = SumOver(f, S) - f[a] + g[a]
<1>1. /\ SumOver(f, S) = f[a] + SumOver(f, S \ {a})
      /\ SumOver(g, S) = g[a] + SumOver(g, S \ {a})
  BY SumRemove
<1>2. SumOver(g, S \ {a}) = SumOver(f, S \ {a}) /\ SumOver(f, S \ {a}) \in Int
  BY CardRemove, SumSame, SumInt
<1> QED
  BY <1>1, <1>2

(* A positive sum has a positive member. *)
LEMMA SumPositive ==
  ASSUME NEW S, IsFiniteSet(S), NEW f, \A x \in S : f[x] \in Int, SumOver(f, S) > 0
  PROVE  \E x \in S : f[x] > 0
<1>1. SUFFICES ASSUME \A x \in S : ~(f[x] > 0) PROVE FALSE
  OBVIOUS
<1>2. SumOver(f, S) <= 0 * Cardinality(S)
  BY <1>1, SumAtMost
<1> QED
  BY <1>2, SumInt, FS_CardinalityType

(* Nowhere above and equal in sum is equal everywhere. *)
LEMMA SumTight ==
  ASSUME NEW S, IsFiniteSet(S), NEW f, NEW g,
         \A x \in S : f[x] \in Int /\ g[x] \in Int /\ f[x] <= g[x],
         SumOver(f, S) = SumOver(g, S)
  PROVE  \A x \in S : f[x] = g[x]
<1> TAKE x \in S
<1>1. /\ SumOver(f, S) = f[x] + SumOver(f, S \ {x})
      /\ SumOver(g, S) = g[x] + SumOver(g, S \ {x})
  BY SumRemove
<1>2. /\ SumOver(f, S \ {x}) <= SumOver(g, S \ {x})
      /\ SumOver(f, S \ {x}) \in Int /\ SumOver(g, S \ {x}) \in Int
  BY CardRemove, SumLeq, SumInt
<1>3. f[x] \in Int /\ g[x] \in Int /\ f[x] <= g[x]
  OBVIOUS
<1>4. \A a, b, m, n \in Int : a <= b /\ m <= n /\ a + m = b + n => a = b
  OBVIOUS
<1> QED
  BY <1>1, <1>2, <1>3, <1>4, Zenon

-------------------------------------------------------------------------------
(* Orders of finite sets.  An order is a set of pairs.                     *)

IsStrictOrder(rel, S) ==
  /\ \A x \in S : <<x, x>> \notin rel
  /\ \A x, y \in S : x = y \/ <<x, y>> \in rel \/ <<y, x>> \in rel
  /\ \A x, y, z \in S : <<x, y>> \in rel /\ <<y, z>> \in rel => <<x, z>> \in rel

(* A finite set that is not empty has a last element. *)
LEMMA LastOfOrder ==
  ASSUME NEW S, IsFiniteSet(S), S # {}, NEW rel, IsStrictOrder(rel, S)
  PROVE  \E x \in S : \A y \in S : y = x \/ <<y, x>> \in rel
<1> DEFINE has == {T \in SUBSET S : T = {} \/ \E x \in T : \A y \in T : y = x \/ <<y, x>> \in rel}
<1>1. {} \in has
  OBVIOUS
<1>2. ASSUME NEW T \in SUBSET S, T # {}, \A x \in T : T \ {x} \in has
      PROVE  T \in has
  <2>1. PICK a \in T : TRUE
    BY <1>2
  <2>2. CASE T \ {a} = {}
    BY <2>1, <2>2
  <2>3. CASE T \ {a} # {}
    <3>1. PICK b \in T \ {a} : \A y \in T \ {a} : y = b \/ <<y, b>> \in rel
      BY <1>2, <2>1, <2>3
    <3>2. CASE <<a, b>> \in rel
      <4>1. \A y \in T : y = b \/ <<y, b>> \in rel
        BY <3>1, <3>2
      <4> QED
        BY <3>1, <4>1
    <3>3. CASE <<b, a>> \in rel
      <4>1. \A y \in T : y = a \/ <<y, a>> \in rel
        BY <2>1, <3>1, <3>3 DEF IsStrictOrder
      <4> QED
        BY <2>1, <4>1
    <3> QED
      BY <2>1, <3>1, <3>2, <3>3 DEF IsStrictOrder
  <2> QED
    BY <2>2, <2>3
<1>3. S \in has
  <2> HIDE DEF has
  <2> QED
    BY <1>1, <1>2, SubsetInduct
<1> QED
  BY <1>3

(* A finite set can be sorted. *)
LEMMA SortExists ==
  ASSUME NEW S, IsFiniteSet(S), NEW rel, IsStrictOrder(rel, S)
  PROVE  \E s \in [1..Cardinality(S) -> S] :
           \A m, n \in 1..Cardinality(S) : m < n => <<s[m], s[n]>> \in rel
<1> DEFINE has == {T \in SUBSET S :
                     \E s \in [1..Cardinality(T) -> T] :
                       \A m, n \in 1..Cardinality(T) : m < n => <<s[m], s[n]>> \in rel}
<1>1. {} \in has
  <2>1. Cardinality({}) = 0
    BY FS_EmptySet
  <2>2. [i \in 1..0 |-> i] \in [1..0 -> {}] /\ \A m \in 1..0 : FALSE
    OBVIOUS
  <2> QED
    BY <2>1, <2>2
<1>2. ASSUME NEW T \in SUBSET S, T # {}, \A x \in T : T \ {x} \in has
      PROVE  T \in has
  <2>1. IsFiniteSet(T) /\ IsStrictOrder(rel, T)
    BY FS_Subset DEF IsStrictOrder
  <2>2. PICK x \in T : \A y \in T : y = x \/ <<y, x>> \in rel
    BY <1>2, <2>1, LastOfOrder
  <2> DEFINE c == Cardinality(T \ {x})
  <2>3. c \in Nat /\ Cardinality(T) = c + 1
    BY <2>1, CardRemove, FS_CardinalityType
  <2>4. PICK s \in [1..c -> T \ {x}] : \A m, n \in 1..c : m < n => <<s[m], s[n]>> \in rel
    BY <1>2
  <2> DEFINE r == [i \in 1..(c + 1) |-> IF i = c + 1 THEN x ELSE s[i]]
  <2> HIDE DEF c
  <2>5. \A i \in 1..(c + 1) : i = c + 1 \/ i \in 1..c
    BY <2>3
  <2>6. r \in [1..(c + 1) -> T]
    BY <2>4, <2>5
  <2>7. ASSUME NEW m \in 1..(c + 1), NEW n \in 1..(c + 1), m < n
        PROVE  <<r[m], r[n]>> \in rel
    <3>1. m \in 1..c /\ r[m] = s[m]
      BY <2>3, <2>7
    <3>2. CASE n = c + 1
      <4>1. s[m] \in T /\ s[m] # x
        BY <2>4, <3>1
      <4> QED
        BY <2>2, <3>1, <3>2, <4>1
    <3>3. CASE n \in 1..c
      <4>1. r[n] = s[n]
        BY <2>3, <3>3
      <4> QED
        BY <2>4, <2>7, <3>1, <3>3, <4>1
    <3> QED
      BY <2>5, <3>2, <3>3
  <2> HIDE DEF r
  <2> QED
    BY <2>3, <2>6, <2>7
<1>3. S \in has
  <2> HIDE DEF has
  <2> QED
    BY <1>1, <1>2, SubsetInduct
<1> QED
  BY <1>3

===============================================================================
