------------------------ MODULE ConservationProofs ------------------------
(***************************************************************************)
(* Sums that no order of calls disturbs.                                   *)
(*                                                                         *)
(* The smooth weighted round robin with any number of tasks and any        *)
(* weights: how far the current weights can go, however the kernel adds,   *)
(* removes, puts to sleep and wakes tasks between the choices of GetNext.  *)
(*                                                                         *)
(* The heap of any program that makes and deletes objects of the FreeRTOS  *)
(* and CMSIS interfaces: its regions are those of the objects and those    *)
(* of the constructors under way.                                          *)
(***************************************************************************)
EXTENDS Interop, LinkedListProofs

-----------------------------------------------------------------------------
(* Sums *)

(* The sum of f over S, as the model writes it *)
SumOf(f, S) == MapThenSumSet(LAMBDA k : f[k], S)

First(s) == CHOOSE x \in s : TRUE

(* g has the sums of f over the subsets of S with up to n elements *)
Below(S, n) == {s \in SUBSET S : Cardinality(s) <= n}

Sums(f, D, g) ==
    g = [s \in D |-> IF s = {} THEN 0 ELSE f[First(s)] + g[s \ {First(s)}]]

AllSums(f, S, g) == Sums(f, SUBSET S, g)

(* A set of subsets of a finite set that has the empty set, and with a set the sets
   of one element more, has all subsets *)
LEMMA SetInduction ==
    ASSUME NEW S, IsFiniteSet(S), NEW G, {} \in G,
           \A T \in SUBSET S, x \in S : T \in G /\ x \notin T => T \cup {x} \in G
    PROVE  SUBSET S \subseteq G
<1> DEFINE Bad == {T \in SUBSET S : T \notin G}
           Sizes == {Cardinality(T) : T \in Bad}
<1> SUFFICES ASSUME Bad # {} PROVE FALSE
  OBVIOUS
<1>1. \A T \in SUBSET S : IsFiniteSet(T) /\ Cardinality(T) \in Nat
  BY FS_Subset, FS_CardinalityType
<1>2. Sizes \subseteq Nat /\ Sizes # {}
  BY <1>1
<1>3. PICK n \in Sizes : \A m \in Sizes : n <= m
  BY <1>2, LeastLemma
<1>4. PICK T \in Bad : Cardinality(T) = n
  BY <1>3
<1>5. PICK x : x \in T
  BY <1>4
<1>6. T \ {x} \in SUBSET S /\ Cardinality(T \ {x}) = Cardinality(T) - 1
  BY <1>1, <1>4, <1>5, FS_RemoveElement
<1>7. T \ {x} \in G
  <2>1. SUFFICES ASSUME T \ {x} \in Bad PROVE FALSE
    BY <1>6
  <2>2. Cardinality(T \ {x}) \in Sizes
    BY <2>1
  <2>3. n <= n - 1 /\ n \in Nat
    BY <1>2, <1>3, <1>4, <1>6, <2>2
  <2> QED
    BY <2>3
<1>8. (T \ {x}) \cup {x} = T /\ x \in S
  BY <1>4, <1>5
<1> QED
  BY <1>4, <1>6, <1>7, <1>8

LEMMA FirstLemma ==
    ASSUME NEW s, s # {}
    PROVE  First(s) \in s
BY DEF First

LEMMA SumsExist ==
    ASSUME NEW S, IsFiniteSet(S), NEW f
    PROVE  \E g : AllSums(f, S, g)
<1> DEFINE Bad == {n \in Nat : ~ \E g : Sums(f, Below(S, n), g)}
<1>1. \A T \in SUBSET S : IsFiniteSet(T) /\ Cardinality(T) \in Nat
                          /\ Cardinality(T) <= Cardinality(S)
  BY FS_Subset, FS_CardinalityType
<1>2. Below(S, Cardinality(S)) = SUBSET S
  BY <1>1 DEF Below
<1>3. Bad = {}
  <2> SUFFICES ASSUME Bad # {} PROVE FALSE
    OBVIOUS
  <2>1. PICK n \in Bad : \A m \in Bad : n <= m
    BY LeastLemma
  <2>2. n # 0
    <3> DEFINE g == [s \in Below(S, 0) |-> 0]
    <3>1. \A s \in Below(S, 0) : s = {}
      BY <1>1, FS_EmptySet DEF Below
    <3>2. g = [s \in Below(S, 0) |-> IF s = {} THEN 0 ELSE f[First(s)] + g[s \ {First(s)}]]
      BY <3>1
    <3>3. Sums(f, Below(S, 0), g)
      BY <3>2 DEF Sums
    <3> QED
      BY <3>3
  <2>3. n - 1 \in Nat /\ n - 1 \notin Bad
    BY <2>1, <2>2
  <2>4. PICK g : Sums(f, Below(S, n - 1), g)
    BY <2>3
  <2> DEFINE h == [s \in Below(S, n) |-> IF s = {} THEN 0 ELSE f[First(s)] + g[s \ {First(s)}]]
  <2>5. \A s \in Below(S, n) : s # {} => s \ {First(s)} \in Below(S, n - 1)
    <3> SUFFICES ASSUME NEW s \in Below(S, n), s # {} PROVE s \ {First(s)} \in Below(S, n - 1)
      OBVIOUS
    <3>1. First(s) \in s /\ s \in SUBSET S /\ Cardinality(s) <= n
      BY FirstLemma DEF Below
    <3>2. Cardinality(s \ {First(s)}) = Cardinality(s) - 1
      BY <1>1, <3>1, FS_RemoveElement
    <3> QED
      BY <1>1, <2>1, <3>1, <3>2 DEF Below
  <2>6. \A s \in Below(S, n - 1) : s \in Below(S, n) /\ h[s] = g[s]
    <3> SUFFICES ASSUME NEW s \in Below(S, n - 1) PROVE s \in Below(S, n) /\ h[s] = g[s]
      OBVIOUS
    <3>1. s \in Below(S, n)
      BY <1>1, <2>1, <2>3 DEF Below
    <3>2. g[s] = IF s = {} THEN 0 ELSE f[First(s)] + g[s \ {First(s)}]
      BY <2>4 DEF Sums
    <3> QED
      BY <3>1, <3>2
  <2>7. h = [s \in Below(S, n) |-> IF s = {} THEN 0 ELSE f[First(s)] + h[s \ {First(s)}]]
    BY <2>5, <2>6
  <2> HIDE DEF h
  <2>8. Sums(f, Below(S, n), h)
    BY <2>7 DEF Sums
  <2> QED
    BY <2>1, <2>8
<1>4. Cardinality(S) \in Nat
  BY FS_CardinalityType
<1>5. \E g : Sums(f, Below(S, Cardinality(S)), g)
  BY <1>3, <1>4
<1> QED
  BY <1>2, <1>5 DEF AllSums

LEMMA SumDef ==
    ASSUME NEW f, NEW S
    PROVE  SumOf(f, S) = (CHOOSE g : AllSums(f, S, g))[S]
BY DEF SumOf, AllSums, Sums, First, MapThenSumSet, MapThenFoldSet

(* The sums over subsets do not depend on the set they are subsets of *)
LEMMA SumsAgree ==
    ASSUME NEW S, IsFiniteSet(S), NEW f, NEW g, AllSums(f, S, g), NEW T \in SUBSET S
    PROVE  g[T] = SumOf(f, T)
<1> DEFINE h == CHOOSE h : AllSums(f, T, h)
<1>1. IsFiniteSet(T)
  BY FS_Subset
<1>2. AllSums(f, T, h)
  BY <1>1, SumsExist
<1>3. SumOf(f, T) = h[T]
  BY SumDef
<1> HIDE DEF h
<1> DEFINE Bad == {s \in SUBSET T : g[s] # h[s]}
           Sizes == {Cardinality(s) : s \in Bad}
<1>4. Bad = {}
  <2> SUFFICES ASSUME Bad # {} PROVE FALSE
    OBVIOUS
  <2>1. \A s \in SUBSET T : IsFiniteSet(s) /\ Cardinality(s) \in Nat
    BY <1>1, FS_Subset, FS_CardinalityType
  <2>2. Sizes \subseteq Nat /\ Sizes # {}
    BY <2>1
  <2>3. PICK n \in Sizes : \A m \in Sizes : n <= m
    BY <2>2, LeastLemma
  <2>4. PICK s \in Bad : Cardinality(s) = n
    BY <2>3
  <2>5. /\ g[s] = IF s = {} THEN 0 ELSE f[First(s)] + g[s \ {First(s)}]
        /\ h[s] = IF s = {} THEN 0 ELSE f[First(s)] + h[s \ {First(s)}]
    BY <1>2, <2>4 DEF AllSums, Sums
  <2>6. s # {}
    BY <2>4, <2>5
  <2>7. First(s) \in s /\ s \ {First(s)} \in SUBSET T
    BY <2>4, <2>6, FirstLemma
  <2>8. Cardinality(s \ {First(s)}) = Cardinality(s) - 1
    BY <2>1, <2>4, <2>7, FS_RemoveElement
  <2>9. s \ {First(s)} \notin Bad
    BY <2>1, <2>2, <2>3, <2>4, <2>7, <2>8
  <2> QED
    BY <2>4, <2>5, <2>6, <2>7, <2>9
<1> QED
  BY <1>3, <1>4

LEMMA SumEmpty == ASSUME NEW f PROVE SumOf(f, {}) = 0
<1>1. PICK g : AllSums(f, {}, g)
  BY SumsExist, FS_EmptySet
<1>2. g[{}] = 0
  BY <1>1 DEF AllSums, Sums
<1> QED
  BY <1>1, <1>2, SumsAgree, FS_EmptySet

LEMMA SumFirst ==
    ASSUME NEW f, NEW S, IsFiniteSet(S), S # {}
    PROVE  First(S) \in S /\ SumOf(f, S) = f[First(S)] + SumOf(f, S \ {First(S)})
<1>1. PICK g : AllSums(f, S, g)
  BY SumsExist
<1>2. g[S] = f[First(S)] + g[S \ {First(S)}]
  BY <1>1 DEF AllSums, Sums
<1>3. \A T \in SUBSET S : g[T] = SumOf(f, T)
  <2> SUFFICES ASSUME NEW T \in SUBSET S PROVE g[T] = SumOf(f, T)
    OBVIOUS
  <2> QED
    BY <1>1, SumsAgree
<1>4. S \in SUBSET S /\ S \ {First(S)} \in SUBSET S
  OBVIOUS
<1> QED
  BY <1>2, <1>3, <1>4, FirstLemma

(* Any element can be taken out of a sum of integers *)
LEMMA SumSplit ==
    ASSUME NEW S, IsFiniteSet(S), NEW f, \A k \in S : f[k] \in Int
    PROVE  \A T \in SUBSET S :
              SumOf(f, T) \in Int /\ \A x \in T : SumOf(f, T) = f[x] + SumOf(f, T \ {x})
<1> DEFINE Good(T) == SumOf(f, T) \in Int /\ \A x \in T : SumOf(f, T) = f[x] + SumOf(f, T \ {x})
           Bad == {T \in SUBSET S : ~Good(T)}
           Sizes == {Cardinality(T) : T \in Bad}
<1> SUFFICES ASSUME Bad # {} PROVE FALSE
  OBVIOUS
<1>1. \A T \in SUBSET S : IsFiniteSet(T) /\ Cardinality(T) \in Nat
  BY FS_Subset, FS_CardinalityType
<1>2. Sizes \subseteq Nat /\ Sizes # {}
  BY <1>1
<1>3. PICK n \in Sizes : \A m \in Sizes : n <= m
  BY <1>2, LeastLemma
<1>4. PICK T \in Bad : Cardinality(T) = n
  BY <1>3
<1> HIDE DEF Good
<1>5. \A x \in T : T \ {x} \in SUBSET S /\ Good(T \ {x})
  <2> SUFFICES ASSUME NEW x \in T PROVE T \ {x} \in SUBSET S /\ Good(T \ {x})
    OBVIOUS
  <2>1. T \ {x} \in SUBSET S /\ Cardinality(T \ {x}) = Cardinality(T) - 1
    BY <1>1, <1>4, FS_RemoveElement
  <2>2. T \ {x} \notin Bad
    BY <1>1, <1>2, <1>3, <1>4, <2>1
  <2> QED
    BY <2>1, <2>2
<1>6. T # {}
  <2>1. Good({})
    BY SumEmpty DEF Good
  <2> QED
    BY <1>4, <2>1
<1> DEFINE y == First(T)
<1>7. y \in T /\ SumOf(f, T) = f[y] + SumOf(f, T \ {y})
  BY <1>1, <1>4, <1>6, SumFirst
<1> HIDE DEF y
<1>8. SumOf(f, T) \in Int
  BY <1>4, <1>5, <1>7 DEF Good
<1>9. ASSUME NEW x \in T PROVE SumOf(f, T) = f[x] + SumOf(f, T \ {x})
  <2> SUFFICES ASSUME x # y PROVE SumOf(f, T) = f[x] + SumOf(f, T \ {x})
    BY <1>7
  <2>1. SumOf(f, T \ {y}) = f[x] + SumOf(f, (T \ {y}) \ {x})
    BY <1>5, <1>7 DEF Good
  <2>2. SumOf(f, T \ {x}) = f[y] + SumOf(f, (T \ {x}) \ {y})
    BY <1>5, <1>7 DEF Good
  <2>3. (T \ {x}) \ {y} = (T \ {y}) \ {x}
    OBVIOUS
  <2> DEFINE z == SumOf(f, (T \ {x}) \ {y})
             u == SumOf(f, T \ {x})
             v == SumOf(f, T \ {y})
  <2>4. f[x] \in Int /\ f[y] \in Int /\ u \in Int /\ v \in Int
    BY <1>4, <1>5, <1>7 DEF Good
  <2>5. z \in Int
    <3>1. T \ {x} \in SUBSET S /\ y \in T \ {x} /\ IsFiniteSet(T \ {x})
      BY <1>1, <1>5, <1>7
    <3>2. (T \ {x}) \ {y} \in SUBSET S
      BY <1>5
    <3>3. Cardinality((T \ {x}) \ {y}) = Cardinality(T) - 2
      <4>1. Cardinality(T \ {x}) = Cardinality(T) - 1 /\ Cardinality(T) \in Nat
        BY <1>1, <1>4, FS_RemoveElement
      <4>2. Cardinality((T \ {x}) \ {y}) = Cardinality(T \ {x}) - 1
        BY <3>1, FS_RemoveElement
      <4> QED
        BY <4>1, <4>2
    <3>4. (T \ {x}) \ {y} \notin Bad
      BY <1>1, <1>2, <1>3, <1>4, <3>2, <3>3
    <3> QED
      BY <3>2, <3>4 DEF Good
  <2>6. v = f[x] + z /\ u = f[y] + z
    BY <2>1, <2>2, <2>3
  <2> HIDE DEF z, u, v
  <2>7. f[y] + v = f[x] + u
    BY <2>4, <2>5, <2>6
  <2> QED
    BY <1>7, <2>7 DEF u, v
<1> QED
  BY <1>4, <1>8, <1>9 DEF Good

LEMMA SumInsert ==
    ASSUME NEW S, IsFiniteSet(S), NEW f, \A k \in S : f[k] \in Int,
           NEW T \in SUBSET S, NEW x \in S, x \notin T
    PROVE  SumOf(f, T) \in Int /\ SumOf(f, T \cup {x}) = f[x] + SumOf(f, T)
<1>1. T \cup {x} \in SUBSET S /\ x \in T \cup {x} /\ (T \cup {x}) \ {x} = T
  OBVIOUS
<1> QED
  BY <1>1, SumSplit

(* The sum of a sum *)
LEMMA SumPlus ==
    ASSUME NEW S, IsFiniteSet(S), NEW f, NEW g, NEW h,
           \A k \in S : f[k] \in Int /\ g[k] \in Int /\ h[k] = f[k] + g[k]
    PROVE  SumOf(h, S) = SumOf(f, S) + SumOf(g, S)
<1> DEFINE G == {T \in SUBSET S : SumOf(h, T) = SumOf(f, T) + SumOf(g, T)}
<1>1. {} \in G
  BY SumEmpty
<1>2. ASSUME NEW T \in SUBSET S, NEW x \in S, T \in G, x \notin T
      PROVE  T \cup {x} \in G
  <2>1. \A k \in S : f[k] \in Int /\ g[k] \in Int /\ h[k] \in Int
    OBVIOUS
  <2>2. SumOf(f, T) \in Int /\ SumOf(f, T \cup {x}) = f[x] + SumOf(f, T)
    BY <1>2, <2>1, SumInsert
  <2>3. SumOf(g, T) \in Int /\ SumOf(g, T \cup {x}) = g[x] + SumOf(g, T)
    BY <1>2, <2>1, SumInsert
  <2>4. SumOf(h, T) \in Int /\ SumOf(h, T \cup {x}) = h[x] + SumOf(h, T)
    BY <1>2, <2>1, SumInsert
  <2>5. SumOf(h, T \cup {x}) = SumOf(f, T \cup {x}) + SumOf(g, T \cup {x})
    BY <1>2, <2>1, <2>2, <2>3, <2>4
  <2> QED
    BY <2>5
<1> HIDE DEF G
<1>3. SUBSET S \subseteq G
  BY <1>1, <1>2, SetInduction
<1> QED
  BY <1>3 DEF G

(* A sum of smaller numbers is smaller *)
LEMMA SumLess ==
    ASSUME NEW S, IsFiniteSet(S), NEW f, NEW g,
           \A k \in S : f[k] \in Int /\ g[k] \in Int /\ f[k] <= g[k]
    PROVE  SumOf(f, S) <= SumOf(g, S)
<1> DEFINE G == {T \in SUBSET S : SumOf(f, T) <= SumOf(g, T)}
<1>1. {} \in G
  BY SumEmpty
<1>2. ASSUME NEW T \in SUBSET S, NEW x \in S, T \in G, x \notin T
      PROVE  T \cup {x} \in G
  <2>1. \A k \in S : f[k] \in Int /\ g[k] \in Int
    OBVIOUS
  <2>2. SumOf(f, T) \in Int /\ SumOf(f, T \cup {x}) = f[x] + SumOf(f, T)
    BY <1>2, <2>1, SumInsert
  <2>3. SumOf(g, T) \in Int /\ SumOf(g, T \cup {x}) = g[x] + SumOf(g, T)
    BY <1>2, <2>1, SumInsert
  <2>4. SumOf(f, T \cup {x}) <= SumOf(g, T \cup {x})
    BY <1>2, <2>1, <2>2, <2>3
  <2> QED
    BY <2>4
<1> HIDE DEF G
<1>3. SUBSET S \subseteq G
  BY <1>1, <1>2, SetInduction
<1> QED
  BY <1>3 DEF G

(* A sum over a set and one over the rest *)
LEMMA SumParts ==
    ASSUME NEW S, IsFiniteSet(S), NEW f, \A k \in S : f[k] \in Int, NEW U \in SUBSET S
    PROVE  SumOf(f, S) = SumOf(f, U) + SumOf(f, S \ U)
<1> DEFINE G == {T \in SUBSET S : SumOf(f, S) = SumOf(f, T) + SumOf(f, S \ T)}
<1>1. {} \in G
  <2>1. S \ {} = S /\ SumOf(f, S) \in Int
    BY SumSplit
  <2> QED
    BY <2>1, SumEmpty
<1>2. ASSUME NEW T \in SUBSET S, NEW x \in S, T \in G, x \notin T
      PROVE  T \cup {x} \in G
  <2>1. SumOf(f, T) \in Int /\ SumOf(f, T \cup {x}) = f[x] + SumOf(f, T)
    BY <1>2, SumInsert
  <2>2. x \in S \ T /\ S \ T \in SUBSET S /\ (S \ T) \ {x} = S \ (T \cup {x})
    BY <1>2
  <2>3. SumOf(f, S \ T) = f[x] + SumOf(f, S \ (T \cup {x}))
    BY <2>2, SumSplit
  <2>4. SumOf(f, S \ (T \cup {x})) \in Int /\ f[x] \in Int
    BY SumSplit
  <2>5. SumOf(f, S) = SumOf(f, T \cup {x}) + SumOf(f, S \ (T \cup {x}))
    BY <1>2, <2>1, <2>3, <2>4
  <2> QED
    BY <2>5
<1> HIDE DEF G
<1>3. SUBSET S \subseteq G
  BY <1>1, <1>2, SetInduction
<1> QED
  BY <1>3 DEF G

(* A sum of numbers up to m is at most m for each element *)
LEMMA SumBound ==
    ASSUME NEW S, IsFiniteSet(S), NEW f, NEW m \in Int,
           \A k \in S : f[k] \in Int /\ f[k] <= m
    PROVE  SumOf(f, S) <= Cardinality(S) * m
<1> DEFINE G == {T \in SUBSET S : SumOf(f, T) <= Cardinality(T) * m}
<1>1. {} \in G
  BY SumEmpty, FS_EmptySet
<1>2. ASSUME NEW T \in SUBSET S, NEW x \in S, T \in G, x \notin T
      PROVE  T \cup {x} \in G
  <2>1. SumOf(f, T) \in Int /\ SumOf(f, T \cup {x}) = f[x] + SumOf(f, T)
    BY <1>2, SumInsert
  <2>2. Cardinality(T) \in Nat /\ Cardinality(T \cup {x}) = Cardinality(T) + 1
    BY <1>2, FS_Subset, FS_AddElement, FS_CardinalityType
  <2>3. \A n \in Nat : (n + 1) * m = n * m + m
    OBVIOUS
  <2>4. SumOf(f, T \cup {x}) <= Cardinality(T \cup {x}) * m
    BY <1>2, <2>1, <2>2, <2>3
  <2> QED
    BY <2>4
<1> HIDE DEF G
<1>3. SUBSET S \subseteq G
  BY <1>1, <1>2, SetInduction
<1> QED
  BY <1>3 DEF G
-----------------------------------------------------------------------------
(* The budget of b tasks together, twice what their current weights may be away from
   0, when there are n tasks and the weights of all make a.  The b tasks of a set that
   gains are those that lag most, so that a set of b tasks has less than b times the
   budget of one *)
Budget(a, n, b) == a * (b * (2 * n - b + 1))

LEMMA Scale ==
    ASSUME NEW x \in Int, NEW y \in Int, NEW k \in Nat, x <= y
    PROVE  k * x <= k * y
OBVIOUS

LEMMA Cancel ==
    ASSUME NEW x \in Int, NEW y \in Int, NEW k \in Nat \ {0}, k * x <= k * y
    PROVE  x <= y
OBVIOUS

LEMMA Expanded ==
    /\ \A r, z, y, v \in Int :
          r * (2 * (z + y - v)) = 2 * (r * z) + 2 * ((r - 1) * y) + 2 * y - 2 * ((r - 1) * v) - 2 * v
    /\ \A r, y \in Int : r * (-y) = -(r * y) /\ r * (2 * y) = 2 * (r * y)
OBVIOUS

LEMMA BudgetType ==
    ASSUME NEW a \in Nat, NEW n \in Nat, NEW b \in 0..n
    PROVE  Budget(a, n, b) \in Nat /\ Budget(a, n, 0) = 0
<1>1. b * (2 * n - b + 1) \in Nat
  BY Scale
<1>2. \A p, q \in Nat : p * q \in Nat
  OBVIOUS
<1>3. a * 0 = 0 /\ \A p \in Int : 0 * p = 0
  OBVIOUS
<1> QED
  BY <1>1, <1>2, <1>3 DEF Budget

LEMMA BudgetGrows ==
    ASSUME NEW a \in Nat, NEW n \in Nat, NEW b \in 1..n
    PROVE  Budget(a, n, b - 1) + 2 * a <= Budget(a, n, b)
<1>1. b * (2 * n - b + 1) = (b - 1) * (2 * n - (b - 1) + 1) + (2 * n - 2 * b + 2)
  OBVIOUS
<1>2. (b - 1) * (2 * n - (b - 1) + 1) + 2 <= b * (2 * n - b + 1)
  BY <1>1
<1>3. a * ((b - 1) * (2 * n - (b - 1) + 1) + 2) <= a * (b * (2 * n - b + 1))
  BY <1>2, Scale
<1>4. a * ((b - 1) * (2 * n - (b - 1) + 1) + 2) = a * ((b - 1) * (2 * n - (b - 1) + 1)) + 2 * a
  OBVIOUS
<1> QED
  BY <1>3, <1>4 DEF Budget

LEMMA BudgetShare ==
    ASSUME NEW a \in Nat, NEW n \in Nat, NEW b \in 1..n
    PROVE  b * (Budget(a, n, b + 1) + 2 * a) <= (b + 1) * Budget(a, n, b)
<1>1. b * (Budget(a, n, b + 1) + 2 * a) = a * (b * ((b + 1) * (2 * n - b) + 2))
  BY DEF Budget
<1>2. (b + 1) * Budget(a, n, b) = a * (b * ((b + 1) * (2 * n - b) + (b + 1)))
  BY DEF Budget
<1>3. b * ((b + 1) * (2 * n - b) + 2) <= b * ((b + 1) * (2 * n - b) + (b + 1))
  BY Scale
<1>4. a * (b * ((b + 1) * (2 * n - b) + 2)) <= a * (b * ((b + 1) * (2 * n - b) + (b + 1)))
  <2> DEFINE x == b * ((b + 1) * (2 * n - b) + 2)
             y == b * ((b + 1) * (2 * n - b) + (b + 1))
  <2>1. x \in Int /\ y \in Int /\ x <= y
    BY <1>3
  <2> HIDE DEF x, y
  <2>2. a * x <= a * y
    BY <2>1, Scale
  <2> QED
    BY <2>2 DEF x, y
<1> QED
  BY <1>1, <1>2, <1>4

(* r tasks of m, all but b - 1, against the budgets of the m and of those b - 1 *)
LEMMA BudgetRest ==
    ASSUME NEW a \in Nat, NEW n \in Nat, NEW m \in Nat, NEW b \in 1..m, m <= n,
           NEW r \in Nat, r = m - b + 1, r # 1
    PROVE  Budget(a, n, m) + (r - 1) * Budget(a, n, b - 1) + 2 * ((r - 1) * a) <= r * Budget(a, n, b)
<1> DEFINE p == m * (2 * n - m + 1)
           q == (b - 1) * (2 * n - (b - 1) + 1)
           u == b * (2 * n - b + 1)
           v == p + (r - 1) * q + 2 * (r - 1)
<1>1. r * u - p - (r - 1) * q = r * (r - 1)
  OBVIOUS
<1>2. 2 * (r - 1) <= r * (r - 1)
  <2>1. r - 1 \in Nat /\ 2 <= r
    OBVIOUS
  <2>2. (r - 1) * 2 <= (r - 1) * r
    BY <2>1, Scale
  <2> QED
    BY <2>2
<1>3. p \in Int /\ q \in Int /\ u \in Int /\ v \in Int /\ r * u \in Int
  OBVIOUS
<1>4. v <= r * u
  BY <1>1, <1>2, <1>3
<1>5. Budget(a, n, m) = a * p /\ Budget(a, n, b - 1) = a * q /\ Budget(a, n, b) = a * u
  BY DEF Budget
<1> HIDE DEF p, q, u
<1>6. a * v = a * p + (r - 1) * (a * q) + 2 * ((r - 1) * a)
  BY <1>3
<1>7. a * (r * u) = r * (a * u)
  BY <1>3
<1> HIDE DEF v
<1>8. a * v <= a * (r * u)
  BY <1>3, <1>4, Scale
<1> QED
  BY <1>5, <1>6, <1>7, <1>8

-----------------------------------------------------------------------------
(* Every set of runnable tasks is within its budget *)
Within(cur, A, a, n) ==
    \A B \in SUBSET A :
        /\ 2 * SumOf(cur, B) <= Budget(a, n, Cardinality(B))
        /\ -Budget(a, n, Cardinality(B)) <= 2 * SumOf(cur, B)

(* The runnable tasks A of n tasks with the weights w that make a *)
Weighing(A, w, a, n) ==
    /\ IsFiniteSet(A) /\ a \in Nat /\ n \in Nat
    /\ Cardinality(A) <= n
    /\ \A k \in A : w[k] \in Nat
    /\ SumOf(w, A) <= a

LEMMA SizeLemma ==
    ASSUME NEW A, NEW n \in Nat, IsFiniteSet(A), Cardinality(A) <= n
    PROVE  \A B \in SUBSET A : IsFiniteSet(B) /\ Cardinality(B) \in 0..n
BY FS_Subset, FS_CardinalityType

(* The weights of some of the tasks are not more than those of all *)
LEMMA WeightsGrow ==
    ASSUME NEW A, IsFiniteSet(A), NEW w, \A k \in A : w[k] \in Nat
    PROVE  \A B \in SUBSET A : SumOf(w, B) \in Nat /\ SumOf(w, B) <= SumOf(w, A)
<1>1. \A k \in A : w[k] \in Int
  OBVIOUS
<1>2. \A B \in SUBSET A : SumOf(w, B) \in Nat
  <2> SUFFICES ASSUME NEW B \in SUBSET A PROVE SumOf(w, B) \in Nat
    OBVIOUS
  <2> DEFINE zero == [k \in A |-> 0]
  <2>1. IsFiniteSet(B) /\ SumOf(w, B) \in Int
    BY <1>1, FS_Subset, SumSplit
  <2>2. SumOf(zero, B) = SumOf(zero, B) + SumOf(zero, B) /\ SumOf(zero, B) \in Int
    <3>1. \A k \in B : zero[k] \in Int /\ zero[k] \in Int /\ zero[k] = zero[k] + zero[k]
      OBVIOUS
    <3>2. \A k \in B : zero[k] \in Int
      BY <3>1
    <3> HIDE DEF zero
    <3>3. SumOf(zero, B) \in Int
      BY <2>1, <3>2, SumSplit
    <3>4. SumOf(zero, B) = SumOf(zero, B) + SumOf(zero, B)
      BY <2>1, <3>1, SumPlus
    <3> QED
      BY <3>3, <3>4
  <2>3. SumOf(zero, B) <= SumOf(w, B)
    <3>1. \A k \in B : zero[k] \in Int /\ w[k] \in Int /\ zero[k] <= w[k]
      OBVIOUS
    <3> HIDE DEF zero
    <3> QED
      BY <2>1, <3>1, SumLess
  <2> HIDE DEF zero
  <2> QED
    BY <2>1, <2>2, <2>3
<1>3. ASSUME NEW B \in SUBSET A PROVE SumOf(w, B) <= SumOf(w, A)
  <2>1. SumOf(w, A) = SumOf(w, B) + SumOf(w, A \ B)
    BY <1>1, SumParts
  <2>2. SumOf(w, B) \in Nat /\ SumOf(w, A \ B) \in Nat
    BY <1>2
  <2> QED
    BY <2>1, <2>2
<1> QED
  BY <1>2, <1>3

LEMMA ZeroSum ==
    ASSUME NEW S, IsFiniteSet(S), NEW f, \A k \in S : f[k] = 0
    PROVE  SumOf(f, S) = 0
<1>1. \A k \in S : f[k] \in Int /\ f[k] \in Int /\ f[k] = f[k] + f[k]
  OBVIOUS
<1>2. SumOf(f, S) \in Int
  BY <1>1, SumSplit
<1>3. SumOf(f, S) = SumOf(f, S) + SumOf(f, S)
  BY <1>1, SumPlus
<1> DEFINE s == SumOf(f, S)
<1>4. s \in Int /\ s = s + s
  BY <1>2, <1>3
<1> HIDE DEF s
<1>5. s = 0
  BY <1>4
<1> QED
  BY <1>5 DEF s

(* Sums of functions that agree agree *)
LEMMA SumSame ==
    ASSUME NEW S, IsFiniteSet(S), NEW f, NEW g,
           \A k \in S : f[k] \in Int /\ g[k] = f[k]
    PROVE  SumOf(f, S) \in Int /\ SumOf(g, S) = SumOf(f, S)
<1>1. SumOf(f, S) <= SumOf(g, S) /\ SumOf(g, S) <= SumOf(f, S)
  BY SumLess
<1>2. SumOf(f, S) \in Int /\ SumOf(g, S) \in Int
  BY SumSplit
<1> QED
  BY <1>1, <1>2

(* A task that comes with a current weight within the weight of all *)
LEMMA JoinLemma ==
    ASSUME NEW A, NEW w, NEW a, NEW n, NEW cur, NEW cur2, NEW x, x \notin A,
           Weighing(A \cup {x}, w, a, n), Within(cur, A, a, n),
           \A k \in A : cur[k] \in Int /\ cur2[k] = cur[k],
           cur2[x] \in -a..a
    PROVE  Within(cur2, A \cup {x}, a, n)
<1> DEFINE D == A \cup {x}
<1> SUFFICES ASSUME NEW B \in SUBSET D
             PROVE  /\ 2 * SumOf(cur2, B) <= Budget(a, n, Cardinality(B))
                    /\ -Budget(a, n, Cardinality(B)) <= 2 * SumOf(cur2, B)
  BY DEF Within
<1>1. /\ a \in Nat /\ n \in Nat /\ IsFiniteSet(D) /\ IsFiniteSet(A)
      /\ \A E \in SUBSET D : IsFiniteSet(E) /\ Cardinality(E) \in 0..n
  <2>1. a \in Nat /\ n \in Nat /\ IsFiniteSet(D) /\ Cardinality(D) <= n
    BY DEF Weighing
  <2>2. A \in SUBSET D
    OBVIOUS
  <2> QED
    BY <2>1, <2>2, SizeLemma
<1>2. \A k \in D : cur2[k] \in Int
  BY <1>1
<1>3. ASSUME NEW C \in SUBSET A
      PROVE  /\ SumOf(cur2, C) \in Int
             /\ 2 * SumOf(cur2, C) <= Budget(a, n, Cardinality(C))
             /\ -Budget(a, n, Cardinality(C)) <= 2 * SumOf(cur2, C)
  <2>1. SumOf(cur, C) \in Int /\ SumOf(cur2, C) = SumOf(cur, C)
    BY <1>1, SumSame
  <2> QED
    BY <2>1 DEF Within
<1>4. CASE x \notin B
  BY <1>3, <1>4
<1>5. CASE x \in B
  <2> DEFINE C == B \ {x}
             b == Cardinality(B)
  <2>1. C \in SUBSET A /\ SumOf(cur2, C) \in Int
    BY <1>3
  <2>2. SumOf(cur2, B) = cur2[x] + SumOf(cur2, C)
    BY <1>1, <1>2, <1>5, SumSplit
  <2>3. b \in 1..n /\ Cardinality(C) = b - 1
    <3>1. Cardinality(C) = b - 1 /\ Cardinality(C) \in 0..n /\ b \in 0..n
      BY <1>1, <1>5, FS_RemoveElement
    <3> QED
      BY <1>1, <3>1
  <2>4. /\ Budget(a, n, b - 1) + 2 * a <= Budget(a, n, b)
        /\ Budget(a, n, b - 1) \in Nat /\ Budget(a, n, b) \in Nat
    BY <1>1, <2>3, BudgetGrows, BudgetType
  <2>5. /\ 2 * SumOf(cur2, C) <= Budget(a, n, b - 1)
        /\ -Budget(a, n, b - 1) <= 2 * SumOf(cur2, C)
    BY <1>3, <2>1, <2>3
  <2> HIDE DEF C, b
  <2>6. /\ 2 * SumOf(cur2, B) <= Budget(a, n, b)
        /\ -Budget(a, n, b) <= 2 * SumOf(cur2, B)
    BY <1>1, <2>1, <2>2, <2>4, <2>5
  <2> QED
    BY <2>6 DEF b
<1> QED
  BY <1>4, <1>5

(* What GetNext does: every task of A gains its weight, one of those with the most
   pays the weight W of all of A *)
Chosen(A, w, W, cur, cur2, x) ==
    /\ x \in A
    /\ \A k \in A : cur[k] \in Int /\ cur[k] + w[k] <= cur[x] + w[x]
    /\ \A k \in A : cur2[k] = IF k = x THEN cur[k] + w[k] - W ELSE cur[k] + w[k]

Gains(A, w, cur) == [k \in A |-> cur[k] + w[k]]

(* The sums before, with the gains, and after the choice *)
LEMMA ChoiceSums ==
    ASSUME NEW A, NEW w, NEW a, NEW n, NEW cur, NEW cur2, NEW x,
           Weighing(A, w, a, n), Chosen(A, w, SumOf(w, A), cur, cur2, x), NEW B \in SUBSET A
    PROVE  /\ SumOf(cur, B) \in Int /\ SumOf(w, B) \in Nat /\ SumOf(w, B) <= SumOf(w, A)
           /\ SumOf(Gains(A, w, cur), B) = SumOf(cur, B) + SumOf(w, B)
           /\ x \notin B => SumOf(cur2, B) = SumOf(cur, B) + SumOf(w, B)
           /\ x \in B => SumOf(cur2, B) = SumOf(cur, B) + SumOf(w, B) - SumOf(w, A)
<1> DEFINE g == Gains(A, w, cur)
           W == SumOf(w, A)
<1>1. IsFiniteSet(A) /\ IsFiniteSet(B)
  BY FS_Subset DEF Weighing
<1>2. \A k \in A : cur[k] \in Int /\ w[k] \in Int /\ g[k] = cur[k] + w[k]
  BY DEF Weighing, Chosen, Gains
<1>3. SumOf(w, B) \in Nat /\ SumOf(w, B) <= W /\ W \in Nat
  BY <1>1, WeightsGrow DEF Weighing
<1> HIDE DEF g
<1>4. SumOf(cur, B) \in Int /\ SumOf(g, B) = SumOf(cur, B) + SumOf(w, B)
  BY <1>1, <1>2, SumSplit, SumPlus
<1>5. \A k \in A : /\ g[k] \in Int /\ cur2[k] \in Int
                   /\ k # x => cur2[k] = g[k]
                   /\ k = x => cur2[k] = g[k] - W
  BY <1>2, <1>3 DEF Chosen
<1> HIDE DEF W
<1>6. \A C \in SUBSET A : x \notin C => SumOf(g, C) \in Int /\ SumOf(cur2, C) = SumOf(g, C)
  <2> SUFFICES ASSUME NEW C \in SUBSET A, x \notin C
               PROVE  SumOf(g, C) \in Int /\ SumOf(cur2, C) = SumOf(g, C)
    OBVIOUS
  <2>1. IsFiniteSet(C) /\ \A k \in C : g[k] \in Int /\ cur2[k] = g[k]
    BY <1>1, <1>5, FS_Subset
  <2> QED
    BY <2>1, SumSame
<1>7. CASE x \notin B
  BY <1>3, <1>4, <1>6, <1>7 DEF g, W
<1>8. CASE x \in B
  <2>1. SumOf(cur2, B) = cur2[x] + SumOf(cur2, B \ {x})
    BY <1>1, <1>5, <1>8, SumSplit
  <2>2. SumOf(g, B) = g[x] + SumOf(g, B \ {x})
    BY <1>1, <1>5, <1>8, SumSplit
  <2>3. SumOf(g, B \ {x}) \in Int /\ SumOf(cur2, B \ {x}) = SumOf(g, B \ {x})
    BY <1>6
  <2>4. g[x] \in Int /\ cur2[x] = g[x] - W /\ W \in Int
    BY <1>3, <1>5, <1>8
  <2>5. SumOf(cur2, B) = SumOf(g, B) - W
    BY <2>1, <2>2, <2>3, <2>4
  <2> QED
    BY <1>3, <1>4, <1>8, <2>5 DEF g, W
<1> QED
  BY <1>7, <1>8

LEMMA ChoiceUpper ==
    ASSUME NEW A, NEW w, NEW a, NEW n, NEW cur, NEW cur2, NEW x,
           Weighing(A, w, a, n), Within(cur, A, a, n),
           Chosen(A, w, SumOf(w, A), cur, cur2, x), NEW B \in SUBSET A
    PROVE  2 * SumOf(cur2, B) <= Budget(a, n, Cardinality(B))
<1> DEFINE g == Gains(A, w, cur)
           W == SumOf(w, A)
           b == Cardinality(B)
           D == B \cup {x}
<1>1. /\ a \in Nat /\ n \in Nat /\ IsFiniteSet(A) /\ W <= a /\ x \in A
      /\ IsFiniteSet(B) /\ b \in 0..n
  BY SizeLemma DEF Weighing, Chosen
<1>2. /\ SumOf(cur, B) \in Int /\ SumOf(w, B) \in Nat /\ SumOf(w, B) <= W
      /\ SumOf(g, B) = SumOf(cur, B) + SumOf(w, B)
      /\ x \notin B => SumOf(cur2, B) = SumOf(cur, B) + SumOf(w, B)
      /\ x \in B => SumOf(cur2, B) = SumOf(cur, B) + SumOf(w, B) - W
  BY ChoiceSums
<1>3. W \in Nat
  BY <1>1, WeightsGrow DEF Weighing
<1>4. 2 * SumOf(cur, B) <= Budget(a, n, b) /\ Budget(a, n, b) \in Nat
  BY <1>1, BudgetType DEF Within
<1>5. CASE x \in B
  <2> HIDE DEF W, b, g
  <2>1. 2 * SumOf(cur2, B) <= Budget(a, n, b)
    BY <1>2, <1>3, <1>4, <1>5
  <2> QED
    BY <2>1 DEF b
<1>6. CASE B = {}
  <2>1. SumOf(cur2, B) = 0
    BY <1>6, SumEmpty
  <2> QED
    BY <1>4, <2>1
<1>7. CASE x \notin B /\ B # {}
  <2>1. D \in SUBSET A /\ Cardinality(D) = b + 1 /\ b + 1 \in 0..n
    <3>1. D \in SUBSET A
      BY <1>1
    <3>2. Cardinality(D) = b + 1
      BY <1>1, <1>7, FS_AddElement
    <3>3. Cardinality(D) \in 0..n
      BY <1>1, <3>1, SizeLemma DEF Weighing
    <3> QED
      BY <3>1, <3>2, <3>3
  <2>2. b # 0
    BY <1>1, <1>7, FS_EmptySet
  <2>3. /\ SumOf(cur, D) \in Int /\ SumOf(w, D) \in Nat /\ SumOf(w, D) <= W
        /\ SumOf(g, D) = SumOf(cur, D) + SumOf(w, D)
    BY <2>1, ChoiceSums
  <2>4. 2 * SumOf(cur, D) <= Budget(a, n, b + 1) /\ Budget(a, n, b + 1) \in Nat
    BY <1>1, <2>1, BudgetType DEF Within
  <2>5. \A k \in A : g[k] \in Int /\ g[k] <= g[x]
    BY <1>1 DEF Chosen, Weighing, Gains
  <2> HIDE DEF g
  <2>6. SumOf(g, D) = g[x] + SumOf(g, B)
    BY <1>1, <1>7, <2>5, SumInsert
  <2>7. SumOf(g, B) <= b * g[x]
    BY <1>1, <2>5, SumBound
  <2> DEFINE X == SumOf(g, B)
             m == g[x]
             F == Budget(a, n, b)
             H == Budget(a, n, b + 1)
  <2>8. X \in Int /\ m \in Int /\ F \in Nat /\ H \in Nat /\ b \in 1..n /\ X <= b * m
    BY <1>1, <1>2, <1>4, <2>2, <2>4, <2>5, <2>7
  <2>9. 2 * (m + X) <= H + 2 * a
    BY <1>1, <1>3, <2>3, <2>4, <2>6
  <2>10. b * (H + 2 * a) <= (b + 1) * F
    BY <1>1, <2>8, BudgetShare
  <2> HIDE DEF X, m, F, H, b
  <2>11. b * (2 * (m + X)) <= b * (H + 2 * a)
    BY <1>1, <2>8, <2>9, Scale
  <2>12. (b + 1) * (2 * X) <= (b + 1) * F
    <3>1. (b + 1) * (2 * X) = b * (2 * X) + 2 * X
      BY <2>8
    <3>2. b * (2 * (m + X)) = b * (2 * X) + 2 * (b * m)
      BY <2>8
    <3>3. b * (2 * X) \in Int /\ b * m \in Int /\ (b + 1) * F \in Int /\ b * (H + 2 * a) \in Int
      BY <1>1, <2>8
    <3> QED
      BY <2>8, <2>10, <2>11, <3>1, <3>2, <3>3
  <2>13. 2 * X <= F
    BY <2>8, <2>12, Cancel
  <2> QED
    BY <1>2, <1>7, <2>13 DEF X, F, b
<1> QED
  BY <1>5, <1>6, <1>7

LEMMA ChoiceLower ==
    ASSUME NEW A, NEW w, NEW a, NEW n, NEW cur, NEW cur2, NEW x,
           Weighing(A, w, a, n), Within(cur, A, a, n),
           Chosen(A, w, SumOf(w, A), cur, cur2, x), NEW B \in SUBSET A
    PROVE  -Budget(a, n, Cardinality(B)) <= 2 * SumOf(cur2, B)
<1> DEFINE g == Gains(A, w, cur)
           W == SumOf(w, A)
           b == Cardinality(B)
           m == Cardinality(A)
           C == B \ {x}
           R == A \ C
<1>1. /\ a \in Nat /\ n \in Nat /\ IsFiniteSet(A) /\ W <= a /\ x \in A
      /\ IsFiniteSet(B) /\ b \in 0..n
  BY SizeLemma DEF Weighing, Chosen
<1>2. /\ SumOf(cur, B) \in Int /\ SumOf(w, B) \in Nat /\ SumOf(w, B) <= W
      /\ SumOf(g, B) = SumOf(cur, B) + SumOf(w, B)
      /\ x \notin B => SumOf(cur2, B) = SumOf(cur, B) + SumOf(w, B)
      /\ x \in B => SumOf(cur2, B) = SumOf(cur, B) + SumOf(w, B) - W
  BY ChoiceSums
<1>3. W \in Nat
  BY <1>1, WeightsGrow DEF Weighing
<1>4. -Budget(a, n, b) <= 2 * SumOf(cur, B) /\ Budget(a, n, b) \in Nat
  BY <1>1, BudgetType DEF Within
<1>5. CASE x \notin B
  <2> HIDE DEF W, b, g
  <2>1. -Budget(a, n, b) <= 2 * SumOf(cur2, B)
    BY <1>2, <1>3, <1>4, <1>5
  <2> QED
    BY <2>1 DEF b
<1>6. CASE B = A
  <2> HIDE DEF g, b
  <2>1. SumOf(w, B) = W /\ x \in B
    BY <1>1, <1>6
  <2>2. SumOf(cur2, B) = SumOf(cur, B)
    <3> HIDE DEF W
    <3> QED
      BY <1>2, <1>3, <2>1
  <2> QED
    BY <1>4, <2>2 DEF b
<1>7. CASE x \in B /\ B # A
  <2>1. C \in SUBSET A /\ R \in SUBSET A /\ x \in R
    BY <1>1
  <2>2. Cardinality(C) = b - 1 /\ b \in 1..n
    <3>1. Cardinality(C) = b - 1 /\ Cardinality(C) \in 0..n
      BY <1>1, <1>7, <2>1, FS_RemoveElement, SizeLemma DEF Weighing
    <3> QED
      BY <1>1, <3>1
  <2>3. m \in Nat /\ m <= n /\ b \in 1..m /\ b # m
    <3>1. m \in Nat /\ m <= n
      BY <1>1, FS_CardinalityType DEF Weighing
    <3>2. b <= m /\ (b = m => B = A)
      BY <1>1, FS_Subset
    <3> QED
      BY <1>7, <2>2, <3>1, <3>2
  <2>4. IsFiniteSet(R) /\ IsFiniteSet(C) /\ Cardinality(R) = m - b + 1
    <3>1. A \cap C = C /\ IsFiniteSet(R) /\ IsFiniteSet(C)
      BY <1>1, <2>1, FS_Subset
    <3>2. Cardinality(R) = m - Cardinality(C)
      BY <1>1, <3>1, FS_Difference
    <3> QED
      BY <2>2, <2>3, <3>1, <3>2
  <2>5. \A k \in A : g[k] \in Int /\ g[k] <= g[x]
    BY <1>1 DEF Chosen, Weighing, Gains
  <2>6. /\ SumOf(cur, A) \in Int /\ SumOf(g, A) = SumOf(cur, A) + W
        /\ SumOf(cur, C) \in Int /\ SumOf(w, C) \in Nat
        /\ SumOf(g, C) = SumOf(cur, C) + SumOf(w, C)
    BY <2>1, ChoiceSums
  <2>7. /\ -Budget(a, n, m) <= 2 * SumOf(cur, A)
        /\ -Budget(a, n, b - 1) <= 2 * SumOf(cur, C)
    BY <2>1, <2>2 DEF Within
  <2>8. Budget(a, n, m) \in Nat /\ Budget(a, n, b - 1) \in Nat
    BY <1>1, <2>2, <2>3, BudgetType
  <2> HIDE DEF g
  <2>9. SumOf(g, B) = g[x] + SumOf(g, C)
    BY <1>1, <1>7, <2>5, SumSplit
  <2>10. SumOf(g, A) = SumOf(g, C) + SumOf(g, R)
    BY <1>1, <2>1, <2>5, SumParts
  <2>11. SumOf(g, R) <= Cardinality(R) * g[x] /\ SumOf(g, R) \in Int
    BY <2>1, <2>4, <2>5, SumBound, SumSplit
  <2> DEFINE r == m - b + 1
             y == SumOf(g, C)
             z == g[x]
             X == SumOf(cur2, B)
             P == Budget(a, n, m)
             Q == Budget(a, n, b - 1)
             F == Budget(a, n, b)
             cA == SumOf(cur, A)
  <2>12. /\ r \in Nat /\ r # 1 /\ r # 0 /\ y \in Int /\ z \in Int /\ cA \in Int /\ P \in Nat /\ Q \in Nat
         /\ F \in Nat
    BY <1>1, <1>4, <2>1, <2>3, <2>5, <2>6, <2>8
  <2>13. X = z + y - W
    <3> HIDE DEF W, y, z, C
    <3>1. SumOf(cur2, B) = SumOf(g, B) - W
      BY <1>2, <1>3, <1>7
    <3>2. SumOf(g, B) = z + y
      BY <2>9 DEF z, y
    <3>3. y \in Int /\ z \in Int /\ W \in Nat
      BY <1>3, <2>12
    <3> QED
      BY <3>1, <3>2, <3>3
  <2>14. -Q <= 2 * y /\ -P <= 2 * cA
    BY <2>6, <2>7, <2>8
  <2>15. cA + W - y <= r * z
    <3>1. SumOf(g, R) = cA + W - y
      BY <1>3, <2>6, <2>10, <2>11
    <3> QED
      BY <2>4, <2>11, <3>1
  <2>16. P + (r - 1) * Q + 2 * ((r - 1) * a) <= r * F
    BY <1>1, <2>3, <2>12, BudgetRest
  <2>17. W \in Nat /\ W <= a
    BY <1>1, <1>3
  <2> HIDE DEF r, y, z, X, P, Q, F, cA, W
  <2>18. (r - 1) * (-Q) <= (r - 1) * (2 * y) /\ (r - 1) * W <= (r - 1) * a
    BY <1>1, <2>12, <2>14, <2>17, Scale
  <2>19. r * (-F) <= r * (2 * X)
    <3>1. r * (2 * X) = 2 * (r * z) + 2 * ((r - 1) * y) + 2 * y - 2 * ((r - 1) * W) - 2 * W
      BY <2>12, <2>13, <2>17, Expanded
    <3>2. (r - 1) * (-Q) = -((r - 1) * Q) /\ (r - 1) * (2 * y) = 2 * ((r - 1) * y) /\ r * (-F) = -(r * F)
      <4>1. r \in Int /\ r - 1 \in Int /\ Q \in Int /\ F \in Int /\ y \in Int
        BY <2>12
      <4> QED
        BY <4>1, Expanded
    <3> DEFINE e1 == r * z
               e2 == (r - 1) * y
               e3 == (r - 1) * W
               e4 == (r - 1) * Q
               e5 == (r - 1) * a
               e6 == r * F
    <3>3. /\ e1 \in Int /\ e2 \in Int /\ e3 \in Int /\ e4 \in Int /\ e5 \in Int /\ e6 \in Int
      BY <1>1, <2>12, <2>17
    <3>4. /\ r * (2 * X) = 2 * e1 + 2 * e2 + 2 * y - 2 * e3 - 2 * W
          /\ r * (-F) = -e6
          /\ cA + W - y <= e1 /\ -P <= 2 * cA /\ -e4 <= 2 * e2 /\ e3 <= e5
          /\ P + e4 + 2 * e5 <= e6
      BY <2>14, <2>15, <2>16, <2>18, <3>1, <3>2
    <3> HIDE DEF e1, e2, e3, e4, e5, e6
    <3> QED
      BY <2>12, <2>17, <3>3, <3>4
  <2>20. X \in Int
    BY <2>12, <2>13, <2>17
  <2>21. -F <= 2 * X
    BY <2>12, <2>19, <2>20, Cancel
  <2> QED
    BY <2>21 DEF X, F
<1> QED
  BY <1>5, <1>6, <1>7

-----------------------------------------------------------------------------
(* The strategy *)
SwrrFields == {"kind", "m_tasks", "m_sleep", "m_total_weight", "weight", "current"}

(* The lists of runnable and of sleeping tasks *)
ListsOK(s, w) ==
    /\ s.m_tasks \in Seq(DOMAIN w) /\ NoDuplicates(s.m_tasks)
    /\ s.m_sleep \in Seq(DOMAIN w) /\ NoDuplicates(s.m_sleep)
    /\ \A k : ~(IsLinked(s.m_tasks, k) /\ IsLinked(s.m_sleep, k))

All(w) == SumOf(w, DOMAIN w)

WeightsOK(s, w) ==
    /\ s.current \in [DOMAIN w -> Int]
    /\ s.m_total_weight = SumOf(w, ToSet(s.m_tasks))
    /\ Within(s.current, ToSet(s.m_tasks), All(w), Cardinality(DOMAIN w))

SwrrOK(s, w) ==
    /\ DOMAIN s = SwrrFields /\ s.kind = "swrr" /\ s.weight = w
    /\ ListsOK(s, w) /\ WeightsOK(s, w)

(* Weights of finitely many tasks *)
Weights(w) == IsFiniteSet(DOMAIN w) /\ w \in [DOMAIN w -> Nat \ {0}]

LEMMA ToSetLemma ==
    ASSUME NEW S, NEW s \in Seq(S)
    PROVE  ToSet(s) \subseteq S /\ \A k : k \in ToSet(s) <=> IsLinked(s, k)
BY DEF ToSet, IsLinked

LEMMA WeighingLemma ==
    ASSUME NEW w, Weights(w), NEW A \in SUBSET DOMAIN w
    PROVE  /\ Weighing(A, w, All(w), Cardinality(DOMAIN w))
           /\ SumOf(w, A) \in Nat /\ All(w) \in Nat
<1>1. \A k \in DOMAIN w : w[k] \in Nat
  BY DEF Weights
<1>2. \A B \in SUBSET DOMAIN w : SumOf(w, B) \in Nat /\ SumOf(w, B) <= SumOf(w, DOMAIN w)
  BY <1>1, WeightsGrow DEF Weights
<1>3. IsFiniteSet(A) /\ Cardinality(DOMAIN w) \in Nat /\ Cardinality(A) <= Cardinality(DOMAIN w)
  BY FS_Subset, FS_CardinalityType DEF Weights
<1> QED
  BY <1>1, <1>2, <1>3 DEF Weighing, All

LEMMA OneMoreLemma ==
    ASSUME NEW w, Weights(w), NEW A \in SUBSET DOMAIN w, NEW k \in DOMAIN w, k \notin A
    PROVE  SumOf(w, A \cup {k}) = SumOf(w, A) + w[k]
<1>1. \A j \in DOMAIN w : w[j] \in Int
  BY DEF Weights
<1>2. IsFiniteSet(DOMAIN w)
  BY DEF Weights
<1>3. SumOf(w, A) \in Int /\ SumOf(w, A \cup {k}) = w[k] + SumOf(w, A)
  BY <1>1, <1>2, SumInsert
<1> QED
  BY <1>1, <1>3

LEMMA OneTaskLemma ==
    ASSUME NEW w, Weights(w), NEW k \in DOMAIN w
    PROVE  1 <= All(w)
<1>1. IsFiniteSet(DOMAIN w) /\ \A j \in DOMAIN w : w[j] \in Int
  BY DEF Weights
<1>2. All(w) = w[k] + SumOf(w, DOMAIN w \ {k})
  BY <1>1, SumSplit DEF All
<1>3. SumOf(w, DOMAIN w \ {k}) \in Nat
  BY WeighingLemma
<1>4. w[k] \in Nat /\ w[k] # 0
  BY DEF Weights
<1> QED
  BY <1>2, <1>3, <1>4

(* A set of fewer tasks *)
LEMMA WithinSubset ==
    ASSUME NEW A, NEW B, B \subseteq A, NEW cur, NEW cur2, NEW a, NEW n, Within(cur, A, a, n),
           IsFiniteSet(A), \A k \in B : cur[k] \in Int /\ cur2[k] = cur[k]
    PROVE  Within(cur2, B, a, n)
<1> SUFFICES ASSUME NEW C \in SUBSET B
             PROVE  /\ 2 * SumOf(cur2, C) <= Budget(a, n, Cardinality(C))
                    /\ -Budget(a, n, Cardinality(C)) <= 2 * SumOf(cur2, C)
  BY DEF Within
<1>1. IsFiniteSet(C) /\ C \in SUBSET A
  BY FS_Subset
<1>2. SumOf(cur2, C) = SumOf(cur, C)
  BY <1>1, SumSame
<1> QED
  BY <1>1, <1>2 DEF Within

(* A task becomes runnable, new or awake, with the weight -1 or that of the others *)
LEMMA JoinsLemma ==
    ASSUME NEW w, Weights(w), NEW s, SwrrOK(s, w), NEW k \in DOMAIN w, ~IsLinked(s.m_tasks, k),
           NEW r, DOMAIN r = SwrrFields, r.kind = "swrr", r.weight = w,
           r.m_tasks = Append(s.m_tasks, k), r.m_sleep \in Seq(DOMAIN w), NoDuplicates(r.m_sleep),
           \A j : IsLinked(r.m_sleep, j) => IsLinked(s.m_sleep, j) /\ j # k,
           r.m_total_weight = s.m_total_weight + w[k],
           NEW v \in {NO_WEIGHT, s.m_total_weight}, r.current = [s.current EXCEPT ![k] = v]
    PROVE  SwrrOK(r, w)
<1> DEFINE A == ToSet(s.m_tasks)
           D == A \cup {k}
<1>1. s.m_tasks \in Seq(DOMAIN w) /\ NoDuplicates(s.m_tasks)
  BY DEF SwrrOK, ListsOK
<1>2. /\ r.m_tasks \in Seq(DOMAIN w) /\ NoDuplicates(r.m_tasks)
      /\ \A j : IsLinked(r.m_tasks, j) <=> IsLinked(s.m_tasks, j) \/ j = k
  BY <1>1, AppendLemma
<1>3. ListsOK(r, w)
  BY <1>2 DEF ListsOK, SwrrOK
<1>4. A \subseteq DOMAIN w /\ k \notin A /\ ToSet(r.m_tasks) = D /\ D \subseteq DOMAIN w
  BY <1>1, <1>2, ToSetLemma
<1>5. s.current \in [DOMAIN w -> Int] /\ s.m_total_weight = SumOf(w, A)
      /\ Within(s.current, A, All(w), Cardinality(DOMAIN w))
  BY DEF SwrrOK, WeightsOK
<1> HIDE DEF A
<1>6. SumOf(w, A) \in Nat /\ SumOf(w, A) <= All(w) /\ All(w) \in Nat
  BY <1>4, WeighingLemma DEF Weighing
<1>7. v \in -All(w)..All(w)
  <2>1. 1 <= All(w)
    BY OneTaskLemma
  <2> QED
    BY <1>5, <1>6, <2>1 DEF NO_WEIGHT
<1>8. r.current \in [DOMAIN w -> Int] /\ r.current[k] = v
      /\ \A j \in A : s.current[j] \in Int /\ r.current[j] = s.current[j]
  BY <1>4, <1>5, <1>7
<1>9. Weighing(D, w, All(w), Cardinality(DOMAIN w))
  BY <1>4, WeighingLemma
<1>10. Within(r.current, D, All(w), Cardinality(DOMAIN w))
  BY <1>4, <1>5, <1>7, <1>8, <1>9, JoinLemma
<1>11. SumOf(w, D) = SumOf(w, A) + w[k]
  BY <1>4, OneMoreLemma
<1>12. WeightsOK(r, w)
  BY <1>4, <1>5, <1>8, <1>10, <1>11 DEF WeightsOK
<1> QED
  BY <1>3, <1>12 DEF SwrrOK

(* A task goes to sleep or away *)
LEMMA LeavesLemma ==
    ASSUME NEW w, Weights(w), NEW s, SwrrOK(s, w), NEW k \in DOMAIN w, IsLinked(s.m_tasks, k),
           NEW r, DOMAIN r = SwrrFields, r.kind = "swrr", r.weight = w,
           r.m_tasks = Unlink(s.m_tasks, k), r.m_sleep \in Seq(DOMAIN w), NoDuplicates(r.m_sleep),
           \A j : IsLinked(r.m_sleep, j) => IsLinked(s.m_sleep, j) \/ j = k,
           r.m_total_weight = s.m_total_weight - w[k],
           r.current = [s.current EXCEPT ![k] = 0]
    PROVE  SwrrOK(r, w)
<1> DEFINE A == ToSet(s.m_tasks)
           D == A \ {k}
<1>1. s.m_tasks \in Seq(DOMAIN w) /\ NoDuplicates(s.m_tasks)
  BY DEF SwrrOK, ListsOK
<1>2. /\ r.m_tasks \in Seq(DOMAIN w) /\ NoDuplicates(r.m_tasks)
      /\ \A j : IsLinked(r.m_tasks, j) <=> IsLinked(s.m_tasks, j) /\ j # k
  BY <1>1, UnlinkLemma
<1>3. ListsOK(r, w)
  BY <1>2 DEF ListsOK, SwrrOK
<1>4. A \subseteq DOMAIN w /\ k \in A /\ ToSet(r.m_tasks) = D /\ IsFiniteSet(A)
  BY <1>1, <1>2, ToSetLemma, FS_Subset DEF Weights
<1>5. s.current \in [DOMAIN w -> Int] /\ s.m_total_weight = SumOf(w, A)
      /\ Within(s.current, A, All(w), Cardinality(DOMAIN w))
  BY DEF SwrrOK, WeightsOK
<1> HIDE DEF A
<1>6. r.current \in [DOMAIN w -> Int]
      /\ \A j \in D : s.current[j] \in Int /\ r.current[j] = s.current[j]
  BY <1>4, <1>5
<1>7. Within(r.current, D, All(w), Cardinality(DOMAIN w))
  BY <1>4, <1>5, <1>6, WithinSubset
<1>8. SumOf(w, D) = SumOf(w, A) - w[k]
  <2>1. \A j \in DOMAIN w : w[j] \in Int
    BY DEF Weights
  <2>2. SumOf(w, A) = w[k] + SumOf(w, D) /\ SumOf(w, D) \in Int
    BY <1>4, <2>1, SumSplit DEF Weights
  <2> QED
    BY <2>1, <2>2
<1>9. WeightsOK(r, w)
  BY <1>4, <1>5, <1>6, <1>7, <1>8 DEF WeightsOK
<1> QED
  BY <1>3, <1>9 DEF SwrrOK

(* A finite set has an element where a function is largest *)
LEMMA LargestLemma ==
    ASSUME NEW S, IsFiniteSet(S), S # {}, NEW f, \A k \in S : f[k] \in Int
    PROVE  \E x \in S : \A y \in S : f[y] <= f[x]
<1> DEFINE G == {T \in SUBSET S : T = {} \/ \E x \in T : \A y \in T : f[y] <= f[x]}
<1>1. {} \in G
  OBVIOUS
<1>2. ASSUME NEW T \in SUBSET S, NEW x \in S, T \in G, x \notin T
      PROVE  T \cup {x} \in G
  <2>1. CASE T = {}
    BY <2>1
  <2>2. CASE \E z \in T : \A y \in T : f[y] <= f[z]
    <3>1. PICK z \in T : \A y \in T : f[y] <= f[z]
      BY <2>2
    <3>2. CASE f[x] <= f[z]
      BY <3>1, <3>2
    <3>3. CASE ~(f[x] <= f[z])
      <4>1. \A y \in T \cup {x} : f[y] <= f[x]
        BY <3>1, <3>3
      <4> QED
        BY <4>1
    <3> QED
      BY <3>2, <3>3
  <2> QED
    BY <1>2, <2>1, <2>2
<1> HIDE DEF G
<1>3. SUBSET S \subseteq G
  BY <1>1, <1>2, SetInduction
<1> QED
  BY <1>3 DEF G

(* GetNext finds a task, and none has more than it *)
LEMMA SelectedLemma ==
    ASSUME NEW w, Weights(w), NEW s, SwrrOK(s, w), s.m_tasks # <<>>
    PROVE  /\ IsLinked(s.m_tasks, Selected(s))
           /\ \A k : IsLinked(s.m_tasks, k) => Candidates(s)[k] <= Candidates(s)[Selected(s)]
<1> DEFINE q == s.m_tasks
           g == Candidates(s)
           f == [i \in DOMAIN q |-> g[q[i]]]
           first == {i \in DOMAIN q : \A j \in DOMAIN q : f[j] <= f[i]}
           sel == CHOOSE i \in DOMAIN q : \A j \in DOMAIN q : f[j] < f[i] \/ (f[j] = f[i] /\ i <= j)
<1>1. q \in Seq(DOMAIN w) /\ q # <<>> /\ DOMAIN q = 1..Len(q) /\ Len(q) \in Nat
  BY DEF SwrrOK, ListsOK
<1>2. \A k \in DOMAIN w : g[k] \in Int
  BY DEF SwrrOK, WeightsOK, Candidates, Weights
<1> HIDE DEF g
<1>3. \A i \in DOMAIN q : f[i] \in Int
  BY <1>1, <1>2
<1>4. IsFiniteSet(DOMAIN q) /\ DOMAIN q # {}
  <2>1. Len(q) # 0 /\ 1 \in DOMAIN q
    BY <1>1, EmptyLemma
  <2>2. IsFiniteSet(1..Len(q))
    BY <1>1, FS_Interval
  <2> QED
    BY <1>1, <2>1, <2>2
<1>5. first # {}
  <2> HIDE DEF f
  <2> QED
    BY <1>3, <1>4, LargestLemma
<1>6. first \subseteq Nat
  BY <1>1
<1>7. PICK i \in first : \A j \in first : i <= j
  BY <1>5, <1>6, LeastLemma
<1>8. \A j \in DOMAIN q : f[j] < f[i] \/ (f[j] = f[i] /\ i <= j)
  <2> SUFFICES ASSUME NEW j \in DOMAIN q, ~(f[j] < f[i]) PROVE f[j] = f[i] /\ i <= j
    OBVIOUS
  <2> HIDE DEF f
  <2>1. f[j] = f[i]
    BY <1>3, <1>7
  <2>2. j \in first
    BY <1>7, <2>1
  <2> QED
    BY <1>7, <2>1, <2>2
<1>9. sel \in DOMAIN q /\ \A j \in DOMAIN q : f[j] < f[sel] \/ (f[j] = f[sel] /\ sel <= j)
  BY <1>7, <1>8
<1>10. Selected(s) = q[sel]
  BY DEF Selected, g
<1> HIDE DEF sel, f
<1>11. \A j \in DOMAIN q : f[j] <= f[sel]
  BY <1>3, <1>9
<1>12. \A j \in DOMAIN q : g[q[j]] <= g[q[sel]]
  BY <1>9, <1>11 DEF f
<1> QED
  BY <1>1, <1>9, <1>10, <1>12 DEF IsLinked, g

LEMMA ChoosesLemma ==
    ASSUME NEW w, Weights(w), NEW s, SwrrOK(s, w), s.m_tasks # <<>>,
           NEW r, DOMAIN r = SwrrFields, r.kind = "swrr", r.weight = w,
           r.m_tasks = s.m_tasks, r.m_sleep = s.m_sleep, r.m_total_weight = s.m_total_weight,
           r.current = [Candidates(s) EXCEPT ![Selected(s)] = @ - s.m_total_weight]
    PROVE  SwrrOK(r, w)
<1> DEFINE A == ToSet(s.m_tasks)
           x == Selected(s)
           g == Candidates(s)
<1>1. s.m_tasks \in Seq(DOMAIN w)
  BY DEF SwrrOK, ListsOK
<1>2. A \subseteq DOMAIN w /\ \A k : k \in A <=> IsLinked(s.m_tasks, k)
  BY <1>1, ToSetLemma
<1>3. x \in A /\ \A k \in A : g[k] <= g[x]
  BY <1>2, SelectedLemma
<1>4. s.current \in [DOMAIN w -> Int] /\ s.m_total_weight = SumOf(w, A)
      /\ Within(s.current, A, All(w), Cardinality(DOMAIN w))
  BY DEF SwrrOK, WeightsOK
<1>5. /\ DOMAIN g = DOMAIN w
      /\ \A k \in A : g[k] = s.current[k] + w[k]
      /\ \A k \in DOMAIN w : g[k] \in Int
  BY <1>2, <1>4 DEF Candidates, SwrrOK, Weights
<1> HIDE DEF A, x, g
<1>6. SumOf(w, A) \in Nat
  BY <1>2, WeighingLemma
<1>7. /\ r.current \in [DOMAIN w -> Int]
      /\ \A k \in A : r.current[k] = IF k = x THEN g[k] - SumOf(w, A) ELSE g[k]
  <2>1. r.current = [g EXCEPT ![x] = g[x] - SumOf(w, A)]
    BY <1>4 DEF g, x
  <2>2. g \in [DOMAIN w -> Int] /\ x \in DOMAIN w
    <3>1. g = [k \in DOMAIN w |-> g[k]]
      BY <1>4, <1>5 DEF g, Candidates
    <3> QED
      BY <1>2, <1>3, <1>5, <3>1
  <2> DEFINE v == g[x] - SumOf(w, A)
  <2>3. v \in Int
    BY <1>6, <2>2
  <2>4. \A k \in DOMAIN w : r.current[k] = IF k = x THEN v ELSE g[k]
    BY <2>1, <2>2
  <2>5. r.current \in [DOMAIN w -> Int]
    <3> HIDE DEF v
    <3> QED
      BY <2>1, <2>2, <2>3 DEF v
  <2> QED
    BY <1>2, <2>4, <2>5
<1>8. Chosen(A, w, SumOf(w, A), s.current, r.current, x)
  <2>1. \A k \in A : s.current[k] \in Int /\ w[k] \in Int
    BY <1>2, <1>4 DEF Weights
  <2> QED
    BY <1>3, <1>5, <1>6, <1>7, <2>1 DEF Chosen
<1>9. Weighing(A, w, All(w), Cardinality(DOMAIN w))
  BY <1>2, WeighingLemma
<1>10. Within(r.current, A, All(w), Cardinality(DOMAIN w))
  BY <1>4, <1>8, <1>9, ChoiceUpper, ChoiceLower DEF Within
<1> QED
  BY <1>4, <1>7, <1>10 DEF SwrrOK, ListsOK, WeightsOK, A

-----------------------------------------------------------------------------
(* A kernel that calls strategies: objects of this kind, and calls of their methods *)
TaskOps == {"SwrrAddTask", "SwrrRemoveTask", "OnTaskSleep", "OnTaskWake"}

SwrrProgram(p) ==
    /\ p.uses \subseteq {"SmoothWeighted"}
    /\ \A o \in DOMAIN p.objects :
          Weights(p.objects[o].weight) /\ p.objects[o] = SwrrObject(p.objects[o].weight)
    /\ \A t \in Tasks : \A c \in p.calls[t] :
          /\ c.o \in DOMAIN p.objects /\ c.op \in TaskOps \cup {"GetNext", "SwrrGetFirst"}
          /\ c.op \in TaskOps => c.x \in DOMAIN p.objects[c.o].weight
          /\ c = Frame(c.op, c.o, c.x, c.ticks)

(* The behaviour is one of such a kernel *)
SwrrOnly == SwrrProgram(The)

WeightOf(o) == The.objects[o].weight

SwrrInv ==
    /\ scenario \in DOMAIN Scenarios
    /\ DOMAIN obj = DOMAIN The.objects
    /\ \A o \in DOMAIN obj : SwrrOK(obj[o], WeightOf(o))
    /\ DOMAIN call = Tasks /\ \A t \in Tasks : call[t] = NoCall

LEMMA SwrrInitLemma ==
    ASSUME Init, SwrrOnly
    PROVE  SwrrInv
<1>1. ASSUME NEW o \in DOMAIN obj PROVE SwrrOK(obj[o], WeightOf(o))
  <2> DEFINE w == WeightOf(o)
             r == SwrrObject(w)
  <2>1. obj[o] = r /\ Weights(w)
    BY DEF Init, SwrrOnly, SwrrProgram, WeightOf
  <2> HIDE DEF w
  <2>2. /\ DOMAIN r = SwrrFields /\ r.kind = "swrr" /\ r.weight = w
        /\ r.m_tasks = <<>> /\ r.m_sleep = <<>> /\ r.m_total_weight = 0
        /\ r.current \in [DOMAIN w -> Int]
    BY DEF SwrrObject, SwrrFields
  <2> HIDE DEF r
  <2>3. ListsOK(r, w)
    BY <2>2 DEF ListsOK, NoDuplicates, IsLinked
  <2>4. ToSet(r.m_tasks) = {}
    BY <2>2 DEF ToSet
  <2>5. Within(r.current, {}, All(w), Cardinality(DOMAIN w))
    <3>1. All(w) \in Nat /\ Cardinality(DOMAIN w) \in Nat
      BY <2>1, WeighingLemma, FS_CardinalityType DEF Weights
    <3>2. Budget(All(w), Cardinality(DOMAIN w), 0) = 0
      BY <3>1, BudgetType
    <3>3. \A B \in SUBSET {} : B = {} /\ Cardinality(B) = 0 /\ SumOf(r.current, B) = 0
      BY FS_EmptySet, SumEmpty
    <3> QED
      BY <3>2, <3>3 DEF Within
  <2>6. WeightsOK(r, w)
    BY <2>2, <2>4, <2>5, SumEmpty DEF WeightsOK
  <2> QED
    BY <2>1, <2>2, <2>3, <2>6 DEF SwrrOK, w
<1> QED
  BY <1>1 DEF Init, SwrrInv

(* What each call does to its strategy *)
LEMMA SwrrStepLemma ==
    ASSUME SwrrOnly, SwrrInv, NEW t \in Tasks, NEW c \in The.calls[t],
           CallerMay(t, c), SwrrStep(t, c)
    PROVE  /\ \/ obj' = obj
              \/ \E r : obj' = [obj EXCEPT ![c.o] = r] /\ SwrrOK(r, WeightOf(c.o))
           /\ call' = [call EXCEPT ![t] = NoCall]
<1> DEFINE s == obj[c.o]
           w == WeightOf(c.o)
           K == DOMAIN w
<1>1. /\ c.o \in DOMAIN obj /\ SwrrOK(s, w) /\ Weights(w) /\ c.then = NoCall
      /\ c.op \in TaskOps => c.x \in K
  BY DEF SwrrOnly, SwrrProgram, SwrrInv, WeightOf, Frame
<1>2. /\ DOMAIN s = SwrrFields /\ s.kind = "swrr" /\ s.weight = w
      /\ s.m_tasks \in Seq(K) /\ NoDuplicates(s.m_tasks)
      /\ s.m_sleep \in Seq(K) /\ NoDuplicates(s.m_sleep)
      /\ s.current \in [K -> Int]
      /\ \A k : ~(IsLinked(s.m_tasks, k) /\ IsLinked(s.m_sleep, k))
  BY <1>1 DEF SwrrOK, ListsOK, WeightsOK
<1>3. KernelMay(c)
  BY <1>2 DEF CallerMay
<1>4. /\ \A k : k \in ToSet(s.m_tasks) <=> IsLinked(s.m_tasks, k)
      /\ \A k : k \in ToSet(s.m_sleep) <=> IsLinked(s.m_sleep, k)
  BY <1>2, ToSetLemma
<1>5. /\ c.op = "SwrrAddTask" => ~IsLinked(s.m_tasks, c.x) /\ ~IsLinked(s.m_sleep, c.x)
      /\ c.op = "SwrrRemoveTask" => IsLinked(s.m_tasks, c.x) \/ IsLinked(s.m_sleep, c.x)
      /\ c.op = "OnTaskSleep" => IsLinked(s.m_tasks, c.x)
      /\ c.op = "OnTaskWake" => IsLinked(s.m_sleep, c.x)
  BY <1>3, <1>4 DEF KernelMay
<1>6. call' = [call EXCEPT ![t] = NoCall]
  BY <1>1 DEF SwrrStep, SwrrAddTask, SwrrRemoveTask, OnTaskSleep, OnTaskWake, GetNext, SwrrGetFirst,
              Answers, Return, Goto
<1>7. CASE SwrrAddTask(t, c)
  <2> DEFINE r == AddActive([s EXCEPT !.current[c.x] = NO_WEIGHT], c.x)
  <2>1. c.op = "SwrrAddTask" /\ obj' = [obj EXCEPT ![c.o] = r] /\ c.x \in K
    BY <1>1, <1>7 DEF SwrrAddTask, Set, TaskOps
  <2>2. /\ DOMAIN r = SwrrFields /\ r.kind = "swrr" /\ r.weight = w
        /\ r.m_tasks = Append(s.m_tasks, c.x) /\ r.m_sleep = s.m_sleep
        /\ r.m_total_weight = s.m_total_weight + w[c.x]
        /\ r.current = [s.current EXCEPT ![c.x] = NO_WEIGHT]
    BY <1>2 DEF AddActive, SwrrFields
  <2> HIDE DEF r
  <2>3. /\ r.m_sleep \in Seq(K) /\ NoDuplicates(r.m_sleep)
        /\ \A j : IsLinked(r.m_sleep, j) => IsLinked(s.m_sleep, j) /\ j # c.x
    BY <1>2, <1>5, <2>1, <2>2
  <2>4. SwrrOK(r, w)
    <3> HIDE DEF s, w
    <3> QED
      BY <1>1, <1>5, <2>1, <2>2, <2>3, JoinsLemma
  <2> QED
    BY <1>6, <2>1, <2>4
<1>8. CASE OnTaskWake(t, c)
  <2> DEFINE r == AddActive([s EXCEPT !.m_sleep = Unlink(@, c.x),
                                      !.current[c.x] = s.m_total_weight], c.x)
  <2>1. c.op = "OnTaskWake" /\ obj' = [obj EXCEPT ![c.o] = r] /\ c.x \in K
    BY <1>1, <1>8 DEF OnTaskWake, Set, TaskOps
  <2>2. /\ DOMAIN r = SwrrFields /\ r.kind = "swrr" /\ r.weight = w
        /\ r.m_tasks = Append(s.m_tasks, c.x) /\ r.m_sleep = Unlink(s.m_sleep, c.x)
        /\ r.m_total_weight = s.m_total_weight + w[c.x]
        /\ r.current = [s.current EXCEPT ![c.x] = s.m_total_weight]
    BY <1>2 DEF AddActive, SwrrFields
  <2> HIDE DEF r
  <2>3. /\ r.m_sleep \in Seq(K) /\ NoDuplicates(r.m_sleep)
        /\ \A j : IsLinked(r.m_sleep, j) <=> IsLinked(s.m_sleep, j) /\ j # c.x
    BY <1>2, <1>5, <2>1, <2>2, UnlinkLemma
  <2>4. SwrrOK(r, w)
    BY <1>1, <1>2, <1>5, <2>1, <2>2, <2>3, JoinsLemma
  <2> QED
    BY <1>6, <2>1, <2>4
<1>9. CASE OnTaskSleep(t, c)
  <2> DEFINE r == [RemoveActive(s, c.x) EXCEPT !.m_sleep = Append(@, c.x)]
  <2>1. c.op = "OnTaskSleep" /\ obj' = [obj EXCEPT ![c.o] = r] /\ c.x \in K
    BY <1>1, <1>9 DEF OnTaskSleep, Set, TaskOps
  <2>2. /\ DOMAIN r = SwrrFields /\ r.kind = "swrr" /\ r.weight = w
        /\ r.m_tasks = Unlink(s.m_tasks, c.x) /\ r.m_sleep = Append(s.m_sleep, c.x)
        /\ r.m_total_weight = s.m_total_weight - w[c.x]
        /\ r.current = [s.current EXCEPT ![c.x] = 0]
    BY <1>2 DEF RemoveActive, SwrrFields
  <2> HIDE DEF r
  <2>3. /\ r.m_sleep \in Seq(K) /\ NoDuplicates(r.m_sleep)
        /\ \A j : IsLinked(r.m_sleep, j) <=> IsLinked(s.m_sleep, j) \/ j = c.x
    BY <1>2, <1>5, <2>1, <2>2, AppendLemma
  <2>4. SwrrOK(r, w)
    <3>1. \A j : IsLinked(r.m_sleep, j) => IsLinked(s.m_sleep, j) \/ j = c.x
      BY <2>3
    <3> HIDE DEF s, w
    <3> QED
      BY <1>1, <1>5, <2>1, <2>2, <2>3, <3>1, LeavesLemma
  <2> QED
    BY <1>6, <2>1, <2>4
<1>10. CASE SwrrRemoveTask(t, c) /\ IsLinked(s.m_tasks, c.x)
  <2> DEFINE r == RemoveActive(s, c.x)
  <2>1. c.op = "SwrrRemoveTask" /\ obj' = [obj EXCEPT ![c.o] = r] /\ c.x \in K
    BY <1>1, <1>10 DEF SwrrRemoveTask, Set, TaskOps
  <2>2. /\ DOMAIN r = SwrrFields /\ r.kind = "swrr" /\ r.weight = w
        /\ r.m_tasks = Unlink(s.m_tasks, c.x) /\ r.m_sleep = s.m_sleep
        /\ r.m_total_weight = s.m_total_weight - w[c.x]
        /\ r.current = [s.current EXCEPT ![c.x] = 0]
    BY <1>2 DEF RemoveActive, SwrrFields
  <2> HIDE DEF r
  <2>3. SwrrOK(r, w)
    <3>1. /\ r.m_sleep \in Seq(K) /\ NoDuplicates(r.m_sleep)
          /\ \A j : IsLinked(r.m_sleep, j) => IsLinked(s.m_sleep, j) \/ j = c.x
      BY <1>2, <2>2
    <3> HIDE DEF s, w
    <3> QED
      BY <1>1, <1>10, <2>1, <2>2, <3>1, LeavesLemma
  <2> QED
    BY <1>6, <2>1, <2>3
<1>11. CASE SwrrRemoveTask(t, c) /\ ~IsLinked(s.m_tasks, c.x)
  <2> DEFINE r == [s EXCEPT !.m_sleep = Unlink(@, c.x)]
  <2>1. c.op = "SwrrRemoveTask" /\ obj' = [obj EXCEPT ![c.o] = r] /\ c.x \in K
    BY <1>1, <1>11 DEF SwrrRemoveTask, Set, TaskOps
  <2>2. /\ DOMAIN r = SwrrFields /\ r.kind = "swrr" /\ r.weight = w
        /\ r.m_tasks = s.m_tasks /\ r.m_sleep = Unlink(s.m_sleep, c.x)
        /\ r.m_total_weight = s.m_total_weight /\ r.current = s.current
    BY <1>2 DEF SwrrFields
  <2> HIDE DEF r
  <2>3. /\ r.m_sleep \in Seq(K) /\ NoDuplicates(r.m_sleep)
        /\ \A j : IsLinked(r.m_sleep, j) <=> IsLinked(s.m_sleep, j) /\ j # c.x
    BY <1>2, <1>5, <1>11, <2>1, <2>2, UnlinkLemma
  <2>4. ListsOK(r, w)
    BY <1>2, <2>2, <2>3 DEF ListsOK
  <2>5. WeightsOK(r, w)
    BY <1>1, <2>2 DEF SwrrOK, WeightsOK
  <2>6. SwrrOK(r, w)
    BY <2>2, <2>4, <2>5 DEF SwrrOK
  <2> QED
    BY <1>6, <2>1, <2>6
<1>12. CASE GetNext(t, c)
  <2>1. CASE s.m_tasks = <<>>
    BY <1>6, <1>12, <2>1 DEF GetNext
  <2>2. CASE s.m_tasks # <<>>
    <3> DEFINE r == [s EXCEPT !.current =
                        [Candidates(s) EXCEPT ![Selected(s)] = @ - s.m_total_weight]]
    <3>1. obj' = [obj EXCEPT ![c.o] = r]
      BY <1>12, <2>2 DEF GetNext, Set
    <3>2. /\ DOMAIN r = SwrrFields /\ r.kind = "swrr" /\ r.weight = w
          /\ r.m_tasks = s.m_tasks /\ r.m_sleep = s.m_sleep /\ r.m_total_weight = s.m_total_weight
          /\ r.current = [Candidates(s) EXCEPT ![Selected(s)] = @ - s.m_total_weight]
      BY <1>2 DEF SwrrFields
    <3> HIDE DEF r
    <3>3. SwrrOK(r, w)
      BY <1>1, <2>2, <3>2, ChoosesLemma
    <3> QED
      BY <1>6, <3>1, <3>3
  <2> QED
    BY <2>1, <2>2
<1>13. CASE SwrrGetFirst(t, c)
  BY <1>6, <1>13 DEF SwrrGetFirst, Answers
<1> QED
  BY <1>7, <1>8, <1>9, <1>10, <1>11, <1>12, <1>13 DEF SwrrStep

LEMMA SwrrNextLemma ==
    ASSUME SwrrOnly, SwrrInv, [Next]_vars
    PROVE  SwrrInv'
<1>1. scenario' = scenario /\ The' = The /\ \A o : WeightOf(o)' = WeightOf(o)
  BY DEF Next, vars, The, WeightOf
<1>2. ASSUME NEW t \in Tasks, Begin(t) PROVE SwrrInv'
  <2>1. PICK c \in The.calls[t] : CallerMay(t, c) /\ Step(t, c)
    BY <1>2 DEF Begin
  <2>2. c.op \in TaskOps \cup {"GetNext", "SwrrGetFirst"} /\ c.o \in DOMAIN obj
    BY <2>1 DEF SwrrOnly, SwrrProgram, SwrrInv
  <2>3. SwrrStep(t, c)
    BY <2>1, <2>2 DEF Step, NativeStep, Uses, SwrrOnly, SwrrProgram, Awake, TaskOps
  <2>4. /\ \/ obj' = obj
           \/ \E r : obj' = [obj EXCEPT ![c.o] = r] /\ SwrrOK(r, WeightOf(c.o))
        /\ call' = [call EXCEPT ![t] = NoCall]
    BY <2>1, <2>3, SwrrStepLemma
  <2>5. DOMAIN obj' = DOMAIN obj /\ \A o \in DOMAIN obj : SwrrOK(obj'[o], WeightOf(o))
    BY <2>2, <2>4 DEF SwrrInv
  <2>6. DOMAIN call' = Tasks /\ \A u \in Tasks : call'[u] = NoCall
    BY <2>4 DEF SwrrInv
  <2> QED
    BY <1>1, <2>5, <2>6 DEF SwrrInv
<1>3. ASSUME NEW t \in Tasks, Continue(t) PROVE FALSE
  BY <1>3 DEF Continue, Idle, SwrrInv
<1>4. CASE Tick
  BY <1>1, <1>4 DEF Tick, KernelTick, SwrrInv
<1>5. CASE UNCHANGED vars
  BY <1>1, <1>5 DEF vars, SwrrInv
<1> QED
  BY <1>2, <1>3, <1>4, <1>5 DEF Next

(* The bound that the budget of a single task gives *)
LEMMA SwrrBoundLemma ==
    ASSUME SwrrOnly, SwrrInv
    PROVE  CurrentWeightsBounded
<1> SUFFICES ASSUME NEW o \in Objects("swrr")
             PROVE  LET s == obj[o]
                        limit == Cardinality(DOMAIN s.weight) * SumOf(s.weight, DOMAIN s.weight)
                    IN  /\ s.m_total_weight = SumOf(s.weight, ToSet(s.m_tasks))
                        /\ \A k \in ToSet(s.m_tasks) : s.current[k] \in -limit..limit
  BY DEF CurrentWeightsBounded, SumOf
<1> DEFINE s == obj[o]
           w == WeightOf(o)
           n == Cardinality(DOMAIN w)
           a == All(w)
           limit == n * a
<1>1. o \in DOMAIN obj
  BY DEF Objects
<1>2. SwrrOK(s, w) /\ Weights(w)
  BY <1>1 DEF SwrrInv, SwrrOnly, SwrrProgram, WeightOf
<1> HIDE DEF s, w
<1>3. s.weight = w /\ s.m_total_weight = SumOf(w, ToSet(s.m_tasks))
  BY <1>2 DEF SwrrOK, WeightsOK
<1>4. ASSUME NEW k \in ToSet(s.m_tasks) PROVE s.current[k] \in -limit..limit
  <2>1. k \in DOMAIN w /\ s.current \in [DOMAIN w -> Int] /\ Within(s.current, ToSet(s.m_tasks), a, n)
    BY <1>2, ToSetLemma DEF SwrrOK, ListsOK, WeightsOK
  <2>2. a \in Nat /\ n \in Nat
    BY <1>2, WeighingLemma, FS_CardinalityType DEF Weights
  <2>3. Cardinality({k}) = 1 /\ IsFiniteSet({k})
    BY FS_Singleton
  <2>4. SumOf(s.current, {k}) = s.current[k]
    <3>1. {k} \ {k} = {} /\ s.current[k] \in Int
      BY <2>1
    <3>2. SumOf(s.current, {k}) = s.current[k] + SumOf(s.current, {k} \ {k})
      BY <2>3, <3>1, SumSplit
    <3> QED
      BY <3>1, <3>2, SumEmpty
  <2>5. Budget(a, n, 1) = 2 * limit /\ limit \in Int
    BY <2>2 DEF Budget
  <2>6. 2 * SumOf(s.current, {k}) <= Budget(a, n, 1) /\ -Budget(a, n, 1) <= 2 * SumOf(s.current, {k})
    BY <2>1, <2>3 DEF Within
  <2> HIDE DEF limit
  <2> QED
    BY <2>1, <2>4, <2>5, <2>6
<1> QED
  BY <1>3, <1>4 DEF s, All

(* The arithmetic of the smooth weighted round robin does not drift: however many
   tasks there are and whatever their weights, and however the kernel adds, removes,
   puts to sleep and wakes them, m_total_weight is the sum of the weights of the
   runnable tasks and a current weight stays within the number of tasks times the sum
   of all weights *)
THEOREM WeightsDoNotDrift == Spec => [](SwrrOnly => CurrentWeightsBounded)
<1>1. Init => (SwrrOnly => SwrrInv)
  BY SwrrInitLemma
<1>2. (SwrrOnly => SwrrInv) /\ [Next]_vars => (SwrrOnly => SwrrInv)'
  <2> SUFFICES ASSUME SwrrOnly => SwrrInv, [Next]_vars, SwrrOnly' PROVE SwrrInv'
    OBVIOUS
  <2>1. scenario' = scenario
    BY DEF Next, vars
  <2>2. SwrrOnly
    BY <2>1 DEF SwrrOnly, The
  <2> QED
    BY <2>2, SwrrNextLemma
<1>3. (SwrrOnly => SwrrInv) => (SwrrOnly => CurrentWeightsBounded)
  BY SwrrBoundLemma
<1> QED
  BY <1>1, <1>2, <1>3, PTL DEF Spec

-----------------------------------------------------------------------------
(* The heap *)
MessageMakes == {"xMessageBufferCreate", "xMessageBufferCreateWithCallback",
                 "xMessageBufferCreateStatic", "xMessageBufferCreateStaticWithCallback"}

StaticMakes == {"xMessageBufferCreateStatic", "xMessageBufferCreateStaticWithCallback"}

CmsisMakes == {"osThreadNew", "osTimerNew", "osEventFlagsNew", "osMutexNew", "osSemaphoreNew",
               "osMemoryPoolNew", "osMessageQueueNew"}

(* The other calls: what is free, and the identifier of a timer *)
LookOps == {"xPortGetFreeHeapSize", "xPortGetMinimumEverFreeHeapSize", "vPortGetHeapStats",
            "vTimerSetTimerID", "pvTimerGetTimerID"}

(* The handles the tasks of the program p make, and the names that are none *)
MadeBy(p, t) == {c.o : c \in {d \in p.calls[t] : d.op \in CreateOps}}
MadeIn(p) == UNION {MadeBy(p, t) : t \in Tasks}
PartsIn(p) == DOMAIN p.objects \ (MadeIn(p) \cup {"heap"})

(* A program that makes and deletes objects of the FreeRTOS and CMSIS interfaces, any number
   of them and in any order.  It begins with none, on a heap of any size.  A handle is made
   by one task, which has it from the call that makes it; the pool and the queue of a
   message buffer have no handles of their own *)
HeapProgram(p) ==
    /\ p.uses \cap {"CApi", "SmoothWeighted", "Monotonic"} = {}
    /\ IsFiniteSet(DOMAIN p.objects) /\ "heap" \in DOMAIN p.objects
    /\ \E n \in Nat : p.objects["heap"] = HeapObject(n)
    /\ \A o \in DOMAIN p.objects \ {"heap"} :
          p.objects[o] = NoObject \/ (o \in PartsIn(p) /\ \E n \in Nat : p.objects[o] = PipeObject(n))
    /\ \A t \in Tasks : \A c \in p.calls[t] :
          /\ c = Frame(c.op, c.o, c.x, NO_WAIT) /\ c.o \in DOMAIN p.objects
          /\ c.op \in CreateOps \cup DeleteOps \cup LookOps
          /\ c.op \in CreateOps => c.o # "heap"
          /\ c.op \in MessageMakes => c.x.pool \in PartsIn(p) /\ c.x.eq \in PartsIn(p)
          /\ c.op \in CmsisMakes => c.x.regions \in Nat
          /\ c.op \in DeleteOps => c.o \in MadeIn(p)
          /\ c.op = "vMessageBufferDelete" => c.x = "messages"
          /\ c.op \in {"xTimerDelete", "osTimerDelete"} => c.x = "timer"
          /\ c.op = "vTimerSetTimerID" => c.o \in MadeIn(p)
    /\ \A t, u \in Tasks : t # u => MadeBy(p, t) \cap MadeBy(p, u) = {}

(* The behaviour is one of such a program *)
HeapOnly == HeapProgram(The)

-----------------------------------------------------------------------------
(* The regions of each object, and those each constructor under way holds *)
Owned(ob) == [o \in DOMAIN ob |->
    IF o \in {k \in DOMAIN ob : ob[k].kind = "none"} \cup {"heap"} \/ "owned" \notin DOMAIN ob[o]
    THEN 0 ELSE ob[o].owned]

Held(calls) == [t \in Tasks |->
    IF calls[t] # NoCall /\ calls[t].op \in CreateOps THEN Got(calls[t].acc) ELSE 0]

HeapCounts(h) ==
    /\ h \in [kind: {"heap"}, capacity: Nat, allocated: Int, min_ever_free: Nat]
    /\ h.allocated <= h.capacity /\ h.min_ever_free <= GetAvailable(h)

HeapOK(h) == HeapCounts(h) /\ h.allocated \in Nat

(* An object that a handle stands for; its pool and its queue are among parts *)
Existing(parts, r) ==
    /\ {"kind", "owned"} \subseteq DOMAIN r /\ r.kind # "none" /\ r.owned \in Nat
    /\ r.kind = "messages" => /\ {"m_pool", "m_eq"} \subseteq DOMAIN r
                              /\ r.m_pool \in parts /\ r.m_eq \in parts
    /\ r.kind = "timer" => "m_active" \in DOMAIN r /\ r.m_active = FALSE

(* The arguments are refused *)
Rejects(c) ==
    \/ /\ c.op \in {"xQueueCreate", "xQueueCreateStatic"}
       /\ ~(c.x.length \in 1..CAPACITY_MAX /\ c.x.size # 0)
    \/ c.op = "xQueueCreateSet" /\ c.x.length \notin 1..CAPACITY_MAX
    \/ /\ c.op \in {"xSemaphoreCreateCounting", "xSemaphoreCreateCountingStatic"}
       /\ ~(c.x.max # 0 /\ c.x.initial <= c.x.max)
    \/ /\ c.op \in {"xStreamBufferCreate", "xStreamBufferCreateStatic",
                    "xStreamBufferCreateWithCallback", "xStreamBufferCreateStaticWithCallback"}
       /\ c.x.size = 0
    \/ c.op \in MessageMakes /\ (c.x.max = 0 \/ c.x.count = 0)
    \/ c.op = "pvPortMalloc" /\ c.x = 0
    \/ c.op \in {"xTimerCreate", "xTimerCreateStatic"} /\ c.x.period = 0
    \/ c.op = "osThreadNew" /\ ~ValidPriority(c.x.priority)
    \/ c.op = "osMutexNew" /\ c.x.robust
    \/ c.op = "osSemaphoreNew" /\ (c.x.max = 0 \/ c.x.initial > c.x.max)
    \/ c.op = "osMemoryPoolNew" /\ (c.x.count = 0 \/ c.x.size = 0)
    \/ c.op = "osMessageQueueNew" /\ (c.x.count \notin 1..CAPACITY_MAX \/ c.x.size = 0)

FieldNames == {"op", "o", "x", "ticks", "blocked", "deadline", "acc", "then"}

(* A constructor that t has under way: a message buffer may miss a region, the others
   do not, and a static one takes one step *)
Constructing(p, t, d) ==
    /\ DOMAIN d = FieldNames /\ d.then = NoCall /\ d.op \in CreateOps /\ d.o \in MadeBy(p, t)
    /\ d.acc \in Seq({0, 1}) /\ ~Rejects(d)
    /\ d.op \notin MessageMakes => d.acc \in Seq({1})
    /\ d.op \in MessageMakes => d.x.pool \in PartsIn(p) /\ d.x.eq \in PartsIn(p)
    /\ d.op \notin StaticMakes
    /\ d.op \in CmsisMakes => d.x.regions \in Nat

(* The objects ob and the frames calls of the program p, and the balance of the heap *)
HeapState(p, ob, calls) ==
    /\ DOMAIN ob = DOMAIN p.objects
    /\ HeapOK(ob["heap"])
    /\ \A o \in MadeIn(p) : ob[o] = NoObject \/ Existing(PartsIn(p), ob[o])
    /\ \A o \in PartsIn(p) : "owned" \notin DOMAIN ob[o]
    /\ DOMAIN calls = Tasks
    /\ \A t \in Tasks :
          calls[t] = NoCall \/ (Constructing(p, t, calls[t]) /\ ob[calls[t].o] = NoObject)
    /\ ob["heap"].allocated = SumOf(Owned(ob), DOMAIN ob) + SumOf(Held(calls), Tasks)

HeapInv == HeapState(The, obj, call)

-----------------------------------------------------------------------------
(* What a step of such a program does *)
HeapOps == CreateOps \cup DeleteOps \cup LookOps

(* The frame of a call, new or going on *)
HeapCall(c) ==
    /\ DOMAIN c = FieldNames /\ c.then = NoCall /\ c.op \in HeapOps
    /\ c.op \in CmsisMakes => c.x.regions \in Nat
    /\ c.op \in {"xTimerDelete", "osTimerDelete"} => obj[c.o].m_active = FALSE

(* An object as its constructor leaves it, before it is told what it owns *)
AsMade(r) ==
    /\ "kind" \in DOMAIN r /\ "owned" \notin DOMAIN r /\ r.kind \notin {"none", "messages"}
    /\ r.kind = "timer" => "m_active" \in DOMAIN r /\ r.m_active = FALSE

(* d is the frame c, or that of the function c delegates to *)
GoesTo(c, d) ==
    /\ DOMAIN d = FieldNames /\ d.o = c.o /\ d.x = c.x /\ d.acc = c.acc /\ d.then = c.then
    /\ c.op \in CreateOps \ MessageMakes /\ d.op \in CreateOps \ MessageMakes
    /\ d.op \in CmsisMakes => c.op \in CmsisMakes
    /\ ~Rejects(d)

Builds(t, c) ==
    \E d, r : \E n \in Nat : GoesTo(c, d) /\ AsMade(r) /\ Construct(t, d, n, r)

BuildsMessages(t, c) ==
    /\ c.op \in MessageMakes
    /\ \/ c.op \notin StaticMakes /\ \E valid \in SUBSET {2, 3} : ConstructMessageBuffer(t, c, valid)
       \/ c.op \in StaticMakes /\ ConstructStatic(t, c)

Deletes(t, c) == c.op \in DeleteOps /\ ObjFree(t, c)

OnlyLooks(t, c) == (c.op \in LookOps \/ Rejects(c)) /\ Goto(t, c.then) /\ obj' = obj

HeapEffect(t, c) ==
    \/ Builds(t, c) \/ BuildsMessages(t, c) \/ Deletes(t, c) \/ vMessageBufferDelete(t, c)
    \/ OnlyLooks(t, c) \/ vTimerSetTimerID(t, c)

(* The objects of the interfaces *)
LEMMA FreshObjects ==
    /\ \A n : AsMade(FrtosQueue(n)) /\ AsMade(FrtosQueueSet(n)) /\ AsMade(RingObject("queue", n))
    /\ \A n, m : AsMade(FrtosSemaphore(n, m)) /\ AsMade(SemaphoreObject(n, m)) /\ AsMade(PoolObject(n, m))
    /\ AsMade(MutexObject) /\ \A f : AsMade(EventFlagsObject(f))
    /\ \A x : AsMade(FrtosTask(x)) /\ AsMade(FrtosStreamBuffer(x)) /\ AsMade(FrtosTimer(x))
    /\ \A x : AsMade(StkThread(x)) /\ AsMade(StkTimer(x))
    /\ AsMade([kind |-> "memory"])
<1>1. \A n : AsMade(FrtosQueue(n)) /\ AsMade(FrtosQueueSet(n)) /\ AsMade(RingObject("queue", n))
  BY DEF AsMade, FrtosQueue, FrtosQueueSet, RingObject, Extended
<1>2. \A n, m : AsMade(FrtosSemaphore(n, m)) /\ AsMade(SemaphoreObject(n, m)) /\ AsMade(PoolObject(n, m))
  BY DEF AsMade, FrtosSemaphore, SemaphoreObject, PoolObject, Extended
<1>3. AsMade(MutexObject) /\ \A f : AsMade(EventFlagsObject(f))
  BY DEF AsMade, MutexObject, EventFlagsObject
<1>4. \A x : AsMade(FrtosTask(x)) /\ AsMade(FrtosStreamBuffer(x)) /\ AsMade(FrtosTimer(x))
  BY DEF AsMade, FrtosTask, FrtosStreamBuffer, PipeObject, RingObject, FrtosTimer, TimerObject,
         Extended
<1>5. \A x : AsMade(StkThread(x)) /\ AsMade(StkTimer(x))
  BY DEF AsMade, StkThread, StkTimer, TimerObject, Extended
<1>6. AsMade([kind |-> "memory"])
  BY DEF AsMade
<1> QED
  BY <1>1, <1>2, <1>3, <1>4, <1>5, <1>6

LEMMA BuildsLemma ==
    ASSUME NEW t, NEW c, HeapCall(c), c.op \in CreateOps \ MessageMakes,
           ~Rejects(c), NEW n \in Nat, NEW r, AsMade(r), Construct(t, c, n, r)
    PROVE  HeapEffect(t, c)
BY DEF HeapEffect, Builds, GoesTo, HeapCall

(* A function that is another one under a name of its own *)
LEMMA DelegatesLemma ==
    ASSUME NEW t, NEW c, HeapCall(c), c.op \in CreateOps \ (MessageMakes \cup CmsisMakes),
           NEW op \in {"xSemaphoreCreateMutex", "xSemaphoreCreateMutexStatic", "xTaskCreate",
                       "xTaskCreateStatic"},
           NEW n \in Nat, NEW r, AsMade(r), Construct(t, Then(c, op), n, r)
    PROVE  HeapEffect(t, c)
<1>1. GoesTo(c, Then(c, op))
  BY DEF GoesTo, HeapCall, Then, FieldNames, CreateOps, MessageMakes, CmsisMakes, Rejects
<1> QED
  BY <1>1 DEF HeapEffect, Builds

LEMMA LooksLemma ==
    ASSUME NEW t, NEW c, NEW v, c.op \in LookOps \/ Rejects(c), Refuse(t, c) \/ Answers(t, c, v)
    PROVE  HeapEffect(t, c)
BY DEF HeapEffect, OnlyLooks, Refuse, Answers, Return

LEMMA FreesLemma ==
    ASSUME NEW t, NEW c, c.op \in DeleteOps, ObjFree(t, c)
    PROVE  HeapEffect(t, c)
BY DEF HeapEffect, Deletes

LEMMA QueueHeapEffect ==
    ASSUME NEW t, NEW c, HeapCall(c), FreeRTOSQueueStep(t, c)
    PROVE  HeapEffect(t, c)
<1>1. CASE xQueueCreate(t, c) \/ xQueueCreateStatic(t, c) \/ xQueueCreateSet(t, c)
  BY <1>1, BuildsLemma, LooksLemma, FreshObjects
     DEF xQueueCreate, xQueueCreateStatic, xQueueCreateSet, CreateOps, MessageMakes, Rejects
<1>2. CASE \/ xSemaphoreCreateBinary(t, c) \/ xSemaphoreCreateBinaryStatic(t, c)
           \/ xSemaphoreCreateCounting(t, c) \/ xSemaphoreCreateCountingStatic(t, c)
           \/ xSemaphoreCreateMutex(t, c) \/ xSemaphoreCreateMutexStatic(t, c)
  BY <1>2, BuildsLemma, LooksLemma, FreshObjects
     DEF xSemaphoreCreateBinary, xSemaphoreCreateBinaryStatic, xSemaphoreCreateCounting,
         xSemaphoreCreateCountingStatic, xSemaphoreCreateMutex, xSemaphoreCreateMutexStatic,
         CreateOps, MessageMakes, Rejects
<1>3. CASE xSemaphoreCreateRecursiveMutex(t, c) \/ xSemaphoreCreateRecursiveMutexStatic(t, c)
  BY <1>3, DelegatesLemma, FreshObjects
     DEF xSemaphoreCreateRecursiveMutex, xSemaphoreCreateRecursiveMutexStatic,
         xSemaphoreCreateMutex, xSemaphoreCreateMutexStatic, CreateOps, MessageMakes, CmsisMakes, Rejects
<1>4. CASE vQueueDelete(t, c) \/ vSemaphoreDelete(t, c)
  BY <1>4, FreesLemma DEF vQueueDelete, vSemaphoreDelete, DeleteOps
<1>5. CASE \/ QueueSetNotify(t, c) \/ xQueueSend(t, c) \/ xQueueSendToFront(t, c)
           \/ xQueueReceive(t, c) \/ xQueuePeek(t, c) \/ xQueuePeekFromISR(t, c)
           \/ uxQueueMessagesWaiting(t, c) \/ uxQueueSpacesAvailable(t, c) \/ xQueueReset(t, c)
           \/ xQueueOverwrite(t, c) \/ OverwritePut(t, c) \/ OverwriteNotify(t, c)
           \/ xQueueOverwriteFromISR(t, c) \/ xQueueSendFromISR(t, c)
           \/ xQueueReceiveFromISR(t, c) \/ xQueueSendToFrontFromISR(t, c)
           \/ xQueueIsQueueEmptyFromISR(t, c) \/ xQueueIsQueueFullFromISR(t, c)
  BY <1>5 DEF HeapCall, HeapOps, CreateOps, DeleteOps, LookOps, QueueSetNotify, xQueueSend,
       xQueueSendToFront, xQueueReceive, xQueuePeek, xQueuePeekFromISR, uxQueueMessagesWaiting,
       uxQueueSpacesAvailable, xQueueReset, xQueueOverwrite, OverwritePut, OverwriteNotify,
       xQueueOverwriteFromISR, xQueueSendFromISR, xQueueReceiveFromISR, xQueueSendToFrontFromISR,
       xQueueIsQueueEmptyFromISR, xQueueIsQueueFullFromISR
<1>6. CASE \/ xQueueAddToSet(t, c) \/ xQueueRemoveFromSet(t, c)
           \/ xQueueSelectFromSet(t, c) \/ xQueueSelectFromSetFromISR(t, c)
           \/ xSemaphoreTake(t, c) \/ xSemaphoreTakeFromISR(t, c)
           \/ xSemaphoreGive(t, c) \/ xSemaphoreGiveFromISR(t, c) \/ uxSemaphoreGetCount(t, c)
           \/ xSemaphoreGetMutexHolder(t, c) \/ xSemaphoreGetMutexHolderFromISR(t, c)
           \/ xQueueGetMutexHolder(t, c) \/ xQueueGetMutexHolderFromISR(t, c)
  BY <1>6 DEF HeapCall, HeapOps, CreateOps, DeleteOps, LookOps, xQueueAddToSet,
       xQueueRemoveFromSet, xQueueSelectFromSet, xQueueSelectFromSetFromISR, xSemaphoreTake,
       xSemaphoreTakeFromISR, xSemaphoreGive, xSemaphoreGiveFromISR, uxSemaphoreGetCount,
       xSemaphoreGetMutexHolder, xSemaphoreGetMutexHolderFromISR, xQueueGetMutexHolder,
       xQueueGetMutexHolderFromISR
<1> QED
  BY <1>1, <1>2, <1>3, <1>4, <1>5, <1>6
     DEF FreeRTOSQueueStep, QueueCalls, QueueSetCalls, SemaphoreCalls

LEMMA TaskHeapEffect ==
    ASSUME NEW t, NEW c, HeapCall(c), FreeRTOSTaskStep(t, c)
    PROVE  HeapEffect(t, c)
<1>1. CASE \/ xTaskCreate(t, c) \/ xTaskCreateStatic(t, c) \/ xEventGroupCreate(t, c)
           \/ xEventGroupCreateStatic(t, c)
  BY <1>1, BuildsLemma, FreshObjects
     DEF xTaskCreate, xTaskCreateStatic, xEventGroupCreate, xEventGroupCreateStatic,
         FrtosEventGroup, CreateOps, MessageMakes, Rejects
<1>2. CASE \/ xTaskCreateRestricted(t, c) \/ xTaskCreateRestrictedStatic(t, c)
  BY <1>2, DelegatesLemma, FreshObjects
     DEF xTaskCreateRestricted, xTaskCreateRestrictedStatic, xTaskCreate, xTaskCreateStatic,
         CreateOps, MessageMakes, CmsisMakes, Rejects
<1>3. CASE \/ vTaskDelete(t, c) \/ vEventGroupDelete(t, c)
  BY <1>3, FreesLemma DEF vTaskDelete, vEventGroupDelete, DeleteOps
<1>4. CASE \/ vTaskSuspend(t, c) \/ SuspendState(t, c) \/ vTaskResume(t, c)
           \/ xTaskResumeFromISR(t, c) \/ xTaskAbortDelay(t, c) \/ vTaskDelay(t, c)
           \/ xTaskDelayUntil(t, c) \/ vTaskPrioritySet(t, c) \/ uxTaskPriorityGet(t, c)
           \/ eTaskGetState(t, c) \/ vTaskSetThreadLocalStoragePointer(t, c)
           \/ pvTaskGetThreadLocalStoragePointer(t, c)
  BY <1>4
     DEF vTaskSuspend, SuspendState, vTaskResume, xTaskResumeFromISR, xTaskAbortDelay,
         vTaskDelay, xTaskDelayUntil, vTaskPrioritySet, uxTaskPriorityGet, eTaskGetState,
         vTaskSetThreadLocalStoragePointer, pvTaskGetThreadLocalStoragePointer, HeapCall,
         HeapOps, CreateOps, DeleteOps, LookOps
<1>5. CASE \/ xTaskNotifyGiveIndexed(t, c) \/ ulTaskNotifyTakeIndexed(t, c)
           \/ NotifyTaken(t, c) \/ xTaskNotifyIndexed(t, c) \/ xTaskNotifyWaitIndexed(t, c)
           \/ NotifyWaited(t, c) \/ xTaskNotifyAndQueryIndexed(t, c)
           \/ xTaskNotifyStateClearIndexed(t, c) \/ ulTaskNotifyValueClearIndexed(t, c)
  BY <1>5
     DEF xTaskNotifyGiveIndexed, ulTaskNotifyTakeIndexed, NotifyTaken, xTaskNotifyIndexed,
         xTaskNotifyWaitIndexed, NotifyWaited, xTaskNotifyAndQueryIndexed,
         xTaskNotifyStateClearIndexed, ulTaskNotifyValueClearIndexed, HeapCall, HeapOps,
         CreateOps, DeleteOps, LookOps
<1>6. CASE \/ xTaskNotifyFromISRIndexed(t, c) \/ xTaskNotifyGive(t, c)
           \/ ulTaskNotifyTake(t, c) \/ xTaskNotify(t, c) \/ xTaskNotifyWait(t, c)
           \/ xTaskNotifyFromISR(t, c) \/ xTaskNotifyAndQuery(t, c)
           \/ xTaskNotifyAndQueryFromISRIndexed(t, c) \/ xTaskNotifyAndQueryFromISR(t, c)
           \/ xTaskNotifyStateClear(t, c) \/ ulTaskNotifyValueClear(t, c)
  BY <1>6
     DEF xTaskNotifyFromISRIndexed, xTaskNotifyGive, ulTaskNotifyTake, xTaskNotify,
         xTaskNotifyWait, xTaskNotifyFromISR, xTaskNotifyAndQuery,
         xTaskNotifyAndQueryFromISRIndexed, xTaskNotifyAndQueryFromISR, xTaskNotifyStateClear,
         ulTaskNotifyValueClear, HeapCall, HeapOps, CreateOps, DeleteOps, LookOps
<1>7. CASE \/ xEventGroupSetBits(t, c) \/ xEventGroupClearBits(t, c)
           \/ xEventGroupGetBits(t, c) \/ xEventGroupWaitBits(t, c)
           \/ WaitBitsSnapshot(t, c) \/ xEventGroupSetBitsFromISR(t, c)
           \/ xEventGroupClearBitsFromISR(t, c) \/ xEventGroupSync(t, c) \/ SyncWait(t, c)
  BY <1>7
     DEF xEventGroupSetBits, xEventGroupClearBits, xEventGroupGetBits, xEventGroupWaitBits,
         WaitBitsSnapshot, xEventGroupSetBitsFromISR, xEventGroupClearBitsFromISR,
         xEventGroupSync, SyncWait, HeapCall, HeapOps, CreateOps, DeleteOps, LookOps
<1> QED
  BY <1>1, <1>2, <1>3, <1>4, <1>5, <1>6, <1>7
     DEF FreeRTOSTaskStep, TaskCalls, NotifyCalls, SlotZeroCalls, EventGroupCalls

LEMMA BufferHeapEffect ==
    ASSUME NEW t, NEW c, HeapCall(c), FreeRTOSBufferStep(t, c)
    PROVE  HeapEffect(t, c)
<1>1. CASE \/ xStreamBufferCreate(t, c) \/ xStreamBufferCreateStatic(t, c)
           \/ xStreamBufferCreateWithCallback(t, c)
           \/ xStreamBufferCreateStaticWithCallback(t, c)
  BY <1>1, BuildsLemma, LooksLemma, FreshObjects
     DEF xStreamBufferCreate, xStreamBufferCreateStatic, xStreamBufferCreateWithCallback,
         xStreamBufferCreateStaticWithCallback, CreateOps, MessageMakes, Rejects
<1>2. CASE \/ xMessageBufferCreate(t, c) \/ xMessageBufferCreateWithCallback(t, c)
           \/ xMessageBufferCreateStatic(t, c)
           \/ xMessageBufferCreateStaticWithCallback(t, c)
  BY <1>2
     DEF xMessageBufferCreate, xMessageBufferCreateWithCallback, xMessageBufferCreateStatic,
         xMessageBufferCreateStaticWithCallback, HeapEffect, BuildsMessages, MessageMakes,
         StaticMakes
<1>3. CASE vStreamBufferDelete(t, c)
  BY <1>3, FreesLemma DEF vStreamBufferDelete, DeleteOps
<1>4. CASE vMessageBufferDelete(t, c)
  BY <1>4 DEF HeapEffect
<1>5. CASE \/ xStreamBufferSend(t, c) \/ xStreamBufferSendFromISR(t, c)
           \/ xStreamBufferReceive(t, c) \/ xStreamBufferReceiveFromISR(t, c)
           \/ xStreamBufferReset(t, c) \/ xStreamBufferResetFromISR(t, c)
           \/ xStreamBufferSetTriggerLevel(t, c) \/ xStreamBufferBytesAvailable(t, c)
           \/ xStreamBufferSpacesAvailable(t, c) \/ xStreamBufferIsEmpty(t, c)
           \/ xStreamBufferIsFull(t, c) \/ xStreamBufferGetTriggerLevel(t, c)
           \/ xStreamBufferNextMessageLengthBytes(t, c)
  BY <1>5
     DEF xStreamBufferSend, xStreamBufferSendFromISR, xStreamBufferReceive,
         xStreamBufferReceiveFromISR, xStreamBufferReset, xStreamBufferResetFromISR,
         xStreamBufferSetTriggerLevel, xStreamBufferBytesAvailable,
         xStreamBufferSpacesAvailable, xStreamBufferIsEmpty, xStreamBufferIsFull,
         xStreamBufferGetTriggerLevel, xStreamBufferNextMessageLengthBytes, HeapCall, HeapOps,
         CreateOps, DeleteOps, LookOps
<1>6. CASE \/ xMessageBufferSend(t, c) \/ xMessageBufferSendFromISR(t, c)
           \/ MessagePut(t, c) \/ MessageSent(t, c) \/ xMessageBufferReceive(t, c)
           \/ xMessageBufferReceiveFromISR(t, c) \/ MessageGot(t, c)
           \/ MessageGotFromISR(t, c) \/ xMessageBufferReset(t, c)
           \/ xMessageBufferResetFromISR(t, c) \/ ResetFree(t, c)
           \/ xMessageBufferNextLengthBytes(t, c) \/ xMessageBufferIsEmpty(t, c)
           \/ xMessageBufferIsFull(t, c) \/ xMessageBufferSpacesAvailable(t, c)
  BY <1>6
     DEF xMessageBufferSend, xMessageBufferSendFromISR, MessagePut, MessageSent,
         xMessageBufferReceive, xMessageBufferReceiveFromISR, MessageGot, MessageGotFromISR,
         xMessageBufferReset, xMessageBufferResetFromISR, ResetFree,
         xMessageBufferNextLengthBytes, xMessageBufferIsEmpty, xMessageBufferIsFull,
         xMessageBufferSpacesAvailable, HeapCall, HeapOps, CreateOps, DeleteOps, LookOps
<1> QED
  BY <1>1, <1>2, <1>3, <1>4, <1>5, <1>6
     DEF FreeRTOSBufferStep, StreamBufferCalls, MessageBufferCalls

LEMMA TimerHeapEffect ==
    ASSUME NEW t, NEW c, HeapCall(c), FreeRTOSTimerStep(t, c)
    PROVE  HeapEffect(t, c)
<1>1. CASE \/ xTimerCreate(t, c) \/ xTimerCreateStatic(t, c)
  BY <1>1, BuildsLemma, LooksLemma, FreshObjects
     DEF xTimerCreate, xTimerCreateStatic, CreateOps, MessageMakes, Rejects
<1>2. CASE xTimerDelete(t, c)
  BY <1>2, FreesLemma DEF xTimerDelete, HeapCall, DeleteOps
<1>3. CASE pvTimerGetTimerID(t, c)
  BY <1>3, LooksLemma DEF pvTimerGetTimerID, LookOps
<1>4. CASE vTimerSetTimerID(t, c)
  BY <1>4 DEF HeapEffect
<1>5. CASE \/ TimerDeleted(t, c) \/ xTimerStart(t, c) \/ xTimerStop(t, c)
           \/ xTimerReset(t, c) \/ xTimerChangePeriod(t, c) \/ xTimerStartFromISR(t, c)
           \/ xTimerStopFromISR(t, c) \/ xTimerResetFromISR(t, c)
           \/ xTimerChangePeriodFromISR(t, c) \/ xTimerGetExpiryTime(t, c)
           \/ xTimerIsTimerActive(t, c) \/ xTimerGetPeriod(t, c)
  BY <1>5
     DEF TimerDeleted, xTimerStart, xTimerStop, xTimerReset, xTimerChangePeriod,
         xTimerStartFromISR, xTimerStopFromISR, xTimerResetFromISR, xTimerChangePeriodFromISR,
         xTimerGetExpiryTime, xTimerIsTimerActive, xTimerGetPeriod, HeapCall, HeapOps,
         CreateOps, DeleteOps, LookOps
<1>6. CASE \/ xTimerPendFunctionCall(t, c) \/ xTimerPendFunctionCallFromISR(t, c)
           \/ EnsurePendDrainer(t, c) \/ KickPendDrainerFromISR(t, c) \/ Pended(t, c)
           \/ DrainPend(t, c) \/ DrainedCall(t, c)
  BY <1>6
     DEF xTimerPendFunctionCall, xTimerPendFunctionCallFromISR, EnsurePendDrainer,
         KickPendDrainerFromISR, Pended, DrainPend, DrainedCall, HeapCall, HeapOps, CreateOps,
         DeleteOps, LookOps
<1> QED
  BY <1>1, <1>2, <1>3, <1>4, <1>5, <1>6 DEF FreeRTOSTimerStep, FrtosTimerCalls, PendCalls

LEMMA HeapCallsEffect ==
    ASSUME NEW t, NEW c, HeapCall(c), HeapCalls(t, c)
    PROVE  HeapEffect(t, c)
<1>1. CASE pvPortMalloc(t, c)
  BY <1>1, BuildsLemma, LooksLemma, FreshObjects DEF pvPortMalloc, CreateOps, MessageMakes, Rejects
<1>2. CASE vPortFree(t, c)
  BY <1>2, FreesLemma DEF vPortFree, DeleteOps
<1>3. CASE \/ xPortGetFreeHeapSize(t, c) \/ xPortGetMinimumEverFreeHeapSize(t, c)
           \/ vPortGetHeapStats(t, c)
  BY <1>3, LooksLemma
     DEF xPortGetFreeHeapSize, xPortGetMinimumEverFreeHeapSize, vPortGetHeapStats, LookOps
<1> QED
  BY <1>1, <1>2, <1>3 DEF HeapCalls

LEMMA CmsisHeapEffect ==
    ASSUME NEW t, NEW c, HeapCall(c), CmsisStep(t, c)
    PROVE  HeapEffect(t, c)
<1>1. CASE \/ osThreadNew(t, c) \/ osEventFlagsNew(t, c) \/ osTimerNew(t, c)
           \/ osMutexNew(t, c)
  BY <1>1, BuildsLemma, LooksLemma, FreshObjects
     DEF osThreadNew, osEventFlagsNew, osTimerNew, osMutexNew, PlacementNewOrHeap, HeapCall,
         CmsisMakes, StkEventFlags, StkMutex, CreateOps, MessageMakes, Rejects
<1>2. CASE \/ osSemaphoreNew(t, c) \/ osMemoryPoolNew(t, c) \/ osMessageQueueNew(t, c)
  BY <1>2, BuildsLemma, LooksLemma, FreshObjects
     DEF osSemaphoreNew, osMemoryPoolNew, osMessageQueueNew, PlacementNewOrHeap, HeapCall,
         CmsisMakes, StkSemaphore, StkMemPool, StkMessageQueue, CreateOps, MessageMakes, Rejects
<1>3. CASE \/ osEventFlagsDelete(t, c) \/ osMutexDelete(t, c) \/ osSemaphoreDelete(t, c)
           \/ osMemoryPoolDelete(t, c) \/ osMessageQueueDelete(t, c)
  BY <1>3, FreesLemma
     DEF osEventFlagsDelete, osMutexDelete, osSemaphoreDelete, osMemoryPoolDelete,
         osMessageQueueDelete, ObjDestroy, DeleteOps
<1>4. CASE osTimerDelete(t, c)
  BY <1>4, FreesLemma DEF osTimerDelete, ObjDestroy, HeapCall, DeleteOps
<1>5. CASE \/ osKernelLock(t, c) \/ osKernelUnlock(t, c) \/ osKernelRestoreLock(t, c)
  BY <1>5
     DEF osKernelLock, osKernelUnlock, osKernelRestoreLock, HeapCall, HeapOps, CreateOps,
         DeleteOps, LookOps
<1>6. CASE \/ osThreadGetState(t, c) \/ osThreadSetPriority(t, c)
           \/ osThreadGetPriority(t, c) \/ osThreadSuspend(t, c) \/ osThreadResume(t, c)
           \/ osThreadDetach(t, c) \/ osThreadJoin(t, c) \/ JoinWait(t, c)
           \/ osThreadExit(t, c) \/ OnExit(t, c) \/ osThreadTerminate(t, c) \/ osDelay(t, c)
           \/ osDelayUntil(t, c)
  BY <1>6
     DEF osThreadGetState, osThreadSetPriority, osThreadGetPriority, osThreadSuspend,
         osThreadResume, osThreadDetach, osThreadJoin, JoinWait, osThreadExit, OnExit,
         osThreadTerminate, osDelay, osDelayUntil, HeapCall, HeapOps, CreateOps, DeleteOps,
         LookOps
<1>7. CASE \/ FlagsResult(t, c) \/ osThreadFlagsSet(t, c) \/ osThreadFlagsClear(t, c)
           \/ osThreadFlagsGet(t, c) \/ osThreadFlagsWait(t, c) \/ osEventFlagsSet(t, c)
           \/ osEventFlagsClear(t, c) \/ osEventFlagsGet(t, c) \/ osEventFlagsWait(t, c)
  BY <1>7
     DEF FlagsResult, osThreadFlagsSet, osThreadFlagsClear, osThreadFlagsGet,
         osThreadFlagsWait, osEventFlagsSet, osEventFlagsClear, osEventFlagsGet,
         osEventFlagsWait, HeapCall, HeapOps, CreateOps, DeleteOps, LookOps
<1>8. CASE \/ osTimerStart(t, c) \/ osTimerStop(t, c) \/ osTimerIsRunning(t, c)
           \/ TimerDestroy(t, c)
  BY <1>8
     DEF osTimerStart, osTimerStop, osTimerIsRunning, TimerDestroy, HeapCall, HeapOps,
         CreateOps, DeleteOps, LookOps
<1>9. CASE \/ osMutexAcquire(t, c) \/ osMutexRelease(t, c) \/ osMutexGetOwner(t, c)
           \/ osSemaphoreAcquire(t, c) \/ osSemaphoreRelease(t, c)
           \/ osSemaphoreGetCount(t, c)
  BY <1>9
     DEF osMutexAcquire, osMutexRelease, osMutexGetOwner, osSemaphoreAcquire,
         osSemaphoreRelease, osSemaphoreGetCount, HeapCall, HeapOps, CreateOps, DeleteOps,
         LookOps
<1>10. CASE \/ osMemoryPoolAlloc(t, c) \/ osMemoryPoolFree(t, c)
           \/ osMemoryPoolGetCount(t, c) \/ osMemoryPoolGetSpace(t, c)
           \/ osMessageQueuePut(t, c) \/ osMessageQueueGet(t, c)
           \/ osMessageQueueGetCount(t, c) \/ osMessageQueueGetSpace(t, c)
           \/ osMessageQueueReset(t, c)
  BY <1>10
     DEF osMemoryPoolAlloc, osMemoryPoolFree, osMemoryPoolGetCount, osMemoryPoolGetSpace,
         osMessageQueuePut, osMessageQueueGet, osMessageQueueGetCount, osMessageQueueGetSpace,
         osMessageQueueReset, HeapCall, HeapOps, CreateOps, DeleteOps, LookOps
<1> QED
  BY <1>1, <1>2, <1>3, <1>4, <1>5, <1>6, <1>7, <1>8, <1>9, <1>10
     DEF CmsisStep, KernelCalls, ThreadCalls, FlagsCalls, CmsisTimerCalls, LockCalls,
         StorageCalls

(* The native methods are not called *)
LEMMA NoNativeCall ==
    ASSUME NEW t, NEW c, c.op \in HeapOps,
           The.uses \cap {"CApi", "SmoothWeighted", "Monotonic"} = {}
    PROVE  ~NativeStep(t, c)
<1>1. ~SemaphoreStep(t, c)
  <2>1. c.op \notin {"SemaphoreWait", "SemaphoreSignal", "EventSet", "EventReset",
                    "EventPulse", "EventWait", "MutexLock", "MutexUnlock"}
    BY DEF HeapOps, CreateOps, DeleteOps, LookOps
  <2> QED
    BY <2>1 DEF SemaphoreStep, SemaphoreWait, SemaphoreSignal, EventSet, EventReset,
           EventPulse, EventWait, MutexLock, MutexUnlock
<1>2. ~EventFlagsStep(t, c)
  <2>1. c.op \notin {"EventFlagsSet", "EventFlagsClear", "EventFlagsGet", "EventFlagsWait",
                    "EventFlagsWaitLoop"}
    BY DEF HeapOps, CreateOps, DeleteOps, LookOps
  <2> QED
    BY <2>1 DEF EventFlagsStep, EventFlagsSet, EventFlagsClear, EventFlagsGet, EventFlagsWait,
           EventFlagsWaitLoop
<1>3. ~MessageQueueStep(t, c)
  <2>1. c.op \notin {"MessageQueuePut", "MessageQueuePutFront", "MessageQueueGet",
                    "MessageQueuePeek", "MessageQueueReset"}
    BY DEF HeapOps, CreateOps, DeleteOps, LookOps
  <2> QED
    BY <2>1 DEF MessageQueueStep, MessageQueuePut, MessageQueuePutFront, MessageQueueGet,
           MessageQueuePeek, MessageQueueReset
<1>4. ~PipeStep(t, c)
  <2>1. c.op \notin {"PipeWrite", "PipeRead", "PipeReset", "PipeWriteBulk", "PipeWriteLoop",
                    "PipeReadBulk", "PipeReadLoop", "PipeReadTriggered", "PipeTriggerLoop",
                    "PipeTWrite", "PipeTRead", "PipeTReset", "PipeTWriteBulk", "PipeTReadBulk"}
    BY DEF HeapOps, CreateOps, DeleteOps, LookOps
  <2> QED
    BY <2>1 DEF PipeStep, PipeWrite, PipeRead, PipeReset, PipeWriteBulk, PipeWriteLoop,
           PipeReadBulk, PipeReadLoop, PipeReadTriggered, PipeTriggerLoop, PipeTWrite,
           PipeTRead, PipeTReset, PipeTWriteBulk, PipeTReadBulk
<1>5. ~PoolStep(t, c)
  <2>1. c.op \notin {"PoolAlloc", "PoolFree"}
    BY DEF HeapOps, CreateOps, DeleteOps, LookOps
  <2> QED
    BY <2>1 DEF PoolStep, PoolAlloc, PoolFree
<1>6. ~CvStep(t, c)
  <2>1. c.op \notin {"CvWait", "CvSleep", "CvUnlock", "CvRelock", "CvResult", "CvNotifyOne",
                    "CvNotifyAll"}
    BY DEF HeapOps, CreateOps, DeleteOps, LookOps
  <2> QED
    BY <2>1 DEF CvStep, CvWait, CvSleep, CvUnlock, CvRelock, CvResult, CvNotifyOne, CvNotifyAll
<1>7. ~SpinLockStep(t, c)
  <2>1. c.op \notin {"SpinLockLock", "SpinLockTryLock", "SpinAcquire", "SpinTry", "MakeLocked",
                    "SpinLockUnlock", "SpinRelease"}
    BY DEF HeapOps, CreateOps, DeleteOps, LookOps
  <2> QED
    BY <2>1 DEF SpinLockStep, SpinLockLock, SpinAcquire, SpinTry, MakeLocked, SpinLockUnlock,
           SpinRelease
<1>8. ~TimerCalls(t, c)
  <2>1. c.op \notin {"TimerStart", "TimerStop", "TimerReset", "TimerSetPeriod", "TimerRestart",
                    "TimerStartOrReset", "Shutdown", "PushRearm", "SetRearming", "PushDone"}
    BY DEF HeapOps, CreateOps, DeleteOps, LookOps
  <2> QED
    BY <2>1 DEF TimerCalls, TimerStart, TimerStop, TimerReset, TimerSetPeriod, TimerRestart,
           TimerStartOrReset, Shutdown, PushRearm, SetRearming, PushDone
<1>9. ~TickTask(t, c) /\ ~HandlerTask(t, c) /\ ~Awake(t, c)
  BY DEF TickTask, ProcessCommands, NextCommand, Execute, LookAt, HandlerTask, ProcessTimers,
         Handle, OnExpired, Awake, HeapOps, CreateOps, DeleteOps, LookOps
<1> QED
  BY <1>1, <1>2, <1>3, <1>4, <1>5, <1>6, <1>7, <1>8, <1>9 DEF NativeStep, TimerHostStep, Uses

LEMMA HeapStepEffect ==
    ASSUME NEW t, NEW c, HeapOnly, HeapCall(c), Step(t, c)
    PROVE  HeapEffect(t, c)
<1>1. The.uses \cap {"CApi", "SmoothWeighted", "Monotonic"} = {}
  BY DEF HeapOnly, HeapProgram
<1>2. ~NativeStep(t, c)
  BY <1>1, NoNativeCall DEF HeapCall
<1> QED
  BY <1>1, <1>2, HeapCallsEffect, QueueHeapEffect, TaskHeapEffect, BufferHeapEffect, TimerHeapEffect,
     CmsisHeapEffect DEF Step, Uses

-----------------------------------------------------------------------------
(* Sums and regions *)
LEMMA SumChange ==
    ASSUME NEW S, IsFiniteSet(S), NEW f, NEW g, NEW x \in S,
           \A k \in S : f[k] \in Nat /\ g[k] \in Nat,
           \A k \in S \ {x} : g[k] = f[k]
    PROVE  /\ SumOf(f, S) \in Nat /\ SumOf(g, S) \in Nat
           /\ SumOf(g, S) = SumOf(f, S) - f[x] + g[x]
<1>1. SumOf(f, S) \in Nat /\ SumOf(g, S) \in Nat
  BY WeightsGrow
<1>2. SumOf(f, S) = f[x] + SumOf(f, S \ {x}) /\ SumOf(g, S) = g[x] + SumOf(g, S \ {x})
  BY SumSplit
<1>3. SumOf(f, S \ {x}) \in Int /\ SumOf(g, S \ {x}) = SumOf(f, S \ {x})
  <2>1. IsFiniteSet(S \ {x}) /\ \A k \in S \ {x} : f[k] \in Int /\ g[k] = f[k]
    BY FS_RemoveElement
  <2> QED
    BY <2>1, SumSame
<1>4. f[x] \in Nat /\ g[x] \in Nat
  OBVIOUS
<1> QED
  BY <1>1, <1>2, <1>3, <1>4

LEMMA GotLemma ==
    /\ Got(<<>>) = 0
    /\ \A acc \in Seq({0, 1}) :
          /\ Got(acc) \in Nat
          /\ Got(Append(acc, 1)) = Got(acc) + 1 /\ Got(Append(acc, 0)) = Got(acc)
    /\ \A acc \in Seq({1}) : Got(acc) = Len(acc)
<1>1. Got(<<>>) = 0
  <2>1. {i \in DOMAIN <<>> : <<>>[i] = 1} = {}
    OBVIOUS
  <2> QED
    BY <2>1, FS_EmptySet DEF Got
<1>2. ASSUME NEW acc \in Seq({0, 1})
      PROVE  /\ Got(acc) \in Nat
             /\ Got(Append(acc, 1)) = Got(acc) + 1 /\ Got(Append(acc, 0)) = Got(acc)
  <2> DEFINE A == {i \in DOMAIN acc : acc[i] = 1}
             n == Len(acc) + 1
  <2>1. IsFiniteSet(A) /\ n \notin A
    <3>1. IsFiniteSet(1..Len(acc)) /\ A \subseteq 1..Len(acc)
      BY FS_Interval
    <3> QED
      BY <3>1, FS_Subset
  <2>2. Cardinality(A) \in Nat /\ Cardinality(A \cup {n}) = Cardinality(A) + 1
    BY <2>1, FS_CardinalityType, FS_AddElement
  <2>3. {i \in DOMAIN Append(acc, 1) : Append(acc, 1)[i] = 1} = A \cup {n}
    OBVIOUS
  <2>4. {i \in DOMAIN Append(acc, 0) : Append(acc, 0)[i] = 1} = A
    OBVIOUS
  <2> QED
    BY <2>2, <2>3, <2>4 DEF Got
<1>3. ASSUME NEW acc \in Seq({1}) PROVE Got(acc) = Len(acc)
  <2>1. {i \in DOMAIN acc : acc[i] = 1} = 1..Len(acc) /\ Len(acc) \in Nat
    OBVIOUS
  <2>2. \A n \in Nat : Cardinality(1..n) = n
    <3> SUFFICES ASSUME NEW n \in Nat PROVE Cardinality(1..n) = n
      OBVIOUS
    <3>1. Cardinality(1..n) = IF 1 > n THEN 0 ELSE n - 1 + 1
      BY FS_Interval
    <3> QED
      BY <3>1
  <2> QED
    BY <2>1, <2>2 DEF Got
<1> QED
  BY <1>1, <1>2, <1>3

LEMMA LessLemma ==
    ASSUME NEW a \in Nat, NEW b \in Nat
    PROVE  Min({a, b}) \in Nat /\ Min({a, b}) <= a /\ Min({a, b}) <= b
<1> DEFINE m == IF a <= b THEN a ELSE b
<1>1. m \in {a, b} /\ \A y \in {a, b} : m <= y
  OBVIOUS
<1>2. Min({a, b}) \in {a, b} /\ \A y \in {a, b} : Min({a, b}) <= y
  BY <1>1 DEF Min
<1> QED
  BY <1>2

-----------------------------------------------------------------------------
(* What the states have in common *)
LEMMA HeapTypes ==
    ASSUME NEW p, HeapProgram(p), NEW ob, NEW calls, HeapState(p, ob, calls)
    PROVE  /\ IsFiniteSet(DOMAIN ob) /\ IsFiniteSet(Tasks)
           /\ \A o \in DOMAIN ob : Owned(ob)[o] \in Nat
           /\ \A t \in Tasks : Held(calls)[t] \in Nat
           /\ MadeIn(p) \subseteq DOMAIN ob /\ PartsIn(p) \subseteq DOMAIN ob
           /\ MadeIn(p) \cap PartsIn(p) = {} /\ "heap" \notin MadeIn(p) /\ "heap" \notin PartsIn(p)
           /\ DOMAIN ob = MadeIn(p) \cup PartsIn(p) \cup {"heap"}
<1>1. DOMAIN ob = DOMAIN p.objects /\ IsFiniteSet(DOMAIN ob) /\ IsFiniteSet(Tasks)
  BY TasksAssumption DEF HeapProgram, HeapState
<1>2. MadeIn(p) \subseteq DOMAIN p.objects /\ "heap" \notin MadeIn(p)
  BY DEF HeapProgram, MadeIn, MadeBy
<1>3. /\ PartsIn(p) \subseteq DOMAIN ob /\ MadeIn(p) \cap PartsIn(p) = {} /\ "heap" \notin PartsIn(p)
      /\ DOMAIN ob = MadeIn(p) \cup PartsIn(p) \cup {"heap"}
  BY <1>1, <1>2 DEF PartsIn, HeapProgram
<1>4. ASSUME NEW o \in DOMAIN ob PROVE Owned(ob)[o] \in Nat
  BY <1>3 DEF Owned, HeapState, Existing, NoObject
<1>5. ASSUME NEW t \in Tasks PROVE Held(calls)[t] \in Nat
  BY GotLemma DEF Held, HeapState, Constructing
<1> QED
  BY <1>1, <1>2, <1>3, <1>4, <1>5

(* The object of one handle and the frame of one task change, and the heap by as much *)
LEMMA BalanceLemma ==
    ASSUME NEW p, HeapProgram(p), NEW ob, NEW calls, HeapState(p, ob, calls),
           NEW t \in Tasks, NEW o \in MadeIn(p), NEW ob2, NEW d,
           DOMAIN ob2 = DOMAIN ob, \A k \in MadeIn(p) \ {o} : ob2[k] = ob[k],
           ob2[o] = NoObject \/ Existing(PartsIn(p), ob2[o]),
           \A k \in PartsIn(p) : "owned" \notin DOMAIN ob2[k],
           d = NoCall \/ (Constructing(p, t, d) /\ ob2[d.o] = NoObject),
           \A u \in Tasks \ {t} : calls[u] # NoCall => ob2[calls[u].o] = NoObject,
           HeapCounts(ob2["heap"]),
           ob2["heap"].allocated =
               ob["heap"].allocated - Owned(ob)[o] + Owned(ob2)[o]
                   - Held(calls)[t] + Held([calls EXCEPT ![t] = d])[t]
    PROVE  HeapState(p, ob2, [calls EXCEPT ![t] = d])
<1> DEFINE calls2 == [calls EXCEPT ![t] = d]
<1>0. /\ IsFiniteSet(DOMAIN ob) /\ IsFiniteSet(Tasks)
      /\ \A k \in DOMAIN ob : Owned(ob)[k] \in Nat
      /\ \A u \in Tasks : Held(calls)[u] \in Nat
      /\ MadeIn(p) \subseteq DOMAIN ob /\ PartsIn(p) \subseteq DOMAIN ob
      /\ MadeIn(p) \cap PartsIn(p) = {} /\ "heap" \notin MadeIn(p) /\ "heap" \notin PartsIn(p)
      /\ DOMAIN ob = MadeIn(p) \cup PartsIn(p) \cup {"heap"}
  BY HeapTypes
<1>1. /\ DOMAIN ob = DOMAIN p.objects /\ DOMAIN calls = Tasks
      /\ ob["heap"].allocated = SumOf(Owned(ob), DOMAIN ob) + SumOf(Held(calls), Tasks)
      /\ \A k \in PartsIn(p) : "owned" \notin DOMAIN ob[k]
  BY DEF HeapState
<1>2. \A k \in DOMAIN ob : Owned(ob2)[k] \in Nat /\ (k # o => Owned(ob2)[k] = Owned(ob)[k])
  <2> SUFFICES ASSUME NEW k \in DOMAIN ob
               PROVE  Owned(ob2)[k] \in Nat /\ (k # o => Owned(ob2)[k] = Owned(ob)[k])
    OBVIOUS
  <2>1. CASE k = o
    BY <2>1 DEF Owned, Existing, NoObject
  <2>2. CASE k # o /\ k \in MadeIn(p)
    <3>1. ob2[k] = ob[k] /\ Owned(ob)[k] \in Nat
      BY <1>0, <2>2
    <3>2. Owned(ob2)[k] = Owned(ob)[k]
      BY <3>1 DEF Owned
    <3> QED
      BY <3>1, <3>2
  <2>3. CASE k \in PartsIn(p) \cup {"heap"}
    <3>1. Owned(ob2)[k] = 0 /\ Owned(ob)[k] = 0
      BY <1>1, <2>3 DEF Owned
    <3> QED
      BY <3>1
  <2> QED
    BY <1>0, <2>1, <2>2, <2>3
<1>3. \A u \in Tasks : Held(calls2)[u] \in Nat /\ (u # t => Held(calls2)[u] = Held(calls)[u])
  <2> SUFFICES ASSUME NEW u \in Tasks
               PROVE  Held(calls2)[u] \in Nat /\ (u # t => Held(calls2)[u] = Held(calls)[u])
    OBVIOUS
  <2>1. CASE u = t
    BY <1>1, <2>1, GotLemma DEF Held, Constructing
  <2>2. CASE u # t
    <3>1. calls2[u] = calls[u] /\ Held(calls)[u] \in Nat
      BY <1>0, <1>1, <2>2
    <3>2. Held(calls2)[u] = Held(calls)[u]
      BY <3>1 DEF Held
    <3> QED
      BY <3>1, <3>2
  <2> QED
    BY <2>1, <2>2
<1>4. /\ SumOf(Owned(ob2), DOMAIN ob) \in Nat /\ SumOf(Owned(ob), DOMAIN ob) \in Nat
      /\ SumOf(Owned(ob2), DOMAIN ob) = SumOf(Owned(ob), DOMAIN ob) - Owned(ob)[o] + Owned(ob2)[o]
      /\ Owned(ob)[o] \in Nat /\ Owned(ob2)[o] \in Nat
  <2>1. o \in DOMAIN ob /\ IsFiniteSet(DOMAIN ob)
    BY <1>0
  <2>2. \A k \in DOMAIN ob : Owned(ob)[k] \in Nat /\ Owned(ob2)[k] \in Nat
    BY <1>0, <1>2
  <2>3. \A k \in DOMAIN ob \ {o} : Owned(ob2)[k] = Owned(ob)[k]
    BY <1>2
  <2>4. /\ SumOf(Owned(ob), DOMAIN ob) \in Nat /\ SumOf(Owned(ob2), DOMAIN ob) \in Nat
        /\ SumOf(Owned(ob2), DOMAIN ob) = SumOf(Owned(ob), DOMAIN ob) - Owned(ob)[o] + Owned(ob2)[o]
    BY ONLY <2>1, <2>2, <2>3, SumChange
  <2> QED
    BY <2>1, <2>2, <2>4
<1>5. /\ SumOf(Held(calls2), Tasks) \in Nat /\ SumOf(Held(calls), Tasks) \in Nat
      /\ SumOf(Held(calls2), Tasks) = SumOf(Held(calls), Tasks) - Held(calls)[t] + Held(calls2)[t]
      /\ Held(calls)[t] \in Nat /\ Held(calls2)[t] \in Nat
  <2> HIDE DEF calls2
  <2>1. t \in Tasks /\ IsFiniteSet(Tasks)
    BY <1>0
  <2>2. \A k \in Tasks : Held(calls)[k] \in Nat /\ Held(calls2)[k] \in Nat
    BY <1>0, <1>3
  <2>3. \A k \in Tasks \ {t} : Held(calls2)[k] = Held(calls)[k]
    BY <1>3
  <2>4. /\ SumOf(Held(calls), Tasks) \in Nat /\ SumOf(Held(calls2), Tasks) \in Nat
        /\ SumOf(Held(calls2), Tasks) = SumOf(Held(calls), Tasks) - Held(calls)[t] + Held(calls2)[t]
    BY ONLY <2>1, <2>2, <2>3, SumChange
  <2> QED
    BY <2>1, <2>2, <2>4
<1>6. /\ ob2["heap"].allocated = SumOf(Owned(ob2), DOMAIN ob2) + SumOf(Held(calls2), Tasks)
      /\ ob2["heap"].allocated \in Nat
  <2> HIDE DEF calls2
  <2>1. DOMAIN ob2 = DOMAIN ob
    OBVIOUS
  <2>2. ob2["heap"].allocated =
               ob["heap"].allocated - Owned(ob)[o] + Owned(ob2)[o] - Held(calls)[t] + Held(calls2)[t]
    BY DEF calls2
  <2>3. ob["heap"].allocated = SumOf(Owned(ob), DOMAIN ob) + SumOf(Held(calls), Tasks)
    BY <1>1
  <2>4. ob2["heap"].allocated = SumOf(Owned(ob2), DOMAIN ob) + SumOf(Held(calls2), Tasks)
    BY ONLY <1>4, <1>5, <2>2, <2>3
  <2> QED
    BY ONLY <1>4, <1>5, <2>1, <2>4
<1>7. HeapOK(ob2["heap"])
  BY <1>6 DEF HeapOK
<1>8. DOMAIN calls2 = Tasks /\ \A u \in Tasks :
          calls2[u] = NoCall \/ (Constructing(p, u, calls2[u]) /\ ob2[calls2[u].o] = NoObject)
  BY <1>1 DEF HeapState
<1>9. \A k \in MadeIn(p) : ob2[k] = NoObject \/ Existing(PartsIn(p), ob2[k])
  BY DEF HeapState
<1> QED
  BY <1>1, <1>6, <1>7, <1>8, <1>9 DEF HeapState

-----------------------------------------------------------------------------
(* What is known of a call that is about to make a step *)
HeapTaking(t, c) ==
    /\ HeapCall(c)
    /\ c.op \in CreateOps =>
          /\ c.o \in MadeBy(The, t) /\ obj[c.o] = NoObject /\ c.acc \in Seq({0, 1})
          /\ c.op \notin MessageMakes => c.acc \in Seq({1})
          /\ c.op \in MessageMakes => c.x.pool \in PartsIn(The) /\ c.x.eq \in PartsIn(The)
          /\ Held(call)[t] = Got(c.acc)
          /\ Rejects(c) \/ c.op \in StaticMakes => c.acc = <<>>
    /\ c.op \notin CreateOps => call[t] = NoCall
    /\ c.op \in DeleteOps \cup {"vTimerSetTimerID"} =>
          c.o \in MadeIn(The) /\ Existing(PartsIn(The), obj[c.o])
    /\ c.op \in DeleteOps => \A u \in Tasks : call[u] = NoCall
    /\ c.op = "vMessageBufferDelete" => obj[c.o].kind = "messages"

LEMMA BeginsTaking ==
    ASSUME HeapOnly, HeapInv, NEW t \in Tasks, NEW c \in The.calls[t], Idle(t), CallerMay(t, c)
    PROVE  HeapTaking(t, c)
<1>1. /\ c = Frame(c.op, c.o, c.x, NO_WAIT) /\ c.o \in DOMAIN The.objects
      /\ c.op \in HeapOps
      /\ c.op \in MessageMakes => c.x.pool \in PartsIn(The) /\ c.x.eq \in PartsIn(The)
      /\ c.op \in CmsisMakes => c.x.regions \in Nat
      /\ c.op \in DeleteOps \cup {"vTimerSetTimerID"} => c.o \in MadeIn(The)
      /\ c.op = "vMessageBufferDelete" => c.x = "messages"
      /\ c.op \in {"xTimerDelete", "osTimerDelete"} => c.x = "timer"
  BY DEF HeapOnly, HeapProgram, HeapOps
<1>2. DOMAIN c = FieldNames /\ c.then = NoCall /\ c.acc = <<>>
  BY <1>1 DEF Frame, FieldNames
<1>3. /\ IF c.op \in CreateOps THEN obj[c.o] = NoObject ELSE obj[c.o].kind # "none"
      /\ c.op \in DeleteOps => Alone(t) /\ obj[c.o].kind = c.x
  BY DEF CallerMay
<1>4. \A o \in MadeIn(The) : obj[o] = NoObject \/ Existing(PartsIn(The), obj[o])
  BY DEF HeapInv, HeapState
<1>5. c.op \in DeleteOps \cup {"vTimerSetTimerID"} => Existing(PartsIn(The), obj[c.o])
  BY <1>1, <1>3, <1>4 DEF NoObject, CreateOps, DeleteOps
<1>6. c.op \in DeleteOps => \A u \in Tasks : call[u] = NoCall
  BY <1>3 DEF Alone, Idle, HeapInv, HeapState, Constructing, CreateOps
<1>7. HeapCall(c)
  BY <1>1, <1>2, <1>3, <1>5 DEF HeapCall, Existing, DeleteOps
<1>8. Held(call)[t] = 0 /\ call[t] = NoCall
  BY DEF Held, Idle
<1>9. c.op \in CreateOps => c.o \in MadeBy(The, t)
  BY DEF MadeBy
<1>10. c.acc \in Seq({0, 1}) /\ c.acc \in Seq({1}) /\ Got(c.acc) = 0
  BY <1>2, GotLemma
<1>11. c.op = "vMessageBufferDelete" => obj[c.o].kind = "messages"
  BY <1>1, <1>3 DEF DeleteOps
<1> QED
  BY <1>1, <1>2, <1>3, <1>5, <1>6, <1>7, <1>8, <1>9, <1>10, <1>11 DEF HeapTaking

LEMMA ContinuesTaking ==
    ASSUME HeapOnly, HeapInv, NEW t \in Tasks, ~Idle(t)
    PROVE  HeapTaking(t, call[t])
<1>1. Constructing(The, t, call[t]) /\ obj[call[t].o] = NoObject
  BY DEF HeapInv, HeapState, Idle
<1>2. call[t].op \in CreateOps /\ Held(call)[t] = Got(call[t].acc)
  BY <1>1 DEF Constructing, Held, Idle
<1>3. HeapCall(call[t])
  BY <1>1, <1>2 DEF HeapCall, Constructing, HeapOps, CreateOps
<1> QED
  BY <1>1, <1>2, <1>3 DEF HeapTaking, Constructing, StaticMakes, CreateOps, DeleteOps

(* The frames of the other tasks stay as they are if t makes its own object *)
LEMMA OthersStay ==
    ASSUME HeapOnly, HeapInv, NEW t \in Tasks, NEW o \in MadeBy(The, t), NEW u \in Tasks \ {t},
           call[u] # NoCall
    PROVE  call[u].o \in MadeIn(The) \ {o} /\ obj[call[u].o] = NoObject
BY DEF HeapOnly, HeapProgram, HeapInv, HeapState, Constructing, MadeIn

LEMMA HeapFacts ==
    ASSUME HeapOnly, HeapInv
    PROVE  /\ HeapProgram(The) /\ HeapState(The, obj, call) /\ DOMAIN call = Tasks
           /\ HeapOK(obj["heap"]) /\ HeapCounts(obj["heap"]) /\ obj["heap"].allocated \in Nat
           /\ \A k \in PartsIn(The) : "owned" \notin DOMAIN obj[k]
           /\ "heap" \in DOMAIN obj /\ "heap" \notin MadeIn(The) /\ "heap" \notin PartsIn(The)
           /\ MadeIn(The) \cap PartsIn(The) = {} /\ MadeIn(The) \subseteq DOMAIN obj
           /\ PartsIn(The) \subseteq DOMAIN obj
<1>1. HeapProgram(The) /\ HeapState(The, obj, call)
  BY DEF HeapOnly, HeapInv
<1>2. /\ "heap" \in DOMAIN obj /\ "heap" \notin MadeIn(The) /\ "heap" \notin PartsIn(The)
      /\ MadeIn(The) \cap PartsIn(The) = {} /\ MadeIn(The) \subseteq DOMAIN obj
      /\ PartsIn(The) \subseteq DOMAIN obj
  BY <1>1, HeapTypes
<1> QED
  BY <1>1, <1>2 DEF HeapState, HeapOK

(* The counts of the heap *)
LEMMA TakesLemma ==
    ASSUME NEW h, HeapOK(h), NEW n \in {0, 1}, n = 1 => GetAvailable(h) > 0
    PROVE  HeapCounts(Allocated(h, n)) /\ Allocated(h, n).allocated = h.allocated + n
<1> DEFINE m == Min({h.min_ever_free, GetAvailable(h) - n})
           g == Allocated(h, n)
<1>1. /\ h = [kind |-> "heap", capacity |-> h.capacity, allocated |-> h.allocated,
              min_ever_free |-> h.min_ever_free]
      /\ h.capacity \in Nat /\ h.allocated \in Nat /\ h.min_ever_free \in Nat
      /\ h.allocated <= h.capacity /\ h.min_ever_free <= h.capacity - h.allocated
      /\ GetAvailable(h) = h.capacity - h.allocated
  BY DEF HeapOK, HeapCounts, GetAvailable
<1>2. h.min_ever_free \in Nat /\ GetAvailable(h) - n \in Nat
  BY ONLY <1>1, n \in {0, 1}, n = 1 => GetAvailable(h) > 0
<1>3. m \in Nat /\ m <= GetAvailable(h) - n
  <2> DEFINE a == GetAvailable(h) - n
             b == h.min_ever_free
  <2>1. a \in Nat /\ b \in Nat
    BY <1>2
  <2> HIDE DEF a, b
  <2>2. Min({b, a}) \in Nat /\ Min({b, a}) <= a
    BY <2>1, LessLemma
  <2> QED
    BY <2>2 DEF a, b
<1>4. g = [kind |-> "heap", capacity |-> h.capacity, allocated |-> h.allocated + n, min_ever_free |-> m]
  <2> DEFINE k == [h EXCEPT !.allocated = @ + n]
  <2>1. g = [k EXCEPT !.min_ever_free = m]
    BY DEF Allocated
  <2>2. k = [kind |-> "heap", capacity |-> h.capacity, allocated |-> h.allocated + n,
             min_ever_free |-> h.min_ever_free]
    BY <1>1
  <2> HIDE DEF m, g, k
  <2> QED
    BY <2>1, <2>2
<1> HIDE DEF m, g
<1>5. HeapCounts(g) /\ g.allocated = h.allocated + n
  BY <1>1, <1>3, <1>4 DEF HeapCounts, GetAvailable
<1> QED
  BY <1>5 DEF g

LEMMA FreedLemma ==
    ASSUME NEW h, HeapOK(h), NEW n \in Nat
    PROVE  HeapCounts(Freed(h, n)) /\ Freed(h, n).allocated = h.allocated - n
<1>1. /\ h = [kind |-> "heap", capacity |-> h.capacity, allocated |-> h.allocated,
              min_ever_free |-> h.min_ever_free]
      /\ h.capacity \in Nat /\ h.allocated \in Nat /\ h.min_ever_free \in Nat
      /\ h.allocated <= h.capacity /\ h.min_ever_free <= h.capacity - h.allocated
  BY DEF HeapOK, HeapCounts, GetAvailable
<1>2. Freed(h, n) = [kind |-> "heap", capacity |-> h.capacity, allocated |-> h.allocated - n,
                     min_ever_free |-> h.min_ever_free]
  BY <1>1 DEF Freed
<1> HIDE DEF Freed
<1> QED
  BY <1>1, <1>2 DEF HeapCounts, GetAvailable

(* Task t is at the handle o and the heap; the frames of the other tasks stay *)
LEMMA MakesLemma ==
    ASSUME HeapOnly, HeapInv, NEW t \in Tasks, NEW o \in MadeIn(The), NEW e,
           o \in MadeBy(The, t) \/ \A u \in Tasks : call[u] = NoCall,
           e = NoCall \/ (Constructing(The, t, e) /\ e.o = o /\ obj'[o] = NoObject),
           DOMAIN obj' = DOMAIN obj, \A k \in MadeIn(The) \ {o} : obj'[k] = obj[k],
           obj'[o] = NoObject \/ Existing(PartsIn(The), obj'[o]),
           \A k \in PartsIn(The) : "owned" \notin DOMAIN obj'[k],
           HeapCounts(obj'["heap"]),
           obj'["heap"].allocated =
               obj["heap"].allocated - Owned(obj)[o] + Owned(obj')[o]
                   - Held(call)[t] + Held([call EXCEPT ![t] = e])[t]
    PROVE  HeapState(The, obj', [call EXCEPT ![t] = e])
<1>1. HeapProgram(The) /\ HeapState(The, obj, call)
  BY HeapFacts
<1>2. \A u \in Tasks \ {t} : call[u] # NoCall => obj'[call[u].o] = NoObject
  BY OthersStay
<1>3. e = NoCall \/ (Constructing(The, t, e) /\ obj'[e.o] = NoObject)
  OBVIOUS
<1> QED
  BY <1>1, <1>2, <1>3, BalanceLemma

(* A constructor makes one step *)
LEMMA BuildsKeeps ==
    ASSUME HeapOnly, HeapInv, NEW t \in Tasks, NEW c, HeapTaking(t, c), Builds(t, c)
    PROVE  HeapState(The, obj', call')
<1>1. PICK d, r : \E n \in Nat : GoesTo(c, d) /\ AsMade(r) /\ Construct(t, d, n, r)
  BY DEF Builds
<1>2. PICK n \in Nat : GoesTo(c, d) /\ AsMade(r) /\ Construct(t, d, n, r)
  BY <1>1
<1> DEFINE o == c.o
<1>3. /\ o \in MadeBy(The, t) /\ o \in MadeIn(The) /\ obj[o] = NoObject
      /\ c.acc \in Seq({1}) /\ Held(call)[t] = Got(c.acc) /\ Got(c.acc) = Len(c.acc)
      /\ c.then = NoCall /\ d.o = o /\ d.acc = c.acc /\ d.then = NoCall
      /\ Len(c.acc) \in Nat
  BY <1>2, GotLemma DEF HeapTaking, HeapCall, GoesTo, MadeIn
<1>4. \A e : DOMAIN [call EXCEPT ![t] = e] = Tasks /\ [call EXCEPT ![t] = e][t] = e
  BY HeapFacts
<1>5. Owned(obj)[o] = 0 /\ Held([call EXCEPT ![t] = NoCall])[t] = 0
  BY <1>3, <1>4, HeapFacts DEF Owned, NoObject, Held
<1>6. CASE Len(d.acc) = n
  <2>1. obj' = [obj EXCEPT ![o] = Extended(r, [owned |-> n])] /\ call' = [call EXCEPT ![t] = NoCall]
    BY <1>2, <1>3, <1>6 DEF Construct, Set, Return, Goto
  <2>2. Existing(PartsIn(The), obj'[o]) /\ obj'[o].owned = n
    BY <1>2, <1>3, <2>1, HeapFacts DEF Existing, Extended, AsMade
  <2>3. Owned(obj')[o] = n
    BY <1>3, <2>1, <2>2, HeapFacts DEF Owned, Existing
  <2>4. /\ DOMAIN obj' = DOMAIN obj /\ \A k \in MadeIn(The) \ {o} : obj'[k] = obj[k]
        /\ obj'["heap"] = obj["heap"] /\ \A k \in PartsIn(The) : "owned" \notin DOMAIN obj'[k]
    BY <1>3, <2>1, HeapFacts
  <2>5. HeapState(The, obj', [call EXCEPT ![t] = NoCall])
    <3> HIDE DEF o
    <3>1. obj'["heap"].allocated =
             obj["heap"].allocated - Owned(obj)[o] + Owned(obj')[o]
                   - Held(call)[t] + Held([call EXCEPT ![t] = NoCall])[t]
      BY <1>3, <1>5, <1>6, <2>3, <2>4, HeapFacts
    <3> QED
      BY <1>3, <2>2, <2>4, <3>1, HeapFacts, MakesLemma
  <2> QED
    BY <2>1, <2>5
<1>7. CASE Len(d.acc) < n /\ GetAvailable(obj["heap"]) > 0
  <2> DEFINE e == [d EXCEPT !.acc = Append(@, 1)]
  <2>1. obj' = [obj EXCEPT !["heap"] = Allocated(obj["heap"], 1)] /\ call' = [call EXCEPT ![t] = e]
    BY <1>2, <1>3, <1>7 DEF Construct, Set, Goto
  <2>2. /\ DOMAIN e = FieldNames /\ e.op = d.op /\ e.o = o /\ e.x = c.x /\ e.then = NoCall
        /\ e.acc = Append(c.acc, 1)
    BY <1>2, <1>3 DEF GoesTo, FieldNames
  <2>3. e.acc \in Seq({1}) /\ e.acc \in Seq({0, 1}) /\ Got(e.acc) = Len(c.acc) + 1
    BY <1>3, <2>2, GotLemma
  <2>4. ~Rejects(e) /\ e.op \in CreateOps \ MessageMakes /\ (e.op \in CmsisMakes => e.x.regions \in Nat)
    <3> HIDE DEF e
    <3> QED
      BY <1>2, <2>2 DEF GoesTo, Rejects, HeapTaking, HeapCall
  <2>5. Constructing(The, t, e)
    <3> HIDE DEF e
    <3> QED
      BY <1>3, <2>2, <2>3, <2>4 DEF Constructing, StaticMakes, MessageMakes
  <2>6. Held([call EXCEPT ![t] = e])[t] = Len(c.acc) + 1
    <3> HIDE DEF e
    <3>1. e # NoCall
      BY <2>4 DEF NoCall, CreateOps
    <3> QED
      BY <1>4, <2>3, <2>4, <3>1 DEF Held
  <2>7. /\ DOMAIN obj' = DOMAIN obj /\ \A k \in MadeIn(The) : obj'[k] = obj[k]
        /\ \A k \in PartsIn(The) : obj'[k] = obj[k]
        /\ obj'["heap"] = Allocated(obj["heap"], 1)
    BY <2>1, HeapFacts
  <2>8. Owned(obj')[o] = 0 /\ obj'[o] = NoObject
    BY <1>3, <2>7, HeapFacts DEF Owned, NoObject
  <2>9. HeapCounts(obj'["heap"]) /\ obj'["heap"].allocated = obj["heap"].allocated + 1
    BY <1>7, <2>7, HeapFacts, TakesLemma
  <2>10. HeapState(The, obj', [call EXCEPT ![t] = e])
    <3> HIDE DEF o, e
    <3>1. obj'["heap"].allocated =
             obj["heap"].allocated - Owned(obj)[o] + Owned(obj')[o]
                   - Held(call)[t] + Held([call EXCEPT ![t] = e])[t]
      BY <1>3, <1>5, <2>6, <2>8, <2>9, HeapFacts
    <3> QED
      BY <1>3, <2>2, <2>5, <2>7, <2>8, <2>9, <3>1, HeapFacts, MakesLemma
  <2> QED
    BY <2>1, <2>10
<1>8. CASE ~(Len(d.acc) = n) /\ ~(Len(d.acc) < n /\ GetAvailable(obj["heap"]) > 0)
  <2>1. obj' = [obj EXCEPT !["heap"] = Freed(obj["heap"], Len(d.acc))] /\ call' = [call EXCEPT ![t] = NoCall]
    BY <1>2, <1>3, <1>8 DEF Construct, Set, Return, Goto
  <2>2. /\ DOMAIN obj' = DOMAIN obj /\ \A k \in MadeIn(The) : obj'[k] = obj[k]
        /\ \A k \in PartsIn(The) : obj'[k] = obj[k]
        /\ obj'["heap"] = Freed(obj["heap"], Len(c.acc))
    BY <1>3, <2>1, HeapFacts
  <2>3. Owned(obj')[o] = 0 /\ obj'[o] = NoObject
    BY <1>3, <2>2, HeapFacts DEF Owned, NoObject
  <2>4. HeapCounts(obj'["heap"]) /\ obj'["heap"].allocated = obj["heap"].allocated - Len(c.acc)
    BY <1>3, <2>2, HeapFacts, FreedLemma
  <2>5. HeapState(The, obj', [call EXCEPT ![t] = NoCall])
    <3> HIDE DEF o
    <3>1. obj'["heap"].allocated =
             obj["heap"].allocated - Owned(obj)[o] + Owned(obj')[o]
                   - Held(call)[t] + Held([call EXCEPT ![t] = NoCall])[t]
      BY <1>3, <1>5, <2>3, <2>4, HeapFacts
    <3> QED
      BY <1>3, <2>2, <2>3, <2>4, <3>1, HeapFacts, MakesLemma
  <2> QED
    BY <2>1, <2>5
<1> QED
  BY <1>6, <1>7, <1>8

(* A message buffer: it goes on without the region it missed *)
LEMMA BuildsMessagesKeeps ==
    ASSUME HeapOnly, HeapInv, NEW t \in Tasks, NEW c, HeapTaking(t, c), BuildsMessages(t, c)
    PROVE  HeapState(The, obj', call')
<1> DEFINE o == c.o
<1>1. /\ c.op \in MessageMakes /\ c.op \in CreateOps
      /\ o \in MadeBy(The, t) /\ o \in MadeIn(The) /\ obj[o] = NoObject /\ c.acc \in Seq({0, 1})
      /\ c.x.pool \in PartsIn(The) /\ c.x.eq \in PartsIn(The)
      /\ Held(call)[t] = Got(c.acc) /\ Got(c.acc) \in Nat /\ Got(<<>>) = 0
      /\ (Rejects(c) \/ c.op \in StaticMakes => c.acc = <<>>)
      /\ c.then = NoCall /\ DOMAIN c = FieldNames
  BY GotLemma DEF BuildsMessages, HeapTaking, HeapCall, MadeIn, MessageMakes, CreateOps
<1>2. \A e : DOMAIN [call EXCEPT ![t] = e] = Tasks /\ [call EXCEPT ![t] = e][t] = e
  BY HeapFacts
<1>3. Owned(obj)[o] = 0 /\ Held([call EXCEPT ![t] = NoCall])[t] = 0
  BY <1>1, <1>2, HeapFacts DEF Owned, NoObject, Held
<1>4. CASE c.x.max = 0 \/ c.x.count = 0
  <2>1. c.acc = <<>>
    BY <1>1, <1>4 DEF Rejects
  <2>2. obj' = obj /\ call' = [call EXCEPT ![t] = NoCall]
    <3>1. CASE ConstructStatic(t, c)
      BY <1>1, <1>4, <3>1 DEF ConstructStatic, Refuse, Return, Goto
    <3>2. ASSUME NEW valid, ConstructMessageBuffer(t, c, valid)
          PROVE  obj' = obj /\ call' = [call EXCEPT ![t] = NoCall]
      BY <1>1, <1>4, <2>1, <3>2 DEF ConstructMessageBuffer, Return, Goto
    <3> QED
      BY <3>1, <3>2 DEF BuildsMessages
  <2>3. HeapState(The, obj', [call EXCEPT ![t] = NoCall])
    <3> HIDE DEF o
    <3>1. obj'["heap"].allocated =
             obj["heap"].allocated - Owned(obj)[o] + Owned(obj')[o]
                   - Held(call)[t] + Held([call EXCEPT ![t] = NoCall])[t]
      BY <1>1, <1>3, <2>1, <2>2, HeapFacts
    <3> QED
      BY <1>1, <2>2, <3>1, HeapFacts, MakesLemma
  <2> QED
    BY <2>2, <2>3
<1>5. ASSUME NEW had, Got(had) = Got(c.acc), obj' = Buffers(c, had), call' = [call EXCEPT ![t] = NoCall]
      PROVE  HeapState(The, obj', call')
  <2>1. /\ DOMAIN obj' = DOMAIN obj /\ \A k \in MadeIn(The) \ {o} : obj'[k] = obj[k]
        /\ obj'["heap"] = obj["heap"]
        /\ obj'[o] = [kind |-> "messages", m_pool |-> c.x.pool, m_eq |-> c.x.eq,
                      m_max_msg_size |-> c.x.max, owned |-> Got(had)]
    BY <1>1, <1>5, HeapFacts DEF Buffers
  <2>2. \A k \in PartsIn(The) : "owned" \notin DOMAIN obj'[k]
    <3>1. /\ "owned" \notin DOMAIN HeapPoolObject(c.x.count, had # <<1, 0, 1>>)
          /\ "owned" \notin DOMAIN RingObject("envelopes", c.x.count)
      BY DEF HeapPoolObject, PoolObject, RingObject
    <3> QED
      BY <1>1, <1>5, <3>1, HeapFacts DEF Buffers
  <2>3. Existing(PartsIn(The), obj'[o]) /\ obj'[o].owned = Got(c.acc)
    BY <1>1, <1>5, <2>1 DEF Existing
  <2>4. Owned(obj')[o] = Got(c.acc)
    BY <1>1, <2>1, <2>3, HeapFacts DEF Owned, Existing
  <2>5. HeapState(The, obj', [call EXCEPT ![t] = NoCall])
    <3> HIDE DEF o
    <3>1. obj'["heap"].allocated =
             obj["heap"].allocated - Owned(obj)[o] + Owned(obj')[o]
                   - Held(call)[t] + Held([call EXCEPT ![t] = NoCall])[t]
      BY <1>1, <1>3, <2>1, <2>4, HeapFacts
    <3>2. /\ \A k \in MadeIn(The) \ {o} : obj'[k] = obj[k]
          /\ DOMAIN obj' = DOMAIN obj /\ HeapCounts(obj'["heap"])
      BY <2>1, HeapFacts
    <3> QED
      BY <1>1, <2>2, <2>3, <3>1, <3>2, MakesLemma
  <2> QED
    BY <1>5, <2>5
<1>6. CASE ~(c.x.max = 0 \/ c.x.count = 0) /\ c.op \in StaticMakes /\ ConstructStatic(t, c)
  <2>1. obj' = Buffers(c, <<>>) /\ call' = [call EXCEPT ![t] = NoCall]
    BY <1>1, <1>6 DEF ConstructStatic, Return, Goto
  <2> QED
    BY <1>1, <1>5, <1>6, <2>1
<1>7. ASSUME NEW valid \in SUBSET {2, 3}, ~(c.x.max = 0 \/ c.x.count = 0), c.op \notin StaticMakes,
             ConstructMessageBuffer(t, c, valid)
      PROVE  HeapState(The, obj', call')
  <2>1. CASE GiveUpBuffer(t, c)
    <3>1. /\ obj' = [obj EXCEPT !["heap"] = Freed(obj["heap"], Got(c.acc))]
          /\ call' = [call EXCEPT ![t] = NoCall]
      BY <1>1, <2>1 DEF GiveUpBuffer, Set, Return, Goto
    <3>2. /\ DOMAIN obj' = DOMAIN obj /\ \A k \in MadeIn(The) : obj'[k] = obj[k]
          /\ \A k \in PartsIn(The) : obj'[k] = obj[k]
          /\ obj'["heap"] = Freed(obj["heap"], Got(c.acc))
      BY <3>1, HeapFacts
    <3>3. Owned(obj')[o] = 0 /\ obj'[o] = NoObject
      BY <1>1, <3>2, HeapFacts DEF Owned, NoObject
    <3>4. HeapCounts(obj'["heap"]) /\ obj'["heap"].allocated = obj["heap"].allocated - Got(c.acc)
      BY <1>1, <3>2, HeapFacts, FreedLemma
    <3>5. HeapState(The, obj', [call EXCEPT ![t] = NoCall])
      <4> HIDE DEF o
      <4>1. obj'["heap"].allocated =
               obj["heap"].allocated - Owned(obj)[o] + Owned(obj')[o]
                     - Held(call)[t] + Held([call EXCEPT ![t] = NoCall])[t]
        BY <1>1, <1>3, <3>3, <3>4, HeapFacts
      <4> QED
        BY <1>1, <3>2, <3>3, <3>4, <4>1, HeapFacts, MakesLemma
    <3> QED
      BY <3>1, <3>5
  <2>2. CASE obj' = Buffers(c, c.acc) /\ Return(t, c, OK)
    <3>1. call' = [call EXCEPT ![t] = NoCall]
      BY <1>1, <2>2 DEF Return, Goto
    <3> QED
      BY <1>5, <2>2, <3>1
  <2> DEFINE got == Min({GetAvailable(obj["heap"]), 1})
             e == [c EXCEPT !.acc = Append(@, got)]
  <2>3. CASE Set("heap", Allocated(obj["heap"], got)) /\ Goto(t, e)
    <3>1. obj' = [obj EXCEPT !["heap"] = Allocated(obj["heap"], got)] /\ call' = [call EXCEPT ![t] = e]
      BY <2>3 DEF Set, Goto
    <3>2. got \in {0, 1} /\ (got = 1 => GetAvailable(obj["heap"]) > 0)
      <4> DEFINE a == GetAvailable(obj["heap"])
      <4>1. a \in Nat
        BY HeapFacts DEF HeapOK, HeapCounts, GetAvailable
      <4> HIDE DEF a
      <4>2. Min({a, 1}) \in Nat /\ Min({a, 1}) <= 1 /\ Min({a, 1}) <= a
        BY <4>1, LessLemma
      <4>3. got = Min({a, 1})
        BY DEF a
      <4> HIDE DEF got
      <4> QED
        BY <4>1, <4>2, <4>3 DEF a
    <3> HIDE DEF got
    <3>3. /\ DOMAIN e = FieldNames /\ e.op = c.op /\ e.o = o /\ e.x = c.x /\ e.then = NoCall
          /\ e.acc = Append(c.acc, got)
      BY <1>1 DEF FieldNames
    <3>4. e.acc \in Seq({0, 1}) /\ Got(e.acc) = Got(c.acc) + got
      BY <1>1, <3>2, <3>3, GotLemma
    <3> HIDE DEF e
    <3>5. ~Rejects(e) /\ e.op \notin CmsisMakes
      BY <1>1, <1>7, <3>3 DEF Rejects, CmsisMakes, MessageMakes
    <3>6. Constructing(The, t, e)
      BY <1>1, <1>7, <3>3, <3>4, <3>5 DEF Constructing
    <3>7. Held([call EXCEPT ![t] = e])[t] = Got(c.acc) + got
      <4>1. e # NoCall
        BY <1>1, <3>3 DEF NoCall, MessageMakes
      <4> QED
        BY <1>1, <1>2, <3>3, <3>4, <4>1 DEF Held
    <3>8. /\ DOMAIN obj' = DOMAIN obj /\ \A k \in MadeIn(The) : obj'[k] = obj[k]
          /\ \A k \in PartsIn(The) : obj'[k] = obj[k]
          /\ obj'["heap"] = Allocated(obj["heap"], got)
      BY <3>1, HeapFacts
    <3>9. Owned(obj')[o] = 0 /\ obj'[o] = NoObject
      BY <1>1, <3>8, HeapFacts DEF Owned, NoObject
    <3>10. HeapCounts(obj'["heap"]) /\ obj'["heap"].allocated = obj["heap"].allocated + got
      BY <3>2, <3>8, HeapFacts, TakesLemma
    <3>11. HeapState(The, obj', [call EXCEPT ![t] = e])
      <4> HIDE DEF o
      <4>1. obj'["heap"].allocated =
               obj["heap"].allocated - Owned(obj)[o] + Owned(obj')[o]
                     - Held(call)[t] + Held([call EXCEPT ![t] = e])[t]
        BY <1>1, <1>3, <3>2, <3>7, <3>9, <3>10, HeapFacts
      <4> QED
        BY <1>1, <3>3, <3>6, <3>8, <3>9, <3>10, <4>1, HeapFacts, MakesLemma
    <3> QED
      BY <3>1, <3>11
  <2> QED
    BY <1>7, <2>1, <2>2, <2>3 DEF ConstructMessageBuffer
<1> QED
  BY <1>4, <1>6, <1>7 DEF BuildsMessages

(* A deletion, while nobody else is in a call *)
LEMMA DeletesKeeps ==
    ASSUME HeapOnly, HeapInv, NEW t \in Tasks, NEW c, HeapTaking(t, c),
           Deletes(t, c) \/ vMessageBufferDelete(t, c)
    PROVE  HeapState(The, obj', call')
<1> DEFINE o == c.o
           n == obj[o].owned
<1>1. /\ c.op \in DeleteOps /\ c.op \notin CreateOps /\ call[t] = NoCall /\ o \in MadeIn(The)
      /\ Existing(PartsIn(The), obj[o]) /\ \A u \in Tasks : call[u] = NoCall
      /\ c.then = NoCall
  BY DEF Deletes, vMessageBufferDelete, HeapTaking, HeapCall, DeleteOps, CreateOps
<1>2. n \in Nat /\ Owned(obj)[o] = n /\ Held(call)[t] = 0 /\ Held([call EXCEPT ![t] = NoCall])[t] = 0
  BY <1>1, HeapFacts DEF Owned, Existing, Held
<1>3. /\ call' = [call EXCEPT ![t] = NoCall]
      /\ DOMAIN obj' = DOMAIN obj /\ \A k \in MadeIn(The) \ {o} : obj'[k] = obj[k]
      /\ obj'["heap"] = Freed(obj["heap"], n) /\ obj'[o] = NoObject
      /\ \A k \in PartsIn(The) : obj'[k] = obj[k] \/ obj'[k] = NoObject
  <2>1. CASE Deletes(t, c)
    BY <1>1, <2>1, HeapFacts DEF Deletes, ObjFree, Return, Goto
  <2>2. CASE vMessageBufferDelete(t, c)
    <3> DEFINE p == obj[o].m_pool
               q == obj[o].m_eq
    <3>1. p \in PartsIn(The) /\ q \in PartsIn(The)
      BY <1>1, <2>2 DEF Existing, HeapTaking, vMessageBufferDelete
    <3>2. /\ call' = [call EXCEPT ![t] = NoCall]
          /\ obj' = [obj EXCEPT ![o] = NoObject, ![p] = NoObject, ![q] = NoObject,
                                ![ "heap"] = Freed(@, n)]
      BY <1>1, <2>2 DEF vMessageBufferDelete, Return, Goto
    <3> HIDE DEF o, p, q, n
    <3> QED
      BY <1>1, <3>1, <3>2, HeapFacts
  <2> QED
    BY <2>1, <2>2
<1> HIDE DEF n, o
<1>4. HeapCounts(obj'["heap"]) /\ obj'["heap"].allocated = obj["heap"].allocated - n
  BY <1>2, <1>3, HeapFacts, FreedLemma
<1>5. Owned(obj')[o] = 0 /\ \A k \in PartsIn(The) : "owned" \notin DOMAIN obj'[k]
  BY <1>1, <1>3, HeapFacts DEF Owned, NoObject
<1>6. obj'["heap"].allocated =
         obj["heap"].allocated - Owned(obj)[o] + Owned(obj')[o]
             - Held(call)[t] + Held([call EXCEPT ![t] = NoCall])[t]
  BY <1>2, <1>4, <1>5, HeapFacts
<1>7. HeapState(The, obj', [call EXCEPT ![t] = NoCall])
  BY <1>1, <1>3, <1>4, <1>5, <1>6, HeapFacts, MakesLemma
<1> QED
  BY <1>3, <1>7

(* The other calls *)
LEMMA LooksKeeps ==
    ASSUME HeapOnly, HeapInv, NEW t \in Tasks, NEW c, HeapTaking(t, c),
           OnlyLooks(t, c) \/ vTimerSetTimerID(t, c)
    PROVE  HeapState(The, obj', call')
<1>1. c.then = NoCall /\ call' = [call EXCEPT ![t] = NoCall] /\ Held(call)[t] = 0
  <2>1. c.then = NoCall /\ call' = [call EXCEPT ![t] = NoCall]
    BY DEF OnlyLooks, vTimerSetTimerID, HeapTaking, HeapCall, Return, Goto
  <2>2. CASE Rejects(c)
    <3>1. c.op \in CreateOps
      BY <2>2 DEF Rejects, CreateOps, MessageMakes
    <3> QED
      BY <2>1, <2>2, <3>1, GotLemma DEF HeapTaking
  <2>3. CASE c.op \in LookOps
    <3>1. c.op \notin CreateOps
      BY <2>3 DEF LookOps, CreateOps
    <3>2. call[t] = NoCall
      BY <3>1 DEF HeapTaking
    <3> QED
      BY <2>1, <3>2 DEF Held
  <2> QED
    BY <2>1, <2>2, <2>3 DEF OnlyLooks, vTimerSetTimerID, LookOps
<1>2. Held([call EXCEPT ![t] = NoCall])[t] = 0
  BY HeapFacts DEF Held
<1>3. Held(call') = Held(call)
  <2>1. \A u \in Tasks : Held(call')[u] = Held(call)[u]
    BY <1>1, <1>2, HeapFacts DEF Held
  <2> QED
    BY <2>1 DEF Held
<1>4. /\ DOMAIN obj' = DOMAIN obj /\ obj'["heap"] = obj["heap"] /\ Owned(obj') = Owned(obj)
      /\ \A o \in PartsIn(The) : "owned" \notin DOMAIN obj'[o]
      /\ \A o \in MadeIn(The) : obj'[o] = NoObject \/ Existing(PartsIn(The), obj'[o])
      /\ \A u \in Tasks : call[u] # NoCall => obj'[call[u].o] = obj[call[u].o]
  <2>1. CASE OnlyLooks(t, c)
    BY <2>1, HeapFacts DEF OnlyLooks, HeapInv, HeapState
  <2>2. CASE vTimerSetTimerID(t, c)
    <3> DEFINE o == c.o
               r == [obj[o] EXCEPT !.m_timer_id = c.x]
    <3>1. o \in MadeIn(The) /\ Existing(PartsIn(The), obj[o]) /\ obj' = [obj EXCEPT ![o] = r]
      BY <2>2 DEF vTimerSetTimerID, HeapTaking, Set
    <3>2. Existing(PartsIn(The), r) /\ r.owned = obj[o].owned
      BY <3>1 DEF Existing
    <3> HIDE DEF o, r
    <3>3. /\ DOMAIN obj' = DOMAIN obj /\ obj'["heap"] = obj["heap"]
          /\ \A k \in DOMAIN obj \ {o} : obj'[k] = obj[k]
          /\ obj'[o] = r
      BY <3>1, HeapFacts
    <3>4. Owned(obj') = Owned(obj)
      <4>1. \A k \in DOMAIN obj : Owned(obj')[k] = Owned(obj)[k]
        <5> SUFFICES ASSUME NEW k \in DOMAIN obj PROVE Owned(obj')[k] = Owned(obj)[k]
          OBVIOUS
        <5>1. CASE k = o
          BY <3>1, <3>2, <3>3, <5>1, HeapFacts DEF Owned, Existing
        <5>2. CASE k # o
          BY <3>3, <5>2 DEF Owned
        <5> QED
          BY <5>1, <5>2
      <4> QED
        BY <3>3, <4>1 DEF Owned
    <3>5. \A u \in Tasks : call[u] # NoCall => call[u].o # o /\ call[u].o \in DOMAIN obj
      <4> SUFFICES ASSUME NEW u \in Tasks, call[u] # NoCall PROVE call[u].o # o /\ call[u].o \in DOMAIN obj
        OBVIOUS
      <4>1. obj[call[u].o] = NoObject /\ Constructing(The, u, call[u])
        BY DEF HeapInv, HeapState
      <4>2. call[u].o \in MadeIn(The)
        BY <4>1 DEF Constructing, MadeIn
      <4> QED
        BY <3>1, <4>1, <4>2, HeapFacts DEF Existing, NoObject
    <3>6. \A k \in MadeIn(The) : obj'[k] = NoObject \/ Existing(PartsIn(The), obj'[k])
      BY <3>2, <3>3, HeapFacts DEF HeapState
    <3>7. \A k \in PartsIn(The) : "owned" \notin DOMAIN obj'[k]
      BY <3>1, <3>3, HeapFacts
    <3> QED
      BY <3>3, <3>4, <3>5, <3>6, <3>7
  <2> QED
    BY <2>1, <2>2
<1> QED
  BY <1>1, <1>3, <1>4, HeapFacts DEF HeapState

-----------------------------------------------------------------------------
LEMMA HeapBegins == ASSUME Init, HeapOnly PROVE HeapInv
<1>1. obj = The.objects /\ call = [t \in Tasks |-> NoCall] /\ HeapProgram(The)
  BY DEF Init, HeapOnly
<1>2. PICK n \in Nat : obj["heap"] = HeapObject(n)
  BY <1>1 DEF HeapProgram
<1>3. HeapOK(obj["heap"]) /\ obj["heap"].allocated = 0
  BY <1>2 DEF HeapOK, HeapCounts, HeapObject, GetAvailable
<1>4. \A o \in PartsIn(The) : "owned" \notin DOMAIN obj[o]
  <2>1. \A m : "owned" \notin DOMAIN PipeObject(m)
    BY DEF PipeObject, RingObject
  <2>2. "owned" \notin DOMAIN NoObject
    BY DEF NoObject
  <2> QED
    BY <1>1, <2>1, <2>2 DEF HeapProgram, PartsIn
<1>5. \A o \in MadeIn(The) : o \in DOMAIN obj /\ o # "heap" /\ obj[o] = NoObject
  BY <1>1 DEF HeapProgram, PartsIn, MadeIn, MadeBy
<1>6. \A o \in DOMAIN obj : Owned(obj)[o] = 0
  BY <1>1, <1>4, <1>5 DEF Owned, PartsIn, NoObject
<1>7. \A t \in Tasks : Held(call)[t] = 0
  BY <1>1 DEF Held
<1>8. IsFiniteSet(DOMAIN obj) /\ IsFiniteSet(Tasks)
  BY <1>1, TasksAssumption DEF HeapProgram
<1>9. SumOf(Owned(obj), DOMAIN obj) = 0 /\ SumOf(Held(call), Tasks) = 0
  BY <1>6, <1>7, <1>8, ZeroSum
<1> QED
  BY <1>1, <1>3, <1>4, <1>5, <1>9 DEF HeapInv, HeapState

LEMMA HeapStepKeeps ==
    ASSUME HeapOnly, HeapInv, NEW t \in Tasks, NEW c, HeapTaking(t, c), Step(t, c)
    PROVE  HeapState(The, obj', call')
<1>1. HeapEffect(t, c)
  BY HeapStepEffect DEF HeapTaking
<1> QED
  BY <1>1, BuildsKeeps, BuildsMessagesKeeps, DeletesKeeps, LooksKeeps DEF HeapEffect

LEMMA HeapNext == ASSUME HeapOnly, HeapInv, [Next]_vars PROVE HeapInv'
<1>1. CASE UNCHANGED vars
  BY <1>1 DEF vars, HeapInv, The
<1>2. CASE Next
  <2>1. The' = The
    BY <1>2 DEF Next, The
  <2>2. ASSUME NEW t \in Tasks, Begin(t) PROVE HeapState(The, obj', call')
    BY <2>2, BeginsTaking, HeapStepKeeps DEF Begin
  <2>3. ASSUME NEW t \in Tasks, Continue(t) PROVE HeapState(The, obj', call')
    BY <2>3, ContinuesTaking, HeapStepKeeps DEF Continue
  <2>4. CASE Tick
    BY <2>1, <2>4 DEF Tick, KernelTick, HeapInv
  <2> QED
    BY <1>2, <2>1, <2>2, <2>3, <2>4 DEF Next, HeapInv
<1> QED
  BY <1>1, <1>2

(* The regions of the heap of any such program are what its objects own and what the
   constructors under way hold, however creations that fail on the way and deletions of
   any number of tasks follow each other: nothing leaks and nothing is freed twice *)
THEOREM RegionsConserved == Spec => [](HeapOnly => HeapConserved)
<1>1. Init => (HeapOnly => HeapInv)
  BY HeapBegins
<1>2. (HeapOnly => HeapInv) /\ [Next]_vars => (HeapOnly => HeapInv)'
  <2> SUFFICES ASSUME HeapOnly => HeapInv, [Next]_vars, HeapOnly' PROVE HeapInv'
    OBVIOUS
  <2>1. HeapOnly
    BY DEF HeapOnly, Next, vars, The
  <2> QED
    BY <2>1, HeapNext
<1>3. (HeapOnly => HeapInv) => (HeapOnly => HeapConserved)
  <2> SUFFICES ASSUME HeapInv PROVE HeapConserved
    OBVIOUS
  <2>1. /\ obj["heap"].allocated = SumOf(Owned(obj), DOMAIN obj) + SumOf(Held(call), Tasks)
        /\ obj["heap"].allocated \in 0..obj["heap"].capacity
        /\ obj["heap"].min_ever_free \in 0..GetAvailable(obj["heap"])
    BY DEF HeapInv, HeapState, HeapOK, HeapCounts, GetAvailable
  <2> QED
    BY <2>1 DEF HeapConserved, SumOf, Owned, Held, Objects
<1> QED
  BY <1>1, <1>2, <1>3, PTL DEF Spec
=============================================================================
