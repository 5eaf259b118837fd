-------------------------- MODULE LinkedListProofs --------------------------
(***************************************************************************)
(* What linking, unlinking and walking do to a list, for entries of any    *)
(* set S and lists of any length.                                          *)
(***************************************************************************)
EXTENDS LinkedList, FiniteSetTheorems, TLAPS

(* IsEmpty of a list is a length of zero *)
LEMMA EmptyLemma ==
    ASSUME NEW S, NEW s \in Seq(S)
    PROVE  Len(s) \in Nat /\ (s = <<>> <=> Len(s) = 0)
OBVIOUS

(* The index of a linked task is a position that holds it *)
LEMMA IndexOfLinked ==
    ASSUME NEW s, NEW k, IsLinked(s, k)
    PROVE  Index(s, k) \in 1..Len(s) /\ s[Index(s, k)] = k
BY DEF Index, IsLinked

(* DListHead::Unlink takes one task out of a list and nothing else *)
LEMMA UnlinkLemma ==
    ASSUME NEW S, NEW s \in Seq(S), NEW k, NoDuplicates(s), IsLinked(s, k)
    PROVE  /\ Unlink(s, k) \in Seq(S)
           /\ Len(Unlink(s, k)) = Len(s) - 1
           /\ NoDuplicates(Unlink(s, k))
           /\ \A j : IsLinked(Unlink(s, k), j) <=> IsLinked(s, j) /\ j # k
<1> DEFINE n == Len(s)
           x == Index(s, k)
           r == Unlink(s, k)
<1>1. x \in 1..n /\ s[x] = k /\ n \in Nat
  BY IndexOfLinked
<1>2. \A i \in 1..n : s[i] \in S
  OBVIOUS
<1>3. r = [i \in 1..(n - 1) |-> IF i < x THEN s[i] ELSE s[i + 1]]
  BY DEF Unlink
<1>4. \A i \in 1..(n - 1) : IF i < x THEN s[i] \in S ELSE s[i + 1] \in S
  BY <1>1, <1>2
<1> HIDE DEF n, x, r
<1>5. n - 1 \in Nat
  BY <1>1
<1>6. r \in [1..(n - 1) -> S]
  BY <1>3, <1>4
<1>7. r \in Seq(S) /\ Len(r) = n - 1
  BY <1>5, <1>6
<1>8. NoDuplicates(r)
  <2> SUFFICES ASSUME NEW i \in 1..(n - 1), NEW j \in 1..(n - 1), r[i] = r[j]
               PROVE  i = j
    BY <1>7 DEF NoDuplicates
  <2> DEFINE p == IF i < x THEN i ELSE i + 1
             q == IF j < x THEN j ELSE j + 1
  <2>1. p \in 1..n /\ q \in 1..n
    BY <1>1
  <2>2. r[i] = s[p] /\ r[j] = s[q]
    BY <1>3
  <2>3. p = q
    BY <2>1, <2>2 DEF NoDuplicates, n
  <2> QED
    BY <2>3, <1>1
<1>9. ASSUME NEW j PROVE IsLinked(r, j) <=> IsLinked(s, j) /\ j # k
  <2>1. ASSUME NEW i \in 1..(n - 1), r[i] = j PROVE IsLinked(s, j) /\ j # k
    <3> DEFINE p == IF i < x THEN i ELSE i + 1
    <3>1. p \in 1..n /\ p # x
      BY <1>1
    <3>2. s[p] = j
      BY <1>3, <2>1
    <3> HIDE DEF p
    <3>3. j # k
      BY <3>1, <3>2, <1>1 DEF NoDuplicates, n
    <3> QED
      BY <3>1, <3>2, <3>3 DEF IsLinked, n
  <2>2. ASSUME NEW i \in 1..n, s[i] = j, j # k PROVE \E p \in 1..(n - 1) : r[p] = j
    <3> DEFINE p == IF i < x THEN i ELSE i - 1
    <3>1. i # x
      BY <2>2, <1>1
    <3>2. p \in 1..(n - 1) /\ (IF p < x THEN p ELSE p + 1) = i
      BY <3>1, <1>1
    <3>3. r[p] = j
      BY <3>2, <2>2, <1>3
    <3> QED
      BY <3>2, <3>3
  <2> QED
    BY <2>1, <2>2, <1>7 DEF IsLinked, n
<1> QED
  BY <1>7, <1>8, <1>9 DEF r, n

(* LinkBack adds one task to a list and nothing else *)
LEMMA AppendLemma ==
    ASSUME NEW S, NEW s \in Seq(S), NEW k \in S, NoDuplicates(s), ~IsLinked(s, k)
    PROVE  /\ Append(s, k) \in Seq(S)
           /\ Append(s, k) # <<>>
           /\ NoDuplicates(Append(s, k))
           /\ \A j : IsLinked(Append(s, k), j) <=> IsLinked(s, j) \/ j = k
<1> DEFINE n == Len(s)
           r == Append(s, k)
<1>1. r \in Seq(S) /\ Len(r) = n + 1 /\ n \in Nat
  OBVIOUS
<1>2. \A i \in 1..n : r[i] = s[i]
  OBVIOUS
<1>3. r[n + 1] = k
  OBVIOUS
<1>4. \A i \in 1..n : s[i] # k
  BY DEF IsLinked
<1> HIDE DEF r, n
<1>5. r # <<>>
  BY <1>1
<1>6. NoDuplicates(r)
  <2> SUFFICES ASSUME NEW i \in 1..(n + 1), NEW j \in 1..(n + 1), r[i] = r[j]
               PROVE  i = j
    BY <1>1 DEF NoDuplicates
  <2>1. CASE i \in 1..n /\ j \in 1..n
    BY <2>1, <1>2 DEF NoDuplicates, n
  <2>2. CASE i = n + 1 \/ j = n + 1
    BY <2>2, <1>1, <1>2, <1>3, <1>4
  <2> QED
    BY <2>1, <2>2, <1>1
<1>7. ASSUME NEW j PROVE IsLinked(r, j) <=> IsLinked(s, j) \/ j = k
  <2>1. ASSUME NEW i \in 1..(n + 1), r[i] = j PROVE IsLinked(s, j) \/ j = k
    <3>1. CASE i \in 1..n
      BY <3>1, <2>1, <1>2 DEF IsLinked, n
    <3>2. CASE i = n + 1
      BY <3>2, <2>1, <1>3
    <3> QED
      BY <3>1, <3>2, <1>1
  <2>2. ASSUME NEW i \in 1..n, s[i] = j PROVE \E p \in 1..(n + 1) : r[p] = j
    <3>1. i \in 1..(n + 1) /\ r[i] = j
      BY <2>2, <1>1, <1>2
    <3> QED
      BY <3>1
  <2>3. \E p \in 1..(n + 1) : r[p] = k
    <3>1. n + 1 \in 1..(n + 1)
      BY <1>1
    <3> QED
      BY <3>1, <1>3
  <2> QED
    BY <2>1, <2>2, <2>3, <1>1 DEF IsLinked, n
<1> QED
  BY <1>1, <1>5, <1>6, <1>7 DEF r

(* A neighbour in a closed loop is in the loop; it is the task itself only in a
   loop of one *)
LEMMA LoopLemma ==
    ASSUME NEW S, NEW s \in Seq(S), NEW k, NoDuplicates(s), IsLinked(s, k)
    PROVE  /\ LoopNext(s, k) \in S /\ IsLinked(s, LoopNext(s, k))
           /\ LoopPrev(s, k) \in S /\ IsLinked(s, LoopPrev(s, k))
           /\ LoopNext(s, k) = k <=> Len(s) = 1
<1> DEFINE n == Len(s)
           x == Index(s, k)
<1>1. x \in 1..n /\ s[x] = k /\ n \in Nat
  BY IndexOfLinked
<1>2. \A i \in 1..n : s[i] \in S /\ IsLinked(s, s[i])
  BY DEF IsLinked
<1> DEFINE y == IF x = n THEN 1 ELSE x + 1
           z == IF x = 1 THEN n ELSE x - 1
<1>3. LoopNext(s, k) = s[y] /\ LoopPrev(s, k) = s[z]
  BY DEF LoopNext, LoopPrev
<1> HIDE DEF n, x
<1>4. y \in 1..n /\ z \in 1..n /\ (y = x <=> n = 1)
  BY <1>1
<1>5. s[y] = k <=> y = x
  BY <1>1, <1>4 DEF NoDuplicates, n
<1> HIDE DEF y, z
<1> QED
  BY <1>2, <1>3, <1>4, <1>5 DEF n

(* The first entry leaves the list, the others stay *)
LEMMA TailLemma ==
    ASSUME NEW S, NEW s \in Seq(S), s # <<>>, NoDuplicates(s)
    PROVE  /\ Head(s) \in S /\ IsLinked(s, Head(s))
           /\ Tail(s) \in Seq(S) /\ NoDuplicates(Tail(s))
           /\ \A j : IsLinked(Tail(s), j) <=> IsLinked(s, j) /\ j # Head(s)
<1> DEFINE n == Len(s)
           r == Tail(s)
<1>1. n \in Nat /\ n >= 1 /\ Head(s) = s[1] /\ \A i \in 1..n : s[i] \in S
  BY EmptyLemma
<1>2. r \in Seq(S) /\ Len(r) = n - 1 /\ \A i \in 1..(n - 1) : r[i] = s[i + 1]
  OBVIOUS
<1>3. IsLinked(s, Head(s))
  BY <1>1 DEF IsLinked
<1> HIDE DEF n, r
<1>4. NoDuplicates(r)
  <2> SUFFICES ASSUME NEW i \in 1..(n - 1), NEW j \in 1..(n - 1), r[i] = r[j]
               PROVE  i = j
    BY <1>2 DEF NoDuplicates
  <2>1. i + 1 \in 1..n /\ j + 1 \in 1..n /\ s[i + 1] = s[j + 1]
    BY <1>1, <1>2
  <2>2. i + 1 = j + 1
    BY <2>1 DEF NoDuplicates, n
  <2> QED
    BY <2>2, <1>1
<1>5. ASSUME NEW j PROVE IsLinked(r, j) <=> IsLinked(s, j) /\ j # s[1]
  <2>1. ASSUME NEW i \in 1..(n - 1), r[i] = j PROVE IsLinked(s, j) /\ j # s[1]
    <3>1. i + 1 \in 1..n /\ s[i + 1] = j /\ i + 1 # 1 /\ 1 \in 1..n
      BY <1>1, <1>2, <2>1
    <3> QED
      BY <3>1 DEF IsLinked, NoDuplicates, n
  <2>2. ASSUME NEW i \in 1..n, s[i] = j, j # s[1] PROVE \E p \in 1..(n - 1) : r[p] = j
    <3>1. i - 1 \in 1..(n - 1) /\ (i - 1) + 1 = i
      BY <1>1, <2>2
    <3>2. r[i - 1] = s[(i - 1) + 1]
      BY <1>2, <3>1
    <3> QED
      BY <2>2, <3>1, <3>2
  <2> QED
    BY <2>1, <2>2, <1>2 DEF IsLinked, n
<1> QED
  BY <1>1, <1>2, <1>3, <1>4, <1>5 DEF r

-----------------------------------------------------------------------------
(* Walks over a list *)

(* Every set of natural numbers has a least one: what a walk keeps true from one
   position to the next, it keeps true to the end *)
LEMMA LeastLemma ==
    ASSUME NEW T, T \subseteq Nat, T # {}
    PROVE  \E n \in T : \A m \in T : n <= m
<1> DEFINE R == StrictSubsetOrdering(Nat)
           U == {1..n : n \in T}
<1>1. IsWellFoundedOn(R, FiniteSubsetsOf(Nat))
  BY FS_StrictSubsetOrderingWellFounded
<1>2. U \subseteq FiniteSubsetsOf(Nat) /\ U # {}
  <2>1. \A n \in Nat : 1..n \in SUBSET Nat /\ IsFiniteSet(1..n)
    BY FS_Interval
  <2>2. \A n \in Nat : 1..n \in FiniteSubsetsOf(Nat)
    BY <2>1 DEF FiniteSubsetsOf
  <2> QED
    BY <2>2
<1>3. \A x, y \in U : x \subseteq y /\ x # y => <<x, y>> \in R
  BY DEF StrictSubsetOrdering
<1> HIDE DEF R, U
<1>4. PICK x \in U : \A y \in U : ~(<<y, x>> \in R)
  BY <1>1, <1>2, WFMin
<1>5. PICK n \in T : x = 1..n
  BY DEF U
<1>6. ASSUME NEW m \in T, m < n PROVE FALSE
  <2>1. 1..m \in U
    BY DEF U
  <2>2. 1..m \subseteq x /\ 1..m # x
    <3>1. 1..m \subseteq 1..n /\ n \in 1..n /\ n \notin 1..m
      BY <1>6
    <3> QED
      BY <1>5, <3>1
  <2> QED
    BY <1>3, <1>4, <2>1, <2>2
<1> QED
  BY <1>5, <1>6

(* A walk of n steps from a, whose step i turns x into h[<<i, x>>] *)
Steps(n, S) == [(1..n) \X S -> S]

IsWalk(f, n, a, h) == f[0] = a /\ \A i \in 1..n : f[i] = h[<<i, f[i - 1]>>]

(* There is such a walk *)
LEMMA WalkLemma ==
    ASSUME NEW S, NEW a \in S, NEW n \in Nat, NEW h \in Steps(n, S)
    PROVE  \E f \in [0..n -> S] : IsWalk(f, n, a, h)
<1> DEFINE Walk(k, f) == f[0] = a /\ \A i \in 1..k : f[i] = h[<<i, f[i - 1]>>]
           T == {k \in 0..n : ~\E f \in [0..k -> S] : Walk(k, f)}
<1>1. ASSUME T # {} PROVE FALSE
  <2>1. T \subseteq Nat
    OBVIOUS
  <2>2. PICK k \in T : \A m \in T : k <= m
    BY <1>1, <2>1, LeastLemma
  <2>3. k # 0
    <3> DEFINE f == [i \in 0..0 |-> a]
    <3>1. f \in [0..0 -> S] /\ Walk(0, f)
      OBVIOUS
    <3> QED
      BY <3>1
  <2>4. k - 1 \in 0..n /\ k - 1 \notin T
    BY <2>2, <2>3
  <2>5. PICK g \in [0..(k - 1) -> S] : Walk(k - 1, g)
    BY <2>4
  <2> DEFINE f == [i \in 0..k |-> IF i = k THEN h[<<k, g[k - 1]>>] ELSE g[i]]
  <2>6. f \in [0..k -> S]
    <3>1. k \in 1..n /\ k - 1 \in 0..(k - 1) /\ g[k - 1] \in S
      BY <2>3, <2>5
    <3>2. h[<<k, g[k - 1]>>] \in S
      BY <3>1 DEF Steps
    <3>3. \A i \in 0..k : i # k => g[i] \in S
      BY <3>1, <2>5
    <3> QED
      BY <3>2, <3>3
  <2>7. Walk(k, f)
    <3>1. f[0] = a
      BY <2>3, <2>5
    <3>2. ASSUME NEW i \in 1..k PROVE f[i] = h[<<i, f[i - 1]>>]
      <4>1. i - 1 \in 0..k /\ i - 1 # k /\ i \in 0..k /\ f[i - 1] = g[i - 1]
        BY <2>3
      <4>2. CASE i = k
        BY <4>1, <4>2
      <4>3. CASE i # k
        <5>1. i \in 1..(k - 1)
          BY <4>3
        <5>2. g[i] = h[<<i, g[i - 1]>>]
          BY <2>5, <5>1
        <5> QED
          BY <4>1, <4>3, <5>2
      <4> QED
        BY <4>2, <4>3
    <3> QED
      BY <3>1, <3>2
  <2> QED
    BY <2>2, <2>6, <2>7
<1>2. n \notin T /\ n \in 0..n
  BY <1>1
<1> QED
  BY <1>2 DEF IsWalk

(* UnlinkAll takes the entries of a set out of a list and nothing else *)
LEMMA UnlinkAllLemma ==
    ASSUME NEW S, NEW s \in Seq(S), NEW set, NoDuplicates(s)
    PROVE  /\ UnlinkAll(s, set) \in Seq(S)
           /\ NoDuplicates(UnlinkAll(s, set))
           /\ \A j : IsLinked(UnlinkAll(s, set), j) <=> IsLinked(s, j) /\ j \notin set
<1> DEFINE n == Len(s)
           At(f, i) == IF i = 0 THEN <<>>
                       ELSE IF s[i] \in set THEN f[i - 1] ELSE Append(f[i - 1], s[i])
           Kept(f) == f = [i \in 0..n |-> At(f, i)]
           kept == CHOOSE f : Kept(f)
           h == [p \in (1..n) \X Seq(S) |->
                    IF s[p[1]] \in set THEN p[2] ELSE Append(p[2], s[p[1]])]
<1>1. n \in Nat /\ \A i \in 1..n : s[i] \in S
  OBVIOUS
<1>2. UnlinkAll(s, set) = kept[n]
  BY DEF UnlinkAll
<1> HIDE DEF n
<1>3. \E f : Kept(f)
  <2>1. h \in [(1..n) \X Seq(S) -> Seq(S)]
    BY <1>1
  <2>2. \A i \in 1..n, x \in Seq(S) :
            h[<<i, x>>] = IF s[i] \in set THEN x ELSE Append(x, s[i])
    OBVIOUS
  <2> HIDE DEF h
  <2>3. PICK f \in [0..n -> Seq(S)] : IsWalk(f, n, <<>>, h)
    <3>1. <<>> \in Seq(S) /\ h \in Steps(n, Seq(S))
      BY <2>1 DEF Steps
    <3> QED
      BY <1>1, <3>1, WalkLemma
  <2>4. ASSUME NEW i \in 1..n
        PROVE  f[i] = IF s[i] \in set THEN f[i - 1] ELSE Append(f[i - 1], s[i])
    <3>1. i - 1 \in 0..n
      BY <1>1
    <3> QED
      BY <2>2, <2>3, <3>1 DEF IsWalk
  <2>5. ASSUME NEW i \in 0..n PROVE f[i] = At(f, i)
    <3>1. CASE i = 0
      BY <2>3, <3>1 DEF IsWalk
    <3>2. CASE i # 0
      <4>1. i \in 1..n
        BY <1>1, <3>2
      <4> QED
        BY <2>4, <3>2, <4>1
    <3> QED
      BY <3>1, <3>2
  <2> HIDE DEF At
  <2>6. Kept(f)
    BY <2>5
  <2> QED
    BY <2>6
<1>4. \A i \in 0..n : kept[i] = At(kept, i)
  <2> HIDE DEF At
  <2>1. Kept(kept)
    BY <1>3
  <2> HIDE DEF kept
  <2> QED
    BY <2>1
<1> HIDE DEF kept
<1>5. /\ kept[0] = <<>>
      /\ \A i \in 1..n :
            kept[i] = IF s[i] \in set THEN kept[i - 1] ELSE Append(kept[i - 1], s[i])
  <2>1. 0 \in 0..n /\ \A i \in 1..n : i \in 0..n /\ i # 0
    BY <1>1
  <2> QED
    BY <1>4, <2>1
<1> HIDE DEF Kept, At
<1> DEFINE P(i) == /\ kept[i] \in Seq(S) /\ NoDuplicates(kept[i])
                   /\ \A j : IsLinked(kept[i], j)
                                <=> j \notin set /\ \E q \in 1..i : s[q] = j
           T == {i \in 0..n : ~P(i)}
<1>6. P(0)
  BY <1>5 DEF NoDuplicates, IsLinked
<1>7. ASSUME NEW i \in 1..n, P(i - 1) PROVE P(i)
  <2>1. \A j : (\E q \in 1..i : s[q] = j) <=> (\E q \in 1..(i - 1) : s[q] = j) \/ s[i] = j
    <3>1. 1..i = 1..(i - 1) \cup {i}
      BY <1>1
    <3> QED
      BY <3>1
  <2>2. CASE s[i] \in set
    BY <1>5, <1>7, <2>1, <2>2
  <2>3. CASE s[i] \notin set
    <3>1. kept[i] = Append(kept[i - 1], s[i])
      BY <1>5, <2>3
    <3>2. ~IsLinked(kept[i - 1], s[i])
      <4>1. \A q \in 1..(i - 1) : s[q] # s[i]
        BY <1>1 DEF NoDuplicates, n
      <4> QED
        BY <1>7, <4>1
    <3>3. /\ kept[i] \in Seq(S) /\ NoDuplicates(kept[i])
          /\ \A j : IsLinked(kept[i], j) <=> IsLinked(kept[i - 1], j) \/ j = s[i]
      BY <1>1, <1>7, <3>1, <3>2, AppendLemma
    <3> QED
      BY <1>7, <2>1, <2>3, <3>3
  <2> QED
    BY <2>2, <2>3
<1> HIDE DEF P
<1>8. T = {}
  <2>1. SUFFICES ASSUME T # {} PROVE FALSE
    OBVIOUS
  <2>t. T \subseteq Nat
    BY <1>1
  <2>2. PICK i \in T : \A m \in T : i <= m
    BY <2>1, <2>t, LeastLemma
  <2>3. i \in 1..n /\ i - 1 \in 0..n
    BY <1>1, <1>6, <2>2
  <2>4. P(i - 1)
    BY <2>2, <2>3
  <2> QED
    BY <1>7, <2>2, <2>3, <2>4
<1>9. P(n)
  BY <1>1, <1>8
<1> QED
  BY <1>2, <1>9 DEF P, IsLinked, n
=============================================================================
