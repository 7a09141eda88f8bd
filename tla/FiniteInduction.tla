--------------------------- MODULE FiniteInduction ---------------------------
(***************************************************************************)
(* Induction over natural numbers and finite sets in a form without         *)
(* operator parameters: a nonempty set of subsets of a finite set has a     *)
(* minimal element, and a nonempty set of natural numbers a least one.      *)
(* From them follow the laws of the sum of the values of a function (Total  *)
(* of TransferAmount) and of the number of elements of a sequence that are  *)
(* in a set (the messages of a kind on a connection).                       *)
(***************************************************************************)
EXTENDS Integers, Sequences, FiniteSetsExt, TLAPS, FiniteSetTheorems

(* A minimal counterexample among the subsets of a finite set. *)
LEMMA MinimalSubset ==
  ASSUME NEW S, IsFiniteSet(S), NEW B, B \subseteq SUBSET S, B # {}
  PROVE  \E t \in B : \A u \in B : u \subseteq t => u = t
<1>1. B \subseteq FiniteSubsetsOf(S)
  BY FS_FiniteSubsetsOfFinite
<1>2. PICK t \in B : \A u \in B : ~ (<<u, t>> \in StrictSubsetOrdering(S))
  BY <1>1, FS_StrictSubsetOrderingWellFounded, WFMin
<1>3. ASSUME NEW u \in B, u \subseteq t, u # t PROVE FALSE
  <2>1. u \subseteq S /\ t \subseteq S
    OBVIOUS
  <2>2. <<u, t>> \in StrictSubsetOrdering(S)
    BY <1>3, <2>1 DEF StrictSubsetOrdering
  <2>. QED BY <1>2, <2>2
<1>. QED BY <1>2, <1>3

(* A least counterexample among the natural numbers. *)
LEMMA LeastNatural ==
  ASSUME NEW T, T \subseteq Nat, T # {}
  PROVE  \E m \in T : \A n \in T : m <= n
<1>1. PICK t \in T : TRUE
  OBVIOUS
<1>. DEFINE below(m) == 0 .. m
            D == {below(m) : m \in {n \in T : n <= t}}
<1>2. IsFiniteSet(0 .. t)
  BY <1>1, FS_Interval
<1>3. D \subseteq SUBSET (0 .. t) /\ D # {}
  BY <1>1
<1>4. PICK d \in D : \A e \in D : e \subseteq d => e = d
  <2>1. ASSUME NEW I, IsFiniteSet(I), D \subseteq SUBSET I
        PROVE  \E d \in D : \A e \in D : e \subseteq d => e = d
    <3>1. D # {}
      BY <1>3
    <3>. HIDE DEF D
    <3>. QED BY <2>1, <3>1, MinimalSubset
  <2>. QED BY <1>2, <1>3, <2>1
<1>5. PICK m \in T : m <= t /\ d = below(m)
  OBVIOUS
<1>6. ASSUME NEW n \in T, n < m PROVE FALSE
  <2>1. below(n) \in D /\ n <= t
    BY <1>1, <1>5, <1>6
  <2>2. below(n) \subseteq d /\ m \in d /\ ~ (m \in below(n))
    BY <1>5, <1>6
  <2>. QED BY <1>4, <2>1, <2>2
<1>. QED BY <1>5, <1>6

(* Induction over the natural numbers, for the set where a formula holds. *)
LEMMA NaturalInduction ==
  ASSUME NEW G, 0 \in G, \A n \in Nat : n \in G => n + 1 \in G
  PROVE  Nat \subseteq G
<1>1. SUFFICES ASSUME Nat \ G # {} PROVE FALSE
  OBVIOUS
<1>2. PICK m \in Nat \ G : \A n \in Nat \ G : m <= n
  BY <1>1, LeastNatural
<1>3. m - 1 \in Nat /\ m - 1 \in G
  BY <1>2
<1>. QED BY <1>2, <1>3
----------------------------------------------------------------------------
(* The sum of the values of a function, and the recursive function that the *)
(* community modules calculate it with.                                     *)
SumOf(c) == FoldFunction(LAMBDA x, y : x + y, 0, c)

One(s) == CHOOSE x \in s : TRUE

IsSum(g, c, S) ==
    g = [s \in SUBSET S |-> IF s = {} THEN 0 ELSE c[One(s)] + g[s \ {One(s)}]]

Partial(c, S) == CHOOSE g : IsSum(g, c, S)

LEMMA SumIsPartial ==
  ASSUME NEW S, NEW c \in [S -> Int]
  PROVE  SumOf(c) = Partial(c, S)[S]
<1>1. DOMAIN c = S
  OBVIOUS
<1>. QED BY <1>1, Zenon DEF SumOf, FoldFunction, FoldFunctionOnSet,
                            MapThenFoldSet, Partial, IsSum, One

LEMMA OneFacts == \A s : s # {} => One(s) \in s
  BY DEF One

LEMMA IsSumFacts ==
  ASSUME NEW c, NEW S, NEW g, IsSum(g, c, S)
  PROVE  /\ g[{}] = 0
         /\ \A s \in SUBSET S : s # {} => g[s] = c[One(s)] + g[s \ {One(s)}]
  BY DEF IsSum

(* Sums over a set and over a subset of it agree. *)
LEMMA PartialAgree ==
  ASSUME NEW c, NEW S, IsFiniteSet(S), NEW T \in SUBSET S,
         NEW g, IsSum(g, c, S), NEW h, IsSum(h, c, T)
  PROVE  h[T] = g[T]
<1>. DEFINE B == {s \in SUBSET T : h[s] # g[s]}
<1>1. SUFFICES ASSUME B # {} PROVE FALSE
  OBVIOUS
<1>2. IsFiniteSet(T)
  BY FS_Subset
<1>3. PICK s \in B : \A u \in B : u \subseteq s => u = s
  <2>. HIDE DEF B
  <2>1. B \subseteq SUBSET T
    BY DEF B
  <2>. QED BY <1>1, <1>2, <2>1, MinimalSubset
<1>4. s # {}
  BY <1>3, IsSumFacts
<1>5. One(s) \in s /\ s \ {One(s)} \subseteq s /\ s \ {One(s)} # s
  BY <1>4, OneFacts
<1>6. h[s \ {One(s)}] = g[s \ {One(s)}]
  BY <1>3, <1>5
<1>7. s \in SUBSET T /\ s \in SUBSET S
  BY <1>3
<1>. QED BY <1>3, <1>4, <1>6, <1>7, IsSumFacts

(* The recursive function exists. *)
LEMMA PartialExists ==
  ASSUME NEW c, NEW S, IsFiniteSet(S)
  PROVE  IsSum(Partial(c, S), c, S)
<1>. DEFINE B == {T \in SUBSET S : ~ IsSum(Partial(c, T), c, T)}
<1>1. SUFFICES ASSUME B # {} PROVE FALSE
  OBVIOUS
<1>2. PICK T \in B : \A u \in B : u \subseteq T => u = T
  <2>. HIDE DEF B
  <2>1. B \subseteq SUBSET S
    BY DEF B
  <2>. QED BY <1>1, <2>1, MinimalSubset
<1>3. ASSUME NEW r \in SUBSET T, r # T
      PROVE  IsSum(Partial(c, r), c, r) /\ IsFiniteSet(r)
  BY <1>2, <1>3, FS_Subset
<1>. DEFINE value(r) == Partial(c, r)[r]
            g == [s \in SUBSET T |->
                    IF s = {} THEN 0 ELSE c[One(s)] + value(s \ {One(s)})]
<1>4. ASSUME NEW r \in SUBSET T, r # T PROVE g[r] = value(r)
  <2>1. CASE r = {}
    <3>1. value(r) = 0
      BY <1>3, <1>4, <2>1, IsSumFacts
    <3>. QED BY <2>1, <3>1
  <2>2. CASE r # {}
    <3>. DEFINE q == r \ {One(r)}
    <3>1. One(r) \in r /\ q \in SUBSET r /\ q \in SUBSET T /\ q # T
      BY <1>4, <2>2, OneFacts
    <3>2. g[r] = c[One(r)] + value(q)
      BY <2>2
    <3>3. value(r) = c[One(r)] + Partial(c, r)[q]
      <4>. HIDE DEF q
      <4>1. IsSum(Partial(c, r), c, r)
        BY <1>3, <1>4
      <4>2. Partial(c, r)[r] = c[One(r)] + Partial(c, r)[r \ {One(r)}]
        BY <2>2, <4>1, IsSumFacts
      <4>. QED BY <4>2 DEF q
    <3>4. Partial(c, q)[q] = Partial(c, r)[q]
      <4>. HIDE DEF q
      <4>. QED BY <1>3, <1>4, <3>1, PartialAgree
    <3>. QED BY <3>2, <3>3, <3>4
  <2>. QED BY <2>1, <2>2
<1>5. IsSum(g, c, T)
  <2>. HIDE DEF value
  <2>1. ASSUME NEW s \in SUBSET T, s # {} PROVE value(s \ {One(s)}) = g[s \ {One(s)}]
    <3>1. s \ {One(s)} \in SUBSET T /\ s \ {One(s)} # T
      BY <2>1, OneFacts
    <3>. HIDE DEF g
    <3>. QED BY <1>4, <3>1
  <2>2. g = [s \in SUBSET T |->
               IF s = {} THEN 0 ELSE c[One(s)] + g[s \ {One(s)}]]
    BY <2>1
  <2>. HIDE DEF g
  <2>. QED BY <2>2 DEF IsSum
<1>6. IsSum(Partial(c, T), c, T)
  <2>. HIDE DEF g
  <2>. QED BY <1>5 DEF Partial
<1>. QED BY <1>2, <1>6

(* Which element is taken out first does not matter. *)
LEMMA PartialLaws ==
  ASSUME NEW S, IsFiniteSet(S), NEW c \in [S -> Int]
  PROVE  /\ Partial(c, S)[{}] = 0
         /\ \A s \in SUBSET S : Partial(c, S)[s] \in Int
         /\ \A s \in SUBSET S : \A x \in s :
               Partial(c, S)[s] = c[x] + Partial(c, S)[s \ {x}]
<1>. DEFINE g == Partial(c, S)
            Law(s) == g[s] \in Int /\ \A x \in s : g[s] = c[x] + g[s \ {x}]
            B == {s \in SUBSET S : ~ Law(s)}
<1>1. IsSum(g, c, S)
  BY PartialExists
<1>. HIDE DEF g
<1>2. SUFFICES ASSUME B # {} PROVE FALSE
  BY <1>1, IsSumFacts DEF g
<1>3. PICK s \in B : \A u \in B : u \subseteq s => u = s
  <2>1. B \subseteq SUBSET S
    OBVIOUS
  <2>. HIDE DEF B
  <2>. QED BY <1>2, <2>1, MinimalSubset
<1>4. s \in SUBSET S /\ ~ Law(s)
  BY <1>3
<1>5. \A u \in SUBSET s : u # s => Law(u)
  BY <1>3, <1>4
<1>. HIDE DEF B
<1>6. CASE s = {}
  BY <1>1, <1>4, <1>6, IsSumFacts
<1>7. CASE s # {}
  <2>. DEFINE o == One(s)
  <2>1. o \in s /\ o \in S /\ c[o] \in Int /\ s \ {o} \in SUBSET s /\ s \ {o} # s
    BY <1>4, <1>7, OneFacts
  <2>2. g[s] = c[o] + g[s \ {o}]
    BY <1>1, <1>4, <1>7, IsSumFacts
  <2>. HIDE DEF o
  <2>3. Law(s \ {o})
    BY <1>5, <2>1
  <2>4. g[s] \in Int
    BY <2>1, <2>2, <2>3
  <2>5. ASSUME NEW x \in s, x # o PROVE g[s] = c[x] + g[s \ {x}]
    <3>1. c[x] \in Int /\ s \ {x} \in SUBSET s /\ s \ {x} # s
      BY <1>4, <2>5
    <3>2. g[s \ {o}] = c[x] + g[(s \ {o}) \ {x}]
      BY <2>3, <2>5
    <3>3. g[s \ {x}] = c[o] + g[(s \ {x}) \ {o}]
      BY <1>5, <2>1, <2>5, <3>1
    <3>4. (s \ {o}) \ {x} = (s \ {x}) \ {o}
      OBVIOUS
    <3>5. g[(s \ {o}) \ {x}] \in Int
      <4>1. (s \ {o}) \ {x} \in SUBSET s /\ (s \ {o}) \ {x} # s
        BY <2>1
      <4>. QED BY <1>5, <4>1
    <3>6. \A p, q, r \in Int : p + (q + r) = q + (p + r)
      OBVIOUS
    <3>7. c[o] + (c[x] + g[(s \ {o}) \ {x}]) = c[x] + (c[o] + g[(s \ {o}) \ {x}])
      BY <2>1, <3>1, <3>5, <3>6
    <3>. QED BY <2>2, <3>2, <3>3, <3>4, <3>7
  <2>. QED BY <1>4, <2>2, <2>4, <2>5
<1>. QED BY <1>6, <1>7

(* A value that is replaced changes the sum by the difference. *)
LEMMA SumUpdate ==
  ASSUME NEW S, IsFiniteSet(S), NEW c \in [S -> Int], NEW i \in S, NEW v \in Int
  PROVE  /\ SumOf(c) \in Int
         /\ SumOf([c EXCEPT ![i] = v]) = SumOf(c) - c[i] + v
<1>. DEFINE d == [c EXCEPT ![i] = v]
            g == Partial(c, S)
            h == Partial(d, S)
            B == {s \in SUBSET S : i \notin s /\ h[s] # g[s]}
<1>1. d \in [S -> Int] /\ d[i] = v /\ \A x \in S : x # i => d[x] = c[x]
  OBVIOUS
<1>. HIDE DEF d
<1>2. /\ g[{}] = 0 /\ \A s \in SUBSET S : g[s] \in Int
      /\ \A s \in SUBSET S : \A x \in s : g[s] = c[x] + g[s \ {x}]
  BY PartialLaws
<1>3. /\ h[{}] = 0 /\ \A s \in SUBSET S : h[s] \in Int
      /\ \A s \in SUBSET S : \A x \in s : h[s] = d[x] + h[s \ {x}]
  BY <1>1, PartialLaws
<1>4. SumOf(c) = g[S] /\ SumOf(d) = h[S]
  BY <1>1, SumIsPartial
<1>. HIDE DEF g, h
<1>5. B = {}
  <2>1. SUFFICES ASSUME B # {} PROVE FALSE
    OBVIOUS
  <2>2. PICK s \in B : \A u \in B : u \subseteq s => u = s
    <3>1. B \subseteq SUBSET S
      OBVIOUS
    <3>. HIDE DEF B
    <3>. QED BY <2>1, <3>1, MinimalSubset
  <2>3. PICK x \in s : TRUE
    BY <1>2, <1>3, <2>2
  <2>4. s \ {x} \in SUBSET S /\ i \notin s \ {x} /\ s \ {x} # s /\ x \in S /\ x # i
    BY <2>2, <2>3
  <2>5. h[s \ {x}] = g[s \ {x}]
    BY <2>2, <2>4
  <2>. QED BY <1>1, <1>2, <1>3, <2>2, <2>3, <2>4, <2>5, ZenonT(60)
<1>6. h[S \ {i}] = g[S \ {i}]
  BY <1>5
<1>. QED BY <1>1, <1>2, <1>3, <1>4, <1>6 DEF d
(* A sum without its summands, and without one of them. *)
LEMMA SumOfNothing ==
  ASSUME NEW c \in [{} -> Int]
  PROVE  SumOf(c) = 0
<1>1. IsFiniteSet({})
  BY FS_EmptySet
<1>2. Partial(c, {})[{}] = 0
  BY <1>1, PartialLaws
<1>. QED BY <1>2, SumIsPartial

LEMMA SumWithout ==
  ASSUME NEW S, IsFiniteSet(S), NEW c \in [S -> Int], NEW x \in S
  PROVE  /\ SumOf([i \in S \ {x} |-> c[i]]) \in Int
         /\ SumOf(c) = c[x] + SumOf([i \in S \ {x} |-> c[i]])
<1>. DEFINE T == S \ {x}
            b == [i \in T |-> c[i]]
            g == Partial(c, S)
            h == Partial(b, T)
<1>1. T \in SUBSET S /\ IsFiniteSet(T) /\ b \in [T -> Int]
  BY FS_Subset
<1>2. IsSum(g, c, S)
  BY PartialExists
<1>3. IsSum(h, c, T)
  <2>1. IsSum(h, b, T)
    <3>. HIDE DEF b
    <3>. QED BY <1>1, PartialExists
  <2>2. \A s \in SUBSET T : s # {} => b[One(s)] = c[One(s)]
    BY OneFacts
  <2>. HIDE DEF b, h, T
  <2>3. h = [s \in SUBSET T |-> IF s = {} THEN 0 ELSE b[One(s)] + h[s \ {One(s)}]]
    BY <2>1 DEF IsSum
  <2>4. h = [s \in SUBSET T |-> IF s = {} THEN 0 ELSE c[One(s)] + h[s \ {One(s)}]]
    BY <2>2, <2>3
  <2>. QED BY <2>4 DEF IsSum
<1>4. h[T] = g[T]
  <2>. HIDE DEF b, g, h, T
  <2>. QED BY <1>1, <1>2, <1>3, PartialAgree
<1>5. g[S] = c[x] + g[T] /\ g[T] \in Int
  <2>1. /\ \A s \in SUBSET S : g[s] \in Int
        /\ \A s \in SUBSET S : \A y \in s : g[s] = c[y] + g[s \ {y}]
    BY PartialLaws
  <2>. HIDE DEF g
  <2>. QED BY <2>1
<1>6. SumOf(c) = g[S]
  BY SumIsPartial
<1>7. SumOf(b) = h[T]
  <2>. HIDE DEF b, T
  <2>. QED BY <1>1, SumIsPartial
<1>. HIDE DEF g, h
<1>. QED BY <1>4, <1>5, <1>6, <1>7

(* No value of a sum of natural numbers exceeds it, nor do two of them. *)
LEMMA SumBounds ==
  ASSUME NEW S, IsFiniteSet(S), NEW c \in [S -> Nat]
  PROVE  /\ SumOf(c) \in Nat
         /\ \A i, j \in S : i # j => c[i] + c[j] <= SumOf(c)
<1>1. ASSUME NEW d \in [S -> Nat] PROVE SumOf(d) \in Nat
  <2>. DEFINE g == Partial(d, S)
              B == {s \in SUBSET S : g[s] \notin Nat}
  <2>1. d \in [S -> Int]
    OBVIOUS
  <2>2. /\ g[{}] = 0
        /\ \A s \in SUBSET S : \A x \in s : g[s] = d[x] + g[s \ {x}]
    BY <2>1, PartialLaws
  <2>3. SumOf(d) = g[S]
    BY <2>1, SumIsPartial
  <2>. HIDE DEF g
  <2>4. SUFFICES ASSUME B # {} PROVE FALSE
    BY <2>3
  <2>5. PICK s \in B : \A u \in B : u \subseteq s => u = s
    <3>1. B \subseteq SUBSET S
      OBVIOUS
    <3>. HIDE DEF B
    <3>. QED BY <2>4, <3>1, MinimalSubset
  <2>6. PICK x \in s : TRUE
    <3>1. g[s] \notin Nat /\ 0 \in Nat
      BY <2>5
    <3>2. s # {}
      BY <2>2, <3>1
    <3>. QED BY <3>2
  <2>7. s \ {x} \in SUBSET S /\ s \ {x} # s /\ d[x] \in Nat
    BY <2>5, <2>6
  <2>8. g[s \ {x}] \in Nat
    BY <2>5, <2>7
  <2>. QED BY <2>2, <2>5, <2>6, <2>7, <2>8
<1>2. ASSUME NEW i \in S, NEW j \in S, i # j PROVE c[i] + c[j] <= SumOf(c)
  <2>. DEFINE d == [c EXCEPT ![i] = 0]
              e == [d EXCEPT ![j] = 0]
  <2>1. d \in [S -> Nat] /\ e \in [S -> Nat] /\ d[j] = c[j]
    BY <1>2
  <2>2. c \in [S -> Int] /\ d \in [S -> Int]
    BY <2>1
  <2>3. 0 \in Int
    OBVIOUS
  <2>4. SumOf(d) = SumOf(c) - c[i] + 0 /\ SumOf(e) = SumOf(d) - d[j] + 0
    <3>1. \A b \in [S -> Int] : \A k \in S :
             SumOf([b EXCEPT ![k] = 0]) = SumOf(b) - b[k] + 0
      BY <2>3, SumUpdate
    <3>2. SumOf(d) = SumOf(c) - c[i] + 0
      <4>. HIDE DEF e
      <4>. QED BY <2>2, <3>1, Zenon
    <3>3. SumOf(e) = SumOf(d) - d[j] + 0
      <4>. HIDE DEF d
      <4>. QED BY <2>2, <3>1, Zenon
    <3>. QED BY <3>2, <3>3
  <2>5. SumOf(e) \in Nat /\ SumOf(d) \in Nat /\ SumOf(c) \in Nat
    <3>. HIDE DEF d, e
    <3>. QED BY <1>1, <2>1
  <2>. HIDE DEF d, e
  <2>. QED BY <2>1, <2>4, <2>5
<1>. QED BY <1>1, <1>2
----------------------------------------------------------------------------
(* The number of places of a sequence that hold an element of T. *)
Places(s, T) == {n \in DOMAIN s : s[n] \in T}
Count(s, T)  == Cardinality(Places(s, T))

LEMMA CountType ==
  ASSUME NEW V, NEW s \in Seq(V), NEW T
  PROVE  /\ IsFiniteSet(Places(s, T)) /\ Count(s, T) \in Nat
         /\ Count(s, T) = 0 <=> \A n \in DOMAIN s : s[n] \notin T
         /\ s = <<>> => Count(s, T) = 0
<1>1. DOMAIN s = 1 .. Len(s) /\ Len(s) \in Nat
  OBVIOUS
<1>2. IsFiniteSet(1 .. Len(s))
  BY <1>1, FS_Interval
<1>3. IsFiniteSet(Places(s, T))
  BY <1>1, <1>2, FS_Subset DEF Places
<1>4. Count(s, T) \in Nat /\ (Count(s, T) = 0 <=> Places(s, T) = {})
  BY <1>3, FS_CardinalityType, FS_EmptySet DEF Count
<1>. QED BY <1>3, <1>4 DEF Places

LEMMA CountAppend ==
  ASSUME NEW V, NEW s \in Seq(V), NEW x \in V, NEW T
  PROVE  Count(Append(s, x), T) = Count(s, T) + (IF x \in T THEN 1 ELSE 0)
<1>. DEFINE r == Append(s, x)
            l == Len(s) + 1
<1>1. /\ Len(s) \in Nat /\ DOMAIN s = 1 .. Len(s) /\ DOMAIN r = 1 .. l
      /\ r[l] = x /\ \A n \in DOMAIN s : r[n] = s[n]
  OBVIOUS
<1>. HIDE DEF r
<1>2. IsFiniteSet(Places(s, T)) /\ l \notin Places(s, T)
  <2>1. IsFiniteSet(Places(s, T))
    BY CountType
  <2>2. l \notin DOMAIN s
    BY <1>1
  <2>. QED BY <2>1, <2>2 DEF Places
<1>3. CASE x \in T
  <2>1. Places(r, T) = Places(s, T) \cup {l}
    BY <1>1, <1>3 DEF Places
  <2>. QED BY <1>2, <1>3, <2>1, FS_AddElement DEF Count, r
<1>4. CASE x \notin T
  <2>1. Places(r, T) = Places(s, T)
    BY <1>1, <1>4 DEF Places
  <2>2. Count(s, T) \in Nat
    BY CountType
  <2>. QED BY <1>4, <2>1, <2>2 DEF Count, r
<1>. QED BY <1>3, <1>4

(* r is s without its k-th element. *)
Without(s, k, r) ==
    /\ Len(s) = Len(r) + 1 /\ k \in 1 .. Len(s)
    /\ \A n \in 1 .. Len(r) : r[n] = s[IF n < k THEN n ELSE n + 1]

LEMMA CountWithout ==
  ASSUME NEW V, NEW s \in Seq(V), NEW r \in Seq(V), NEW k, Without(s, k, r), NEW T
  PROVE  Count(s, T) = Count(r, T) + (IF s[k] \in T THEN 1 ELSE 0)
<1>. DEFINE up(n) == IF n < k THEN n ELSE n + 1
            A == Places(r, T)
            B == Places(s, T) \ {k}
            f == [n \in A |-> up(n)]
<1>1. /\ DOMAIN s = 1 .. Len(r) + 1 /\ DOMAIN r = 1 .. Len(r) /\ Len(r) \in Nat
      /\ k \in 1 .. Len(r) + 1 /\ k \in DOMAIN s
      /\ \A n \in 1 .. Len(r) : r[n] = s[up(n)]
  BY DEF Without
<1>2. IsFiniteSet(Places(s, T)) /\ IsFiniteSet(A) /\ Count(r, T) \in Nat
  BY CountType
<1>3. \A n \in A : n \in 1 .. Len(r) /\ r[n] \in T /\ up(n) \in B
  BY <1>1 DEF Places
<1>4. \A m \in B : \E n \in A : up(n) = m
  <2>1. SUFFICES ASSUME NEW m \in B PROVE \E n \in A : up(n) = m
    OBVIOUS
  <2>2. m \in 1 .. Len(r) + 1 /\ m # k /\ s[m] \in T
    BY <1>1 DEF Places
  <2>. DEFINE n == IF m < k THEN m ELSE m - 1
  <2>3. n \in 1 .. Len(r) /\ up(n) = m
    BY <1>1, <2>2
  <2>4. r[n] \in T
    BY <1>1, <2>2, <2>3
  <2>. QED BY <1>1, <2>3, <2>4 DEF Places
<1>5. \A n, m \in A : up(n) = up(m) => n = m
  BY <1>1, <1>3
<1>6. f \in Bijection(A, B)
  <2>. HIDE DEF A, B, up
  <2>1. f \in [A -> B]
    BY <1>3
  <2>2. f \in Injection(A, B)
    BY <1>5, <2>1 DEF Injection, IsInjective
  <2>3. f \in Surjection(A, B)
    BY <1>4, <2>1 DEF Surjection
  <2>. QED BY <2>2, <2>3 DEF Bijection
<1>7. Cardinality(A) = Cardinality(B) /\ IsFiniteSet(B)
  <2>. HIDE DEF A, B, f
  <2>1. ExistsBijection(A, B)
    BY <1>6 DEF ExistsBijection
  <2>. QED BY <1>2, <2>1, FS_Bijection
<1>8. CASE s[k] \in T
  <2>1. k \in Places(s, T)
    BY <1>1, <1>8 DEF Places
  <2>2. Cardinality(B) = Cardinality(Places(s, T)) - 1
    BY <1>2, <2>1, FS_RemoveElement
  <2>3. Cardinality(Places(s, T)) \in Nat
    BY <1>2, FS_CardinalityType
  <2>. QED BY <1>7, <1>8, <2>2, <2>3 DEF Count
<1>9. CASE s[k] \notin T
  <2>1. B = Places(s, T)
    BY <1>9 DEF Places
  <2>2. Count(s, T) = Count(r, T)
    BY <1>7, <2>1 DEF Count
  <2>. QED BY <1>2, <1>9, <2>2
<1>. QED BY <1>8, <1>9

LEMMA CountTail ==
  ASSUME NEW V, NEW s \in Seq(V), s # <<>>, NEW T
  PROVE  /\ Tail(s) \in Seq(V)
         /\ Count(s, T) = Count(Tail(s), T) + (IF Head(s) \in T THEN 1 ELSE 0)
<1>1. /\ Tail(s) \in Seq(V) /\ Len(s) = Len(Tail(s)) + 1 /\ 1 \in 1 .. Len(s)
      /\ \A n \in 1 .. Len(Tail(s)) : Tail(s)[n] = s[n + 1]
      /\ Head(s) = s[1]
  OBVIOUS
<1>2. Without(s, 1, Tail(s))
  BY <1>1 DEF Without
<1>3. Count(s, T) = Count(Tail(s), T) + (IF s[1] \in T THEN 1 ELSE 0)
  <2>. DEFINE r == Tail(s)
  <2>1. r \in Seq(V) /\ Without(s, 1, r)
    BY <1>1, <1>2
  <2>. HIDE DEF r
  <2>2. Count(s, T) = Count(r, T) + (IF s[1] \in T THEN 1 ELSE 0)
    BY <2>1, CountWithout
  <2>. QED BY <2>2 DEF r
<1>. QED BY <1>1, <1>3
=============================================================================
