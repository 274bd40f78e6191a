---------------------------- MODULE SumTheorems ----------------------------
(***************************************************************************)
(* What the sum of a function over a finite set is, and how it changes,    *)
(* whatever the set: MapThenSumSet of the community modules picks the      *)
(* elements one by one with CHOOSE, and the proofs about stock, sales and  *)
(* cash need no more of it than this.  Nothing here is about the program.  *)
(*                                                                         *)
(* The argument of each lemma is the smallest subset for which it fails:   *)
(* the induction theorems of the library take an operator, which none of   *)
(* the provers can instantiate; that a non-empty set of finite sets has a  *)
(* minimal member can be stated without one.                               *)
(***************************************************************************)
EXTENDS Integers, FiniteSetsExt, FiniteSetTheorems, WellFoundedInduction, TLAPS

(* The element a fold takes next.                                          *)
First(s) == CHOOSE x \in s : TRUE
(* g gives every subset of S the sum of f over it.                         *)
Adds(g, f, S) ==
  \A s \in SUBSET S : g[s] = IF s = {} THEN 0 ELSE f[First(s)] + g[s \ {First(s)}]
IsSum(g, f, S) == g \in [SUBSET S -> Int] /\ Adds(g, f, S)
Partial(f, S) == CHOOSE g : IsSum(g, f, S)
SumOf(f, S) == Partial(f, S)[S]
-----------------------------------------------------------------------------
(* Of the subsets of a finite set that are in B, one has no other in it.   *)
LEMMA Minimal ==
  ASSUME NEW S, IsFiniteSet(S), NEW B \in SUBSET SUBSET S, B # {}
  PROVE  \E s \in B : \A t \in B : t \subseteq s => t = s
<1>1. IsWellFoundedOn(StrictSubsetOrdering(S), SUBSET S)
  BY FS_StrictSubsetOrderingWellFounded, FS_FiniteSubsetsOfFinite
<1>2. \E s \in B : \A t \in B : <<t, s>> \notin StrictSubsetOrdering(S)
  BY <1>1, WFMin
<1>. QED  BY <1>2 DEF StrictSubsetOrdering

(* The element taken is one of the set.                                    *)
LEMMA FirstIn == \A s : s # {} => First(s) \in s
  BY DEF First

(* Two functions that add up agree where both are defined.                 *)
LEMMA Unique ==
  ASSUME NEW S, IsFiniteSet(S), NEW T, NEW f, NEW g, NEW h, Adds(g, f, S), Adds(h, f, T)
  PROVE  \A s \in SUBSET (S \cap T) : g[s] = h[s]
<1>. DEFINE Bad == {s \in SUBSET (S \cap T) : g[s] # h[s]}
<1>1. SUFFICES ASSUME Bad # {} PROVE FALSE
  OBVIOUS
<1>2. PICK s \in Bad : \A t \in Bad : t \subseteq s => t = s
  <2>. Bad \in SUBSET SUBSET S
    OBVIOUS
  <2>. HIDE DEF Bad
  <2>. QED  BY <1>1, Minimal
<1>3. s \in SUBSET S /\ s \in SUBSET T /\ g[s] # h[s]
  BY <1>2
<1>4. s # {}
  BY <1>3 DEF Adds
<1>5. g[s \ {First(s)}] = h[s \ {First(s)}]
  <2>1. First(s) \in s
    BY <1>4, FirstIn
  <2>2. s \ {First(s)} \notin Bad
    BY <2>1, <1>2
  <2>. QED  BY <2>2, <1>3
<1>. QED  BY <1>3, <1>4, <1>5 DEF Adds

(* There is a function that adds up.                                       *)
LEMMA SumExists ==
  ASSUME NEW S, IsFiniteSet(S), NEW f \in [S -> Int]
  PROVE  IsSum(Partial(f, S), f, S)
<1>. DEFINE Bad == {s \in SUBSET S : ~IsSum(Partial(f, s), f, s)}
<1>1. SUFFICES ASSUME Bad # {} PROVE FALSE
  BY DEF Bad
<1>2. PICK s \in Bad : \A t \in Bad : t \subseteq s => t = s
  <2>. Bad \in SUBSET SUBSET S
    OBVIOUS
  <2>. HIDE DEF Bad
  <2>. QED  BY <1>1, Minimal
<1>3. s \in SUBSET S /\ \A t \in SUBSET s : t # s => IsSum(Partial(f, t), f, t)
  BY <1>2
<1>. DEFINE g == [t \in SUBSET s |->
       IF t = {} THEN 0
       ELSE IF t = s THEN f[First(s)] + Partial(f, s \ {First(s)})[s \ {First(s)}]
       ELSE Partial(f, t)[t]]
<1>4. IsSum(g, f, s)
  <2>1. \A t \in SUBSET s : t # s => Partial(f, t)[t] \in Int
    BY <1>3 DEF IsSum, Adds
  <2>2. g \in [SUBSET s -> Int]
    <3>1. s # {} => First(s) \in s /\ s \ {First(s)} # s /\ f[First(s)] \in Int
      BY <1>3, FirstIn
    <3>. QED  BY <2>1, <3>1
  <2>3. ASSUME NEW t \in SUBSET s, t # {}
        PROVE  g[t] = f[First(t)] + g[t \ {First(t)}]
    <3>1. First(t) \in t
      BY <2>3, FirstIn
    <3>. DEFINE u == t \ {First(t)}
    <3>2. u \in SUBSET s /\ u # s
      BY <3>1
    <3>3. g[u] = Partial(f, u)[u]
      BY <3>2, <1>3 DEF IsSum, Adds
    <3>4. CASE t = s
      BY <3>3, <3>4, <2>3
    <3>5. CASE t # s
      <4>1. IsSum(Partial(f, t), f, t) /\ IsSum(Partial(f, u), f, u)
        BY <1>3, <3>2, <3>5
      <4>2. IsFiniteSet(t)
        BY <1>3, FS_Subset
      <4>3. Partial(f, t)[u] = Partial(f, u)[u]
        BY <4>1, <4>2, Unique DEF IsSum
      <4>4. Partial(f, t)[t] = f[First(t)] + Partial(f, t)[u]
        BY <4>1, <2>3 DEF IsSum, Adds
      <4>. QED  BY <4>3, <4>4, <3>3, <3>5, <2>3
    <3>. QED  BY <3>4, <3>5
  <2>4. g[{}] = 0
    OBVIOUS
  <2>. HIDE DEF g
  <2>. QED  BY <2>2, <2>3, <2>4 DEF IsSum, Adds
<1>5. IsSum(Partial(f, s), f, s)
  BY <1>4 DEF Partial
<1>. QED  BY <1>5, <1>2

(* Whatever adds up like that comes to the same.                           *)
LEMMA Folded ==
  ASSUME NEW S, IsFiniteSet(S), NEW f \in [S -> Int], NEW g, Adds(g, f, S)
  PROVE  g[S] = SumOf(f, S)
<1>1. Adds(Partial(f, S), f, S)
  BY SumExists DEF IsSum
<1>. QED  BY <1>1, Unique DEF SumOf

(* The sum of the community modules is this one.                           *)
LEMMA Unfolds ==
  ASSUME NEW S, IsFiniteSet(S), NEW f \in [S -> Int]
  PROVE  MapThenSumSet(LAMBDA x : f[x], S) = SumOf(f, S)
<1>. DEFINE G(g) == [s \in SUBSET S |-> IF s = {} THEN 0 ELSE f[First(s)] + g[s \ {First(s)}]]
            it == CHOOSE g : g = G(g)
<1>1. MapThenSumSet(LAMBDA x : f[x], S) = it[S]
  BY DEF MapThenSumSet, MapThenFoldSet, First
<1>2. IsSum(Partial(f, S), f, S)
  BY SumExists
<1>3. Partial(f, S) = G(Partial(f, S))
  BY <1>2 DEF IsSum, Adds
<1>4. it = G(it)
  BY <1>3
<1>5. Adds(it, f, S)
  <2>. HIDE DEF it
  <2>. QED  BY <1>4 DEF Adds
<1>6. it[S] = Partial(f, S)[S]
  <2>. HIDE DEF it
  <2>. QED  BY <1>2, <1>5, Unique DEF IsSum
<1>. QED  BY <1>1, <1>6 DEF SumOf

(* It is an integer.                                                       *)
LEMMA SumIsInt ==
  ASSUME NEW S, IsFiniteSet(S), NEW f \in [S -> Int]
  PROVE  SumOf(f, S) \in Int
<1>1. IsSum(Partial(f, S), f, S)
  BY SumExists
<1>. QED  BY <1>1 DEF SumOf, IsSum

(* A sum of nothing but zeros is zero.                                     *)
LEMMA SumOfNone ==
  ASSUME NEW S, IsFiniteSet(S), NEW f \in [S -> Int], \A x \in S : f[x] = 0
  PROVE  SumOf(f, S) = 0
<1>. DEFINE g == [s \in SUBSET S |-> 0]
<1>1. Adds(g, f, S)
  BY FirstIn DEF Adds
<1>2. Adds(Partial(f, S), f, S)
  BY SumExists DEF IsSum
<1>3. g[S] = Partial(f, S)[S]
  <2>. HIDE DEF g
  <2>. QED  BY <1>1, <1>2, Unique
<1>. QED  BY <1>3 DEF SumOf

(* A sum of what is never negative is not, and bounds each of its parts.   *)
LEMMA SumIsNat ==
  ASSUME NEW S, IsFiniteSet(S), NEW f \in [S -> Int], \A x \in S : f[x] >= 0
  PROVE  SumOf(f, S) \in Nat /\ \A x \in S : f[x] <= SumOf(f, S)
<1>. DEFINE g == Partial(f, S)
            Bad == {s \in SUBSET S : ~(g[s] \in Nat /\ \A x \in s : f[x] <= g[s])}
<1>0. IsSum(g, f, S)
  BY SumExists
<1>. HIDE DEF g
<1>1. SUFFICES ASSUME Bad # {} PROVE FALSE
  BY DEF SumOf, g
<1>2. PICK s \in Bad : \A t \in Bad : t \subseteq s => t = s
  <2>. Bad \in SUBSET SUBSET S
    OBVIOUS
  <2>. HIDE DEF Bad
  <2>. QED  BY <1>1, Minimal
<1>3. s # {}
  <2>1. g[{}] = 0
    BY <1>0 DEF IsSum, Adds
  <2>2. ~(g[s] \in Nat /\ \A x \in s : f[x] <= g[s])
    OBVIOUS
  <2>. QED  BY <2>1, <2>2
<1>. DEFINE t == s \ {First(s)}
<1>4. First(s) \in s /\ t \in SUBSET S /\ t \notin Bad
  BY <1>2, <1>3, FirstIn
<1>5. g[t] \in Nat /\ \A x \in t : f[x] <= g[t]
  BY <1>4
<1>6. g[s] = f[First(s)] + g[t]
  BY <1>0, <1>2, <1>3 DEF IsSum, Adds
<1>7. \A x \in s : x = First(s) \/ x \in t
  OBVIOUS
<1>8. f[First(s)] \in Nat
  BY <1>4
<1>. HIDE DEF t
<1>9. g[s] \in Nat /\ \A x \in s : f[x] <= g[s]
  BY <1>5, <1>6, <1>7, <1>8
<1>. QED  BY <1>9, <1>2

(* When one part changes the sum changes by as much.                       *)
LEMMA SumChanges ==
  ASSUME NEW S, IsFiniteSet(S), NEW f \in [S -> Int], NEW e \in [S -> Int],
         NEW a \in S, \A x \in S \ {a} : e[x] = f[x]
  PROVE  SumOf(e, S) = SumOf(f, S) + e[a] - f[a]
<1>. DEFINE g == Partial(f, S)
            h == [s \in SUBSET S |-> IF a \in s THEN g[s] + e[a] - f[a] ELSE g[s]]
<1>1. IsSum(g, f, S)
  BY SumExists
<1>. HIDE DEF g
<1>2. \A s \in SUBSET S : g[s] \in Int
  BY <1>1 DEF IsSum
<1>3. Adds(h, e, S)
  <2>1. ASSUME NEW s \in SUBSET S, s # {}
        PROVE  h[s] = e[First(s)] + h[s \ {First(s)}]
    <3>1. First(s) \in s /\ s \ {First(s)} \in SUBSET S
      BY <2>1, FirstIn
    <3>2. g[s] = f[First(s)] + g[s \ {First(s)}]
      BY <1>1, <2>1 DEF IsSum, Adds
    <3>3. e[First(s)] \in Int /\ f[First(s)] \in Int /\ e[a] \in Int /\ f[a] \in Int
          /\ g[s] \in Int /\ g[s \ {First(s)}] \in Int
      BY <3>1, <1>2
    <3>4. CASE First(s) = a
      BY <3>1, <3>2, <3>3, <3>4
    <3>5. CASE First(s) # a
      <4>1. e[First(s)] = f[First(s)]
        BY <3>1, <3>5
      <4>2. a \in s <=> a \in s \ {First(s)}
        BY <3>5
      <4>. QED  BY <3>1, <3>2, <3>3, <4>1, <4>2
    <3>. QED  BY <3>4, <3>5
  <2>2. h[{}] = 0
    BY <1>1 DEF IsSum, Adds
  <2>. HIDE DEF h
  <2>. QED  BY <2>1, <2>2 DEF Adds
<1>4. h[S] = g[S] + e[a] - f[a]
  OBVIOUS
<1>5. Adds(Partial(e, S), e, S)
  BY SumExists DEF IsSum
<1>6. h[S] = Partial(e, S)[S]
  <2>. HIDE DEF h
  <2>. QED  BY <1>3, <1>5, Unique
<1>. QED  BY <1>4, <1>6 DEF SumOf, g

(* The elements can be taken in any order.                                 *)
LEMMA AnyFirst ==
  ASSUME NEW S, IsFiniteSet(S), NEW f \in [S -> Int], NEW g, IsSum(g, f, S)
  PROVE  \A s \in SUBSET S : \A a \in s : g[s] = f[a] + g[s \ {a}]
<1>. DEFINE Bad == {s \in SUBSET S : \E a \in s : g[s] # f[a] + g[s \ {a}]}
<1>1. SUFFICES ASSUME Bad # {} PROVE FALSE
  OBVIOUS
<1>2. PICK s \in Bad : \A t \in Bad : t \subseteq s => t = s
  <2>. Bad \in SUBSET SUBSET S
    OBVIOUS
  <2>. HIDE DEF Bad
  <2>. QED  BY <1>1, Minimal
<1>3. PICK a \in s : g[s] # f[a] + g[s \ {a}]
  OBVIOUS
<1>. DEFINE b == First(s)
<1>4. b \in s /\ s \in SUBSET S /\ g[s] = f[b] + g[s \ {b}]
  BY FirstIn DEF IsSum, Adds
<1>. HIDE DEF b
<1>5. a # b
  BY <1>3, <1>4
<1>6. s \ {a} \notin Bad /\ s \ {b} \notin Bad
  BY <1>2, <1>4
<1>. DEFINE t == (s \ {a}) \ {b}
<1>7. g[s \ {a}] = f[b] + g[t]
  BY <1>4, <1>5, <1>6
<1>8. g[s \ {b}] = f[a] + g[t]
  <2>1. (s \ {b}) \ {a} = t
    OBVIOUS
  <2>2. g[s \ {b}] = f[a] + g[(s \ {b}) \ {a}]
    BY <1>4, <1>5, <1>6
  <2>. QED  BY <2>1, <2>2
<1>9. f[a] \in Int /\ f[b] \in Int /\ g[t] \in Int
  BY <1>4 DEF IsSum
<1>. HIDE DEF Bad, t
<1>. QED  BY <1>3, <1>4, <1>7, <1>8, <1>9

(* A sum is one of its parts and the sum of the others.                    *)
LEMMA SumWith ==
  ASSUME NEW S, IsFiniteSet(S), NEW a \in S, NEW f \in [S -> Int],
         NEW e \in [S \ {a} -> Int], \A x \in S \ {a} : e[x] = f[x]
  PROVE  SumOf(f, S) = f[a] + SumOf(e, S \ {a})
<1>. DEFINE g == Partial(f, S)
            T == S \ {a}
<1>1. IsSum(g, f, S)
  BY SumExists
<1>2. g[S] = f[a] + g[T]
  <2>. HIDE DEF g
  <2>. QED  BY <1>1, AnyFirst
<1>3. IsFiniteSet(T)
  BY FS_Subset
<1>4. Adds(g, e, T)
  <2>. HIDE DEF g
  <2>1. ASSUME NEW s \in SUBSET T PROVE g[s] = IF s = {} THEN 0 ELSE e[First(s)] + g[s \ {First(s)}]
    <3>1. s \in SUBSET S /\ (s # {} => e[First(s)] = f[First(s)])
      BY FirstIn
    <3>. QED  BY <1>1, <3>1 DEF IsSum, Adds
  <2>. QED  BY <2>1 DEF Adds
<1>5. g[T] = SumOf(e, T)
  <2>. HIDE DEF g, T
  <2>1. e \in [T -> Int]
    BY DEF T
  <2>. QED  BY <1>3, <1>4, <2>1, Folded
<1>. QED  BY <1>2, <1>5 DEF SumOf
=============================================================================
