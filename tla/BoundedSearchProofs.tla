------------------------- MODULE BoundedSearchProofs -------------------------
(***************************************************************************)
(* What the answers of the bounded model checkers mean, for any finite     *)
(* transition system that permutations of the universe leave alone, any    *)
(* depth, and any order of what a hash map or a solver leaves open.        *)
(***************************************************************************)
EXTENDS BoundedSearch, FiniteSetTheorems, WellFoundedInduction, TLAPS

LEMMA LeastNat ==
  ASSUME NEW T \in SUBSET Nat, T # {}
  PROVE  \E x \in T : \A y \in T : x <= y
<1>1. PICK x \in T : \A y \in T : ~ (<<y, x>> \in OpToRel(<, Nat))
  BY NatLessThanWellFounded, WFMin
<1>2. \A y \in T : ~(y < x)
  BY <1>1 DEF OpToRel
<1> QED BY <1>2

(* The first n values of the iteration of G from a.                        *)
Part(g, n, D, a, G) ==
  g \in [0 .. n -> D] /\ g[0] = a /\ \A k \in 1 .. n : g[k] = G[g[k - 1]]

LEMMA PartExists ==
  ASSUME NEW D, NEW a \in D, NEW G \in [D -> D], NEW n \in Nat
  PROVE  \E g : Part(g, n, D, a, G)
<1> DEFINE T == {k \in Nat : ~\E g : Part(g, k, D, a, G)}
<1>1. T \in SUBSET Nat /\ \A k \in Nat : k \in T <=> ~\E g : Part(g, k, D, a, G)
  OBVIOUS
<1> HIDE DEF T
<1>2. SUFFICES ASSUME T # {} PROVE FALSE
  BY <1>1
<1>3. PICK m \in T : \A k \in T : m <= k
  BY <1>1, <1>2, LeastNat
<1>4. m # 0
  <2>1. Part([k \in 0 .. 0 |-> a], 0, D, a, G)
    BY DEF Part
  <2> QED BY <1>1, <1>3, <2>1
<1>5. m \in Nat /\ m - 1 \in Nat /\ ~(m - 1 \in T)
  BY <1>1, <1>3, <1>4
<1>6. PICK g : Part(g, m - 1, D, a, G)
  BY <1>1, <1>5
<1> DEFINE h == [k \in 0 .. m |-> IF k = m THEN G[g[m - 1]] ELSE g[k]]
<1>7. \A k \in 0 .. m : k = m \/ k \in 0 .. m - 1
  BY <1>5
<1>8. \A k \in 0 .. m - 1 : g[k] \in D
  BY <1>6 DEF Part
<1>9. m - 1 \in 0 .. m - 1 /\ G[g[m - 1]] \in D
  BY <1>5, <1>8
<1>10. h \in [0 .. m -> D]
  BY <1>7, <1>8, <1>9
<1>11. h[0] = a
  BY <1>4, <1>5, <1>6 DEF Part
<1>12. ASSUME NEW k \in 1 .. m PROVE h[k] = G[h[k - 1]]
  <2>1. k \in 0 .. m /\ k - 1 \in 0 .. m /\ k - 1 # m
    BY <1>5
  <2>2. h[k - 1] = g[k - 1]
    BY <2>1
  <2>3. CASE k = m
    BY <2>1, <2>2, <2>3
  <2>4. CASE k # m
    <3>1. k \in 1 .. m - 1
      BY <1>5, <2>4
    <3>2. g[k] = G[g[k - 1]]
      BY <1>6, <3>1 DEF Part
    <3> QED BY <2>1, <2>2, <2>4, <3>2
  <2> QED BY <2>3, <2>4
<1> HIDE DEF h
<1>13. Part(h, m, D, a, G)
  BY <1>10, <1>11, <1>12 DEF Part
<1> QED BY <1>1, <1>3, <1>13

LEMMA PartUnique ==
  ASSUME NEW D, NEW a \in D, NEW G \in [D -> D], NEW n \in Nat, NEW m \in Nat, n <= m,
         NEW g, NEW h, Part(g, n, D, a, G), Part(h, m, D, a, G)
  PROVE  g[n] = h[n]
<1> DEFINE T == {k \in 0 .. n : g[k] # h[k]}
<1>1. SUFFICES ASSUME T # {} PROVE FALSE
  OBVIOUS
<1>2. T \in SUBSET Nat
  OBVIOUS
<1>3. PICK k \in T : \A i \in T : k <= i
  BY <1>1, <1>2, LeastNat
<1>4. k # 0
  BY DEF Part
<1>5. k \in 1 .. n /\ k \in 1 .. m /\ k - 1 \in 0 .. n /\ ~(k - 1 \in T)
  BY <1>3, <1>4
<1>6. g[k - 1] = h[k - 1]
  BY <1>5
<1>7. g[k] = G[g[k - 1]] /\ h[k] = G[h[k - 1]]
  BY <1>5 DEF Part
<1> QED BY <1>3, <1>6, <1>7

(* Iterations exist, and so what the recursive functions say is so.        *)
Iterates(f, D, a, G) == f \in [Nat -> D] /\ f[0] = a /\ \A n \in Nat : f[n + 1] = G[f[n]]

LEMMA Iteration ==
  ASSUME NEW D, NEW a \in D, NEW G \in [D -> D]
  PROVE  \E f : Iterates(f, D, a, G)
<1> DEFINE P(n) == CHOOSE g : Part(g, n, D, a, G)
           f == [n \in Nat |-> P(n)[n]]
<1>1. \A n \in Nat : Part(P(n), n, D, a, G)
  BY PartExists
<1> HIDE DEF P
<1>2. \A n \in Nat : P(n)[n] \in D /\ n \in 0 .. n
  BY <1>1 DEF Part
<1>3. f \in [Nat -> D]
  BY <1>2
<1>4. f[0] = a
  BY <1>1 DEF Part
<1>5. ASSUME NEW n \in Nat PROVE f[n + 1] = G[f[n]]
  <2>1. P(n)[n] = P(n + 1)[n]
    BY <1>1, PartUnique
  <2>2. P(n + 1)[n + 1] = G[P(n + 1)[n]]
    <3>1. n + 1 \in 1 .. n + 1 /\ n + 1 \in Nat /\ (n + 1) - 1 = n
      OBVIOUS
    <3>2. \A k \in 1 .. n + 1 : P(n + 1)[k] = G[P(n + 1)[k - 1]]
      BY <1>1, <3>1 DEF Part
    <3> QED BY <3>1, <3>2
  <2> QED BY <2>1, <2>2
<1>6. Iterates(f, D, a, G)
  <2> HIDE DEF f
  <2> QED BY <1>3, <1>4, <1>5 DEF Iterates
<1> QED BY <1>6

-----------------------------------------------------------------------------
(* Layers and paths                                                        *)

IsGraph(sys) ==
  sys.init \subseteq sys.states /\ sys.not_safe \subseteq sys.states
  /\ sys.tr \subseteq sys.states \X sys.states

LEMMA AfterIn ==
  ASSUME NEW sys, IsGraph(sys), NEW S
  PROVE  After(sys.tr, S) \subseteq sys.states
BY DEF After, IsGraph

LEMMA LayersAre ==
  ASSUME NEW sys, IsGraph(sys)
  PROVE  /\ Layers(sys) \in [Nat -> SUBSET sys.states]
         /\ Layers(sys)[0] = sys.init
         /\ \A n \in Nat : Layers(sys)[n + 1] = After(sys.tr, Layers(sys)[n])
<1> DEFINE D == SUBSET sys.states
           G == [S \in D |-> After(sys.tr, S)]
           In == CHOOSE In : In = [n \in Nat |-> IF n = 0 THEN sys.init ELSE After(sys.tr, In[n - 1])]
<1>1. sys.init \in D /\ G \in [D -> D]
  BY AfterIn DEF IsGraph
<1>2. \A S \in D : G[S] = After(sys.tr, S)
  OBVIOUS
<1> HIDE DEF D, G
<1>3. PICK f \in [Nat -> D] : f[0] = sys.init /\ \A n \in Nat : f[n + 1] = G[f[n]]
  <2> DEFINE a == sys.init
  <2>1. a \in D
    BY <1>1
  <2> HIDE DEF a
  <2>2. PICK f : Iterates(f, D, a, G)
    BY <1>1, <2>1, Iteration, Zenon
  <2>3. f \in [Nat -> D] /\ f[0] = a /\ \A n \in Nat : f[n + 1] = G[f[n]]
    BY <2>2 DEF Iterates
  <2> QED BY <2>3, Zenon DEF a
<1>4. ASSUME NEW n \in Nat PROVE f[n] = IF n = 0 THEN sys.init ELSE After(sys.tr, f[n - 1])
  <2>1. CASE n = 0
    BY <1>3, <2>1
  <2>2. CASE n # 0
    <3>1. n - 1 \in Nat /\ n = (n - 1) + 1
      BY <2>2
    <3>2. f[n] = G[f[n - 1]] /\ f[n - 1] \in D
      BY <1>3, <3>1
    <3> QED BY <1>2, <2>2, <3>2
  <2> QED BY <2>1, <2>2
<1>5. f = [n \in Nat |-> IF n = 0 THEN sys.init ELSE After(sys.tr, f[n - 1])]
  BY <1>3, <1>4, Zenon
<1>6. In = [n \in Nat |-> IF n = 0 THEN sys.init ELSE After(sys.tr, In[n - 1])]
  BY <1>5, Zenon
<1>7. Layers(sys) = In
  BY DEF Layers
<1> HIDE DEF In
<1>8. \A n \in Nat : In[n] = IF n = 0 THEN sys.init ELSE After(sys.tr, In[n - 1])
  <2> DEFINE F == [n \in Nat |-> IF n = 0 THEN sys.init ELSE After(sys.tr, In[n - 1])]
  <2>1. \A n \in Nat : F[n] = IF n = 0 THEN sys.init ELSE After(sys.tr, In[n - 1])
    OBVIOUS
  <2>2. In = F
    BY <1>6
  <2> HIDE DEF F
  <2> QED BY <2>1, <2>2
<1>9. DOMAIN In = Nat /\ In = [n \in Nat |-> In[n]]
  BY <1>6
<1>10. In[0] = sys.init
  BY <1>8
<1>11. \A n \in Nat : In[n + 1] = After(sys.tr, In[n])
  <2> TAKE n \in Nat
  <2>1. n + 1 \in Nat /\ n + 1 # 0 /\ (n + 1) - 1 = n
    OBVIOUS
  <2> QED BY <1>8, <2>1
<1>12. \A n \in Nat : In[n] \in SUBSET sys.states
  <2> TAKE n \in Nat
  <2>1. CASE n = 0
    BY <1>10, <2>1 DEF IsGraph
  <2>2. CASE n # 0
    <3>1. In[n] = After(sys.tr, In[n - 1])
      BY <1>8, <2>2
    <3>2. After(sys.tr, In[n - 1]) \subseteq sys.states
      BY AfterIn
    <3> QED BY <3>1, <3>2
  <2> QED BY <2>1, <2>2
<1> QED BY <1>7, <1>9, <1>10, <1>11, <1>12

(* No step leaves what contains the initial states and all their steps.    *)
LEMMA LayersInside ==
  ASSUME NEW sys, IsGraph(sys), NEW S, sys.init \subseteq S, After(sys.tr, S) \subseteq S
  PROVE  \A n \in Nat : Layers(sys)[n] \subseteq S
<1> DEFINE T == {n \in Nat : ~(Layers(sys)[n] \subseteq S)}
<1>1. SUFFICES ASSUME T # {} PROVE FALSE
  OBVIOUS
<1>2. PICK n \in T : \A k \in T : n <= k
  <2>1. T \in SUBSET Nat
    OBVIOUS
  <2> QED BY <1>1, <2>1, LeastNat
<1>3. n # 0
  BY LayersAre
<1>4. n \in Nat /\ n - 1 \in Nat /\ (n - 1) + 1 = n /\ ~(n - 1 \in T)
  BY <1>2, <1>3
<1>5. Layers(sys)[n] = After(sys.tr, Layers(sys)[n - 1]) /\ Layers(sys)[n - 1] \subseteq S
  BY <1>4, LayersAre
<1> QED BY <1>2, <1>5 DEF After

LEMMA LayerInUpto ==
  ASSUME NEW sys, NEW n \in Nat, NEW k \in 0 .. n
  PROVE  Layers(sys)[k] \subseteq Upto(sys, n)
BY DEF Upto

LEMMA UptoNext ==
  ASSUME NEW sys, IsGraph(sys), NEW n \in Nat
  PROVE  /\ sys.init \subseteq Upto(sys, n)
         /\ Upto(sys, n) \subseteq sys.states
         /\ Upto(sys, 0) = sys.init
         /\ Upto(sys, n + 1) = Upto(sys, n) \cup Layers(sys)[n + 1]
         /\ After(sys.tr, Upto(sys, n)) \subseteq Upto(sys, n + 1)
<1>1. /\ \A k \in Nat : Layers(sys)[k] \in SUBSET sys.states
      /\ Layers(sys)[0] = sys.init
      /\ \A k \in Nat : Layers(sys)[k + 1] = After(sys.tr, Layers(sys)[k])
  BY LayersAre
<1>2. sys.init \subseteq Upto(sys, n)
  BY <1>1 DEF Upto
<1>3. Upto(sys, n) \subseteq sys.states
  BY <1>1 DEF Upto
<1>4. Upto(sys, 0) = sys.init
  BY <1>1 DEF Upto
<1>5. 0 .. n + 1 = (0 .. n) \cup {n + 1}
  OBVIOUS
<1>6. Upto(sys, n + 1) = Upto(sys, n) \cup Layers(sys)[n + 1]
  BY <1>5 DEF Upto
<1>7. ASSUME NEW st \in sys.tr, st[1] \in Upto(sys, n) PROVE st[2] \in Upto(sys, n + 1)
  <2>1. PICK k \in 0 .. n : st[1] \in Layers(sys)[k]
    BY <1>7 DEF Upto
  <2>2. st[2] \in Layers(sys)[k + 1] /\ k + 1 \in 0 .. n + 1
    BY <1>1, <2>1 DEF After
  <2> QED BY <2>2 DEF Upto
<1>8. After(sys.tr, Upto(sys, n)) \subseteq Upto(sys, n + 1)
  BY <1>7 DEF After
<1> QED BY <1>2, <1>3, <1>4, <1>6, <1>8

(* As many steps as there are states reach whatever can be reached.        *)
LEMMA Saturates ==
  ASSUME NEW sys, IsGraph(sys), IsFiniteSet(sys.states)
  PROVE  \E n \in 0 .. Cardinality(sys.states) :
           After(sys.tr, Upto(sys, n)) \subseteq Upto(sys, n)
<1> DEFINE N == Cardinality(sys.states)
<1>1. N \in Nat
  BY FS_CardinalityType
<1> HIDE DEF N
<1>2. SUFFICES ASSUME \A n \in 0 .. N : ~(After(sys.tr, Upto(sys, n)) \subseteq Upto(sys, n))
               PROVE  FALSE
  BY DEF N
<1>3. \A n \in Nat : IsFiniteSet(Upto(sys, n)) /\ Cardinality(Upto(sys, n)) \in Nat
  BY UptoNext, FS_Subset, FS_CardinalityType
<1>4. ASSUME NEW n \in 0 .. N
      PROVE  Cardinality(Upto(sys, n)) < Cardinality(Upto(sys, n + 1))
  <2>1. n \in Nat /\ n + 1 \in Nat
    BY <1>1
  <2>2. Upto(sys, n) \subseteq Upto(sys, n + 1) /\ Upto(sys, n) # Upto(sys, n + 1)
    BY <1>2, <2>1, UptoNext
  <2> QED BY <1>3, <2>1, <2>2, FS_Subset
<1> DEFINE T == {n \in Nat : n <= N + 1 /\ Cardinality(Upto(sys, n)) < n}
<1>5. T = {}
  <2>1. SUFFICES ASSUME T # {} PROVE FALSE
    OBVIOUS
  <2>2. PICK n \in T : \A k \in T : n <= k
    <3>1. T \in SUBSET Nat
      OBVIOUS
    <3> QED BY <2>1, <3>1, LeastNat
  <2>3. n \in Nat /\ n <= N + 1 /\ Cardinality(Upto(sys, n)) < n
    BY <2>2
  <2>4. n # 0
    BY <1>3, <2>3
  <2>5. n - 1 \in Nat /\ n - 1 \in 0 .. N /\ (n - 1) + 1 = n /\ ~(n - 1 \in T)
    BY <1>1, <2>2, <2>3, <2>4
  <2>6. Cardinality(Upto(sys, n - 1)) >= n - 1
    BY <1>1, <1>3, <2>3, <2>5
  <2>7. Cardinality(Upto(sys, n - 1)) < Cardinality(Upto(sys, n))
    BY <1>4, <2>5
  <2>8. Cardinality(Upto(sys, n - 1)) \in Nat /\ Cardinality(Upto(sys, n)) \in Nat
    BY <1>3, <2>3, <2>5
  <2> QED BY <2>3, <2>5, <2>6, <2>7, <2>8
<1>6. N + 1 \in Nat /\ Cardinality(Upto(sys, N + 1)) >= N + 1
  BY <1>1, <1>3, <1>5
<1>7. Cardinality(Upto(sys, N + 1)) <= N
  BY <1>6, UptoNext, FS_Subset DEF N
<1> QED BY <1>1, <1>3, <1>6, <1>7

(* A path of n steps from an initial state.                                *)
IsPath(sys, p, n) ==
  /\ p \in Seq(sys.states) /\ Len(p) = n + 1
  /\ p[1] \in sys.init
  /\ \A i \in 1 .. n : <<p[i], p[i + 1]>> \in sys.tr

Succ(sys, s) == After(sys.tr, {s})

LEMMA InSucc ==
  ASSUME NEW sys, IsGraph(sys), NEW s
  PROVE  /\ \A t : t \in Succ(sys, s) <=> <<s, t>> \in sys.tr
         /\ Succ(sys, s) \subseteq sys.states
<1>1. \A x \in sys.tr : x = <<x[1], x[2]>>
  BY DEF IsGraph
<1>2. \A t : t \in Succ(sys, s) => <<s, t>> \in sys.tr
  BY <1>1 DEF Succ, After
<1>3. \A t : <<s, t>> \in sys.tr => t \in Succ(sys, s)
  BY DEF Succ, After
<1> QED BY <1>2, <1>3, AfterIn DEF Succ

LEMMA Single ==
  ASSUME NEW X, NEW x \in X
  PROVE  <<x>> \in Seq(X) /\ Len(<<x>>) = 1 /\ <<x>>[1] = x /\ Last(<<x>>) = x
BY DEF Last

(* The paths one step longer than those of S.                              *)
Longer(sys, S) == UNION {{Append(p, s) : s \in Succ(sys, Last(p))} : p \in S}

LEMMA InLonger ==
  ASSUME NEW sys, NEW S, NEW q
  PROVE  q \in Longer(sys, S) <=>
           \E p \in S : \E s \in Succ(sys, Last(p)) : q = Append(p, s)
<1> DEFINE E(p) == {Append(p, s) : s \in Succ(sys, Last(p))}
<1>1. \A p : q \in E(p) <=> \E s \in Succ(sys, Last(p)) : q = Append(p, s)
  OBVIOUS
<1>2. Longer(sys, S) = UNION {E(p) : p \in S}
  BY DEF Longer
<1> HIDE DEF E
<1> QED BY <1>1, <1>2

LEMMA PathsAre ==
  ASSUME NEW sys, IsGraph(sys)
  PROVE  /\ Paths(sys)[0] = {<<s>> : s \in sys.init}
         /\ \A n \in Nat : Paths(sys)[n + 1] = Longer(sys, Paths(sys)[n])
<1> DEFINE D == SUBSET Seq(sys.states)
           a == {<<s>> : s \in sys.init}
           G == [S \in D |-> Longer(sys, S)]
           Of == CHOOSE Of :
                   Of = [n \in Nat |->
                           IF n = 0 THEN {<<s>> : s \in sys.init}
                           ELSE UNION {{Append(p, s) : s \in After(sys.tr, {Last(p)})} : p \in Of[n - 1]}]
<1>1. \A S \in D : Longer(sys, S) \in D
  <2> TAKE S \in D
  <2>1. \A p \in S : \A s \in Succ(sys, Last(p)) : Append(p, s) \in Seq(sys.states)
    BY InSucc
  <2>2. \A q \in Longer(sys, S) : q \in Seq(sys.states)
    BY <2>1, InLonger
  <2> QED BY <2>2
<1>2. a \in D /\ G \in [D -> D]
  <2>1. \A s \in sys.init : <<s>> \in Seq(sys.states)
    BY Single DEF IsGraph
  <2>2. a \in D
    BY <2>1
  <2>3. G \in [D -> D]
    BY <1>1
  <2> QED BY <2>2, <2>3
<1>3. \A S \in D : G[S] = Longer(sys, S)
  OBVIOUS
<1>4. Paths(sys) = Of
  BY DEF Paths
<1> HIDE DEF D, G
<1>5. PICK f \in [Nat -> D] : f[0] = a /\ \A n \in Nat : f[n + 1] = G[f[n]]
  <2> HIDE DEF a
  <2>1. PICK f : Iterates(f, D, a, G)
    BY <1>2, Iteration, Zenon
  <2>2. f \in [Nat -> D] /\ f[0] = a /\ \A n \in Nat : f[n + 1] = G[f[n]]
    BY <2>1 DEF Iterates
  <2> QED BY <2>2, Zenon
<1>6. ASSUME NEW n \in Nat PROVE f[n] = IF n = 0 THEN a ELSE Longer(sys, f[n - 1])
  <2> HIDE DEF a
  <2>1. CASE n = 0
    BY <1>5, <2>1
  <2>2. CASE n # 0
    <3>1. n - 1 \in Nat /\ n = (n - 1) + 1
      BY <2>2
    <3>2. f[n] = G[f[n - 1]] /\ f[n - 1] \in D
      BY <1>5, <3>1
    <3> QED BY <1>3, <2>2, <3>2
  <2> QED BY <2>1, <2>2
<1>7. f = [n \in Nat |->
             IF n = 0 THEN {<<s>> : s \in sys.init}
             ELSE UNION {{Append(p, s) : s \in After(sys.tr, {Last(p)})} : p \in f[n - 1]}]
  BY <1>5, <1>6, Zenon DEF Longer, Succ
<1>8. Of = [n \in Nat |->
              IF n = 0 THEN {<<s>> : s \in sys.init}
              ELSE UNION {{Append(p, s) : s \in After(sys.tr, {Last(p)})} : p \in Of[n - 1]}]
  BY <1>7, Zenon
<1> HIDE DEF Of
<1>9. \A n \in Nat : Of[n] = IF n = 0 THEN a ELSE Longer(sys, Of[n - 1])
  <2> DEFINE F == [n \in Nat |-> IF n = 0 THEN a ELSE Longer(sys, Of[n - 1])]
  <2>1. \A n \in Nat : F[n] = IF n = 0 THEN a ELSE Longer(sys, Of[n - 1])
    OBVIOUS
  <2>2. Of = F
    BY <1>8, Zenon DEF Longer, Succ
  <2> HIDE DEF F, a
  <2> QED BY <2>1, <2>2
<1>10. Of[0] = a
  BY <1>9
<1>11. \A n \in Nat : Of[n + 1] = Longer(sys, Of[n])
  <2> HIDE DEF a
  <2> TAKE n \in Nat
  <2>1. n + 1 \in Nat /\ n + 1 # 0 /\ (n + 1) - 1 = n
    OBVIOUS
  <2> QED BY <1>9, <2>1
<1> QED BY <1>4, <1>10, <1>11

LEMMA LongerPath ==
  ASSUME NEW sys, IsGraph(sys), NEW n \in Nat, NEW p, IsPath(sys, p, n),
         NEW s \in Succ(sys, Last(p))
  PROVE  IsPath(sys, Append(p, s), n + 1) /\ Last(Append(p, s)) = s
<1>1. Last(p) = p[n + 1] /\ <<p[n + 1], s>> \in sys.tr /\ s \in sys.states
  <2>1. Last(p) = p[n + 1]
    BY DEF Last, IsPath
  <2> QED BY <2>1, InSucc
<1>2. /\ Append(p, s) \in Seq(sys.states) /\ Len(Append(p, s)) = n + 2
      /\ \A i \in 1 .. n + 1 : Append(p, s)[i] = p[i]
      /\ Append(p, s)[n + 2] = s
  BY <1>1 DEF IsPath
<1>3. ASSUME NEW i \in 1 .. n + 1 PROVE <<Append(p, s)[i], Append(p, s)[i + 1]>> \in sys.tr
  <2>1. CASE i = n + 1
    BY <1>1, <1>2, <2>1
  <2>2. CASE i # n + 1
    <3>1. i \in 1 .. n /\ i + 1 \in 1 .. n + 1
      BY <2>2
    <3> QED BY <1>2, <3>1 DEF IsPath
  <2> QED BY <2>1, <2>2
<1>4. n + 2 = (n + 1) + 1
  OBVIOUS
<1> QED BY <1>2, <1>3, <1>4 DEF IsPath, Last

LEMMA PathsArePaths ==
  ASSUME NEW sys, IsGraph(sys)
  PROVE  \A n \in Nat : \A p \in Paths(sys)[n] : IsPath(sys, p, n)
<1> DEFINE T == {n \in Nat : ~\A p \in Paths(sys)[n] : IsPath(sys, p, n)}
<1>1. T \in SUBSET Nat /\ \A n \in Nat : n \in T <=> ~\A p \in Paths(sys)[n] : IsPath(sys, p, n)
  OBVIOUS
<1> HIDE DEF T
<1>2. SUFFICES ASSUME T # {} PROVE FALSE
  BY <1>1
<1>3. PICK n \in T : \A k \in T : n <= k
  BY <1>1, <1>2, LeastNat
<1>4. \A p \in Paths(sys)[0] : IsPath(sys, p, 0)
  <2>1. ASSUME NEW s \in sys.init PROVE IsPath(sys, <<s>>, 0)
    <3>0. s \in sys.states
      BY DEF IsGraph
    <3>1. <<s>> \in Seq(sys.states) /\ Len(<<s>>) = 1 /\ <<s>>[1] = s
      BY <3>0, Single
    <3>2. 1 .. 0 = {}
      OBVIOUS
    <3> QED BY <3>1, <3>2 DEF IsPath
  <2> QED BY <2>1, PathsAre
<1>5. n # 0
  BY <1>1, <1>3, <1>4
<1>6. n \in Nat /\ n - 1 \in Nat /\ (n - 1) + 1 = n /\ ~(n - 1 \in T)
  BY <1>1, <1>3, <1>5
<1>7. \A p \in Paths(sys)[n - 1] : IsPath(sys, p, n - 1)
  BY <1>1, <1>6
<1>8. Paths(sys)[n] = Longer(sys, Paths(sys)[n - 1])
  BY <1>6, PathsAre
<1>9. ASSUME NEW q \in Paths(sys)[n] PROVE IsPath(sys, q, n)
  <2> DEFINE m == n - 1
  <2>1. m \in Nat /\ m + 1 = n
    BY <1>6
  <2>2. PICK p \in Paths(sys)[m] : \E s \in Succ(sys, Last(p)) : q = Append(p, s)
    BY <1>8, InLonger
  <2>3. PICK s \in Succ(sys, Last(p)) : q = Append(p, s)
    BY <2>2
  <2>4. IsPath(sys, p, m)
    BY <1>7
  <2> HIDE DEF m
  <2>5. IsPath(sys, q, m + 1)
    BY <2>1, <2>3, <2>4, LongerPath
  <2> QED BY <2>1, <2>5
<1> QED BY <1>1, <1>3, <1>9

LEMMA LayerHasPaths ==
  ASSUME NEW sys, IsGraph(sys)
  PROVE  \A n \in Nat : \A s \in Layers(sys)[n] : \E p \in Paths(sys)[n] : Last(p) = s
<1> DEFINE Has(n) == \A s \in Layers(sys)[n] : \E p \in Paths(sys)[n] : Last(p) = s
           T == {n \in Nat : ~Has(n)}
<1>1. T \in SUBSET Nat /\ \A n \in Nat : n \in T <=> ~Has(n)
  OBVIOUS
<1> HIDE DEF T
<1>2. SUFFICES ASSUME T # {} PROVE FALSE
  BY <1>1
<1>3. PICK n \in T : \A k \in T : n <= k
  BY <1>1, <1>2, LeastNat
<1>4. Has(0)
  <2>1. \A s \in sys.init : <<s>> \in Paths(sys)[0] /\ Last(<<s>>) = s
    BY PathsAre DEF Last
  <2> QED BY <2>1, LayersAre
<1>5. n # 0
  BY <1>1, <1>3, <1>4
<1>6. n \in Nat /\ n - 1 \in Nat /\ (n - 1) + 1 = n /\ ~(n - 1 \in T)
  BY <1>1, <1>3, <1>5
<1>7. Has(n - 1)
  BY <1>1, <1>6
<1>8. /\ Paths(sys)[n] = Longer(sys, Paths(sys)[n - 1])
      /\ Layers(sys)[n] = After(sys.tr, Layers(sys)[n - 1])
  BY <1>6, PathsAre, LayersAre
<1>9. ASSUME NEW s \in Layers(sys)[n] PROVE \E p \in Paths(sys)[n] : Last(p) = s
  <2>1. PICK st \in sys.tr : st[1] \in Layers(sys)[n - 1] /\ st[2] = s
    BY <1>8 DEF After
  <2>2. PICK p \in Paths(sys)[n - 1] : Last(p) = st[1]
    BY <1>7, <2>1
  <2>3. s \in Succ(sys, Last(p))
    <3>1. <<st[1], s>> \in sys.tr
      BY <2>1 DEF IsGraph
    <3> QED BY <2>2, <3>1, InSucc
  <2>4. Append(p, s) \in Paths(sys)[n]
    <3> DEFINE q == Append(p, s)
               S == Paths(sys)[n - 1]
    <3>1. p \in S /\ \E p_1 \in S : \E s_1 \in Succ(sys, Last(p_1)) : q = Append(p_1, s_1)
      BY <2>3
    <3> HIDE DEF q, S
    <3>2. q \in Longer(sys, S)
      BY <3>1, InLonger
    <3> QED BY <1>8, <3>2 DEF q, S
  <2>5. Last(Append(p, s)) = s
    <3> DEFINE m == n - 1
    <3>1. m \in Nat /\ p \in Paths(sys)[m]
      BY <1>6
    <3> HIDE DEF m
    <3>2. IsPath(sys, p, m)
      BY <3>1, PathsArePaths
    <3> QED BY <2>3, <3>1, <3>2, LongerPath
  <2> QED BY <2>4, <2>5
<1> QED BY <1>1, <1>3, <1>9

LEMMA PathReaches ==
  ASSUME NEW sys, IsGraph(sys), NEW n \in Nat, NEW p, IsPath(sys, p, n)
  PROVE  \A i \in 0 .. n : p[i + 1] \in Layers(sys)[i]
<1> DEFINE T == {i \in 0 .. n : p[i + 1] \notin Layers(sys)[i]}
<1>1. SUFFICES ASSUME T # {} PROVE FALSE
  OBVIOUS
<1>2. PICK i \in T : \A k \in T : i <= k
  <2>1. T \in SUBSET Nat
    OBVIOUS
  <2> QED BY <1>1, <2>1, LeastNat
<1>3. i # 0
  BY LayersAre DEF IsPath
<1>4. i \in 1 .. n /\ i - 1 \in 0 .. n /\ (i - 1) + 1 = i /\ ~(i - 1 \in T)
  BY <1>2, <1>3
<1>5. p[i] \in Layers(sys)[i - 1] /\ <<p[i], p[i + 1]>> \in sys.tr
  BY <1>4 DEF IsPath
<1>6. Layers(sys)[i] = After(sys.tr, Layers(sys)[i - 1])
  BY <1>4, LayersAre
<1>7. p[i + 1] \in Layers(sys)[i]
  BY <1>5, <1>6 DEF After
<1> QED BY <1>2, <1>7

(* A state that may be repeated is in every layer after its first.         *)
LEMMA Repeated ==
  ASSUME NEW sys, IsGraph(sys), NEW s, <<s, s>> \in sys.tr,
         NEW k \in Nat, s \in Layers(sys)[k], NEW n \in Nat, k <= n
  PROVE  s \in Layers(sys)[n]
<1> DEFINE T == {i \in Nat : k <= i /\ s \notin Layers(sys)[i]}
<1>1. SUFFICES ASSUME T # {} PROVE FALSE
  OBVIOUS
<1>2. PICK i \in T : \A j \in T : i <= j
  <2>1. T \in SUBSET Nat
    OBVIOUS
  <2> QED BY <1>1, <2>1, LeastNat
<1>3. i \in Nat /\ i # k /\ k <= i
  BY <1>2
<1>4. i - 1 \in Nat /\ (i - 1) + 1 = i /\ k <= i - 1 /\ ~(i - 1 \in T)
  BY <1>2, <1>3
<1>5. s \in Layers(sys)[i - 1] /\ Layers(sys)[i] = After(sys.tr, Layers(sys)[i - 1])
  BY <1>4, LayersAre
<1> QED BY <1>2, <1>5 DEF After

-----------------------------------------------------------------------------
(* The search back from the unsafe states is the search of this.           *)
Reversed(sys) ==
  [states |-> sys.states, init |-> sys.not_safe, not_safe |-> sys.init,
   tr |-> {<<st[2], st[1]>> : st \in sys.tr}]

LEMMA ReversedIs ==
  ASSUME NEW sys, IsGraph(sys)
  PROVE  /\ IsGraph(Reversed(sys))
         /\ \A S : After(Reversed(sys).tr, S) = Before(sys.tr, S)
<1>1. IsGraph(Reversed(sys))
  BY DEF IsGraph, Reversed
<1>2. \A s, t : <<s, t>> \in Reversed(sys).tr <=> <<t, s>> \in sys.tr
  BY DEF IsGraph, Reversed
<1>3. /\ \A st \in Reversed(sys).tr : st = <<st[1], st[2]>>
      /\ \A st \in sys.tr : st = <<st[1], st[2]>>
  BY <1>1 DEF IsGraph
<1>4. \A S : After(Reversed(sys).tr, S) = Before(sys.tr, S)
  <2> TAKE S
  <2>1. ASSUME NEW s \in After(Reversed(sys).tr, S) PROVE s \in Before(sys.tr, S)
    <3>1. PICK st \in Reversed(sys).tr : st[1] \in S /\ st[2] = s
      BY DEF After
    <3>2. <<s, st[1]>> \in sys.tr
      BY <1>2, <1>3, <3>1
    <3> QED BY <3>1, <3>2 DEF Before
  <2>2. ASSUME NEW s \in Before(sys.tr, S) PROVE s \in After(Reversed(sys).tr, S)
    <3>1. PICK st \in sys.tr : st[2] \in S /\ st[1] = s
      BY DEF Before
    <3>2. <<st[2], s>> \in Reversed(sys).tr
      BY <1>2, <1>3, <3>1
    <3> QED BY <3>1, <3>2 DEF After
  <2> QED BY <2>1, <2>2
<1> QED BY <1>1, <1>4

(* Where an unsafe state is reached in n steps, the search back reaches an *)
(* initial one in n.                                                       *)
LEMMA Meet ==
  ASSUME NEW sys, IsGraph(sys), NEW n \in Nat,
         Layers(sys)[n] \cap sys.not_safe # {}
  PROVE  Layers(Reversed(sys))[n] \cap sys.init # {}
<1> DEFINE R == Layers(Reversed(sys))
           T == {i \in 0 .. n : Layers(sys)[i] \cap R[n - i] # {}}
<1>1. /\ R[0] = sys.not_safe
      /\ \A k \in Nat : R[k + 1] = Before(sys.tr, R[k])
  BY ReversedIs, LayersAre DEF Reversed
<1>2. /\ Layers(sys)[0] = sys.init
      /\ \A k \in Nat : Layers(sys)[k + 1] = After(sys.tr, Layers(sys)[k])
  BY LayersAre
<1> HIDE DEF R
<1>3. n \in T
  <2>1. n - n = 0 /\ n \in 0 .. n
    OBVIOUS
  <2> QED BY <1>1, <2>1
<1>4. PICK i \in T : \A k \in T : i <= k
  <2>1. T \in SUBSET Nat /\ T # {}
    BY <1>3
  <2> HIDE DEF T
  <2> QED BY <2>1, LeastNat
<1>5. i = 0
  <2>1. SUFFICES ASSUME i # 0 PROVE FALSE
    OBVIOUS
  <2>2. /\ i \in 0 .. n /\ i - 1 \in Nat /\ i - 1 \in 0 .. n /\ (i - 1) + 1 = i
        /\ n - i \in Nat /\ (n - i) + 1 = n - (i - 1) /\ ~(i - 1 \in T)
    BY <1>4, <2>1
  <2>3. PICK t \in Layers(sys)[i] : t \in R[n - i]
    BY <1>4
  <2>4. PICK st \in sys.tr : st[1] \in Layers(sys)[i - 1] /\ st[2] = t
    BY <1>2, <2>2, <2>3 DEF After
  <2>5. st[1] \in R[n - (i - 1)]
    <3>1. R[n - (i - 1)] = Before(sys.tr, R[n - i])
      BY <1>1, <2>2
    <3> QED BY <2>3, <2>4, <3>1 DEF Before
  <2> QED BY <2>2, <2>4, <2>5
<1>6. n - 0 = n
  OBVIOUS
<1> QED BY <1>2, <1>4, <1>5, <1>6 DEF R

-----------------------------------------------------------------------------
(* interpret(), for any queue, seen and current_depth.                     *)

WithinDepth(d, i) == d = Unbounded \/ i < d
Reach(sys, S) == UNION {sys.orbit[s] : s \in S}

(* A trace of the queue.                                                   *)
IsTrace(sys, compressed, t) ==
  /\ t.depth \in Nat /\ t.states \in Seq(sys.states) /\ t.states # <<>>
  /\ Last(t.states) \in Layers(sys)[t.depth]
  /\ ~compressed => IsPath(sys, t.states, t.depth)

(* A state that was popped, or one isomorphic to it, at depth k or above.  *)
Expanded(sys, d, sn, s, k) ==
  s \notin sys.not_safe /\ (WithinDepth(d, k) => Succ(sys, s) \subseteq sn)

(* The depth that the search is at is that of the traces in front; the     *)
(* layers up to it have been seen and, but for the last, are safe.  A      *)
(* state that was seen waits with a trace that is no longer than any that  *)
(* leads to the state, or has been expanded.                               *)
Bfs(sys, d, compressed, q, sn, c) ==
  /\ c \in Nat /\ (d = Unbounded \/ c <= d)
  /\ \A t \in q : /\ IsTrace(sys, compressed, t)
                  /\ t.depth = c \/ t.depth = c + 1
                  /\ d = Unbounded \/ t.depth <= d
  /\ sn \subseteq sys.states /\ \A s \in sn : sys.orbit[s] \subseteq sn
  /\ \A k \in 0 .. c : Layers(sys)[k] \subseteq sn
  /\ \A k \in 0 .. c - 1 : Layers(sys)[k] \cap sys.not_safe = {}
  /\ \A k \in Nat : \A s \in Layers(sys)[k] \cap sn :
       \/ \E t \in q : t.depth <= k /\ Last(t.states) \in sys.orbit[s]
       \/ Expanded(sys, d, sn, s, k)
  /\ \A s \in sn :
       \/ \E t \in q : Last(t.states) \in sys.orbit[s]
       \/ Expanded(sys, d, sn, s, c)

LEMMA SystemGraph ==
  ASSUME NEW sys, IsSystem(sys)
  PROVE  IsGraph(sys)
BY DEF IsSystem, IsGraph

LEMMA OrbitFacts ==
  ASSUME NEW sys, IsSystem(sys), NEW s \in sys.states
  PROVE  /\ sys.orbit[s] \subseteq sys.states /\ s \in sys.orbit[s]
         /\ \A t \in sys.orbit[s] : sys.orbit[t] = sys.orbit[s] /\ s \in sys.orbit[t]
         /\ \A t \in sys.orbit[s] : t \in sys.not_safe => s \in sys.not_safe
BY DEF IsSystem

(* What S leaves out of X is isomorphic to something in S or seen before.  *)
Chosen(sys, sn, X, S) ==
  S \subseteq X \ sn /\ \A s \in X \ sn : \E t \in S : t \in sys.orbit[s]

LEMMA ChosenSeen ==
  ASSUME NEW sys, IsSystem(sys), NEW X \in SUBSET sys.states, NEW sn \in SUBSET sys.states,
         NEW S, Chosen(sys, sn, X, S), \A s \in sn : sys.orbit[s] \subseteq sn
  PROVE  /\ X \subseteq sn \cup Reach(sys, S)
         /\ sn \cup Reach(sys, S) \subseteq sys.states
         /\ \A s \in sn \cup Reach(sys, S) : sys.orbit[s] \subseteq sn \cup Reach(sys, S)
         /\ \A s \in Reach(sys, S) : \E t \in S : t \in sys.orbit[s]
<1>1. S \subseteq sys.states
  BY DEF Chosen
<1>2. \A s : s \in Reach(sys, S) <=> \E t \in S : s \in sys.orbit[t]
  BY DEF Reach
<1>3. \A t \in S : \A s \in sys.orbit[t] :
        s \in sys.states /\ t \in sys.orbit[s] /\ sys.orbit[s] = sys.orbit[t]
  BY <1>1, OrbitFacts
<1>4. X \subseteq sn \cup Reach(sys, S)
  <2>1. SUFFICES ASSUME NEW s \in X, s \notin sn PROVE s \in Reach(sys, S)
    OBVIOUS
  <2>2. PICK t \in S : t \in sys.orbit[s]
    BY <2>1 DEF Chosen
  <2>3. s \in sys.orbit[t]
    BY <2>2, OrbitFacts
  <2> QED BY <1>2, <2>3
<1>5. Reach(sys, S) \subseteq sys.states
  BY <1>2, <1>3
<1>6. \A s \in Reach(sys, S) : \E t \in S : t \in sys.orbit[s]
  BY <1>2, <1>3
<1>7. \A s \in Reach(sys, S) : sys.orbit[s] \subseteq Reach(sys, S)
  BY <1>2, <1>3
<1> QED BY <1>4, <1>5, <1>6, <1>7

LEMMA BfsStart ==
  ASSUME NEW sys, IsSystem(sys), NEW d \in 0 .. Unbounded, NEW compressed \in BOOLEAN,
         NEW S, Chosen(sys, {}, sys.init, S)
  PROVE  Bfs(sys, d, compressed, {Trace(<<s>>, 0) : s \in S}, Reach(sys, S), 0)
<1> DEFINE q == {Trace(<<s>>, 0) : s \in S}
           sn == Reach(sys, S)
<1>1. IsGraph(sys) /\ S \subseteq sys.init /\ S \subseteq sys.states
  BY SystemGraph DEF Chosen, IsGraph
<1>2. Layers(sys)[0] = sys.init
  BY <1>1, LayersAre
<1>3. /\ sys.init \subseteq sn /\ sn \subseteq sys.states
      /\ \A s \in sn : sys.orbit[s] \subseteq sn
      /\ \A s \in sn : \E t \in S : t \in sys.orbit[s]
  <2> DEFINE X == sys.init
             z == {}
  <2>1. z \cup sn = sn /\ X \in SUBSET sys.states /\ z \in SUBSET sys.states
    BY <1>1 DEF IsGraph
  <2>2. Chosen(sys, z, X, S) /\ \A s \in z : sys.orbit[s] \subseteq z
    OBVIOUS
  <2> HIDE DEF X, z
  <2>3. /\ X \subseteq z \cup Reach(sys, S)
        /\ z \cup Reach(sys, S) \subseteq sys.states
        /\ \A s \in z \cup Reach(sys, S) : sys.orbit[s] \subseteq z \cup Reach(sys, S)
        /\ \A s \in Reach(sys, S) : \E t \in S : t \in sys.orbit[s]
    BY <2>1, <2>2, ChosenSeen
  <2> QED BY <2>1, <2>3 DEF X
<1>4. ASSUME NEW s \in S
      PROVE  /\ Trace(<<s>>, 0) \in q /\ Trace(<<s>>, 0).depth = 0
             /\ Last(Trace(<<s>>, 0).states) = s
             /\ IsTrace(sys, compressed, Trace(<<s>>, 0))
  <2>1. s \in sys.states /\ s \in sys.init
    BY <1>1
  <2>2. Trace(<<s>>, 0).depth = 0 /\ Trace(<<s>>, 0).states = <<s>>
    BY DEF Trace
  <2>3. <<s>> \in Seq(sys.states) /\ Len(<<s>>) = 1 /\ <<s>>[1] = s /\ Last(<<s>>) = s
    BY <2>1, Single
  <2>4. <<s>> # <<>>
    OBVIOUS
  <2>5. IsPath(sys, <<s>>, 0)
    <3>1. 1 .. 0 = {}
      OBVIOUS
    <3> QED BY <2>1, <2>3, <3>1 DEF IsPath
  <2>6. Trace(<<s>>, 0) \in q
    OBVIOUS
  <2> DEFINE t == Trace(<<s>>, 0)
             p == <<s>>
  <2>7. 0 \in Nat /\ t.depth = 0 /\ t.states = p
    BY <2>2
  <2> HIDE DEF t, p, q
  <2>8. /\ p \in Seq(sys.states) /\ Last(p) = s /\ p # <<>> /\ IsPath(sys, p, 0) /\ t \in q
    BY <2>3, <2>4, <2>5, <2>6 DEF p, t
  <2>9. IsTrace(sys, compressed, t)
    BY <1>2, <2>1, <2>7, <2>8 DEF IsTrace
  <2> QED BY <2>7, <2>8, <2>9 DEF t
<1>5. \A t \in q : \E s \in S : t = Trace(<<s>>, 0)
  OBVIOUS
<1> HIDE DEF q, sn
<1>6. 0 .. 0 - 1 = {} /\ 0 .. 0 = {0}
  OBVIOUS
<1>7. \A t \in q : IsTrace(sys, compressed, t) /\ t.depth = 0
  BY <1>4, <1>5
<1>8. \A s \in sn : \E t \in q : t.depth = 0 /\ Last(t.states) \in sys.orbit[s]
  BY <1>3, <1>4
<1>9. \A k \in Nat : \A s \in Layers(sys)[k] \cap sn :
        \E t \in q : t.depth <= k /\ Last(t.states) \in sys.orbit[s]
  BY <1>8
<1>10. 0 <= d
  BY BoundedAssumption DEF Unbounded
<1> HIDE DEF Bfs
<1> QED BY <1>2, <1>3, <1>6, <1>7, <1>8, <1>9, <1>10 DEF Bfs, q, sn

LEMMA BfsAdvance ==
  ASSUME NEW sys, IsSystem(sys), NEW d \in 0 .. Unbounded, NEW compressed \in BOOLEAN,
         NEW q, NEW sn, NEW c, Bfs(sys, d, compressed, q, sn, c),
         NEW t \in q, \A o \in q : t.depth <= o.depth
  PROVE  /\ Bfs(sys, d, compressed, q, sn, t.depth)
         /\ t.depth = c + IF t.depth > c THEN 1 ELSE 0
<1>1. c \in Nat /\ (t.depth = c \/ t.depth = c + 1)
  BY DEF Bfs
<1>2. CASE t.depth = c
  BY <1>1, <1>2
<1>3. CASE t.depth = c + 1
  <2> DEFINE L == Layers(sys)
  <2>1. IsGraph(sys)
    BY SystemGraph
  <2>2. \A o \in q : IsTrace(sys, compressed, o) /\ o.depth = c + 1 /\ (d = Unbounded \/ o.depth <= d)
    BY <1>1, <1>3 DEF Bfs, IsTrace
  <2>3. d \in Nat /\ (d = Unbounded \/ c < d)
    BY <1>1, <1>3, <2>2, BoundedAssumption DEF Unbounded
  <2>4. \A s \in L[c] : s \notin sys.not_safe /\ Succ(sys, s) \subseteq sn
    <3> TAKE s \in L[c]
    <3>1. s \in L[c] \cap sn
      BY <1>1 DEF Bfs
    <3>2. \/ \E o \in q : o.depth <= c /\ Last(o.states) \in sys.orbit[s]
          \/ Expanded(sys, d, sn, s, c)
      BY <1>1, <3>1 DEF Bfs
    <3>3. Expanded(sys, d, sn, s, c)
      BY <1>1, <2>2, <3>2
    <3> QED BY <2>3, <3>3 DEF Expanded, WithinDepth
  <2>5. L[c + 1] \subseteq sn
    <3>1. L[c + 1] = After(sys.tr, L[c])
      BY <1>1, <2>1, LayersAre
    <3>2. ASSUME NEW x \in L[c + 1] PROVE x \in sn
      <4>1. PICK st \in sys.tr : st[1] \in L[c] /\ st[2] = x
        BY <3>1 DEF After
      <4>2. x \in Succ(sys, st[1])
        BY <4>1 DEF Succ, After
      <4> QED BY <2>4, <4>1, <4>2
    <3> QED BY <3>2
  <2>6. /\ \A k \in 0 .. c + 1 : k = c + 1 \/ k \in 0 .. c
        /\ \A k \in 0 .. (c + 1) - 1 : k = c \/ k \in 0 .. c - 1
    BY <1>1
  <2>7. \A k \in 0 .. c + 1 : L[k] \subseteq sn
    BY <2>5, <2>6 DEF Bfs
  <2>8. \A k \in 0 .. (c + 1) - 1 : L[k] \cap sys.not_safe = {}
    BY <2>4, <2>6 DEF Bfs
  <2>9. \A s \in sn : Expanded(sys, d, sn, s, c) => Expanded(sys, d, sn, s, c + 1)
    BY <1>1, <2>3 DEF Expanded, WithinDepth
  <2>10. c + 1 \in Nat /\ (d = Unbounded \/ c + 1 <= d)
    BY <1>1, <2>3
  <2>11. Bfs(sys, d, compressed, q, sn, c + 1)
    BY <2>2, <2>7, <2>8, <2>9, <2>10 DEF Bfs
  <2> QED BY <1>1, <1>3, <2>11
<1> QED BY <1>1, <1>2, <1>3

Pushed(compressed, t, s) ==
  Trace(IF compressed THEN <<s>> ELSE Append(t.states, s), t.depth + 1)

LEMMA PushedIsTrace ==
  ASSUME NEW sys, IsSystem(sys), NEW compressed \in BOOLEAN,
         NEW t, IsTrace(sys, compressed, t), NEW s \in Succ(sys, Last(t.states))
  PROVE  /\ IsTrace(sys, compressed, Pushed(compressed, t, s))
         /\ Pushed(compressed, t, s).depth = t.depth + 1
         /\ Last(Pushed(compressed, t, s).states) = s
<1> DEFINE p == IF compressed THEN <<s>> ELSE Append(t.states, s)
           n == t.depth + 1
           x == Pushed(compressed, t, s)
<1>1. IsGraph(sys) /\ s \in sys.states /\ t.depth \in Nat /\ n \in Nat
  BY SystemGraph, InSucc DEF IsTrace
<1>2. x.states = p /\ x.depth = n
  BY DEF Pushed, Trace
<1>3. s \in Layers(sys)[n]
  <2>1. Layers(sys)[n] = After(sys.tr, Layers(sys)[t.depth])
    BY <1>1, LayersAre
  <2>2. <<Last(t.states), s>> \in sys.tr /\ Last(t.states) \in Layers(sys)[t.depth]
    BY <1>1, InSucc DEF IsTrace
  <2> QED BY <2>1, <2>2 DEF After
<1>4. p \in Seq(sys.states) /\ p # <<>> /\ Last(p) = s /\ (~compressed => IsPath(sys, p, n))
  <2>1. CASE compressed
    <3>1. p = <<s>> /\ <<s>> # <<>>
      BY <2>1
    <3> QED BY <1>1, <2>1, <3>1, Single
  <2>2. CASE ~compressed
    <3>1. IsPath(sys, t.states, t.depth)
      BY <2>2 DEF IsTrace
    <3>2. IsPath(sys, Append(t.states, s), t.depth + 1) /\ Last(Append(t.states, s)) = s
      BY <1>1, <3>1, LongerPath
    <3>3. p = Append(t.states, s)
      BY <2>2
    <3>4. IsPath(sys, p, n) /\ Last(p) = s
      BY <3>2, <3>3
    <3> HIDE DEF p, n
    <3>5. p \in Seq(sys.states) /\ Len(p) = n + 1
      BY <3>4 DEF IsPath
    <3> QED BY <1>1, <3>4, <3>5
  <2> QED BY <2>1, <2>2
<1> HIDE DEF p, n, x
<1>5. IsTrace(sys, compressed, x) /\ x.depth = n /\ Last(x.states) = s
  BY <1>1, <1>2, <1>3, <1>4 DEF IsTrace
<1> QED BY <1>5 DEF x, n

(* The trace in front has been expanded.                                   *)
LEMMA BfsExpand ==
  ASSUME NEW sys, IsSystem(sys), NEW d \in 0 .. Unbounded, NEW compressed \in BOOLEAN,
         NEW q, NEW sn, NEW c, Bfs(sys, d, compressed, q, sn, c),
         NEW t \in q, t.depth = c, WithinDepth(d, c),
         Last(t.states) \notin sys.not_safe,
         NEW S, Chosen(sys, sn, Succ(sys, Last(t.states)), S)
  PROVE  Bfs(sys, d, compressed, (q \ {t}) \cup {Pushed(compressed, t, s) : s \in S},
             sn \cup Reach(sys, S), c)
<1> DEFINE u == Last(t.states)
           new == {Pushed(compressed, t, s) : s \in S}
           r == (q \ {t}) \cup new
           sm == sn \cup Reach(sys, S)
           L == Layers(sys)
<1>1. /\ c \in Nat /\ d \in Nat /\ (d = Unbounded \/ c <= d) /\ (d = Unbounded \/ c + 1 <= d)
      /\ sn \in SUBSET sys.states /\ \A s \in sn : sys.orbit[s] \subseteq sn
      /\ IsTrace(sys, compressed, t)
      /\ IsGraph(sys)
  BY SystemGraph, BoundedAssumption DEF Bfs, WithinDepth, Unbounded
<1>2. u \in sys.states
  <2>1. \A n \in Nat : L[n] \in SUBSET sys.states
    BY <1>1, LayersAre
  <2> QED BY <1>1, <2>1 DEF IsTrace
<1>3. /\ Succ(sys, u) \subseteq sm
      /\ sm \subseteq sys.states
      /\ \A s \in sm : sys.orbit[s] \subseteq sm
      /\ \A s \in Reach(sys, S) : \E x \in S : x \in sys.orbit[s]
  <2> DEFINE X == Succ(sys, u)
  <2>1. X \in SUBSET sys.states /\ Chosen(sys, sn, X, S)
    BY <1>1, InSucc
  <2> HIDE DEF X, u
  <2> QED BY <1>1, <2>1, ChosenSeen DEF X
<1>4. ASSUME NEW s \in S
      PROVE  /\ Pushed(compressed, t, s) \in r
             /\ IsTrace(sys, compressed, Pushed(compressed, t, s))
             /\ Pushed(compressed, t, s).depth = c + 1
             /\ Last(Pushed(compressed, t, s).states) = s
  <2>1. s \in Succ(sys, Last(t.states))
    BY DEF Chosen
  <2>2. Pushed(compressed, t, s) \in r
    OBVIOUS
  <2> HIDE DEF r
  <2> QED BY <1>1, <2>1, <2>2, PushedIsTrace
<1>5. \A x \in r : x \in q \/ \E s \in S : x = Pushed(compressed, t, s)
  OBVIOUS
<1>6. \A x \in q : x = t \/ x \in r
  OBVIOUS
<1> HIDE DEF u, new, r, sm
(* What waited with t is isomorphic to u, and so has been expanded.        *)
<1>7. ASSUME NEW s \in sys.states, u \in sys.orbit[s]
      PROVE  s \notin sys.not_safe /\ Succ(sys, s) \subseteq sm
  <2>1. s \in sys.orbit[u]
    BY <1>7, OrbitFacts
  <2>2. s \notin sys.not_safe
    <3>1. s \in sys.not_safe => sys.orbit[s] \subseteq sys.not_safe
      BY DEF IsSystem
    <3> QED BY <1>7, <3>1 DEF u
  <2>3. ASSUME NEW x \in Succ(sys, s) PROVE x \in sm
    <3>1. <<s, x>> \in sys.tr /\ x \in sys.states
      BY <1>1, InSucc
    <3>2. PICK y \in sys.orbit[x] : <<u, y>> \in sys.tr
      <4>1. \A st \in sys.tr : \A v \in sys.orbit[st[1]] : \E y \in sys.orbit[st[2]] : <<v, y>> \in sys.tr
        BY DEF IsSystem
      <4>2. \A v \in sys.orbit[<<s, x>>[1]] : \E y \in sys.orbit[<<s, x>>[2]] : <<v, y>> \in sys.tr
        BY <3>1, <4>1
      <4> QED BY <1>7, <4>2
    <3>3. y \in sm
      BY <1>1, <1>3, <3>2, InSucc
    <3>4. x \in sys.orbit[y]
      BY <3>1, <3>2, OrbitFacts
    <3> QED BY <1>3, <3>3, <3>4
  <2> QED BY <2>2, <2>3
<1>8. \A k : \A s \in sn : Expanded(sys, d, sn, s, k) => Expanded(sys, d, sm, s, k)
  BY DEF Expanded, sm
<1>9. \A s \in sm : s \in sn \/ \E x \in r : x.depth = c + 1 /\ Last(x.states) \in sys.orbit[s]
  BY <1>3, <1>4 DEF sm
<1>10. \A x \in r : /\ IsTrace(sys, compressed, x)
                    /\ x.depth = c \/ x.depth = c + 1
                    /\ d = Unbounded \/ x.depth <= d
  <2>1. \A x \in q : /\ IsTrace(sys, compressed, x)
                     /\ x.depth = c \/ x.depth = c + 1
                     /\ d = Unbounded \/ x.depth <= d
    BY DEF Bfs
  <2> QED BY <1>1, <1>4, <1>5, <2>1
<1>11. /\ \A k \in 0 .. c : L[k] \subseteq sn
       /\ \A k \in 0 .. c - 1 : L[k] \cap sys.not_safe = {}
  BY DEF Bfs
<1>12. ASSUME NEW k \in Nat, NEW s \in L[k] \cap sm
       PROVE  \/ \E x \in r : x.depth <= k /\ Last(x.states) \in sys.orbit[s]
              \/ Expanded(sys, d, sm, s, k)
  <2>1. CASE s \in sn
    <3>1. \/ \E x \in q : x.depth <= k /\ Last(x.states) \in sys.orbit[s]
          \/ Expanded(sys, d, sn, s, k)
      BY <2>1 DEF Bfs
    <3>2. ASSUME NEW x \in q, x.depth <= k, Last(x.states) \in sys.orbit[s], x = t
          PROVE  Expanded(sys, d, sm, s, k)
      BY <1>1, <1>7, <2>1, <3>2 DEF Expanded, u
    <3> QED BY <1>6, <1>8, <2>1, <3>1, <3>2
  <2>2. CASE s \notin sn
    <3>1. ~(k <= c)
      BY <1>1, <1>11, <2>2
    <3>2. c + 1 <= k
      BY <1>1, <3>1
    <3> QED BY <1>9, <2>2, <3>2
  <2> QED BY <2>1, <2>2
<1>13. ASSUME NEW s \in sm
       PROVE  \/ \E x \in r : Last(x.states) \in sys.orbit[s]
              \/ Expanded(sys, d, sm, s, c)
  <2>1. CASE s \in sn
    <3>1. \/ \E x \in q : Last(x.states) \in sys.orbit[s]
          \/ Expanded(sys, d, sn, s, c)
      BY <2>1 DEF Bfs
    <3>2. ASSUME NEW x \in q, Last(x.states) \in sys.orbit[s], x = t
          PROVE  Expanded(sys, d, sm, s, c)
      BY <1>1, <1>7, <2>1, <3>2 DEF Expanded, u
    <3> QED BY <1>6, <1>8, <2>1, <3>1, <3>2
  <2>2. CASE s \notin sn
    BY <1>9, <2>2
  <2> QED BY <2>1, <2>2
<1>14. \A k \in 0 .. c : L[k] \subseteq sm
  BY <1>11 DEF sm
<1>15. Bfs(sys, d, compressed, r, sm, c)
  BY <1>1, <1>3, <1>10, <1>11, <1>12, <1>13, <1>14 DEF Bfs
<1> QED BY <1>15 DEF r, new, sm

(* The trace in front is at the depth limit.                               *)
LEMMA BfsDrop ==
  ASSUME NEW sys, IsSystem(sys), NEW d \in 0 .. Unbounded, NEW compressed \in BOOLEAN,
         NEW q, NEW sn, NEW c, Bfs(sys, d, compressed, q, sn, c),
         NEW t \in q, t.depth = c, ~WithinDepth(d, c),
         Last(t.states) \notin sys.not_safe
  PROVE  Bfs(sys, d, compressed, q \ {t}, sn, c)
<1> DEFINE r == q \ {t}
           L == Layers(sys)
<1>1. c \in Nat /\ d \in Nat /\ d # Unbounded /\ \A k \in Nat : c <= k => ~WithinDepth(d, k)
  <2>1. d \in Nat
    BY BoundedAssumption DEF Unbounded
  <2>2. c \in Nat /\ d # Unbounded /\ ~(c < d)
    BY DEF Bfs, WithinDepth
  <2>3. \A k \in Nat : c <= k => ~(k < d)
    BY <2>1, <2>2
  <2> QED BY <2>1, <2>2, <2>3 DEF WithinDepth
<1>2. \A s \in sn : s \in sys.states
  BY DEF Bfs
<1>3. ASSUME NEW s \in sys.states, Last(t.states) \in sys.orbit[s], NEW k \in Nat, c <= k
      PROVE  Expanded(sys, d, sn, s, k)
  <2>1. s \in sys.not_safe => sys.orbit[s] \subseteq sys.not_safe
    BY DEF IsSystem
  <2> QED BY <1>1, <1>3, <2>1 DEF Expanded
<1>4. \A x \in q : x = t \/ x \in r
  OBVIOUS
<1>5. r \subseteq q
  OBVIOUS
<1> HIDE DEF r
<1>6. ASSUME NEW k \in Nat, NEW s \in L[k] \cap sn
      PROVE  \/ \E x \in r : x.depth <= k /\ Last(x.states) \in sys.orbit[s]
             \/ Expanded(sys, d, sn, s, k)
  <2>1. \/ \E x \in q : x.depth <= k /\ Last(x.states) \in sys.orbit[s]
        \/ Expanded(sys, d, sn, s, k)
    BY DEF Bfs
  <2> QED BY <1>2, <1>3, <1>4, <2>1
<1>7. ASSUME NEW s \in sn
      PROVE  \/ \E x \in r : Last(x.states) \in sys.orbit[s]
             \/ Expanded(sys, d, sn, s, c)
  <2>1. \/ \E x \in q : Last(x.states) \in sys.orbit[s]
        \/ Expanded(sys, d, sn, s, c)
    BY DEF Bfs
  <2>2. c <= c
    BY <1>1
  <2> QED BY <1>1, <1>2, <1>3, <1>4, <2>1, <2>2
<1>8. Bfs(sys, d, compressed, r, sn, c)
  BY <1>5, <1>6, <1>7 DEF Bfs
<1> QED BY <1>8 DEF r

(* What CounterexampleRight says of a counterexample of n steps.           *)
Leads(sys, ms, compressed, n) ==
  /\ Last(ms) \in Layers(sys)[n] \cap sys.not_safe
  /\ ~compressed => /\ ms[1] \in sys.init
                    /\ \A i \in 1 .. n : <<ms[i], ms[i + 1]>> \in sys.tr

SafeBefore(sys, n) == \A k \in 0 .. n - 1 : Layers(sys)[k] \cap sys.not_safe = {}

Shortest(sys, ms, compressed, n) == Leads(sys, ms, compressed, n) /\ SafeBefore(sys, n)

(* What AnswerRight says of Convergence, and of Unknown at depth d.        *)
Converged(sys) ==
  \E n \in 0 .. Cardinality(sys.states) :
    LET S == Upto(sys, n) IN
    S \cap sys.not_safe = {} /\ After(sys.tr, S) \subseteq S

SafeUpto(sys, d) == d # Unbounded /\ Upto(sys, d) \cap sys.not_safe = {}

LEMMA InUpto ==
  ASSUME NEW sys, NEW n
  PROVE  \A s : s \in Upto(sys, n) <=> \E k \in 0 .. n : s \in Layers(sys)[k]
BY DEF Upto

(* A set that holds the initial states, that no step leaves, and that is   *)
(* safe.                                                                   *)
LEMMA Closed ==
  ASSUME NEW sys, IsGraph(sys), IsFiniteSet(sys.states), NEW S,
         sys.init \subseteq S, After(sys.tr, S) \subseteq S, S \cap sys.not_safe = {}
  PROVE  Converged(sys)
<1>1. \A n \in Nat : Layers(sys)[n] \subseteq S
  BY LayersInside
<1>2. PICK n \in 0 .. Cardinality(sys.states) :
        After(sys.tr, Upto(sys, n)) \subseteq Upto(sys, n)
  BY Saturates
<1>3. \A k \in 0 .. n : k \in Nat
  OBVIOUS
<1>4. Upto(sys, n) \subseteq S
  BY <1>1, <1>3, InUpto
<1> QED BY <1>2, <1>4 DEF Converged

LEMMA BfsFound ==
  ASSUME NEW sys, IsSystem(sys), NEW d \in 0 .. Unbounded, NEW compressed \in BOOLEAN,
         NEW q, NEW sn, NEW t \in q, Bfs(sys, d, compressed, q, sn, t.depth),
         Last(t.states) \in sys.not_safe
  PROVE  /\ Shortest(sys, t.states, compressed, t.depth)
         /\ compressed \/ Len(t.states) - 1 = t.depth
<1>1. /\ IsTrace(sys, compressed, t)
      /\ \A k \in 0 .. t.depth - 1 : Layers(sys)[k] \cap sys.not_safe = {}
  BY DEF Bfs
<1>2. t.depth \in Nat /\ Last(t.states) \in Layers(sys)[t.depth]
  BY <1>1 DEF IsTrace
<1>3. ASSUME ~compressed
      PROVE  /\ t.states[1] \in sys.init
             /\ \A i \in 1 .. t.depth : <<t.states[i], t.states[i + 1]>> \in sys.tr
             /\ Len(t.states) - 1 = t.depth
  <2>1. IsPath(sys, t.states, t.depth)
    BY <1>1, <1>3 DEF IsTrace
  <2> QED BY <1>2, <2>1 DEF IsPath
<1> QED BY <1>1, <1>2, <1>3 DEF Shortest, Leads, SafeBefore

LEMMA BfsDone ==
  ASSUME NEW sys, IsSystem(sys), NEW d \in 0 .. Unbounded, NEW compressed \in BOOLEAN,
         NEW q, q = {}, NEW sn, NEW c, Bfs(sys, d, compressed, q, sn, c)
  PROVE  IF WithinDepth(d, c) THEN Converged(sys) ELSE SafeUpto(sys, d)
<1>1. \A s \in sn : Expanded(sys, d, sn, s, c)
  BY DEF Bfs
<1>2. c \in Nat /\ \A k \in 0 .. c : Layers(sys)[k] \subseteq sn
  BY DEF Bfs
<1>3. CASE WithinDepth(d, c)
  <2>1. IsGraph(sys) /\ IsFiniteSet(sys.states)
    BY SystemGraph DEF IsSystem
  <2>2. sys.init \subseteq sn
    <3>1. Layers(sys)[0] = sys.init /\ 0 \in 0 .. c
      BY <1>2, <2>1, LayersAre
    <3> QED BY <1>2, <3>1
  <2>3. \A s \in sn : s \notin sys.not_safe /\ Succ(sys, s) \subseteq sn
    BY <1>1, <1>3 DEF Expanded
  <2>4. After(sys.tr, sn) \subseteq sn
    <3>1. SUFFICES ASSUME NEW st \in sys.tr, st[1] \in sn PROVE st[2] \in sn
      BY DEF After
    <3>2. st[2] \in Succ(sys, st[1])
      BY DEF Succ, After
    <3> QED BY <2>3, <3>1, <3>2
  <2> QED BY <1>3, <2>1, <2>2, <2>3, <2>4, Closed
<1>4. CASE ~WithinDepth(d, c)
  <2>1. d \in Nat /\ d # Unbounded /\ c = d
    BY <1>2, <1>4, BoundedAssumption DEF WithinDepth, Unbounded, Bfs
  <2>2. \A s \in sn : s \notin sys.not_safe
    BY <1>1 DEF Expanded
  <2>3. Upto(sys, d) \subseteq sn
    BY <1>2, <2>1, InUpto
  <2> QED BY <1>4, <2>1, <2>2, <2>3 DEF SafeUpto
<1> QED BY <1>3, <1>4

-----------------------------------------------------------------------------
(* check_internal(), in either direction: sys may be Reversed(system).     *)

LEMMA ConvergedBack ==
  ASSUME NEW sys, IsGraph(sys), IsFiniteSet(sys.states), Converged(Reversed(sys))
  PROVE  Converged(sys)
<1>1. PICK n \in Nat :
        /\ Upto(Reversed(sys), n) \cap sys.init = {}
        /\ Before(sys.tr, Upto(Reversed(sys), n)) \subseteq Upto(Reversed(sys), n)
        /\ sys.not_safe \subseteq Upto(Reversed(sys), n)
  <2>1. /\ IsGraph(Reversed(sys))
        /\ \A S : After(Reversed(sys).tr, S) = Before(sys.tr, S)
    BY ReversedIs
  <2>2. Reversed(sys).init = sys.not_safe /\ Reversed(sys).not_safe = sys.init
        /\ Reversed(sys).states = sys.states
    BY DEF Reversed
  <2>3. Cardinality(sys.states) \in Nat
    BY FS_CardinalityType
  <2>4. PICK n \in 0 .. Cardinality(sys.states) :
          /\ Upto(Reversed(sys), n) \cap sys.init = {}
          /\ After(Reversed(sys).tr, Upto(Reversed(sys), n)) \subseteq Upto(Reversed(sys), n)
    BY <2>2 DEF Converged
  <2>5. n \in Nat
    BY <2>3, <2>4
  <2>6. Reversed(sys).init \subseteq Upto(Reversed(sys), n)
    BY <2>1, <2>5, UptoNext
  <2> QED BY <2>1, <2>2, <2>4, <2>5, <2>6
<1> DEFINE S == Upto(Reversed(sys), n)
           T == sys.states \ S
<1>2. S \cap sys.init = {} /\ Before(sys.tr, S) \subseteq S /\ sys.not_safe \subseteq S
  BY <1>1
<1> HIDE DEF S
<1>3. sys.init \subseteq T /\ T \cap sys.not_safe = {}
  BY <1>2 DEF IsGraph
<1>4. After(sys.tr, T) \subseteq T
  <2>1. SUFFICES ASSUME NEW st \in sys.tr, st[1] \in T PROVE st[2] \in T
    BY DEF After
  <2>2. st[2] \in S => st[1] \in S
    BY <1>2 DEF Before
  <2>3. st[2] \in sys.states
    BY DEF IsGraph
  <2> QED BY <2>1, <2>2, <2>3
<1> HIDE DEF T
<1> QED BY <1>3, <1>4, Closed

LEMMA SafeBack ==
  ASSUME NEW sys, IsGraph(sys), NEW d \in Nat, SafeUpto(Reversed(sys), d)
  PROVE  SafeUpto(sys, d)
<1>1. ASSUME NEW s \in Upto(sys, d), s \in sys.not_safe PROVE FALSE
  <2>1. PICK k \in 0 .. d : s \in Layers(sys)[k]
    BY InUpto
  <2>2. Layers(sys)[k] \cap sys.not_safe # {} /\ k \in Nat
    BY <1>1, <2>1
  <2>3. Layers(Reversed(sys))[k] \cap sys.init # {}
    BY <2>2, Meet
  <2>4. Layers(Reversed(sys))[k] \subseteq Upto(Reversed(sys), d)
    BY InUpto
  <2>5. Upto(Reversed(sys), d) \cap sys.init = {}
    BY DEF SafeUpto, Reversed
  <2> QED BY <2>3, <2>4, <2>5
<1> QED BY <1>1 DEF SafeUpto

(* The layers are those of the system, and but for the last one they have  *)
(* been checked; none was reached before.                                  *)
Images(sys, d, ls, r) ==
  /\ Len(ls) \in Nat \ {0} /\ ls \in Seq(SUBSET sys.states)
  /\ \A i \in 1 .. Len(ls) : ls[i] = Layers(sys)[i - 1]
  /\ r = Upto(sys, Len(ls) - 1)
  /\ d = Unbounded \/ Len(ls) - 1 <= d
  /\ \A k \in 0 .. Len(ls) - 2 : Layers(sys)[k] \cap sys.not_safe = {}
  /\ Len(ls) > 1 => ~(Layers(sys)[Len(ls) - 1] \subseteq Upto(sys, Len(ls) - 2))

LEMMA ImagesStart ==
  ASSUME NEW sys, IsGraph(sys), NEW d \in 0 .. Unbounded
  PROVE  Images(sys, d, <<sys.init>>, sys.init)
<1> DEFINE X == SUBSET sys.states
           a == sys.init
           ls == <<a>>
<1>1. a \in X
  BY DEF IsGraph
<1>2. Layers(sys)[0] = a /\ Upto(sys, 0) = a
  BY LayersAre, UptoNext
<1> HIDE DEF X, a
<1>3. ls \in Seq(X) /\ Len(ls) = 1 /\ ls[1] = a
  BY <1>1, Single
<1> HIDE DEF ls
<1>4. 1 - 1 = 0 /\ 0 .. 1 - 2 = {} /\ 1 .. 1 = {1} /\ 0 <= d /\ ~(1 > 1) /\ 1 \in Nat \ {0}
  BY BoundedAssumption DEF Unbounded
<1>5. Images(sys, d, ls, a)
  BY <1>2, <1>3, <1>4 DEF Images, X
<1> QED BY <1>5 DEF ls, a

LEMMA LastLayer ==
  ASSUME NEW sys, NEW d, NEW ls, NEW r, Images(sys, d, ls, r)
  PROVE  /\ Len(ls) - 1 \in Nat /\ Len(ls) \in Nat \ {0}
         /\ Last(ls) = Layers(sys)[Len(ls) - 1]
         /\ \A k \in 0 .. Len(ls) - 1 : k = Len(ls) - 1 \/ k \in 0 .. Len(ls) - 2
<1>1. Len(ls) \in Nat \ {0} /\ \A i \in 1 .. Len(ls) : ls[i] = Layers(sys)[i - 1]
  BY DEF Images
<1> QED BY <1>1 DEF Last

LEMMA ImagesDone ==
  ASSUME NEW sys, IsGraph(sys), IsFiniteSet(sys.states), NEW d, NEW ls, NEW r,
         Images(sys, d, ls, r), Last(ls) \cap sys.not_safe = {},
         After(sys.tr, Last(ls)) \subseteq r
  PROVE  Converged(sys)
<1> DEFINE n == Len(ls) - 1
           S == Upto(sys, n)
<1>1. n \in Nat /\ Last(ls) = Layers(sys)[n] /\ r = S
      /\ \A k \in 0 .. n : k = n \/ k \in 0 .. Len(ls) - 2
  BY LastLayer DEF Images
<1>2. \A k \in 0 .. n : Layers(sys)[k] \cap sys.not_safe = {}
  BY <1>1 DEF Images
<1> HIDE DEF n
<1>3. Layers(sys)[n + 1] = After(sys.tr, Layers(sys)[n])
  BY <1>1, LayersAre
<1>4. /\ sys.init \subseteq S
      /\ Upto(sys, n + 1) = S \cup Layers(sys)[n + 1]
      /\ After(sys.tr, S) \subseteq Upto(sys, n + 1)
  BY <1>1, UptoNext
<1>5. S \cap sys.not_safe = {}
  BY <1>2, InUpto
<1>6. After(sys.tr, S) \subseteq S
  BY <1>1, <1>3, <1>4
<1> HIDE DEF S
<1> QED BY <1>4, <1>5, <1>6, Closed

LEMMA ImagesNext ==
  ASSUME NEW sys, IsGraph(sys), NEW d \in 0 .. Unbounded, NEW ls, NEW r,
         Images(sys, d, ls, r), Last(ls) \cap sys.not_safe = {},
         WithinDepth(d, Len(ls) - 1),
         ~(After(sys.tr, Last(ls)) \subseteq r)
  PROVE  Images(sys, d, Append(ls, After(sys.tr, Last(ls))), r \cup After(sys.tr, Last(ls)))
<1> DEFINE n == Len(ls) - 1
           c == After(sys.tr, Last(ls))
           X == SUBSET sys.states
           ms == Append(ls, c)
<1>1. /\ n \in Nat /\ Last(ls) = Layers(sys)[n] /\ r = Upto(sys, n)
      /\ \A k \in 0 .. n : k = n \/ k \in 0 .. Len(ls) - 2
      /\ Len(ls) = n + 1 /\ ls \in Seq(X)
      /\ \A i \in 1 .. Len(ls) : ls[i] = Layers(sys)[i - 1]
  <2>1. /\ n \in Nat /\ Len(ls) \in Nat \ {0} /\ Last(ls) = Layers(sys)[n]
        /\ \A k \in 0 .. n : k = n \/ k \in 0 .. Len(ls) - 2
    BY LastLayer
  <2>2. /\ r = Upto(sys, n) /\ ls \in Seq(X)
        /\ \A i \in 1 .. Len(ls) : ls[i] = Layers(sys)[i - 1]
    BY DEF Images
  <2> QED BY <2>1, <2>2
<1>2. c \in X
  BY AfterIn
<1>3. \A k \in 0 .. n : Layers(sys)[k] \cap sys.not_safe = {}
  BY <1>1 DEF Images
<1>4. d = Unbounded \/ n + 1 <= d
  <2>1. d \in Nat
    BY BoundedAssumption DEF Unbounded
  <2>2. d = Unbounded \/ n < d
    BY DEF WithinDepth
  <2> HIDE DEF n
  <2> QED BY <1>1, <2>1, <2>2
<1> HIDE DEF n, X
<1>5. Layers(sys)[n + 1] = c
  BY <1>1, LayersAre
<1>6. Upto(sys, n + 1) = r \cup c
  BY <1>1, <1>5, UptoNext
<1>7. ~(c \subseteq Upto(sys, n))
  BY <1>1
<1> HIDE DEF c
<1>8. /\ ms \in Seq(X) /\ Len(ms) = n + 2
      /\ \A i \in 1 .. n + 2 : ms[i] = IF i = n + 2 THEN c ELSE ls[i]
  BY <1>1, <1>2
<1> HIDE DEF ms
<1>9. \A i \in 1 .. n + 2 : ms[i] = Layers(sys)[i - 1]
  <2>1. TAKE i \in 1 .. n + 2
  <2>2. CASE i = n + 2
    <3>1. i - 1 = n + 1
      BY <1>1, <2>2
    <3> QED BY <1>5, <1>8, <2>2, <3>1
  <2>3. CASE i # n + 2
    <3>1. i \in 1 .. Len(ls)
      BY <1>1, <2>3
    <3> QED BY <1>1, <1>8, <2>3, <3>1
  <2> QED BY <2>2, <2>3
<1>10. (n + 2) - 1 = n + 1 /\ (n + 2) - 2 = n /\ n + 2 \in Nat \ {0}
  BY <1>1
<1>11. Images(sys, d, ms, r \cup c)
  BY <1>3, <1>4, <1>5, <1>6, <1>7, <1>8, <1>9, <1>10 DEF Images, X
<1> QED BY <1>11 DEF ms, c

LEMMA ImagesLimit ==
  ASSUME NEW sys, IsGraph(sys), NEW d \in 0 .. Unbounded, NEW ls, NEW r,
         Images(sys, d, ls, r), Last(ls) \cap sys.not_safe = {},
         ~WithinDepth(d, Len(ls) - 1)
  PROVE  /\ SafeUpto(sys, d)
         /\ d > 0 => ~(Layers(sys)[d] \subseteq Upto(sys, d - 1))
<1> DEFINE n == Len(ls) - 1
<1>1. /\ n \in Nat /\ Last(ls) = Layers(sys)[n]
      /\ \A k \in 0 .. n : k = n \/ k \in 0 .. Len(ls) - 2
      /\ Len(ls) = n + 1 /\ Len(ls) \in Nat
  BY LastLayer
<1>2. \A k \in 0 .. n : Layers(sys)[k] \cap sys.not_safe = {}
  BY <1>1 DEF Images
<1>3. d \in Nat
  BY BoundedAssumption DEF Unbounded
<1>4. d # Unbounded /\ ~(n < d) /\ n <= d
  BY DEF WithinDepth, Images
<1>5. n > 0 => Len(ls) > 1 /\ Len(ls) - 2 = n - 1
  <2> DEFINE l == Len(ls)
  <2>1. l \in Nat
    BY <1>1
  <2> HIDE DEF l
  <2>2. l - 1 > 0 => l > 1 /\ l - 2 = (l - 1) - 1
    BY <2>1
  <2> QED BY <2>2 DEF l
<1>6. n > 0 => ~(Layers(sys)[n] \subseteq Upto(sys, n - 1))
  <2>1. Len(ls) > 1 => ~(Layers(sys)[n] \subseteq Upto(sys, Len(ls) - 2))
    BY DEF Images
  <2> HIDE DEF n
  <2> QED BY <1>5, <2>1
<1> HIDE DEF n
<1>7. n = d
  BY <1>1, <1>3, <1>4
<1>8. Upto(sys, n) \cap sys.not_safe = {}
  BY <1>2, InUpto
<1> QED BY <1>4, <1>6, <1>7, <1>8 DEF SafeUpto

(* trace_to_models(): a path to an unsafe state, or from an initial one.   *)
IsWalk(sys, ms) ==
  /\ Len(ms) \in Nat \ {0} /\ ms \in Seq(sys.states)
  /\ \A i \in 1 .. Len(ms) - 1 : <<ms[i], ms[i + 1]>> \in sys.tr

LEMMA WalkOfOne ==
  ASSUME NEW sys, NEW s \in sys.states
  PROVE  IsWalk(sys, <<s>>) /\ Len(<<s>>) = 1 /\ <<s>>[1] = s /\ Last(<<s>>) = s
<1> DEFINE p == <<s>>
<1>1. p \in Seq(sys.states) /\ Len(p) = 1 /\ p[1] = s /\ Last(p) = s
  BY Single
<1> HIDE DEF p
<1>2. 1 .. 1 - 1 = {} /\ 1 \in Nat \ {0}
  OBVIOUS
<1>3. IsWalk(sys, p)
  BY <1>1, <1>2 DEF IsWalk
<1> QED BY <1>1, <1>3 DEF p

LEMMA WalkBefore ==
  ASSUME NEW sys, IsGraph(sys), NEW ms, IsWalk(sys, ms), NEW s, <<s, Head(ms)>> \in sys.tr
  PROVE  /\ IsWalk(sys, <<s>> \o ms) /\ Len(<<s>> \o ms) = Len(ms) + 1
         /\ (<<s>> \o ms)[1] = s /\ Last(<<s>> \o ms) = Last(ms)
<1> DEFINE n == Len(ms)
           p == <<s>> \o ms
           X == sys.states
<1>1. n \in Nat \ {0} /\ ms \in Seq(X) /\ Head(ms) = ms[1]
      /\ \A i \in 1 .. n - 1 : <<ms[i], ms[i + 1]>> \in sys.tr
  BY DEF IsWalk
<1>2. s \in X
  BY DEF IsGraph
<1> HIDE DEF X
<1>3. <<s>> \in Seq(X) /\ Len(<<s>>) = 1 /\ <<s>>[1] = s
  BY <1>2
<1>4. /\ p \in Seq(X) /\ Len(p) = n + 1
      /\ \A i \in 1 .. n + 1 : p[i] = IF i = 1 THEN s ELSE ms[i - 1]
  BY <1>1, <1>3
<1> HIDE DEF p, n
<1>5. /\ n + 1 \in Nat \ {0} /\ (n + 1) - 1 = n
      /\ 1 \in 1 .. n + 1 /\ n + 1 \in 1 .. n + 1 /\ n + 1 # 1
  BY <1>1
<1>6. p[1] = s /\ p[n + 1] = ms[n]
  BY <1>4, <1>5
<1>7. Last(p) = Last(ms)
  BY <1>4, <1>6 DEF Last, n
<1>8. ASSUME NEW i \in 1 .. n PROVE <<p[i], p[i + 1]>> \in sys.tr
  <2>1. i \in 1 .. n + 1 /\ i + 1 \in 1 .. n + 1 /\ i + 1 # 1 /\ (i + 1) - 1 = i
    BY <1>1
  <2>2. p[i + 1] = ms[i]
    BY <1>4, <2>1
  <2>3. CASE i = 1
    BY <1>1, <1>6, <2>2, <2>3
  <2>4. CASE i # 1
    <3>1. i - 1 \in 1 .. n - 1 /\ (i - 1) + 1 = i
      BY <1>1, <2>4
    <3>2. p[i] = ms[i - 1]
      BY <1>4, <2>1, <2>4
    <3> QED BY <1>1, <2>2, <3>1, <3>2
  <2> QED BY <2>3, <2>4
<1>9. IsWalk(sys, p)
  BY <1>4, <1>5, <1>8 DEF IsWalk, X
<1> QED BY <1>4, <1>6, <1>7, <1>9 DEF p, n

LEMMA WalkAfter ==
  ASSUME NEW sys, IsGraph(sys), NEW ms, IsWalk(sys, ms), NEW s, <<Last(ms), s>> \in sys.tr
  PROVE  /\ IsWalk(sys, Append(ms, s)) /\ Len(Append(ms, s)) = Len(ms) + 1
         /\ Append(ms, s)[1] = ms[1] /\ Last(Append(ms, s)) = s
<1> DEFINE n == Len(ms)
           p == Append(ms, s)
           X == sys.states
<1>1. n \in Nat \ {0} /\ ms \in Seq(X) /\ Last(ms) = ms[n]
      /\ \A i \in 1 .. n - 1 : <<ms[i], ms[i + 1]>> \in sys.tr
  BY DEF IsWalk, Last
<1>2. s \in X
  BY DEF IsGraph
<1> HIDE DEF X
<1>3. /\ p \in Seq(X) /\ Len(p) = n + 1
      /\ \A i \in 1 .. n + 1 : p[i] = IF i = n + 1 THEN s ELSE ms[i]
  BY <1>1, <1>2
<1> HIDE DEF p, n
<1>4. /\ n + 1 \in Nat \ {0} /\ (n + 1) - 1 = n
      /\ 1 \in 1 .. n + 1 /\ n + 1 \in 1 .. n + 1 /\ n + 1 # 1
  BY <1>1
<1>5. p[1] = ms[1] /\ p[n + 1] = s
  BY <1>3, <1>4
<1>6. Last(p) = s
  BY <1>3, <1>5 DEF Last
<1>7. ASSUME NEW i \in 1 .. n PROVE <<p[i], p[i + 1]>> \in sys.tr
  <2>1. i \in 1 .. n + 1 /\ i + 1 \in 1 .. n + 1 /\ i # n + 1
    BY <1>1
  <2>2. p[i] = ms[i]
    BY <1>3, <2>1
  <2>3. CASE i = n
    BY <1>1, <1>5, <2>2, <2>3
  <2>4. CASE i # n
    <3>1. i \in 1 .. n - 1 /\ i + 1 # n + 1
      BY <1>1, <2>4
    <3>2. p[i + 1] = ms[i + 1]
      BY <1>3, <2>1, <3>1
    <3> QED BY <1>1, <2>2, <3>1, <3>2
  <2> QED BY <2>3, <2>4
<1>8. IsWalk(sys, p)
  BY <1>3, <1>4, <1>7 DEF IsWalk, X
<1> QED BY <1>3, <1>5, <1>6, <1>8 DEF p, n

(* A walk from an initial to an unsafe state, where no layer but the last  *)
(* one has unsafe states.                                                  *)
LEMMA WalkIsShortest ==
  ASSUME NEW sys, IsGraph(sys), NEW ms, IsWalk(sys, ms),
         ms[1] \in sys.init, Last(ms) \in sys.not_safe,
         \A k \in 0 .. Len(ms) - 2 : Layers(sys)[k] \cap sys.not_safe = {}
  PROVE  Shortest(sys, ms, FALSE, Len(ms) - 1)
<1> DEFINE n == Len(ms) - 1
<1>1. /\ n \in Nat /\ Len(ms) = n + 1 /\ ms \in Seq(sys.states) /\ n \in 0 .. n
      /\ 0 .. n - 1 = 0 .. Len(ms) - 2 /\ Last(ms) = ms[n + 1]
  BY DEF IsWalk, Last
<1>2. \A i \in 1 .. n : <<ms[i], ms[i + 1]>> \in sys.tr
  BY DEF IsWalk
<1> HIDE DEF n
<1>3. IsPath(sys, ms, n)
  BY <1>1, <1>2 DEF IsPath
<1>4. Last(ms) \in Layers(sys)[n]
  BY <1>1, <1>3, PathReaches
<1>5. Shortest(sys, ms, FALSE, n)
  BY <1>1, <1>2, <1>4 DEF Shortest, Leads, SafeBefore
<1> QED BY <1>5 DEF n

Direction(forward, sys) == IF forward THEN sys ELSE Reversed(sys)

LEMMA DirectionIs ==
  ASSUME NEW sys, IsSystem(sys), NEW forward \in BOOLEAN
  PROVE  /\ IsGraph(Direction(forward, sys))
         /\ Direction(forward, sys).states = sys.states
         /\ IsFiniteSet(Direction(forward, sys).states)
<1>1. IsGraph(sys) /\ IsFiniteSet(sys.states)
  BY SystemGraph DEF IsSystem
<1>2. IsGraph(Reversed(sys)) /\ Reversed(sys).states = sys.states
  BY <1>1, ReversedIs DEF Reversed
<1>3. CASE forward
  BY <1>1, <1>3 DEF Direction
<1>4. CASE ~forward
  BY <1>1, <1>2, <1>4 DEF Direction
<1> QED BY <1>3, <1>4

(* The walk has got back to the layer that the next state is looked for    *)
(* from, and ends where it should.                                         *)
Rebuilding(forward, sys, ls, ms) ==
  /\ IsWalk(sys, ms) /\ Len(ms) <= Len(ls)
  /\ IF forward
     THEN ms[1] \in ls[Len(ls) - Len(ms) + 1] /\ Last(ms) \in sys.not_safe
     ELSE Last(ms) \in ls[Len(ls) - Len(ms) + 1] /\ ms[1] \in sys.init

LEMMA RebuildingStart ==
  ASSUME NEW sys, IsSystem(sys), NEW forward \in BOOLEAN, NEW d, NEW ls, NEW r,
         Images(Direction(forward, sys), d, ls, r),
         NEW s \in Last(ls), s \in Direction(forward, sys).not_safe
  PROVE  Rebuilding(forward, sys, ls, <<s>>)
<1> DEFINE n == Len(ls)
           p == <<s>>
<1>1. n \in Nat \ {0}
  BY DEF Images
<1>2. s \in sys.states
  BY DirectionIs DEF IsGraph
<1>3. IsWalk(sys, p) /\ Len(p) = 1 /\ p[1] = s /\ Last(p) = s
  BY <1>2, WalkOfOne
<1> HIDE DEF p
<1>4. s \in ls[n]
  BY DEF Last
<1> HIDE DEF n
<1>5. n - 1 + 1 = n /\ 1 <= n
  BY <1>1
<1>6. CASE forward
  <2>1. s \in sys.not_safe
    BY <1>6 DEF Direction
  <2> QED BY <1>3, <1>4, <1>5, <1>6, <2>1 DEF Rebuilding, n, p
<1>7. CASE ~forward
  <2>1. s \in sys.init
    BY <1>7 DEF Direction, Reversed
  <2> QED BY <1>3, <1>4, <1>5, <1>7, <2>1 DEF Rebuilding, n, p
<1> QED BY <1>6, <1>7

(* No unwrap() of trace_to_models() fails.                                 *)
LEMMA WitnessExists ==
  ASSUME NEW sys, IsSystem(sys), NEW forward \in BOOLEAN, NEW d, NEW ls, NEW r,
         Images(Direction(forward, sys), d, ls, r),
         NEW ms, Rebuilding(forward, sys, ls, ms), Len(ms) < Len(ls)
  PROVE  \E s \in ls[Len(ls) - Len(ms)] :
           <<IF forward THEN s ELSE Last(ms), IF forward THEN Head(ms) ELSE s>> \in sys.tr
<1> DEFINE D == Direction(forward, sys)
           i == Len(ls) - Len(ms)
<1>1. /\ Len(ls) \in Nat /\ Len(ms) \in Nat \ {0} /\ IsGraph(sys)
      /\ \A j \in 1 .. Len(ls) : ls[j] = Layers(D)[j - 1]
      /\ IsGraph(D)
  BY DirectionIs, SystemGraph DEF Images, Rebuilding, IsWalk
<1>2. i \in 1 .. Len(ls) /\ i + 1 \in 1 .. Len(ls) /\ (i + 1) - 1 = i
      /\ i - 1 \in Nat /\ (i - 1) + 1 = i
  BY <1>1
<1> HIDE DEF i, D
<1>3. ls[i] = Layers(D)[i - 1] /\ ls[i + 1] = Layers(D)[i]
  BY <1>1, <1>2
<1>4. Layers(D)[i] = After(D.tr, Layers(D)[i - 1])
  BY <1>1, <1>2, LayersAre
<1>5. ls[i + 1] = After(D.tr, ls[i])
  BY <1>3, <1>4
<1>6. \A st \in sys.tr : st = <<st[1], st[2]>>
  BY <1>1 DEF IsGraph
<1>7. CASE forward
  <2>1. Head(ms) = ms[1] /\ ms[1] \in ls[i + 1]
    BY <1>7 DEF Rebuilding, i, IsWalk
  <2>2. PICK st \in sys.tr : st[1] \in ls[i] /\ st[2] = ms[1]
    BY <1>5, <1>7, <2>1 DEF After, D, Direction
  <2> QED BY <1>6, <1>7, <2>1, <2>2 DEF i
<1>8. CASE ~forward
  <2>1. Last(ms) \in ls[i + 1]
    BY <1>8 DEF Rebuilding, i
  <2>2. ls[i + 1] = Before(sys.tr, ls[i])
    BY <1>1, <1>5, <1>8, ReversedIs DEF D, Direction
  <2>3. PICK st \in sys.tr : st[2] \in ls[i] /\ st[1] = Last(ms)
    BY <2>1, <2>2 DEF Before
  <2> QED BY <1>6, <1>8, <2>3 DEF i
<1> QED BY <1>7, <1>8

LEMMA RebuildingNext ==
  ASSUME NEW sys, IsSystem(sys), NEW forward \in BOOLEAN, NEW ls, Len(ls) \in Nat,
         NEW ms, Rebuilding(forward, sys, ls, ms), Len(ms) < Len(ls),
         NEW s \in ls[Len(ls) - Len(ms)],
         <<IF forward THEN s ELSE Last(ms), IF forward THEN Head(ms) ELSE s>> \in sys.tr
  PROVE  Rebuilding(forward, sys, ls, IF forward THEN <<s>> \o ms ELSE Append(ms, s))
<1>1. IsGraph(sys) /\ IsWalk(sys, ms) /\ Len(ms) \in Nat
  BY SystemGraph DEF Rebuilding, IsWalk
<1>2. Len(ms) + 1 <= Len(ls) /\ Len(ls) - (Len(ms) + 1) + 1 = Len(ls) - Len(ms)
  BY <1>1
<1>3. CASE forward
  <2> DEFINE p == <<s>> \o ms
  <2>1. <<s, Head(ms)>> \in sys.tr
    BY <1>3
  <2>2. IsWalk(sys, p) /\ Len(p) = Len(ms) + 1 /\ p[1] = s /\ Last(p) = Last(ms)
    BY <1>1, <2>1, WalkBefore
  <2> HIDE DEF p
  <2>3. Last(ms) \in sys.not_safe
    BY <1>3 DEF Rebuilding
  <2>4. Rebuilding(forward, sys, ls, p)
    BY <1>2, <1>3, <2>2, <2>3 DEF Rebuilding
  <2> QED BY <1>3, <2>4 DEF p
<1>4. CASE ~forward
  <2> DEFINE p == Append(ms, s)
  <2>1. <<Last(ms), s>> \in sys.tr
    BY <1>4
  <2>2. IsWalk(sys, p) /\ Len(p) = Len(ms) + 1 /\ p[1] = ms[1] /\ Last(p) = s
    BY <1>1, <2>1, WalkAfter
  <2> HIDE DEF p
  <2>3. ms[1] \in sys.init
    BY <1>4 DEF Rebuilding
  <2>4. Rebuilding(forward, sys, ls, p)
    BY <1>2, <1>4, <2>2, <2>3 DEF Rebuilding
  <2> QED BY <1>4, <2>4 DEF p
<1> QED BY <1>3, <1>4

LEMMA RebuildingDone ==
  ASSUME NEW sys, IsSystem(sys), NEW forward \in BOOLEAN, NEW d, NEW ls, NEW r,
         Images(Direction(forward, sys), d, ls, r),
         NEW ms, Rebuilding(forward, sys, ls, ms), Len(ms) = Len(ls)
  PROVE  Shortest(sys, ms, FALSE, Len(ms) - 1)
<1> DEFINE D == Direction(forward, sys)
<1>1. /\ Len(ls) \in Nat \ {0} /\ IsGraph(sys) /\ IsGraph(D) /\ IsWalk(sys, ms)
      /\ ls[1] = Layers(D)[1 - 1]
      /\ \A k \in 0 .. Len(ms) - 2 : Layers(D)[k] \cap D.not_safe = {}
  BY DirectionIs, SystemGraph DEF Images, Rebuilding
<1>2. Len(ls) - Len(ms) + 1 = 1 /\ 1 - 1 = 0
  BY <1>1
<1>3. ls[1] = D.init
  BY <1>1, <1>2, LayersAre
<1> HIDE DEF D
<1>4. CASE forward
  <2>1. D = sys
    BY <1>4 DEF D, Direction
  <2>2. ms[1] \in sys.init /\ Last(ms) \in sys.not_safe
    BY <1>2, <1>3, <1>4, <2>1 DEF Rebuilding
  <2> QED BY <1>1, <2>1, <2>2, WalkIsShortest
<1>5. CASE ~forward
  <2>1. D = Reversed(sys)
    BY <1>5 DEF D, Direction
  <2>2. D.init = sys.not_safe /\ D.not_safe = sys.init
    BY <2>1 DEF Reversed
  <2>3. ms[1] \in sys.init /\ Last(ms) \in sys.not_safe
    BY <1>2, <1>3, <1>5, <2>2 DEF Rebuilding
  <2>4. ASSUME NEW k \in 0 .. Len(ms) - 2 PROVE Layers(sys)[k] \cap sys.not_safe = {}
    <3>1. k \in Nat
      OBVIOUS
    <3>2. Layers(Reversed(sys))[k] \cap sys.init = {}
      BY <1>1, <2>1, <2>2
    <3> QED BY <1>1, <3>1, <3>2, Meet
  <2> QED BY <1>1, <2>3, <2>4, WalkIsShortest
<1> QED BY <1>4, <1>5

(* What the images of either direction say of the system.                  *)
LEMMA DirectionConverged ==
  ASSUME NEW sys, IsSystem(sys), NEW forward \in BOOLEAN, Converged(Direction(forward, sys))
  PROVE  Converged(sys)
<1>1. IsGraph(sys) /\ IsFiniteSet(sys.states)
  BY SystemGraph DEF IsSystem
<1>2. CASE forward
  <2>1. Direction(forward, sys) = sys
    BY <1>2 DEF Direction
  <2> QED BY <2>1
<1>3. CASE ~forward
  <2>1. Direction(forward, sys) = Reversed(sys)
    BY <1>3 DEF Direction
  <2> QED BY <1>1, <2>1, ConvergedBack
<1> QED BY <1>2, <1>3

LEMMA DirectionSafe ==
  ASSUME NEW sys, IsSystem(sys), NEW forward \in BOOLEAN, NEW d \in Nat,
         SafeUpto(Direction(forward, sys), d)
  PROVE  SafeUpto(sys, d)
<1>1. IsGraph(sys)
  BY SystemGraph
<1>2. CASE forward
  <2>1. Direction(forward, sys) = sys
    BY <1>2 DEF Direction
  <2> QED BY <2>1
<1>3. CASE ~forward
  <2>1. Direction(forward, sys) = Reversed(sys)
    BY <1>3 DEF Direction
  <2> QED BY <1>1, <2>1, SafeBack
<1> QED BY <1>2, <1>3

-----------------------------------------------------------------------------
(* sat.rs and smt.rs                                                       *)

LEMMA UnrolledPath ==
  ASSUME NEW sys, IsSystem(sys), NEW n \in Nat, NEW p \in Paths(sys)[n],
         Last(p) \in sys.not_safe
  PROVE  Leads(sys, p, FALSE, n) /\ Len(p) - 1 = n
<1>1. IsGraph(sys)
  BY SystemGraph
<1>2. IsPath(sys, p, n)
  BY <1>1, PathsArePaths
<1>3. Last(p) = p[n + 1] /\ n \in 0 .. n
  BY <1>2 DEF IsPath, Last
<1>4. Last(p) \in Layers(sys)[n]
  BY <1>1, <1>2, <1>3, PathReaches
<1> QED BY <1>2, <1>4 DEF Leads, IsPath

LEMMA UnrolledNone ==
  ASSUME NEW sys, IsSystem(sys), NEW n \in Nat,
         \A p \in Paths(sys)[n] : Last(p) \notin sys.not_safe
  PROVE  \A s \in Upto(sys, n) \cap sys.not_safe : <<s, s>> \notin sys.tr
<1>1. IsGraph(sys)
  BY SystemGraph
<1>2. SUFFICES ASSUME NEW s \in Upto(sys, n), s \in sys.not_safe, <<s, s>> \in sys.tr
               PROVE  FALSE
  OBVIOUS
<1>3. PICK k \in 0 .. n : s \in Layers(sys)[k]
  BY InUpto
<1>4. k \in Nat /\ k <= n
  OBVIOUS
<1>5. s \in Layers(sys)[n]
  BY <1>1, <1>2, <1>3, <1>4, Repeated
<1>6. PICK p \in Paths(sys)[n] : Last(p) = s
  BY <1>1, <1>5, LayerHasPaths
<1> QED BY <1>2, <1>6

-----------------------------------------------------------------------------
(* The invariant: what holds at each place of a checker.                   *)

Forward == checker = "bdd"
Steps == IF compress THEN current_depth ELSE Len(models) - 1

InCall == Called /\ IsSystem(system)

InSearch ==
  pc = "search" =>
    /\ checker = "set" /\ answer = "none"
    /\ Bfs(system, depth, compress, queue, seen, current_depth)

InImages ==
  pc \in {"check", "image", "rebuild"} =>
    /\ Symbolically /\ answer = "none"
    /\ Images(Direction(Forward, system), depth, layers, reachable)

InImage == pc = "image" => Last(layers) \cap Direction(Forward, system).not_safe = {}

InRebuild == pc = "rebuild" => Rebuilding(Forward, system, layers, models)

FoundRight ==
  answer = "Counterexample" =>
    /\ Leads(system, models, compress, Steps)
    /\ IF checker = "sat" THEN Steps = depth ELSE SafeBefore(system, Steps)

IInv ==
  /\ InCall
  /\ pc = "start" => Idle
  /\ InSearch /\ InImages /\ InImage /\ InRebuild
  /\ FoundRight /\ AnswerRight

LEMMA CallIs ==
  ASSUME InCall
  PROVE  /\ IsSystem(system) /\ depth \in 0 .. Unbounded /\ compress \in BOOLEAN
         /\ compress => checker = "set"
         /\ checker = "sat" => depth \in Nat
         /\ depth # Unbounded => depth \in Nat
         /\ Forward \in BOOLEAN
<1>1. Called /\ IsSystem(system) /\ Unbounded \in Nat
  BY BoundedAssumption DEF InCall, Unbounded
<1>2. depth \in 0 .. Unbounded /\ compress \in {FALSE, checker = "set"}
      /\ (checker = "sat" => depth # Unbounded)
  BY <1>1 DEF Called
<1>3. depth \in Nat
  BY <1>1, <1>2
<1>4. compress \in BOOLEAN /\ (compress => checker = "set")
  BY <1>2
<1> QED BY <1>1, <1>2, <1>3, <1>4 DEF Forward

LEMMA CallStays ==
  ASSUME InCall, UNCHANGED <<call, system>>
  PROVE  InCall'
BY DEF InCall, call, Called, Checkers

LEMMA InitIInv == SearchInit => IInv
BY DEF SearchInit, IInv, InCall, Idle, InSearch, InImages, InImage, InRebuild,
       FoundRight, AnswerRight

LEMMA StutterIInv ==
  ASSUME IInv, UNCHANGED search
  PROVE  IInv'
<1>1. UNCHANGED <<call, pc, system, set, bdd, models, answer>>
      /\ UNCHANGED <<checker, depth, compress, queue, seen, current_depth, layers, reachable>>
  BY DEF search, call, set, bdd
<1> USE DEF IInv
<1>2. InCall'
  BY <1>1, CallStays
<1>3. (pc = "start" => Idle)'
  BY <1>1 DEF Idle
<1>4. InSearch'
  BY <1>1 DEF InSearch
<1>5. InImages' /\ InImage' /\ InRebuild'
  BY <1>1 DEF InImages, InImage, InRebuild, Symbolically, Forward
<1>6. FoundRight'
  BY <1>1 DEF FoundRight, Steps
<1>7. AnswerRight'
  BY <1>1 DEF AnswerRight
<1> QED BY <1>2, <1>3, <1>4, <1>5, <1>6, <1>7

(* The search goes on, or it ends with an answer.                          *)
LEMMA GoesOn ==
  ASSUME InCall', pc' # "start", answer' = "none",
         InSearch', InImages', InImage', InRebuild'
  PROVE  IInv'
BY DEF IInv, FoundRight, AnswerRight

LEMMA EndsConverged ==
  ASSUME InCall', pc' = "done", answer' = "Convergence", Converged(system')
  PROVE  IInv'
<1>1. AnswerRight'
  BY DEF AnswerRight, Converged
<1> QED BY <1>1 DEF IInv, InSearch, InImages, InImage, InRebuild, FoundRight

LEMMA EndsUnknown ==
  ASSUME InCall', pc' = "done", answer' = "Unknown", SafeUpto(system', depth'),
         checker' = "bdd" /\ depth' > 0 =>
           ~(Layers(system')[depth'] \subseteq Upto(system', depth' - 1))
  PROVE  IInv'
<1>1. AnswerRight'
  BY DEF AnswerRight, SafeUpto
<1> QED BY <1>1 DEF IInv, InSearch, InImages, InImage, InRebuild, FoundRight

LEMMA EndsFound ==
  ASSUME InCall', pc' = "report", answer' = "Counterexample", FoundRight'
  PROVE  IInv'
<1>1. AnswerRight'
  BY DEF AnswerRight
<1> QED BY <1>1 DEF IInv, InSearch, InImages, InImage, InRebuild

-----------------------------------------------------------------------------
(* Each action keeps the invariant.                                        *)

LEMMA AcceptedChosen ==
  ASSUME NEW X, NEW S \in Accepted(X)
  PROVE  Chosen(system, seen, X, S)
BY DEF Accepted, Chosen

LEMMA EnqueueStep ==
  ASSUME IInv, Enqueue
  PROVE  IInv'
<1>1. InCall /\ Idle /\ checker = "set"
  BY DEF IInv, Enqueue
<1>2. PICK S \in Accepted(system.init) :
        queue' = {Trace(<<s>>, 0) : s \in S} /\ seen' = Orbits(S)
  BY DEF Enqueue
<1>3. Chosen(system, {}, system.init, S)
  <2> DEFINE X == system.init
  <2>1. S \in Accepted(X)
    BY <1>2
  <2> HIDE DEF X
  <2>2. Chosen(system, seen, X, S)
    BY <2>1, AcceptedChosen
  <2> QED BY <1>1, <2>2 DEF Idle, X
<1>4. Bfs(system, depth, compress, {Trace(<<s>>, 0) : s \in S}, Reach(system, S), 0)
  BY <1>1, <1>3, CallIs, BfsStart
<1>5. Orbits(S) = Reach(system, S)
  BY DEF Orbits, Reach
<1>6. Bfs(system, depth, compress, queue', seen', 0)
  BY <1>2, <1>4, <1>5
<1>7. UNCHANGED <<call, system, current_depth, answer>> /\ pc' = "search" /\ current_depth = 0
  BY <1>1 DEF Enqueue, Idle
<1>8. checker' = "set" /\ depth' = depth /\ compress' = compress /\ answer' = "none"
  BY <1>1, <1>7 DEF call, Idle
<1>9. InSearch'
  BY <1>6, <1>7, <1>8 DEF InSearch
<1>10. InImages' /\ InImage' /\ InRebuild' /\ pc' # "start"
  BY <1>7 DEF InImages, InImage, InRebuild
<1>11. InCall'
  BY <1>1, <1>7, CallStays
<1> QED BY <1>8, <1>9, <1>10, <1>11, GoesOn

LEMMA PopStep ==
  ASSUME IInv, Pop
  PROVE  IInv'
<1>1. /\ IsSystem(system) /\ depth \in 0 .. Unbounded /\ compress \in BOOLEAN
      /\ checker = "set" /\ answer = "none"
      /\ Bfs(system, depth, compress, queue, seen, current_depth)
      /\ InCall
  BY CallIs DEF IInv, InSearch, Pop
<1>2. PICK t \in InFront :
        /\ current_depth' = current_depth + IF t.depth > current_depth THEN 1 ELSE 0
        /\ \/ /\ ~Safe(Last(t.states))
              /\ models' = t.states
              /\ Found
              /\ UNCHANGED <<queue, seen>>
           \/ /\ Safe(Last(t.states)) /\ Within(t.depth)
              /\ \E S \in Accepted(After(system.tr, {Last(t.states)})) :
                   /\ queue' = (queue \ {t}) \cup {Push(t, s) : s \in S}
                   /\ seen' = seen \cup Orbits(S)
              /\ UNCHANGED <<pc, models, answer>>
           \/ /\ Safe(Last(t.states)) /\ ~Within(t.depth)
              /\ queue' = queue \ {t}
              /\ UNCHANGED <<pc, seen, models, answer>>
  BY DEF Pop
<1>3. t \in queue /\ \A o \in queue : t.depth <= o.depth
  BY DEF InFront
<1>4. /\ Bfs(system, depth, compress, queue, seen, t.depth)
      /\ current_depth' = t.depth
  BY <1>1, <1>2, <1>3, BfsAdvance
<1>5. UNCHANGED <<call, system, bdd>> /\ pc = "search"
  BY DEF Pop
<1>6. checker' = "set" /\ depth' = depth /\ compress' = compress
  BY <1>1, <1>5 DEF call
<1>7. InCall'
  BY <1>1, <1>5, CallStays
<1>8. CASE ~Safe(Last(t.states)) /\ models' = t.states /\ Found /\ UNCHANGED <<queue, seen>>
  <2>1. /\ Shortest(system, t.states, compress, t.depth)
        /\ compress \/ Len(t.states) - 1 = t.depth
    BY <1>1, <1>3, <1>4, <1>8, BfsFound DEF Safe
  <2>2. Steps' = t.depth
    BY <1>4, <1>6, <1>8, <2>1 DEF Steps
  <2>3. FoundRight'
    BY <1>5, <1>6, <1>8, <2>1, <2>2 DEF FoundRight, Shortest
  <2> QED BY <1>7, <1>8, <2>3, EndsFound DEF Found
<1>9. ASSUME UNCHANGED <<pc, answer>>,
             Bfs(system, depth, compress, queue', seen', t.depth)
      PROVE  IInv'
  <2>1. InSearch'
    BY <1>1, <1>4, <1>5, <1>6, <1>9 DEF InSearch
  <2>2. InImages' /\ InImage' /\ InRebuild' /\ pc' # "start" /\ answer' = "none"
    BY <1>1, <1>5, <1>9 DEF InImages, InImage, InRebuild
  <2> QED BY <1>7, <2>1, <2>2, GoesOn
<1>10. CASE /\ Safe(Last(t.states)) /\ Within(t.depth)
            /\ \E S \in Accepted(After(system.tr, {Last(t.states)})) :
                 /\ queue' = (queue \ {t}) \cup {Push(t, s) : s \in S}
                 /\ seen' = seen \cup Orbits(S)
            /\ UNCHANGED <<pc, models, answer>>
  <2>1. PICK S \in Accepted(After(system.tr, {Last(t.states)})) :
          /\ queue' = (queue \ {t}) \cup {Push(t, s) : s \in S}
          /\ seen' = seen \cup Orbits(S)
    BY <1>10
  <2>2. After(system.tr, {Last(t.states)}) = Succ(system, Last(t.states))
    BY DEF Succ
  <2>3. Chosen(system, seen, Succ(system, Last(t.states)), S)
    BY <2>1, <2>2, AcceptedChosen
  <2>4. Orbits(S) = Reach(system, S)
    BY DEF Orbits, Reach
  <2>5. \A s : Push(t, s) = Pushed(compress, t, s)
    BY DEF Push, Pushed
  <2>6. WithinDepth(depth, t.depth) /\ Last(t.states) \notin system.not_safe
    BY <1>10 DEF Within, WithinDepth, Safe
  <2>7. Bfs(system, depth, compress,
            (queue \ {t}) \cup {Pushed(compress, t, s) : s \in S},
            seen \cup Reach(system, S), t.depth)
    BY <1>1, <1>3, <1>4, <2>3, <2>6, BfsExpand
  <2>8. queue' = (queue \ {t}) \cup {Pushed(compress, t, s) : s \in S}
    BY <2>1, <2>5
  <2>9. Bfs(system, depth, compress, queue', seen', t.depth)
    BY <2>1, <2>4, <2>7, <2>8
  <2> QED BY <1>9, <1>10, <2>9
<1>11. CASE /\ Safe(Last(t.states)) /\ ~Within(t.depth)
            /\ queue' = queue \ {t}
            /\ UNCHANGED <<pc, seen, models, answer>>
  <2>1. ~WithinDepth(depth, t.depth) /\ Last(t.states) \notin system.not_safe
    BY <1>11 DEF Within, WithinDepth, Safe
  <2>2. Bfs(system, depth, compress, queue \ {t}, seen, t.depth)
    BY <1>1, <1>3, <1>4, <2>1, BfsDrop
  <2> QED BY <1>9, <1>11, <2>2
<1> QED BY <1>2, <1>8, <1>10, <1>11

LEMMA ExhaustedStep ==
  ASSUME IInv, Exhausted
  PROVE  IInv'
<1>1. /\ IsSystem(system) /\ depth \in 0 .. Unbounded /\ compress \in BOOLEAN
      /\ checker = "set" /\ queue = {}
      /\ Bfs(system, depth, compress, queue, seen, current_depth)
      /\ InCall
  BY CallIs DEF IInv, InSearch, Exhausted
<1>2. UNCHANGED <<call, system>> /\ pc' = "done"
      /\ answer' = IF Within(current_depth) THEN "Convergence" ELSE "Unknown"
  BY DEF Exhausted, Return
<1>3. checker' = "set" /\ depth' = depth /\ InCall'
  BY <1>1, <1>2, CallStays DEF call
<1>4. IF WithinDepth(depth, current_depth) THEN Converged(system) ELSE SafeUpto(system, depth)
  BY <1>1, BfsDone
<1>5. CASE Within(current_depth)
  <2>1. Converged(system') /\ answer' = "Convergence"
    BY <1>2, <1>4, <1>5 DEF Within, WithinDepth
  <2> QED BY <1>2, <1>3, <2>1, EndsConverged
<1>6. CASE ~Within(current_depth)
  <2>1. SafeUpto(system', depth') /\ answer' = "Unknown"
    BY <1>2, <1>3, <1>4, <1>6 DEF Within, WithinDepth
  <2> QED BY <1>2, <1>3, <2>1, EndsUnknown
<1> QED BY <1>5, <1>6

LEMMA DirectionOf ==
  ASSUME InCall, Symbolically
  PROVE  /\ From = Direction(Forward, system).init
         /\ Goal = Direction(Forward, system).not_safe
         /\ \A S : Image(S) = After(Direction(Forward, system).tr, S)
<1>1. IsGraph(system)
  BY CallIs, SystemGraph
<1>2. CASE checker = "bdd"
  BY <1>2 DEF From, Goal, Image, Direction, Forward
<1>3. CASE checker # "bdd"
  <2>1. Direction(Forward, system) = Reversed(system)
    BY <1>3 DEF Direction, Forward
  <2>2. From = system.not_safe /\ Goal = system.init
    BY <1>3 DEF From, Goal
  <2>3. \A S : Image(S) = Before(system.tr, S)
    BY <1>3 DEF Image
  <2>4. Reversed(system).init = system.not_safe /\ Reversed(system).not_safe = system.init
    BY DEF Reversed
  <2> QED BY <1>1, <2>1, <2>2, <2>3, <2>4, ReversedIs
<1> QED BY <1>2, <1>3

(* The images go on from a place of check_internal() to another.           *)
LEMMA ImagesGoOn ==
  ASSUME InCall, Symbolically, UNCHANGED <<call, system>>,
         answer' = "none", pc' \in {"check", "image", "rebuild"},
         Images(Direction(Forward, system), depth, layers', reachable'),
         pc' = "image" => Last(layers') \cap Direction(Forward, system).not_safe = {},
         pc' = "rebuild" => Rebuilding(Forward, system, layers', models')
  PROVE  IInv'
<1>1. checker' = checker /\ depth' = depth /\ system' = system /\ InCall'
  BY CallStays DEF call
<1>2. Symbolically' /\ Forward' = Forward
  BY <1>1 DEF Symbolically, Forward
<1>3. InImages' /\ InImage' /\ InRebuild'
  BY <1>1, <1>2 DEF InImages, InImage, InRebuild
<1>4. InSearch' /\ pc' # "start"
  BY DEF InSearch
<1> QED BY <1>1, <1>3, <1>4, GoesOn

LEMMA StartImagesStep ==
  ASSUME IInv, StartImages
  PROVE  IInv'
<1>1. InCall /\ Idle /\ Symbolically
  BY DEF IInv, StartImages
<1>2. UNCHANGED <<call, system, answer>> /\ pc' = "check"
      /\ layers' = <<From>> /\ reachable' = From
  BY DEF StartImages
<1> DEFINE D == Direction(Forward, system)
<1>3. IsGraph(D) /\ From = D.init /\ depth \in 0 .. Unbounded
  BY <1>1, CallIs, DirectionIs, DirectionOf
<1> HIDE DEF D
<1>4. Images(D, depth, <<D.init>>, D.init)
  BY <1>3, ImagesStart
<1>5. Images(D, depth, layers', reachable')
  BY <1>2, <1>3, <1>4
<1>6. answer' = "none"
  BY <1>1, <1>2 DEF Idle
<1> QED BY <1>1, <1>2, <1>5, <1>6, ImagesGoOn DEF D

LEMMA CheckStep ==
  ASSUME IInv, Check
  PROVE  IInv'
<1> DEFINE D == Direction(Forward, system)
<1>1. InCall /\ Symbolically /\ answer = "none" /\ Images(D, depth, layers, reachable)
  BY DEF IInv, InImages, Check
<1>2. UNCHANGED <<call, system, bdd, answer>> /\ UNCHANGED <<layers, reachable>>
  BY DEF Check, bdd
<1>3. Goal = D.not_safe
  BY <1>1, DirectionOf
<1> HIDE DEF D
<1>4. Images(D, depth, layers', reachable')
  BY <1>1, <1>2
<1>5. CASE Last(layers) \cap Goal = {} /\ pc' = "image"
  BY <1>1, <1>2, <1>3, <1>4, <1>5, ImagesGoOn DEF D
<1>6. CASE (\E s \in Last(layers) \cap Goal : models' = <<s>>) /\ pc' = "rebuild"
  <2>1. PICK s \in Last(layers) : s \in D.not_safe /\ models' = <<s>>
    BY <1>3, <1>6
  <2>2. Rebuilding(Forward, system, layers, <<s>>)
    BY <1>1, <2>1, CallIs, RebuildingStart DEF D
  <2>3. Rebuilding(Forward, system, layers', models')
    BY <1>2, <2>1, <2>2
  <2> QED BY <1>1, <1>2, <1>4, <1>6, <2>3, ImagesGoOn DEF D
<1> QED BY <1>5, <1>6 DEF Check

LEMMA TakeImageStep ==
  ASSUME IInv, TakeImage
  PROVE  IInv'
<1> DEFINE D == Direction(Forward, system)
           c == Image(Last(layers))
<1>1. /\ InCall /\ Symbolically /\ answer = "none" /\ Images(D, depth, layers, reachable)
      /\ Last(layers) \cap D.not_safe = {}
  BY DEF IInv, InImages, InImage, TakeImage
<1>2. UNCHANGED <<call, system>> /\ Within(Len(layers) - 1)
  BY DEF TakeImage
<1>3. /\ IsSystem(system) /\ depth \in 0 .. Unbounded /\ Forward \in BOOLEAN
      /\ IsGraph(D) /\ IsFiniteSet(D.states)
      /\ c = After(D.tr, Last(layers))
  BY <1>1, CallIs, DirectionIs, DirectionOf
<1>4. checker' = checker /\ depth' = depth /\ InCall'
  BY <1>1, <1>2, CallStays DEF call
<1>5. WithinDepth(depth, Len(layers) - 1)
  BY <1>2 DEF Within, WithinDepth
<1>6. \/ c \subseteq reachable /\ answer' = "Convergence" /\ pc' = "done"
      \/ /\ ~(c \subseteq reachable)
         /\ reachable' = reachable \cup c /\ layers' = Append(layers, c)
         /\ pc' = "check" /\ UNCHANGED answer
  BY DEF TakeImage, Return
<1> HIDE DEF D, c
<1>7. CASE c \subseteq reachable /\ answer' = "Convergence" /\ pc' = "done"
  <2>1. Converged(D)
    BY <1>1, <1>3, <1>7, ImagesDone
  <2>2. Converged(system)
    BY <1>3, <2>1, DirectionConverged DEF D
  <2>3. Converged(system')
    BY <1>2, <2>2
  <2> QED BY <1>4, <1>7, <2>3, EndsConverged
<1>8. CASE /\ ~(c \subseteq reachable)
           /\ reachable' = reachable \cup c /\ layers' = Append(layers, c)
           /\ pc' = "check" /\ UNCHANGED answer
  <2>1. ~(After(D.tr, Last(layers)) \subseteq reachable)
    BY <1>3, <1>8
  <2>2. Images(D, depth, Append(layers, After(D.tr, Last(layers))),
               reachable \cup After(D.tr, Last(layers)))
    BY <1>1, <1>3, <1>5, <2>1, ImagesNext
  <2>3. Images(D, depth, layers', reachable')
    BY <1>3, <1>8, <2>2
  <2>4. answer' = "none" /\ pc' = "check"
    BY <1>1, <1>8
  <2> QED BY <1>1, <1>2, <2>3, <2>4, ImagesGoOn DEF D
<1> QED BY <1>6, <1>7, <1>8

LEMMA DepthReachedStep ==
  ASSUME IInv, DepthReached
  PROVE  IInv'
<1> DEFINE D == Direction(Forward, system)
<1>1. /\ InCall /\ Symbolically /\ Images(D, depth, layers, reachable)
      /\ Last(layers) \cap D.not_safe = {}
  BY DEF IInv, InImages, InImage, DepthReached
<1>2. /\ UNCHANGED <<call, system>> /\ ~WithinDepth(depth, Len(layers) - 1)
      /\ answer' = "Unknown" /\ pc' = "done"
  BY DEF DepthReached, Return, Within, WithinDepth
<1>3. /\ IsSystem(system) /\ depth \in 0 .. Unbounded /\ Forward \in BOOLEAN /\ IsGraph(D)
  BY <1>1, CallIs, DirectionIs
<1>4. checker' = checker /\ depth' = depth /\ system' = system /\ InCall'
  BY <1>1, <1>2, CallStays DEF call
<1> HIDE DEF D
<1>5. /\ SafeUpto(D, depth)
      /\ depth > 0 => ~(Layers(D)[depth] \subseteq Upto(D, depth - 1))
  BY <1>1, <1>2, <1>3, ImagesLimit
<1>6. depth \in Nat
  BY <1>1, <1>5, CallIs DEF SafeUpto
<1>7. SafeUpto(system, depth)
  BY <1>3, <1>5, <1>6, DirectionSafe DEF D
<1>8. checker = "bdd" => D = system
  BY DEF D, Direction, Forward
<1> QED BY <1>2, <1>4, <1>5, <1>7, <1>8, EndsUnknown

LEMMA RebuildStep ==
  ASSUME IInv, Rebuild
  PROVE  IInv'
<1> DEFINE D == Direction(Forward, system)
<1>1. /\ InCall /\ Symbolically /\ answer = "none" /\ Images(D, depth, layers, reachable)
      /\ Rebuilding(Forward, system, layers, models)
      /\ pc = "rebuild" /\ Len(models) < Len(layers)
  BY DEF IInv, InImages, InRebuild, Rebuild
<1>2. UNCHANGED <<call, pc, system, bdd, answer>> /\ UNCHANGED <<layers, reachable>>
  BY DEF Rebuild, bdd
<1>3. PICK s \in Witnesses :
        models' = IF checker = "bdd" THEN <<s>> \o models ELSE Append(models, s)
  BY DEF Rebuild
<1>4. /\ s \in layers[Len(layers) - Len(models)]
      /\ <<IF Forward THEN s ELSE Last(models),
           IF Forward THEN Head(models) ELSE s>> \in system.tr
  <2>1. CASE checker = "bdd"
    BY <1>3, <2>1 DEF Witnesses, Forward
  <2>2. CASE checker # "bdd"
    BY <1>3, <2>2 DEF Witnesses, Forward
  <2> QED BY <2>1, <2>2
<1>5. IsSystem(system) /\ Forward \in BOOLEAN /\ Len(layers) \in Nat
  BY <1>1, CallIs DEF Images
<1>6. Rebuilding(Forward, system, layers,
                 IF Forward THEN <<s>> \o models ELSE Append(models, s))
  BY <1>1, <1>4, <1>5, RebuildingNext
<1>7. models' = IF Forward THEN <<s>> \o models ELSE Append(models, s)
  BY <1>3 DEF Forward
<1>8. Rebuilding(Forward, system, layers', models')
  BY <1>2, <1>6, <1>7
<1> HIDE DEF D
<1>9. Images(D, depth, layers', reachable') /\ answer' = "none" /\ pc' = "rebuild"
  BY <1>1, <1>2
<1> QED BY <1>1, <1>2, <1>8, <1>9, ImagesGoOn DEF D

LEMMA RebuiltStep ==
  ASSUME IInv, Rebuilt
  PROVE  IInv'
<1>1. /\ InCall /\ Symbolically
      /\ Images(Direction(Forward, system), depth, layers, reachable)
      /\ Rebuilding(Forward, system, layers, models)
      /\ Len(models) = Len(layers)
  BY DEF IInv, InImages, InRebuild, Rebuilt
<1>2. /\ UNCHANGED <<call, system, models>>
      /\ pc' = "report" /\ answer' = "Counterexample"
  BY DEF Rebuilt, Found
<1>3. Shortest(system, models, FALSE, Len(models) - 1)
  BY <1>1, CallIs, RebuildingDone
<1>4. checker' = checker /\ compress' = compress /\ InCall'
  BY <1>1, <1>2, CallStays DEF call
<1>5. compress = FALSE /\ checker # "sat"
  BY <1>1, CallIs DEF Symbolically
<1>6. Steps' = Len(models) - 1
  BY <1>2, <1>4, <1>5 DEF Steps
<1>7. FoundRight'
  BY <1>2, <1>3, <1>4, <1>5, <1>6 DEF FoundRight, Shortest
<1> QED BY <1>2, <1>4, <1>7, EndsFound

LEMMA SolveStep ==
  ASSUME IInv, Solve
  PROVE  IInv'
<1>1. InCall /\ checker = "sat" /\ UNCHANGED <<call, system>>
  BY DEF IInv, Solve
<1>2. IsSystem(system) /\ depth \in Nat /\ depth # Unbounded /\ compress = FALSE
  BY <1>1, CallIs DEF InCall, Called
<1>3. checker' = "sat" /\ depth' = depth /\ compress' = compress /\ system' = system /\ InCall'
  BY <1>1, CallStays DEF call
<1>4. CASE (\E p \in Unrolled : models' = p) /\ Found
  <2>1. PICK p \in Paths(system)[depth] : Last(p) \in system.not_safe /\ models' = p
    BY <1>4 DEF Unrolled
  <2>2. Leads(system, p, FALSE, depth) /\ Len(p) - 1 = depth
    BY <1>2, <2>1, UnrolledPath
  <2>3. Steps' = depth
    BY <1>2, <1>3, <2>1, <2>2 DEF Steps
  <2>4. FoundRight'
    BY <1>2, <1>3, <2>1, <2>2, <2>3 DEF FoundRight
  <2> QED BY <1>3, <1>4, <2>4, EndsFound DEF Found
<1>5. CASE Unrolled = {} /\ Return("Unknown")
  <2>1. \A p \in Paths(system)[depth] : Last(p) \notin system.not_safe
    BY <1>5 DEF Unrolled
  <2>2. \A s \in Upto(system, depth) \cap system.not_safe : <<s, s>> \notin system.tr
    BY <1>2, <2>1, UnrolledNone
  <2>3. pc' = "done" /\ answer' = "Unknown"
    BY <1>5 DEF Return
  <2>4. AnswerRight'
    BY <1>2, <1>3, <2>2, <2>3 DEF AnswerRight
  <2> QED BY <1>3, <2>3, <2>4 DEF IInv, InSearch, InImages, InImage, InRebuild, FoundRight
<1> QED BY <1>4, <1>5 DEF Solve

LEMMA SolverFailsStep ==
  ASSUME IInv, SolverFails
  PROVE  IInv'
<1>1. InCall /\ UNCHANGED <<call, system>> /\ pc' = "done" /\ answer' = "SolverError"
  BY DEF IInv, SolverFails, Return
<1>2. InCall'
  BY <1>1, CallStays
<1>3. AnswerRight'
  BY <1>1 DEF AnswerRight
<1> QED BY <1>1, <1>2, <1>3 DEF IInv, InSearch, InImages, InImage, InRebuild, FoundRight

LEMMA NextIInv ==
  ASSUME IInv, [SearchNext]_search
  PROVE  IInv'
<1>1. CASE UNCHANGED search
  BY <1>1, StutterIInv
<1>2. CASE SearchNext
  BY <1>2, EnqueueStep, PopStep, ExhaustedStep, StartImagesStep, CheckStep, TakeImageStep,
     DepthReachedStep, RebuildStep, RebuiltStep, SolveStep, SolverFailsStep
     DEF SearchNext
<1> QED BY <1>1, <1>2

LEMMA AlwaysIInv == SearchSpec => []IInv
BY InitIInv, NextIInv, PTL DEF SearchSpec

-----------------------------------------------------------------------------
(* A counterexample of any checker is a path of the system to an unsafe    *)
(* state: of interpret() and of bdd.rs, in both directions, a shortest     *)
(* one; of sat.rs and smt.rs, one of the length that was asked for; and of *)
(* a compressed one, the last state.  trace_to_models() always finds the   *)
(* state that it unwraps.                                                  *)
THEOREM CounterexamplesRight == SearchSpec => []CounterexampleRight
<1>1. ASSUME IInv PROVE CounterexampleRight
  <2>1. ASSUME pc = "rebuild", Len(models) < Len(layers) PROVE Witnesses # {}
    <3>1. /\ InCall /\ Symbolically
          /\ Images(Direction(Forward, system), depth, layers, reachable)
          /\ Rebuilding(Forward, system, layers, models)
      BY <1>1, <2>1 DEF IInv, InImages, InRebuild
    <3>2. PICK s \in layers[Len(layers) - Len(models)] :
            <<IF Forward THEN s ELSE Last(models),
              IF Forward THEN Head(models) ELSE s>> \in system.tr
      BY <2>1, <3>1, CallIs, WitnessExists
    <3>3. s \in Witnesses
      BY <3>2 DEF Witnesses, Forward
    <3> QED BY <3>3
  <2>2. FoundRight
    BY <1>1 DEF IInv
  <2> QED BY <2>1, <2>2 DEF CounterexampleRight, FoundRight, Leads, SafeBefore, Steps
<1> QED BY <1>1, AlwaysIInv, PTL

(* When a checker reports convergence, no unsafe state can be reached by   *)
(* any number of steps.  When it reports that the depth ended the search,  *)
(* a depth was given and none can be reached within it; but sat.rs, which  *)
(* looks at paths of that length only, may miss a state that has no step   *)
(* to itself.                                                              *)
THEOREM AnswersRight == SearchSpec => []AnswerRight
<1>1. IInv => AnswerRight
  BY DEF IInv
<1> QED BY <1>1, AlwaysIInv, PTL
=============================================================================
