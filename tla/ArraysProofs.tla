---------------------------- MODULE ArraysProofs ----------------------------
(***************************************************************************)
(* What Pull leaves: the elements of the sequence it was given that are    *)
(* not leaving, each from a place of its own.  And what SumFunctionOnSet   *)
(* of the community modules adds up.                                       *)
(***************************************************************************)
EXTENDS Arrays, FiniteSetsExt, FiniteSetTheorems, WellFoundedInduction, TLAPS

\* Counting the places up to each one is a bijection, so that there is a k-th.
LEMMA RankIsABijection ==
  ASSUME NEW places \in SUBSET Int, IsFiniteSet(places)
  PROVE  /\ \A n \in places : Cardinality({m \in places : m <= n}) \in 1 .. Cardinality(places)
         /\ \A n, m \in places :
              Cardinality({l \in places : l <= n}) = Cardinality({l \in places : l <= m}) => n = m
         /\ \A k \in 1 .. Cardinality(places) :
              \E n \in places : Cardinality({m \in places : m <= n}) = k
<1> DEFINE upTo(n) == {m \in places : m <= n}
           rank == [n \in places |-> Cardinality(upTo(n))]
           ranks == 1 .. Cardinality(places)
<1>1. Cardinality(places) \in Nat
  BY FS_CardinalityType
<1>2. \A n \in places : IsFiniteSet(upTo(n)) /\ Cardinality(upTo(n)) \in ranks
  <2> TAKE n \in places
  <2>1. upTo(n) \in SUBSET places /\ upTo(n) # {}
    OBVIOUS
  <2>2. IsFiniteSet(upTo(n)) /\ Cardinality(upTo(n)) <= Cardinality(places)
    BY <2>1, FS_Subset
  <2>3. Cardinality(upTo(n)) \in Nat /\ Cardinality(upTo(n)) # 0
    BY <2>1, <2>2, FS_CardinalityType, FS_EmptySet
  <2> HIDE DEF upTo
  <2> QED BY <1>1, <2>2, <2>3
<1>3. \A n, m \in places : n < m => Cardinality(upTo(n)) # Cardinality(upTo(m))
  <2> TAKE n, m \in places
  <2> HAVE n < m
  <2>1. upTo(n) \in SUBSET upTo(m) /\ upTo(n) # upTo(m)
    <3>1. n \in Int /\ m \in Int /\ \A x \in places : x \in Int
      OBVIOUS
    <3>2. \A x \in places : x <= n => x <= m
      BY <3>1
    <3>3. m \in upTo(m) /\ m \notin upTo(n)
      BY <3>1
    <3>4. upTo(n) \in SUBSET upTo(m)
      BY <3>2
    <3> QED BY <3>3, <3>4
  <2> HIDE DEF upTo
  <2> QED BY <1>2, <2>1, FS_Subset
<1>4. rank \in Injection(places, ranks)
  <2>1. rank \in [places -> ranks]
    BY <1>2
  <2>2. \A n, m \in places : rank[n] = rank[m] => n = m
    <3> TAKE n, m \in places
    <3> HAVE rank[n] = rank[m]
    <3>1. ~(n < m) /\ ~(m < n)
      BY <1>3
    <3>2. n \in Int /\ m \in Int
      OBVIOUS
    <3> QED BY <3>1, <3>2
  <2> HIDE DEF rank, ranks
  <2> QED BY <2>1, <2>2 DEF Injection, IsInjective
<1>5. rank \in Surjection(places, ranks)
  <2>1. IsFiniteSet(ranks) /\ Cardinality(ranks) = Cardinality(places)
    BY <1>1, FS_Interval
  <2> HIDE DEF rank, ranks
  <2> QED BY <1>4, <2>1, FS_Injection
<1>6. \A k \in ranks : \E n \in places : rank[n] = k
  BY <1>5 DEF Surjection
<1>7. \A n, m \in places : rank[n] = rank[m] => n = m
  BY <1>4 DEF Injection, IsInjective
<1> QED BY <1>2, <1>6, <1>7

LEMMA NthIsAPlace ==
  ASSUME NEW places \in SUBSET Int, IsFiniteSet(places), NEW k \in 1 .. Cardinality(places)
  PROVE  /\ Nth(places, k) \in places
         /\ Cardinality({m \in places : m <= Nth(places, k)}) = k
BY RankIsABijection DEF Nth

LEMMA EveryPlaceIsNth ==
  ASSUME NEW places \in SUBSET Int, IsFiniteSet(places), NEW n \in places
  PROVE  \E k \in 1 .. Cardinality(places) : Nth(places, k) = n
<1> DEFINE k == Cardinality({m \in places : m <= n})
<1>1. k \in 1 .. Cardinality(places)
  BY RankIsABijection
<1>2. /\ Nth(places, k) \in places
      /\ Cardinality({m \in places : m <= Nth(places, k)}) = k
  BY <1>1, NthIsAPlace
<1>3. \A i, m \in places :
        Cardinality({l \in places : l <= i}) = Cardinality({l \in places : l <= m}) => i = m
  BY RankIsABijection
<1>4. Nth(places, k) = n
  <2> DEFINE i == Nth(places, k)
  <2>1. i \in places /\ Cardinality({l \in places : l <= i}) = Cardinality({l \in places : l <= n})
    BY <1>2
  <2> HIDE DEF i, k
  <2>2. i = n
    BY <1>3, <2>1
  <2> QED BY <2>2 DEF i
<1> QED BY <1>1, <1>4

\* For the $pull of cart.service.ts and subscribtion.service.ts.
LEMMA PullLeaves ==
  ASSUME NEW X, NEW s \in Seq(X), NEW leaving
  PROVE  /\ Pull(s, leaving) \in Seq(X)
         /\ Len(Pull(s, leaving)) <= Len(s)
         /\ \A k \in DOMAIN Pull(s, leaving) :
              \E n \in DOMAIN s : s[n] \notin leaving /\ Pull(s, leaving)[k] = s[n]
         /\ \A n \in DOMAIN s : s[n] \notin leaving =>
              \E k \in DOMAIN Pull(s, leaving) : Pull(s, leaving)[k] = s[n]
         /\ \E from \in Injection(DOMAIN Pull(s, leaving), DOMAIN s) :
              \A k \in DOMAIN Pull(s, leaving) :
                s[from[k]] \notin leaving /\ Pull(s, leaving)[k] = s[from[k]]
<1> DEFINE places == {n \in DOMAIN s : s[n] \notin leaving}
<1>1. DOMAIN s = 1 .. Len(s) /\ Len(s) \in Nat
  OBVIOUS
<1>2. IsFiniteSet(1 .. Len(s)) /\ Cardinality(1 .. Len(s)) = Len(s)
  BY <1>1, FS_Interval
<1>3. /\ places \in SUBSET (1 .. Len(s)) /\ places \in SUBSET Int
  BY <1>1
<1>4. /\ IsFiniteSet(places) /\ Cardinality(places) <= Len(s)
  BY <1>2, <1>3, FS_Subset
<1>5. Cardinality(places) \in Nat
  BY <1>4, FS_CardinalityType
<1>6. \A k \in 1 .. Cardinality(places) : Nth(places, k) \in places
  BY <1>3, <1>4, NthIsAPlace
<1>7. \A n \in places : n \in DOMAIN s /\ s[n] \in X /\ s[n] \notin leaving
  BY <1>1
<1>8. Pull(s, leaving) = [k \in 1 .. Cardinality(places) |-> s[Nth(places, k)]]
  BY DEF Pull, At
<1> HIDE DEF places
<1>9. Pull(s, leaving) \in [1 .. Cardinality(places) -> X]
  BY <1>6, <1>7, <1>8
<1>10. Pull(s, leaving) \in Seq(X) /\ Len(Pull(s, leaving)) = Cardinality(places)
  BY <1>5, <1>9
<1>11. DOMAIN Pull(s, leaving) = 1 .. Cardinality(places)
  BY <1>9
<1>12. \A n \in DOMAIN s : s[n] \notin leaving =>
         \E k \in DOMAIN Pull(s, leaving) : Pull(s, leaving)[k] = s[n]
  <2> SUFFICES ASSUME NEW n \in places PROVE \E k \in DOMAIN Pull(s, leaving) : Pull(s, leaving)[k] = s[n]
    BY DEF places
  <2>1. \E k \in 1 .. Cardinality(places) : Nth(places, k) = n
    BY <1>3, <1>4, EveryPlaceIsNth
  <2> QED BY <1>8, <1>11, <2>1
<1>13. \E from \in Injection(DOMAIN Pull(s, leaving), DOMAIN s) :
         \A k \in DOMAIN Pull(s, leaving) :
           s[from[k]] \notin leaving /\ Pull(s, leaving)[k] = s[from[k]]
  <2> DEFINE from == [k \in 1 .. Cardinality(places) |-> Nth(places, k)]
  <2>1. from \in [1 .. Cardinality(places) -> DOMAIN s]
    BY <1>6, <1>7
  <2>2. \A k, m \in 1 .. Cardinality(places) : from[k] = from[m] => k = m
    <3>1. \A k \in 1 .. Cardinality(places) :
            Cardinality({m \in places : m <= Nth(places, k)}) = k
      BY <1>3, <1>4, NthIsAPlace
    <3> QED BY <3>1
  <2>3. \A k \in 1 .. Cardinality(places) :
          s[from[k]] \notin leaving /\ Pull(s, leaving)[k] = s[from[k]]
    BY <1>6, <1>7, <1>8
  <2> HIDE DEF from
  <2>4. from \in Injection(1 .. Cardinality(places), DOMAIN s)
    BY <2>1, <2>2 DEF Injection, IsInjective
  <2> QED BY <1>11, <2>3, <2>4
<1>14. \A k \in DOMAIN Pull(s, leaving) :
         \E n \in DOMAIN s : s[n] \notin leaving /\ Pull(s, leaving)[k] = s[n]
  BY <1>6, <1>7, <1>8, <1>11
<1> QED BY <1>4, <1>10, <1>12, <1>13, <1>14

\* And each at a place of its own.
LEMMA PullIsABijection ==
  ASSUME NEW X, NEW s \in Seq(X), NEW leaving
  PROVE  \E b \in Bijection(DOMAIN Pull(s, leaving), {n \in DOMAIN s : s[n] \notin leaving}) :
           \A k \in DOMAIN Pull(s, leaving) : Pull(s, leaving)[k] = s[b[k]]
<1> DEFINE places == {n \in DOMAIN s : s[n] \notin leaving}
           ks == 1 .. Cardinality(places)
           b == [k \in ks |-> Nth(places, k)]
<1>1. DOMAIN s = 1 .. Len(s) /\ Len(s) \in Nat
  OBVIOUS
<1>2. places \in SUBSET (1 .. Len(s)) /\ places \in SUBSET Int
  BY <1>1
<1>3. IsFiniteSet(places)
  <2>1. IsFiniteSet(1 .. Len(s))
    BY <1>1, FS_Interval
  <2> QED BY <1>2, <2>1, FS_Subset
<1>4. Pull(s, leaving) = [k \in ks |-> s[b[k]]] /\ DOMAIN Pull(s, leaving) = ks
  BY DEF Pull, At
<1> HIDE DEF places
<1>5. \A k \in ks : Nth(places, k) \in places /\ Cardinality({m \in places : m <= Nth(places, k)}) = k
  BY <1>2, <1>3, NthIsAPlace
<1>6. b \in [ks -> places] /\ \A k, m \in ks : b[k] = b[m] => k = m
  BY <1>5
<1>7. \A n \in places : \E k \in ks : b[k] = n
  <2> SUFFICES ASSUME NEW n \in places PROVE \E k \in ks : b[k] = n
    OBVIOUS
  <2>1. \E k \in ks : Nth(places, k) = n
    BY <1>2, <1>3, EveryPlaceIsNth
  <2> QED BY <2>1
<1> HIDE DEF b, ks
<1>8. b \in Bijection(ks, places)
  BY <1>6, <1>7 DEF Bijection, Injection, IsInjective, Surjection
<1>9. \A k \in ks : Pull(s, leaving)[k] = s[b[k]]
  BY <1>4
<1> QED BY <1>4, <1>8, <1>9 DEF places

\* The elements at some places of a sequence, and at all of them.
LEMMA AtLeaves ==
  ASSUME NEW X, NEW s \in Seq(X), NEW places \in SUBSET DOMAIN s
  PROVE  /\ At(s, places) \in Seq(X)
         /\ {At(s, places)[k] : k \in DOMAIN At(s, places)} = {s[n] : n \in places}
<1> DEFINE ks == 1 .. Cardinality(places)
           at == At(s, places)
<1>1. DOMAIN s = 1 .. Len(s) /\ Len(s) \in Nat
  OBVIOUS
<1>2. places \in SUBSET (1 .. Len(s)) /\ places \in SUBSET Int
  BY <1>1
<1>3. IsFiniteSet(places)
  <2>1. IsFiniteSet(1 .. Len(s))
    BY <1>1, FS_Interval
  <2> QED BY <1>2, <2>1, FS_Subset
<1>4. Cardinality(places) \in Nat
  BY <1>3, FS_CardinalityType
<1>5. at = [k \in ks |-> s[Nth(places, k)]] /\ DOMAIN at = ks
  BY DEF At
<1>6. \A k \in ks : Nth(places, k) \in places
  BY <1>2, <1>3, NthIsAPlace
<1>7. \A n \in places : \E k \in ks : Nth(places, k) = n
  <2> SUFFICES ASSUME NEW n \in places PROVE \E k \in ks : Nth(places, k) = n
    OBVIOUS
  <2> QED BY <1>2, <1>3, EveryPlaceIsNth
<1>8. \A n \in places : s[n] \in X
  BY <1>1
<1> HIDE DEF at
<1>9. at \in [1 .. Cardinality(places) -> X]
  BY <1>5, <1>6, <1>8
<1>10. at \in Seq(X)
  BY <1>4, <1>9
<1> HIDE DEF ks
<1>11. {at[k] : k \in DOMAIN at} \subseteq {s[n] : n \in places}
  BY <1>5, <1>6
<1>12. {s[n] : n \in places} \subseteq {at[k] : k \in DOMAIN at}
  BY <1>5, <1>7
<1> QED BY <1>10, <1>11, <1>12 DEF at

LEMMA AtAll ==
  ASSUME NEW X, NEW s \in Seq(X)
  PROVE  At(s, DOMAIN s) = s
<1>1. DOMAIN s = 1 .. Len(s) /\ Len(s) \in Nat
  OBVIOUS
<1>2. IsFiniteSet(1 .. Len(s)) /\ Cardinality(1 .. Len(s)) = Len(s)
  BY <1>1, FS_Interval
<1>3. \A k \in 1 .. Len(s) : Nth(1 .. Len(s), k) = k
  <2> TAKE k \in 1 .. Len(s)
  <2> DEFINE n == Nth(1 .. Len(s), k)
  <2>1. n \in 1 .. Len(s) /\ Cardinality({m \in 1 .. Len(s) : m <= n}) = k
    <3>1. 1 .. Len(s) \in SUBSET Int
      OBVIOUS
    <3> QED BY <1>2, <3>1, NthIsAPlace
  <2> HIDE DEF n
  <2>2. {m \in 1 .. Len(s) : m <= n} = 1 .. n
    BY <1>1, <2>1
  <2>3. Cardinality(1 .. n) = n
    BY <2>1, FS_Interval
  <2> QED BY <2>1, <2>2, <2>3 DEF n
<1>4. At(s, DOMAIN s) = [k \in 1 .. Len(s) |-> s[k]]
  BY <1>1, <1>2, <1>3 DEF At
<1> QED BY <1>1, <1>4

-----------------------------------------------------------------------------
(* Sums over finite sets *)

\* What SumFunctionOnSet computes by recursion over the subsets in D.
AnyOf(s) == CHOOSE x \in s : TRUE
SumsUp(g, f, D) ==
  g = [s \in D |-> IF s = {} THEN 0 ELSE f[AnyOf(s)] + g[s \ {AnyOf(s)}]]

LEMMA AnyIsIn == \A s : s # {} => AnyOf(s) \in s
BY DEF AnyOf

\* A non-empty set of finite sets has one that holds no other of them.
LEMMA LeastSubset ==
  ASSUME NEW S, IsFiniteSet(S), NEW P \in SUBSET (SUBSET S), P # {}
  PROVE  \E s \in P : \A u \in P : u \subseteq s => u = s
<1>1. P \subseteq FiniteSubsetsOf(S)
  BY FS_Subset DEF FiniteSubsetsOf
<1>2. IsWellFoundedOn(StrictSubsetOrdering(S), FiniteSubsetsOf(S))
  BY FS_StrictSubsetOrderingWellFounded
<1>3. \E s \in P : \A u \in P : ~ (<<u, s>> \in StrictSubsetOrdering(S))
  BY <1>1, <1>2, WFMin
<1> QED BY <1>3 DEF StrictSubsetOrdering

\* There is a sum for the subsets of each size, hence for all of them.
LEMMA SumExists ==
  ASSUME NEW S, IsFiniteSet(S), NEW f
  PROVE  \E g : SumsUp(g, f, SUBSET S)
<1> DEFINE D(n) == {s \in SUBSET S : Cardinality(s) <= n}
           without == {n \in Nat : ~\E g : SumsUp(g, f, D(n))}
<1>1. \A s \in SUBSET S : IsFiniteSet(s) /\ Cardinality(s) \in Nat
  BY FS_Subset, FS_CardinalityType
<1>2. SUBSET S = D(Cardinality(S)) /\ Cardinality(S) \in Nat
  BY FS_Subset, FS_CardinalityType
<1>3. \A s \in SUBSET S : s # {} =>
        AnyOf(s) \in s /\ s \ {AnyOf(s)} \in SUBSET S /\ Cardinality(s \ {AnyOf(s)}) = Cardinality(s) - 1
  BY <1>1, AnyIsIn, FS_RemoveElement
<1>4. without = {}
  <2> SUFFICES ASSUME without # {} PROVE FALSE
    OBVIOUS
  <2>1. \E n \in without : \A m \in without : ~ (<<m, n>> \in OpToRel(<, Nat))
    BY NatLessThanWellFounded, WFMin
  <2>2. PICK n \in without : \A m \in without : ~(m < n)
    BY <2>1 DEF OpToRel
  <2>3. CASE n = 0
    <3> DEFINE g == [s \in D(0) |-> 0]
    <3>1. \A s \in D(0) : s = {}
      BY <1>1, FS_EmptySet
    <3>2. SumsUp(g, f, D(0))
      BY <3>1 DEF SumsUp
    <3> HIDE DEF g
    <3> QED BY <2>3, <3>2
  <2>4. CASE n # 0
    <3>1. n - 1 \in Nat /\ n - 1 \notin without
      <4>1. n \in Nat
        OBVIOUS
      <4> HIDE DEF without
      <4> QED BY <2>2, <2>4, <4>1
    <3>2. PICK g : SumsUp(g, f, D(n - 1))
      BY <3>1
    <3> DEFINE h == [s \in D(n) |-> IF s = {} THEN 0 ELSE f[AnyOf(s)] + g[s \ {AnyOf(s)}]]
    <3>3. \A s \in D(n - 1) : s \in D(n)
      BY <1>1
    <3>4. \A s \in D(n - 1) : g[s] = h[s]
      BY <3>2, <3>3 DEF SumsUp
    <3>5. \A s \in D(n) : s # {} => s \ {AnyOf(s)} \in D(n - 1)
      BY <1>1, <1>3
    <3>6. h = [s \in D(n) |-> IF s = {} THEN 0 ELSE f[AnyOf(s)] + h[s \ {AnyOf(s)}]]
      BY <3>4, <3>5
    <3>7. SumsUp(h, f, D(n))
      BY <3>6 DEF SumsUp
    <3> HIDE DEF h
    <3> QED BY <3>7
  <2> QED BY <2>3, <2>4
<1> QED BY <1>2, <1>4

LEMMA SumUnique ==
  ASSUME NEW S, NEW T, NEW f, NEW g, NEW h, SumsUp(g, f, SUBSET S), SumsUp(h, f, SUBSET T),
         NEW u, IsFiniteSet(u), u \subseteq S, u \subseteq T
  PROVE  g[u] = h[u]
<1> DEFINE differ == {s \in SUBSET u : g[s] # h[s]}
<1> SUFFICES ASSUME differ # {} PROVE FALSE
  OBVIOUS
<1>1. PICK s \in differ : \A o \in differ : o \subseteq s => o = s
  <2>1. differ \in SUBSET (SUBSET u)
    OBVIOUS
  <2> HIDE DEF differ
  <2> QED BY <2>1, LeastSubset
<1>2. s # {}
  BY DEF SumsUp
<1>3. AnyOf(s) \in s /\ s \ {AnyOf(s)} # s /\ s \ {AnyOf(s)} \in SUBSET u
  BY <1>2, AnyIsIn
<1>4. g[s \ {AnyOf(s)}] = h[s \ {AnyOf(s)}]
  BY <1>1, <1>3
<1>5. g[s] = f[AnyOf(s)] + g[s \ {AnyOf(s)}] /\ h[s] = f[AnyOf(s)] + h[s \ {AnyOf(s)}]
  BY <1>2 DEF SumsUp
<1> QED BY <1>4, <1>5

LEMMA SumIs ==
  ASSUME NEW S, IsFiniteSet(S), NEW f
  PROVE  \E g : SumsUp(g, f, SUBSET S) /\ SumFunctionOnSet(f, S) = g[S]
<1> DEFINE F(g) == [s \in SUBSET S |->
      IF s = {} THEN 0 ELSE f[AnyOf(s)] + g[s \ {AnyOf(s)}]]
<1>1. SumFunctionOnSet(f, S) = (CHOOSE g : g = F(g))[S]
  BY DEF SumFunctionOnSet, FoldFunctionOnSet, MapThenFoldSet, AnyOf
<1>2. \E g : g = F(g)
  <2>1. PICK g : SumsUp(g, f, SUBSET S)
    BY SumExists
  <2>2. g = F(g)
    BY <2>1 DEF SumsUp
  <2> HIDE DEF F
  <2> QED BY <2>2
<1> HIDE DEF F
<1>3. (CHOOSE g : g = F(g)) = F(CHOOSE g : g = F(g))
  BY <1>2
<1> QED BY <1>1, <1>3 DEF F, SumsUp

LEMMA SumOfNone == ASSUME NEW f PROVE SumFunctionOnSet(f, {}) = 0
BY SumIs, FS_EmptySet DEF SumsUp

LEMMA SumFirst ==
  ASSUME NEW S, IsFiniteSet(S), S # {}, NEW f
  PROVE  SumFunctionOnSet(f, S) = f[AnyOf(S)] + SumFunctionOnSet(f, S \ {AnyOf(S)})
<1> DEFINE x == AnyOf(S)
<1>1. x \in S /\ IsFiniteSet(S \ {x})
  BY AnyIsIn, FS_RemoveElement
<1>2. PICK g : SumsUp(g, f, SUBSET S) /\ SumFunctionOnSet(f, S) = g[S]
  BY SumIs
<1>3. PICK h : SumsUp(h, f, SUBSET (S \ {x})) /\ SumFunctionOnSet(f, S \ {x}) = h[S \ {x}]
  BY <1>1, SumIs
<1>4. g[S] = f[x] + g[S \ {x}]
  BY <1>2 DEF SumsUp
<1> HIDE DEF x
<1>5. g[S \ {x}] = h[S \ {x}]
  <2> DEFINE u == S \ {x}
  <2>1. IsFiniteSet(u) /\ u \subseteq S /\ SumsUp(h, f, SUBSET u) /\ SumsUp(g, f, SUBSET S)
    BY <1>1, <1>2, <1>3
  <2> HIDE DEF u
  <2>2. g[u] = h[u]
    BY <2>1, SumUnique
  <2> QED BY <2>2 DEF u
<1> QED BY <1>2, <1>3, <1>4, <1>5 DEF x

LEMMA SumType ==
  ASSUME NEW S, IsFiniteSet(S), NEW f, \A x \in S : f[x] \in Int
  PROVE  SumFunctionOnSet(f, S) \in Int
<1> DEFINE bad == {s \in SUBSET S : SumFunctionOnSet(f, s) \notin Int}
<1> SUFFICES ASSUME bad # {} PROVE FALSE
  OBVIOUS
<1>1. PICK s \in bad : \A o \in bad : o \subseteq s => o = s
  <2>1. bad \in SUBSET (SUBSET S)
    OBVIOUS
  <2> HIDE DEF bad
  <2> QED BY <2>1, LeastSubset
<1>2. s # {}
  BY SumOfNone
<1>3. AnyOf(s) \in s /\ s \ {AnyOf(s)} # s /\ s \ {AnyOf(s)} \in SUBSET S /\ IsFiniteSet(s)
  BY <1>2, AnyIsIn, FS_Subset
<1>4. SumFunctionOnSet(f, s \ {AnyOf(s)}) \in Int
  BY <1>1, <1>3
<1>5. SumFunctionOnSet(f, s) = f[AnyOf(s)] + SumFunctionOnSet(f, s \ {AnyOf(s)})
  BY <1>2, <1>3, SumFirst
<1> QED BY <1>3, <1>4, <1>5

\* Any element can be taken out first.
LEMMA SumTake ==
  ASSUME NEW S, IsFiniteSet(S), NEW f, \A x \in S : f[x] \in Int, NEW x \in S
  PROVE  SumFunctionOnSet(f, S) = f[x] + SumFunctionOnSet(f, S \ {x})
<1> DEFINE Sum(s) == SumFunctionOnSet(f, s)
           bad == {s \in SUBSET S : \E y \in s : Sum(s) # f[y] + Sum(s \ {y})}
<1> SUFFICES ASSUME bad # {} PROVE FALSE
  OBVIOUS
<1>1. PICK s \in bad : \A o \in bad : o \subseteq s => o = s
  <2>1. bad \in SUBSET (SUBSET S)
    OBVIOUS
  <2> HIDE DEF bad
  <2> QED BY <2>1, LeastSubset
<1>2. PICK y \in s : Sum(s) # f[y] + Sum(s \ {y})
  OBVIOUS
<1>3. AnyOf(s) \in s
  BY <1>2, AnyIsIn
<1>4. \A o \in SUBSET s : IsFiniteSet(o) /\ Sum(o) \in Int
  <2> TAKE o \in SUBSET s
  <2>1. IsFiniteSet(o) /\ \A z \in o : f[z] \in Int
    BY FS_Subset
  <2> QED BY <2>1, SumType
<1>5. Sum(s) = f[AnyOf(s)] + Sum(s \ {AnyOf(s)})
  BY <1>2, <1>4, SumFirst
<1>6. AnyOf(s) # y
  BY <1>2, <1>5
<1>7. Sum(s \ {AnyOf(s)}) = f[y] + Sum((s \ {AnyOf(s)}) \ {y})
  <2>1. s \ {AnyOf(s)} \notin bad
    BY <1>1, <1>3
  <2> QED BY <1>3, <1>6, <2>1
<1>8. Sum(s \ {y}) = f[AnyOf(s)] + Sum((s \ {y}) \ {AnyOf(s)})
  <2>1. s \ {y} \notin bad
    BY <1>1
  <2> QED BY <1>3, <1>6, <2>1
<1>9. (s \ {AnyOf(s)}) \ {y} = (s \ {y}) \ {AnyOf(s)}
  OBVIOUS
<1> DEFINE rest == Sum((s \ {y}) \ {AnyOf(s)})
<1>10. rest \in Int /\ f[y] \in Int /\ f[AnyOf(s)] \in Int
  BY <1>3, <1>4
<1>11. Sum(s) = f[AnyOf(s)] + (f[y] + rest) /\ Sum(s \ {y}) = f[AnyOf(s)] + rest
  BY <1>5, <1>7, <1>8, <1>9
<1> HIDE DEF rest, Sum
<1> QED BY <1>2, <1>10, <1>11

LEMMA SumPut ==
  ASSUME NEW S, IsFiniteSet(S), NEW x, x \notin S, NEW f, \A y \in S \union {x} : f[y] \in Int
  PROVE  SumFunctionOnSet(f, S \union {x}) = SumFunctionOnSet(f, S) + f[x]
<1>1. IsFiniteSet(S \union {x}) /\ (S \union {x}) \ {x} = S
  BY FS_AddElement
<1>2. SumFunctionOnSet(f, S \union {x}) = f[x] + SumFunctionOnSet(f, S)
  BY <1>1, SumTake
<1>3. SumFunctionOnSet(f, S) \in Int
  BY SumType
<1> QED BY <1>2, <1>3

\* Only the values at the elements matter.
LEMMA SumSame ==
  ASSUME NEW S, IsFiniteSet(S), NEW f, NEW g, \A x \in S : f[x] = g[x]
  PROVE  SumFunctionOnSet(f, S) = SumFunctionOnSet(g, S)
<1> DEFINE bad == {s \in SUBSET S : SumFunctionOnSet(f, s) # SumFunctionOnSet(g, s)}
<1> SUFFICES ASSUME bad # {} PROVE FALSE
  OBVIOUS
<1>1. PICK s \in bad : \A o \in bad : o \subseteq s => o = s
  <2>1. bad \in SUBSET (SUBSET S)
    OBVIOUS
  <2> HIDE DEF bad
  <2> QED BY <2>1, LeastSubset
<1>2. s # {}
  BY SumOfNone
<1>3. AnyOf(s) \in s /\ s \ {AnyOf(s)} # s /\ s \ {AnyOf(s)} \in SUBSET S /\ IsFiniteSet(s)
  BY <1>2, AnyIsIn, FS_Subset
<1>4. SumFunctionOnSet(f, s \ {AnyOf(s)}) = SumFunctionOnSet(g, s \ {AnyOf(s)})
  BY <1>1, <1>3
<1>5. /\ SumFunctionOnSet(f, s) = f[AnyOf(s)] + SumFunctionOnSet(f, s \ {AnyOf(s)})
      /\ SumFunctionOnSet(g, s) = g[AnyOf(s)] + SumFunctionOnSet(g, s \ {AnyOf(s)})
  BY <1>2, <1>3, SumFirst
<1> QED BY <1>3, <1>4, <1>5

\* The elements may have other names in another set.
LEMMA SumRenamed ==
  ASSUME NEW S, NEW T, IsFiniteSet(S), IsFiniteSet(T), NEW b \in Bijection(S, T), NEW f, NEW g,
         \A x \in S : f[x] = g[b[x]], \A y \in T : g[y] \in Int
  PROVE  SumFunctionOnSet(f, S) = SumFunctionOnSet(g, T)
<1> DEFINE img(s) == {b[x] : x \in s}
           bad == {s \in SUBSET S : SumFunctionOnSet(f, s) # SumFunctionOnSet(g, img(s))}
<1>1. /\ \A x \in S : b[x] \in T
      /\ \A x, y \in S : b[x] = b[y] => x = y
      /\ \A y \in T : \E x \in S : b[x] = y
  BY DEF Bijection, Injection, IsInjective, Surjection
<1>2. img(S) = T
  BY <1>1
<1> SUFFICES ASSUME bad # {} PROVE FALSE
  BY <1>2
<1>3. PICK s \in bad : \A o \in bad : o \subseteq s => o = s
  <2>1. bad \in SUBSET (SUBSET S)
    OBVIOUS
  <2> HIDE DEF bad
  <2> QED BY <2>1, LeastSubset
<1>4. s # {}
  <2>1. img({}) = {}
    OBVIOUS
  <2> HIDE DEF img
  <2> QED BY <2>1, SumOfNone
<1> DEFINE e == AnyOf(s)
<1>5. e \in s /\ s \ {e} # s /\ s \ {e} \in SUBSET S /\ IsFiniteSet(s)
  BY <1>4, AnyIsIn, FS_Subset
<1>6. SumFunctionOnSet(f, s \ {e}) = SumFunctionOnSet(g, img(s \ {e}))
  BY <1>3, <1>5
<1>7. SumFunctionOnSet(f, s) = f[e] + SumFunctionOnSet(f, s \ {e})
  BY <1>4, <1>5, SumFirst
<1> HIDE DEF e
<1>8. img(s) \in SUBSET T /\ b[e] \in img(s) /\ img(s) \ {b[e]} = img(s \ {e})
  BY <1>1, <1>5
<1>9. IsFiniteSet(img(s)) /\ \A y \in img(s) : g[y] \in Int
  BY <1>8, FS_Subset
<1> HIDE DEF img
<1>10. SumFunctionOnSet(g, img(s)) = g[b[e]] + SumFunctionOnSet(g, img(s \ {e}))
  BY <1>8, <1>9, SumTake
<1> QED BY <1>5, <1>6, <1>7, <1>10

\* One element may come, go or change its value.
LEMMA SumTrades ==
  ASSUME NEW S, IsFiniteSet(S), NEW T, IsFiniteSet(T), NEW x, S \ {x} = T \ {x},
         NEW f, \A y \in S : f[y] \in Int, NEW g, \A y \in T : g[y] \in Int,
         \A y \in S \ {x} : f[y] = g[y],
         NEW a, a = (IF x \in S THEN f[x] ELSE 0),
         NEW b, b = (IF x \in T THEN g[x] ELSE 0)
  PROVE  SumFunctionOnSet(g, T) = SumFunctionOnSet(f, S) + (b - a)
<1> DEFINE others == S \ {x}
<1>1. IsFiniteSet(others) /\ others = T \ {x}
  BY FS_RemoveElement
<1>2. SumFunctionOnSet(f, S) = a + SumFunctionOnSet(f, others)
  <2>1. CASE x \in S
    BY <2>1, SumTake
  <2>2. CASE x \notin S
    <3>1. others = S /\ a = 0 /\ SumFunctionOnSet(f, S) \in Int
      BY <2>2, SumType
    <3> HIDE DEF others
    <3>2. \A n \in Int : n = 0 + n
      OBVIOUS
    <3> QED BY <3>1, <3>2
  <2> QED BY <2>1, <2>2
<1>3. SumFunctionOnSet(g, T) = b + SumFunctionOnSet(g, T \ {x})
  <2>1. CASE x \in T
    BY <2>1, SumTake
  <2>2. CASE x \notin T
    <3>1. others = T /\ b = 0 /\ SumFunctionOnSet(g, T) \in Int
      BY <1>1, <2>2, SumType
    <3> HIDE DEF others
    <3>2. \A n \in Int : n = 0 + n
      OBVIOUS
    <3> QED BY <1>1, <3>1, <3>2
  <2> QED BY <2>1, <2>2
<1>4. a \in Int /\ b \in Int /\ \A y \in others : f[y] \in Int
  OBVIOUS
<1> HIDE DEF others
<1>5. SumFunctionOnSet(f, others) = SumFunctionOnSet(g, others)
  BY <1>1, SumSame DEF others
<1>6. SumFunctionOnSet(f, others) \in Int
  BY <1>1, <1>4, SumType
<1> QED BY <1>1, <1>2, <1>3, <1>4, <1>5, <1>6

LEMMA SumOfZeros ==
  ASSUME NEW S, IsFiniteSet(S), NEW f, \A x \in S : f[x] = 0
  PROVE  SumFunctionOnSet(f, S) = 0
<1> DEFINE bad == {s \in SUBSET S : SumFunctionOnSet(f, s) # 0}
<1> SUFFICES ASSUME bad # {} PROVE FALSE
  OBVIOUS
<1>1. PICK s \in bad : \A o \in bad : o \subseteq s => o = s
  <2>1. bad \in SUBSET (SUBSET S)
    OBVIOUS
  <2> HIDE DEF bad
  <2> QED BY <2>1, LeastSubset
<1>2. s # {}
  BY SumOfNone
<1>3. AnyOf(s) \in s /\ s \ {AnyOf(s)} # s /\ s \ {AnyOf(s)} \in SUBSET S /\ IsFiniteSet(s)
  BY <1>2, AnyIsIn, FS_Subset
<1>4. SumFunctionOnSet(f, s) = f[AnyOf(s)] + SumFunctionOnSet(f, s \ {AnyOf(s)})
  BY <1>2, <1>3, SumFirst
<1>5. SumFunctionOnSet(f, s \ {AnyOf(s)}) = 0
  BY <1>1, <1>3
<1> QED
  BY <1>3, <1>4, <1>5
=============================================================================
