--------------------------- MODULE LRUStoreProofs ---------------------------
(***************************************************************************)
(* Sums over finite sets, and what the operators of LRUStore do with a     *)
(* store: the size of one that grows or shrinks, and what is left of it    *)
(* when it is made to fit.                                                 *)
(***************************************************************************)
EXTENDS LRUStore, FiniteSetsExt, FiniteSetTheorems, SequenceTheorems, WellFoundedInduction, TLAPS

\* g is the sum of w over each subset of S.
IsSum(g, w, S) ==
    /\ g \in [SUBSET S -> Nat]
    /\ g[{}] = 0
    /\ \A T \in SUBSET S : \A x \in T : g[T] = w[x] + g[T \ {x}]

\* g is the fold that takes the elements of S in the order of c.
IsFold(g, w, c, S) ==
    g = [T \in SUBSET S |-> IF T = {} THEN 0 ELSE w[c[T]] + g[T \ {c[T]}]]
Chooses(c, S) == \A T \in SUBSET S : T # {} => c[T] \in T

\* f takes T to I: one to one, and every element to one of its weight.
Carries(f, T, w, I, v) ==
    /\ \A x \in T : v[f[x]] = w[x]
    /\ \A x, y \in T : f[x] = f[y] => x = y
    /\ I = {f[x] : x \in T}

-----------------------------------------------------------------------------
(***************************************************************************)
(* Induction: a set of naturals has a least element, a set of subsets of a *)
(* finite set a minimal one.                                               *)
(***************************************************************************)
LEMMA LeastElement ==
    ASSUME NEW S \in SUBSET Nat, S # {}
    PROVE  \E m \in S : \A k \in S : m <= k
<1>1. PICK R : R = {ss \in Nat \X Nat : ss[1] < ss[2]}
  OBVIOUS
<1>2. R = OpToRel(<, Nat)
  BY <1>1, Zenon DEF OpToRel
<1>3. IsWellFoundedOn(R, Nat)
  BY <1>2, NatLessThanWellFounded, Zenon
<1>4. PICK m \in S : \A k \in S : ~ (<<k, m>> \in R)
  BY <1>3, WFMin
<1>5. ASSUME NEW k \in S PROVE m <= k
  <2>1. m \in Nat /\ k \in Nat
    OBVIOUS
  <2>2. k < m => <<k, m>> \in R
    BY <1>1, <2>1
  <2> QED
    BY <1>4, <2>1, <2>2
<1> QED
  BY <1>5

LEMMA MinimalSubset ==
    ASSUME NEW S, IsFiniteSet(S), NEW B \in SUBSET SUBSET S, B # {}
    PROVE  \E T \in B : \A x \in T : T \ {x} \notin B
<1> DEFINE N == {Cardinality(T) : T \in B}
<1>1. \A T \in SUBSET S : IsFiniteSet(T) /\ Cardinality(T) \in Nat
  BY FS_Subset, FS_CardinalityType
<1>2. N \in SUBSET Nat /\ N # {}
  BY <1>1
<1>3. PICK n \in N : \A k \in N : n <= k
  <2> HIDE DEF N
  <2> QED
    BY <1>2, LeastElement
<1>4. PICK T \in B : Cardinality(T) = n
  BY <1>3
<1>5. ASSUME NEW x \in T PROVE T \ {x} \notin B
  <2>1. Cardinality(T \ {x}) = n - 1 /\ n \in Nat
    BY <1>1, <1>4, FS_RemoveElement
  <2>2. T \ {x} \in B => n <= n - 1
    BY <1>3, <2>1
  <2> QED
    BY <2>1, <2>2
<1> QED
  BY <1>4, <1>5

-----------------------------------------------------------------------------
(***************************************************************************)
(* Sums.                                                                   *)
(***************************************************************************)
\* The recursion over the subsets has a solution, whatever the order.
LEMMA FoldExists ==
    ASSUME NEW S, IsFiniteSet(S), NEW w \in [S -> Nat], NEW c, Chooses(c, S)
    PROVE  \E g : IsFold(g, w, c, S)
<1> DEFINE Level(n) == {T \in SUBSET S : Cardinality(T) <= n}
           Value_(g, T) == IF T = {} THEN 0 ELSE w[c[T]] + g[T \ {c[T]}]
           Upto(g, n)  == g = [T \in Level(n) |-> Value_(g, T)]
           Bad == {n \in Nat : ~ \E g : Upto(g, n)}
<1>1. \A T \in SUBSET S : IsFiniteSet(T) /\ Cardinality(T) \in Nat
  BY FS_Subset, FS_CardinalityType
<1>2. \A T \in SUBSET S : Cardinality(T) = 0 => T = {}
  BY <1>1, FS_EmptySet
<1>3. \E g : Upto(g, 0)
  <2>1. Level(0) = {{}}
    BY <1>1, <1>2, FS_EmptySet
  <2>2. Upto([T \in {{}} |-> 0], 0)
    BY <2>1
  <2> QED
    BY <2>2
<1>4. ASSUME NEW n \in Nat, NEW g, Upto(g, n)
      PROVE  \E h : Upto(h, n + 1)
  <2> DEFINE h == [T \in Level(n + 1) |-> Value_(g, T)]
  <2>1. ASSUME NEW T \in Level(n + 1), T # {}
        PROVE  T \ {c[T]} \in Level(n)
    <3>1. c[T] \in T
      BY <2>1 DEF Chooses
    <3>2. Cardinality(T \ {c[T]}) = Cardinality(T) - 1
      BY <1>1, <3>1, FS_RemoveElement
    <3> QED
      BY <1>1, <3>2
  <2>2. ASSUME NEW T \in Level(n) PROVE g[T] = h[T]
    <3>1. T \in Level(n + 1)
      BY <1>1
    <3>2. g[T] = Value_(g, T)
      BY <1>4
    <3> QED
      BY <3>1, <3>2
  <2>3. ASSUME NEW T \in Level(n + 1) PROVE Value_(g, T) = Value_(h, T)
    <3>1. CASE T = {}
      BY <3>1
    <3>2. CASE T # {}
      <4> HIDE DEF h, Level
      <4>1. g[T \ {c[T]}] = h[T \ {c[T]}]
        BY <2>1, <2>2, <3>2
      <4> QED
        BY <4>1
    <3> QED
      BY <3>1, <3>2
  <2>4. Upto(h, n + 1)
    <3> HIDE DEF Value_
    <3> QED
      BY <2>3
  <2> QED
    BY <2>4
<1>5. Bad = {}
  <2> SUFFICES ASSUME Bad # {} PROVE FALSE
    OBVIOUS
  <2>1. Bad \in SUBSET Nat
    OBVIOUS
  <2>2. PICK m \in Bad : \A k \in Bad : m <= k
    <3> HIDE DEF Bad
    <3> QED
      BY <2>1, LeastElement
  <2> HIDE DEF Upto
  <2>3. m # 0
    BY <1>3
  <2>4. m - 1 \in Nat /\ m - 1 \notin Bad /\ (m - 1) + 1 = m
    <3>1. m \in Nat
      OBVIOUS
    <3> HIDE DEF Bad
    <3> QED
      BY <2>2, <2>3, <3>1
  <2>5. PICK g : Upto(g, m - 1)
    BY <2>4
  <2>6. \E h : Upto(h, m)
    BY <1>4, <2>4, <2>5
  <2> QED
    BY <2>6
<1>6. PICK g : Upto(g, Cardinality(S))
  <2> HIDE DEF Upto
  <2> QED
    BY <1>1, <1>5
<1>7. Level(Cardinality(S)) = SUBSET S
  BY FS_Subset
<1>8. IsFold(g, w, c, S)
  BY <1>6, <1>7, Zenon DEF IsFold
<1> QED
  BY <1>8

\* The order does not matter: a fold is the sum.
LEMMA FoldIsSum ==
    ASSUME NEW S, IsFiniteSet(S), NEW w \in [S -> Nat], NEW c, Chooses(c, S),
           NEW g, IsFold(g, w, c, S)
    PROVE  IsSum(g, w, S)
<1> DEFINE Good(T) == g[T] \in Nat /\ \A x \in T : g[T] = w[x] + g[T \ {x}]
           B == {T \in SUBSET S : ~ \A U \in SUBSET T : Good(U)}
<1>1. /\ g[{}] = 0
      /\ DOMAIN g = SUBSET S /\ g = [T \in SUBSET S |-> g[T]]
      /\ \A T \in SUBSET S : T # {} => g[T] = w[c[T]] + g[T \ {c[T]}]
  <2>1. {} \in SUBSET S
    OBVIOUS
  <2>2. g = [T \in SUBSET S |-> IF T = {} THEN 0 ELSE w[c[T]] + g[T \ {c[T]}]]
    BY DEF IsFold
  <2>3. DOMAIN g = SUBSET S /\ \A T \in SUBSET S : g[T] = IF T = {} THEN 0 ELSE w[c[T]] + g[T \ {c[T]}]
    BY <2>2
  <2>4. g = [T \in SUBSET S |-> g[T]]
    BY <2>2
  <2> QED
    BY <2>1, <2>3, <2>4
<1>2. B = {}
  <2> SUFFICES ASSUME B # {} PROVE FALSE
    OBVIOUS
  <2>1. PICK T \in B : \A x \in T : T \ {x} \notin B
    <3>1. B \in SUBSET SUBSET S
      OBVIOUS
    <3> HIDE DEF B
    <3> QED
      BY <3>1, MinimalSubset
  <2>2. T \in SUBSET S
    OBVIOUS
  <2>3. ASSUME NEW U \in SUBSET T, U # T PROVE Good(U)
    <3>1. PICK x \in T : U \in SUBSET (T \ {x})
      BY <2>3
    <3>2. T \ {x} \in SUBSET S /\ T \ {x} \notin B
      BY <2>1, <2>2
    <3> HIDE DEF Good
    <3> QED
      BY <3>1, <3>2
  <2>4. Good(T)
    <3>1. CASE T = {}
      BY <1>1, <3>1
    <3>2. CASE T # {}
      <4> DEFINE y == c[T]
      <4>1. y \in T /\ y \in S /\ w[y] \in Nat
        BY <2>2, <3>2 DEF Chooses
      <4>2. g[T] = w[y] + g[T \ {y}]
        BY <1>1, <2>2, <3>2
      <4> HIDE DEF y
      <4>3. Good(T \ {y})
        BY <2>3, <4>1
      <4>4. g[T] \in Nat
        BY <4>1, <4>2, <4>3
      <4>5. ASSUME NEW x \in T PROVE g[T] = w[x] + g[T \ {x}]
        <5>1. CASE x = y
          BY <4>2, <5>1
        <5>2. CASE x # y
          <6>1. Good(T \ {x}) /\ Good((T \ {y}) \ {x})
            BY <2>3, <4>1
          <6>2. g[T \ {y}] = w[x] + g[(T \ {y}) \ {x}]
            BY <4>3, <5>2
          <6>3. g[T \ {x}] = w[y] + g[(T \ {x}) \ {y}]
            BY <4>1, <5>2, <6>1
          <6>4. (T \ {y}) \ {x} = (T \ {x}) \ {y}
            OBVIOUS
          <6>5. w[x] \in Nat /\ g[(T \ {y}) \ {x}] \in Nat
            BY <2>2, <6>1
          <6>6. g[T \ {x}] = w[y] + g[(T \ {y}) \ {x}]
            BY <6>3, <6>4
          <6> HIDE DEF Good, B
          <6> QED
            BY <4>1, <4>2, <6>2, <6>5, <6>6
        <5> QED
          BY <5>1, <5>2
      <4> QED
        BY <4>4, <4>5
    <3> QED
      BY <3>1, <3>2
  <2> HIDE DEF Good
  <2>5. \A U \in SUBSET T : Good(U)
    BY <2>3, <2>4
  <2> QED
    BY <2>5
<1>3. \A T \in SUBSET S : Good(T)
  <2> HIDE DEF Good
  <2> QED
    BY <1>2
<1>4. g \in [SUBSET S -> Nat]
  BY <1>1, <1>3
<1> QED
  BY <1>1, <1>3, <1>4 DEF IsSum

\* The sum over T is the sum over its image.
LEMMA SumImage ==
    \A S, R, g, w, h, v, f, T, I :
      /\ IsFiniteSet(S) /\ IsSum(g, w, S) /\ IsSum(h, v, R)
      /\ T \in SUBSET S /\ I \in SUBSET R /\ Carries(f, T, w, I, v)
      => g[T] = h[I]
<1> SUFFICES ASSUME NEW S, NEW R, NEW g, NEW w, NEW h, NEW v, NEW f,
                    IsFiniteSet(S), IsSum(g, w, S), IsSum(h, v, R),
                    NEW T \in SUBSET S, NEW I \in SUBSET R, Carries(f, T, w, I, v)
             PROVE  g[T] = h[I]
  OBVIOUS
<1> DEFINE Image(U) == {f[x] : x \in U}
           B == {U \in SUBSET T : g[U] # h[Image(U)]}
<1>1. SUFFICES B = {}
  BY DEF Carries
<1>2. SUFFICES ASSUME B # {} PROVE FALSE
  OBVIOUS
<1>3. PICK U \in B : \A x \in U : U \ {x} \notin B
  <2>1. B \in SUBSET SUBSET S
    OBVIOUS
  <2> HIDE DEF B
  <2> QED
    BY <1>2, <2>1, MinimalSubset
<1>4. U # {}
  <2>1. Image({}) = {} /\ g[{}] = h[{}]
    BY DEF IsSum
  <2> QED
    BY <2>1
<1>5. PICK x \in U : TRUE
  BY <1>4
<1>6. U \ {x} \in SUBSET T /\ g[U \ {x}] = h[Image(U \ {x})]
  BY <1>3, <1>5
<1>7. Image(U) \in SUBSET R /\ f[x] \in Image(U) /\ Image(U) \ {f[x]} = Image(U \ {x})
  <2>1. Image(U) \in SUBSET I
    BY DEF Carries
  <2>2. \A y \in U : f[y] = f[x] => y = x
    BY <1>5 DEF Carries
  <2> QED
    BY <1>5, <2>1, <2>2
<1>8. U \in SUBSET S /\ x \in T
  OBVIOUS
<1>9. g[U] = w[x] + g[U \ {x}]
  BY <1>8 DEF IsSum
<1> HIDE DEF Image
<1>10. h[Image(U)] = v[f[x]] + h[Image(U) \ {f[x]}]
  BY <1>7 DEF IsSum
<1>11. v[f[x]] = w[x]
  BY <1>8 DEF Carries
<1> QED
  BY <1>6, <1>7, <1>9, <1>10, <1>11

-----------------------------------------------------------------------------
(***************************************************************************)
(* The size of a store.                                                    *)
(***************************************************************************)
Pair == [key : Key, val : Value]
Weights(s) == [i \in DOMAIN s |-> Size[s[i].val]]

\* The size of a map m with the keys S.
MapSize(m, S) == MapThenSumSet(LAMBDA k : Size[m[k].val], S)

\* r is s without its element i.
IsWithout(r, s, i) ==
    /\ r \in Seq(Pair)
    /\ Len(r) = Len(s) - 1
    /\ \A j \in 1 .. Len(r) : r[j] = s[IF j < i THEN j ELSE j + 1]

LEMMA MaxIsElement ==
    ASSUME NEW n \in Nat, NEW T \in SUBSET (1 .. n), T # {}
    PROVE  Max(T) \in T
<1> DEFINE D == {n - i : i \in T}
<1>1. D \in SUBSET Nat /\ D # {}
  <2>1. \A i \in T : n - i \in Nat
    OBVIOUS
  <2> QED
    BY <2>1
<1>2. PICK m \in D : \A k \in D : m <= k
  <2> HIDE DEF D
  <2> QED
    BY <1>1, LeastElement
<1>3. PICK i \in T : m = n - i
  BY <1>2
<1>4. ASSUME NEW j \in T PROVE i >= j
  <2>1. m <= n - j
    BY <1>2
  <2> QED
    BY <1>3, <2>1
<1>5. \E x \in T : \A y \in T : x >= y
  BY <1>4
<1> QED
  BY <1>5, Zenon DEF Max

LEMMA TotalIsSum ==
    ASSUME Size \in [Value -> Nat], NEW s \in Seq(Pair)
    PROVE  \E g : IsSum(g, Weights(s), DOMAIN s) /\ Total(s) = g[DOMAIN s]
<1> DEFINE D == DOMAIN s
           c == [T \in SUBSET D |-> Max(T)]
           w == Weights(s)
           Solves(g) ==
             g = [T \in SUBSET D |->
                   IF T = {} THEN 0 ELSE Size[s[Max(T)].val] + g[T \ {Max(T)}]]
<1>1. D = 1 .. Len(s) /\ Len(s) \in Nat /\ IsFiniteSet(D)
  BY LenProperties, FS_Interval
<1>2. \A T \in SUBSET D : T # {} => Max(T) \in T
  BY <1>1, MaxIsElement
<1>3. Chooses(c, D)
  BY <1>2 DEF Chooses
<1>4. w \in [D -> Nat] /\ \A i \in D : w[i] = Size[s[i].val]
  <2>1. \A i \in D : s[i] \in Pair
    BY <1>1, ElementOfSeq
  <2> QED
    BY <2>1 DEF Weights, Pair
<1>5. ASSUME NEW g PROVE Solves(g) <=> IsFold(g, w, c, D)
  <2>1. ASSUME NEW T \in SUBSET D
        PROVE  (IF T = {} THEN 0 ELSE Size[s[Max(T)].val] + g[T \ {Max(T)}])
                 = IF T = {} THEN 0 ELSE w[c[T]] + g[T \ {c[T]}]
    <3>1. c[T] = Max(T) /\ (T # {} => w[Max(T)] = Size[s[Max(T)].val])
      BY <1>2, <1>4
    <3> QED
      BY <3>1, Zenon
  <2>2. [T \in SUBSET D |-> IF T = {} THEN 0 ELSE Size[s[Max(T)].val] + g[T \ {Max(T)}]]
          = [T \in SUBSET D |-> IF T = {} THEN 0 ELSE w[c[T]] + g[T \ {c[T]}]]
    BY <2>1, Zenon
  <2> QED
    BY <2>2, Zenon DEF IsFold
<1>6. PICK g : IsFold(g, w, c, D)
  <2> HIDE DEF c, w, D
  <2> QED
    BY <1>1, <1>3, <1>4, FoldExists
<1>7. Total(s) = (CHOOSE h : Solves(h))[D]
  BY Zenon DEF Total, FoldLeft, MapThenFoldSet
<1> HIDE DEF Solves
<1>8. Solves(CHOOSE h : Solves(h))
  <2>1. Solves(g)
    BY <1>5, <1>6
  <2> QED
    BY <2>1, Zenon
<1>9. IsFold(CHOOSE h : Solves(h), w, c, D)
  BY <1>5, <1>8
<1>10. IsSum(CHOOSE h : Solves(h), w, D)
  <2> HIDE DEF c, w, D
  <2> QED
    BY <1>1, <1>3, <1>4, <1>9, FoldIsSum, SMTT(30)
<1> QED
  BY <1>7, <1>10

LEMMA MapSizeIsSum ==
    ASSUME Size \in [Value -> Nat], NEW S, IsFiniteSet(S), NEW m, \A k \in S : m[k].val \in Value
    PROVE  \E g : IsSum(g, [k \in S |-> Size[m[k].val]], S) /\ MapSize(m, S) = g[S]
<1> DEFINE w == [k \in S |-> Size[m[k].val]]
           some(T) == CHOOSE x \in T : TRUE
           c == [T \in SUBSET S |-> some(T)]
           Solves(g) ==
             g = [T \in SUBSET S |->
                   IF T = {} THEN 0 ELSE Size[m[some(T)].val] + g[T \ {some(T)}]]
<1>1. \A T \in SUBSET S : T # {} => some(T) \in T
  OBVIOUS
<1>2. Chooses(c, S)
  BY <1>1 DEF Chooses
<1>3. w \in [S -> Nat] /\ \A k \in S : w[k] = Size[m[k].val]
  OBVIOUS
<1>4. MapSize(m, S) = (CHOOSE h : Solves(h))[S]
  BY Zenon DEF MapSize, MapThenSumSet, MapThenFoldSet
<1> HIDE DEF some
<1>5. ASSUME NEW g PROVE Solves(g) <=> IsFold(g, w, c, S)
  <2>1. ASSUME NEW T \in SUBSET S
        PROVE  (IF T = {} THEN 0 ELSE Size[m[some(T)].val] + g[T \ {some(T)}])
                 = IF T = {} THEN 0 ELSE w[c[T]] + g[T \ {c[T]}]
    <3>1. c[T] = some(T) /\ (T # {} => w[some(T)] = Size[m[some(T)].val])
      BY <1>1, <1>3
    <3> QED
      BY <3>1, Zenon
  <2>2. [T \in SUBSET S |-> IF T = {} THEN 0 ELSE Size[m[some(T)].val] + g[T \ {some(T)}]]
          = [T \in SUBSET S |-> IF T = {} THEN 0 ELSE w[c[T]] + g[T \ {c[T]}]]
    BY <2>1, Zenon
  <2> QED
    BY <2>2, Zenon DEF IsFold
<1>6. PICK g : IsFold(g, w, c, S)
  <2> HIDE DEF c, w
  <2> QED
    BY <1>2, <1>3, FoldExists
<1> HIDE DEF Solves
<1>7. Solves(CHOOSE h : Solves(h))
  <2>1. Solves(g)
    BY <1>5, <1>6
  <2> QED
    BY <2>1, Zenon
<1>8. IsFold(CHOOSE h : Solves(h), w, c, S)
  BY <1>5, <1>7
<1>9. IsSum(CHOOSE h : Solves(h), w, S)
  <2> HIDE DEF c, w
  <2> QED
    BY <1>2, <1>3, <1>8, FoldIsSum
<1> QED
  BY <1>4, <1>9

LEMMA TotalEmpty == Size \in [Value -> Nat] => Total(<<>>) = 0
<1> SUFFICES ASSUME Size \in [Value -> Nat] PROVE Total(<<>>) = 0
  OBVIOUS
<1>1. <<>> \in Seq(Pair) /\ DOMAIN <<>> = {}
  OBVIOUS
<1> QED
  BY <1>1, TotalIsSum DEF IsSum

LEMMA TotalAppend ==
    ASSUME Size \in [Value -> Nat], NEW s \in Seq(Pair), NEW e \in Pair
    PROVE  /\ Total(s) \in Nat
           /\ Total(Append(s, e)) = Total(s) + Size[e.val]
<1> DEFINE r == Append(s, e)
           f == [i \in DOMAIN s |-> i]
           last == Len(s) + 1
<1>1. /\ r \in Seq(Pair) /\ DOMAIN r = DOMAIN s \cup {last} /\ last \notin DOMAIN s
      /\ r[last] = e /\ \A i \in DOMAIN s : r[i] = s[i]
      /\ IsFiniteSet(DOMAIN s) /\ DOMAIN s \in SUBSET DOMAIN s
  <2>1. DOMAIN s = 1 .. Len(s) /\ Len(s) \in Nat
    BY LenProperties
  <2>2. IsFiniteSet(1 .. Len(s))
    BY <2>1, FS_Interval
  <2>3. /\ r \in Seq(Pair) /\ DOMAIN r = DOMAIN s \cup {last} /\ last \notin DOMAIN s
        /\ r[last] = e /\ \A i \in DOMAIN s : r[i] = s[i]
    BY <2>1
  <2> QED
    BY <2>1, <2>2, <2>3
<1> HIDE DEF r, last
<1>2. PICK g : IsSum(g, Weights(s), DOMAIN s) /\ Total(s) = g[DOMAIN s]
  BY TotalIsSum
<1>3. PICK h : IsSum(h, Weights(r), DOMAIN r) /\ Total(r) = h[DOMAIN r]
  BY <1>1, TotalIsSum
<1>4. \A i \in DOMAIN s : Weights(r)[f[i]] = Weights(s)[i]
  BY <1>1 DEF Weights
<1>5. Carries(f, DOMAIN s, Weights(s), DOMAIN s, Weights(r)) /\ DOMAIN s \in SUBSET DOMAIN r
  <2>1. \A i, j \in DOMAIN s : f[i] = f[j] => i = j
    OBVIOUS
  <2>2. DOMAIN s = {f[i] : i \in DOMAIN s}
    OBVIOUS
  <2>3. DOMAIN s \in SUBSET DOMAIN r
    BY <1>1
  <2> QED
    BY <1>4, <2>1, <2>2, <2>3, Zenon DEF Carries
<1>6. g[DOMAIN s] = h[DOMAIN s]
  <2> HIDE DEF f
  <2>1. IsSum(g, Weights(s), DOMAIN s) /\ IsSum(h, Weights(r), DOMAIN r)
    BY <1>2, <1>3
  <2>2. /\ IsFiniteSet(DOMAIN s) /\ DOMAIN s \in SUBSET DOMAIN s /\ DOMAIN s \in SUBSET DOMAIN r
        /\ Carries(f, DOMAIN s, Weights(s), DOMAIN s, Weights(r))
    BY <1>1, <1>5
  <2> QED
    BY <2>1, <2>2, SumImage
<1>7. h[DOMAIN r] = Weights(r)[last] + h[DOMAIN r \ {last}]
  BY <1>1, <1>3 DEF IsSum
<1>8. DOMAIN r \ {last} = DOMAIN s /\ Weights(r)[last] = Size[e.val] /\ Size[e.val] \in Nat
  BY <1>1 DEF Weights, Pair
<1>9. g[DOMAIN s] \in Nat
  BY <1>2 DEF IsSum
<1> QED
  BY <1>2, <1>3, <1>6, <1>7, <1>8, <1>9 DEF r

LEMMA TotalWithout ==
    ASSUME Size \in [Value -> Nat], NEW s \in Seq(Pair), NEW i \in DOMAIN s,
           NEW r, IsWithout(r, s, i)
    PROVE  /\ Total(r) \in Nat /\ Size[s[i].val] \in Nat
           /\ Total(s) = Size[s[i].val] + Total(r)
<1> DEFINE f == [j \in DOMAIN r |-> IF j < i THEN j ELSE j + 1]
<1>1. /\ r \in Seq(Pair) /\ Len(r) = Len(s) - 1 /\ Len(s) \in Nat
      /\ DOMAIN r = 1 .. Len(r) /\ DOMAIN s = 1 .. Len(s)
      /\ IsFiniteSet(DOMAIN r) /\ s[i] \in Pair /\ DOMAIN r \in SUBSET DOMAIN r
  <2>1. r \in Seq(Pair) /\ Len(r) = Len(s) - 1
    BY DEF IsWithout
  <2>2. Len(s) \in Nat /\ DOMAIN r = 1 .. Len(r) /\ DOMAIN s = 1 .. Len(s)
    BY <2>1, LenProperties
  <2>3. s[i] \in Pair
    BY <2>2, ElementOfSeq
  <2>4. IsFiniteSet(1 .. Len(r))
    BY <2>1, <2>2, FS_Interval
  <2> QED
    BY <2>1, <2>2, <2>3, <2>4
<1>2. PICK g : IsSum(g, Weights(r), DOMAIN r) /\ Total(r) = g[DOMAIN r]
  BY <1>1, TotalIsSum
<1>3. PICK h : IsSum(h, Weights(s), DOMAIN s) /\ Total(s) = h[DOMAIN s]
  BY TotalIsSum
<1>4. \A j \in DOMAIN r : f[j] \in DOMAIN s /\ f[j] # i /\ r[j] = s[f[j]]
  BY <1>1 DEF IsWithout
<1>5. \A j, k \in DOMAIN r : f[j] = f[k] => j = k
  BY <1>1
<1>6. {f[j] : j \in DOMAIN r} = DOMAIN s \ {i}
  <2>1. ASSUME NEW k \in DOMAIN s \ {i} PROVE \E j \in DOMAIN r : f[j] = k
    <3>1. CASE k < i
      <4>1. k \in DOMAIN r /\ f[k] = k
        BY <1>1, <3>1
      <4> QED
        BY <4>1
    <3>2. CASE k > i
      <4>1. k - 1 \in DOMAIN r /\ f[k - 1] = k
        BY <1>1, <3>2
      <4> QED
        BY <4>1
    <3> QED
      BY <1>1, <3>1, <3>2
  <2> HIDE DEF f
  <2> QED
    BY <1>4, <2>1
<1> HIDE DEF f
<1>7. Carries(f, DOMAIN r, Weights(r), DOMAIN s \ {i}, Weights(s))
  <2>1. \A j \in DOMAIN r : Weights(s)[f[j]] = Weights(r)[j]
    BY <1>4 DEF Weights
  <2> QED
    BY <1>5, <1>6, <2>1 DEF Carries
<1>8. g[DOMAIN r] = h[DOMAIN s \ {i}]
  <2>1. IsSum(g, Weights(r), DOMAIN r) /\ IsSum(h, Weights(s), DOMAIN s)
    BY <1>2, <1>3
  <2>2. DOMAIN s \ {i} \in SUBSET DOMAIN s /\ DOMAIN r \in SUBSET DOMAIN r
    OBVIOUS
  <2>3. IsFiniteSet(DOMAIN r)
    BY <1>1
  <2> QED
    BY <1>7, <2>1, <2>2, <2>3, SumImage
<1>9. h[DOMAIN s] = Weights(s)[i] + h[DOMAIN s \ {i}]
  BY <1>3 DEF IsSum
<1>10. Weights(s)[i] = Size[s[i].val] /\ Size[s[i].val] \in Nat /\ g[DOMAIN r] \in Nat
  BY <1>1, <1>2 DEF Weights, Pair, IsSum
<1> QED
  BY <1>2, <1>3, <1>8, <1>9, <1>10

-----------------------------------------------------------------------------
(***************************************************************************)
(* A pair less, and what is left when pairs are dropped until it fits.     *)
(***************************************************************************)
LEMMA RemoveAtIsWithout ==
    ASSUME NEW s \in Seq(Pair), NEW i \in DOMAIN s
    PROVE  IsWithout(RemoveAt(s, i), s, i)
<1> DEFINE front == SubSeq(s, 1, i - 1)
           back  == SubSeq(s, i + 1, Len(s))
<1>1. i \in 1 .. Len(s) /\ i \in Int /\ Len(s) \in Nat
  OBVIOUS
<1>2. front \in Seq(Pair) /\ Len(front) = i - 1 /\ \A j \in 1 .. i - 1 : front[j] = s[j]
  BY <1>1, SubSeqProperties
<1>3. /\ back \in Seq(Pair) /\ Len(back) = Len(s) - i
      /\ \A j \in 1 .. Len(s) - i : back[j] = s[i + j]
  BY <1>1, SubSeqProperties
<1>4. RemoveAt(s, i) = front \o back
  BY DEF RemoveAt
<1> HIDE DEF front, back
<1>5. /\ front \o back \in Seq(Pair)
      /\ Len(front \o back) = Len(front) + Len(back)
      /\ \A j \in 1 .. Len(front) + Len(back) :
           (front \o back)[j] = IF j <= Len(front) THEN front[j] ELSE back[j - Len(front)]
  BY <1>2, <1>3, ConcatProperties
<1>6. /\ Len(RemoveAt(s, i)) = Len(s) - 1
      /\ RemoveAt(s, i) \in Seq(Pair)
  BY <1>1, <1>2, <1>3, <1>4, <1>5
<1>7. ASSUME NEW j \in 1 .. Len(s) - 1
      PROVE  RemoveAt(s, i)[j] = s[IF j < i THEN j ELSE j + 1]
  <2>0. RemoveAt(s, i)[j] = IF j <= i - 1 THEN front[j] ELSE back[j - (i - 1)]
    <3>1. j \in 1 .. Len(front) + Len(back)
      BY <1>1, <1>2, <1>3
    <3>2. (front \o back)[j] = IF j <= Len(front) THEN front[j] ELSE back[j - Len(front)]
      BY <3>1, <1>5
    <3> QED
      BY <3>2, <1>2, <1>4
  <2>1. CASE j < i
    BY <2>0, <2>1, <1>1, <1>2
  <2>2. CASE j >= i
    <3>1. j - (i - 1) \in 1 .. Len(s) - i
      BY <2>2, <1>1
    <3>2. back[j - (i - 1)] = s[i + (j - (i - 1))]
      BY <3>1, <1>3
    <3>3. i + (j - (i - 1)) = j + 1
      BY <1>1
    <3> QED
      BY <2>0, <2>2, <3>2, <3>3, <1>1
  <2> QED
    BY <2>1, <2>2, <1>1
<1> QED
  BY <1>6, <1>7 DEF IsWithout

LEMMA WithoutAbsent ==
    ASSUME NEW s \in Seq(Pair), NEW k, \A i \in DOMAIN s : s[i].key # k
    PROVE  Without(s, k) = s
BY DEF Without

LEMMA WithoutPresent ==
    ASSUME NEW s \in Seq(Pair), NEW i \in DOMAIN s,
           \A j \in DOMAIN s : s[j].key = s[i].key => j = i
    PROVE  IsWithout(Without(s, s[i].key), s, i)
<1>1. {j \in DOMAIN s : s[j].key = s[i].key} = {i}
  OBVIOUS
<1>2. Without(s, s[i].key) = RemoveAt(s, i)
  BY <1>1 DEF Without
<1> QED
  BY <1>2, RemoveAtIsWithout

\* Whatever s is, nothing is in Without(s, k) that is not in s.
LEMMA WithoutElements ==
    ASSUME NEW s \in Seq(Pair), NEW k
    PROVE  /\ Without(s, k) \in Seq(Pair)
           /\ \A j \in DOMAIN Without(s, k) : \E i \in DOMAIN s : Without(s, k)[j] = s[i]
<1> DEFINE at == {i \in DOMAIN s : s[i].key = k}
           r == Without(s, k)
<1>1. CASE at = {}
  BY <1>1 DEF Without
<1>2. CASE at # {}
  <2>1. PICK i \in at : r = RemoveAt(s, i)
    BY <1>2, Zenon DEF Without
  <2>2. IsWithout(r, s, i)
    BY <2>1, RemoveAtIsWithout
  <2> HIDE DEF r
  <2>3. ASSUME NEW j \in DOMAIN r PROVE \E h \in DOMAIN s : r[j] = s[h]
    <3>1. j \in 1 .. Len(r) /\ Len(r) = Len(s) - 1 /\ Len(s) \in Nat
      BY <2>2 DEF IsWithout
    <3>2. (IF j < i THEN j ELSE j + 1) \in DOMAIN s
      BY <3>1
    <3> QED
      BY <2>2, <3>1, <3>2 DEF IsWithout
  <2>4. r \in Seq(Pair)
    BY <2>2 DEF IsWithout
  <2> QED
    BY <2>3, <2>4 DEF r
<1> QED
  BY <1>1, <1>2

LEMMA FittingCut ==
    ASSUME Size \in [Value -> Nat], MaxSize \in Nat, NEW s \in Seq(Pair)
    PROVE  \E j \in 1 .. Len(s) + 1 :
             /\ Fitting(s) = SubSeq(s, j, Len(s))
             /\ Total(SubSeq(s, j, Len(s))) <= MaxSize
             /\ \A i \in 1 .. j - 1 : ~ Total(SubSeq(s, i, Len(s))) <= MaxSize
<1> DEFINE fits == {i \in 1 .. Len(s) + 1 : Total(SubSeq(s, i, Len(s))) <= MaxSize}
<1>1. Len(s) \in Nat
  OBVIOUS
<1>2. Len(s) + 1 \in fits
  <2>1. SubSeq(s, Len(s) + 1, Len(s)) = <<>>
    BY <1>1, SubSeqEmpty
  <2>2. Total(<<>>) <= MaxSize
    BY TotalEmpty
  <2>3. Total(SubSeq(s, Len(s) + 1, Len(s))) <= MaxSize
    BY <2>1, <2>2, Zenon
  <2>4. Len(s) + 1 \in 1 .. Len(s) + 1
    BY <1>1
  <2> QED
    BY <2>3, <2>4, Zenon
<1>3. fits \in SUBSET Nat /\ fits # {}
  BY <1>1, <1>2
<1>4. Fitting(s) = SubSeq(s, CHOOSE i \in fits : \A j \in fits : i <= j, Len(s))
  BY Zenon DEF Fitting
<1>5. \E i \in fits : \A j \in fits : i <= j
  <2> HIDE DEF fits
  <2> QED
    BY <1>3, LeastElement
<1>6. PICK j \in fits : /\ \A i \in fits : j <= i
                        /\ Fitting(s) = SubSeq(s, j, Len(s))
  <2> HIDE DEF fits
  <2> QED
    BY <1>4, <1>5, Zenon
<1>7. ASSUME NEW i \in 1 .. j - 1 PROVE ~ Total(SubSeq(s, i, Len(s))) <= MaxSize
  <2>1. i \in 1 .. Len(s) + 1 /\ ~ j <= i
    BY <1>1
  <2>2. i \notin fits
    BY <1>6, <2>1
  <2> QED
    BY <2>1, <2>2
<1> QED
  BY <1>6, <1>7

\* What is left fits, and is part of what was there.
LEMMA FittingElements ==
    ASSUME Size \in [Value -> Nat], MaxSize \in Nat, NEW s \in Seq(Pair)
    PROVE  /\ Fitting(s) \in Seq(Pair)
           /\ Total(Fitting(s)) <= MaxSize
           /\ \A j \in DOMAIN Fitting(s) : \E i \in DOMAIN s : Fitting(s)[j] = s[i]
<1>1. PICK m \in 1 .. Len(s) + 1 :
        /\ Fitting(s) = SubSeq(s, m, Len(s))
        /\ Total(SubSeq(s, m, Len(s))) <= MaxSize
  BY FittingCut
<1>2. Len(s) \in Nat /\ \A i \in m .. Len(s) : s[i] \in Pair
  BY ElementOfSeq
<1>3. /\ SubSeq(s, m, Len(s)) \in Seq(Pair)
      /\ Len(SubSeq(s, m, Len(s))) = Len(s) - m + 1
      /\ \A i \in 1 .. Len(s) - m + 1 : SubSeq(s, m, Len(s))[i] = s[m + i - 1]
  BY <1>2, SubSeqProperties
<1>4. ASSUME NEW j \in 1 .. Len(s) - m + 1
      PROVE  m + j - 1 \in DOMAIN s /\ SubSeq(s, m, Len(s))[j] = s[m + j - 1]
  BY <1>2, <1>3
<1>5. DOMAIN SubSeq(s, m, Len(s)) = 1 .. Len(s) - m + 1
  BY <1>3, LenProperties
<1> QED
  BY <1>1, <1>3, <1>4, <1>5

LEMMA FittingWhole ==
    ASSUME Size \in [Value -> Nat], MaxSize \in Nat, NEW s \in Seq(Pair),
           Total(s) <= MaxSize
    PROVE  Fitting(s) = s
<1>1. PICK m \in 1 .. Len(s) + 1 :
        /\ Fitting(s) = SubSeq(s, m, Len(s))
        /\ \A i \in 1 .. m - 1 : ~ Total(SubSeq(s, i, Len(s))) <= MaxSize
  BY FittingCut
<1>2. SubSeq(s, 1, Len(s)) = s
  BY SubSeqFull
<1>3. m = 1
  <2>1. m # 1 => 1 \in 1 .. m - 1
    OBVIOUS
  <2> QED
    BY <1>1, <1>2, <2>1
<1> QED
  BY <1>1, <1>2, <1>3

\* Dropping the first pair of what does not fit leads to the same.
LEMMA FittingTail ==
    ASSUME Size \in [Value -> Nat], MaxSize \in Nat, NEW s \in Seq(Pair),
           ~ Total(s) <= MaxSize
    PROVE  s # <<>> /\ Fitting(Tail(s)) = Fitting(s)
<1> DEFINE t == Tail(s)
<1>1. s # <<>>
  BY TotalEmpty
<1>2. t \in Seq(Pair) /\ Len(t) = Len(s) - 1 /\ Len(s) \in Nat \ {0}
  BY <1>1, HeadTailProperties, LenProperties, EmptySeq
<1>3. ASSUME NEW i \in 1 .. Len(s) PROVE SubSeq(t, i, Len(t)) = SubSeq(s, i + 1, Len(s))
  <2>1. /\ i \in Int /\ Len(t) \in Int /\ i + 1 \in Int /\ Len(s) \in Int
        /\ \A j \in i .. Len(t) : t[j] \in Pair
        /\ \A j \in i + 1 .. Len(s) : s[j] \in Pair
    BY <1>2, ElementOfSeq
  <2>2. /\ SubSeq(t, i, Len(t)) \in Seq(Pair)
        /\ Len(SubSeq(t, i, Len(t))) = Len(s) - i
        /\ \A j \in 1 .. Len(s) - i : SubSeq(t, i, Len(t))[j] = t[i + j - 1]
    <3>1. /\ SubSeq(t, i, Len(t)) \in Seq(Pair)
          /\ Len(SubSeq(t, i, Len(t))) = IF i <= Len(t) THEN Len(t) - i + 1 ELSE 0
          /\ \A j \in 1 .. Len(t) - i + 1 : SubSeq(t, i, Len(t))[j] = t[i + j - 1]
      BY <2>1, SubSeqProperties
    <3> HIDE DEF t
    <3> QED
      BY <1>2, <3>1
  <2>3. /\ SubSeq(s, i + 1, Len(s)) \in Seq(Pair)
        /\ Len(SubSeq(s, i + 1, Len(s))) = Len(s) - i
        /\ \A j \in 1 .. Len(s) - i : SubSeq(s, i + 1, Len(s))[j] = s[(i + 1) + j - 1]
    <3>1. /\ SubSeq(s, i + 1, Len(s)) \in Seq(Pair)
          /\ Len(SubSeq(s, i + 1, Len(s)))
               = IF i + 1 <= Len(s) THEN Len(s) - (i + 1) + 1 ELSE 0
          /\ \A j \in 1 .. Len(s) - (i + 1) + 1 :
               SubSeq(s, i + 1, Len(s))[j] = s[(i + 1) + j - 1]
      BY <2>1, SubSeqProperties
    <3> HIDE DEF t
    <3>2. i \in Int /\ Len(s) \in Int /\ i <= Len(s)
      BY <1>2
    <3>3. Len(s) - (i + 1) + 1 = Len(s) - i /\ (~ i + 1 <= Len(s) => Len(s) - i = 0)
      BY <3>2
    <3> QED
      BY <3>1, <3>3
  <2>4. \A j \in 1 .. Len(s) - i : t[i + j - 1] = s[(i + 1) + j - 1]
    <3>1. \A h \in 1 .. Len(t) : t[h] = s[h + 1]
      BY <1>1, HeadTailProperties
    <3> HIDE DEF t
    <3>2. \A j \in 1 .. Len(s) - i : i + j - 1 \in 1 .. Len(t) /\ (i + j - 1) + 1 = (i + 1) + j - 1
      BY <1>2
    <3> QED
      BY <3>1, <3>2
  <2> HIDE DEF t
  <2> QED
    BY <2>2, <2>3, <2>4, SeqEqual
<1> HIDE DEF t
<1>4. PICK m \in 1 .. Len(s) + 1 :
        /\ Fitting(s) = SubSeq(s, m, Len(s))
        /\ Total(SubSeq(s, m, Len(s))) <= MaxSize
        /\ \A i \in 1 .. m - 1 : ~ Total(SubSeq(s, i, Len(s))) <= MaxSize
  BY FittingCut
<1>5. PICK n \in 1 .. Len(t) + 1 :
        /\ Fitting(t) = SubSeq(t, n, Len(t))
        /\ Total(SubSeq(t, n, Len(t))) <= MaxSize
        /\ \A i \in 1 .. n - 1 : ~ Total(SubSeq(t, i, Len(t))) <= MaxSize
  BY <1>2, FittingCut
<1>6. m # 1
  BY <1>4, SubSeqFull
<1>7. m - 1 \in 1 .. Len(s) /\ n \in 1 .. Len(s) /\ (m - 1) + 1 = m
  BY <1>2, <1>6
<1>8. ~ m - 1 < n
  <2>1. Total(SubSeq(t, m - 1, Len(t))) <= MaxSize
    <3>1. SubSeq(t, m - 1, Len(t)) = SubSeq(s, (m - 1) + 1, Len(s))
      BY <1>3, <1>7
    <3> QED
      BY <1>4, <1>7, <3>1
  <2>2. m - 1 < n => m - 1 \in 1 .. n - 1
    BY <1>7
  <2> QED
    BY <1>5, <2>1, <2>2
<1>9. ~ n < m - 1
  <2>1. Total(SubSeq(s, n + 1, Len(s))) <= MaxSize
    <3>1. SubSeq(t, n, Len(t)) = SubSeq(s, n + 1, Len(s))
      BY <1>3, <1>7
    <3> QED
      BY <1>5, <3>1
  <2>2. n < m - 1 => n + 1 \in 1 .. m - 1
    <3>1. n \in Int /\ m \in Int /\ 1 <= n
      BY <1>7
    <3> QED
      BY <3>1
  <2>3. n + 1 \notin 1 .. m - 1
    BY <1>4, <2>1
  <2> QED
    BY <2>2, <2>3
<1>10. n + 1 = m
  BY <1>7, <1>8, <1>9
<1>11. Fitting(t) = Fitting(s)
  BY <1>3, <1>4, <1>5, <1>7, <1>10
<1> QED
  BY <1>1, <1>11 DEF t

LEMMA WithoutUnique ==
    ASSUME NEW s \in Seq(Pair), NEW i \in DOMAIN s,
           NEW r, IsWithout(r, s, i), NEW q, IsWithout(q, s, i)
    PROVE  r = q
<1>1. r \in Seq(Pair) /\ q \in Seq(Pair) /\ Len(r) = Len(q) /\ \A j \in 1 .. Len(r) : r[j] = q[j]
  BY DEF IsWithout
<1> QED
  BY <1>1, SeqEqual

LEMMA TailIsWithout ==
    ASSUME NEW s \in Seq(Pair), s # <<>>
    PROVE  1 \in DOMAIN s /\ IsWithout(Tail(s), s, 1)
BY DEF IsWithout

-----------------------------------------------------------------------------
(***************************************************************************)
(* The store.                                                              *)
(***************************************************************************)
\* No two pairs have one key.
Once(s) == \A i, j \in DOMAIN s : s[i].key = s[j].key => i = j

LEMMA OnceAppended ==
    ASSUME NEW s \in Seq(Pair), NEW e \in Pair, Once(s), NEW k, k = e.key
    PROVE  /\ Append(Without(s, k), e) \in Seq(Pair)
           /\ Once(Append(Without(s, k), e))
<1> DEFINE r == Without(s, k)
           a == Append(r, e)
<1>1. r \in Seq(Pair) /\ Once(r) /\ \A j \in DOMAIN r : r[j].key # k
  <2>1. CASE \A i \in DOMAIN s : s[i].key # k
    BY <2>1, WithoutAbsent
  <2>2. CASE \E i \in DOMAIN s : s[i].key = k
    <3>1. PICK i \in DOMAIN s : s[i].key = k
      BY <2>2
    <3>2. IsWithout(r, s, i)
      BY <3>1, WithoutPresent DEF Once
    <3> HIDE DEF r
    <3>3. /\ r \in Seq(Pair) /\ Len(r) = Len(s) - 1 /\ Len(s) \in Nat
          /\ \A j \in 1 .. Len(s) - 1 : r[j] = s[IF j < i THEN j ELSE j + 1]
      BY <3>2 DEF IsWithout
    <3>4. DOMAIN r = 1 .. Len(s) - 1 /\ DOMAIN s = 1 .. Len(s)
      BY <3>3, LenProperties
    <3> DEFINE from(j) == IF j < i THEN j ELSE j + 1
    <3>5. \A j \in 1 .. Len(s) - 1 : from(j) \in 1 .. Len(s) /\ from(j) # i
      BY <3>3, <3>4
    <3>6. \A j, h \in 1 .. Len(s) - 1 : from(j) = from(h) => j = h
      BY <3>3, <3>4
    <3>7. \A j \in 1 .. Len(s) - 1 : r[j] = s[from(j)]
      BY <3>3
    <3> HIDE DEF from
    <3>8. Once(r)
      BY <3>4, <3>5, <3>6, <3>7 DEF Once
    <3>9. \A j \in DOMAIN r : r[j].key # k
      BY <3>1, <3>4, <3>5, <3>7 DEF Once
    <3> QED
      BY <3>3, <3>8, <3>9
  <2> QED
    BY <2>1, <2>2
<1> HIDE DEF r
<1>2. /\ a \in Seq(Pair) /\ Len(a) = Len(r) + 1 /\ a[Len(r) + 1] = e
      /\ \A j \in 1 .. Len(r) : a[j] = r[j]
  BY <1>1, AppendProperties
<1> HIDE DEF a
<1>3. DOMAIN a = 1 .. Len(r) + 1 /\ DOMAIN r = 1 .. Len(r) /\ Len(r) \in Nat
  BY <1>1, <1>2, LenProperties
<1>4. \A j \in DOMAIN a : j \in DOMAIN r \/ j = Len(r) + 1
  BY <1>3
<1>5. Once(a)
  <2> SUFFICES ASSUME NEW i \in DOMAIN a, NEW j \in DOMAIN a, a[i].key = a[j].key
               PROVE  i = j
    BY DEF Once
  <2>1. CASE i \in DOMAIN r /\ j \in DOMAIN r
    BY <1>1, <1>2, <1>3, <2>1 DEF Once
  <2>2. CASE i \in DOMAIN r /\ j = Len(r) + 1
    BY <1>1, <1>2, <1>3, <2>2
  <2>3. CASE i = Len(r) + 1 /\ j \in DOMAIN r
    BY <1>1, <1>2, <1>3, <2>3
  <2> QED
    BY <1>4, <2>1, <2>2, <2>3
<1> QED
  BY <1>2, <1>5 DEF a, r

LEMMA OnceCut ==
    ASSUME Size \in [Value -> Nat], MaxSize \in Nat, NEW s \in Seq(Pair), Once(s)
    PROVE  Once(Fitting(s))
<1>1. PICK m \in 1 .. Len(s) + 1 : Fitting(s) = SubSeq(s, m, Len(s))
  BY FittingCut
<1> DEFINE r == SubSeq(s, m, Len(s))
<1>2. Len(s) \in Nat /\ DOMAIN s = 1 .. Len(s) /\ \A i \in m .. Len(s) : s[i] \in Pair
  BY ElementOfSeq, LenProperties
<1>3. /\ r \in Seq(Pair) /\ Len(r) = Len(s) - m + 1
      /\ \A i \in 1 .. Len(s) - m + 1 : r[i] = s[m + i - 1]
  BY <1>2, SubSeqProperties
<1> HIDE DEF r
<1>4. DOMAIN r = 1 .. Len(s) - m + 1
  BY <1>3, LenProperties
<1>5. /\ \A i \in 1 .. Len(s) - m + 1 : m + i - 1 \in 1 .. Len(s)
      /\ \A i, j \in 1 .. Len(s) - m + 1 : m + i - 1 = m + j - 1 => i = j
  BY <1>2
<1>6. Once(r)
  <2> SUFFICES ASSUME NEW i \in DOMAIN r, NEW j \in DOMAIN r, r[i].key = r[j].key
               PROVE  i = j
    BY DEF Once
  <2> DEFINE x == m + i - 1
             y == m + j - 1
  <2>1. x \in DOMAIN s /\ y \in DOMAIN s /\ (x = y => i = j)
    BY <1>2, <1>4, <1>5
  <2>2. r[i] = s[x] /\ r[j] = s[y]
    BY <1>3, <1>4
  <2> HIDE DEF x, y
  <2> QED
    BY <2>1, <2>2 DEF Once
<1> QED
  BY <1>1, <1>6 DEF r

\* The store holds one pair of a key at most, and no more than the limit
\* (cache.cpp:80-91).
THEOREM StoreFits ==
    Size \in [Value -> Nat] /\ MaxSize \in Nat =>
      (Spec => [](Once(entries) /\ Total(entries) <= MaxSize))
<1> SUFFICES ASSUME Size \in [Value -> Nat], MaxSize \in Nat
             PROVE  Spec => [](Once(entries) /\ Total(entries) <= MaxSize)
  OBVIOUS
<1> DEFINE OK == entries \in Seq(Pair) /\ Once(entries) /\ Total(entries) <= MaxSize
<1>1. Init => OK
  BY TotalEmpty DEF Init, Once
<1>2. OK /\ [Next]_<<entries, result>> => OK'
  <2> SUFFICES ASSUME OK, [Next]_<<entries, result>> PROVE OK'
    OBVIOUS
  <2>1. ASSUME NEW t \in Session, NEW k \in Key, Get(t, k) PROVE OK'
    <3>1. CASE UNCHANGED entries
      BY <3>1 DEF Once
    <3>2. CASE \E i \in DOMAIN entries :
                 /\ entries[i].key = k
                 /\ entries' = Append(Without(entries, k), entries[i])
      <4>1. PICK i \in DOMAIN entries :
                 /\ entries[i].key = k
                 /\ entries' = Append(Without(entries, k), entries[i])
        BY <3>2
      <4>2. entries[i] \in Pair
        BY ElementOfSeq, LenProperties
      <4>3. entries' \in Seq(Pair) /\ Once(entries')
        BY <4>1, <4>2, OnceAppended
      <4> DEFINE r == Without(entries, k)
      <4>4. IsWithout(r, entries, i)
        BY <4>1, WithoutPresent DEF Once
      <4>5. r \in Seq(Pair)
        BY <4>4 DEF IsWithout
      <4> HIDE DEF r
      <4>6. Total(entries) = Size[entries[i].val] + Total(r) /\ Total(r) \in Nat
            /\ Size[entries[i].val] \in Nat
        BY <4>4, TotalWithout
      <4>7. Total(Append(r, entries[i])) = Total(r) + Size[entries[i].val]
        BY <4>2, <4>5, TotalAppend
      <4>8. Total(entries') = Total(entries)
        <5>1. Total(entries') = Total(Append(r, entries[i]))
          BY <4>1 DEF r
        <5> QED
          BY <4>6, <4>7, <5>1
      <4> QED
        BY <4>3, <4>8
    <3> QED
      BY <2>1, <3>1, <3>2 DEF Get
  <2>2. ASSUME NEW t \in Session, NEW k \in Key, NEW v \in Value, Put(t, k, v) PROVE OK'
    <3> DEFINE e == [key |-> k, val |-> v]
               a == Append(Without(entries, k), e)
    <3>1. e \in Pair /\ e.key = k
      BY DEF Pair
    <3> HIDE DEF e
    <3>2. a \in Seq(Pair) /\ Once(a)
      BY <3>1, OnceAppended
    <3>3. entries' = Fitting(a)
      BY <2>2 DEF Put, e
    <3> HIDE DEF a
    <3> QED
      BY <3>2, <3>3, FittingElements, OnceCut
  <2>3. CASE UNCHANGED <<entries, result>>
    BY <2>3 DEF Once
  <2> QED
    BY <2>1, <2>2, <2>3 DEF Next
<1>3. OK => Once(entries) /\ Total(entries) <= MaxSize
  OBVIOUS
<1> HIDE DEF OK
<1> QED
  BY <1>1, <1>2, <1>3, PTL DEF Spec
=============================================================================
