------------------------- MODULE ChordLookupProofs -------------------------
(***************************************************************************)
(* A lookup ends at the owner of its key, or where AnswerOwnsKey says that *)
(* it does not, and comes nearer with every hop, for every ring size, every*)
(* set of members and every state of the fingers beyond finger 0.          *)
(***************************************************************************)
EXTENDS ChordLookup, FiniteSetTheorems, TLAPS

-----------------------------------------------------------------------------
(***************************************************************************)
(* What the comparisons of ChordRing guarantee.                            *)
(***************************************************************************)
\* A finger that passes the test of findClosestPort is nearer to the key.
LEMMA PrecedesCloser ==
    ASSUME NEW a \in Key, NEW f \in Key, NEW h \in Key, Precedes(a, f, h)
    PROVE  Dist(f, h) < Dist(a, h)
BY RingAssumption, SMT DEF Key, Precedes, Dist

\* The nodes that pass it, as seen from one of them.
LEMMA PrecedesFurther ==
    ASSUME NEW a \in Key, NEW q \in Key, NEW m \in Key, NEW h \in Key,
           Precedes(a, q, h), Precedes(q, m, h)
    PROVE  /\ Precedes(a, m, h)
           /\ Between(a, q, m)
           /\ Dist(a, m) = Dist(a, q) + Dist(q, m)
BY RingAssumption, SMT DEF Key, Precedes, Between, Dist

\* It is passed by the nodes on the way to the key.
LEMMA PrecedesDist ==
    ASSUME NEW a \in Key, NEW m \in Key, NEW h \in Key
    PROVE  /\ Dist(a, m) \in 0 .. RingSize - 1
           /\ Precedes(a, m, h) <=> 0 < Dist(a, m) /\ Dist(a, m) < Dist(a, h)
BY RingAssumption, SMT DEF Key, Precedes, Dist

\* A key that passes the first two tests of findClosestPort is the successor's.
LEMMA OwnedIsOwner ==
    ASSUME NEW M \in SUBSET Key, NEW a \in M, NEW p \in M, NEW h \in Key,
           IsSuccessor(M, a, p), OwnedBySuccessor(a, p, h)
    PROVE  IsOwner(M, h, p)
<1>1. SUFFICES ASSUME NEW x \in M PROVE Dist(h, p) <= Dist(h, x)
  BY DEF IsOwner
<1>2. ~ Between(a, x, p) /\ ~ Between(a, a, p) /\ x \in Key /\ a \in Key /\ p \in Key
  BY DEF IsSuccessor, Between, Key
<1> QED
  BY <1>2, RingAssumption, SMT DEF OwnedBySuccessor, Key, Dist, Between

\* A key that passes neither them nor, at the successor, the finger test is
\* the node's own or the position of the lowest node.
LEMMA NotForwarded ==
    ASSUME NEW M \in SUBSET Key, NEW a \in M, NEW p \in M, NEW h \in Key,
           IsSuccessor(M, a, p), ~ OwnedBySuccessor(a, p, h), ~ Precedes(a, p, h)
    PROVE  IsOwner(M, h, a) \/ (IsSuccessor(M, a, h) /\ \A m \in M : h <= m)
<1>1. a \in Key /\ p \in Key
  OBVIOUS
<1>2. CASE p = a
  <2>1. ASSUME NEW x \in M PROVE x = a
    <3>1. ~ Between(a, x, a) /\ x \in Key
      BY <1>2 DEF IsSuccessor
    <3> QED
      BY <3>1, <1>1, SMT DEF Between, Key
  <2> QED
    BY <2>1, <1>1, RingAssumption, SMT DEF IsOwner, Dist, Key
<1>3. CASE p # a /\ h = a
  BY <1>1, <1>3, RingAssumption, SMT DEF IsOwner, Dist, Key
<1>4. CASE p # a /\ h # a
  <2>1. h = p /\ p < a
    BY <1>1, <1>4, SMT DEF OwnedBySuccessor, Precedes, Key
  <2>2. ASSUME NEW m \in M PROVE h <= m
    <3>1. ~ Between(a, m, p) /\ m \in Key
      BY DEF IsSuccessor
    <3> QED
      BY <2>1, <3>1, <1>1, SMT DEF Between, Key
  <2> QED
    BY <2>1, <2>2
<1> QED
  BY <1>2, <1>3, <1>4

\* Where fix_fingers looks is a position on the ring.
LEMMA FingerStartType ==
    ASSUME NEW n \in Key, NEW i \in Finger
    PROVE  FingerStart(n, i) \in Key
<1>1. 2^i \in Nat
  BY PowerAssumption
<1>2. n + 2^i \in Nat
  BY <1>1, SMT DEF Key
<1> DEFINE s == n + 2^i
<1>3. s \in Nat
  BY <1>2
<1> HIDE DEF s
<1>4. (IF s < RingSize THEN s ELSE IF Saturates THEN RingSize - 1 ELSE s % RingSize) \in Key
  BY <1>3, RingAssumption, SMT DEF Key
<1> QED
  BY <1>4 DEF FingerStart, s

\* Seen from a node, the owner of a position is not before it, and any node on
\* the way to the key at or after it has the owner before it.
LEMMA OwnerFrom ==
    ASSUME NEW M \in SUBSET Key, NEW a \in M, NEW h \in Key, NEW s \in Key, a # s,
           NEW o, IsOwner(M, s, o)
    PROVE  /\ o # a => Dist(a, s) <= Dist(a, o)
           /\ \A m \in M : Precedes(a, m, h) /\ Dist(a, s) <= Dist(a, m)
                => Precedes(a, o, h)
<1>1. o \in Key /\ a \in Key /\ Dist(s, o) <= Dist(s, a)
  BY DEF IsOwner
<1>2. o # a => Dist(a, s) <= Dist(a, o)
  BY <1>1, RingAssumption, SMT DEF Key, Dist
<1>3. ASSUME NEW m \in M, Precedes(a, m, h), Dist(a, s) <= Dist(a, m)
      PROVE  Precedes(a, o, h)
  <2>1. m \in Key /\ Dist(s, o) <= Dist(s, m)
    BY DEF IsOwner
  <2> QED
    BY <1>1, <1>3, <2>1, RingAssumption, SMT DEF Key, Dist, Precedes
<1> QED
  BY <1>2, <1>3

\* The same of the node just before a member.
LEMMA PredecessorFrom ==
    ASSUME NEW M \in SUBSET Key, NEW a \in M, NEW h \in Key, NEW b \in M, a # b,
           NEW o \in M, IsSuccessor(M, o, b), o # a
    PROVE  \A m \in M : Precedes(a, m, h) /\ Dist(a, b) <= Dist(a, m)
             => Precedes(a, o, h)
<1>1. o \in Key /\ a \in Key /\ b \in Key /\ ~ Between(o, a, b)
  BY DEF IsSuccessor
<1>2. ASSUME NEW m \in M, Precedes(a, m, h), Dist(a, b) <= Dist(a, m)
      PROVE  Precedes(a, o, h)
  <2>1. m \in Key
    OBVIOUS
  <2> QED
    BY <1>1, <1>2, <2>1, RingAssumption, SMT DEF Key, Dist, Precedes, Between
<1> QED
  BY <1>2

\* Where the additions wrap, finger i is looked up at distance 2^i.
LEMMA FingerStartDist ==
    ASSUME Saturates = FALSE, NEW n \in Key, NEW i \in Finger, 2^i < RingSize
    PROVE  Dist(n, FingerStart(n, i)) = 2^i
<1> DEFINE w == 2^i
<1>1. w \in Nat /\ w < RingSize
  BY PowerAssumption
<1> HIDE DEF w
<1>2. ASSUME NEW s \in Int, RingSize <= s, s < 2 * RingSize
      PROVE  s % RingSize = s - RingSize
  BY <1>2, RingAssumption, SMT
<1>3. FingerStart(n, i) = IF n + w < RingSize THEN n + w ELSE n + w - RingSize
  <2>1. FingerStart(n, i) = IF n + w < RingSize THEN n + w ELSE (n + w) % RingSize
    BY DEF FingerStart, w
  <2> QED
    BY <1>1, <1>2, <2>1, RingAssumption, SMT DEF Key
<1>4. Dist(n, FingerStart(n, i)) = w
  BY <1>1, <1>3, RingAssumption, SMT DEF Key, Dist
<1> QED
  BY <1>4 DEF w

\* Every non-empty set of naturals has a least element.
LEMMA LeastNatural ==
    ASSUME NEW S \in SUBSET Nat, S # {}
    PROVE  \E m \in S : \A k \in S : m <= k
<1> DEFINE T == {0 .. k : k \in S}
<1>1. IsWellFoundedOn(StrictSubsetOrdering(Nat), FiniteSubsetsOf(Nat))
  BY FS_StrictSubsetOrderingWellFounded
<1>2. T # {} /\ T \subseteq FiniteSubsetsOf(Nat)
  <2>1. ASSUME NEW k \in S PROVE 0 .. k \in FiniteSubsetsOf(Nat)
    <3>1. k \in Int /\ IsFiniteSet(0 .. k)
      BY FS_Interval
    <3> QED
      BY <3>1 DEF FiniteSubsetsOf
  <2> QED
    BY <2>1
<1> HIDE DEF T
<1>3. PICK x \in T : \A y \in T : ~ (<<y, x>> \in StrictSubsetOrdering(Nat))
  BY <1>1, <1>2, WFMin, Zenon
<1>4. PICK m \in S : x = 0 .. m
  BY DEF T
<1>5. ASSUME NEW k \in S PROVE m <= k
  <2>1. SUFFICES ASSUME k < m PROVE FALSE
    OBVIOUS
  <2>2. 0 .. k \in T
    BY DEF T
  <2>3. /\ 0 .. k \in SUBSET Nat /\ 0 .. m \in SUBSET Nat
        /\ 0 .. k \subseteq 0 .. m /\ 0 .. k # 0 .. m
    <3>1. m \in 0 .. m /\ ~ (m \in 0 .. k)
      BY <2>1
    <3> QED
      BY <2>1, <3>1
  <2>4. <<0 .. k, x>> \in StrictSubsetOrdering(Nat)
    BY <2>3, <1>4 DEF StrictSubsetOrdering
  <2> QED
    BY <2>2, <2>4, <1>3
<1> QED
  BY <1>5

-----------------------------------------------------------------------------
(***************************************************************************)
(* The inductive invariant.                                                *)
(***************************************************************************)
LEMMA PortIsKey ==
    ASSUME NEW p \in Key PROVE p # None /\ translate(p) = p
BY RingAssumption, SMT DEF Key, translate

\* The builds whose atoi reads back every key.
Wide == Narrow = FALSE

LEMMA ReadsKey == ASSUME Wide, NEW k PROVE ReadKey(k) = k
BY DEF Wide, ReadKey

LEMMA ReadKeyType == ASSUME NEW k \in Key PROVE ReadKey(k) \in Key
<1>1. CASE Narrow /\ k >= RingSize \div 2
  <2>1. RingSize \div 2 - 1 \in Key
    BY <1>1, RingAssumption, SMT DEF Key
  <2> QED
    BY <1>1, <2>1 DEF ReadKey
<1>2. CASE ~ (Narrow /\ k >= RingSize \div 2)
  BY <1>2 DEF ReadKey
<1> QED
  BY <1>1, <1>2

\* The inductive invariant.
IInv == TypeOK /\ AnswerOwnsKey /\ HopBound

LEMMA InitIInv == Init => IInv
<1> SUFFICES ASSUME Init PROVE IInv
  OBVIOUS
<1>1. TypeOK /\ AnswerOwnsKey
  BY DEF Init, TypeOK, AnswerOwnsKey
<1>2. Dist(at, key) \in Int
  BY RingAssumption, SMT DEF Init, Dist, Key
<1>3. HopBound
  BY <1>2, SMT DEF Init, HopBound
<1> QED
  BY <1>1, <1>3 DEF IInv

\* Finger 0 is the successor, but at a node that is stuck.
LEMMA FingerZero ==
    ASSUME TypeOK, NEW n \in member, NEW p \in member, NEW f \in FingerTables(n, p),
           IsSuccessor(member, n, p)
    PROVE  f[0] = p \/ (f[0] = n /\ Stuck(member, n))
<1>1. n \in Key /\ p \in Key
  BY RingAssumption DEF TypeOK
<1>2. translate(p) = p
  BY <1>1, PortIsKey
<1> DEFINE s == FingerStart(n, 0)
<1>3. /\ n + 1 < RingSize => s = n + 1
      /\ n + 1 = RingSize => s = IF Saturates THEN n ELSE 0
  <2>1. s = IF n + 1 < RingSize THEN n + 1
            ELSE IF Saturates THEN RingSize - 1 ELSE (n + 1) % RingSize
    BY PowerAssumption DEF FingerStart
  <2>2. n + 1 = RingSize => (n + 1) % RingSize = 0
    BY <1>1, RingAssumption, SMT DEF Key
  <2> QED
    BY <1>1, <2>1, <2>2, RingAssumption, SMT DEF Key
<1>4. f[0] \in Here(n, p, f, s)
  BY DEF FingerTables
<1> HIDE DEF s
<1>5. CASE OwnedBySuccessor(n, p, s)
  BY <1>2, <1>4, <1>5 DEF Here
<1>6. CASE ~ OwnedBySuccessor(n, p, s)
  <2>1. f[0] = n
    BY <1>2, <1>4, <1>6 DEF Here
  <2>2. p = n \/ (n = RingSize - 1 /\ (p = 0 \/ Saturates))
    BY <1>1, <1>3, <1>6, RingAssumption, SMT DEF OwnedBySuccessor, Key
  <2> QED
    BY <2>1, <2>2 DEF Stuck
<1> QED
  BY <1>5, <1>6

\* What findClosestPort answers by itself, at a member with such a finger 0.
LEMMA HereIsRight ==
    ASSUME TypeOK, NEW n \in member, NEW p \in member, NEW f \in FingerTables(n, p),
           IsSuccessor(member, n, p), NEW h \in Key, NEW q \in Here(n, p, f, h)
    PROVE  /\ q \in member
           /\ \/ IsOwner(member, h, q)
              \/ Boundary(member, h) /\ IsSuccessor(member, q, h)
              \/ q = n /\ Stuck(member, n)
<1>1. member \subseteq Key /\ n \in member
  BY RingAssumption DEF TypeOK
<1>2. translate(p) = p
  BY <1>1, PortIsKey
<1>3. CASE OwnedBySuccessor(n, p, h)
  BY <1>1, <1>2, <1>3, OwnedIsOwner DEF Here
<1>4. CASE ~ OwnedBySuccessor(n, p, h)
  <2>1. q = n /\ Candidates(n, f, h) = {}
    BY <1>2, <1>4 DEF Here
  <2>2. 0 \in Finger
    BY RingAssumption, SMT DEF Finger
  <2>3. CASE f[0] = p
    <3>1. ~ Precedes(n, p, h)
      BY <1>2, <2>1, <2>2, <2>3 DEF Candidates
    <3> QED
      BY <1>1, <1>4, <2>1, <3>1, NotForwarded DEF Boundary, IsSuccessor
  <2> QED
    BY <2>1, <2>3, FingerZero
<1> QED
  BY <1>3, <1>4

LEMMA AnswerIsRight ==
    ASSUME TypeOK, HopBound, NEW p \in member, NEW f \in FingerTables(at, p),
           IsSuccessor(member, at, p), NEW q \in Here(at, p, f, key)
    PROVE  /\ q \in member
           /\ Found(member, start, key, q)
<1>1. at \in member /\ key \in Key /\ at \in Key /\ start \in Key /\ hops \in Nat
  BY RingAssumption DEF TypeOK
<1>2. Dist(at, key) \in Int /\ Dist(start, key) \in Int
  BY <1>1, RingAssumption, SMT DEF Dist, Key
<1>3. Dist(at, key) <= Dist(start, key)
  BY <1>1, <1>2 DEF HopBound
<1> QED
  BY <1>1, <1>3, HereIsRight DEF Found

LEMMA ForwardIsCloser ==
    ASSUME TypeOK, NEW p \in member, NEW f \in FingerTables(at, p),
           NEW q \in Asks(at, p, f, key)
    PROVE  q \in member /\ Dist(q, key) < Dist(at, key)
<1>1. member \subseteq Key /\ at \in member /\ key \in Key
  BY RingAssumption DEF TypeOK
<1>2. PICK i \in Candidates(at, f, key) : q = f[i]
  BY DEF Asks
<1>3. q \in member /\ Precedes(at, translate(q), key)
  BY <1>2 DEF Candidates, FingerTables
<1>4. Precedes(at, q, key)
  BY <1>1, <1>3, PortIsKey
<1> QED
  BY <1>1, <1>3, <1>4, PrecedesCloser

LEMMA NextIInv == Wide /\ IInv /\ [Next]_vars => IInv'
<1> SUFFICES ASSUME Wide, IInv, [Next]_vars PROVE IInv'
  OBVIOUS
<1>1. CASE UNCHANGED vars
  BY <1>1 DEF IInv, TypeOK, AnswerOwnsKey, HopBound, Found, Boundary, IsOwner,
                   IsSuccessor, Stuck, Dist, vars
<1>2. CASE Next
  <2>0. PICK p \in member : \E f \in FingerTables(at, p) :
          /\ IsSuccessor(member, at, p)
          /\ Answer(p, f) \/ Forward(p, f)
    BY <1>2 DEF Next
  <2>1. PICK f \in FingerTables(at, p) :
          /\ IsSuccessor(member, at, p)
          /\ Answer(p, f) \/ Forward(p, f)
    BY <2>0
  <2>2. CASE Answer(p, f)
    <3>1. /\ answer' \in member
          /\ Found(member, start, key, answer')
      BY <2>1, <2>2, AnswerIsRight DEF Answer, IInv
    <3>2. TypeOK'
      BY <2>2, <3>1 DEF IInv, TypeOK, Answer
    <3>3. AnswerOwnsKey'
      BY <2>2, <3>1 DEF AnswerOwnsKey, Answer, Found, IsOwner, IsSuccessor, Dist, Boundary, Stuck
    <3>4. HopBound'
      BY <2>2 DEF IInv, HopBound, Answer, Dist
    <3> QED
      BY <3>2, <3>3, <3>4 DEF IInv
  <2>3. CASE Forward(p, f)
    <3>1. at' \in member /\ Dist(at', key) < Dist(at, key) /\ key' = key
      BY <2>1, <2>3, ForwardIsCloser, ReadsKey DEF Forward, IInv
    <3>2. TypeOK'
      BY <2>3, <3>1 DEF IInv, TypeOK, Forward
    <3>3. AnswerOwnsKey'
      BY <1>2, <2>3 DEF Next, AnswerOwnsKey, Forward
    <3>4. /\ at \in Key /\ at' \in Key /\ start \in Key /\ key \in Key
          /\ hops \in Nat
      BY <3>1, RingAssumption DEF IInv, TypeOK
    <3>5. /\ Dist(at, key) \in Int /\ Dist(at', key) \in Int
          /\ Dist(start, key) \in Int
      BY <3>4, RingAssumption, SMT DEF Dist, Key
    <3>6. hops' + Dist(at', key) <= Dist(start, key)
      BY <2>3, <3>1, <3>4, <3>5, SMT DEF IInv, HopBound, Forward
    <3>7. HopBound'
      BY <2>3, <3>1, <3>6 DEF HopBound, Forward, Dist
    <3> QED
      BY <3>2, <3>3, <3>7 DEF IInv
  <2> QED
    BY <2>1, <2>2, <2>3
<1> QED
  BY <1>1, <1>2

THEOREM LookupInvariant == ASSUME Wide PROVE Spec => []IInv
<1>1. IInv /\ [Next]_vars => IInv'
  BY NextIInv
<1> QED
  BY <1>1, InitIInv, PTL DEF Spec

\* The type of the state variables of a lookup, wherever its fingers lead it
\* and whatever is read of its key.
THEOREM LookupType == Spec => []TypeOK
<1>1. Init => TypeOK
  BY DEF Init, TypeOK
<1>2. TypeOK /\ [Next]_vars => TypeOK'
  <2> SUFFICES ASSUME TypeOK, [Next]_vars PROVE TypeOK'
    OBVIOUS
  <2>1. CASE UNCHANGED vars
    BY <2>1 DEF TypeOK, vars
  <2>2. CASE Next
    <3>1. PICK p \in member : \E f \in FingerTables(at, p) : Answer(p, f) \/ Forward(p, f)
      BY <2>2 DEF Next
    <3>2. PICK f \in FingerTables(at, p) : Answer(p, f) \/ Forward(p, f)
      BY <3>1
    <3>3. CASE Answer(p, f)
      <4>1. answer' \in member
        BY <3>3 DEF Answer, Here, TypeOK
      <4> QED
        BY <3>3, <4>1 DEF Answer, TypeOK
    <3>4. CASE Forward(p, f)
      <4>1. at' \in member
        BY <3>4 DEF Forward, Asks, Candidates, FingerTables
      <4>2. key' \in Key
        BY <3>4, ReadKeyType DEF Forward, TypeOK
      <4> QED
        BY <3>4, <4>1, <4>2 DEF Forward, TypeOK
    <3> QED
      BY <3>2, <3>3, <3>4
  <2> QED
    BY <2>1, <2>2
<1> QED
  BY <1>1, <1>2, PTL DEF Spec

\* Where atoi reads back every key, a lookup names the owner of its key or, at
\* the position where the wrapped comparison of findClosestPort is strict, the
\* node just before the owner; or it has to cross position 0 and names a node
\* at the last position that has no finger but itself.
THEOREM LookupRight == ASSUME Wide PROVE Spec => []AnswerOwnsKey
<1>1. IInv => AnswerOwnsKey
  BY DEF IInv
<1> QED
  BY <1>1, LookupInvariant, PTL

\* The hops made and the distance left never exceed the distance at the
\* start: lookups travel one way, visit no node twice and must stop.
THEOREM LookupProgress == ASSUME Wide PROVE Spec => []HopBound
<1>1. IInv => HopBound
  BY DEF IInv
<1> QED
  BY <1>1, LookupInvariant, PTL

-----------------------------------------------------------------------------
(***************************************************************************)
(* How many hops.  First: the nodes no farther from the key than the       *)
(* lookup is become fewer with every hop.                                  *)
(***************************************************************************)
\* The nodes that the lookup may still be at.
Ahead(a) == {m \in member : Dist(m, key) <= Dist(a, key)}

Visits == hops + Cardinality(Ahead(at)) <= Cardinality(member)

LEMMA AheadFinite ==
    ASSUME TypeOK, NEW a \in member
    PROVE  /\ IsFiniteSet(Ahead(a)) /\ Cardinality(Ahead(a)) \in Nat
           /\ Cardinality(Ahead(a)) <= Cardinality(member)
           /\ Cardinality(member) \in Nat
           /\ 1 <= Cardinality(Ahead(a))
<1>1. IsFiniteSet(Key)
  BY RingAssumption, FS_Interval DEF Key
<1>2. IsFiniteSet(member)
  <2>1. member \in SUBSET Key
    BY RingAssumption DEF TypeOK
  <2> QED
    BY <1>1, <2>1, FS_Subset
<1>3. Ahead(a) \in SUBSET member
  BY DEF Ahead
<1>4. /\ IsFiniteSet(Ahead(a))
      /\ Cardinality(Ahead(a)) <= Cardinality(member)
  BY <1>2, <1>3, FS_Subset
<1>5. Cardinality(Ahead(a)) \in Nat /\ Cardinality(member) \in Nat
  BY <1>2, <1>4, FS_CardinalityType
<1>6. a \in Ahead(a)
  <2>1. Dist(a, key) \in Int
    BY PrecedesDist, RingAssumption DEF TypeOK
  <2> QED
    BY <2>1 DEF Ahead
<1>7. Cardinality(Ahead(a)) # 0
  BY <1>4, <1>6, FS_EmptySet
<1> QED
  BY <1>4, <1>5, <1>7

LEMMA FewerAhead ==
    ASSUME TypeOK, NEW q \in member, Dist(q, key) < Dist(at, key)
    PROVE  Cardinality(Ahead(q)) + 1 <= Cardinality(Ahead(at))
<1>1. at \in member /\ key \in Key /\ member \subseteq Key
  BY RingAssumption DEF TypeOK
<1>2. \A m \in member : Dist(m, key) \in Int
  BY <1>1, PrecedesDist
<1>3. Ahead(q) \in SUBSET Ahead(at) /\ at \in Ahead(at) /\ at \notin Ahead(q)
  BY <1>1, <1>2 DEF Ahead
<1>4. /\ IsFiniteSet(Ahead(at))
      /\ Cardinality(Ahead(at)) \in Nat /\ Cardinality(Ahead(q)) \in Nat
  BY <1>1, AheadFinite
<1>5. /\ Cardinality(Ahead(q)) <= Cardinality(Ahead(at))
      /\ Cardinality(Ahead(at)) # Cardinality(Ahead(q))
  BY <1>3, <1>4, FS_Subset
<1> QED
  BY <1>4, <1>5

LEMMA InitVisits == IInv /\ Init => Visits
<1> SUFFICES ASSUME IInv, Init PROVE Visits
  OBVIOUS
<1>1. TypeOK /\ at \in member /\ hops = 0
  BY DEF IInv, Init, TypeOK
<1> QED
  BY <1>1, AheadFinite DEF Visits

LEMMA NextVisits == Wide /\ IInv /\ Visits /\ [Next]_vars => Visits'
<1> SUFFICES ASSUME Wide, IInv, Visits, [Next]_vars PROVE Visits'
  OBVIOUS
<1>1. CASE UNCHANGED <<member, key, at, hops>>
  BY <1>1 DEF Visits, Ahead, Dist
<1>2. ASSUME NEW p \in member, NEW f \in FingerTables(at, p), Forward(p, f) PROVE Visits'
  <2>1. /\ at' \in member /\ Dist(at', key) < Dist(at, key)
        /\ hops' = hops + 1 /\ member' = member /\ key' = key
    BY <1>2, ForwardIsCloser, ReadsKey DEF Forward, IInv
  <2>2. TypeOK /\ hops \in Nat /\ at \in member
    BY DEF IInv, TypeOK
  <2> DEFINE now  == Cardinality(Ahead(at))
             next == Cardinality(Ahead(at'))
             all  == Cardinality(member)
  <2>3. next + 1 <= now
    BY <2>1, <2>2, FewerAhead
  <2>4. now \in Nat /\ next \in Nat /\ all \in Nat
    BY <2>1, <2>2, AheadFinite
  <2>5. hops + now <= all
    BY DEF Visits
  <2>6. {m \in member' : Dist(m, key)' <= Dist(at, key)'} = Ahead(at')
    BY <2>1 DEF Ahead, Dist
  <2>7. Visits' <=> hops' + next <= all
    BY <2>1, <2>6 DEF Visits, Ahead, Dist
  <2> HIDE DEF now, next, all
  <2> QED
    BY <2>1, <2>2, <2>3, <2>4, <2>5, <2>7
<1> QED
  BY <1>1, <1>2 DEF Next, vars, Answer

-----------------------------------------------------------------------------
(***************************************************************************)
(* Second: with fingers up to date, each hop halves the way to the last    *)
(* node before the key, except that one hop may lead to the highest node,  *)
(* by a finger that should name the lowest one.                            *)
(***************************************************************************)
\* A power of two is at least twice any lower one.
LEMMA PowersGrow ==
    /\ \A i \in 0 .. FingerNum : 2^i \in Nat /\ 1 <= 2^i
    /\ \A i \in 0 .. FingerNum : \A j \in 0 .. FingerNum : i < j => 2 * 2^i <= 2^j
<1>1. FingerNum \in Nat \ {0}
  BY RingAssumption
<1>2. ASSUME NEW j \in 1 .. FingerNum PROVE j - 1 \in Finger /\ 2^j = 2 * 2^(j - 1) /\ 2^j \in Nat
  <2>1. j - 1 \in Finger /\ (j - 1) + 1 = j
    BY <1>1 DEF Finger
  <2>2. 2^(j - 1) \in Nat /\ 2^((j - 1) + 1) = 2 * 2^(j - 1)
    BY <2>1, PowerAssumption
  <2>3. 2^j = 2 * 2^(j - 1)
    BY <2>1, <2>2
  <2> QED
    BY <2>1, <2>2, <2>3
<1>3. \A i \in 0 .. FingerNum : 2^i \in Nat
  <2> SUFFICES ASSUME NEW i \in 0 .. FingerNum PROVE 2^i \in Nat
    OBVIOUS
  <2>1. CASE i = 0
    BY <2>1, PowerAssumption
  <2>2. CASE i \in 1 .. FingerNum
    BY <1>2, <2>2
  <2> QED
    BY <1>1, <2>1, <2>2
<1>4. ASSUME NEW i \in 0 .. FingerNum, NEW j \in 0 .. FingerNum, i < j PROVE 2 * 2^i <= 2^j
  <2> DEFINE S == {k \in i + 1 .. FingerNum : ~ (2 * 2^i <= 2^k)}
  <2>1. SUFFICES ASSUME S # {} PROVE FALSE
    <3>1. j \in i + 1 .. FingerNum
      BY <1>1, <1>4
    <3> QED
      BY <3>1
  <2>2. S \in SUBSET Nat
    BY <1>1
  <2> HIDE DEF S
  <2>3. PICK k \in S : \A n \in S : k <= n
    BY <2>1, <2>2, LeastNatural
  <2>4. k \in i + 1 .. FingerNum /\ ~ (2 * 2^i <= 2^k) /\ k \in 1 .. FingerNum
    BY <1>1 DEF S
  <2>5. 2^k = 2 * 2^(k - 1) /\ 2^(k - 1) \in Nat /\ 2^i \in Nat
    BY <1>2, <1>3, <2>4, PowerAssumption
  <2>6. CASE k = i + 1
    <3>1. k - 1 = i
      BY <2>6
    <3>2. 2^k = 2 * 2^i
      BY <2>5, <3>1
    <3> QED
      BY <2>4, <2>5, <3>2
  <2>7. CASE k # i + 1
    <3>1. k - 1 \in i + 1 .. FingerNum
      BY <1>1, <2>4, <2>7
    <3>2. k - 1 \in S => k <= k - 1
      BY <2>3
    <3>3. ~ (k - 1 \in S)
      BY <2>4, <3>2
    <3>4. 2 * 2^i <= 2^(k - 1)
      BY <3>1, <3>3 DEF S
    <3> QED
      BY <2>4, <2>5, <3>4
  <2> QED
    BY <2>6, <2>7
<1>5. ASSUME NEW i \in 0 .. FingerNum PROVE 1 <= 2^i
  <2>1. CASE i = 0
    BY <2>1, PowerAssumption
  <2>2. CASE 0 < i
    <3>1. PICK z \in 0 .. FingerNum : z = 0
      BY <1>1
    <3>2. 2 * 2^z <= 2^i /\ 2^i \in Nat
      BY <1>3, <1>4, <2>2, <3>1
    <3>3. 2^z = 1
      BY <3>1, PowerAssumption
    <3> QED
      BY <3>2, <3>3
  <2> QED
    BY <2>1, <2>2
<1> QED
  BY <1>3, <1>4, <1>5

\* The ring and the additions of the program, where fingers are 2^i apart.
Halving == RingSize = 2^FingerNum /\ Saturates = FALSE /\ Wide

\* The last node between a and the key is nearer than w - 1.
Within(a, w) == \A m \in member : Precedes(a, m, key) => Dist(a, m) + 2 <= w

\* The lowest node is not between a and the key, or comes right after a.
Crossed(a) ==
    \A b \in member : Boundary(member, b) /\ Precedes(a, b, key) => IsSuccessor(member, a, b)

\* After the one hop that need not halve the way, n hops more may follow.
FingerHops ==
    fresh => \E n \in 0 .. FingerNum :
        /\ Within(at, 2^n)
        /\ \/ hops + n = FingerNum
           \/ hops + n = FingerNum + 1 /\ 1 <= n /\ Crossed(at)

\* Fresh fingers are what lookups find now.
LEMMA FingersFound ==
    ASSUME Halving, TypeOK, fresh, NEW p \in member, NEW f \in FingerTables(at, p),
           IsSuccessor(member, at, p), NEW i \in Finger
    PROVE  f[i] \in member /\ Found(member, at, FingerStart(at, i), f[i])
<1> DEFINE h == FingerStart(at, i)
<1>1. member \subseteq Key /\ at \in member /\ at \in Key
  BY RingAssumption DEF TypeOK
<1>2. h \in Key /\ ReadKey(h) = h
  BY <1>1, FingerStartType, ReadsKey DEF Halving
<1>3. /\ f[i] \in member
      /\ f[i] \in Here(at, p, f, h) \/ Found(member, at, ReadKey(h), f[i])
  BY DEF FingerTables
<1>4. Dist(at, h) \in Int
  BY <1>1, <1>2, RingAssumption, SMT DEF Dist, Key
<1> HIDE DEF h
<1>5. ASSUME f[i] \in Here(at, p, f, h) PROVE Found(member, at, h, f[i])
  <2>1. Dist(at, h) <= Dist(at, h)
    BY <1>4
  <2>2. \/ IsOwner(member, h, f[i])
        \/ Boundary(member, h) /\ IsSuccessor(member, f[i], h)
        \/ f[i] = at /\ Stuck(member, at)
    BY <1>1, <1>2, <1>5, HereIsRight
  <2> QED
    BY <2>1, <2>2 DEF Found
<1>6. Found(member, at, h, f[i])
  BY <1>2, <1>3, <1>5
<1> QED
  BY <1>3, <1>6 DEF h

\* A node that is stuck has no finger but itself: finger 0 is, and each of the
\* others is looked up through those before it.
LEMMA StuckStays ==
    ASSUME Halving, TypeOK, fresh, NEW p \in member, NEW f \in FingerTables(at, p),
           IsSuccessor(member, at, p), Stuck(member, at)
    PROVE  \A i \in Finger : f[i] = at
<1>1. member \subseteq Key /\ at \in member /\ at \in Key /\ at = RingSize - 1 /\ 0 \in member
  BY RingAssumption DEF TypeOK, Stuck, Halving
<1>2. p = 0
  <2>1. ~ Between(at, 0, p) /\ p \in Key
    BY <1>1 DEF IsSuccessor
  <2> QED
    BY <1>1, <2>1, RingAssumption, SMT DEF Between, Key
<1>3. f[0] = at
  <2>1. CASE at = 0
    BY <1>2, <2>1, FingerZero
  <2>2. CASE at # 0
    <3>1. 0 \in Finger /\ 2^0 = 1
      BY RingAssumption, PowerAssumption, SMT DEF Finger
    <3>2. (at + 1) % RingSize = 0 /\ ~ (at + 1 < RingSize)
      BY <1>1, RingAssumption, SMT DEF Key
    <3>3. FingerStart(at, 0) = 0
      BY <3>1, <3>2 DEF FingerStart, Halving
    <3>4. translate(p) = 0 /\ ~ OwnedBySuccessor(at, 0, 0)
      BY <1>1, <1>2, <2>2, PortIsKey, SMT DEF OwnedBySuccessor, Key
    <3> QED
      BY <3>3, <3>4 DEF FingerTables, Here
  <2> QED
    BY <2>1, <2>2
<1> DEFINE S == {i \in Finger : f[i] # at}
<1>4. SUFFICES ASSUME S # {} PROVE FALSE
  OBVIOUS
<1>5. S \in SUBSET Nat
  BY RingAssumption DEF Finger
<1> HIDE DEF S
<1>6. PICK i \in S : \A k \in S : i <= k
  BY <1>4, <1>5, LeastNatural
<1>7. i \in Finger /\ f[i] # at /\ i # 0 /\ i \in Nat
  BY <1>3, <1>5, <1>6 DEF S
<1>8. \A m \in member : m # at => at # 0
  BY <1>1, RingAssumption, SMT DEF Key
<1>9. at # 0
  BY <1>7, <1>8 DEF FingerTables
\* Where the fingers from i on are looked up.
<1> DEFINE h(j) == FingerStart(at, j)
<1>10. ASSUME NEW j \in Finger, i <= j, 2^j < RingSize
       PROVE  h(j) = 2^j - 1 /\ 2^i <= 2^j /\ 2 <= 2^i
  <2>0. i \in 0 .. FingerNum /\ j \in 0 .. FingerNum
    BY <1>7, RingAssumption DEF Finger
  <2>1. 2^j \in Nat /\ 1 <= 2^j /\ 2^i \in Nat
    BY <2>0, PowersGrow
  <2>2. PICK z \in 0 .. FingerNum : z = 0
    BY RingAssumption
  <2>3. 2 * 2^z <= 2^i /\ 2^z = 1
    <3>1. z < i
      BY <1>7, <2>0, <2>2
    <3> QED
      BY <2>0, <2>2, <3>1, PowersGrow, PowerAssumption
  <2>4. 2^i <= 2^j
    <3>1. CASE i = j
      BY <2>1, <3>1
    <3>2. CASE i < j
      <4>1. 2 * 2^i <= 2^j
        BY <2>0, <3>2, PowersGrow
      <4> QED
        BY <2>1, <4>1
    <3> QED
      BY <1>10, <2>0, <3>1, <3>2
  <2>5. h(j) = IF at + 2^j < RingSize THEN at + 2^j ELSE (at + 2^j) % RingSize
    BY DEF FingerStart, Halving
  <2>6. ASSUME NEW w \in Nat, 1 <= w, w < RingSize
        PROVE  ~ (at + w < RingSize) /\ (at + w) % RingSize = w - 1
    <3>1. at + w = RingSize + (w - 1) /\ w - 1 \in 0 .. RingSize - 1
      BY <1>1, <2>6, RingAssumption
    <3>2. \A v \in 0 .. RingSize - 1 : (RingSize + v) % RingSize = v
      BY RingAssumption, SMT
    <3> QED
      BY <1>1, <3>1, <3>2, RingAssumption
  <2> QED
    BY <1>10, <2>1, <2>3, <2>4, <2>5, <2>6
<1>11. ASSUME NEW j \in Finger PROVE 2^j < RingSize
  <2>1. 2 * 2^j <= 2^FingerNum /\ 2^j \in Nat /\ 1 <= 2^j
    BY PowersGrow, RingAssumption DEF Finger
  <2> QED
    BY <2>1, RingAssumption DEF Halving
<1>12. h(i) = 2^i - 1 /\ 2 <= 2^i /\ 2^i < RingSize /\ 2^i \in Nat /\ h(i) \in Key
  <2>1. i <= i /\ 2^i \in Nat
    BY <1>7, PowerAssumption
  <2> QED
    BY <1>1, <1>7, <1>10, <1>11, <2>1, FingerStartType
<1>13. ~ OwnedBySuccessor(at, 0, h(i)) /\ translate(p) = 0
  <2>1. ASSUME NEW w \in Nat, w < RingSize, w # 0 PROVE ~ OwnedBySuccessor(at, 0, w - 1)
    <3>1. at \in Int /\ w - 1 \in Nat /\ ~ (w - 1 > at)
      BY <1>1, <2>1, RingAssumption, SMT DEF Key
    <3> QED
      BY <3>1, SMT DEF OwnedBySuccessor
  <2> QED
    BY <1>1, <1>2, <1>12, <2>1, PortIsKey
<1>14. f[i] \notin Here(at, p, f, h(i))
  BY <1>7, <1>13 DEF Here
<1>15. Asks(at, p, f, h(i)) # {}
  BY <1>7, <1>14 DEF FingerTables
<1>16. PICK j \in Candidates(at, f, h(i)) : TRUE
  BY <1>15 DEF Asks
<1>17. j \in Finger /\ f[j] \in member /\ f[j] \in Key /\ Precedes(at, f[j], h(i))
  BY <1>1, <1>16, PortIsKey DEF Candidates, FingerTables
<1>18. f[j] < h(i) /\ f[j] # at
  BY <1>1, <1>12, <1>17, RingAssumption, SMT DEF Precedes, Key
<1>19. i <= j
  BY <1>6, <1>17, <1>18 DEF S
<1>20. h(j) = 2^j - 1 /\ 2^i <= 2^j /\ 2^j < RingSize /\ 2^j \in Nat
  BY <1>10, <1>11, <1>17, <1>19, PowerAssumption
<1>21. Found(member, at, h(j), f[j])
  BY <1>17, FingersFound
<1> HIDE DEF h
<1>22. ~ Stuck(member, f[j])
  BY <1>1, <1>18 DEF Stuck
<1>23. ~ Boundary(member, h(j))
  <2>1. 0 < h(j)
    BY <1>12, <1>20
  <2> QED
    BY <1>1, <1>20, <2>1 DEF Boundary
<1>24. IsOwner(member, h(j), f[j])
  BY <1>21, <1>22, <1>23 DEF Found
<1>25. Dist(h(j), f[j]) <= Dist(h(j), at)
  BY <1>1, <1>24 DEF IsOwner
<1>26. f[j] < h(j) /\ h(j) <= at /\ h(j) \in Key
  BY <1>1, <1>12, <1>17, <1>18, <1>20, RingAssumption, SMT DEF Key
<1> QED
  BY <1>1, <1>17, <1>25, <1>26, RingAssumption, SMT DEF Dist, Key

\* A finger that is no candidate leaves the way to the key short of twice its
\* distance, or it names the node itself and the lowest node is at that distance.
LEMMA NotCandidate ==
    ASSUME Halving, TypeOK, fresh, NEW p \in member, NEW f \in FingerTables(at, p),
           IsSuccessor(member, at, p), ~ Stuck(member, at),
           NEW i \in Finger, ~ Precedes(at, f[i], key),
           NEW m \in member, Precedes(at, m, key), 2^i <= Dist(at, m)
    PROVE  \E b \in member : /\ Boundary(member, b) /\ IsSuccessor(member, at, b)
                             /\ b # at /\ Dist(at, b) = 2^i
<1>1. member \subseteq Key /\ at \in member /\ key \in Key /\ m \in Key
  BY RingAssumption DEF TypeOK
<1>2. 2^i \in Nat /\ 1 <= 2^i
  BY PowersGrow, RingAssumption DEF Finger
<1>3. Dist(at, m) \in 0 .. RingSize - 1
  BY <1>1, PrecedesDist
<1>4. 2^i < RingSize
  BY <1>2, <1>3, RingAssumption
<1> DEFINE s == FingerStart(at, i)
<1>5. s \in Key /\ Dist(at, s) = 2^i
  BY <1>1, <1>4, FingerStartType, FingerStartDist DEF Halving
<1>6. at # s
  BY <1>1, <1>2, <1>5, RingAssumption, SMT DEF Dist, Key
<1>7. f[i] \in member /\ Found(member, at, s, f[i])
  BY FingersFound
<1> HIDE DEF s
<1>8. ~ IsOwner(member, s, f[i])
  BY <1>1, <1>5, <1>6, OwnerFrom
<1>8a. ~ (Stuck(member, f[i]) /\ Dist(f[i], s) <= Dist(at, s))
  <2>1. SUFFICES ASSUME Stuck(member, f[i]), Dist(f[i], s) <= Dist(at, s), f[i] # at
                 PROVE  Precedes(at, f[i], key)
    OBVIOUS
  <2>2. f[i] \in Key /\ Dist(at, s) <= Dist(at, m) /\ Dist(at, m) < Dist(at, key)
    BY <1>1, <1>5, <1>7, PrecedesDist
  <2> QED
    BY <1>1, <1>5, <2>1, <2>2, RingAssumption, SMT DEF Precedes, Dist, Key
<1>9. Boundary(member, s) /\ IsSuccessor(member, f[i], s)
  BY <1>7, <1>8, <1>8a DEF Found
<1>10. s \in member
  BY <1>9 DEF Boundary
<1>11. f[i] = at
  BY <1>1, <1>5, <1>6, <1>7, <1>9, <1>10, PredecessorFrom
<1> QED
  BY <1>5, <1>6, <1>9, <1>10, <1>11

\* A hop goes at least half the way to the last node before the key, or to
\* the node just before the lowest one.
LEMMA ForwardHalves ==
    ASSUME Halving, TypeOK, fresh, NEW p \in member, NEW f \in FingerTables(at, p),
           IsSuccessor(member, at, p), NEW q \in Asks(at, p, f, key)
    PROVE  \/ \E e \in Finger :
                 /\ 2^e <= Dist(at, q)
                 /\ \A m \in member : Precedes(at, m, key) => Dist(at, m) < 2 * 2^e
           \/ \E b \in member : Boundary(member, b) /\ IsSuccessor(member, q, b)
<1>1. member \subseteq Key /\ at \in member /\ key \in Key
  BY RingAssumption DEF TypeOK
<1>2. PICK i \in Candidates(at, f, key) : q = f[i] /\ \A j \in Candidates(at, f, key) : j <= i
  BY DEF Asks
<1>3. i \in Finger /\ q \in member /\ f \in [Finger -> member] /\ Precedes(at, q, key)
  BY <1>1, <1>2, PortIsKey DEF Candidates, FingerTables
<1>3a. ~ Stuck(member, at)
  <2>1. SUFFICES ASSUME Stuck(member, at) PROVE FALSE
    OBVIOUS
  <2>2. q = at
    BY <1>2, <1>3, <2>1, StuckStays
  <2> QED
    BY <1>1, <1>3, <2>2, SMT DEF Precedes, Key
<1>4. ASSUME NEW j \in Finger, i < j PROVE ~ Precedes(at, f[j], key)
  <2>1. f[j] \in Key /\ j \notin Candidates(at, f, key)
    BY <1>1, <1>2, <1>3, <1>4 DEF Finger, Candidates
  <2> QED
    BY <1>4, <2>1, PortIsKey DEF Candidates
<1>5. q # at /\ q \in Key
  BY <1>1, <1>3, PrecedesDist, SMT DEF Precedes
<1>6. ASSUME NEW m \in member, Precedes(at, m, key), NEW j \in Finger, 2 * 2^j <= Dist(at, m)
      PROVE  j + 1 \in Finger /\ 2^(j + 1) = 2 * 2^j
  <2>1. 2^(j + 1) = 2 * 2^j /\ 2^j \in Nat
    BY PowerAssumption
  <2>2. Dist(at, m) < RingSize
    BY <1>1, PrecedesDist, RingAssumption
  <2>3. j + 1 # FingerNum
    <3>1. SUFFICES ASSUME j + 1 = FingerNum PROVE FALSE
      OBVIOUS
    <3>2. 2^(j + 1) = RingSize
      BY <3>1 DEF Halving
    <3> QED
      BY <1>1, <1>6, <2>1, <2>2, <3>2, PrecedesDist, RingAssumption
  <2> QED
    BY <2>1, <2>3, RingAssumption DEF Finger
<1>7. CASE ~ IsOwner(member, FingerStart(at, i), q)
  <2>1. Found(member, at, FingerStart(at, i), q)
    BY <1>2, <1>3, FingersFound
  <2>2. CASE Boundary(member, FingerStart(at, i)) /\ IsSuccessor(member, q, FingerStart(at, i))
    BY <2>2 DEF Boundary
  <2>3. CASE Stuck(member, q)
    <3>1. 0 \in member /\ q = RingSize - 1
      BY <2>3 DEF Stuck, Halving
    <3>2. ASSUME NEW m \in member PROVE 0 <= m /\ ~ Between(q, m, 0)
      <4>1. m \in Key
        BY <1>1
      <4> QED
        BY <3>1, <4>1, RingAssumption, SMT DEF Between, Key
    <3> QED
      BY <3>1, <3>2 DEF Boundary, IsSuccessor
  <2> QED
    BY <1>7, <2>1, <2>2, <2>3 DEF Found
<1>8. CASE IsOwner(member, FingerStart(at, i), q)
  <2>1. 2^i <= Dist(at, q)
    <3>1. 2^i \in Nat /\ 1 <= 2^i
      BY <1>3, PowersGrow, RingAssumption DEF Finger
    <3>2. 2^i < RingSize
      <4>1. 2 * 2^i <= 2^FingerNum
        BY <1>3, PowersGrow, RingAssumption DEF Finger
      <4> QED
        BY <3>1, <4>1, RingAssumption DEF Halving
    <3>3. FingerStart(at, i) \in Key /\ Dist(at, FingerStart(at, i)) = 2^i
      BY <1>1, <1>3, <3>2, FingerStartType, FingerStartDist DEF Halving
    <3>4. at # FingerStart(at, i)
      BY <1>1, <3>1, <3>3, RingAssumption, SMT DEF Dist, Key
    <3> QED
      BY <1>1, <1>5, <1>8, <3>3, <3>4, OwnerFrom
  <2>2. CASE \A m \in member : Precedes(at, m, key) => Dist(at, m) < 2 * 2^i
    BY <1>3, <2>1, <2>2
  <2>3. ASSUME NEW m \in member, Precedes(at, m, key), ~ (Dist(at, m) < 2 * 2^i)
        PROVE  \E e \in Finger :
                 /\ 2^e <= Dist(at, q)
                 /\ \A n \in member : Precedes(at, n, key) => Dist(at, n) < 2 * 2^e
    <3>1. 2 * 2^i <= Dist(at, m)
      <4>1. Dist(at, m) \in Int /\ 2^i \in Nat
        BY <1>1, <1>3, PrecedesDist, PowerAssumption
      <4> QED
        BY <2>3, <4>1
    <3>2. i + 1 \in Finger /\ 2^(i + 1) = 2 * 2^i
      BY <1>3, <1>6, <2>3, <3>1
    <3>3. PICK b \in member : /\ Boundary(member, b) /\ IsSuccessor(member, at, b)
                              /\ b # at /\ Dist(at, b) = 2^(i + 1)
      <4>1. i < i + 1
        BY <1>3 DEF Finger
      <4> QED
        BY <1>3a, <1>4, <2>3, <3>1, <3>2, <4>1, NotCandidate
    <3>4. 2^(i + 1) <= Dist(at, q)
      <4>1. ~ Between(at, q, b) /\ b \in Key /\ at \in Key
        BY <1>1, <1>3, <3>3 DEF IsSuccessor
      <4>2. Dist(at, b) <= Dist(at, q)
        BY <1>5, <3>3, <4>1, RingAssumption, SMT DEF Between, Dist, Key
      <4> QED
        BY <3>3, <4>2
    <3>5. ASSUME NEW n \in member, Precedes(at, n, key), ~ (Dist(at, n) < 2 * 2^(i + 1))
          PROVE  FALSE
      <4>1. 2 * 2^(i + 1) <= Dist(at, n)
        <5>1. Dist(at, n) \in Int /\ 2^(i + 1) \in Nat
          BY <1>1, <3>2, PrecedesDist, PowerAssumption
        <5> QED
          BY <3>5, <5>1
      <4>2. (i + 1) + 1 \in Finger /\ 2^((i + 1) + 1) = 2 * 2^(i + 1)
        BY <1>6, <3>2, <3>5, <4>1
      <4>3. i < (i + 1) + 1
        BY <1>3 DEF Finger
      <4>4. PICK c \in member : Boundary(member, c) /\ Dist(at, c) = 2^((i + 1) + 1)
        BY <1>3a, <1>4, <3>5, <4>1, <4>2, <4>3, NotCandidate
      <4>5. c = b
        BY <1>1, <3>3, <4>4, SMT DEF Boundary, Key
      <4>6. 2^(i + 1) \in Nat /\ 1 <= 2^(i + 1)
        BY <3>2, PowersGrow, RingAssumption DEF Finger
      <4> QED
        BY <3>3, <4>2, <4>4, <4>5, <4>6
    <3> QED
      BY <3>2, <3>4, <3>5
  <2> QED
    BY <2>2, <2>3
<1> QED
  BY <1>7, <1>8

\* The node after which the lowest one comes is the only one.
LEMMA OneBeforeLowest ==
    ASSUME TypeOK, NEW q \in member, Precedes(at, q, key),
           NEW b \in member, IsSuccessor(member, q, b), Crossed(at), Boundary(member, b),
           NEW m \in member, Precedes(q, m, key)
    PROVE  FALSE
<1>1. /\ at \in Key /\ q \in Key /\ b \in Key /\ m \in Key /\ key \in Key
      /\ at \in member
  BY RingAssumption DEF TypeOK
<1>2. ~ Between(q, m, b) /\ ~ Between(q, at, b)
  BY <1>1 DEF IsSuccessor
<1>3. q # at
  BY <1>1, SMT DEF Precedes, Key
<1>4. b # q
  BY <1>1, <1>2, <1>3, SMT DEF Between, Key
<1>5. Precedes(q, b, key)
  BY <1>1, <1>2, <1>4, RingAssumption, SMT DEF Precedes, Between, Key
<1>6. Precedes(at, b, key) /\ Between(at, q, b)
  BY <1>1, <1>5, PrecedesFurther
<1>7. ~ Between(at, q, b)
  BY <1>6 DEF Crossed, IsSuccessor
<1> QED
  BY <1>6, <1>7

LEMMA InitFingerHops == Halving /\ Init => FingerHops
<1> SUFFICES ASSUME Halving, Init PROVE FingerHops
  OBVIOUS
<1>1. member \subseteq Key /\ at \in Key /\ key \in Key /\ hops = 0
  BY RingAssumption DEF Init
<1>2. ASSUME NEW m \in member, Precedes(at, m, key) PROVE Dist(at, m) + 2 <= 2^FingerNum
  <2>1. m \in Key
    BY <1>1
  <2>2. Dist(at, m) < Dist(at, key) /\ Dist(at, m) \in 0 .. RingSize - 1
        /\ Dist(at, key) \in 0 .. RingSize - 1
    BY <1>1, <1>2, <2>1, PrecedesDist
  <2>3. Dist(at, m) + 2 <= RingSize
    BY <2>2, RingAssumption
  <2> QED
    BY <2>3 DEF Halving
<1>3. FingerNum \in 0 .. FingerNum /\ 0 + FingerNum = FingerNum
  BY RingAssumption
<1> QED
  BY <1>1, <1>2, <1>3 DEF FingerHops, Within

\* What FingerHops says of the next node.
LEMMA ForwardFingerHops ==
    ASSUME Halving, TypeOK, fresh, FingerHops, NEW p \in member, NEW f \in FingerTables(at, p),
           IsSuccessor(member, at, p), NEW q \in Asks(at, p, f, key)
    PROVE  \E n \in 0 .. FingerNum :
             /\ Within(q, 2^n)
             /\ \/ (hops + 1) + n = FingerNum
                \/ (hops + 1) + n = FingerNum + 1 /\ 1 <= n /\ Crossed(q)
<1>1. PICK n \in 0 .. FingerNum :
        /\ Within(at, 2^n)
        /\ \/ hops + n = FingerNum
           \/ hops + n = FingerNum + 1 /\ 1 <= n /\ Crossed(at)
  BY DEF FingerHops
<1>2. /\ member \subseteq Key /\ at \in Key /\ key \in Key /\ q \in member /\ q \in Key
      /\ hops \in Nat /\ FingerNum \in Nat
  BY ForwardIsCloser, RingAssumption DEF TypeOK
<1>3. Precedes(at, q, key)
  BY <1>2, PortIsKey DEF Asks, Candidates, FingerTables
<1>4. /\ Dist(at, q) \in Nat /\ 1 <= Dist(at, q) /\ Dist(at, q) + 2 <= 2^n
  <2>1. Dist(at, q) \in 0 .. RingSize - 1 /\ 0 < Dist(at, q)
    BY <1>2, <1>3, PrecedesDist
  <2> QED
    BY <1>1, <1>2, <1>3, <2>1, RingAssumption DEF Within
<1>5. 2 <= n /\ n - 1 \in Finger /\ n - 1 \in 0 .. FingerNum /\ 2^n = 2 * 2^(n - 1)
  <2>1. n # 0
    <3>1. SUFFICES ASSUME n = 0 PROVE FALSE
      OBVIOUS
    <3>2. 2^n = 1
      BY <3>1, PowerAssumption
    <3> QED
      BY <1>4, <3>2
  <2>2. n - 1 \in Finger /\ (n - 1) + 1 = n
    BY <1>2, <2>1 DEF Finger
  <2>3. 2^(n - 1) \in Nat /\ 2^((n - 1) + 1) = 2 * 2^(n - 1)
    BY <2>2, PowerAssumption
  <2>4. 2^n = 2 * 2^(n - 1)
    BY <2>2, <2>3
  <2>5. n # 1
    <3>1. SUFFICES ASSUME n = 1 PROVE FALSE
      OBVIOUS
    <3>2. n - 1 = 0
      BY <3>1
    <3>3. 2^(n - 1) = 1
      BY <3>2, PowerAssumption
    <3> QED
      BY <1>4, <2>4, <3>3
  <2> QED
    BY <1>2, <2>1, <2>2, <2>4, <2>5
<1>6. ASSUME NEW m \in member, Precedes(q, m, key)
      PROVE  /\ Precedes(at, m, key) /\ Dist(at, m) = Dist(at, q) + Dist(q, m)
             /\ Dist(q, m) \in Nat /\ Dist(at, m) + 2 <= 2^n
  <2>1. m \in Key
    BY <1>2
  <2>2. Precedes(at, m, key) /\ Dist(at, m) = Dist(at, q) + Dist(q, m)
    BY <1>2, <1>3, <1>6, <2>1, PrecedesFurther
  <2>3. Dist(q, m) \in Nat
    BY <1>2, <2>1, PrecedesDist, RingAssumption
  <2> QED
    BY <1>1, <2>2, <2>3 DEF Within
<1>7. ASSUME NEW e \in Finger, 2^e <= Dist(at, q),
             \A m \in member : Precedes(at, m, key) => Dist(at, m) < 2 * 2^e
      PROVE  Within(q, 2^(n - 1)) /\ (Crossed(at) => Crossed(q))
  <2>1. ASSUME NEW m \in member, Precedes(q, m, key) PROVE Dist(q, m) + 2 <= 2^(n - 1)
    <3>1. 2^e \in Nat /\ 1 <= 2^e /\ 2^(n - 1) \in Nat /\ e \in 0 .. FingerNum
      BY <1>2, <1>5, PowersGrow DEF Finger
    <3>2. Dist(at, m) < 2 * 2^e
      BY <1>6, <1>7, <2>1
    <3>3. CASE 2^(n - 1) <= 2^e
      BY <1>4, <1>5, <1>6, <1>7, <2>1, <3>1, <3>3
    <3>4. CASE e < n - 1
      <4>1. 2 * 2^e <= 2^(n - 1)
        BY <1>5, <3>1, <3>4, PowersGrow
      <4> QED
        BY <1>4, <1>6, <1>7, <2>1, <3>1, <3>2, <4>1
    <3>5. CASE n - 1 < e
      <4>1. 2 * 2^(n - 1) <= 2^e
        BY <1>5, <3>1, <3>5, PowersGrow
      <4> QED
        BY <3>1, <3>3, <4>1
    <3>6. CASE e = n - 1
      BY <3>1, <3>3, <3>6
    <3> QED
      BY <1>5, <3>1, <3>4, <3>5, <3>6
  <2>2. ASSUME Crossed(at) PROVE Crossed(q)
    <3>1. ASSUME NEW b \in member, Boundary(member, b), Precedes(q, b, key) PROVE FALSE
      <4>1. b \in Key
        BY <1>2
      <4>2. Precedes(at, b, key) /\ Between(at, q, b)
        BY <1>2, <1>3, <3>1, <4>1, PrecedesFurther
      <4> QED
        BY <1>2, <2>2, <3>1, <4>2 DEF Crossed, IsSuccessor
    <3> QED
      BY <3>1 DEF Crossed
  <2> QED
    BY <2>1, <2>2 DEF Within
<1>8. ASSUME NEW b \in member, Boundary(member, b), IsSuccessor(member, q, b),
             hops + n = FingerNum
      PROVE  Within(q, 2^n) /\ Crossed(q)
  <2>1. ASSUME NEW m \in member, Precedes(q, m, key) PROVE Dist(q, m) + 2 <= 2^n
    <3>1. 2^n \in Nat
      BY PowersGrow
    <3> QED
      BY <1>4, <1>6, <2>1, <3>1
  <2>2. ASSUME NEW c \in member, Boundary(member, c) PROVE c = b
    BY <1>2, <1>8, <2>2, SMT DEF Boundary, Key
  <2> QED
    BY <1>8, <2>1, <2>2 DEF Within, Crossed
<1>9. ASSUME NEW b \in member, Boundary(member, b), IsSuccessor(member, q, b), Crossed(at)
      PROVE  Within(q, 2^(n - 1)) /\ Crossed(q)
  <2>1. \A m \in member : ~ Precedes(q, m, key)
    BY <1>2, <1>3, <1>9, OneBeforeLowest
  <2> QED
    BY <2>1 DEF Within, Crossed
<1>10. CASE Within(q, 2^(n - 1)) /\ (Crossed(at) => Crossed(q))
  <2>1. 1 <= n - 1 /\ (hops + 1) + (n - 1) = hops + n
    BY <1>2, <1>5
  <2> QED
    BY <1>1, <1>5, <1>10, <2>1
<1>11. CASE \E b \in member : Boundary(member, b) /\ IsSuccessor(member, q, b)
  <2>1. CASE hops + n = FingerNum
    <3>1. Within(q, 2^n) /\ Crossed(q)
      BY <1>8, <1>11, <2>1
    <3>2. (hops + 1) + n = FingerNum + 1 /\ 1 <= n
      BY <1>2, <1>5, <2>1
    <3> QED
      BY <3>1, <3>2
  <2>2. CASE Crossed(at)
    BY <1>9, <1>10, <1>11, <2>2
  <2> QED
    BY <1>1, <2>1, <2>2
<1> QED
  BY <1>7, <1>10, <1>11, ForwardHalves

LEMMA NextFingerHops == Halving /\ IInv /\ FingerHops /\ [Next]_vars => FingerHops'
<1> SUFFICES ASSUME Halving, IInv, FingerHops, [Next]_vars PROVE FingerHops'
  OBVIOUS
<1>1. CASE UNCHANGED <<member, fresh, key, at, hops>>
  BY <1>1 DEF FingerHops, Within, Crossed, Boundary, IsSuccessor, Dist
<1>2. ASSUME NEW p \in member, NEW f \in FingerTables(at, p), IsSuccessor(member, at, p),
             Forward(p, f)
      PROVE  FingerHops'
  <2>1. CASE ~ fresh
    BY <1>2, <2>1 DEF Forward, FingerHops
  <2>2. CASE fresh
    <3>1. PICK q \in Asks(at, p, f, key) : at' = q
      BY <1>2 DEF Forward
    <3>2. \E n \in 0 .. FingerNum :
             /\ Within(q, 2^n)
             /\ \/ (hops + 1) + n = FingerNum
                \/ (hops + 1) + n = FingerNum + 1 /\ 1 <= n /\ Crossed(q)
      BY <1>2, <2>2, ForwardFingerHops DEF IInv
    <3>3. UNCHANGED <<member, fresh, key>> /\ hops' = hops + 1
      BY <1>2, ReadsKey DEF Forward, Halving
    <3> QED
      BY <3>1, <3>2, <3>3 DEF FingerHops, Within, Crossed, Boundary, IsSuccessor, Dist
  <2> QED
    BY <2>1, <2>2
<1> QED
  BY <1>1, <1>2 DEF Next, vars, Answer

\* A lookup makes fewer hops than there are nodes, and at most one for each
\* finger when they are up to date, on a ring of 2^FingerNum positions where
\* the additions of key and power wrap, as in the program on x86-64.
THEOREM LookupShort == ASSUME Halving PROVE Spec => []FewHops
<1>1. Init => IInv /\ Visits /\ FingerHops
  BY InitIInv, InitVisits, InitFingerHops
<1>2. (IInv /\ Visits /\ FingerHops) /\ [Next]_vars => (IInv /\ Visits /\ FingerHops)'
  BY NextIInv, NextVisits, NextFingerHops DEF Halving
<1>3. IInv /\ Visits /\ FingerHops => FewHops
  <2> SUFFICES ASSUME IInv, Visits, FingerHops PROVE FewHops
    OBVIOUS
  <2>1. TypeOK /\ hops \in Nat /\ at \in member /\ FingerNum \in Nat
    BY RingAssumption DEF IInv, TypeOK
  <2>2. hops < Cardinality(member)
    <3> DEFINE now == Cardinality(Ahead(at))
    <3>1. now \in Nat /\ Cardinality(member) \in Nat /\ 1 <= now
      BY <2>1, AheadFinite
    <3>2. hops + now <= Cardinality(member)
      BY DEF Visits
    <3> HIDE DEF now
    <3> QED
      BY <2>1, <3>1, <3>2
  <2>3. fresh => hops <= FingerNum
    BY <2>1 DEF FingerHops
  <2> QED
    BY <2>2, <2>3 DEF FewHops
<1> QED
  BY <1>1, <1>2, <1>3, PTL DEF Spec
=============================================================================
