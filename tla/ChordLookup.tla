---------------------------- MODULE ChordLookup ----------------------------
(***************************************************************************)
(* One lookup on a ring that has settled: the "find" messages by which     *)
(* findClosestPort of DHT_Chord/chord/chord.c carries a key from node to   *)
(* node.  Every member has its right successor and its finger 0 is what    *)
(* fix_fingers(0) then finds; the other fingers are whatever earlier       *)
(* lookups left, so any member, or if they are fresh what a lookup finds   *)
(* now.  A node's fingers are chosen when the lookup gets there, which is  *)
(* no restriction: no lookup is at a node twice (HopBound).                *)
(* The replies travel back unchanged along the connections.                *)
(***************************************************************************)
EXTENDS ChordRing, FiniteSets

VARIABLES
    member,     \* the nodes on the ring
    fresh,      \* is every finger up to date?
    start,      \* the node that was asked first
    key,        \* the key looked up
    at,         \* the node the lookup has got to
    hops,       \* how many "find" messages carried it there
    answer      \* the port that is sent back
vars == <<member, fresh, start, key, at, hops, answer>>

Init ==
    /\ member \in SUBSET Node \ {{}}
    /\ fresh \in BOOLEAN
    /\ start \in member
    /\ key \in Key
    /\ at = start
    /\ hops = 0
    /\ answer = None

\* The one key that is nobody's by the wrapped test of findClosestPort: the
\* position of the node after the highest one.
Boundary(M, k) == k \in M /\ \A m \in M : k <= m

\* A node at the last position whose finger 0 is looked up at a position that
\* passes no test of findClosestPort: 0, when its successor is there, or its
\* own position.  Its finger 0 is itself.
Stuck(M, n) == n \in M /\ n = RingSize - 1 /\ (0 \in M \/ Saturates)

\* What a lookup of k that starts at a may find on the ring M: its owner or,
\* at the boundary position, the node just before it; or, on the way from a
\* to k, the node that has no way on.
Found(M, a, k, m) ==
    \/ IsOwner(M, k, m)
    \/ Boundary(M, k) /\ IsSuccessor(M, m, k)
    \/ Stuck(M, m) /\ Dist(m, k) <= Dist(a, k)

\* The finger tables node n may have when its successor is p: fix_fingers(0)
\* leaves finger 0 as it is and, if they are fresh, fix_fingers leaves all.
FingerTables(n, p) ==
    {f \in [Finger -> member] :
        /\ f[0] \in Here(n, p, f, FingerStart(n, 0))
        /\ fresh => \A i \in Finger :
             LET h == FingerStart(n, i)
             IN  \/ f[i] \in Here(n, p, f, h)
                 \/ Asks(n, p, f, h) # {} /\ Found(member, n, ReadKey(h), f[i])}

\* findClosestPort answers.
Answer(p, f) ==
    /\ answer' \in Here(at, p, f, key)
    /\ UNCHANGED <<member, fresh, start, key, at, hops>>

\* findClosestPort asks a finger, whose server calls it in turn.
Forward(p, f) ==
    /\ at' \in Asks(at, p, f, key)
    /\ key' = ReadKey(key)
    /\ hops' = hops + 1
    /\ UNCHANGED <<member, fresh, start, answer>>

Next ==
    /\ answer = None
    /\ \E p \in member : \E f \in FingerTables(at, p) :
         /\ IsSuccessor(member, at, p)
         /\ Answer(p, f) \/ Forward(p, f)

Spec     == Init /\ [][Next]_vars
FairSpec == Spec /\ WF_vars(Next)

-----------------------------------------------------------------------------
TypeOK ==
    /\ member \in SUBSET Node
    /\ fresh \in BOOLEAN
    /\ start \in member
    /\ key \in Key
    /\ at \in member
    /\ hops \in Nat
    /\ answer \in member \cup {None}

\* Property.  Whatever stale fingers a lookup meets, the node it names
\* (findClosestPort) owns the key or, at the boundary position, comes just
\* before it; or the key lies beyond a node that is stuck, which names itself.
AnswerOwnsKey ==
    answer # None => Found(member, start, key, answer)

\* Property.  Every hop brings the lookup closer to the key and none passes
\* it, so a lookup is never at a node twice.
HopBound == hops + Dist(at, key) <= Dist(start, key)

\* Property.  No lookup makes as many hops as there are nodes, and with
\* up-to-date fingers there is at most one hop per finger.
FewHops ==
    /\ hops < Cardinality(member)
    /\ fresh => hops <= FingerNum

\* Property.  Every lookup is answered.
Answered == <>(answer # None)
=============================================================================
