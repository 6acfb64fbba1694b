----------------------------- MODULE ChordRing -----------------------------
(***************************************************************************)
(* The ring arithmetic of DHT_Chord/chord/chord.c: the comparisons of      *)
(* positions by which a node routes a lookup (findClosestPort), adopts a   *)
(* closer successor (stabilize) and adopts a closer predecessor (notify).  *)
(*                                                                         *)
(* A node is named by its position on the ring.  The program names a node  *)
(* by its port and computes the position as translate(port), a hash that   *)
(* tells the ports in use apart; None is port 0, what a failed call leaves.*)
(***************************************************************************)
EXTENDS Integers

CONSTANTS
    RingSize,   \* TOTAL: the number of positions, 2^32 in the program
    Node,       \* the nodes that may ever run, as positions
    FingerNum,  \* FINGER_NUM: entries of a finger table
    None,       \* port 0
    Key0,       \* what the key field holds beside port 0
    Saturates,  \* does an out-of-range double saturate when made unsigned?
    Narrow      \* has long the width of int?

Key    == 0 .. RingSize - 1
Finger == 0 .. FingerNum - 1

ASSUME RingAssumption ==
    /\ RingSize \in Nat \ {0}
    /\ FingerNum \in Nat \ {0}
    /\ Node \subseteq Key
    /\ None \notin Int
    /\ Key0 \in Key
    /\ Saturates \in BOOLEAN
    /\ Narrow \in BOOLEAN
    /\ Narrow => RingSize > 1

\* What 2^i is, which the provers do not know.
ASSUME PowerAssumption ==
    /\ 2^0 = 1
    /\ \A i \in Finger : 2^i \in Nat /\ 2^(i + 1) = 2 * 2^i

\* translate(port): the hash of a port.
translate(p) == IF p = None THEN Key0 ELSE p

\* fin_tb[i].start, localNode.key + pow(2, i) made unsigned.  Out of range
\* the conversion is undefined: x86-64 wraps round, AArch64 saturates.
FingerStart(n, i) ==
    LET s == n + 2^i
    IN  IF s < RingSize THEN s
        ELSE IF Saturates THEN RingSize - 1
        ELSE s % RingSize

\* A key after "find", printed with %u and read with atoi: (int) strtol(...),
\* which stops at the largest int where long is no wider.
ReadKey(k) ==
    IF Narrow /\ k >= RingSize \div 2 THEN RingSize \div 2 - 1 ELSE k

-----------------------------------------------------------------------------
\* Bug: the wrapped case is forgotten.
OwnedBySuccessor_NoWrap(local, post, h) == h > local /\ h <= post

\* The first two tests of findClosestPort: the key belongs to the successor.
\* The wrapped test is strict where the other one is not.
OwnedBySuccessor(local, post, h) ==
    \/ h > local /\ h <= post
    \/ (h > local \/ h < post) /\ local > post

\* Bug: the second test has the key on the wrong side.
Precedes_Past(local, f, h) ==
    \/ local < f /\ f < h
    \/ h > local /\ f > local
    \/ h < local /\ f < h

\* The test of one finger, at position f, in the scan of findClosestPort.
Precedes(local, f, h) ==
    \/ local < f /\ f < h
    \/ h < local /\ f > local
    \/ h < local /\ f < h

\* The fingers that pass the test; the scan stops at the highest of them.
Candidates(local, fin, h) ==
    { i \in Finger : Precedes(local, translate(fin[i]), h) }

\* Bug: nothing is returned after the loop.
Here_NoReturn(local, post, fin, h) ==
    IF OwnedBySuccessor(local, translate(post), h) THEN {post} ELSE {}

\* findClosestPort when it connects to nobody: the port of the successor, or
\* the node's own port when no finger helps.
Here(local, post, fin, h) ==
    IF OwnedBySuccessor(local, translate(post), h) THEN {post}
    ELSE IF Candidates(local, fin, h) = {} THEN {local}
    ELSE {}

\* Bugs: the loop runs upwards; it names the start of the interval.
Asks_Lowest(local, post, fin, h) ==
    LET C == Candidates(local, fin, h)
    IN  IF OwnedBySuccessor(local, translate(post), h) THEN {}
        ELSE {fin[i] : i \in {k \in C : \A j \in C : k <= j}}
Asks_Start(local, post, fin, h) ==
    LET C == Candidates(local, fin, h)
    IN  IF OwnedBySuccessor(local, translate(post), h) THEN {}
        ELSE {FingerStart(local, i) : i \in {k \in C : \A j \in C : j <= k}}

\* Otherwise the finger it asks: the candidate with the highest index.
Asks(local, post, fin, h) ==
    LET C == Candidates(local, fin, h)
    IN  IF OwnedBySuccessor(local, translate(post), h) THEN {}
        ELSE {fin[i] : i \in {k \in C : \A j \in C : j <= k}}

\* Bug: any other node is adopted.
Adopts_Any(local, post, recv) == recv # local

\* stabilize(): the port the successor named replaces the successor.
Adopts(local, post, recv) ==
    \/ post > local /\ local < recv /\ recv < post
    \/ post < local /\ recv # local /\ (recv > local \/ recv < post)

\* Bug: the sender is not compared with the old predecessor.
CloserPredecessor_Any(local, pre, p) == pre # local /\ p # local

\* The "notify" branch of chordNode, when there is a predecessor.
CloserPredecessor(local, pre, p) ==
    \/ pre > local /\ (p > pre \/ p < local)
    \/ pre < local /\ pre < p /\ p < local

-----------------------------------------------------------------------------
(***************************************************************************)
(* The vocabulary of the properties, not of the code.                      *)
(***************************************************************************)
\* b lies strictly between a and c going clockwise; a to a is a full turn.
Between(a, b, c) ==
    \/ a < b /\ b < c
    \/ c <= a /\ (a < b \/ b < c)

\* How far clockwise b is from a.
Dist(a, b) == IF a <= b THEN b - a ELSE b - a + RingSize

\* p is the first member met clockwise from n, n itself if it is alone.
IsSuccessor(M, n, p) == p \in M /\ \A m \in M : ~ Between(n, m, p)

\* m owns key k: no member lies from k up to m.
IsOwner(M, k, m) == m \in M /\ \A x \in M : Dist(k, m) <= Dist(k, x)
=============================================================================
