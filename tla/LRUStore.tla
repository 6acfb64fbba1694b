------------------------------ MODULE LRUStore ------------------------------
(***************************************************************************)
(* What the cache of Web Proxy_C/Proxy with Cache promises its sessions: a *)
(* store of key-value pairs that never holds more than MaxSize, makes room *)
(* by dropping what was used longest ago, and does each operation at once. *)
(***************************************************************************)
EXTENDS Integers, SequencesExt

CONSTANTS
    Session,    \* the threads that use the store
    Key, Value, \* requests and the responses that may be stored for them
    Size,       \* the size of a value
    MaxSize,    \* the limit
    None        \* a session's result when there is no value

VARIABLES
    entries,    \* the pairs, the one used longest ago first
    result      \* of a session, what its last Get returned

\* s without the pair of key k, if it has one; it never has two.
Without(s, k) ==
    LET at == {i \in DOMAIN s : s[i].key = k}
    IN  IF at = {} THEN s ELSE RemoveAt(s, CHOOSE i \in at : TRUE)

\* What is left of s when pairs are dropped from the front until it fits.
Total(s) == FoldLeft(LAMBDA n, e : Size[e.val] + n, 0, s)
Fitting(s) ==
    LET fits == {i \in 1 .. Len(s) + 1 : Total(SubSeq(s, i, Len(s))) <= MaxSize}
    IN  SubSeq(s, CHOOSE i \in fits : \A j \in fits : i <= j, Len(s))

Init ==
    /\ entries = <<>>
    /\ result = [t \in Session |-> None]

Get(t, k) ==
    \/ \E i \in DOMAIN entries :
         /\ entries[i].key = k
         /\ entries' = Append(Without(entries, k), entries[i])
         /\ result' = [result EXCEPT ![t] = entries[i].val]
    \/ /\ \A i \in DOMAIN entries : entries[i].key # k
       /\ result' = [result EXCEPT ![t] = None]
       /\ UNCHANGED entries

Put(t, k, v) ==
    /\ entries' = Fitting(Append(Without(entries, k), [key |-> k, val |-> v]))
    /\ UNCHANGED result

Next == \E t \in Session, k \in Key : Get(t, k) \/ \E v \in Value : Put(t, k, v)
Spec == Init /\ [][Next]_<<entries, result>>
=============================================================================
