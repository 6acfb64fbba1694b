------------------------------- MODULE Cache -------------------------------
(***************************************************************************)
(* The cache of Web Proxy_C/Proxy with Cache (cache.cpp), which the session *)
(* threads of main.cpp share: a map, a list of its keys in the order of    *)
(* their last use, the size of what is in the map, and a recursive mutex.  *)
(* Each action is what a function does between two operations on the mutex *)
(* or, in get, between two uses of the map.                                *)
(*                                                                         *)
(* An element of the list has an address, which a CacheInstance keeps as   *)
(* its iterator and which may be used again once the element is erased.    *)
(* An instance is never deleted: what get returns stays valid.             *)
(***************************************************************************)
EXTENDS Integers, SequencesExt, FiniteSetsExt

CONSTANTS
    Session,    \* the session threads
    Key,        \* host and file of a request
    Value,      \* the responses that may be cached
    Size,       \* getTotSize() of a response
    MaxSize,    \* cacheMaxSize, set before the first session starts
    Address,    \* where a list element may lie
    None        \* nullptr

ASSUME CacheAssumption ==
    /\ Size \in [Value -> Nat]
    /\ MaxSize \in Nat
    /\ None \notin Key \cup Value \cup Session \cup [val : Value, ite : Address]

VARIABLES
    owner, depth,   \* the mutex: who holds it and how often
    memoryMap,      \* key |-> its instance, [val, ite]
    memoryList,     \* [key, at], the least recently used first
    cacheSize,
    pc, arg,        \* of a session, where it is and what it was called with
    result          \* what its last get returned
mutex == <<owner, depth>>
data  == <<memoryMap, memoryList, cacheSize>>
vars  == <<mutex, data, pc, arg, result>>

NoCall == [key |-> None, val |-> None]

Init ==
    /\ owner = None /\ depth = 0
    /\ memoryMap = [k \in Key |-> None]
    /\ memoryList = <<>>
    /\ cacheSize = 0
    /\ pc = [t \in Session |-> "idle"]
    /\ arg = [t \in Session |-> NoCall]
    /\ result = [t \in Session |-> None]

-----------------------------------------------------------------------------
\* pthread_mutex_lock and pthread_mutex_unlock on a recursive mutex.
Lock(t) ==
    /\ owner \in {None, t}
    /\ owner' = t
    /\ depth' = depth + 1
Unlock(t) ==
    /\ owner = t
    /\ depth' = depth - 1
    /\ owner' = IF depth = 1 THEN None ELSE t

Goto(t, l) == pc' = [pc EXCEPT ![t] = l]

\* memoryList.erase(iterator): the element at address a goes.  With an iterator
\* that points at no element the call is undefined; MapMatchesList excludes it.
Erased(a) ==
    LET at == {i \in DOMAIN memoryList : memoryList[i].at = a}
    IN  IF at = {} THEN memoryList
        ELSE RemoveAt(memoryList, CHOOSE i \in at : TRUE)

\* push_back(key): the addresses a new element of list s may get.
FreeIn(s) == {a \in Address : \A i \in DOMAIN s : s[i].at # a}

-----------------------------------------------------------------------------
(***************************************************************************)
(* get(key).                                                               *)
(***************************************************************************)
GetEnter(t, k) ==
    /\ pc[t] = "idle"
    /\ Lock(t)
    /\ arg' = [arg EXCEPT ![t] = [key |-> k, val |-> None]]
    /\ Goto(t, "get_find")
    /\ UNCHANGED <<data, result>>

\* Bug: the early return keeps the mutex.
GetMiss_KeepLock(t) ==
    /\ pc[t] = "get_find"
    /\ memoryMap[arg[t].key] = None
    /\ result' = [result EXCEPT ![t] = None]
    /\ Goto(t, "idle")
    /\ arg' = [arg EXCEPT ![t] = NoCall]
    /\ UNCHANGED <<mutex, data>>

GetMiss(t) ==
    /\ pc[t] = "get_find"
    /\ memoryMap[arg[t].key] = None
    /\ result' = [result EXCEPT ![t] = None]
    /\ Unlock(t)
    /\ Goto(t, "idle")
    /\ arg' = [arg EXCEPT ![t] = NoCall]
    /\ UNCHANGED data

GetHit(t) ==
    /\ pc[t] = "get_find"
    /\ memoryMap[arg[t].key] # None
    /\ Goto(t, "get_move")
    /\ UNCHANGED <<mutex, data, arg, result>>

\* Bugs: the new iterator is not kept; the element is left where it is.
GetMove_KeepIterator(t) ==
    LET k == arg[t].key
        s == Erased(memoryMap[k].ite)
    IN  /\ pc[t] = "get_move"
        /\ \E a \in FreeIn(s) :
             memoryList' = Append(s, [key |-> k, at |-> a])
        /\ result' = [result EXCEPT ![t] = memoryMap[k].val]
        /\ Goto(t, "get_exit")
        /\ UNCHANGED <<mutex, memoryMap, cacheSize, arg>>
GetMove_Stay(t) ==
    /\ pc[t] = "get_move"
    /\ result' = [result EXCEPT ![t] = memoryMap[arg[t].key].val]
    /\ Goto(t, "get_exit")
    /\ UNCHANGED <<mutex, data, arg>>

\* The element of the key moves to the end of the list.
GetMove(t) ==
    LET k == arg[t].key
        s == Erased(memoryMap[k].ite)
    IN  /\ pc[t] = "get_move"
        /\ \E a \in FreeIn(s) :
             /\ memoryList' = Append(s, [key |-> k, at |-> a])
             /\ memoryMap' = [memoryMap EXCEPT ![k].ite = a]
        /\ result' = [result EXCEPT ![t] = memoryMap[k].val]
        /\ Goto(t, "get_exit")
        /\ UNCHANGED <<mutex, cacheSize, arg>>

\* The last unlock of get and of put.
Leave(t) ==
    /\ Unlock(t)
    /\ Goto(t, "idle")
    /\ arg' = [arg EXCEPT ![t] = NoCall]
    /\ UNCHANGED <<data, result>>

GetExit(t) == pc[t] = "get_exit" /\ Leave(t)

-----------------------------------------------------------------------------
(***************************************************************************)
(* put(key, instance) and the two erase functions.                         *)
(***************************************************************************)
PutEnter(t, k, v) ==
    /\ pc[t] = "idle"
    /\ Lock(t)
    /\ arg' = [arg EXCEPT ![t] = [key |-> k, val |-> v]]
    /\ Goto(t, "put_find")
    /\ UNCHANGED <<data, result>>

PutFind(t) ==
    /\ pc[t] = "put_find"
    /\ IF memoryMap[arg[t].key] = None
         THEN Goto(t, "put_insert") /\ UNCHANGED mutex
         ELSE Goto(t, "erase_map") /\ Lock(t)
    /\ UNCHANGED <<data, arg, result>>

\* erase(ite_map): the old instance of the key goes.
EraseMap(t) ==
    LET k == arg[t].key
    IN  /\ pc[t] = "erase_map"
        /\ cacheSize' = cacheSize - Size[memoryMap[k].val]
        /\ memoryList' = Erased(memoryMap[k].ite)
        /\ memoryMap' = [memoryMap EXCEPT ![k] = None]
        /\ Unlock(t)
        /\ Goto(t, "put_insert")
        /\ UNCHANGED <<arg, result>>

PutInsert(t) ==
    LET k == arg[t].key
        v == arg[t].val
    IN  /\ pc[t] = "put_insert"
        /\ \E a \in FreeIn(memoryList) :
             /\ memoryMap' = [memoryMap EXCEPT ![k] = [val |-> v, ite |-> a]]
             /\ memoryList' = Append(memoryList, [key |-> k, at |-> a])
        /\ cacheSize' = cacheSize + Size[v]
        /\ Goto(t, "put_evict")
        /\ UNCHANGED <<mutex, arg, result>>

\* The loop test: over the limit, erase(list.begin()) is called.
Evict(t) ==
    /\ pc[t] = "put_evict"
    /\ cacheSize > MaxSize
    /\ Lock(t)
    /\ Goto(t, "erase_list")
    /\ UNCHANGED <<data, arg, result>>

\* The loop test fails: put returns.
PutExit(t) == pc[t] = "put_evict" /\ cacheSize <= MaxSize /\ Leave(t)

\* Bugs: the size is left; the mutex is not released.
EraseList_KeepSize(t) ==
    /\ pc[t] = "erase_list"
    /\ memoryList' = Tail(memoryList)
    /\ memoryMap' = [memoryMap EXCEPT ![Head(memoryList).key] = None]
    /\ Unlock(t)
    /\ Goto(t, "put_evict")
    /\ UNCHANGED <<cacheSize, arg, result>>
EraseList_KeepLock(t) ==
    LET k == Head(memoryList).key
    IN  /\ pc[t] = "erase_list"
        /\ cacheSize' = cacheSize - Size[memoryMap[k].val]
        /\ memoryList' = Tail(memoryList)
        /\ memoryMap' = [memoryMap EXCEPT ![k] = None]
        /\ Goto(t, "put_evict")
        /\ UNCHANGED <<mutex, arg, result>>

\* erase(ite_list): the instance used longest ago goes.  begin() of an empty
\* list cannot be erased; by Accounted the list is not empty here.
EraseList(t) ==
    LET k == Head(memoryList).key
    IN  /\ pc[t] = "erase_list"
        /\ memoryList # <<>>
        /\ cacheSize' = cacheSize - Size[memoryMap[k].val]
        /\ memoryList' = Tail(memoryList)
        /\ memoryMap' = [memoryMap EXCEPT ![k] = None]
        /\ Unlock(t)
        /\ Goto(t, "put_evict")
        /\ UNCHANGED <<arg, result>>

-----------------------------------------------------------------------------
\* What minion() calls: get for a request, put for a response.
Call(t) == \E k \in Key : GetEnter(t, k) \/ \E v \in Value : PutEnter(t, k, v)

Step(t) ==
    \/ GetMiss(t) \/ GetHit(t) \/ GetMove(t) \/ GetExit(t)
    \/ PutFind(t) \/ EraseMap(t) \/ PutInsert(t)
    \/ Evict(t) \/ EraseList(t) \/ PutExit(t)

Next == \E t \in Session : Call(t) \/ Step(t)

\* A session that is in the cache is scheduled; nobody has to call.
Spec     == Init /\ [][Next]_vars
FairSpec == Spec /\ \A t \in Session : WF_vars(Step(t))

-----------------------------------------------------------------------------
PC == {"idle", "get_find", "get_move", "get_exit", "put_find", "erase_map",
       "put_insert", "put_evict", "erase_list"}
Instance == [val : Value, ite : Address]
Element  == [key : Key, at : Address]

TypeOK ==
    /\ owner \in Session \cup {None}
    /\ depth \in 0 .. 2
    /\ memoryMap \in [Key -> Instance \cup {None}]
    /\ memoryList \in Seq(Element)
    /\ cacheSize \in Int
    /\ pc \in [Session -> PC]
    /\ arg \in [Session -> [key : Key \cup {None}, val : Value \cup {None}]]
    /\ result \in [Session -> Value \cup {None}]

\* Property.  Whatever the threads do, map and list hold the same keys, each
\* once, and the iterator of an instance is where the list has its key, so
\* that every erase of cache.cpp uses a live iterator and finds the key it
\* looks for (the assertion in erase, cache.cpp:41).
MapMatchesList ==
    /\ \A i, j \in DOMAIN memoryList :
         memoryList[i].key = memoryList[j].key => i = j
    /\ \A k \in Key :
         memoryMap[k] # None <=>
           \E i \in DOMAIN memoryList : memoryList[i].key = k
    /\ \A i \in DOMAIN memoryList :
         LET m == memoryMap[memoryList[i].key]
         IN  m # None /\ m.ite = memoryList[i].at

\* Property.  cacheSize is the size of what is in the map, and is within the
\* limit whenever the mutex is free (put); so the loop of put never runs out
\* of elements to erase.
Accounted ==
    LET present == {k \in Key : memoryMap[k] # None}
        size(k) == Size[memoryMap[k].val]
    IN  /\ cacheSize = MapThenSumSet(size, present)
        /\ owner = None => cacheSize <= MaxSize

\* Property.  The mutex is free again and again, so that every get and put
\* ends: put's loop stops, and the functions that call each other with the
\* mutex held do not block on it.
Released == []<>(owner = None)

\* Property.  The cache is an LRU store.  A get takes effect when it finds the
\* key missing or moves it; a put when the old value of its key is gone, since
\* from then to its end no other session can look.
Pairs ==
    [i \in DOMAIN memoryList |->
        [key |-> memoryList[i].key, val |-> memoryMap[memoryList[i].key].val]]
Store == INSTANCE LRUStore WITH entries <- Pairs
In(l) == \E t \in Session : pc[t] = l
Entries ==
    IF In("put_insert") THEN Store!Fitting(Append(Pairs, arg[owner]))
    ELSE IF In("put_evict") \/ In("erase_list") THEN Store!Fitting(Pairs)
    ELSE Pairs
LRU == INSTANCE LRUStore WITH entries <- Entries
ImplementsLRU == LRU!Spec
=============================================================================
