---------------------------- MODULE CacheProofs ----------------------------
(***************************************************************************)
(* What holds in Cache for any number of sessions, keys, values and        *)
(* addresses and any limit: one session at a time, map and list agree, the *)
(* size is that of the list, and the cache implements an LRUStore.         *)
(***************************************************************************)
EXTENDS Cache, SequenceTheorems, FiniteSetTheorems, TLAPS

Nested  == {"erase_map", "erase_list"}
Putting == {"put_find", "erase_map", "put_insert", "put_evict", "erase_list"}

\* Only the session that holds the mutex is in the cache, and it holds it as
\* often as it has entered a function that takes it.
MutexOK ==
    /\ \A t \in Session : pc[t] # "idle" <=> owner = t
    /\ depth = IF owner = None THEN 0 ELSE IF pc[owner] \in Nested THEN 2 ELSE 1

\* What a session knows of its arguments and of the map where it stands.
CallOK ==
    \A t \in Session :
        /\ pc[t] # "idle" => arg[t].key \in Key
        /\ pc[t] \in Putting => arg[t].val \in Value
        /\ pc[t] \in {"get_move", "erase_map"} => memoryMap[arg[t].key] # None
        /\ pc[t] = "put_insert" => memoryMap[arg[t].key] = None

\* MapMatchesList, of a map m and a list s.
Matches(m, s) ==
    /\ \A i, j \in DOMAIN s : s[i].key = s[j].key => i = j
    /\ \A k \in Key : m[k] # None <=> \E i \in DOMAIN s : s[i].key = k
    /\ \A i \in DOMAIN s :
         LET e == m[s[i].key] IN e # None /\ e.ite = s[i].at

\* No address is used twice: an iterator points at one element.
Apart(s) == \A i, j \in DOMAIN s : s[i].at = s[j].at => i = j

IInv == TypeOK /\ MutexOK /\ CallOK /\ Matches(memoryMap, memoryList) /\ Apart(memoryList)

\* Map m and list s with an instance of key k put in at address a.
MapWith(m, k, v, a) == [m EXCEPT ![k] = [val |-> v, ite |-> a]]
ListWith(s, k, a)   == Append(s, [key |-> k, at |-> a])

\* r is s without its element i.
IsWithout(r, s, i) ==
    /\ r \in Seq(Element)
    /\ Len(r) = Len(s) - 1
    /\ \A j \in 1 .. Len(r) : r[j] = s[IF j < i THEN j ELSE j + 1]

-----------------------------------------------------------------------------
(***************************************************************************)
(* Maps and lists.                                                         *)
(***************************************************************************)
LEMMA ElementFields ==
    ASSUME NEW s \in Seq(Element), NEW i \in DOMAIN s
    PROVE  s[i] \in Element /\ s[i].key \in Key /\ s[i].at \in Address
<1>1. s[i] \in Element
  BY ElementOfSeq
<1> QED
  BY <1>1 DEF Element

LEMMA TailIsWithout ==
    ASSUME NEW s \in Seq(Element), s # <<>>
    PROVE  IsWithout(Tail(s), s, 1) /\ 1 \in DOMAIN s /\ Head(s) = s[1]
BY DEF IsWithout

LEMMA RemoveAtIsWithout ==
    ASSUME NEW s \in Seq(Element), NEW i \in DOMAIN s
    PROVE  IsWithout(RemoveAt(s, i), s, i)
<1> DEFINE front == SubSeq(s, 1, i - 1)
           back  == SubSeq(s, i + 1, Len(s))
<1>1. i \in 1 .. Len(s) /\ i \in Int /\ Len(s) \in Nat
  OBVIOUS
<1>2. front \in Seq(Element) /\ Len(front) = i - 1 /\ \A j \in 1 .. i - 1 : front[j] = s[j]
  BY <1>1, SubSeqProperties
<1>3. /\ back \in Seq(Element) /\ Len(back) = Len(s) - i
      /\ \A j \in 1 .. Len(s) - i : back[j] = s[i + j]
  BY <1>1, SubSeqProperties
<1>4. RemoveAt(s, i) = front \o back
  BY DEF RemoveAt
<1> HIDE DEF front, back
<1>5. /\ front \o back \in Seq(Element)
      /\ Len(front \o back) = Len(front) + Len(back)
      /\ \A j \in 1 .. Len(front) + Len(back) :
           (front \o back)[j] = IF j <= Len(front) THEN front[j] ELSE back[j - Len(front)]
  BY <1>2, <1>3, ConcatProperties
<1>6. /\ Len(RemoveAt(s, i)) = Len(s) - 1
      /\ RemoveAt(s, i) \in Seq(Element)
  BY <1>1, <1>2, <1>3, <1>4, <1>5
<1>7. ASSUME NEW j \in 1 .. Len(s) - 1
      PROVE  RemoveAt(s, i)[j] = s[IF j < i THEN j ELSE j + 1]
  <2>0. RemoveAt(s, i)[j] = IF j <= i - 1 THEN front[j] ELSE back[j - (i - 1)]
    <3>1. j \in 1 .. Len(front) + Len(back)
      BY <1>1, <1>2, <1>3
    <3>2. (front \o back)[j] = IF j <= Len(front) THEN front[j] ELSE back[j - Len(front)]
      BY <3>1, <1>5
    <3> QED
      BY <3>2, <1>2, <1>4
  <2>1. CASE j < i
    BY <2>0, <2>1, <1>1, <1>2
  <2>2. CASE j >= i
    <3>1. j - (i - 1) \in 1 .. Len(s) - i
      BY <2>2, <1>1
    <3>2. back[j - (i - 1)] = s[i + (j - (i - 1))]
      BY <3>1, <1>3
    <3>3. i + (j - (i - 1)) = j + 1
      BY <1>1
    <3> QED
      BY <2>0, <2>2, <3>2, <3>3, <1>1
  <2> QED
    BY <2>1, <2>2, <1>1
<1> QED
  BY <1>6, <1>7 DEF IsWithout

\* Taking the element of a key out of list and map.
LEMMA MatchesWithout ==
    ASSUME NEW m \in [Key -> Instance \cup {None}], NEW s \in Seq(Element),
           NEW i \in DOMAIN s, NEW r, IsWithout(r, s, i),
           Matches(m, s), Apart(s)
    PROVE  Matches([m EXCEPT ![s[i].key] = None], r) /\ Apart(r)
<1> DEFINE at(j) == IF j < i THEN j ELSE j + 1
           k == s[i].key
           n == [m EXCEPT ![k] = None]
<1>1. \A j \in DOMAIN r : at(j) \in DOMAIN s /\ at(j) # i /\ r[j] = s[at(j)]
  BY DEF IsWithout
<1>2. \A j \in DOMAIN s : j # i => \E h \in DOMAIN r : at(h) = j
  <2> TAKE j \in DOMAIN s
  <2> HAVE j # i
  <2>1. CASE j < i
    BY <2>1 DEF IsWithout
  <2>2. CASE j > i
    <3>1. j - 1 \in DOMAIN r /\ at(j - 1) = j
      BY <2>2 DEF IsWithout
    <3> QED
      BY <3>1
  <2> QED
    BY <2>1, <2>2
<1>3. \A h, j \in DOMAIN r : at(h) = at(j) => h = j
  BY DEF IsWithout
<1> HIDE DEF at
<1>4. k \in Key /\ \A j \in DOMAIN s : s[j].key \in Key
  BY ElementFields
<1>5. \A j \in DOMAIN r : r[j].key # k
  BY <1>1 DEF Matches
<1>6. \A h, j \in DOMAIN r : (r[h].key = r[j].key \/ r[h].at = r[j].at) => h = j
  BY <1>1, <1>3 DEF Matches, Apart
<1>7. \A l \in Key : n[l] # None <=> \E j \in DOMAIN r : r[j].key = l
  BY <1>1, <1>2, <1>4, <1>5 DEF Matches
<1>8. \A j \in DOMAIN r : n[r[j].key] # None /\ n[r[j].key].ite = r[j].at
  BY <1>1, <1>4, <1>5 DEF Matches
<1> QED
  BY <1>6, <1>7, <1>8 DEF Matches, Apart

\* Putting a key that is not there into both.
LEMMA MatchesWith ==
    ASSUME NEW m \in [Key -> Instance \cup {None}], NEW s \in Seq(Element),
           NEW k \in Key, m[k] = None, NEW v \in Value,
           NEW a \in Address, \A i \in DOMAIN s : s[i].at # a,
           Matches(m, s), Apart(s)
    PROVE  /\ Matches(MapWith(m, k, v, a), ListWith(s, k, a))
           /\ Apart(ListWith(s, k, a))
           /\ MapWith(m, k, v, a) \in [Key -> Instance \cup {None}]
           /\ ListWith(s, k, a) \in Seq(Element)
<1> DEFINE n == MapWith(m, k, v, a)
           r == ListWith(s, k, a)
           x == [val |-> v, ite |-> a]
           e == [key |-> k, at |-> a]
           last == Len(s) + 1
<1>0. n = [m EXCEPT ![k] = x] /\ r = Append(s, e)
  BY DEF MapWith, ListWith
<1> HIDE DEF n, r
<1>1. /\ x \in Instance /\ x # None /\ x.ite = a
      /\ e \in Element /\ e.key = k /\ e.at = a
  BY CacheAssumption DEF Instance, Element
<1> HIDE DEF x, e
<1>2. /\ r \in Seq(Element) /\ DOMAIN r = DOMAIN s \cup {last} /\ last \notin DOMAIN s
      /\ r[last] = e /\ \A i \in DOMAIN s : r[i] = s[i]
  BY <1>0, <1>1
<1> HIDE DEF last
<1>3. n \in [Key -> Instance \cup {None}]
  BY <1>0, <1>1
<1>4. n[k] = x /\ \A l \in Key \ {k} : n[l] = m[l]
  BY <1>0
<1>5. \A i \in DOMAIN s : s[i].key \in Key /\ s[i].key # k
  BY ElementFields DEF Matches
<1>6. \A i, j \in DOMAIN r : (r[i].key = r[j].key \/ r[i].at = r[j].at) => i = j
  BY <1>1, <1>2, <1>5 DEF Matches, Apart
<1>7. \A l \in Key : n[l] # None <=> \E j \in DOMAIN r : r[j].key = l
  BY <1>1, <1>2, <1>4, <1>5 DEF Matches
<1>8. \A j \in DOMAIN r : n[r[j].key] # None /\ n[r[j].key].ite = r[j].at
  BY <1>1, <1>2, <1>4, <1>5 DEF Matches
<1>9. Matches(n, r) /\ Apart(r)
  BY <1>6, <1>7, <1>8 DEF Matches, Apart
<1> QED
  BY <1>2, <1>3, <1>9 DEF n, r
-----------------------------------------------------------------------------
(***************************************************************************)
(* The parts of a step that all actions share: the mutex, and where the    *)
(* session is with its arguments.                                          *)
(***************************************************************************)
LEMMA OthersIdle ==
    ASSUME IInv, NEW t \in Session, pc[t] # "idle" \/ owner = None
    PROVE  \A u \in Session : u # t => pc[u] = "idle"
BY CacheAssumption DEF IInv, MutexOK

\* A session enters the cache, or a function that takes the mutex again.
LEMMA LockKeepsMutex ==
    ASSUME IInv, NEW t \in Session, Lock(t), NEW l \in PC, Goto(t, l),
           \/ pc[t] = "idle" /\ l # "idle" /\ l \notin Nested
           \/ pc[t] # "idle" /\ pc[t] \notin Nested /\ l \in Nested
    PROVE  MutexOK' /\ owner' \in Session \cup {None} /\ depth' \in 0 .. 2
BY CacheAssumption DEF IInv, TypeOK, MutexOK, Lock, Goto, Nested

LEMMA UnlockKeepsMutex ==
    ASSUME IInv, NEW t \in Session, Unlock(t), NEW l \in PC, Goto(t, l),
           \/ pc[t] \in Nested /\ l # "idle" /\ l \notin Nested
           \/ pc[t] # "idle" /\ pc[t] \notin Nested /\ l = "idle"
    PROVE  MutexOK' /\ owner' \in Session \cup {None} /\ depth' \in 0 .. 2
BY CacheAssumption DEF IInv, TypeOK, MutexOK, Unlock, Goto, Nested

LEMMA InsideKeepsMutex ==
    ASSUME IInv, NEW t \in Session, UNCHANGED mutex, NEW l \in PC, Goto(t, l),
           pc[t] # "idle", pc[t] \notin Nested, l # "idle", l \notin Nested
    PROVE  MutexOK' /\ owner' \in Session \cup {None} /\ depth' \in 0 .. 2
BY CacheAssumption DEF IInv, TypeOK, MutexOK, Goto, Nested, mutex

\* What session t has to know where it goes; the others are idle.
LEMMA GotoKeepsCall ==
    ASSUME IInv, NEW t \in Session, \A u \in Session : u # t => pc[u] = "idle",
           NEW l \in PC, Goto(t, l),
           NEW a \in [key : Key \cup {None}, val : Value \cup {None}],
           arg' = [arg EXCEPT ![t] = a],
           l # "idle" => a.key \in Key,
           l \in Putting => a.val \in Value,
           l \in {"get_move", "erase_map"} => memoryMap'[a.key] # None,
           l = "put_insert" => memoryMap'[a.key] = None
    PROVE  /\ CallOK'
           /\ pc' \in [Session -> PC]
           /\ arg' \in [Session -> [key : Key \cup {None}, val : Value \cup {None}]]
<1>1. /\ pc' \in [Session -> PC]
      /\ arg' \in [Session -> [key : Key \cup {None}, val : Value \cup {None}]]
  BY DEF IInv, TypeOK, Goto
<1>2. /\ pc'[t] = l /\ arg'[t] = a
      /\ \A u \in Session : u # t => pc'[u] = "idle"
  BY DEF IInv, TypeOK, Goto
<1>3. CallOK'
  BY <1>2 DEF CallOK, Putting
<1> QED
  BY <1>1, <1>3

\* memoryList.erase(iterator) takes the element of the instance's key.
LEMMA ErasedIsWithout ==
    ASSUME IInv, NEW k \in Key, memoryMap[k] # None
    PROVE  \E i \in DOMAIN memoryList :
             /\ memoryList[i].key = k
             /\ IsWithout(Erased(memoryMap[k].ite), memoryList, i)
<1> DEFINE a == memoryMap[k].ite
<1>1. memoryList \in Seq(Element)
  BY DEF IInv, TypeOK
<1>2. PICK i \in DOMAIN memoryList : memoryList[i].key = k
  BY DEF IInv, Matches
<1>3. memoryList[i].at = a
  BY <1>2 DEF IInv, Matches
<1>4. {j \in DOMAIN memoryList : memoryList[j].at = a} = {i}
  BY <1>3 DEF IInv, Apart
<1>5. Erased(a) = RemoveAt(memoryList, i)
  BY <1>4 DEF Erased
<1>6. IsWithout(RemoveAt(memoryList, i), memoryList, i)
  BY <1>1, RemoveAtIsWithout
<1> QED
  BY <1>2, <1>5, <1>6

LEMMA MapType ==
    ASSUME IInv, NEW k \in Key, memoryMap[k] # None
    PROVE  memoryMap[k] \in Instance /\ memoryMap[k].val \in Value
BY DEF IInv, TypeOK, Instance

-----------------------------------------------------------------------------
(***************************************************************************)
(* get.                                                                    *)
(***************************************************************************)
LEMMA GetInv ==
    ASSUME IInv, NEW t \in Session,
           (\E k \in Key : GetEnter(t, k)) \/ GetMiss(t) \/ GetHit(t) \/ GetExit(t)
    PROVE  IInv'
<1> DEFINE Same == [arg EXCEPT ![t] = arg[t]]
<1>1. /\ arg' = Same \/ (\E k \in Key : arg' = [arg EXCEPT ![t] = [key |-> k, val |-> None]])
         \/ arg' = [arg EXCEPT ![t] = NoCall]
      /\ UNCHANGED data
  BY DEF GetEnter, GetMiss, GetHit, GetExit, Leave, IInv, TypeOK
<1>2. result' \in [Session -> Value \cup {None}]
  BY DEF GetEnter, GetMiss, GetHit, GetExit, Leave, IInv, TypeOK
<1>3. Matches(memoryMap, memoryList)' /\ Apart(memoryList)'
  BY <1>1 DEF data, IInv, Matches, Apart
<1>4. CASE \E k \in Key : GetEnter(t, k)
  <2>1. PICK k \in Key : GetEnter(t, k)
    BY <1>4
  <2> DEFINE a == [key |-> k, val |-> None]
  <2>2. owner = None
    BY <2>1 DEF GetEnter, Lock, IInv, MutexOK
  <2>3. MutexOK' /\ owner' \in Session \cup {None} /\ depth' \in 0 .. 2
    BY <2>1, LockKeepsMutex DEF GetEnter, PC, Nested
  <2>4. /\ a \in [key : Key \cup {None}, val : Value \cup {None}]
        /\ arg' = [arg EXCEPT ![t] = a] /\ Goto(t, "get_find")
    BY <2>1 DEF GetEnter
  <2>5. /\ CallOK' /\ pc' \in [Session -> PC]
        /\ arg' \in [Session -> [key : Key \cup {None}, val : Value \cup {None}]]
    BY <2>2, <2>4, OthersIdle, GotoKeepsCall DEF PC, Putting
  <2> QED
    BY <1>1, <1>2, <1>3, <2>3, <2>5 DEF IInv, TypeOK, data
<1>5. CASE GetMiss(t) \/ GetExit(t)
  <2>1. /\ pc[t] # "idle" /\ pc[t] \notin Nested
        /\ Unlock(t) /\ Goto(t, "idle") /\ arg' = [arg EXCEPT ![t] = NoCall]
    BY <1>5 DEF GetMiss, GetExit, Leave, Nested
  <2>2. MutexOK' /\ owner' \in Session \cup {None} /\ depth' \in 0 .. 2
    BY <2>1, UnlockKeepsMutex DEF PC
  <2>3. NoCall \in [key : Key \cup {None}, val : Value \cup {None}]
    BY DEF NoCall
  <2>4. /\ CallOK' /\ pc' \in [Session -> PC]
        /\ arg' \in [Session -> [key : Key \cup {None}, val : Value \cup {None}]]
    BY <2>1, <2>3, OthersIdle, GotoKeepsCall DEF PC, Putting
  <2> QED
    BY <1>1, <1>2, <1>3, <2>2, <2>4 DEF IInv, TypeOK, data
<1>6. CASE GetHit(t)
  <2>1. /\ pc[t] = "get_find" /\ Goto(t, "get_move") /\ UNCHANGED mutex
        /\ memoryMap'[arg[t].key] # None /\ arg' = Same
    BY <1>6 DEF GetHit, data, IInv, TypeOK
  <2>2. MutexOK' /\ owner' \in Session \cup {None} /\ depth' \in 0 .. 2
    BY <2>1, InsideKeepsMutex DEF PC, Nested
  <2>3. arg[t] \in [key : Key \cup {None}, val : Value \cup {None}] /\ arg[t].key \in Key
    BY <2>1 DEF IInv, TypeOK, CallOK
  <2>4. /\ CallOK' /\ pc' \in [Session -> PC]
        /\ arg' \in [Session -> [key : Key \cup {None}, val : Value \cup {None}]]
    BY <2>1, <2>3, OthersIdle, GotoKeepsCall DEF PC, Putting
  <2> QED
    BY <1>1, <1>2, <1>3, <2>2, <2>4 DEF IInv, TypeOK, data
<1> QED
  BY <1>4, <1>5, <1>6

LEMMA GetMoveInv ==
    ASSUME IInv, NEW t \in Session, GetMove(t)
    PROVE  IInv'
<1> DEFINE k == arg[t].key
           v == memoryMap[k].val
           s == Erased(memoryMap[k].ite)
           m == [memoryMap EXCEPT ![k] = None]
<1>1. /\ k \in Key /\ memoryMap[k] # None
      /\ arg[t] \in [key : Key \cup {None}, val : Value \cup {None}]
  BY DEF GetMove, IInv, CallOK, TypeOK
<1>2. memoryMap[k] \in Instance /\ v \in Value
  BY <1>1, MapType
<1>3. PICK i \in DOMAIN memoryList : memoryList[i].key = k /\ IsWithout(s, memoryList, i)
  BY <1>1, ErasedIsWithout
<1>4. s \in Seq(Element) /\ Matches(m, s) /\ Apart(s)
  <2>1. /\ memoryMap \in [Key -> Instance \cup {None}] /\ memoryList \in Seq(Element)
        /\ Matches(memoryMap, memoryList) /\ Apart(memoryList)
    BY DEF IInv, TypeOK
  <2> HIDE DEF s
  <2> QED
    BY <1>3, <2>1, MatchesWithout DEF IsWithout
<1>5. PICK a \in Address : /\ a \in FreeIn(s)
                           /\ memoryList' = ListWith(s, k, a)
                           /\ memoryMap' = [memoryMap EXCEPT ![k].ite = a]
  BY DEF GetMove, FreeIn, ListWith
<1>6. /\ m \in [Key -> Instance \cup {None}] /\ m[k] = None
      /\ \A j \in DOMAIN s : s[j].at # a
  BY <1>1, <1>5 DEF IInv, TypeOK, FreeIn
<1>7. memoryMap' = MapWith(m, k, v, a)
  <2>1. [memoryMap[k] EXCEPT !.ite = a] = [val |-> v, ite |-> a]
    BY <1>2 DEF Instance
  <2> QED
    BY <1>1, <1>5, <2>1 DEF IInv, TypeOK, MapWith
<1> HIDE DEF m, s
<1>8. /\ Matches(memoryMap', memoryList') /\ Apart(memoryList')
      /\ memoryMap' \in [Key -> Instance \cup {None}] /\ memoryList' \in Seq(Element)
  <2>1. memoryList' = ListWith(s, k, a)
    BY <1>5
  <2> HIDE DEF k, v
  <2>2. /\ Matches(MapWith(m, k, v, a), ListWith(s, k, a)) /\ Apart(ListWith(s, k, a))
        /\ MapWith(m, k, v, a) \in [Key -> Instance \cup {None}]
        /\ ListWith(s, k, a) \in Seq(Element)
    BY <1>1, <1>2, <1>4, <1>6, MatchesWith
  <2> QED
    BY <1>7, <2>1, <2>2
<1>9. /\ pc[t] = "get_move" /\ Goto(t, "get_exit") /\ UNCHANGED mutex
      /\ arg' = [arg EXCEPT ![t] = arg[t]]
      /\ result' = [result EXCEPT ![t] = v] /\ UNCHANGED cacheSize
  BY DEF GetMove, IInv, TypeOK
<1>10. MutexOK' /\ owner' \in Session \cup {None} /\ depth' \in 0 .. 2
  BY <1>9, InsideKeepsMutex DEF PC, Nested
<1>11. /\ CallOK' /\ pc' \in [Session -> PC]
       /\ arg' \in [Session -> [key : Key \cup {None}, val : Value \cup {None}]]
  BY <1>1, <1>9, OthersIdle, GotoKeepsCall DEF PC, Putting
<1> QED
  BY <1>2, <1>8, <1>9, <1>10, <1>11 DEF IInv, TypeOK

-----------------------------------------------------------------------------
(***************************************************************************)
(* put and erase.                                                          *)
(***************************************************************************)
LEMMA PutInv ==
    ASSUME IInv, NEW t \in Session,
           \/ \E k \in Key, v \in Value : PutEnter(t, k, v)
           \/ PutFind(t) \/ Evict(t) \/ PutExit(t)
    PROVE  IInv'
<1>1. UNCHANGED <<data, result>>
  BY DEF PutEnter, PutFind, Evict, PutExit, Leave
<1>2. Matches(memoryMap, memoryList)' /\ Apart(memoryList)'
  BY <1>1 DEF data, IInv, Matches, Apart
<1>3. SUFFICES /\ MutexOK' /\ owner' \in Session \cup {None} /\ depth' \in 0 .. 2
               /\ CallOK' /\ pc' \in [Session -> PC]
               /\ arg' \in [Session -> [key : Key \cup {None}, val : Value \cup {None}]]
  BY <1>1, <1>2 DEF IInv, TypeOK, data
<1>4. /\ arg[t] \in [key : Key \cup {None}, val : Value \cup {None}]
      /\ arg = [arg EXCEPT ![t] = arg[t]]
      /\ pc[t] \in Putting => arg[t].key \in Key /\ arg[t].val \in Value
  BY DEF IInv, TypeOK, CallOK, Putting
<1>5. CASE \E k \in Key, v \in Value : PutEnter(t, k, v)
  <2>1. PICK k \in Key, v \in Value : PutEnter(t, k, v)
    BY <1>5
  <2> DEFINE a == [key |-> k, val |-> v]
  <2>2. owner = None
    BY <2>1 DEF PutEnter, Lock, IInv, MutexOK
  <2>3. MutexOK' /\ owner' \in Session \cup {None} /\ depth' \in 0 .. 2
    BY <2>1, LockKeepsMutex DEF PutEnter, PC, Nested
  <2>4. /\ a \in [key : Key \cup {None}, val : Value \cup {None}]
        /\ arg' = [arg EXCEPT ![t] = a] /\ Goto(t, "put_find")
    BY <2>1 DEF PutEnter
  <2> QED
    BY <2>2, <2>3, <2>4, OthersIdle, GotoKeepsCall DEF PC, Putting
<1>6. CASE PutFind(t)
  <2>1. /\ pc[t] = "put_find" /\ arg' = [arg EXCEPT ![t] = arg[t]]
    BY <1>4, <1>6 DEF PutFind
  <2>2. CASE memoryMap[arg[t].key] = None
    <3>1. /\ Goto(t, "put_insert") /\ UNCHANGED mutex
          /\ memoryMap'[arg[t].key] = None
      BY <1>1, <1>6, <2>2 DEF PutFind, data
    <3>2. MutexOK' /\ owner' \in Session \cup {None} /\ depth' \in 0 .. 2
      BY <2>1, <3>1, InsideKeepsMutex DEF PC, Nested
    <3> QED
      BY <1>4, <2>1, <3>1, <3>2, OthersIdle, GotoKeepsCall DEF PC, Putting
  <2>3. CASE memoryMap[arg[t].key] # None
    <3>1. /\ Goto(t, "erase_map") /\ Lock(t)
          /\ memoryMap'[arg[t].key] # None
      BY <1>1, <1>6, <2>3 DEF PutFind, data
    <3>2. MutexOK' /\ owner' \in Session \cup {None} /\ depth' \in 0 .. 2
      BY <2>1, <3>1, LockKeepsMutex DEF PC, Nested
    <3> QED
      BY <1>4, <2>1, <3>1, <3>2, OthersIdle, GotoKeepsCall DEF PC, Putting
  <2> QED
    BY <2>2, <2>3
<1>7. CASE Evict(t)
  <2>1. /\ pc[t] = "put_evict" /\ Goto(t, "erase_list") /\ Lock(t)
        /\ arg' = [arg EXCEPT ![t] = arg[t]]
    BY <1>4, <1>7 DEF Evict
  <2>2. MutexOK' /\ owner' \in Session \cup {None} /\ depth' \in 0 .. 2
    BY <2>1, LockKeepsMutex DEF PC, Nested
  <2> QED
    BY <1>4, <2>1, <2>2, OthersIdle, GotoKeepsCall DEF PC, Putting
<1>8. CASE PutExit(t)
  <2>1. /\ pc[t] = "put_evict" /\ Goto(t, "idle") /\ Unlock(t)
        /\ arg' = [arg EXCEPT ![t] = NoCall]
    BY <1>8 DEF PutExit, Leave
  <2>2. MutexOK' /\ owner' \in Session \cup {None} /\ depth' \in 0 .. 2
    BY <2>1, UnlockKeepsMutex DEF PC, Nested
  <2>3. NoCall \in [key : Key \cup {None}, val : Value \cup {None}]
    BY DEF NoCall
  <2> QED
    BY <2>1, <2>2, <2>3, OthersIdle, GotoKeepsCall DEF PC, Putting
<1> QED
  BY <1>5, <1>6, <1>7, <1>8

LEMMA PutInsertInv ==
    ASSUME IInv, NEW t \in Session, PutInsert(t)
    PROVE  IInv'
<1> DEFINE k == arg[t].key
           v == arg[t].val
<1>1. /\ k \in Key /\ v \in Value /\ memoryMap[k] = None
      /\ arg[t] \in [key : Key \cup {None}, val : Value \cup {None}]
  BY DEF PutInsert, IInv, CallOK, TypeOK, Putting
<1>2. PICK a \in Address :
        /\ a \in FreeIn(memoryList)
        /\ memoryMap' = MapWith(memoryMap, k, v, a)
        /\ memoryList' = ListWith(memoryList, k, a)
  BY DEF PutInsert, FreeIn, MapWith, ListWith
<1>3. \A j \in DOMAIN memoryList : memoryList[j].at # a
  BY <1>2 DEF FreeIn
<1>4. /\ Matches(memoryMap', memoryList') /\ Apart(memoryList')
      /\ memoryMap' \in [Key -> Instance \cup {None}] /\ memoryList' \in Seq(Element)
  <2>1. /\ memoryMap \in [Key -> Instance \cup {None}] /\ memoryList \in Seq(Element)
        /\ Matches(memoryMap, memoryList) /\ Apart(memoryList)
    BY DEF IInv, TypeOK
  <2> HIDE DEF k, v
  <2> QED
    BY <1>1, <1>2, <1>3, <2>1, MatchesWith
<1>5. /\ pc[t] = "put_insert" /\ Goto(t, "put_evict") /\ UNCHANGED mutex
      /\ arg' = [arg EXCEPT ![t] = arg[t]]
      /\ UNCHANGED result /\ cacheSize' = cacheSize + Size[v]
  BY DEF PutInsert, IInv, TypeOK
<1>6. cacheSize' \in Int
  BY <1>1, <1>5, CacheAssumption DEF IInv, TypeOK
<1>7. MutexOK' /\ owner' \in Session \cup {None} /\ depth' \in 0 .. 2
  BY <1>5, InsideKeepsMutex DEF PC, Nested
<1>8. /\ CallOK' /\ pc' \in [Session -> PC]
      /\ arg' \in [Session -> [key : Key \cup {None}, val : Value \cup {None}]]
  BY <1>1, <1>5, OthersIdle, GotoKeepsCall DEF PC, Putting
<1> QED
  BY <1>4, <1>5, <1>6, <1>7, <1>8 DEF IInv, TypeOK

LEMMA EraseMapInv ==
    ASSUME IInv, NEW t \in Session, EraseMap(t)
    PROVE  IInv'
<1> DEFINE k == arg[t].key
           s == Erased(memoryMap[k].ite)
           m == [memoryMap EXCEPT ![k] = None]
<1>1. /\ k \in Key /\ arg[t].val \in Value /\ memoryMap[k] # None
      /\ arg[t] \in [key : Key \cup {None}, val : Value \cup {None}]
  BY DEF EraseMap, IInv, CallOK, TypeOK, Putting
<1>2. memoryMap[k].val \in Value
  BY <1>1, MapType
<1>3. PICK i \in DOMAIN memoryList : memoryList[i].key = k /\ IsWithout(s, memoryList, i)
  BY <1>1, ErasedIsWithout
<1>4. /\ s \in Seq(Element) /\ Matches(m, s) /\ Apart(s)
      /\ m \in [Key -> Instance \cup {None}] /\ m[k] = None
  <2>1. /\ memoryMap \in [Key -> Instance \cup {None}] /\ memoryList \in Seq(Element)
        /\ Matches(memoryMap, memoryList) /\ Apart(memoryList)
    BY DEF IInv, TypeOK
  <2>2. m \in [Key -> Instance \cup {None}] /\ m[k] = None
    BY <1>1, <2>1
  <2> HIDE DEF s
  <2>3. s \in Seq(Element) /\ Matches(m, s) /\ Apart(s)
    BY <1>3, <2>1, MatchesWithout DEF IsWithout
  <2> QED
    BY <2>2, <2>3
<1>5. /\ pc[t] = "erase_map" /\ Goto(t, "put_insert") /\ Unlock(t)
      /\ arg' = [arg EXCEPT ![t] = arg[t]] /\ memoryMap' = m /\ memoryList' = s
      /\ UNCHANGED result /\ cacheSize' = cacheSize - Size[memoryMap[k].val]
  BY DEF EraseMap, IInv, TypeOK
<1>6. cacheSize' \in Int
  BY <1>2, <1>5, CacheAssumption DEF IInv, TypeOK
<1>7. MutexOK' /\ owner' \in Session \cup {None} /\ depth' \in 0 .. 2
  BY <1>5, UnlockKeepsMutex DEF PC, Nested
<1> HIDE DEF m, s
<1>8. /\ CallOK' /\ pc' \in [Session -> PC]
      /\ arg' \in [Session -> [key : Key \cup {None}, val : Value \cup {None}]]
  BY <1>1, <1>4, <1>5, OthersIdle, GotoKeepsCall DEF PC, Putting
<1> QED
  BY <1>4, <1>5, <1>6, <1>7, <1>8 DEF IInv, TypeOK

LEMMA EraseListInv ==
    ASSUME IInv, NEW t \in Session, EraseList(t)
    PROVE  IInv'
<1> DEFINE k == Head(memoryList).key
           s == Tail(memoryList)
           m == [memoryMap EXCEPT ![k] = None]
<1>1. memoryList \in Seq(Element) /\ memoryList # <<>>
  BY DEF EraseList, IInv, TypeOK
<1>2. 1 \in DOMAIN memoryList /\ Head(memoryList) = memoryList[1] /\ IsWithout(s, memoryList, 1)
  BY <1>1, TailIsWithout
<1>3. k \in Key /\ memoryMap[k] # None
  BY <1>1, <1>2, ElementFields DEF IInv, Matches
<1>4. memoryMap[k].val \in Value
  BY <1>3, MapType
<1>5. /\ s \in Seq(Element) /\ Matches(m, s) /\ Apart(s)
      /\ m \in [Key -> Instance \cup {None}]
  BY <1>2, <1>3, MatchesWithout DEF IInv, TypeOK, IsWithout
<1>6. /\ pc[t] = "erase_list" /\ Goto(t, "put_evict") /\ Unlock(t)
      /\ arg' = [arg EXCEPT ![t] = arg[t]] /\ memoryMap' = m /\ memoryList' = s
      /\ UNCHANGED result /\ cacheSize' = cacheSize - Size[memoryMap[k].val]
  BY DEF EraseList, IInv, TypeOK
<1>7. cacheSize' \in Int
  BY <1>4, <1>6, CacheAssumption DEF IInv, TypeOK
<1>8. MutexOK' /\ owner' \in Session \cup {None} /\ depth' \in 0 .. 2
  BY <1>6, UnlockKeepsMutex DEF PC, Nested
<1>9. /\ arg[t].key \in Key /\ arg[t].val \in Value
      /\ arg[t] \in [key : Key \cup {None}, val : Value \cup {None}]
  BY <1>6 DEF IInv, CallOK, TypeOK, Putting
<1>10. /\ CallOK' /\ pc' \in [Session -> PC]
       /\ arg' \in [Session -> [key : Key \cup {None}, val : Value \cup {None}]]
  BY <1>6, <1>9, OthersIdle, GotoKeepsCall DEF PC, Putting
<1> QED
  BY <1>5, <1>6, <1>7, <1>8, <1>10 DEF IInv, TypeOK

-----------------------------------------------------------------------------
(***************************************************************************)
(* The theorems.                                                           *)
(***************************************************************************)
LEMMA InitInv == Init => IInv
BY CacheAssumption DEF Init, IInv, TypeOK, MutexOK, CallOK, Matches, Apart, NoCall, PC, Putting, Nested

LEMMA StepInv == IInv /\ [Next]_vars => IInv'
<1> SUFFICES ASSUME IInv, [Next]_vars PROVE IInv'
  OBVIOUS
<1>1. CASE Next
  <2>1. PICK t \in Session : Call(t) \/ Step(t)
    BY <1>1 DEF Next
  <2>2. CASE (\E k \in Key : GetEnter(t, k)) \/ GetMiss(t) \/ GetHit(t) \/ GetExit(t)
    BY <2>2, GetInv
  <2>3. CASE \/ \E k \in Key, v \in Value : PutEnter(t, k, v)
             \/ PutFind(t) \/ Evict(t) \/ PutExit(t)
    BY <2>3, PutInv
  <2>4. CASE GetMove(t) \/ PutInsert(t) \/ EraseMap(t) \/ EraseList(t)
    BY <2>4, GetMoveInv, PutInsertInv, EraseMapInv, EraseListInv
  <2> QED
    BY <2>1, <2>2, <2>3, <2>4 DEF Call, Step
<1>2. CASE UNCHANGED vars
  BY <1>2 DEF vars, mutex, data, IInv, TypeOK, MutexOK, CallOK, Matches, Apart
<1> QED
  BY <1>1, <1>2

\* Theorem.  Types, the nesting of the mutex at most 2 deep, only the holder
\* of the mutex in the cache, and the agreement of map and list.
THEOREM CacheInv == Spec => []IInv
BY InitInv, StepInv, PTL DEF Spec

\* Theorem.  The mutex is taken at most twice by its holder, which gives it
\* back as often; keys, instances and iterators stay what they are.
THEOREM CacheType == Spec => []TypeOK
<1>1. IInv => TypeOK
  BY DEF IInv
<1> QED
  BY <1>1, CacheInv, PTL

\* Theorem.  No session is in get, put or erase while another one is.
THEOREM MutualExclusion ==
    Spec => [](\A t, u \in Session : pc[t] # "idle" /\ pc[u] # "idle" => t = u)
<1>1. IInv => \A t, u \in Session : pc[t] # "idle" /\ pc[u] # "idle" => t = u
  BY CacheAssumption DEF IInv, MutexOK
<1> QED
  BY <1>1, CacheInv, PTL

\* Theorem.  After any operations of any sessions the map and the list hold
\* the same keys and every instance's iterator points at its own key, so no
\* erase of cache.cpp uses a dead iterator or misses the key in the map.
THEOREM MapAndListAgree == Spec => []MapMatchesList
<1>1. IInv => MapMatchesList
  BY DEF IInv, Matches, MapMatchesList
<1> QED
  BY <1>1, CacheInv, PTL
-----------------------------------------------------------------------------
(***************************************************************************)
(* The refinement: what the steps do to the pairs of map and list.         *)
(***************************************************************************)
Facts == INSTANCE LRUStoreProofs WITH entries <- Pairs

PairsOf(m, s) == [i \in DOMAIN s |-> [key |-> s[i].key, val |-> m[s[i].key].val]]

LEMMA SameOperators ==
    /\ \A s : Store!Fitting(s) = Facts!Fitting(s)
    /\ \A s : LRU!Fitting(s) = Facts!Fitting(s)
    /\ \A s, k : LRU!Without(s, k) = Facts!Without(s, k)
    /\ Facts!Pair = [key : Key, val : Value]
    /\ \A S : IsFiniteSet(S) = Facts!IsFiniteSet(S)
<1>1. \A s : Store!Total(s) = Facts!Total(s) /\ LRU!Total(s) = Facts!Total(s)
  BY Zenon DEF Store!Total, LRU!Total, Facts!Total, Store!FoldLeft, LRU!FoldLeft, Facts!FoldLeft,
               Store!MapThenFoldSet, LRU!MapThenFoldSet, Facts!MapThenFoldSet,
               Store!Max, LRU!Max, Facts!Max
<1>2. /\ \A s : Store!Fitting(s) = Facts!Fitting(s)
      /\ \A s : LRU!Fitting(s) = Facts!Fitting(s)
  BY <1>1, Zenon DEF Store!Fitting, LRU!Fitting, Facts!Fitting
<1>3. \A s, k : LRU!Without(s, k) = Facts!Without(s, k)
  BY Zenon DEF LRU!Without, Facts!Without, LRU!RemoveAt, Facts!RemoveAt
<1>4. \A S : IsFiniteSet(S) = Facts!IsFiniteSet(S)
  BY Zenon DEF IsFiniteSet, Facts!IsFiniteSet
<1> QED
  BY <1>2, <1>3, <1>4 DEF Facts!Pair

LEMMA PairsType ==
    ASSUME NEW m \in [Key -> Instance \cup {None}], NEW s \in Seq(Element), Matches(m, s)
    PROVE  /\ PairsOf(m, s) \in Seq(Facts!Pair)
           /\ Len(PairsOf(m, s)) = Len(s) /\ DOMAIN PairsOf(m, s) = DOMAIN s
           /\ \A i \in DOMAIN s : /\ PairsOf(m, s)[i].key = s[i].key
                                 /\ PairsOf(m, s)[i].val = m[s[i].key].val
<1>1. \A i \in DOMAIN s : s[i].key \in Key /\ m[s[i].key].val \in Value
  BY ElementFields DEF Matches, Instance
<1>2. \A i \in DOMAIN s : [key |-> s[i].key, val |-> m[s[i].key].val] \in Facts!Pair
  BY <1>1, SameOperators
<1> QED
  BY <1>2 DEF PairsOf

LEMMA PairsWithout ==
    ASSUME NEW m \in [Key -> Instance \cup {None}], NEW s \in Seq(Element),
           NEW i \in DOMAIN s, NEW r, IsWithout(r, s, i), Matches(m, s), Apart(s)
    PROVE  Facts!IsWithout(PairsOf([m EXCEPT ![s[i].key] = None], r), PairsOf(m, s), i)
<1> DEFINE n == [m EXCEPT ![s[i].key] = None]
<1>1. Matches(n, r) /\ r \in Seq(Element) /\ n \in [Key -> Instance \cup {None}]
  BY MatchesWithout DEF IsWithout
<1>2. /\ PairsOf(n, r) \in Seq(Facts!Pair) /\ Len(PairsOf(n, r)) = Len(r)
      /\ PairsOf(m, s) \in Seq(Facts!Pair) /\ Len(PairsOf(m, s)) = Len(s)
  <2> HIDE DEF n
  <2> QED
    BY <1>1, PairsType
<1>3. ASSUME NEW j \in 1 .. Len(r)
      PROVE  PairsOf(n, r)[j] = PairsOf(m, s)[IF j < i THEN j ELSE j + 1]
  <2> DEFINE h == IF j < i THEN j ELSE j + 1
  <2>1. h \in DOMAIN s /\ h # i /\ r[j] = s[h] /\ j \in DOMAIN r
    BY <1>1 DEF IsWithout
  <2> HIDE DEF h
  <2>2. s[h].key \in Key /\ s[h].key # s[i].key
    BY <2>1, ElementFields DEF Matches
  <2>3. n[s[h].key] = m[s[h].key]
    BY <2>2
  <2> HIDE DEF n
  <2>4. PairsOf(n, r)[j] = PairsOf(m, s)[h]
    BY <2>1, <2>3 DEF PairsOf
  <2> QED
    BY <2>4 DEF h
<1> HIDE DEF n
<1>4. Facts!IsWithout(PairsOf(n, r), PairsOf(m, s), i)
  BY <1>2, <1>3 DEF Facts!IsWithout, IsWithout
<1> QED
  BY <1>4 DEF n

LEMMA PairsWith ==
    ASSUME NEW m \in [Key -> Instance \cup {None}], NEW s \in Seq(Element),
           NEW k \in Key, m[k] = None, NEW v \in Value, NEW a \in Address, Matches(m, s)
    PROVE  PairsOf(MapWith(m, k, v, a), ListWith(s, k, a))
             = Append(PairsOf(m, s), [key |-> k, val |-> v])
<1> DEFINE n == MapWith(m, k, v, a)
           r == ListWith(s, k, a)
           p == [key |-> k, val |-> v]
           e == [key |-> k, at |-> a]
<1>1. /\ r = Append(s, e) /\ e \in Element /\ e.key = k
      /\ n[k].val = v /\ \A l \in Key \ {k} : n[l] = m[l]
  BY DEF MapWith, ListWith, Element
<1>2. \A i \in DOMAIN s : s[i].key \in Key /\ s[i].key # k
  BY ElementFields DEF Matches
<1>3. PairsOf(m, s) \in Seq(Facts!Pair) /\ Len(PairsOf(m, s)) = Len(s) /\ p \in Facts!Pair
  BY PairsType, SameOperators
<1> HIDE DEF n, r, p, e
<1>4. /\ DOMAIN r = 1 .. Len(s) + 1 /\ r[Len(s) + 1] = e /\ Len(s) \in Nat
      /\ \A i \in 1 .. Len(s) : r[i] = s[i]
  BY <1>1
<1>5. \A i \in 1 .. Len(s) : PairsOf(n, r)[i] = PairsOf(m, s)[i]
  BY <1>1, <1>2, <1>4 DEF PairsOf
<1>6. PairsOf(n, r)[Len(s) + 1] = p
  BY <1>1, <1>4 DEF PairsOf, p
<1>7. /\ DOMAIN PairsOf(n, r) = 1 .. Len(s) + 1
      /\ PairsOf(n, r) = [i \in 1 .. Len(s) + 1 |-> PairsOf(n, r)[i]]
  BY <1>4 DEF PairsOf
<1>8. /\ Append(PairsOf(m, s), p) = [i \in 1 .. Len(s) + 1 |-> Append(PairsOf(m, s), p)[i]]
      /\ Append(PairsOf(m, s), p)[Len(s) + 1] = p
      /\ \A i \in 1 .. Len(s) : Append(PairsOf(m, s), p)[i] = PairsOf(m, s)[i]
  <2> DEFINE q == PairsOf(m, s)
  <2>1. q \in Seq(Facts!Pair) /\ Len(q) = Len(s)
    BY <1>3
  <2> HIDE DEF q
  <2>2. /\ Append(q, p) \in Seq(Facts!Pair) /\ Len(Append(q, p)) = Len(s) + 1
        /\ Append(q, p)[Len(s) + 1] = p /\ \A i \in 1 .. Len(s) : Append(q, p)[i] = q[i]
    BY <1>3, <2>1, AppendProperties
  <2>3. Append(q, p) = [i \in 1 .. Len(s) + 1 |-> Append(q, p)[i]]
    <3>1. Append(q, p) \in [1 .. Len(Append(q, p)) -> Facts!Pair]
      BY <2>2, LenProperties
    <3> QED
      BY <2>2, <3>1, Zenon
  <2> QED
    BY <2>2, <2>3 DEF q
<1>9. \A i \in 1 .. Len(s) + 1 : PairsOf(n, r)[i] = Append(PairsOf(m, s), p)[i]
  BY <1>4, <1>5, <1>6, <1>8
<1>10. PairsOf(n, r) = Append(PairsOf(m, s), p)
  BY <1>7, <1>8, <1>9, Zenon
<1> QED
  BY <1>10 DEF n, r, p

\* The pairs of the state, and of the next one.
LEMMA PairsHere ==
    ASSUME IInv
    PROVE  /\ Pairs = PairsOf(memoryMap, memoryList)
           /\ Pairs \in Seq(Facts!Pair) /\ DOMAIN Pairs = DOMAIN memoryList
           /\ \A i \in DOMAIN Pairs : /\ Pairs[i].key = memoryList[i].key
                                     /\ Pairs[i].val = memoryMap[memoryList[i].key].val
           /\ \A i, j \in DOMAIN Pairs : Pairs[i].key = Pairs[j].key => i = j
           /\ \A k \in Key : memoryMap[k] = None <=> \A i \in DOMAIN Pairs : Pairs[i].key # k
<1>1. Pairs = PairsOf(memoryMap, memoryList)
  BY DEF Pairs, PairsOf
<1>2. memoryMap \in [Key -> Instance \cup {None}] /\ memoryList \in Seq(Element) /\ Matches(memoryMap, memoryList)
  BY DEF IInv, TypeOK
<1>3. /\ Pairs \in Seq(Facts!Pair) /\ DOMAIN Pairs = DOMAIN memoryList
      /\ \A i \in DOMAIN Pairs : /\ Pairs[i].key = memoryList[i].key
                                /\ Pairs[i].val = memoryMap[memoryList[i].key].val
  BY <1>1, <1>2, PairsType
<1>4. \A i, j \in DOMAIN Pairs : Pairs[i].key = Pairs[j].key => i = j
  BY <1>2, <1>3 DEF Matches
<1>5. \A k \in Key : memoryMap[k] = None <=> \A i \in DOMAIN Pairs : Pairs[i].key # k
  BY <1>2, <1>3 DEF Matches
<1> QED
  BY <1>1, <1>3, <1>4, <1>5

\* What session t is about to store.
LEMMA ArgIsPair ==
    ASSUME IInv, NEW t \in Session, pc[t] \in Putting
    PROVE  arg[t] \in Facts!Pair /\ arg[t] = [key |-> arg[t].key, val |-> arg[t].val]
<1>1. /\ arg[t] \in [key : Key \cup {None}, val : Value \cup {None}]
      /\ arg[t].key \in Key /\ arg[t].val \in Value
  BY DEF IInv, TypeOK, CallOK, Putting
<1> QED
  BY <1>1, SameOperators

\* The effect on the pairs of taking the element of key k out of both.
LEMMA PairsLess ==
    ASSUME IInv, NEW i \in DOMAIN memoryList, NEW r, IsWithout(r, memoryList, i)
    PROVE  LET p == PairsOf([memoryMap EXCEPT ![memoryList[i].key] = None], r)
           IN  /\ Facts!IsWithout(p, Pairs, i)
               /\ p = Facts!Without(Pairs, memoryList[i].key)
<1> DEFINE k == memoryList[i].key
           p == PairsOf([memoryMap EXCEPT ![k] = None], r)
<1>1. Facts!IsWithout(p, Pairs, i)
  <2>1. /\ memoryMap \in [Key -> Instance \cup {None}] /\ memoryList \in Seq(Element)
        /\ Matches(memoryMap, memoryList) /\ Apart(memoryList)
    BY DEF IInv, TypeOK
  <2>2. Facts!IsWithout(p, PairsOf(memoryMap, memoryList), i)
    BY <2>1, PairsWithout
  <2> HIDE DEF p
  <2> QED
    BY <2>2, PairsHere
<1> HIDE DEF p
<1>2. Facts!IsWithout(Facts!Without(Pairs, k), Pairs, i)
  <2>1. /\ Pairs \in Seq(Facts!Pair) /\ i \in DOMAIN Pairs /\ Pairs[i].key = k
        /\ \A j \in DOMAIN Pairs : Pairs[j].key = Pairs[i].key => j = i
    BY PairsHere
  <2>2. Facts!IsWithout(Facts!Without(Pairs, Pairs[i].key), Pairs, i)
    BY <2>1, Facts!WithoutPresent
  <2> QED
    BY <2>1, <2>2
<1>3. p = Facts!Without(Pairs, k)
  BY <1>1, <1>2, PairsHere, Facts!WithoutUnique
<1> QED
  BY <1>1, <1>3 DEF p

LEMMA GetMovePairs ==
    ASSUME IInv, NEW t \in Session, GetMove(t)
    PROVE  \E i \in DOMAIN Pairs :
             /\ Pairs[i].key = arg[t].key
             /\ Pairs[i].val = memoryMap[arg[t].key].val
             /\ Facts!IsWithout(Facts!Without(Pairs, arg[t].key), Pairs, i)
             /\ Pairs' = Append(Facts!Without(Pairs, arg[t].key), Pairs[i])
<1> DEFINE k == arg[t].key
           v == memoryMap[k].val
           s == Erased(memoryMap[k].ite)
           m == [memoryMap EXCEPT ![k] = None]
<1>1. k \in Key /\ memoryMap[k] # None
  BY DEF GetMove, IInv, CallOK
<1>2. memoryMap[k] \in Instance /\ v \in Value
  BY <1>1, MapType
<1>3. PICK i \in DOMAIN memoryList : memoryList[i].key = k /\ IsWithout(s, memoryList, i)
  BY <1>1, ErasedIsWithout
<1>4. PICK a \in Address : /\ memoryList' = ListWith(s, k, a)
                           /\ memoryMap' = [memoryMap EXCEPT ![k].ite = a]
  BY DEF GetMove, FreeIn, ListWith
<1>5. memoryMap' = MapWith(m, k, v, a)
  <2>1. [memoryMap[k] EXCEPT !.ite = a] = [val |-> v, ite |-> a]
    BY <1>2 DEF Instance
  <2> QED
    BY <1>1, <1>4, <2>1 DEF IInv, TypeOK, MapWith
<1>6. /\ m \in [Key -> Instance \cup {None}] /\ m[k] = None
      /\ s \in Seq(Element) /\ Matches(m, s)
  <2>1. /\ memoryMap \in [Key -> Instance \cup {None}] /\ memoryList \in Seq(Element)
        /\ Matches(memoryMap, memoryList) /\ Apart(memoryList)
    BY DEF IInv, TypeOK
  <2>2. m \in [Key -> Instance \cup {None}] /\ m[k] = None
    BY <1>1, <2>1
  <2> HIDE DEF s
  <2> QED
    BY <1>3, <2>1, <2>2, MatchesWithout DEF IsWithout
<1> HIDE DEF m, s, v
<1>7. PairsOf(MapWith(m, k, v, a), ListWith(s, k, a)) = Append(PairsOf(m, s), [key |-> k, val |-> v])
  BY <1>1, <1>2, <1>6, PairsWith
<1>8. Pairs' = PairsOf(memoryMap', memoryList')
  BY DEF Pairs, PairsOf
<1>9. i \in DOMAIN Pairs /\ Pairs[i].key = k /\ Pairs[i].val = v /\ Pairs[i] = [key |-> k, val |-> v]
  <2>1. /\ i \in DOMAIN Pairs /\ Pairs[i].key = k /\ Pairs[i].val = v
        /\ Pairs \in Seq([key : Key, val : Value])
    BY <1>3, PairsHere, SameOperators DEF v
  <2>2. Pairs[i] \in [key : Key, val : Value]
    <3>1. i \in 1 .. Len(Pairs)
      BY <2>1, LenProperties
    <3> QED
      BY <2>1, <3>1, ElementOfSeq
  <2> QED
    BY <2>1, <2>2
<1>10. /\ Facts!IsWithout(PairsOf(m, s), Pairs, i)
       /\ PairsOf(m, s) = Facts!Without(Pairs, k)
  BY <1>3, PairsLess DEF m
<1> QED
  BY <1>4, <1>5, <1>7, <1>8, <1>9, <1>10 DEF v

LEMMA EraseMapPairs ==
    ASSUME IInv, NEW t \in Session, EraseMap(t)
    PROVE  \E i \in DOMAIN Pairs :
             /\ Pairs[i].val = memoryMap[arg[t].key].val
             /\ Facts!IsWithout(Pairs', Pairs, i)
             /\ Pairs' = Facts!Without(Pairs, arg[t].key)
<1> DEFINE k == arg[t].key
           s == Erased(memoryMap[k].ite)
<1>1. k \in Key /\ memoryMap[k] # None
  BY DEF EraseMap, IInv, CallOK
<1>2. PICK i \in DOMAIN memoryList : memoryList[i].key = k /\ IsWithout(s, memoryList, i)
  BY <1>1, ErasedIsWithout
<1>3. memoryList' = s /\ memoryMap' = [memoryMap EXCEPT ![k] = None]
  BY DEF EraseMap
<1> HIDE DEF s
<1>4. Pairs' = PairsOf([memoryMap EXCEPT ![k] = None], s)
  BY <1>3 DEF Pairs, PairsOf
<1>5. i \in DOMAIN Pairs /\ Pairs[i].val = memoryMap[k].val
  BY <1>2, PairsHere
<1>6. /\ Facts!IsWithout(PairsOf([memoryMap EXCEPT ![k] = None], s), Pairs, i)
      /\ PairsOf([memoryMap EXCEPT ![k] = None], s) = Facts!Without(Pairs, k)
  BY <1>2, PairsLess
<1> QED
  BY <1>4, <1>5, <1>6

LEMMA PutInsertPairs ==
    ASSUME IInv, NEW t \in Session, PutInsert(t)
    PROVE  Pairs' = Append(Pairs, arg[t])
<1> DEFINE k == arg[t].key
           v == arg[t].val
<1>1. /\ k \in Key /\ v \in Value /\ memoryMap[k] = None
      /\ arg[t] = [key |-> k, val |-> v]
  BY ArgIsPair DEF PutInsert, IInv, CallOK, Putting
<1>2. PICK a \in Address :
        /\ memoryMap' = MapWith(memoryMap, k, v, a)
        /\ memoryList' = ListWith(memoryList, k, a)
  BY DEF PutInsert, FreeIn, MapWith, ListWith
<1> HIDE DEF k, v
<1>3. PairsOf(MapWith(memoryMap, k, v, a), ListWith(memoryList, k, a))
        = Append(PairsOf(memoryMap, memoryList), [key |-> k, val |-> v])
  BY <1>1, PairsWith DEF IInv, TypeOK
<1>4. Pairs' = PairsOf(memoryMap', memoryList')
  BY DEF Pairs, PairsOf
<1> QED
  BY <1>1, <1>2, <1>3, <1>4, PairsHere

LEMMA EraseListPairs ==
    ASSUME IInv, NEW t \in Session, EraseList(t)
    PROVE  /\ 1 \in DOMAIN Pairs /\ Pairs' = Tail(Pairs)
           /\ Pairs[1].val = memoryMap[Head(memoryList).key].val
           /\ Facts!IsWithout(Pairs', Pairs, 1)
<1> DEFINE s == Tail(memoryList)
           k == Head(memoryList).key
<1>1. memoryList \in Seq(Element) /\ memoryList # <<>>
  BY DEF EraseList, IInv, TypeOK
<1>2. 1 \in DOMAIN memoryList /\ k = memoryList[1].key /\ IsWithout(s, memoryList, 1)
  BY <1>1, TailIsWithout
<1>3. memoryList' = s /\ memoryMap' = [memoryMap EXCEPT ![k] = None]
  BY DEF EraseList
<1>4. Pairs' = PairsOf([memoryMap EXCEPT ![k] = None], s)
  BY <1>3 DEF Pairs, PairsOf
<1> HIDE DEF s, k
<1>5. Facts!IsWithout(PairsOf([memoryMap EXCEPT ![k] = None], s), Pairs, 1)
  BY <1>2, PairsLess
<1>6. /\ Pairs \in Seq(Facts!Pair) /\ Pairs # <<>> /\ 1 \in DOMAIN Pairs
      /\ Pairs[1].val = memoryMap[k].val
  BY <1>2, PairsHere
<1>7. Facts!IsWithout(Tail(Pairs), Pairs, 1)
  BY <1>6, Facts!TailIsWithout
<1>8. Pairs' = Tail(Pairs)
  BY <1>4, <1>5, <1>6, <1>7, Facts!WithoutUnique
<1> QED
  BY <1>4, <1>5, <1>6, <1>8 DEF k

\* All other actions leave the pairs alone.
LEMMA SamePairs == ASSUME UNCHANGED data PROVE Pairs' = Pairs
BY DEF data, Pairs

-----------------------------------------------------------------------------
(***************************************************************************)
(* The size.                                                               *)
(***************************************************************************)
\* cacheSize is the size of the pairs; over the limit it is only while a put
\* makes room, and then there is a pair to drop.
SizeOK ==
    /\ cacheSize = Facts!Total(Pairs)
    /\ cacheSize > MaxSize => \E t \in Session : pc[t] \in {"put_evict", "erase_list"}
    /\ \A t \in Session : pc[t] = "erase_list" => cacheSize > MaxSize

LEMMA TotalType == ASSUME IInv PROVE Facts!Total(Pairs) \in Nat
<1>1. Facts!Pair # {} => Facts!Total(Pairs) \in Nat
  BY PairsHere, Facts!TotalAppend, CacheAssumption
<1>2. Facts!Pair = {} => Facts!Total(Pairs) \in Nat
  <2> SUFFICES ASSUME Facts!Pair = {} PROVE Facts!Total(Pairs) \in Nat
    OBVIOUS
  <2>1. Pairs = <<>>
    BY PairsHere
  <2> QED
    BY <2>1, Facts!TotalEmpty, CacheAssumption
<1> QED
  BY <1>1, <1>2

LEMMA QuietSize ==
    ASSUME IInv, SizeOK, NEW t \in Session,
           \/ \E k \in Key : GetEnter(t, k) \/ \E v \in Value : PutEnter(t, k, v)
           \/ GetMiss(t) \/ GetHit(t) \/ GetExit(t) \/ PutFind(t) \/ Evict(t) \/ PutExit(t)
    PROVE  SizeOK'
<1>1. UNCHANGED data
  BY DEF GetEnter, PutEnter, GetMiss, GetHit, GetExit, PutFind, Evict, PutExit, Leave
<1>2. Pairs' = Pairs /\ cacheSize' = cacheSize
  BY <1>1, SamePairs DEF data
<1>3. \A u \in Session : u # t => pc'[u] = pc[u]
  BY DEF GetEnter, PutEnter, GetMiss, GetHit, GetExit, PutFind, Evict, PutExit, Leave, Goto,
         IInv, TypeOK
<1>4. /\ pc'[t] = "erase_list" => cacheSize > MaxSize
      /\ pc[t] \in {"put_evict", "erase_list"} =>
           pc'[t] \in {"put_evict", "erase_list"} \/ cacheSize <= MaxSize
  BY DEF GetEnter, PutEnter, GetMiss, GetHit, GetExit, PutFind, Evict, PutExit, Leave, Goto,
         IInv, TypeOK
<1>5. cacheSize \in Int /\ MaxSize \in Int
  BY CacheAssumption DEF IInv, TypeOK
<1> QED
  BY <1>2, <1>3, <1>4, <1>5 DEF SizeOK

LEMMA DataSize ==
    ASSUME IInv, SizeOK, NEW t \in Session,
           GetMove(t) \/ EraseMap(t) \/ PutInsert(t) \/ EraseList(t)
    PROVE  SizeOK'
<1>0. /\ Pairs \in Seq(Facts!Pair) /\ Facts!Total(Pairs) \in Nat /\ cacheSize = Facts!Total(Pairs)
      /\ Size \in [Value -> Nat] /\ MaxSize \in Nat
  BY PairsHere, TotalType, CacheAssumption DEF SizeOK
<1>1. \A u \in Session : u # t => pc[u] = "idle" /\ pc'[u] = "idle"
  BY OthersIdle DEF GetMove, EraseMap, PutInsert, EraseList, Goto, IInv, TypeOK
<1>2. CASE GetMove(t)
  <2>1. PICK i \in DOMAIN Pairs :
          /\ Facts!IsWithout(Facts!Without(Pairs, arg[t].key), Pairs, i)
          /\ Pairs' = Append(Facts!Without(Pairs, arg[t].key), Pairs[i])
    BY <1>2, GetMovePairs
  <2> DEFINE r == Facts!Without(Pairs, arg[t].key)
  <2>2. r \in Seq(Facts!Pair) /\ Pairs[i] \in Facts!Pair
    BY <1>0, <2>1, ElementOfSeq DEF Facts!IsWithout
  <2>3. /\ Facts!Total(r) \in Nat /\ Size[Pairs[i].val] \in Nat
        /\ Facts!Total(Pairs) = Size[Pairs[i].val] + Facts!Total(r)
    BY <1>0, <2>1, Facts!TotalWithout
  <2>4. Facts!Total(Append(r, Pairs[i])) = Facts!Total(r) + Size[Pairs[i].val]
    BY <1>0, <2>2, Facts!TotalAppend
  <2>5. Facts!Total(Pairs') = Facts!Total(Pairs)
    BY <2>1, <2>3, <2>4
  <2>6. cacheSize' = cacheSize /\ pc[t] = "get_move" /\ pc'[t] = "get_exit"
    BY <1>2 DEF GetMove, Goto, IInv, TypeOK
  <2>7. cacheSize' = Facts!Total(Pairs')
    BY <1>0, <2>5, <2>6
  <2>8. ~ cacheSize > MaxSize
    BY <1>1, <2>6 DEF SizeOK
  <2> QED
    BY <1>1, <2>6, <2>7, <2>8 DEF SizeOK
<1>3. CASE EraseMap(t)
  <2>1. PICK i \in DOMAIN Pairs :
          /\ Pairs[i].val = memoryMap[arg[t].key].val
          /\ Facts!IsWithout(Pairs', Pairs, i)
    BY <1>3, EraseMapPairs
  <2>2. /\ Facts!Total(Pairs') \in Nat /\ Size[Pairs[i].val] \in Nat
        /\ Facts!Total(Pairs) = Size[Pairs[i].val] + Facts!Total(Pairs')
    BY <1>0, <2>1, Facts!TotalWithout
  <2>3. /\ cacheSize' = cacheSize - Size[Pairs[i].val]
        /\ pc[t] = "erase_map" /\ pc'[t] = "put_insert"
    BY <1>3, <2>1 DEF EraseMap, Goto, IInv, TypeOK
  <2>4. cacheSize' = Facts!Total(Pairs')
    BY <1>0, <2>2, <2>3
  <2>5. ~ cacheSize' > MaxSize
    <3>1. ~ cacheSize > MaxSize
      BY <1>1, <2>3 DEF SizeOK
    <3> QED
      BY <1>0, <2>2, <2>3, <3>1
  <2> QED
    BY <1>1, <2>3, <2>4, <2>5 DEF SizeOK
<1>4. CASE PutInsert(t)
  <2>1. pc[t] = "put_insert" /\ pc'[t] = "put_evict" /\ cacheSize' = cacheSize + Size[arg[t].val]
    BY <1>4 DEF PutInsert, Goto, IInv, TypeOK
  <2>2. arg[t] \in Facts!Pair
    BY <2>1, ArgIsPair DEF Putting
  <2>3. Facts!Total(Append(Pairs, arg[t])) = Facts!Total(Pairs) + Size[arg[t].val]
    BY <1>0, <2>2, Facts!TotalAppend
  <2>4. Pairs' = Append(Pairs, arg[t])
    BY <1>4, PutInsertPairs
  <2>5. cacheSize' = Facts!Total(Pairs')
    BY <1>0, <2>1, <2>3, <2>4
  <2> QED
    BY <1>1, <2>1, <2>5 DEF SizeOK
<1>5. CASE EraseList(t)
  <2>1. /\ 1 \in DOMAIN Pairs /\ Facts!IsWithout(Pairs', Pairs, 1)
        /\ Pairs[1].val = memoryMap[Head(memoryList).key].val
    BY <1>5, EraseListPairs
  <2>2. /\ Facts!Total(Pairs') \in Nat /\ Size[Pairs[1].val] \in Nat
        /\ Facts!Total(Pairs) = Size[Pairs[1].val] + Facts!Total(Pairs')
    BY <1>0, <2>1, Facts!TotalWithout
  <2>3. /\ cacheSize' = cacheSize - Size[Pairs[1].val]
        /\ pc'[t] = "put_evict"
    BY <1>5, <2>1 DEF EraseList, Goto, IInv, TypeOK
  <2>4. cacheSize' = Facts!Total(Pairs')
    BY <1>0, <2>2, <2>3
  <2> QED
    BY <1>1, <2>3, <2>4 DEF SizeOK
<1> QED
  BY <1>2, <1>3, <1>4, <1>5

LEMMA InitSize == Init => SizeOK
<1> SUFFICES ASSUME Init PROVE SizeOK
  OBVIOUS
<1>1. Pairs = <<>> /\ cacheSize = 0 /\ \A t \in Session : pc[t] = "idle"
  BY DEF Init, Pairs
<1>2. Facts!Total(<<>>) = 0
  BY Facts!TotalEmpty, CacheAssumption
<1> QED
  BY <1>1, <1>2, CacheAssumption DEF SizeOK

LEMMA StepSize == IInv /\ SizeOK /\ [Next]_vars => SizeOK'
<1> SUFFICES ASSUME IInv, SizeOK, [Next]_vars PROVE SizeOK'
  OBVIOUS
<1>1. CASE Next
  <2>1. PICK t \in Session : Call(t) \/ Step(t)
    BY <1>1 DEF Next
  <2> QED
    BY <2>1, QuietSize, DataSize DEF Call, Step
<1>2. CASE UNCHANGED vars
  <2>1. Pairs' = Pairs /\ UNCHANGED <<cacheSize, pc>>
    BY <1>2, SamePairs DEF vars, data
  <2> QED
    BY <2>1 DEF SizeOK
<1> QED
  BY <1>1, <1>2

\* The sum over the keys of the map is the sum over the list.
LEMMA SumOverKeys ==
    ASSUME IInv
    PROVE  LET present == {k \in Key : memoryMap[k] # None}
               size(k) == Size[memoryMap[k].val]
           IN  MapThenSumSet(size, present) = Facts!Total(Pairs)
<1> DEFINE present == {k \in Key : memoryMap[k] # None}
           w == [k \in present |-> Size[memoryMap[k].val]]
           f == [i \in DOMAIN Pairs |-> Pairs[i].key]
<1>1. /\ Pairs \in Seq(Facts!Pair) /\ Size \in [Value -> Nat]
      /\ \A i \in DOMAIN Pairs : /\ Pairs[i].key \in present
                                /\ Pairs[i].val = memoryMap[Pairs[i].key].val
      /\ \A i, j \in DOMAIN Pairs : Pairs[i].key = Pairs[j].key => i = j
      /\ \A k \in present : \E i \in DOMAIN Pairs : Pairs[i].key = k
  BY PairsHere, ElementFields, CacheAssumption DEF IInv, TypeOK, Matches
<1>2. PICK D, W, S, m : /\ D = DOMAIN Pairs /\ W = Facts!Weights(Pairs)
                        /\ S = present /\ m = memoryMap
  OBVIOUS
<1>3. D = 1 .. Len(Pairs) /\ Len(Pairs) \in Nat
  BY <1>1, <1>2, LenProperties
<1>4. Facts!IsFiniteSet(D) /\ Facts!IsFiniteSet(S)
  <2>1. IsFiniteSet(1 .. Len(Pairs))
    BY <1>3, FS_Interval
  <2>2. IsFiniteSet(D)
    BY <1>3, <2>1
  <2>3. f \in Surjection(D, S)
    BY <1>1, <1>2 DEF Surjection
  <2> HIDE DEF f
  <2>4. IsFiniteSet(S)
    BY <2>2, <2>3, FS_Surjection
  <2> QED
    BY <2>2, <2>4, SameOperators
<1>5. \A k \in S : m[k].val \in Value
  BY <1>2, MapType
<1>6. PICK h : Facts!IsSum(h, [k \in S |-> Size[m[k].val]], S) /\ Facts!MapSize(m, S) = h[S]
  <2>1. Size \in [Value -> Nat]
    BY <1>1
  <2> QED
    BY <1>4, <1>5, <2>1, Facts!MapSizeIsSum
<1>7. PICK g : Facts!IsSum(g, W, D) /\ Facts!Total(Pairs) = g[D]
  BY <1>1, <1>2, Facts!TotalIsSum
<1>8. PICK v, e : v = [k \in S |-> Size[m[k].val]] /\ e = f
  OBVIOUS
<1>9. Facts!Carries(e, D, W, S, v)
  BY <1>1, <1>2, <1>8 DEF Facts!Carries, Facts!Weights
<1>10. g[D] = h[S]
  <2>1. D \in SUBSET D /\ S \in SUBSET S /\ Facts!IsFiniteSet(D)
    BY <1>4
  <2>2. Facts!IsSum(g, W, D) /\ Facts!IsSum(h, v, S)
    BY <1>6, <1>7, <1>8
  <2> QED
    BY <1>9, <2>1, <2>2, Facts!SumImage
<1>11. Facts!MapSize(memoryMap, present) = Facts!Total(Pairs)
  BY <1>2, <1>6, <1>7, <1>10
<1>12. Facts!MapSize(memoryMap, present)
          = MapThenSumSet(LAMBDA k : Size[memoryMap[k].val], present)
  BY Zenon DEF Facts!MapSize, Facts!MapThenSumSet, MapThenSumSet,
               Facts!MapThenFoldSet, MapThenFoldSet
<1> QED
  BY <1>11, <1>12, Zenon

\* Theorem.  cacheSize is the size of what is in the map, however often a key
\* was stored again or made room for, and a put leaves no more than the limit.
THEOREM SizeAccounted == Spec => []Accounted
<1>1. IInv /\ SizeOK => Accounted
  <2> SUFFICES ASSUME IInv, SizeOK PROVE Accounted
    OBVIOUS
  <2>1. cacheSize \in Int /\ MaxSize \in Int
    BY CacheAssumption DEF IInv, TypeOK
  <2>2. owner = None => cacheSize <= MaxSize
    BY <2>1, CacheAssumption DEF SizeOK, IInv, MutexOK
  <2>3. cacheSize = Facts!Total(Pairs)
    BY DEF SizeOK
  <2> QED
    BY <2>2, <2>3, SumOverKeys, Zenon DEF Accounted
<1> QED
  BY <1>1, InitInv, StepInv, InitSize, StepSize, PTL DEF Spec

-----------------------------------------------------------------------------
(***************************************************************************)
(* The refinement: every step is one of LRUStore, or none.                 *)
(***************************************************************************)
\* Entries, where session t is the one in the cache.
LEMMA EntriesAt ==
    ASSUME IInv, NEW t \in Session, \A u \in Session : u # t => pc[u] = "idle"
    PROVE  /\ pc[t] = "put_insert" => Entries = Facts!Fitting(Append(Pairs, arg[t]))
           /\ pc[t] \in {"put_evict", "erase_list"} => Entries = Facts!Fitting(Pairs)
           /\ pc[t] \notin {"put_insert", "put_evict", "erase_list"} => Entries = Pairs
<1>1. pc[t] # "idle" => owner = t
  BY DEF IInv, MutexOK
<1>2. \A l \in {"put_insert", "put_evict", "erase_list"} : In(l) <=> pc[t] = l
  BY DEF In
<1>3. \A s : Store!Fitting(s) = Facts!Fitting(s)
  BY SameOperators
<1> QED
  BY <1>1, <1>2, <1>3 DEF Entries

LEMMA EntriesAtNext ==
    ASSUME IInv', NEW t \in Session, \A u \in Session : u # t => pc'[u] = "idle"
    PROVE  /\ pc'[t] = "put_insert" => Entries' = Facts!Fitting(Append(Pairs', arg'[t]))
           /\ pc'[t] \in {"put_evict", "erase_list"} => Entries' = Facts!Fitting(Pairs')
           /\ pc'[t] \notin {"put_insert", "put_evict", "erase_list"} => Entries' = Pairs'
<1>1. pc'[t] # "idle" => owner' = t
  BY DEF IInv, MutexOK
<1>2. \A l \in {"put_insert", "put_evict", "erase_list"} : In(l)' <=> pc'[t] = l
  BY DEF In
<1>3. \A s : Store!Fitting(s) = Facts!Fitting(s)
  BY SameOperators
<1> QED
  BY <1>1, <1>2, <1>3 DEF Entries

\* A get takes effect when it finds nothing, or moves the pair it finds.
LEMMA GetRefines ==
    ASSUME IInv, IInv', NEW t \in Session, GetMiss(t) \/ GetMove(t)
    PROVE  LRU!Get(t, arg[t].key) /\ arg[t].key \in Key
<1> DEFINE k == arg[t].key
<1>1. /\ \A u \in Session : u # t => pc[u] = "idle" /\ pc'[u] = "idle"
      /\ pc[t] \in {"get_find", "get_move"} /\ pc'[t] \in {"idle", "get_exit"}
  BY OthersIdle DEF GetMiss, GetMove, Goto, IInv, TypeOK
<1>2. Entries = Pairs /\ Entries' = Pairs'
  BY <1>1, EntriesAt, EntriesAtNext
<1>3. k \in Key
  BY <1>1 DEF IInv, CallOK
<1>4. CASE GetMiss(t)
  <2>1. memoryMap[k] = None /\ UNCHANGED data /\ result' = [result EXCEPT ![t] = None]
    BY <1>4 DEF GetMiss
  <2>2. Pairs' = Pairs /\ \A i \in DOMAIN Pairs : Pairs[i].key # k
    BY <1>3, <2>1, SamePairs, PairsHere
  <2> QED
    BY <1>2, <1>3, <2>1, <2>2 DEF LRU!Get
<1>5. CASE GetMove(t)
  <2>1. PICK i \in DOMAIN Pairs :
          /\ Pairs[i].key = k /\ Pairs[i].val = memoryMap[k].val
          /\ Pairs' = Append(Facts!Without(Pairs, k), Pairs[i])
    BY <1>5, GetMovePairs
  <2>2. result' = [result EXCEPT ![t] = memoryMap[k].val]
    BY <1>5 DEF GetMove
  <2>3. Facts!Without(Pairs, k) = LRU!Without(Pairs, k)
    BY SameOperators
  <2> QED
    BY <1>2, <1>3, <2>1, <2>2, <2>3 DEF LRU!Get
<1> QED
  BY <1>4, <1>5

\* A put takes effect when the old value of its key is gone.
LEMMA PutRefines ==
    ASSUME IInv, IInv', NEW t \in Session,
           EraseMap(t) \/ (PutFind(t) /\ memoryMap[arg[t].key] = None)
    PROVE  LRU!Put(t, arg[t].key, arg[t].val) /\ arg[t].key \in Key /\ arg[t].val \in Value
<1> DEFINE k == arg[t].key
           v == arg[t].val
<1>1. /\ \A u \in Session : u # t => pc[u] = "idle" /\ pc'[u] = "idle"
      /\ pc[t] \in {"put_find", "erase_map"} /\ pc'[t] = "put_insert"
      /\ UNCHANGED <<arg, result>>
  BY OthersIdle DEF EraseMap, PutFind, Goto, IInv, TypeOK
<1>2. k \in Key /\ v \in Value /\ arg[t] = [key |-> k, val |-> v]
  BY <1>1, ArgIsPair DEF IInv, CallOK, Putting
<1>3. Entries = Pairs /\ Entries' = Facts!Fitting(Append(Pairs', arg[t]))
  BY <1>1, EntriesAt, EntriesAtNext
<1>4. Pairs' = Facts!Without(Pairs, k)
  <2>1. CASE EraseMap(t)
    BY <2>1, EraseMapPairs
  <2>2. CASE PutFind(t) /\ memoryMap[k] = None
    <3>1. UNCHANGED data
      BY <2>2 DEF PutFind
    <3>2. \A i \in DOMAIN Pairs : Pairs[i].key # k
      BY <1>2, <2>2, PairsHere
    <3>3. Facts!Without(Pairs, k) = Pairs
      BY <3>2, PairsHere, Facts!WithoutAbsent
    <3> QED
      BY <3>1, <3>3, SamePairs
  <2> QED
    BY <2>1, <2>2
<1>5. Entries' = LRU!Fitting(Append(LRU!Without(Entries, k), [key |-> k, val |-> v]))
  BY <1>2, <1>3, <1>4, SameOperators
<1> QED
  BY <1>1, <1>2, <1>5 DEF LRU!Put

\* Everything else in a put, and every call and return, leaves the store alone.
LEMMA RoomIsMade ==
    ASSUME IInv, IInv', SizeOK, NEW t \in Session,
           PutInsert(t) \/ Evict(t) \/ EraseList(t) \/ PutExit(t)
    PROVE  UNCHANGED <<Entries, result>>
<1>1. /\ \A u \in Session : u # t => pc[u] = "idle" /\ pc'[u] = "idle"
      /\ UNCHANGED result
  BY OthersIdle DEF PutInsert, Evict, EraseList, PutExit, Leave, Goto, IInv, TypeOK
<1>2. /\ Pairs \in Seq(Facts!Pair) /\ cacheSize = Facts!Total(Pairs)
      /\ Size \in [Value -> Nat] /\ MaxSize \in Nat
      /\ cacheSize \in Int
  BY PairsHere, CacheAssumption DEF SizeOK, IInv, TypeOK
<1>3. CASE PutInsert(t)
  <2>1. pc[t] = "put_insert" /\ pc'[t] = "put_evict"
    BY <1>3 DEF PutInsert, Goto, IInv, TypeOK
  <2>2. Pairs' = Append(Pairs, arg[t])
    BY <1>3, PutInsertPairs
  <2> QED
    BY <1>1, <2>1, <2>2, EntriesAt, EntriesAtNext
<1>4. CASE Evict(t)
  <2>1. pc[t] = "put_evict" /\ pc'[t] = "erase_list" /\ Pairs' = Pairs
    BY <1>4, SamePairs DEF Evict, Goto, IInv, TypeOK
  <2> QED
    BY <1>1, <2>1, EntriesAt, EntriesAtNext
<1>5. CASE EraseList(t)
  <2>1. pc[t] = "erase_list" /\ pc'[t] = "put_evict"
    BY <1>5 DEF EraseList, Goto, IInv, TypeOK
  <2>2. Pairs' = Tail(Pairs)
    BY <1>5, EraseListPairs
  <2>3. ~ Facts!Total(Pairs) <= MaxSize
    BY <1>2, <2>1 DEF SizeOK
  <2>4. Facts!Fitting(Tail(Pairs)) = Facts!Fitting(Pairs)
    BY <1>2, <2>3, Facts!FittingTail
  <2> QED
    BY <1>1, <2>1, <2>2, <2>4, EntriesAt, EntriesAtNext
<1>6. CASE PutExit(t)
  <2>1. pc[t] = "put_evict" /\ pc'[t] = "idle" /\ Pairs' = Pairs /\ cacheSize <= MaxSize
    BY <1>6, SamePairs DEF PutExit, Leave, Goto, IInv, TypeOK
  <2>2. Facts!Fitting(Pairs) = Pairs
    BY <1>2, <2>1, Facts!FittingWhole
  <2> QED
    BY <1>1, <2>1, <2>2, EntriesAt, EntriesAtNext
<1> QED
  BY <1>3, <1>4, <1>5, <1>6

LEMMA RestRefines ==
    ASSUME IInv, IInv', NEW t \in Session,
           \/ \E k \in Key : GetEnter(t, k) \/ \E v \in Value : PutEnter(t, k, v)
           \/ GetHit(t) \/ GetExit(t) \/ (PutFind(t) /\ memoryMap[arg[t].key] # None)
    PROVE  UNCHANGED <<Entries, result>>
<1>1. /\ UNCHANGED <<data, result>>
      /\ pc[t] \in {"idle", "get_find", "get_exit", "put_find"}
      /\ pc'[t] \in {"idle", "get_find", "get_move", "put_find", "erase_map"}
      /\ pc[t] = "idle" => owner = None
  BY DEF GetEnter, PutEnter, GetHit, GetExit, PutFind, Leave, Goto, Lock, IInv, TypeOK, MutexOK
<1>2. \A u \in Session : u # t => pc[u] = "idle" /\ pc'[u] = "idle"
  <2>1. \A u \in Session : u # t => pc[u] = "idle"
    BY <1>1, OthersIdle
  <2>2. \A u \in Session : u # t => pc'[u] = pc[u]
    BY DEF GetEnter, PutEnter, GetHit, GetExit, PutFind, Leave, Goto, IInv, TypeOK
  <2> QED
    BY <2>1, <2>2
<1>3. Pairs' = Pairs
  BY <1>1, SamePairs
<1> QED
  BY <1>1, <1>2, <1>3, EntriesAt, EntriesAtNext

LEMMA StepRefines ==
    IInv /\ IInv' /\ SizeOK /\ [Next]_vars => [LRU!Next]_<<Entries, result>>
<1> SUFFICES ASSUME IInv, IInv', SizeOK, [Next]_vars PROVE [LRU!Next]_<<Entries, result>>
  OBVIOUS
<1>1. CASE Next
  <2>1. PICK t \in Session : Call(t) \/ Step(t)
    BY <1>1 DEF Next
  <2>2. CASE GetMiss(t) \/ GetMove(t)
    BY <2>2, GetRefines DEF LRU!Next
  <2>3. CASE EraseMap(t) \/ (PutFind(t) /\ memoryMap[arg[t].key] = None)
    BY <2>3, PutRefines DEF LRU!Next
  <2>4. CASE PutInsert(t) \/ Evict(t) \/ EraseList(t) \/ PutExit(t)
    BY <2>4, RoomIsMade
  <2>5. CASE \/ \E k \in Key : GetEnter(t, k) \/ \E v \in Value : PutEnter(t, k, v)
             \/ GetHit(t) \/ GetExit(t) \/ (PutFind(t) /\ memoryMap[arg[t].key] # None)
    BY <2>5, RestRefines
  <2> QED
    BY <2>1, <2>2, <2>3, <2>4, <2>5 DEF Call, Step
<1>2. CASE UNCHANGED vars
  <2>1. Pairs' = Pairs /\ UNCHANGED <<owner, pc, arg, result>>
    BY <1>2, SamePairs DEF vars, data, mutex
  <2>2. Entries' = Entries
    BY <2>1 DEF Entries, In
  <2> QED
    BY <2>1, <2>2
<1> QED
  BY <1>1, <1>2

\* Theorem.  Whatever the sessions do at the same time, the cache behaves as
\* an LRU store that does each get and each put at once, makes room by dropping
\* what was used longest ago, and keeps what fits (get, put, erase).
THEOREM CacheIsLRU == Spec => ImplementsLRU
<1>1. Init => LRU!Init
  <2> SUFFICES ASSUME Init PROVE LRU!Init
    OBVIOUS
  <2>1. Pairs = <<>> /\ \A t \in Session : pc[t] = "idle"
    BY DEF Init, Pairs
  <2>2. Entries = Pairs
    BY <2>1 DEF Entries, In
  <2> QED
    BY <2>1, <2>2 DEF Init, LRU!Init
<1> QED
  BY <1>1, InitInv, StepInv, InitSize, StepSize, StepRefines, PTL
     DEF Spec, ImplementsLRU, LRU!Spec
=============================================================================
