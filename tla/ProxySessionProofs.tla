------------------------- MODULE ProxySessionProofs -------------------------
(***************************************************************************)
(* What the two connections of a session hold at each step of minion, for  *)
(* any number of sessions, clients, origin servers and bodies: answers are *)
(* not mixed up, and the cache holds whole ones.                           *)
(***************************************************************************)
EXTENDS ProxySession, SequenceTheorems, TLAPS

\* The code needs both.  Its cache key is host and file, without the port.
HostsDiffer == \A o, p \in Origin : Host[o] = Host[p] => o = p

\* And a server that ends a body by closing the connection must say so: without
\* a Connection header minion takes the connection to be persistent.
ClosesTold == \A r \in Response : r.framing = "close" /\ r.len > 0 => ~ r.persistent

Units(q) == \A i \in 1 .. Len(q) : q[i].is = "unit"

-----------------------------------------------------------------------------
(***************************************************************************)
(* The client: what it wants, what it got and what of it minion has not    *)
(* read.                                                                   *)
(***************************************************************************)
\* h is an answer that request r may get: to its page and, unless r is looked up
\* in the cache, to its method.
MayGet(h, r) ==
    /\ KeyOf(h.url) = KeyOf(r.url)
    /\ h.method = r.method \/ (r.len = 0 /\ r.cachable)

\* Whatever minion does: what was got is part of one answer to what was asked.
Answering(s) ==
    LET c == client[s]
    IN  /\ ~ c.here => c = NoClient
        /\ c.want = None => c.unsent = 0 /\ c.got = <<>>
        /\ c.got # <<>> =>
             /\ c.got[1].is = "head" /\ c.got[1].of \in Header
             /\ MayGet(c.got[1].of, c.want)
             /\ \A i \in 2 .. Len(c.got) : c.got[i].is = "unit"
             /\ Len(c.got) <= 1 + c.got[1].of.as.len

\* What minion has not read is the next request, if there is one.
Ahead(s) ==
    LET c == client[s]
        u == up[s]
    IN  /\ c.got = <<>>
        /\ u = <<>> => c.want = None
        /\ u # <<>> =>
             /\ u[1].is = "head" /\ u[1].of \in Request
             /\ Units(Tail(u))
             /\ Len(Tail(u)) + c.unsent <= u[1].of.len
             /\ c.here => c.want = u[1].of

\* All of the request is read, and its answer is on its way or there.
Given(s) == up[s] = <<>> /\ client[s].unsent = 0 /\ client[s].want # None

\* The head of req is read, some of the body may not be, nothing is answered.
Asking(s) ==
    LET c == client[s]
    IN  /\ Units(up[s])
        /\ Len(up[s]) + c.unsent <= req[s].len
        /\ c.got = <<>>
        /\ c.here => c.want = req[s]

\* The client has what was relayed, or it had all and did go on.
Relayed(s) ==
    LET c == client[s]
    IN  \/ /\ up[s] = <<>> /\ c.unsent = 0 /\ c.here /\ c.want = req[s]
           /\ c.got # <<>> /\ c.got[1] = HeadOf(resp[s])
           /\ Len(c.got) = 1 + body[s]
        \/ /\ Ahead(s)
           /\ c.here => body[s] = resp[s].as.len

-----------------------------------------------------------------------------
(***************************************************************************)
(* The server connection.                                                  *)
(***************************************************************************)
\* Nothing is asked and nothing is left.
Quiet(s) == down[s] = <<>> /\ (server[s].alive => server[s].task = None /\ server[s].owed = 0)

\* req is asked.
Waiting(s) ==
    LET v == server[s]
    IN  /\ down[s] = <<>>
        /\ v.alive => /\ v.task = req[s] /\ v.owed = 0
                      /\ v.sofar + Len(up[s]) + client[s].unsent <= req[s].len

\* q is what has arrived of the body of h after its first n units, and the
\* server v gives the rest.
Rest(v, q, h, n) ==
    /\ Units(q)
    /\ n + Len(q) + v.owed = h.as.len
    /\ v.giving = h.as
    /\ \A i \in 1 .. Len(q) : q[i].blank => h.as.framing = "chunked"
    /\ h.as.framing = "chunked" /\ v.owed = 0 /\ q # <<>> => q[Len(q)].blank

\* The answer to req has begun to arrive.
Answered(s) ==
    LET h == down[s][1].of
    IN  /\ down[s] # <<>> /\ down[s][1].is = "head"
        /\ h \in Header /\ h.url = req[s].url /\ h.method = req[s].method
        /\ Rest(server[s], Tail(down[s]), h, 0)
        /\ server[s].task = None /\ up[s] = <<>> /\ client[s].unsent = 0

\* What minion knows of the response.
HasHead(s) ==
    LET h == resp[s]
    IN  /\ req[s] \in Request /\ h \in Header
        /\ h.url = req[s].url /\ h.method = req[s].method
        /\ body[s] <= h.as.len
        /\ h.as.framing = "chunked" => closing[s]
        /\ h.as.framing = "close" => body[s] = 0

-----------------------------------------------------------------------------
(***************************************************************************)
(* Where minion is, and what the two connections hold then.                *)
(***************************************************************************)
AtStart(s) ==
    pc[s] = "none" =>
      client[s] = NoClient /\ server[s] = NoServer /\ up[s] = <<>> /\ down[s] = <<>>

AtRequest(s) ==
    pc[s] = "request" => (Ahead(s) \/ Given(s)) /\ Quiet(s)

AtOpen(s) ==
    /\ pc[s] \in {"lookup", "hit", "open"} => req[s] \in Request /\ Asking(s) /\ Quiet(s)
    /\ pc[s] = "hit" =>
         /\ req[s].len = 0 /\ req[s].cachable
         /\ found[s] \in Value /\ found[s].units <= found[s].head.as.len
         /\ KeyOf(found[s].head.url) = KeyOf(req[s].url)

AtAnswer(s) ==
    /\ pc[s] \in {"body", "answer"} =>
         /\ req[s] \in Request /\ server[s].peer = req[s].url.origin
         /\ Asking(s)
         /\ Waiting(s) \/ Answered(s)
    /\ pc[s] = "body" =>
         /\ req[s].len > 0 /\ Waiting(s)
         /\ server[s].alive => server[s].sofar = 0

AtRelay(s) ==
    pc[s] = "relay" =>
      /\ HasHead(s) /\ Relayed(s)
      /\ Rest(server[s], down[s], resp[s], body[s]) /\ server[s].task = None
      /\ resp[s].as.framing = "chunked" => body[s] < resp[s].as.len

AtFinish(s) ==
    pc[s] = "finish" =>
      /\ HasHead(s) /\ Relayed(s)
      /\ resp[s].as.framing # "close"
      /\ closing[s] \/ Quiet(s)

Flow(s) ==
    /\ Answering(s)
    /\ server[s].alive => server[s].peer # None
    /\ AtStart(s) /\ AtRequest(s) /\ AtOpen(s) /\ AtAnswer(s) /\ AtRelay(s) /\ AtFinish(s)

IInv == TypeOK /\ CacheWhole /\ \A s \in Session : Flow(s)

\* The types of TypeOK.
Clients ==
    [here : BOOLEAN, want : Request \cup {None}, unsent : 0 .. MaxLen, got : Seq(Item)]
Servers ==
    [peer : Origin \cup {None}, alive : BOOLEAN, task : Request \cup {None}, sofar : 0 .. MaxLen,
     giving : Response \cup {None}, owed : 0 .. MaxLen]
Pairs == [key : Key, val : Value]

\* A step does not touch session s.
Same(s) ==
    /\ pc'[s] = pc[s] /\ req'[s] = req[s] /\ resp'[s] = resp[s] /\ body'[s] = body[s]
    /\ closing'[s] = closing[s] /\ client'[s] = client[s] /\ server'[s] = server[s]
    /\ up'[s] = up[s] /\ down'[s] = down[s] /\ found'[s] = found[s]

-----------------------------------------------------------------------------
(***************************************************************************)
(* Items and sequences of them.                                            *)
(***************************************************************************)
LEMMA Items ==
    /\ \A r \in Request : HeadOf(r) \in Item /\ HeadOf(r).is = "head" /\ HeadOf(r).of = r
    /\ \A h \in Header : HeadOf(h) \in Item /\ HeadOf(h).is = "head" /\ HeadOf(h).of = h
    /\ \A b \in BOOLEAN : Unit(b) \in Item /\ Unit(b).is = "unit" /\ Unit(b).blank = b
    /\ \A x \in Item : x.is # "head" => x.is = "unit" /\ x.blank \in BOOLEAN
BY DEF HeadOf, Unit, Item

LEMMA OneMore ==
    ASSUME NEW q \in Seq(Item), NEW x \in Item
    PROVE  /\ Append(q, x) \in Seq(Item) /\ Append(q, x) # <<>>
           /\ Len(Append(q, x)) = Len(q) + 1 /\ Append(q, x)[Len(q) + 1] = x
           /\ \A i \in 1 .. Len(q) : Append(q, x)[i] = q[i]
           /\ Units(q) /\ x.is = "unit" => Units(Append(q, x))
<1>1. /\ Append(q, x) \in Seq(Item)
      /\ Len(Append(q, x)) = Len(q) + 1 /\ Append(q, x)[Len(q) + 1] = x
      /\ \A i \in 1 .. Len(q) : Append(q, x)[i] = q[i]
  BY AppendProperties
<1>2. Len(q) \in Nat
  BY LenProperties
<1>3. Append(q, x) # <<>>
  BY <1>1, <1>2
<1>4. Units(q) /\ x.is = "unit" => Units(Append(q, x))
  BY <1>1, <1>2 DEF Units
<1> QED
  BY <1>1, <1>3, <1>4

LEMMA OneLess ==
    ASSUME NEW q \in Seq(Item), q # <<>>
    PROVE  /\ Tail(q) \in Seq(Item) /\ q[1] \in Item
           /\ Len(q) \in Nat /\ Len(q) > 0 /\ Len(Tail(q)) = Len(q) - 1
           /\ \A i \in 1 .. Len(q) - 1 : Tail(q)[i] = q[i + 1]
           /\ Units(q) => Units(Tail(q)) /\ q[1].is = "unit"
           /\ Tail(q) = <<>> <=> Len(q) = 1
<1>1. /\ Tail(q) \in Seq(Item) /\ Len(Tail(q)) = Len(q) - 1
      /\ \A i \in 1 .. Len(q) - 1 : Tail(q)[i] = q[i + 1]
      /\ Len(q) \in Nat /\ Len(q) > 0
  BY HeadTailProperties, EmptySeq, LenProperties
<1>2. q[1] \in Item
  BY <1>1, ElementOfSeq
<1>3. Units(q) => Units(Tail(q)) /\ q[1].is = "unit"
  BY <1>1 DEF Units
<1>4. Tail(q) = <<>> <=> Len(q) = 1
  <2>1. Tail(q) = <<>> <=> Len(Tail(q)) = 0
    BY <1>1, EmptySeq
  <2> QED
    BY <1>1, <2>1
<1> QED
  BY <1>1, <1>2, <1>3, <1>4

\* The tail of a longer sequence is a longer tail.
LEMMA TailOfMore ==
    ASSUME NEW q \in Seq(Item), q # <<>>, NEW x \in Item
    PROVE  Append(q, x)[1] = q[1] /\ Tail(Append(q, x)) = Append(Tail(q), x)
<1>1. /\ Append(q, x) \in Seq(Item) /\ Append(q, x) # <<>>
      /\ Len(Append(q, x)) = Len(q) + 1 /\ Append(q, x)[Len(q) + 1] = x
      /\ \A i \in 1 .. Len(q) : Append(q, x)[i] = q[i]
  BY OneMore
<1>2. /\ Tail(q) \in Seq(Item) /\ Len(q) \in Nat /\ Len(q) > 0 /\ Len(Tail(q)) = Len(q) - 1
      /\ \A i \in 1 .. Len(q) - 1 : Tail(q)[i] = q[i + 1]
  BY OneLess
<1>3. /\ Append(Tail(q), x) \in Seq(Item)
      /\ Len(Append(Tail(q), x)) = Len(q) /\ Append(Tail(q), x)[Len(q)] = x
      /\ \A i \in 1 .. Len(q) - 1 : Append(Tail(q), x)[i] = q[i + 1]
  <2>1. /\ Append(Tail(q), x) \in Seq(Item)
        /\ Len(Append(Tail(q), x)) = Len(Tail(q)) + 1
        /\ Append(Tail(q), x)[Len(Tail(q)) + 1] = x
        /\ \A i \in 1 .. Len(Tail(q)) : Append(Tail(q), x)[i] = Tail(q)[i]
    BY <1>2, OneMore
  <2> QED
    BY <1>2, <2>1
<1>4. /\ Tail(Append(q, x)) \in Seq(Item) /\ Len(Tail(Append(q, x))) = Len(q)
      /\ \A i \in 1 .. Len(q) : Tail(Append(q, x))[i] = Append(q, x)[i + 1]
  BY <1>1, <1>2, OneLess
<1>5. ASSUME NEW i \in 1 .. Len(q) PROVE Tail(Append(q, x))[i] = Append(Tail(q), x)[i]
  <2>1. CASE i = Len(q)
    BY <1>1, <1>2, <1>3, <1>4, <2>1
  <2>2. CASE i # Len(q)
    <3> DEFINE n == Len(q)
    <3>0. n \in Nat /\ i \in 1 .. n /\ i # n
      BY <1>2, <2>2
    <3> HIDE DEF n
    <3>1. i \in 1 .. n - 1 /\ i + 1 \in 1 .. n
      BY <3>0
    <3> USE DEF n
    <3> QED
      BY <1>1, <1>3, <1>4, <3>1
  <2> QED
    BY <2>1, <2>2
<1>6. Append(q, x)[1] = q[1]
  BY <1>1, <1>2
<1>7. Tail(Append(q, x)) = Append(Tail(q), x)
  BY <1>2, <1>3, <1>4, <1>5, SeqEqual
<1> QED
  BY <1>6, <1>7

LEMMA SomeLess ==
    ASSUME NEW q \in Seq(Item), NEW n \in 1 .. Len(q), Units(q)
    PROVE  /\ SubSeq(q, n + 1, Len(q)) \in Seq(Item)
           /\ Len(SubSeq(q, n + 1, Len(q))) = Len(q) - n
           /\ Units(SubSeq(q, n + 1, Len(q)))
<1>1. Len(q) \in Nat /\ n \in Nat /\ n <= Len(q) /\ n > 0
  BY LenProperties
<1>2. \A i \in n + 1 .. Len(q) : q[i] \in Item
  BY <1>1, ElementOfSeq
<1>3. /\ SubSeq(q, n + 1, Len(q)) \in Seq(Item)
      /\ Len(SubSeq(q, n + 1, Len(q))) = IF n + 1 <= Len(q) THEN Len(q) - (n + 1) + 1 ELSE 0
      /\ \A i \in 1 .. Len(q) - (n + 1) + 1 : SubSeq(q, n + 1, Len(q))[i] = q[(n + 1) + i - 1]
  BY <1>1, <1>2, SubSeqProperties
<1>4. \A i \in 1 .. Len(q) - n : q[(n + 1) + i - 1].is = "unit"
  BY <1>1 DEF Units
<1>5. Units(SubSeq(q, n + 1, Len(q)))
  BY <1>1, <1>3, <1>4 DEF Units
<1> QED
  BY <1>1, <1>3, <1>5

-----------------------------------------------------------------------------
(***************************************************************************)
(* The cache.                                                              *)
(***************************************************************************)
Facts == INSTANCE LRUStoreProofs WITH entries <- cache, result <- found

\* CacheWhole, of one pair.
Whole(e) ==
    /\ e.val.units = IF e.val.head.as.framing = "length" THEN e.val.head.as.len ELSE 0
    /\ e.val.head.as.ok /\ e.val.head.as.cachable
    /\ KeyOf(e.val.head.url) = e.key

LEMMA SameStore ==
    /\ \A s : Store!Fitting(s) = Facts!Fitting(s)
    /\ \A s, k : Store!Without(s, k) = Facts!Without(s, k)
    /\ Facts!Pair = Pairs
<1>1. \A s : Store!Total(s) = Facts!Total(s)
  BY Zenon DEF Store!Total, Facts!Total, Store!FoldLeft, Facts!FoldLeft,
               Store!MapThenFoldSet, Facts!MapThenFoldSet, Store!Max, Facts!Max
<1>2. \A s : Store!Fitting(s) = Facts!Fitting(s)
  BY <1>1, Zenon DEF Store!Fitting, Facts!Fitting
<1>3. \A s, k : Store!Without(s, k) = Facts!Without(s, k)
  BY Zenon DEF Store!Without, Facts!Without, Store!RemoveAt, Facts!RemoveAt
<1> QED
  BY <1>2, <1>3 DEF Facts!Pair, Pairs

LEMMA ValueFields ==
    ASSUME NEW v \in Value
    PROVE  /\ v.head \in Header /\ v.units \in 0 .. MaxLen
           /\ v.head.url \in Url /\ v.head.as \in Response
           /\ Size[v] = 1 + v.units /\ Size[v] \in Nat
BY SessionAssumption DEF Value, Header, Size

LEMMA SizeType == Size \in [Value -> Nat]
BY ValueFields DEF Size

LEMMA WithoutStays ==
    ASSUME NEW s \in Seq(Pairs), NEW k
    PROVE  /\ Store!Without(s, k) \in Seq(Pairs)
           /\ \A j \in DOMAIN Store!Without(s, k) :
                \E i \in DOMAIN s : Store!Without(s, k)[j] = s[i]
BY SameStore, Facts!WithoutElements

LEMMA AfterGet ==
    ASSUME cache \in Seq(Pairs), NEW s \in Session, NEW k, Store!Get(s, k),
           found \in [Session -> Value \cup {None}]
    PROVE  /\ cache' \in Seq(Pairs)
           /\ \A j \in DOMAIN cache' : \E i \in DOMAIN cache : cache'[j] = cache[i]
           /\ found' \in [Session -> Value \cup {None}]
           /\ \A t \in Session \ {s} : found'[t] = found[t]
           /\ found'[s] # None =>
                \E i \in DOMAIN cache : cache[i].key = k /\ cache[i].val = found'[s]
<1>1. CASE \E i \in DOMAIN cache :
             /\ cache[i].key = k
             /\ cache' = Append(Store!Without(cache, k), cache[i])
             /\ found' = [found EXCEPT ![s] = cache[i].val]
  <2>1. PICK i \in DOMAIN cache :
             /\ cache[i].key = k
             /\ cache' = Append(Store!Without(cache, k), cache[i])
             /\ found' = [found EXCEPT ![s] = cache[i].val]
    BY <1>1
  <2> DEFINE r == Store!Without(cache, k)
  <2>2. r \in Seq(Pairs) /\ \A j \in DOMAIN r : \E h \in DOMAIN cache : r[j] = cache[h]
    BY WithoutStays
  <2>3. cache[i] \in Pairs /\ cache[i].val \in Value
    <3>1. DOMAIN cache = 1 .. Len(cache)
      BY LenProperties
    <3>2. cache[i] \in Pairs
      BY <3>1, ElementOfSeq
    <3> QED
      BY <3>2 DEF Pairs
  <2>4. cache' = Append(r, cache[i])
    BY <2>1
  <2> HIDE DEF r
  <2>5. /\ cache' \in Seq(Pairs)
        /\ \A j \in DOMAIN cache' : \E h \in DOMAIN cache : cache'[j] = cache[h]
    <3>1. /\ cache' \in Seq(Pairs) /\ Len(cache') = Len(r) + 1
          /\ \A j \in 1 .. Len(r) : cache'[j] = r[j]
          /\ cache'[Len(r) + 1] = cache[i] /\ Len(r) \in Nat
      BY <2>2, <2>3, <2>4, AppendProperties, LenProperties
    <3>2. DOMAIN cache' = 1 .. Len(r) + 1 /\ DOMAIN r = 1 .. Len(r)
      BY <2>2, <3>1, LenProperties
    <3>3. \A j \in 1 .. Len(r) + 1 : j \in 1 .. Len(r) \/ j = Len(r) + 1
      BY <3>1
    <3> QED
      BY <2>2, <3>1, <3>2, <3>3
  <2> QED
    BY <2>1, <2>3, <2>5
<1>2. CASE found' = [found EXCEPT ![s] = None] /\ UNCHANGED cache
  BY <1>2
<1> QED
  BY <1>1, <1>2 DEF Store!Get

LEMMA AfterPut ==
    ASSUME cache \in Seq(Pairs), NEW s \in Session, NEW k \in Key, NEW v \in Value,
           Store!Put(s, k, v)
    PROVE  /\ cache' \in Seq(Pairs) /\ UNCHANGED found
           /\ \A j \in DOMAIN cache' : \/ \E i \in DOMAIN cache : cache'[j] = cache[i]
                                       \/ cache'[j] = [key |-> k, val |-> v]
<1> DEFINE p == [key |-> k, val |-> v]
           r == Store!Without(cache, k)
           a == Append(r, p)
<1>1. r \in Seq(Pairs) /\ \A j \in DOMAIN r : \E h \in DOMAIN cache : r[j] = cache[h]
  BY WithoutStays
<1>2. p \in Pairs
  BY DEF Pairs
<1>3. cache' = Store!Fitting(a) /\ UNCHANGED found
  BY DEF Store!Put
<1> HIDE DEF p, r
<1>4. /\ a \in Seq(Pairs) /\ DOMAIN a = 1 .. Len(r) + 1 /\ DOMAIN r = 1 .. Len(r)
      /\ \A j \in 1 .. Len(r) : a[j] = r[j]
      /\ a[Len(r) + 1] = p /\ Len(r) \in Nat
  <2>1. /\ a \in Seq(Pairs) /\ Len(a) = Len(r) + 1
        /\ \A j \in 1 .. Len(r) : a[j] = r[j]
        /\ a[Len(r) + 1] = p
    BY <1>1, <1>2, AppendProperties
  <2> HIDE DEF a
  <2> QED
    BY <1>1, <2>1, LenProperties
<1>5. \A j \in DOMAIN a : (\E i \in DOMAIN cache : a[j] = cache[i]) \/ a[j] = p
  <2>1. \A j \in 1 .. Len(r) + 1 : j \in 1 .. Len(r) \/ j = Len(r) + 1
    BY <1>4
  <2> HIDE DEF a
  <2> QED
    BY <1>1, <1>4, <2>1
<1> HIDE DEF a
<1>6. /\ Facts!Fitting(a) \in Seq(Pairs)
      /\ \A j \in DOMAIN Facts!Fitting(a) : \E i \in DOMAIN a : Facts!Fitting(a)[j] = a[i]
  BY <1>4, SameStore, SizeType, SessionAssumption, Facts!FittingElements
<1>7. cache' = Facts!Fitting(a)
  BY <1>3, SameStore
<1> QED
  BY <1>3, <1>5, <1>6, <1>7 DEF p

-----------------------------------------------------------------------------
(***************************************************************************)
(* A step of one session leaves the others alone.                          *)
(***************************************************************************)
LEMMA SameFlow ==
    ASSUME NEW s \in Session, Same(s), Flow(s)
    PROVE  Flow(s)'
<1>1. Answering(s)' /\ (server[s].alive => server[s].peer # None)'
  BY Zenon DEF Same, Flow, Answering
<1>2. (Ahead(s)' <=> Ahead(s)) /\ (Given(s)' <=> Given(s)) /\ (Asking(s)' <=> Asking(s))
  BY Zenon DEF Same, Ahead, Given, Asking
<1>3. Relayed(s)' <=> Relayed(s)
  BY <1>2, Zenon DEF Same, Relayed
<1>4. (Quiet(s)' <=> Quiet(s)) /\ (Waiting(s)' <=> Waiting(s))
  BY Zenon DEF Same, Quiet, Waiting
<1>5. /\ Rest(server[s], down[s], resp[s], body[s])' <=> Rest(server[s], down[s], resp[s], body[s])
      /\ Rest(server[s], Tail(down[s]), down[s][1].of, 0)'
           <=> Rest(server[s], Tail(down[s]), down[s][1].of, 0)
  BY Zenon DEF Same, Rest
<1>6. (Answered(s)' <=> Answered(s)) /\ (HasHead(s)' <=> HasHead(s))
  BY <1>5, Zenon DEF Same, Answered, HasHead
<1>7. AtStart(s)' /\ AtRequest(s)' /\ AtOpen(s)' /\ AtAnswer(s)'
  BY <1>2, <1>4, <1>6 DEF Same, Flow, AtStart, AtRequest, AtOpen, AtAnswer
<1>8. AtRelay(s)' /\ AtFinish(s)'
  BY <1>3, <1>4, <1>5, <1>6 DEF Same, Flow, AtRelay, AtFinish
<1> QED
  BY <1>1, <1>7, <1>8 DEF Flow

LEMMA Elsewhere ==
    ASSUME TypeOK, NEW t \in Session, Minion(t) \/ Peers(t), NEW s \in Session, s # t
    PROVE  Same(s)
<1>1. ASSUME End(t) PROVE Same(s)
  BY <1>1 DEF End, Goto, store, Same, TypeOK
<1>2. ASSUME Lookup(t) PROVE Same(s)
  <2>1. found'[s] = found[s]
    BY <1>2 DEF Lookup, Store!Get, store, TypeOK
  <2> QED
    BY <1>2, <2>1 DEF Lookup, Goto, Same, TypeOK
<1>3. ASSUME Finish(t) PROVE Same(s)
  <2>1. found'[s] = found[s]
    BY <1>3 DEF Finish, Store!Put, store, TypeOK
  <2> QED
    BY <1>3, <2>1 DEF Finish, Goto, Same, TypeOK
<1>4. CASE Minion(t)
  <2>1. CASE RequestEnds(t) \/ OpenFails(t) \/ ServerLost(t) \/ ClientLost(t) \/ Close(t)
    BY <1>1, <2>1 DEF RequestEnds, OpenFails, ServerLost, ClientLost, Close
  <2>2. CASE ReadRequest(t) \/ Hit(t)
    BY <2>2 DEF ReadRequest, Hit, Deliver, Goto, Take, store, Same, TypeOK
  <2>3. CASE Open(t)
    BY <2>3 DEF Open, Goto, store, Same, TypeOK
  <2>4. CASE Body(t) \/ BodyEnds(t)
    BY <2>4 DEF Body, BodyEnds, Goto, store, Same, TypeOK
  <2>5. CASE Answer(t) \/ Relay(t) \/ RelayEnds(t)
    BY <2>5 DEF Answer, Relay, RelayEnds, Deliver, Goto, Take, store, Same, TypeOK
  <2> QED
    BY <1>2, <1>3, <1>4, <2>1, <2>2, <2>3, <2>4, <2>5 DEF Minion
<1>5. CASE Peers(t)
  <2>1. CASE Connect(t) \/ ClientSends(t) \/ ClientDone(t) \/ ClientLeaves(t)
             \/ \E r \in Request : ClientAsks(t, r)
    BY <2>1 DEF Connect, ClientSends, ClientDone, ClientLeaves, ClientAsks, Goto, minion, store,
                Same, TypeOK
  <2>2. CASE (\E r \in Response : ServerAnswers(t, r)) \/ ServerGives(t) \/ ServerLeaves(t)
    <3>1. UNCHANGED <<pc, req, resp, body, closing, client, up, found>>
      BY <2>2, Zenon DEF ServerAnswers, ServerGives, ServerLeaves, minion, store
    <3>2. server'[s] = server[s]
      BY <2>2 DEF ServerAnswers, ServerGives, ServerLeaves, TypeOK
    <3>3. down'[s] = down[s]
      BY <2>2 DEF ServerAnswers, ServerGives, ServerLeaves, TypeOK
    <3> QED
      BY <3>1, <3>2, <3>3 DEF Same
  <2> QED
    BY <1>5, <2>1, <2>2 DEF Peers
<1> QED
  BY <1>4, <1>5

-----------------------------------------------------------------------------
(***************************************************************************)
(* The client.                                                             *)
(***************************************************************************)
LEMMA Typed ==
    ASSUME TypeOK, NEW t \in Session
    PROVE  /\ client[t] \in Clients /\ server[t] \in Servers
           /\ client[t].here \in BOOLEAN /\ client[t].want \in Request \cup {None}
           /\ client[t].unsent \in 0 .. MaxLen /\ client[t].unsent \in Nat
           /\ client[t].got \in Seq(Item) /\ Len(client[t].got) \in Nat
           /\ server[t].peer \in Origin \cup {None} /\ server[t].alive \in BOOLEAN
           /\ server[t].task \in Request \cup {None} /\ server[t].sofar \in Nat
           /\ server[t].giving \in Response \cup {None} /\ server[t].owed \in Nat
           /\ up[t] \in Seq(Item) /\ Len(up[t]) \in Nat
           /\ down[t] \in Seq(Item) /\ Len(down[t]) \in Nat
           /\ body[t] \in Nat
BY SessionAssumption, LenProperties DEF TypeOK, Clients, Servers

LEMMA RequestFields ==
    ASSUME NEW r \in Request
    PROVE  /\ r # None /\ r.len \in 0 .. MaxLen /\ r.len \in Nat /\ r.persistent \in BOOLEAN
           /\ r.method \in Method /\ r.url \in Url /\ r.url.origin \in Origin /\ r.url.file \in File
           /\ KeyOf(r.url) \in Key
BY SessionAssumption DEF Url, KeyOf, Key

LEMMA HeaderFields ==
    ASSUME NEW h \in Header
    PROVE  /\ h.url \in Url /\ h.as \in Response /\ h.as.len \in 0 .. MaxLen /\ h.as.len \in Nat
           /\ h.as.framing \in {"length", "chunked", "close"} /\ h.as.persistent \in BOOLEAN
           /\ h.as.framing = "chunked" => h.as.len > 0
BY SessionAssumption DEF Header

\* NoClient, and NoServer.
LEMMA Nobody ==
    /\ NoClient \in Clients /\ NoServer \in Servers
    /\ ~ NoClient.here /\ NoClient.want = None /\ NoClient.unsent = 0 /\ NoClient.got = <<>>
    /\ ~ NoServer.alive /\ NoServer.task = None /\ NoServer.owed = 0 /\ NoServer.peer = None
BY SessionAssumption DEF NoClient, NoServer, Clients, Servers

LEMMA ClientWants ==
    ASSUME NEW c \in Clients, NEW w \in Request, NEW n \in 0 .. MaxLen
    PROVE  [c EXCEPT !.want = w, !.unsent = n]
             = [here |-> c.here, want |-> w, unsent |-> n, got |-> c.got]
<1> DEFINE d == [c EXCEPT !.want = w]
<1>1. d = [here |-> c.here, want |-> w, unsent |-> c.unsent, got |-> c.got]
  BY DEF Clients
<1>2. [d EXCEPT !.unsent = n] = [here |-> c.here, want |-> w, unsent |-> n, got |-> c.got]
  <2> HIDE DEF d
  <2> QED
    BY <1>1
<1> QED
  BY <1>2

\* The types, by the variable.
Types ==
    /\ pc \in [Session -> PC]
    /\ req \in [Session -> Request \cup {None}]
    /\ resp \in [Session -> Header \cup {None}]
    /\ body \in [Session -> 0 .. MaxLen]
    /\ closing \in [Session -> BOOLEAN]
    /\ client \in [Session -> Clients]
    /\ server \in [Session -> Servers]
    /\ up \in [Session -> Seq(Item)]
    /\ down \in [Session -> Seq(Item)]
    /\ cache \in Seq(Pairs)
    /\ found \in [Session -> Value \cup {None}]

LEMMA SameTypes == (TypeOK <=> Types) /\ (TypeOK' <=> Types')
BY Zenon DEF TypeOK, Types, Clients, Servers, Pairs

LEMMA ConnectStep ==
    ASSUME TypeOK, NEW t \in Session, Flow(t), Connect(t)
    PROVE  TypeOK' /\ Flow(t)'
<1> DEFINE c == [NoClient EXCEPT !.here = TRUE]
<1>1. /\ c \in Clients /\ c.here /\ c.want = None /\ c.unsent = 0 /\ c.got = <<>>
  BY Nobody DEF Clients, NoClient
<1>2. TypeOK'
  <2>1. client' = [client EXCEPT ![t] = c]
    BY Zenon DEF Connect
  <2> HIDE DEF c
  <2>2. client' \in [Session -> Clients] /\ pc' \in [Session -> PC]
    <3>1. pc' = [pc EXCEPT ![t] = "request"] /\ "request" \in PC
      BY DEF Connect, Goto, PC
    <3> QED
      BY <1>1, <2>1, <3>1, SameTypes DEF Types
  <2> QED
    BY <2>2, SameTypes DEF Connect, store, Types
<1> HIDE DEF c
<1>3. /\ pc'[t] = "request" /\ client'[t] = c /\ UNCHANGED <<server, up, down>>
      /\ pc[t] = "none"
  BY DEF Connect, Goto, TypeOK, c
<1>4. up'[t] = <<>> /\ down'[t] = <<>> /\ server'[t] = NoServer
  BY <1>3 DEF Flow, AtStart
<1>5. Answering(t)' /\ Ahead(t)' /\ Quiet(t)'
  BY <1>1, <1>3, <1>4, Nobody DEF Answering, Ahead, Quiet
<1> QED
  BY <1>2, <1>3, <1>4, <1>5, Nobody
  DEF Flow, AtStart, AtRequest, AtOpen, AtAnswer, AtRelay, AtFinish

\* What a step of the client's leaves as it is.
LEMMA ServerSide ==
    ASSUME NEW t, UNCHANGED <<minion, server, down, store>>
    PROVE  /\ Quiet(t)' <=> Quiet(t)
           /\ HasHead(t)' <=> HasHead(t)
           /\ Rest(server[t], down[t], resp[t], body[t])'
                <=> Rest(server[t], down[t], resp[t], body[t])
           /\ Rest(server[t], Tail(down[t]), down[t][1].of, 0)'
                <=> Rest(server[t], Tail(down[t]), down[t][1].of, 0)
           /\ UNCHANGED <<pc, req, resp, body, closing, server, down, found, cache>>
BY Zenon DEF Quiet, HasHead, Rest, minion, store

LEMMA ClientAsksStep ==
    ASSUME TypeOK, NEW t \in Session, Flow(t), NEW r \in Request, ClientAsks(t, r)
    PROVE  TypeOK' /\ Flow(t)'
<1>1. /\ client[t].here /\ client[t].want = None /\ UNCHANGED <<minion, server, down, store>>
      /\ up' = [up EXCEPT ![t] = Append(@, HeadOf(r))]
      /\ client' = [client EXCEPT ![t].want = r, ![t].unsent = r.len]
  BY DEF ClientAsks
<1>2. /\ client'[t].here /\ client'[t].want = r /\ client'[t].unsent = r.len
      /\ client'[t].got = client[t].got /\ client' \in [Session -> Clients]
  <2> DEFINE c == [client[t] EXCEPT !.want = r, !.unsent = r.len]
  <2>1. /\ c \in Clients /\ c.here /\ c.want = r /\ c.unsent = r.len /\ c.got = client[t].got
    <3>1. /\ client[t] \in Clients /\ r.len \in 0 .. MaxLen /\ <<>> \in Seq(Item)
      BY Typed, RequestFields
    <3>2. c = [here |-> client[t].here, want |-> r, unsent |-> r.len, got |-> client[t].got]
      BY <3>1, ClientWants
    <3> QED
      BY <1>1, <3>1, <3>2 DEF Clients
  <2>2. client' = [client EXCEPT ![t] = c]
    BY <1>1, Zenon
  <2> HIDE DEF c
  <2> QED
    BY <2>1, <2>2, SameTypes DEF Types
<1>3. up'[t] = Append(up[t], HeadOf(r)) /\ up' \in [Session -> Seq(Item)]
  BY <1>1, Items, Typed, OneMore DEF TypeOK
<1>4. TypeOK'
  BY <1>1, <1>2, <1>3, SameTypes DEF minion, store, Types
<1>5. client[t].got = <<>> /\ Answering(t)'
  BY <1>1, <1>2, RequestFields DEF Flow, Answering
<1>6. Ahead(t) => up[t] = <<>>
  BY <1>1, RequestFields DEF Ahead
<1>7. Ahead(t) => Ahead(t)'
  <2> SUFFICES ASSUME Ahead(t) PROVE Ahead(t)'
    OBVIOUS
  <2>1. up[t] = <<>> /\ Len(up[t]) = 0 /\ up[t] \in Seq(Item)
    BY <1>6, Typed
  <2>2. /\ up'[t] \in Seq(Item) /\ up'[t] # <<>>
        /\ Len(up'[t]) = 1 /\ up'[t][1] = HeadOf(r)
    <3>1. /\ Append(up[t], HeadOf(r)) \in Seq(Item) /\ Append(up[t], HeadOf(r)) # <<>>
          /\ Len(Append(up[t], HeadOf(r))) = Len(up[t]) + 1
          /\ Append(up[t], HeadOf(r))[Len(up[t]) + 1] = HeadOf(r)
      BY <2>1, Items, OneMore
    <3> QED
      BY <1>3, <2>1, <3>1
  <2>3. Len(Tail(up'[t])) = 0 /\ Units(Tail(up'[t]))
    <3>1. Len(Tail(up'[t])) = Len(up'[t]) - 1
      BY <2>2, OneLess
    <3> QED
      BY <2>2, <3>1 DEF Units
  <2>4. up'[t][1].is = "head" /\ up'[t][1].of = r
    BY <2>2, Items
  <2>5. Len(Tail(up'[t])) + client'[t].unsent <= r.len
    <3>1. r.len \in Nat
      BY RequestFields
    <3>2. 0 + r.len <= r.len
      BY <3>1
    <3> QED
      BY <1>2, <2>3, <3>2, Zenon
  <2> QED
    BY <1>2, <1>5, <2>2, <2>3, <2>4, <2>5 DEF Ahead
<1>8. ~ Given(t)
  BY <1>1 DEF Given
<1>9. req[t] \in Request => ~ Asking(t)
  BY <1>1, RequestFields DEF Asking
<1>10. req[t] \in Request /\ Relayed(t) => Relayed(t)'
  <2> SUFFICES ASSUME req[t] \in Request, Relayed(t) PROVE Relayed(t)'
    OBVIOUS
  <2>1. Ahead(t) /\ body[t] = resp[t].as.len
    BY <1>1, RequestFields DEF Relayed
  <2> QED
    BY <1>1, <1>7, <2>1 DEF Relayed, minion
<1>11. /\ Quiet(t)' <=> Quiet(t)
       /\ HasHead(t)' <=> HasHead(t)
       /\ Rest(server[t], down[t], resp[t], body[t])'
            <=> Rest(server[t], down[t], resp[t], body[t])
  BY <1>1, ServerSide
<1>12. UNCHANGED <<pc, req, resp, body, closing, server, down, found>>
  BY <1>1 DEF minion, store
<1>13. AtStart(t)' /\ AtRequest(t)' /\ AtOpen(t)' /\ AtAnswer(t)'
  BY <1>1, <1>7, <1>8, <1>9, <1>11, <1>12, Nobody
  DEF Flow, AtStart, AtRequest, AtOpen, AtAnswer
<1>14. AtRelay(t)' /\ AtFinish(t)'
  BY <1>10, <1>11, <1>12 DEF Flow, AtRelay, AtFinish, HasHead
<1> QED
  BY <1>4, <1>5, <1>12, <1>13, <1>14 DEF Flow

LEMMA ClientSendsStep ==
    ASSUME TypeOK, NEW t \in Session, Flow(t), ClientSends(t)
    PROVE  TypeOK' /\ Flow(t)'
<1> DEFINE c == client[t]
           u == up[t]
           d == [c EXCEPT !.unsent = @ - 1]
           w == Append(u, Unit(FALSE))
<1>1. /\ c.unsent > 0 /\ UNCHANGED <<minion, server, down, store>>
      /\ up' = [up EXCEPT ![t] = w] /\ client' = [client EXCEPT ![t] = d]
  BY Zenon DEF ClientSends
<1>2. /\ d \in Clients /\ d.here = c.here /\ d.want = c.want /\ d.got = c.got
      /\ d.unsent = c.unsent - 1 /\ c.unsent - 1 \in 0 .. MaxLen
  <2>1. c \in Clients /\ c.unsent \in 0 .. MaxLen
    BY Typed
  <2>2. c.unsent - 1 \in 0 .. MaxLen
    BY <1>1, <2>1, SessionAssumption
  <2>3. d = [here |-> c.here, want |-> c.want, unsent |-> c.unsent - 1, got |-> c.got]
    <3> HIDE DEF c
    <3> QED
      BY <2>1 DEF Clients
  <2> QED
    BY <2>1, <2>2, <2>3 DEF Clients
<1>3. /\ w \in Seq(Item) /\ w # <<>> /\ Len(w) = Len(u) + 1
      /\ Units(u) => Units(w)
      /\ u # <<>> => w[1] = u[1] /\ Tail(w) = Append(Tail(u), Unit(FALSE))
  <2>1. Unit(FALSE) \in Item /\ Unit(FALSE).is = "unit" /\ u \in Seq(Item)
    BY Items, Typed
  <2>2. /\ w \in Seq(Item) /\ w # <<>> /\ Len(w) = Len(u) + 1
        /\ Units(u) => Units(w)
    BY <2>1, OneMore
  <2> QED
    BY <2>1, <2>2, TailOfMore
<1>4. /\ client' \in [Session -> Clients] /\ client'[t] = d
      /\ up' \in [Session -> Seq(Item)] /\ up'[t] = w
  <2> HIDE DEF d, w
  <2> QED
    BY <1>1, <1>2, <1>3, SameTypes DEF Types
<1>5. TypeOK'
  BY <1>1, <1>4, SameTypes DEF minion, store, Types
<1> HIDE DEF d, w
<1>6. c.want # None /\ c.here
  BY <1>1, Nobody, Typed DEF Flow, Answering
<1>7. Answering(t)'
  BY <1>2, <1>4, <1>6 DEF Flow, Answering
<1>8. Ahead(t) => Ahead(t)'
  <2> SUFFICES ASSUME Ahead(t) PROVE Ahead(t)'
    OBVIOUS
  <2>1. /\ u # <<>> /\ u[1].is = "head" /\ u[1].of \in Request /\ c.want = u[1].of
        /\ Units(Tail(u)) /\ Len(Tail(u)) + c.unsent <= u[1].of.len /\ c.got = <<>>
    BY <1>6 DEF Ahead
  <2>2. /\ Tail(u) \in Seq(Item) /\ Len(Tail(u)) \in Nat
    BY <2>1, Typed, OneLess, LenProperties
  <2>3. Units(Tail(w)) /\ Len(Tail(w)) = Len(Tail(u)) + 1
    <3>1. Unit(FALSE) \in Item /\ Unit(FALSE).is = "unit"
      BY Items
    <3>2. Tail(w) = Append(Tail(u), Unit(FALSE))
      BY <1>3, <2>1
    <3> QED
      BY <2>1, <2>2, <3>1, <3>2, OneMore
  <2>4. Len(Tail(w)) + d.unsent = Len(Tail(u)) + c.unsent
    BY <1>2, <2>2, <2>3, Typed
  <2>5. w[1] = u[1]
    BY <1>3, <2>1
  <2> QED
    BY <1>2, <1>3, <1>4, <2>1, <2>3, <2>4, <2>5 DEF Ahead
<1>9. ~ Given(t) /\ ~ Answered(t)
  BY <1>1 DEF Given, Answered
<1>10. Len(w) + d.unsent = Len(u) + c.unsent
  <2>1. Len(u) \in Nat /\ c.unsent \in Nat
    BY Typed
  <2>2. Len(w) = Len(u) + 1 /\ d.unsent = c.unsent - 1
    BY <1>2, <1>3
  <2> HIDE DEF c, u
  <2> QED
    BY <2>1, <2>2
<1>11. UNCHANGED <<pc, req, resp, body, closing, server, down, found, cache>>
  BY <1>1, ServerSide
<1>12. Asking(t) => Asking(t)'
  BY <1>2, <1>3, <1>4, <1>10, <1>11 DEF Asking
<1>13. Waiting(t) => Waiting(t)'
  <2>1. \A n \in Nat : n + Len(w) + d.unsent = n + Len(u) + c.unsent
    BY <1>2, <1>3, <1>10, Typed
  <2>2. server[t].sofar \in Nat
    BY Typed
  <2> QED
    BY <1>4, <1>11, <2>1, <2>2 DEF Waiting
<1>14. Relayed(t) => Relayed(t)'
  <2>1. Relayed(t) => Ahead(t) /\ body[t] = resp[t].as.len
    BY <1>1, <1>6 DEF Relayed
  <2> QED
    BY <1>8, <1>11, <2>1 DEF Relayed
<1>15. /\ Quiet(t)' <=> Quiet(t)
       /\ HasHead(t)' <=> HasHead(t)
       /\ Rest(server[t], down[t], resp[t], body[t])'
            <=> Rest(server[t], down[t], resp[t], body[t])
  BY <1>1, ServerSide
<1>16. pc[t] # "none"
  BY <1>6, Nobody DEF Flow, AtStart
<1>17. AtStart(t)' /\ AtRequest(t)' /\ AtOpen(t)' /\ AtAnswer(t)'
  BY <1>8, <1>9, <1>11, <1>12, <1>13, <1>15, <1>16
  DEF Flow, AtStart, AtRequest, AtOpen, AtAnswer
<1>18. AtRelay(t)' /\ AtFinish(t)'
  BY <1>11, <1>14, <1>15 DEF Flow, AtRelay, AtFinish
<1> QED
  BY <1>5, <1>7, <1>11, <1>17, <1>18 DEF Flow

\* The client goes, or goes on.
LEMMA ClientOverStep ==
    ASSUME TypeOK, NEW t \in Session, Flow(t), ClientDone(t) \/ ClientLeaves(t)
    PROVE  TypeOK' /\ Flow(t)'
<1>1. PICK c \in Clients :
        /\ client' = [client EXCEPT ![t] = c]
        /\ c.want = None /\ c.unsent = 0 /\ c.got = <<>>
        /\ ~ c.here => c = NoClient
        /\ c.here => ClientDone(t)
  <2>1. CASE ClientDone(t)
    <3> DEFINE c == [NoClient EXCEPT !.here = client[t].want.persistent]
    <3>1. client[t].want \in Request
      BY <2>1, Typed DEF ClientDone, Flow, Answering
    <3>2. client[t].want.persistent \in BOOLEAN
      BY <3>1, RequestFields
    <3>3. c = [here |-> client[t].want.persistent, want |-> None, unsent |-> 0, got |-> <<>>]
      BY DEF NoClient
    <3>4. /\ c.want = None /\ c.unsent = 0 /\ c.got = <<>> /\ c.here = client[t].want.persistent
          /\ c \in Clients
      <4>1. <<>> \in Seq(Item) /\ 0 \in 0 .. MaxLen
        BY SessionAssumption
      <4> HIDE DEF c
      <4> QED
        BY <3>2, <3>3, <4>1 DEF Clients
    <3>6. ~ c.here => c = NoClient
      BY <3>2, <3>3, <3>4, Zenon DEF NoClient
    <3>5. client' = [client EXCEPT ![t] = c]
      BY <2>1, Zenon DEF ClientDone
    <3> HIDE DEF c
    <3> QED
      BY <2>1, <3>4, <3>5, <3>6
  <2>2. CASE ClientLeaves(t)
    BY <2>2, Nobody DEF ClientLeaves
  <2> QED
    BY <2>1, <2>2
<1>2. UNCHANGED <<minion, server, up, down, store>>
  BY DEF ClientDone, ClientLeaves
<1>3. client'[t] = c /\ client' \in [Session -> Clients]
  BY <1>1, SameTypes DEF Types
<1>4. TypeOK'
  BY <1>2, <1>3, SameTypes DEF minion, store, Types
<1>5. Answering(t)'
  BY <1>1, <1>3 DEF Answering
<1>6. UNCHANGED <<pc, req, resp, body, closing, server, up, down, found, cache>>
  BY <1>2 DEF minion, store
<1>7. c.here => Len(client[t].got) = 1 + client[t].got[1].of.as.len /\ client[t].got # <<>>
  BY <1>1 DEF ClientDone
<1>8. up[t] = <<>> => Ahead(t)'
  BY <1>1, <1>3, <1>6 DEF Ahead
<1>9. Given(t) => Ahead(t)'
  BY <1>8 DEF Given
<1>10. Ahead(t) => Ahead(t)' /\ ~ c.here
  <2> SUFFICES ASSUME Ahead(t) PROVE Ahead(t)' /\ ~ c.here
    OBVIOUS
  <2>1. ~ c.here
    BY <1>7 DEF Ahead
  <2>2. up[t] # <<>> => Len(Tail(up[t])) + 0 <= up[t][1].of.len
    <3> SUFFICES ASSUME up[t] # <<>> PROVE Len(Tail(up[t])) + 0 <= up[t][1].of.len
      OBVIOUS
    <3>1. Len(Tail(up[t])) \in Nat
      BY Typed, OneLess, LenProperties
    <3>2. Len(Tail(up[t])) + client[t].unsent <= up[t][1].of.len /\ up[t][1].of \in Request
      BY DEF Ahead
    <3>3. up[t][1].of.len \in Nat /\ client[t].unsent \in Nat
      BY <3>2, Typed, RequestFields
    <3> QED
      BY <3>1, <3>2, <3>3
  <2>3. Ahead(t)'
    BY <1>1, <1>3, <1>6, <2>1, <2>2 DEF Ahead
  <2> QED
    BY <2>1, <2>3
<1>11. Asking(t) /\ req[t] \in Request => Asking(t)' /\ ~ c.here
  <2> SUFFICES ASSUME Asking(t), req[t] \in Request PROVE Asking(t)' /\ ~ c.here
    OBVIOUS
  <2>1. ~ c.here
    BY <1>7 DEF Asking
  <2>2. Len(up[t]) + 0 <= req[t].len
    <3>1. req[t].len \in Nat /\ client[t].unsent \in Nat /\ Len(up[t]) \in Nat
      BY Typed, RequestFields
    <3>2. Len(up[t]) + client[t].unsent <= req[t].len
      BY DEF Asking
    <3> QED
      BY <3>1, <3>2
  <2>3. Asking(t)'
    BY <1>1, <1>3, <1>6, <2>1, <2>2 DEF Asking
  <2> QED
    BY <2>1, <2>3
<1>12. Waiting(t) /\ req[t] \in Request => Waiting(t)'
  <2> SUFFICES ASSUME Waiting(t), req[t] \in Request, server[t].alive PROVE Waiting(t)'
    BY <1>6 DEF Waiting
  <2>1. /\ req[t].len \in Nat /\ client[t].unsent \in Nat /\ Len(up[t]) \in Nat
        /\ server[t].sofar \in Nat
    BY Typed, RequestFields
  <2>2. server[t].sofar + Len(up[t]) + client[t].unsent <= req[t].len
    BY DEF Waiting
  <2>3. server[t].sofar + Len(up[t]) + 0 <= req[t].len
    BY <2>1, <2>2
  <2> QED
    BY <1>1, <1>3, <1>6, <2>3 DEF Waiting
<1>13. /\ Quiet(t)' <=> Quiet(t)
       /\ HasHead(t)' <=> HasHead(t)
       /\ Rest(server[t], down[t], resp[t], body[t])'
            <=> Rest(server[t], down[t], resp[t], body[t])
       /\ Rest(server[t], Tail(down[t]), down[t][1].of, 0)'
            <=> Rest(server[t], Tail(down[t]), down[t][1].of, 0)
  BY <1>2, ServerSide
<1>14. Answered(t) => Answered(t)'
  BY <1>1, <1>3, <1>6, <1>13 DEF Answered
<1>15. Relayed(t) /\ HasHead(t) => Relayed(t)'
  <2> SUFFICES ASSUME Relayed(t), HasHead(t) PROVE Relayed(t)'
    OBVIOUS
  <2>1. CASE Ahead(t)
    BY <1>3, <1>6, <1>10, <2>1 DEF Relayed
  <2>2. CASE ~ Ahead(t)
    <3>1. /\ up[t] = <<>> /\ client[t].got[1] = HeadOf(resp[t])
          /\ Len(client[t].got) = 1 + body[t]
      BY <2>2 DEF Relayed
    <3>2. client[t].got[1].of = resp[t] /\ resp[t].as.len \in Nat /\ body[t] \in Nat
      BY <3>1, Items, Typed, HeaderFields DEF HasHead
    <3>3. c.here => body[t] = resp[t].as.len
      <4>1. c.here => 1 + body[t] = 1 + resp[t].as.len
        BY <1>7, <3>1, <3>2
      <4> QED
        BY <3>2, <4>1
    <3> QED
      BY <1>3, <1>6, <1>8, <3>1, <3>3 DEF Relayed
  <2> QED
    BY <2>1, <2>2
<1>16. pc[t] = "none" => ~ c.here
  BY <1>7, Nobody DEF Flow, AtStart
<1>17. AtStart(t)' /\ AtRequest(t)' /\ AtOpen(t)' /\ AtAnswer(t)'
  BY <1>1, <1>3, <1>6, <1>9, <1>10, <1>11, <1>12, <1>13, <1>14, <1>16
  DEF Flow, AtStart, AtRequest, AtOpen, AtAnswer
<1>18. AtRelay(t)' /\ AtFinish(t)'
  BY <1>6, <1>13, <1>15 DEF Flow, AtRelay, AtFinish
<1> QED
  BY <1>4, <1>5, <1>6, <1>17, <1>18 DEF Flow

-----------------------------------------------------------------------------
(***************************************************************************)
(* The server.                                                             *)
(***************************************************************************)
\* What the steps make of a server.
Turned(v, r, n, b) == [v EXCEPT !.task = None, !.giving = r, !.owed = n, !.alive = b]
GoneOn(v, n, b)    == [v EXCEPT !.owed = n, !.alive = b]
Gone(v, b)         == [v EXCEPT !.alive = b]
Asked(v, r, n)     == [v EXCEPT !.task = r, !.sofar = n]
Sent(v, n)         == [v EXCEPT !.sofar = n]

LEMMA IsTurned ==
    ASSUME NEW v \in Servers, NEW r, NEW n, NEW b
    PROVE  Turned(v, r, n, b) = [peer |-> v.peer, alive |-> b, task |-> None, sofar |-> v.sofar,
                              giving |-> r, owed |-> n]
<1> DEFINE e == [v EXCEPT !.task = None]
           f == [e EXCEPT !.giving = r]
           h == [f EXCEPT !.owed = n]
<1>1. e = [peer |-> v.peer, alive |-> v.alive, task |-> None, sofar |-> v.sofar,
           giving |-> v.giving, owed |-> v.owed]
  BY DEF Servers
<1>2. f = [peer |-> v.peer, alive |-> v.alive, task |-> None, sofar |-> v.sofar,
           giving |-> r, owed |-> v.owed]
  <2> HIDE DEF e
  <2> QED
    BY <1>1
<1>3. h = [peer |-> v.peer, alive |-> v.alive, task |-> None, sofar |-> v.sofar,
           giving |-> r, owed |-> n]
  <2> HIDE DEF f
  <2> QED
    BY <1>2
<1>4. [h EXCEPT !.alive = b] = [peer |-> v.peer, alive |-> b, task |-> None, sofar |-> v.sofar,
                                giving |-> r, owed |-> n]
  <2> HIDE DEF h
  <2> QED
    BY <1>3
<1> QED
  BY <1>4 DEF Turned

LEMMA IsGoneOn ==
    ASSUME NEW v \in Servers, NEW r, NEW n, NEW b
    PROVE  GoneOn(v, n, b) = [peer |-> v.peer, alive |-> b, task |-> v.task, sofar |-> v.sofar,
                              giving |-> v.giving, owed |-> n]
<1> DEFINE e == [v EXCEPT !.owed = n]
<1>1. e = [peer |-> v.peer, alive |-> v.alive, task |-> v.task, sofar |-> v.sofar,
                              giving |-> v.giving, owed |-> n]
  BY DEF Servers
<1>2. [e EXCEPT !.alive = b] = [peer |-> v.peer, alive |-> b, task |-> v.task, sofar |-> v.sofar,
                              giving |-> v.giving, owed |-> n]
  <2> HIDE DEF e
  <2> QED
    BY <1>1
<1> QED
  BY <1>2 DEF GoneOn

LEMMA IsGone ==
    ASSUME NEW v \in Servers, NEW r, NEW n, NEW b
    PROVE  Gone(v, b) = [peer |-> v.peer, alive |-> b, task |-> v.task, sofar |-> v.sofar,
                              giving |-> v.giving, owed |-> v.owed]
BY DEF Servers, Gone

LEMMA IsAsked ==
    ASSUME NEW v \in Servers, NEW r, NEW n, NEW b
    PROVE  Asked(v, r, n) = [peer |-> v.peer, alive |-> v.alive, task |-> r, sofar |-> n,
                              giving |-> v.giving, owed |-> v.owed]
<1> DEFINE e == [v EXCEPT !.task = r]
<1>1. e = [peer |-> v.peer, alive |-> v.alive, task |-> r, sofar |-> v.sofar,
                              giving |-> v.giving, owed |-> v.owed]
  BY DEF Servers
<1>2. [e EXCEPT !.sofar = n] = [peer |-> v.peer, alive |-> v.alive, task |-> r, sofar |-> n,
                              giving |-> v.giving, owed |-> v.owed]
  <2> HIDE DEF e
  <2> QED
    BY <1>1
<1> QED
  BY <1>2 DEF Asked

LEMMA IsSent ==
    ASSUME NEW v \in Servers, NEW r, NEW n, NEW b
    PROVE  Sent(v, n) = [peer |-> v.peer, alive |-> v.alive, task |-> v.task, sofar |-> n,
                              giving |-> v.giving, owed |-> v.owed]
BY DEF Servers, Sent

\* What a step of the server's leaves as it is.
LEMMA ClientSide ==
    ASSUME NEW t, UNCHANGED <<minion, client, up, store>>
    PROVE  /\ Answering(t)' <=> Answering(t)
           /\ Ahead(t)' <=> Ahead(t)
           /\ Given(t)' <=> Given(t)
           /\ Asking(t)' <=> Asking(t)
           /\ Relayed(t)' <=> Relayed(t)
           /\ HasHead(t)' <=> HasHead(t)
           /\ UNCHANGED <<pc, req, resp, body, closing, client, up, found, cache>>
<1>1. UNCHANGED <<pc, req, resp, body, closing, client, up, found, cache>>
  BY DEF minion, store
<1>2. (Answering(t)' <=> Answering(t)) /\ (Ahead(t)' <=> Ahead(t))
  BY <1>1, Zenon DEF Answering, Ahead
<1>3. (Given(t)' <=> Given(t)) /\ (Asking(t)' <=> Asking(t)) /\ (HasHead(t)' <=> HasHead(t))
  BY <1>1, Zenon DEF Given, Asking, HasHead
<1>4. Relayed(t)' <=> Relayed(t)
  BY <1>1, <1>2, Zenon DEF Relayed
<1> QED
  BY <1>1, <1>2, <1>3, <1>4

LEMMA ServerAnswersStep ==
    ASSUME TypeOK, NEW t \in Session, Flow(t), NEW r \in Response, ServerAnswers(t, r)
    PROVE  TypeOK' /\ Flow(t)'
<1> DEFINE v == server[t]
           h == [method |-> v.task.method,
                 url |-> [origin |-> v.peer, file |-> v.task.url.file], as |-> r]
           d == Append(down[t], HeadOf(h))
<1>1. /\ v.alive /\ v.task # None /\ v.task.len = v.sofar
      /\ UNCHANGED <<minion, client, up, store>>
      /\ down' = [down EXCEPT ![t] = d]
  BY Zenon DEF ServerAnswers
<1>2. v \in Servers /\ v.peer \in Origin /\ v.task \in Request
  BY <1>1, Typed DEF Flow
<1>3. r.len \in 0 .. MaxLen /\ r.len \in Nat
  BY SessionAssumption
<1>4. PICK b \in BOOLEAN :
        server' = [server EXCEPT ![t] =
                    [v EXCEPT !.task = None, !.giving = r, !.owed = r.len, !.alive = b]]
  <2>1. server' = [server EXCEPT ![t] = [v EXCEPT !.task = None, !.giving = r, !.owed = r.len,
                                                  !.alive = r.len > 0 \/ r.persistent]]
    BY Zenon DEF ServerAnswers
  <2>2. CASE r.len > 0 \/ r.persistent
    BY <2>1, <2>2
  <2>3. CASE ~ (r.len > 0 \/ r.persistent)
    BY <2>1, <2>3
  <2> QED
    BY <2>2, <2>3
<1> DEFINE w == Turned(v, r, r.len, b)
<1>5. /\ w \in Servers /\ w.task = None /\ w.giving = r /\ w.owed = r.len /\ w.peer = v.peer
      /\ server' = [server EXCEPT ![t] = w]
  <2>1. w = [peer |-> v.peer, alive |-> b, task |-> None, sofar |-> v.sofar,
             giving |-> r, owed |-> r.len]
    BY <1>2, IsTurned
  <2>2. server' = [server EXCEPT ![t] = w]
    BY <1>4, Zenon DEF Turned
  <2> HIDE DEF w
  <2> QED
    BY <1>2, <1>3, <2>1, <2>2 DEF Servers
<1>6. /\ h \in Header /\ h.as = r /\ h.method = v.task.method
      /\ h.url = [origin |-> v.peer, file |-> v.task.url.file]
  BY <1>2, RequestFields DEF Header, Url
<1> HIDE DEF w, h
<1>7. /\ d \in Seq(Item) /\ Len(d) = Len(down[t]) + 1 /\ d[Len(down[t]) + 1] = HeadOf(h)
      /\ d # <<>>
  BY <1>6, Items, Typed, OneMore
<1> HIDE DEF d
<1>8. /\ server' \in [Session -> Servers] /\ server'[t] = w
      /\ down' \in [Session -> Seq(Item)] /\ down'[t] = d
  BY <1>1, <1>5, <1>7, SameTypes DEF Types
<1>9. /\ Answering(t)' <=> Answering(t)
      /\ Asking(t)' <=> Asking(t)
      /\ Relayed(t)' <=> Relayed(t)
      /\ HasHead(t)' <=> HasHead(t)
      /\ UNCHANGED <<pc, req, resp, body, closing, client, up, found, cache>>
  BY <1>1, ClientSide
<1>10. TypeOK'
  BY <1>8, <1>9, SameTypes DEF Types
<1>11. server'[t].peer # None
  BY <1>2, <1>5, <1>8, SessionAssumption
<1>12. ~ Quiet(t) /\ ~ Answered(t)
  BY <1>1 DEF Quiet, Answered
<1>13. pc[t] \notin {"none", "request", "lookup", "hit", "open", "relay"}
  BY <1>1, <1>12, Nobody DEF Flow, AtStart, AtRequest, AtOpen, AtRelay
<1>14. pc[t] # "body"
  <2> SUFFICES ASSUME pc[t] = "body" PROVE FALSE
    OBVIOUS
  <2>1. Waiting(t) /\ req[t].len > 0 /\ v.sofar = 0
    BY <1>1 DEF Flow, AtAnswer
  <2>2. v.task = req[t]
    BY <1>1, <2>1 DEF Waiting
  <2> QED
    BY <1>1, <2>1, <2>2
<1>15. ASSUME pc[t] = "answer" PROVE Answered(t)'
  <2>1. /\ req[t] \in Request /\ v.peer = req[t].url.origin /\ Waiting(t)
    BY <1>12, <1>15 DEF Flow, AtAnswer
  <2>2. /\ down[t] = <<>> /\ v.task = req[t]
        /\ v.sofar + Len(up[t]) + client[t].unsent <= req[t].len
    BY <1>1, <2>1 DEF Waiting
  <2>3. up[t] = <<>> /\ client[t].unsent = 0
    <3>1. v.sofar \in Nat /\ Len(up[t]) \in Nat /\ client[t].unsent \in Nat /\ up[t] \in Seq(Item)
      BY Typed
    <3>2. v.sofar + Len(up[t]) + client[t].unsent <= v.sofar
      BY <1>1, <2>2
    <3>3. Len(up[t]) = 0 /\ client[t].unsent = 0
      <4> HIDE DEF v
      <4> QED
        BY <3>1, <3>2
    <3> QED
      BY <3>1, <3>3, EmptySeq
  <2>4. Len(d) = 1 /\ d[1] = HeadOf(h)
    <3>1. Len(down[t]) = 0
      BY <2>2
    <3> QED
      BY <1>7, <3>1
  <2>5. d[1].is = "head" /\ d[1].of = h
    BY <1>6, <2>4, Items
  <2>6. h.url = req[t].url /\ h.method = req[t].method
    BY <1>6, <2>1, <2>2, RequestFields DEF Url
  <2>7. Tail(d) \in Seq(Item) /\ Len(Tail(d)) = 0 /\ Tail(d) = <<>>
    BY <1>7, <2>4, OneLess
  <2>8. 0 + 0 + r.len = r.len
    BY <1>3
  <2>9. Tail(down'[t]) = <<>> /\ Len(Tail(down'[t])) = 0 /\ down'[t][1].of = h
    BY <1>8, <2>5, <2>7
  <2>10. Rest(server[t], Tail(down[t]), down[t][1].of, 0)'
    <3>1. Units(Tail(down'[t]))
      BY <2>9 DEF Units
    <3>2. server'[t].giving = h.as /\ server'[t].owed = r.len /\ h.as.len = r.len
      BY <1>5, <1>6, <1>8
    <3>3. 0 + Len(Tail(down'[t])) + server'[t].owed = h.as.len
      BY <2>8, <2>9, <3>2, Zenon
    <3>4. \A i \in 1 .. Len(Tail(down'[t])) : FALSE
      <4>1. \A i \in 1 .. 0 : FALSE
        OBVIOUS
      <4> QED
        BY <2>9, <4>1, Zenon
    <3> QED
      BY <1>6, <2>9, <3>1, <3>2, <3>3, <3>4, Zenon DEF Rest
  <2> QED
    BY <1>5, <1>6, <1>7, <1>8, <1>9, <2>3, <2>5, <2>6, <2>10 DEF Answered
<1>16. AtStart(t)' /\ AtRequest(t)' /\ AtOpen(t)' /\ AtRelay(t)'
  BY <1>9, <1>13 DEF AtStart, AtRequest, AtOpen, AtRelay
<1>17. AtAnswer(t)'
  BY <1>5, <1>8, <1>9, <1>14, <1>15 DEF Flow, AtAnswer
<1>18. AtFinish(t)'
  BY <1>9, <1>12 DEF Flow, AtFinish
<1> QED
  BY <1>9, <1>10, <1>11, <1>16, <1>17, <1>18 DEF Flow

\* A unit more has arrived.
LEMMA RestMore ==
    ASSUME NEW v \in Servers, NEW w \in Servers, NEW h \in Header, NEW n \in Nat,
           NEW q \in Seq(Item), Rest(v, q, h, n), v.owed > 0, NEW bl \in BOOLEAN,
           bl => h.as.framing = "chunked", v.owed = 1 /\ h.as.framing = "chunked" => bl,
           w.owed = v.owed - 1, w.giving = v.giving
    PROVE  Rest(w, Append(q, Unit(bl)), h, n)
<1> DEFINE r == Append(q, Unit(bl))
<1>1. Unit(bl) \in Item /\ Unit(bl).is = "unit" /\ Unit(bl).blank = bl
  BY Items
<1>2. /\ r \in Seq(Item) /\ Len(r) = Len(q) + 1 /\ r[Len(q) + 1] = Unit(bl)
      /\ \A i \in 1 .. Len(q) : r[i] = q[i]
      /\ Units(q) => Units(r)
  BY <1>1, OneMore
<1> HIDE DEF r
<1>3. /\ Units(q) /\ n + Len(q) + v.owed = h.as.len /\ v.giving = h.as
      /\ \A i \in 1 .. Len(q) : q[i].blank => h.as.framing = "chunked"
  BY DEF Rest
<1>4. Len(q) \in Nat /\ v.owed \in Nat
  BY LenProperties, SessionAssumption DEF Servers
<1>5. n + Len(r) + w.owed = h.as.len
  <2>1. n + (Len(q) + 1) + (v.owed - 1) = n + Len(q) + v.owed
    BY <1>4
  <2> QED
    BY <1>2, <1>3, <2>1
<1>6. ASSUME NEW i \in 1 .. Len(r), r[i].blank PROVE h.as.framing = "chunked"
  <2>1. i \in 1 .. Len(q) \/ i = Len(q) + 1
    BY <1>2, <1>4
  <2> QED
    BY <1>1, <1>2, <1>3, <1>6, <2>1
<1>7. h.as.framing = "chunked" /\ w.owed = 0 => r[Len(r)].blank
  <2>1. w.owed = 0 => v.owed = 1
    BY <1>4
  <2> QED
    BY <1>1, <1>2, <2>1
<1> QED
  BY <1>2, <1>3, <1>5, <1>6, <1>7 DEF Rest, r

\* The first of them is read.
LEMMA RestLess ==
    ASSUME NEW v \in Servers, NEW h \in Header, NEW n \in Nat,
           NEW q \in Seq(Item), q # <<>>, Rest(v, q, h, n)
    PROVE  /\ Rest(v, Tail(q), h, n + 1)
           /\ q[1] \in Item /\ q[1].is = "unit" /\ n + 1 <= h.as.len
           /\ q[1].blank => h.as.framing = "chunked"
           /\ h.as.framing = "chunked" /\ ~ q[1].blank => n + 1 < h.as.len
<1> DEFINE r == Tail(q)
<1>1. /\ r \in Seq(Item) /\ q[1] \in Item /\ Len(q) \in Nat /\ Len(q) > 0 /\ Len(r) = Len(q) - 1
      /\ \A i \in 1 .. Len(q) - 1 : r[i] = q[i + 1]
      /\ Units(q) => Units(r) /\ q[1].is = "unit"
      /\ r = <<>> <=> Len(q) = 1
  BY OneLess
<1> HIDE DEF r
<1>2. /\ Units(q) /\ n + Len(q) + v.owed = h.as.len /\ v.giving = h.as
      /\ \A i \in 1 .. Len(q) : q[i].blank => h.as.framing = "chunked"
      /\ h.as.framing = "chunked" /\ v.owed = 0 => q[Len(q)].blank
  BY DEF Rest
<1>3. v.owed \in Nat /\ h.as.len \in Nat
  BY HeaderFields, SessionAssumption DEF Servers
<1>4. (n + 1) + Len(r) + v.owed = h.as.len /\ n + 1 <= h.as.len
  <2>1. (n + 1) + (Len(q) - 1) + v.owed = n + Len(q) + v.owed
    BY <1>1, <1>3
  <2>2. n + 1 <= n + Len(q) + v.owed
    BY <1>1, <1>3
  <2> QED
    BY <1>1, <1>2, <2>1, <2>2
<1>5. \A i \in 1 .. Len(r) : r[i].blank => h.as.framing = "chunked"
  <2>1. \A i \in 1 .. Len(q) - 1 : i + 1 \in 1 .. Len(q)
    BY <1>1
  <2> QED
    BY <1>1, <1>2, <2>1
<1>6. r # <<>> => r[Len(r)] = q[Len(q)]
  <2>1. \/ Len(q) - 1 \in 1 .. Len(q) - 1 /\ (Len(q) - 1) + 1 = Len(q)
        \/ Len(q) = 1
    BY <1>1
  <2> QED
    BY <1>1, <2>1
<1>7. Rest(v, r, h, n + 1)
  BY <1>1, <1>2, <1>4, <1>5, <1>6 DEF Rest
<1>8. q[1].blank => h.as.framing = "chunked"
  <2>1. 1 \in 1 .. Len(q)
    BY <1>1
  <2> QED
    BY <1>2, <2>1
<1>9. h.as.framing = "chunked" /\ ~ q[1].blank => n + 1 < h.as.len
  <2> SUFFICES ASSUME h.as.framing = "chunked", ~ q[1].blank PROVE n + 1 < h.as.len
    OBVIOUS
  <2>1. ~ (Len(q) = 1 /\ v.owed = 0)
    BY <1>2
  <2>2. n + 1 < n + Len(q) + v.owed
    BY <1>1, <1>3, <2>1
  <2> QED
    BY <1>2, <2>2
<1> QED
  BY <1>1, <1>2, <1>4, <1>7, <1>8, <1>9 DEF r

LEMMA ServerGivesStep ==
    ASSUME TypeOK, NEW t \in Session, Flow(t), ServerGives(t)
    PROVE  TypeOK' /\ Flow(t)'
<1> DEFINE v == server[t]
<1>1. PICK bl \in BOOLEAN :
        /\ down' = [down EXCEPT ![t] = Append(down[t], Unit(bl))]
        /\ bl => v.giving.framing = "chunked"
        /\ v.giving.framing = "chunked" /\ v.owed = 1 => bl
  <2>1. PICK x \in IF v.giving.framing = "chunked" THEN {TRUE, v.owed = 1} ELSE {FALSE} :
          down' = [down EXCEPT ![t] = Append(@, Unit(x))]
    BY DEF ServerGives
  <2>2. CASE v.giving.framing = "chunked"
    <3>1. x = TRUE \/ x = (v.owed = 1)
      BY <2>1, <2>2
    <3>2. CASE x = TRUE
      BY <2>1, <2>2, <3>2
    <3>3. CASE x = (v.owed = 1)
      <4>1. CASE v.owed = 1
        BY <2>1, <2>2, <3>3, <4>1
      <4>2. CASE ~ (v.owed = 1)
        BY <2>1, <2>2, <3>3, <4>2
      <4> QED
        BY <4>1, <4>2
    <3> QED
      BY <3>1, <3>2, <3>3
  <2>3. CASE v.giving.framing # "chunked"
    <3>1. x = FALSE
      BY <2>1, <2>3
    <3> QED
      BY <2>1, <2>3, <3>1
  <2> QED
    BY <2>2, <2>3
<1>2. /\ v.alive /\ v.owed > 0 /\ UNCHANGED <<minion, client, up, store>>
  BY DEF ServerGives
<1>3. v \in Servers /\ v.owed \in 0 .. MaxLen /\ v.owed - 1 \in 0 .. MaxLen
  <2>1. v \in Servers /\ v.owed \in 0 .. MaxLen
    BY Typed DEF Servers
  <2> HIDE DEF v
  <2> QED
    BY <1>2, <2>1, SessionAssumption
<1>4. PICK b \in BOOLEAN :
        server' = [server EXCEPT ![t] = [v EXCEPT !.owed = v.owed - 1, !.alive = b]]
  <2>1. server' = [server EXCEPT ![t] = [v EXCEPT !.owed = v.owed - 1,
                                                  !.alive = v.owed > 1 \/ v.giving.persistent]]
    BY Zenon DEF ServerGives
  <2>2. CASE v.owed > 1 \/ v.giving.persistent
    BY <2>1, <2>2
  <2>3. CASE ~ (v.owed > 1 \/ v.giving.persistent)
    BY <2>1, <2>3
  <2> QED
    BY <2>2, <2>3
<1> DEFINE w == GoneOn(v, v.owed - 1, b)
           d == Append(down[t], Unit(bl))
<1>5. /\ w \in Servers /\ w.task = v.task /\ w.giving = v.giving /\ w.owed = v.owed - 1
      /\ w.peer = v.peer /\ server' = [server EXCEPT ![t] = w]
  <2>1. w = [peer |-> v.peer, alive |-> b, task |-> v.task, sofar |-> v.sofar,
             giving |-> v.giving, owed |-> v.owed - 1]
    BY <1>3, IsGoneOn
  <2>2. server' = [server EXCEPT ![t] = w]
    BY <1>4, Zenon DEF GoneOn
  <2> HIDE DEF w
  <2> QED
    BY <1>3, <2>1, <2>2 DEF Servers
<1> HIDE DEF w
<1>6. /\ d \in Seq(Item) /\ d # <<>>
      /\ down[t] # <<>> => /\ d[1] = down[t][1]
                           /\ Tail(d) = Append(Tail(down[t]), Unit(bl))
  BY Items, Typed, OneMore, TailOfMore
<1>7. /\ server' \in [Session -> Servers] /\ server'[t] = w
      /\ down' \in [Session -> Seq(Item)] /\ down'[t] = d
  BY <1>1, <1>5, <1>6, SameTypes DEF Types
<1>8. /\ Answering(t)' <=> Answering(t)
      /\ Asking(t)' <=> Asking(t)
      /\ Relayed(t)' <=> Relayed(t)
      /\ HasHead(t)' <=> HasHead(t)
      /\ UNCHANGED <<pc, req, resp, body, closing, client, up, found, cache>>
  BY <1>2, ClientSide
<1>9. TypeOK'
  BY <1>7, <1>8, SameTypes DEF Types
<1>10. server'[t].peer # None
  BY <1>2, <1>5, <1>7 DEF Flow
<1>11. ~ Quiet(t) /\ ~ Waiting(t)
  BY <1>2, <1>3 DEF Quiet, Waiting
<1>12. pc[t] \notin {"none", "request", "lookup", "hit", "open", "body"}
  BY <1>2, <1>11, Nobody DEF Flow, AtStart, AtRequest, AtOpen, AtAnswer
<1>13. ASSUME NEW q \in Seq(Item), NEW h \in Header, NEW n \in Nat, Rest(v, q, h, n)
       PROVE  Rest(w, Append(q, Unit(bl)), h, n)
  <2>1. v.giving = h.as
    BY <1>13 DEF Rest
  <2> QED
    BY <1>1, <1>2, <1>3, <1>5, <1>13, <2>1, RestMore
<1>14. ASSUME Answered(t) PROVE Answered(t)'
  <2>1. /\ down[t] # <<>> /\ down[t][1].of \in Header
        /\ Rest(v, Tail(down[t]), down[t][1].of, 0)
    BY <1>14 DEF Answered
  <2>2. Tail(down[t]) \in Seq(Item)
    BY <2>1, Typed, OneLess
  <2>3. Rest(w, Append(Tail(down[t]), Unit(bl)), down[t][1].of, 0)
    BY <1>13, <2>1, <2>2
  <2>4. Rest(w, Tail(d), d[1].of, 0)
    BY <1>6, <2>1, <2>3
  <2> HIDE DEF d
  <2> QED
    BY <1>5, <1>6, <1>7, <1>8, <1>14, <2>1, <2>4 DEF Answered
<1>15. ASSUME pc[t] = "relay" PROVE Rest(server[t], down[t], resp[t], body[t])'
  <2>1. resp[t] \in Header /\ body[t] \in Nat /\ Rest(v, down[t], resp[t], body[t])
    BY <1>15, Typed DEF Flow, AtRelay, HasHead
  <2>2. Rest(w, d, resp[t], body[t])
    BY <1>13, <2>1, Typed
  <2> QED
    BY <1>7, <1>8, <2>2, Zenon
<1>16. AtStart(t)' /\ AtRequest(t)' /\ AtOpen(t)'
  BY <1>8, <1>12 DEF AtStart, AtRequest, AtOpen
<1>17. AtAnswer(t)'
  BY <1>5, <1>7, <1>8, <1>11, <1>12, <1>14 DEF Flow, AtAnswer
<1>18. AtRelay(t)' /\ AtFinish(t)'
  BY <1>5, <1>7, <1>8, <1>11, <1>15 DEF Flow, AtRelay, AtFinish
<1> QED
  BY <1>8, <1>9, <1>10, <1>16, <1>17, <1>18 DEF Flow

LEMMA ServerLeavesStep ==
    ASSUME TypeOK, NEW t \in Session, Flow(t), ServerLeaves(t)
    PROVE  TypeOK' /\ Flow(t)'
<1> DEFINE v == server[t]
           w == Gone(v, FALSE)
<1>1. /\ v.alive /\ UNCHANGED <<minion, client, up, down, store>>
      /\ server' = [server EXCEPT ![t] = w]
  BY Zenon DEF ServerLeaves, Gone
<1>2. /\ w \in Servers /\ ~ w.alive /\ w.task = v.task /\ w.giving = v.giving /\ w.owed = v.owed
      /\ w.peer = v.peer
  <2>1. v \in Servers
    BY Typed
  <2>2. w = [peer |-> v.peer, alive |-> FALSE, task |-> v.task, sofar |-> v.sofar,
             giving |-> v.giving, owed |-> v.owed]
    BY <2>1, IsGone
  <2> HIDE DEF w
  <2> QED
    BY <2>1, <2>2 DEF Servers
<1> HIDE DEF w
<1>3. server' \in [Session -> Servers] /\ server'[t] = w
  BY <1>1, <1>2, SameTypes DEF Types
<1>4. /\ Answering(t)' <=> Answering(t)
      /\ Ahead(t)' <=> Ahead(t)
      /\ Given(t)' <=> Given(t)
      /\ Asking(t)' <=> Asking(t)
      /\ Relayed(t)' <=> Relayed(t)
      /\ HasHead(t)' <=> HasHead(t)
      /\ UNCHANGED <<pc, req, resp, body, closing, client, up, down, found, cache>>
  BY <1>1, ClientSide
<1>5. TypeOK'
  BY <1>3, <1>4, SameTypes DEF Types
<1>6. /\ Quiet(t) => Quiet(t)'
      /\ Waiting(t) => Waiting(t)'
  BY <1>2, <1>3, <1>4 DEF Quiet, Waiting
<1>7. \A q, h, n : Rest(v, q, h, n) => Rest(w, q, h, n)
  BY <1>2, Zenon DEF Rest
<1>8. Answered(t) => Answered(t)'
  BY <1>2, <1>3, <1>4, <1>7 DEF Answered
<1>9. Rest(server[t], down[t], resp[t], body[t]) => Rest(server[t], down[t], resp[t], body[t])'
  BY <1>3, <1>4, <1>7, Zenon
<1>10. pc[t] # "none"
  BY <1>1, Nobody DEF Flow, AtStart
<1>11. AtStart(t)' /\ AtRequest(t)' /\ AtOpen(t)' /\ AtAnswer(t)'
  BY <1>2, <1>3, <1>4, <1>6, <1>8, <1>10 DEF Flow, AtStart, AtRequest, AtOpen, AtAnswer
<1>12. AtRelay(t)' /\ AtFinish(t)'
  BY <1>2, <1>3, <1>4, <1>6, <1>9 DEF Flow, AtRelay, AtFinish
<1> QED
  BY <1>2, <1>3, <1>4, <1>5, <1>11, <1>12 DEF Flow

-----------------------------------------------------------------------------
(***************************************************************************)
(* minion.                                                                 *)
(***************************************************************************)
LEMMA EndStep ==
    ASSUME TypeOK, NEW t \in Session, End(t)
    PROVE  TypeOK' /\ Flow(t)' /\ UNCHANGED cache
<1>1. /\ pc' = [pc EXCEPT ![t] = "none"]
      /\ req' = [req EXCEPT ![t] = None]
      /\ resp' = [resp EXCEPT ![t] = None]
      /\ body' = [body EXCEPT ![t] = 0]
      /\ closing' = [closing EXCEPT ![t] = FALSE]
      /\ client' = [client EXCEPT ![t] = NoClient]
      /\ server' = [server EXCEPT ![t] = NoServer]
      /\ up' = [up EXCEPT ![t] = <<>>]
      /\ down' = [down EXCEPT ![t] = <<>>]
      /\ UNCHANGED <<cache, found>>
  BY DEF End, Goto, store
<1>2. /\ pc' \in [Session -> PC] /\ pc'[t] = "none"
      /\ req' \in [Session -> Request \cup {None}]
      /\ resp' \in [Session -> Header \cup {None}]
      /\ body' \in [Session -> 0 .. MaxLen]
      /\ closing' \in [Session -> BOOLEAN]
  <2>1. 0 \in 0 .. MaxLen
    BY SessionAssumption
  <2> QED
    BY <1>1, <2>1, SameTypes DEF Types, PC
<1>3. /\ client' \in [Session -> Clients] /\ client'[t] = NoClient
      /\ server' \in [Session -> Servers] /\ server'[t] = NoServer
      /\ up' \in [Session -> Seq(Item)] /\ up'[t] = <<>>
      /\ down' \in [Session -> Seq(Item)] /\ down'[t] = <<>>
  BY <1>1, Nobody, SameTypes DEF Types
<1>4. TypeOK'
  BY <1>1, <1>2, <1>3, SameTypes DEF Types
<1>5. Answering(t)'
  BY <1>3, Nobody DEF Answering
<1>6. ~ server'[t].alive
  BY <1>3, Nobody
<1>7. /\ AtStart(t)' /\ AtRequest(t)' /\ AtOpen(t)' /\ AtAnswer(t)' /\ AtRelay(t)' /\ AtFinish(t)'
  BY <1>2, <1>3 DEF AtStart, AtRequest, AtOpen, AtAnswer, AtRelay, AtFinish
<1> QED
  BY <1>1, <1>4, <1>5, <1>6, <1>7 DEF Flow

LEMMA ReadRequestStep ==
    ASSUME TypeOK, NEW t \in Session, Flow(t), ReadRequest(t)
    PROVE  TypeOK' /\ Flow(t)' /\ UNCHANGED cache
<1> DEFINE u == up[t]
           r == u[1].of
<1>1. /\ pc[t] = "request" /\ u # <<>>
      /\ up' = [up EXCEPT ![t] = Tail(u)] /\ req' = [req EXCEPT ![t] = r]
      /\ closing' = [closing EXCEPT ![t] = ~ r.persistent]
      /\ pc' = [pc EXCEPT ![t] = IF r.method = "CONNECT" THEN "close" ELSE "lookup"]
      /\ UNCHANGED <<resp, body, client, server, down, cache, found>>
  BY DEF ReadRequest, Take, Goto, store
<1>2. Ahead(t) /\ Quiet(t)
  BY <1>1 DEF Flow, AtRequest, Given
<1>3. /\ client[t].got = <<>> /\ r \in Request /\ Units(Tail(u))
      /\ Len(Tail(u)) + client[t].unsent <= r.len /\ (client[t].here => client[t].want = r)
  BY <1>1, <1>2 DEF Ahead
<1>4. Tail(u) \in Seq(Item) /\ r.persistent \in BOOLEAN
  BY <1>1, <1>3, Typed, OneLess, SessionAssumption
<1>5. closing' \in [Session -> BOOLEAN]
  <2>1. (~ r.persistent) \in BOOLEAN
    OBVIOUS
  <2> QED
    BY <1>1, <2>1, SameTypes DEF Types
<1> HIDE DEF r, u
<1>6. /\ up' \in [Session -> Seq(Item)] /\ up'[t] = Tail(u)
      /\ req' \in [Session -> Request \cup {None}] /\ req'[t] = r
      /\ pc' \in [Session -> PC] /\ pc'[t] \in {"close", "lookup"}
  BY <1>1, <1>3, <1>4, SameTypes DEF Types, PC
<1>7. TypeOK'
  BY <1>1, <1>5, <1>6, SameTypes DEF Types
<1>8. Asking(t)'
  BY <1>1, <1>3, <1>6 DEF Asking
<1>9. Quiet(t)' /\ Answering(t)'
  BY <1>1, <1>2 DEF Quiet, Flow, Answering
<1>10. /\ AtStart(t)' /\ AtRequest(t)' /\ AtOpen(t)' /\ AtAnswer(t)' /\ AtRelay(t)' /\ AtFinish(t)'
  BY <1>3, <1>6, <1>8, <1>9 DEF AtStart, AtRequest, AtOpen, AtAnswer, AtRelay, AtFinish
<1> QED
  BY <1>1, <1>7, <1>9, <1>10 DEF Flow

LEMMA LookupStep ==
    ASSUME TypeOK, CacheWhole, NEW t \in Session, Flow(t), Lookup(t)
    PROVE  TypeOK' /\ Flow(t)' /\ CacheWhole'
<1> DEFINE k == KeyOf(req[t].url)
<1>1. /\ pc[t] = "lookup" /\ req[t] \in Request /\ Asking(t) /\ Quiet(t)
      /\ UNCHANGED <<req, resp, body, closing, client, server, up, down>>
  BY DEF Lookup, Flow, AtOpen
<1>2. cache \in Seq(Pairs) /\ found \in [Session -> Value \cup {None}]
  BY SameTypes DEF Types
<1>3. ASSUME NEW e \in Pairs, Whole(e), e.key = k
      PROVE  e.val \in Value /\ e.val.units <= e.val.head.as.len /\ KeyOf(e.val.head.url) = k
  <2>1. e.val \in Value
    BY DEF Pairs
  <2>2. e.val.head.as.len \in Nat
    BY <2>1, ValueFields, HeaderFields
  <2> QED
    BY <1>3, <2>1, <2>2 DEF Whole
<1>4. /\ pc' \in [Session -> PC] /\ pc'[t] \in {"hit", "open"}
      /\ cache' \in Seq(Pairs) /\ found' \in [Session -> Value \cup {None}]
      /\ \A j \in DOMAIN cache' : \E i \in DOMAIN cache : cache'[j] = cache[i]
      /\ pc'[t] = "hit" =>
           /\ req[t].len = 0 /\ req[t].cachable
           /\ found'[t] \in Value /\ found'[t].units <= found'[t].head.as.len
           /\ KeyOf(found'[t].head.url) = k
  <2>1. CASE req[t].len = 0 /\ req[t].cachable
    <3>1. /\ Store!Get(t, k)
          /\ pc' = [pc EXCEPT ![t] = IF found'[t] = None THEN "open" ELSE "hit"]
      BY <2>1 DEF Lookup, Goto
    <3>2. /\ cache' \in Seq(Pairs) /\ found' \in [Session -> Value \cup {None}]
          /\ \A j \in DOMAIN cache' : \E i \in DOMAIN cache : cache'[j] = cache[i]
          /\ found'[t] # None =>
               \E i \in DOMAIN cache : cache[i].key = k /\ cache[i].val = found'[t]
      BY <1>2, <3>1, AfterGet
    <3>3. /\ pc' \in [Session -> PC] /\ pc'[t] \in {"hit", "open"}
          /\ pc'[t] = "hit" => found'[t] # None
      BY <3>1, SameTypes DEF Types, PC
    <3>4. ASSUME found'[t] # None
          PROVE  /\ found'[t] \in Value /\ found'[t].units <= found'[t].head.as.len
                 /\ KeyOf(found'[t].head.url) = k
      <4>1. PICK i \in DOMAIN cache : cache[i].key = k /\ cache[i].val = found'[t]
        BY <3>2, <3>4
      <4>2. cache[i] \in Pairs
        <5>1. DOMAIN cache = 1 .. Len(cache)
          BY <1>2, LenProperties
        <5> QED
          BY <1>2, <5>1, ElementOfSeq
      <4>3. Whole(cache[i])
        BY DEF CacheWhole, Whole
      <4> QED
        BY <1>3, <4>1, <4>2, <4>3
    <3> QED
      BY <2>1, <3>2, <3>3, <3>4
  <2>2. CASE ~ (req[t].len = 0 /\ req[t].cachable)
    <3>1. UNCHANGED <<cache, found>> /\ pc' = [pc EXCEPT ![t] = "open"]
      BY <2>2 DEF Lookup, Goto, store
    <3> QED
      BY <1>2, <3>1, SameTypes DEF Types, PC
  <2> QED
    BY <2>1, <2>2
<1>5. TypeOK'
  BY <1>1, <1>4, SameTypes DEF Types
<1>6. CacheWhole'
  BY <1>4 DEF CacheWhole
<1>7. Asking(t)' /\ Quiet(t)' /\ Answering(t)' /\ server'[t] = server[t]
  BY <1>1 DEF Asking, Quiet, Answering, Flow
<1>8. /\ AtStart(t)' /\ AtRequest(t)' /\ AtOpen(t)' /\ AtAnswer(t)' /\ AtRelay(t)' /\ AtFinish(t)'
  BY <1>1, <1>4, <1>7 DEF AtStart, AtRequest, AtOpen, AtAnswer, AtRelay, AtFinish
<1> QED
  BY <1>5, <1>6, <1>7, <1>8 DEF Flow

\* What a client that is still there gets is written after what it got.
LEMMA Delivered ==
    ASSUME TypeOK, NEW t \in Session, NEW items \in Seq(Item), Deliver(t, items), Flow(t)
    PROVE  /\ client' \in [Session -> Clients]
           /\ client'[t].here = client[t].here /\ client'[t].want = client[t].want
           /\ client'[t].unsent = client[t].unsent
           /\ client[t].here => client'[t].got = client[t].got \o items
           /\ ~ client[t].here => client'[t] = NoClient
<1> DEFINE c == client[t]
           g == IF c.here THEN c.got \o items ELSE c.got
           d == [c EXCEPT !.got = g]
<1>1. c \in Clients /\ c.got \in Seq(Item)
  BY Typed
<1>2. g \in Seq(Item)
  BY <1>1, ConcatProperties
<1>3. client' = [client EXCEPT ![t] = d]
  BY Zenon DEF Deliver
<1>4. d = [here |-> c.here, want |-> c.want, unsent |-> c.unsent, got |-> g]
  <2> HIDE DEF c, g
  <2> QED
    BY <1>1, <1>2 DEF Clients
<1>5. d \in Clients /\ d.here = c.here /\ d.want = c.want /\ d.unsent = c.unsent /\ d.got = g
  <2> HIDE DEF d, g, c
  <2> QED
    BY <1>1, <1>2, <1>4 DEF Clients
<1>6. c.here => g = c.got \o items
  OBVIOUS
<1>7. ~ c.here => d = NoClient
  <2> SUFFICES ASSUME ~ c.here PROVE d = NoClient
    OBVIOUS
  <2>1. c = NoClient /\ g = c.got
    BY DEF Flow, Answering
  <2> HIDE DEF c, g
  <2>2. d = [here |-> NoClient.here, want |-> NoClient.want, unsent |-> NoClient.unsent,
             got |-> NoClient.got]
    BY <1>4, <2>1
  <2> QED
    BY <2>2 DEF NoClient
<1> HIDE DEF d, g
<1>8. client' \in [Session -> Clients] /\ client'[t] = d
  BY <1>3, <1>5, SameTypes DEF Types
<1> QED
  BY <1>5, <1>6, <1>7, <1>8

LEMMA Copies ==
    ASSUME NEW x \in Item, NEW n \in Nat
    PROVE  [i \in 1 .. n |-> x] \in Seq(Item) /\ Len([i \in 1 .. n |-> x]) = n
OBVIOUS

LEMMA HitStep ==
    ASSUME TypeOK, NEW t \in Session, Flow(t), Hit(t)
    PROVE  TypeOK' /\ Flow(t)' /\ UNCHANGED cache
<1> DEFINE v == found[t]
           front == <<HeadOf(v.head)>>
           back == [i \in 1 .. v.units |-> Unit(FALSE)]
           items == front \o back
<1>1. /\ pc[t] = "hit" /\ req[t] \in Request /\ req[t].len = 0 /\ req[t].cachable /\ Asking(t) /\ Quiet(t)
      /\ v \in Value /\ v.units <= v.head.as.len
      /\ KeyOf(v.head.url) = KeyOf(req[t].url)
  BY DEF Hit, Flow, AtOpen
<1>2. /\ Deliver(t, items) /\ found' = [found EXCEPT ![t] = None]
      /\ pc' = [pc EXCEPT ![t] = IF v.units = 0 THEN "close" ELSE "request"]
      /\ UNCHANGED <<req, resp, body, closing, server, up, down, cache>>
  BY DEF Hit, Goto
<1>3. v.head \in Header /\ v.units \in Nat
  BY <1>1, ValueFields, SessionAssumption
<1>4. HeadOf(v.head).is = "head" /\ HeadOf(v.head).of = v.head /\ HeadOf(v.head) \in Item
  BY <1>3, Items
<1>5. /\ front \in Seq(Item) /\ Len(front) = 1 /\ front[1] = HeadOf(v.head)
      /\ back \in Seq(Item) /\ Len(back) = v.units
      /\ \A i \in 1 .. v.units : back[i].is = "unit"
  <2>1. Unit(FALSE) \in Item /\ Unit(FALSE).is = "unit"
    BY Items
  <2> HIDE DEF v
  <2>2. front \in Seq(Item) /\ Len(front) = 1 /\ front[1] = HeadOf(v.head)
    BY <1>4
  <2>3. back \in Seq(Item) /\ Len(back) = v.units
    BY <1>3, <2>1, Copies
  <2>5. \A i \in 1 .. v.units : back[i].is = "unit"
    BY <2>1
  <2> QED
    BY <2>2, <2>3, <2>5
<1> HIDE DEF v, front, back
<1>6. /\ items \in Seq(Item) /\ Len(items) = 1 + v.units /\ items[1] = HeadOf(v.head)
      /\ \A i \in 2 .. 1 + v.units : items[i].is = "unit"
  <2>1. /\ items \in Seq(Item) /\ Len(items) = 1 + v.units
        /\ \A i \in 1 .. 1 + v.units : items[i] = IF i <= 1 THEN front[i] ELSE back[i - 1]
    <3>1. /\ items \in Seq(Item) /\ Len(items) = Len(front) + Len(back)
          /\ \A i \in 1 .. Len(front) + Len(back) :
               items[i] = IF i <= Len(front) THEN front[i] ELSE back[i - Len(front)]
      BY <1>5, ConcatProperties
    <3> QED
      BY <1>5, <3>1, Zenon
  <2> HIDE DEF items
  <2>2. 1 \in 1 .. 1 + v.units
    BY <1>3
  <2>3. \A i \in 2 .. 1 + v.units : i \in 1 .. 1 + v.units /\ ~ i <= 1 /\ i - 1 \in 1 .. v.units
    BY <1>3
  <2>4. items[1] = front[1]
    BY <2>1, <2>2
  <2>5. ASSUME NEW i \in 2 .. 1 + v.units PROVE items[i].is = "unit"
    <3>1. i \in 1 .. 1 + v.units /\ ~ i <= 1 /\ i - 1 \in 1 .. v.units
      BY <2>3
    <3>2. items[i] = back[i - 1]
      BY <2>1, <3>1
    <3> QED
      BY <1>5, <3>1, <3>2
  <2> QED
    BY <1>5, <2>1, <2>4, <2>5
<1> HIDE DEF items
<1>7. /\ client' \in [Session -> Clients]
      /\ client'[t].here = client[t].here /\ client'[t].want = client[t].want
      /\ client'[t].unsent = client[t].unsent
      /\ client[t].here => client'[t].got = client[t].got \o items
      /\ ~ client[t].here => client'[t] = NoClient
  BY <1>2, <1>6, Delivered
<1>8. /\ pc' \in [Session -> PC] /\ pc'[t] \in {"close", "request"}
      /\ found' \in [Session -> Value \cup {None}]
  BY <1>2, SameTypes DEF Types, PC
<1>9. TypeOK'
  BY <1>2, <1>7, <1>8, SameTypes DEF Types
<1>10. up[t] = <<>> /\ client[t].unsent = 0 /\ client[t].got = <<>>
       /\ (client[t].here => client[t].want = req[t])
  <2>1. /\ Len(up[t]) + client[t].unsent <= 0 /\ client[t].got = <<>>
        /\ client[t].here => client[t].want = req[t]
    BY <1>1 DEF Asking
  <2>2. Len(up[t]) \in Nat /\ client[t].unsent \in Nat /\ up[t] \in Seq(Item)
    BY Typed
  <2>3. Len(up[t]) = 0 /\ client[t].unsent = 0
    BY <2>1, <2>2
  <2> QED
    BY <2>1, <2>2, <2>3, EmptySeq
<1>11. client[t].here => client'[t].got = items
  BY <1>6, <1>7, <1>10, ConcatEmptySeq
<1>12. Answering(t)' /\ (Ahead(t)' \/ Given(t)')
  <2>1. CASE client[t].here
    <3>1. client'[t].want = req[t] /\ client'[t].got = items /\ req[t] # None
      BY <1>1, <1>7, <1>10, <1>11, <2>1, RequestFields
    <3>2. items[1].is = "head" /\ items[1].of = v.head
      BY <1>4, <1>6
    <3>3. 1 + v.units <= 1 + v.head.as.len
      <4>1. v.head.as.len \in Nat
        BY <1>3, HeaderFields
      <4> QED
        BY <1>1, <1>3, <4>1
    <3>4. Answering(t)'
      BY <1>1, <1>3, <1>6, <1>7, <2>1, <3>1, <3>2, <3>3 DEF Answering, MayGet
    <3>5. Given(t)'
      BY <1>2, <1>7, <1>10, <3>1 DEF Given
    <3> QED
      BY <3>4, <3>5
  <2>2. CASE ~ client[t].here
    BY <1>2, <1>7, <1>10, <2>2, Nobody DEF Answering, Ahead
  <2> QED
    BY <2>1, <2>2
<1>13. Quiet(t)' /\ server'[t] = server[t]
  BY <1>1, <1>2 DEF Quiet
<1>14. /\ AtStart(t)' /\ AtRequest(t)' /\ AtOpen(t)' /\ AtAnswer(t)' /\ AtRelay(t)' /\ AtFinish(t)'
  BY <1>8, <1>12, <1>13 DEF AtStart, AtRequest, AtOpen, AtAnswer, AtRelay, AtFinish
<1> QED
  BY <1>2, <1>9, <1>12, <1>13, <1>14 DEF Flow

New(p, b, r) == [NoServer EXCEPT !.peer = p, !.alive = b, !.task = r]

LEMMA IsNew ==
    ASSUME NEW p, NEW b, NEW r
    PROVE  New(p, b, r) = [peer |-> p, alive |-> b, task |-> r, sofar |-> NoServer.sofar,
                           giving |-> NoServer.giving, owed |-> NoServer.owed]
<1> DEFINE x == [NoServer EXCEPT !.peer = p]
           y == [x EXCEPT !.alive = b]
<1>1. x = [peer |-> p, alive |-> NoServer.alive, task |-> NoServer.task, sofar |-> NoServer.sofar,
           giving |-> NoServer.giving, owed |-> NoServer.owed]
  BY Nobody DEF Servers
<1>2. y = [peer |-> p, alive |-> b, task |-> NoServer.task, sofar |-> NoServer.sofar,
           giving |-> NoServer.giving, owed |-> NoServer.owed]
  <2> HIDE DEF x
  <2> QED
    BY <1>1
<1>3. [y EXCEPT !.task = r]
        = [peer |-> p, alive |-> b, task |-> r, sofar |-> NoServer.sofar,
           giving |-> NoServer.giving, owed |-> NoServer.owed]
  <2> HIDE DEF y
  <2> QED
    BY <1>2
<1> QED
  BY <1>3 DEF New

LEMMA OpenStep ==
    ASSUME TypeOK, NEW t \in Session, Flow(t), Open(t)
    PROVE  TypeOK' /\ Flow(t)' /\ UNCHANGED cache
<1> DEFINE v == server[t]
           q == req[t]
<1>1. /\ pc[t] = "open" /\ q \in Request /\ Asking(t) /\ Quiet(t)
      /\ pc' = [pc EXCEPT ![t] = IF q.len > 0 THEN "body" ELSE "answer"]
      /\ UNCHANGED <<req, resp, body, closing, client, up, cache, found>>
  BY DEF Open, Goto, store, Flow, AtOpen
<1>2. v \in Servers /\ q.url.origin \in Origin /\ 0 \in 0 .. MaxLen /\ q.len \in Nat
  BY <1>1, Typed, RequestFields, SessionAssumption
<1>3. PICK w \in Servers :
        /\ server' = [server EXCEPT ![t] = w]
        /\ w.peer = q.url.origin
        /\ w.alive => w.task = q /\ w.owed = 0 /\ w.sofar = 0
  <2>1. CASE Kept(t) /\ v.alive
    <3> DEFINE w == Asked(v, q, 0)
    <3>1. w = [peer |-> v.peer, alive |-> v.alive, task |-> q, sofar |-> 0,
               giving |-> v.giving, owed |-> v.owed]
      BY <1>2, IsAsked
    <3>2. server' = [server EXCEPT ![t] = w]
      <4>1. server' = [server EXCEPT ![t].task = req[t], ![t].sofar = 0]
        BY <2>1 DEF Open
      <4> QED
        BY <4>1, Zenon DEF Asked
    <3>3. v.owed = 0 /\ v.peer = q.url.origin
      BY <1>1, <2>1 DEF Quiet, Kept
    <3> HIDE DEF w, v, q
    <3>4. w \in Servers /\ w.peer = v.peer /\ w.task = q /\ w.owed = v.owed /\ w.sofar = 0
      BY <1>1, <1>2, <3>1 DEF Servers
    <3> QED
      BY <3>2, <3>3, <3>4
  <2>2. CASE Kept(t) /\ ~ v.alive
    <3>1. server' = server
      BY <2>2 DEF Open
    <3>2. server' = [server EXCEPT ![t] = v]
      BY <3>1, SameTypes DEF Types
    <3> QED
      BY <1>2, <2>2, <3>2 DEF Kept
  <2>3. CASE ~ Kept(t)
    <3> DEFINE w == New(q.url.origin, TRUE, q)
    <3>1. server' = [server EXCEPT ![t] = w]
      BY <2>3, Zenon DEF Open, New
    <3>2. w = [peer |-> q.url.origin, alive |-> TRUE, task |-> q, sofar |-> NoServer.sofar,
               giving |-> NoServer.giving, owed |-> NoServer.owed]
      BY IsNew
    <3>3. /\ NoServer.sofar = 0 /\ NoServer.owed = 0
          /\ NoServer.giving \in Response \cup {None}
      BY DEF NoServer
    <3> HIDE DEF w, q
    <3>4. w \in Servers /\ w.peer = q.url.origin /\ w.task = q /\ w.owed = 0 /\ w.sofar = 0
      BY <1>1, <1>2, <3>2, <3>3 DEF Servers
    <3> QED
      BY <3>1, <3>4
  <2> QED
    BY <2>1, <2>2, <2>3
<1>4. /\ server' \in [Session -> Servers] /\ server'[t] = w
      /\ down' \in [Session -> Seq(Item)] /\ down'[t] = <<>>
  <2>1. server' \in [Session -> Servers] /\ server'[t] = w
    BY <1>3, SameTypes DEF Types
  <2>2. down' = down \/ down' = [down EXCEPT ![t] = <<>>]
    BY DEF Open
  <2>3. down[t] = <<>>
    BY <1>1 DEF Quiet
  <2> QED
    BY <2>1, <2>2, <2>3, SameTypes DEF Types
<1>5. pc' \in [Session -> PC] /\ pc'[t] = IF q.len > 0 THEN "body" ELSE "answer"
  BY <1>1, SameTypes DEF Types, PC
<1>6. TypeOK'
  BY <1>1, <1>4, <1>5, SameTypes DEF Types
<1>7. Asking(t)' /\ Answering(t)'
  BY <1>1 DEF Asking, Answering, Flow
<1>8. Waiting(t)'
  <2>1. Len(up[t]) + client[t].unsent <= q.len
    BY <1>1 DEF Asking
  <2>2. Len(up[t]) \in Nat /\ client[t].unsent \in Nat
    BY Typed
  <2>3. 0 + Len(up[t]) + client[t].unsent <= q.len
    BY <2>1, <2>2
  <2> QED
    BY <1>1, <1>3, <1>4, <2>3 DEF Waiting
<1>9. server'[t].peer # None
  BY <1>2, <1>3, <1>4, SessionAssumption
<1>10. AtAnswer(t)'
  BY <1>1, <1>3, <1>4, <1>5, <1>7, <1>8 DEF AtAnswer
<1>11. AtStart(t)' /\ AtRequest(t)' /\ AtOpen(t)' /\ AtRelay(t)' /\ AtFinish(t)'
  BY <1>5 DEF AtStart, AtRequest, AtOpen, AtRelay, AtFinish
<1> QED
  BY <1>1, <1>6, <1>7, <1>9, <1>10, <1>11 DEF Flow

LEMMA BodyStep ==
    ASSUME TypeOK, NEW t \in Session, Flow(t), Body(t)
    PROVE  TypeOK' /\ Flow(t)' /\ UNCHANGED cache
<1> DEFINE v == server[t]
           u == up[t]
           q == req[t]
<1>1. /\ pc[t] = "body" /\ pc' = [pc EXCEPT ![t] = "answer"]
      /\ UNCHANGED <<req, resp, body, closing, client, down, cache, found>>
  BY DEF Body, Goto, store
<1>2. /\ q \in Request /\ v.peer = q.url.origin /\ Asking(t) /\ Waiting(t)
      /\ v.alive => v.sofar = 0
  BY <1>1 DEF Flow, AtAnswer
<1>3. PICK n \in 1 .. Len(u) :
        /\ up' = [up EXCEPT ![t] = SubSeq(u, n + 1, Len(u))]
        /\ server' = [server EXCEPT ![t] = Sent(v, IF v.alive THEN v.sofar + n ELSE v.sofar)]
  BY Zenon DEF Body, Sent
<1> DEFINE m == IF v.alive THEN v.sofar + n ELSE v.sofar
           w == Sent(v, m)
           x == SubSeq(u, n + 1, Len(u))
<1>4. /\ x \in Seq(Item) /\ Len(x) = Len(u) - n /\ Units(x)
  BY <1>2, Typed, SomeLess DEF Asking
<1>5. /\ Len(u) + client[t].unsent <= q.len /\ Len(u) \in Nat /\ client[t].unsent \in Nat
      /\ n \in Nat /\ n <= Len(u) /\ q.len \in Nat /\ q.len <= MaxLen /\ v.sofar \in 0 .. MaxLen
      /\ v \in Servers
  <2>1. Len(u) + client[t].unsent <= q.len
    BY <1>2 DEF Asking
  <2>2. /\ Len(u) \in Nat /\ client[t].unsent \in Nat /\ q.len \in 0 .. MaxLen /\ v \in Servers
        /\ v.sofar \in 0 .. MaxLen
    BY <1>2, Typed, RequestFields DEF Servers
  <2> QED
    BY <2>1, <2>2, SessionAssumption
<1>6. m \in 0 .. MaxLen /\ (v.alive => m = n)
  <2>1. CASE v.alive
    <3>1. v.sofar + n = n
      BY <1>2, <1>5, <2>1
    <3>2. n \in 0 .. MaxLen
      <4> HIDE DEF u, q, v
      <4> QED
        BY <1>5, SessionAssumption
    <3> QED
      BY <2>1, <3>1, <3>2
  <2>2. CASE ~ v.alive
    BY <1>5, <2>2
  <2> QED
    BY <2>1, <2>2
<1> HIDE DEF m, x
<1>7. /\ w \in Servers /\ w.peer = v.peer /\ w.alive = v.alive /\ w.task = v.task
      /\ w.owed = v.owed /\ w.sofar = m
  <2>1. w = [peer |-> v.peer, alive |-> v.alive, task |-> v.task, sofar |-> m,
             giving |-> v.giving, owed |-> v.owed]
    BY <1>5, IsSent
  <2> HIDE DEF w, v
  <2> QED
    BY <1>5, <1>6, <2>1 DEF Servers
<1>8. server' = [server EXCEPT ![t] = w] /\ up' = [up EXCEPT ![t] = x]
  BY <1>3 DEF m, x
<1> HIDE DEF w
<1>9. /\ server' \in [Session -> Servers] /\ server'[t] = w
      /\ up' \in [Session -> Seq(Item)] /\ up'[t] = x
      /\ pc' \in [Session -> PC] /\ pc'[t] = "answer"
  BY <1>1, <1>4, <1>7, <1>8, SameTypes DEF Types, PC
<1>10. TypeOK'
  BY <1>1, <1>9, SameTypes DEF Types
<1>11. Asking(t)'
  <2>1. Len(x) + client[t].unsent <= q.len
    BY <1>4, <1>5
  <2> QED
    BY <1>1, <1>2, <1>4, <1>9, <2>1 DEF Asking
<1>12. Waiting(t)'
  <2>1. n + Len(x) + client[t].unsent <= q.len
    BY <1>4, <1>5
  <2>2. v.alive => w.sofar = n
    BY <1>6, <1>7
  <2> QED
    BY <1>1, <1>2, <1>7, <1>9, <2>1, <2>2 DEF Waiting
<1>13. Answering(t)' /\ (server'[t].alive => server'[t].peer # None)
  BY <1>1, <1>7, <1>9 DEF Answering, Flow
<1>14. AtAnswer(t)'
  BY <1>1, <1>2, <1>7, <1>9, <1>11, <1>12 DEF AtAnswer
<1>15. AtStart(t)' /\ AtRequest(t)' /\ AtOpen(t)' /\ AtRelay(t)' /\ AtFinish(t)'
  BY <1>9 DEF AtStart, AtRequest, AtOpen, AtRelay, AtFinish
<1> QED
  BY <1>1, <1>10, <1>13, <1>14, <1>15 DEF Flow

LEMMA BodyEndsStep ==
    ASSUME TypeOK, NEW t \in Session, Flow(t), BodyEnds(t)
    PROVE  TypeOK' /\ Flow(t)' /\ UNCHANGED cache
<1>1. /\ pc[t] = "body" /\ pc' = [pc EXCEPT ![t] = "answer"]
      /\ closing' = [closing EXCEPT ![t] = TRUE]
      /\ UNCHANGED <<req, resp, body, client, server, up, down, cache, found>>
  BY DEF BodyEnds, Goto, store
<1>2. pc' \in [Session -> PC] /\ pc'[t] = "answer" /\ closing' \in [Session -> BOOLEAN]
  BY <1>1, SameTypes DEF Types, PC
<1>3. TypeOK'
  BY <1>1, <1>2, SameTypes DEF Types
<1>4. /\ req[t] \in Request /\ server[t].peer = req[t].url.origin /\ Asking(t) /\ Waiting(t)
  BY <1>1 DEF Flow, AtAnswer
<1>5. Asking(t)' /\ Waiting(t)'
  BY <1>1, <1>4, Zenon DEF Asking, Waiting
<1>6. Answering(t)' /\ (server'[t].alive => server'[t].peer # None)
  BY <1>1 DEF Answering, Flow
<1>7. AtAnswer(t)'
  BY <1>1, <1>2, <1>4, <1>5 DEF AtAnswer
<1>8. AtStart(t)' /\ AtRequest(t)' /\ AtOpen(t)' /\ AtRelay(t)' /\ AtFinish(t)'
  BY <1>2 DEF AtStart, AtRequest, AtOpen, AtRelay, AtFinish
<1> QED
  BY <1>1, <1>3, <1>6, <1>7, <1>8 DEF Flow

\* One item more is passed on.
LEMMA OneItem ==
    ASSUME NEW q \in Seq(Item), NEW x \in Item
    PROVE  /\ <<x>> \in Seq(Item) /\ q \o <<x>> = Append(q, x)
           /\ q = <<>> => q \o <<x>> = <<x>>
           /\ Len(<<x>>) = 1 /\ <<x>>[1] = x
<1>1. <<x>> \in Seq(Item) /\ Len(<<x>>) = 1 /\ <<x>>[1] = x
  OBVIOUS
<1>2. q \o <<x>> = Append(q, x)
  BY AppendIsConcat
<1>3. <<>> \o <<x>> = <<x>>
  BY <1>1, ConcatEmptySeq
<1> QED
  BY <1>1, <1>2, <1>3

LEMMA AnswerStep ==
    ASSUME TypeOK, NEW t \in Session, Flow(t), Answer(t)
    PROVE  TypeOK' /\ Flow(t)' /\ UNCHANGED cache
<1> DEFINE d == down[t]
           h == d[1].of
<1>1. /\ pc[t] = "answer" /\ d # <<>>
      /\ down' = [down EXCEPT ![t] = Tail(d)] /\ resp' = [resp EXCEPT ![t] = h]
      /\ body' = [body EXCEPT ![t] = 0] /\ pc' = [pc EXCEPT ![t] = "relay"]
      /\ Deliver(t, <<HeadOf(h)>>)
      /\ UNCHANGED <<req, server, up, cache, found>>
  BY DEF Answer, Take, Goto, store
<1>2. Asking(t) /\ Answered(t) /\ req[t] \in Request
  BY <1>1 DEF Flow, AtAnswer, Waiting
<1>3. /\ h \in Header /\ h.url = req[t].url /\ h.method = req[t].method /\ Rest(server[t], Tail(d), h, 0)
      /\ server[t].task = None /\ up[t] = <<>> /\ client[t].unsent = 0
      /\ client[t].got = <<>> /\ (client[t].here => client[t].want = req[t])
  BY <1>2 DEF Answered, Asking
<1>4. PICK b \in BOOLEAN :
        closing' = [closing EXCEPT ![t] = b] /\ (h.as.framing = "chunked" => b)
  <2>1. closing' = [closing EXCEPT ![t] = closing[t] \/ h.as.framing = "chunked"]
    BY DEF Answer
  <2>2. CASE closing[t] \/ h.as.framing = "chunked"
    BY <2>1, <2>2
  <2>3. CASE ~ (closing[t] \/ h.as.framing = "chunked")
    BY <2>1, <2>3
  <2> QED
    BY <2>2, <2>3
<1>5. Tail(d) \in Seq(Item) /\ 0 \in 0 .. MaxLen
  BY <1>1, Typed, OneLess, SessionAssumption
<1> HIDE DEF h
<1>6. HeadOf(h) \in Item /\ HeadOf(h).is = "head" /\ HeadOf(h).of = h
  BY <1>3, Items
<1> DEFINE x == HeadOf(h)
<1>7. /\ client' \in [Session -> Clients]
      /\ client'[t].here = client[t].here /\ client'[t].want = client[t].want
      /\ client'[t].unsent = client[t].unsent
      /\ client[t].here => client'[t].got = <<x>>
      /\ ~ client[t].here => client'[t] = NoClient
  <2>1. <<x>> \in Seq(Item) /\ client[t].got \o <<x>> = <<x>>
    BY <1>3, <1>6, OneItem, Typed
  <2> QED
    BY <1>1, <2>1, Delivered
<1>8. /\ down' \in [Session -> Seq(Item)] /\ down'[t] = Tail(d)
      /\ resp' \in [Session -> Header \cup {None}] /\ resp'[t] = h
      /\ body' \in [Session -> 0 .. MaxLen] /\ body'[t] = 0
      /\ pc' \in [Session -> PC] /\ pc'[t] = "relay"
      /\ closing' \in [Session -> BOOLEAN] /\ closing'[t] = b
  BY <1>1, <1>3, <1>4, <1>5, SameTypes DEF Types, PC
<1>9. TypeOK'
  BY <1>1, <1>7, <1>8, SameTypes DEF Types
<1>10. h.as.len \in Nat /\ (h.as.framing = "chunked" => h.as.len > 0)
  BY <1>3, HeaderFields
<1>11. HasHead(t)'
  <2>1. 0 <= h.as.len
    BY <1>10
  <2> QED
    BY <1>1, <1>2, <1>3, <1>4, <1>8, <2>1 DEF HasHead
<1>12. Relayed(t)' /\ Answering(t)'
  <2>1. CASE client[t].here
    <3>1. client'[t].got = <<x>> /\ <<x>> # <<>> /\ Len(<<x>>) = 1 /\ <<x>>[1] = x
      BY <1>6, <1>7, <2>1, OneItem, Typed
    <3>2. client'[t].want = req[t] /\ client'[t].here /\ client'[t].unsent = 0 /\ req[t] # None
      BY <1>2, <1>3, <1>7, <2>1, RequestFields
    <3>3. Relayed(t)'
      <4>1. Len(<<x>>) = 1 + 0
        BY <3>1
      <4> QED
        BY <1>1, <1>3, <1>8, <3>1, <3>2, <4>1 DEF Relayed
    <3>4. Answering(t)'
      <4>1. 1 <= 1 + h.as.len /\ 2 .. 1 = {}
        BY <1>10
      <4>2. MayGet(h, req[t])
        BY <1>3 DEF MayGet
      <4> HIDE DEF x
      <4> QED
        BY <1>3, <1>6, <3>1, <3>2, <4>1, <4>2 DEF Answering, x
    <3> QED
      BY <3>3, <3>4
  <2>2. CASE ~ client[t].here
    BY <1>1, <1>3, <1>7, <2>2, Nobody DEF Relayed, Ahead, Answering
  <2> QED
    BY <2>1, <2>2
<1>13. Rest(server[t], down[t], resp[t], body[t])'
  BY <1>1, <1>3, <1>8
<1>14. AtRelay(t)'
  BY <1>1, <1>3, <1>8, <1>10, <1>11, <1>12, <1>13 DEF AtRelay
<1>15. AtStart(t)' /\ AtRequest(t)' /\ AtOpen(t)' /\ AtAnswer(t)' /\ AtFinish(t)'
  BY <1>8 DEF AtStart, AtRequest, AtOpen, AtAnswer, AtFinish
<1>16. server'[t].alive => server'[t].peer # None
  BY <1>1 DEF Flow
<1> QED
  BY <1>1, <1>9, <1>12, <1>14, <1>15, <1>16 DEF Flow

LEMMA RelayStep ==
    ASSUME TypeOK, NEW t \in Session, Flow(t), Relay(t)
    PROVE  TypeOK' /\ Flow(t)' /\ UNCHANGED cache
<1> DEFINE d == down[t]
           x == d[1]
           h == resp[t]
           n == body[t]
           c == client[t]
<1>1. /\ pc[t] = "relay" /\ d # <<>> /\ More(t)
      /\ down' = [down EXCEPT ![t] = Tail(d)] /\ Deliver(t, <<x>>)
      /\ body' = [body EXCEPT ![t] = n + 1]
      /\ IF x.blank THEN pc' = [pc EXCEPT ![t] = "finish"] ELSE UNCHANGED pc
      /\ UNCHANGED <<req, resp, closing, server, up, cache, found>>
  BY Zenon DEF Relay, Take, Goto, store
<1>2. /\ HasHead(t) /\ Relayed(t) /\ Rest(server[t], d, h, n) /\ server[t].task = None
  BY <1>1 DEF Flow, AtRelay
<1>3. /\ h \in Header /\ req[t] \in Request /\ h.url = req[t].url /\ h.method = req[t].method
      /\ h.as.framing = "chunked" => closing[t]
      /\ h.as.framing = "close" => n = 0
  BY <1>2 DEF HasHead
<1>4. d \in Seq(Item) /\ server[t] \in Servers /\ n \in Nat /\ c \in Clients /\ c.got \in Seq(Item)
  BY Typed
<1>5. /\ Rest(server[t], Tail(d), h, n + 1)
      /\ x \in Item /\ x.is = "unit" /\ n + 1 <= h.as.len
      /\ x.blank => h.as.framing = "chunked"
      /\ h.as.framing = "chunked" /\ ~ x.blank => n + 1 < h.as.len
  BY <1>1, <1>2, <1>3, <1>4, RestLess
<1>6. h.as.framing # "close"
  <2>1. ~ n < 0
    BY <1>4
  <2> QED
    BY <1>1, <1>3, <2>1 DEF More, BodySize
<1>7. Tail(d) \in Seq(Item)
  BY <1>1, <1>4, OneLess
<1>8. h.as.len \in 0 .. MaxLen /\ h.as.len \in Nat
  BY <1>3, HeaderFields
<1>9. n + 1 \in 0 .. MaxLen /\ n # h.as.len
  <2> HIDE DEF n, h
  <2> QED
    BY <1>4, <1>5, <1>8, SessionAssumption
<1> HIDE DEF x
<1>10. /\ client' \in [Session -> Clients]
       /\ client'[t].here = c.here /\ client'[t].want = c.want
       /\ client'[t].unsent = c.unsent
       /\ c.here => client'[t].got = Append(c.got, x)
       /\ ~ c.here => client'[t] = NoClient
  <2>1. <<x>> \in Seq(Item) /\ c.got \o <<x>> = Append(c.got, x)
    BY <1>4, <1>5, OneItem
  <2> QED
    BY <1>1, <2>1, Delivered
<1>11. /\ down' \in [Session -> Seq(Item)] /\ down'[t] = Tail(d)
       /\ body' \in [Session -> 0 .. MaxLen] /\ body'[t] = n + 1
       /\ pc' \in [Session -> PC] /\ pc'[t] = IF x.blank THEN "finish" ELSE "relay"
  <2>1. pc' \in [Session -> PC] /\ pc'[t] = IF x.blank THEN "finish" ELSE "relay"
    <3>1. CASE x.blank
      BY <1>1, <3>1, SameTypes DEF Types, PC
    <3>2. CASE ~ x.blank
      BY <1>1, <3>2, SameTypes DEF Types, PC
    <3> QED
      BY <3>1, <3>2
  <2> QED
    BY <1>1, <1>7, <1>9, <2>1, SameTypes DEF Types
<1>12. TypeOK'
  BY <1>1, <1>10, <1>11, SameTypes DEF Types
<1>13. HasHead(t)'
  BY <1>1, <1>3, <1>5, <1>6, <1>11 DEF HasHead
<1>14. Relayed(t)' /\ Answering(t)'
  <2>1. CASE c.here
    <3>1. /\ up[t] = <<>> /\ c.unsent = 0 /\ c.want = req[t]
          /\ c.got # <<>> /\ c.got[1] = HeadOf(h) /\ Len(c.got) = 1 + n
      BY <1>2, <1>9, <2>1 DEF Relayed
    <3> DEFINE g == Append(c.got, x)
    <3>2. /\ g \in Seq(Item) /\ g # <<>> /\ Len(g) = Len(c.got) + 1 /\ g[Len(c.got) + 1] = x
          /\ \A i \in 1 .. Len(c.got) : g[i] = c.got[i]
      BY <1>4, <1>5, OneMore
    <3> HIDE DEF g, c, h, n
    <3>3. Len(g) = 1 + (n + 1) /\ 1 \in 1 .. Len(c.got) /\ Len(c.got) \in Nat
      BY <1>4, <3>1, <3>2
    <3>4. g[1] = HeadOf(h)
      BY <3>1, <3>2, <3>3
    <3>5. client'[t].got = g /\ client'[t].want = req[t] /\ client'[t].here /\ client'[t].unsent = 0
      BY <1>10, <2>1, <3>1 DEF g
    <3>6. Relayed(t)'
      BY <1>1, <1>11, <3>1, <3>2, <3>3, <3>4, <3>5 DEF Relayed, h
    <3>7. Answering(t)'
      <4>1. HeadOf(h).is = "head" /\ HeadOf(h).of = h
        BY <1>3, Items
      <4>2. \A i \in 2 .. Len(g) : g[i].is = "unit"
        <5>1. \A i \in 2 .. Len(c.got) : c.got[i].is = "unit"
          BY <3>1 DEF Flow, Answering, c
        <5>2. \A i \in 2 .. Len(g) : i \in 2 .. Len(c.got) \/ i = Len(c.got) + 1
          BY <3>2, <3>3
        <5>3. \A i \in 2 .. Len(c.got) : i \in 1 .. Len(c.got)
          BY <3>3
        <5> QED
          BY <1>5, <3>2, <5>1, <5>2, <5>3
      <4>3. Len(g) <= 1 + h.as.len
        BY <1>4, <1>5, <1>8, <3>3
      <4>4. MayGet(h, req[t]) /\ req[t] # None
        BY <1>3, RequestFields DEF MayGet
      <4> QED
        BY <1>3, <3>2, <3>4, <3>5, <4>1, <4>2, <4>3, <4>4 DEF Answering
    <3> QED
      BY <3>6, <3>7
  <2>2. CASE ~ c.here
    <3>1. c = NoClient /\ client'[t] = c
      BY <1>10, <2>2 DEF Flow, Answering
    <3>2. Ahead(t)
      BY <1>2, <2>2 DEF Relayed
    <3>3. Ahead(t)'
      BY <1>1, <3>1, <3>2, Zenon DEF Ahead
    <3> QED
      BY <3>1, <3>3, Nobody DEF Relayed, Answering
  <2> QED
    BY <2>1, <2>2
<1>15. Rest(server[t], down[t], resp[t], body[t])'
  BY <1>1, <1>5, <1>11
<1>16. AtRelay(t)'
  BY <1>1, <1>2, <1>5, <1>11, <1>13, <1>14, <1>15 DEF AtRelay
<1>17. AtFinish(t)'
  BY <1>1, <1>3, <1>5, <1>6, <1>11, <1>13, <1>14 DEF AtFinish
<1>18. AtStart(t)' /\ AtRequest(t)' /\ AtOpen(t)' /\ AtAnswer(t)'
  BY <1>11 DEF AtStart, AtRequest, AtOpen, AtAnswer
<1>19. server'[t].alive => server'[t].peer # None
  BY <1>1 DEF Flow
<1> QED
  BY <1>1, <1>12, <1>14, <1>16, <1>17, <1>18, <1>19 DEF Flow

LEMMA RelayEndsStep ==
    ASSUME TypeOK, NEW t \in Session, Flow(t), RelayEnds(t)
    PROVE  TypeOK' /\ Flow(t)' /\ UNCHANGED cache
<1>1. /\ pc[t] = "relay" /\ resp[t].as.framing = "length" /\ down[t] = <<>> /\ ~ server[t].alive
      /\ pc' = [pc EXCEPT ![t] = "finish"]
      /\ UNCHANGED <<req, resp, body, closing, client, server, up, down, cache, found>>
  BY DEF RelayEnds, Goto, store
<1>2. pc' \in [Session -> PC] /\ pc'[t] = "finish"
  BY <1>1, SameTypes DEF Types, PC
<1>3. TypeOK'
  BY <1>1, <1>2, SameTypes DEF Types
<1>4. HasHead(t) /\ Relayed(t)
  BY <1>1 DEF Flow, AtRelay
<1>5. HasHead(t)' /\ Relayed(t)' /\ Quiet(t)' /\ Answering(t)'
  <2>1. HasHead(t)' <=> HasHead(t)
    BY <1>1, Zenon DEF HasHead
  <2>2. Ahead(t)' <=> Ahead(t)
    BY <1>1, Zenon DEF Ahead
  <2>3. Relayed(t)' <=> Relayed(t)
    BY <1>1, <2>2, Zenon DEF Relayed
  <2>4. Answering(t)' <=> Answering(t)
    BY <1>1, Zenon DEF Answering
  <2> QED
    BY <1>1, <1>4, <2>1, <2>3, <2>4 DEF Quiet, Flow
<1>6. AtFinish(t)'
  BY <1>1, <1>5 DEF AtFinish
<1>7. AtStart(t)' /\ AtRequest(t)' /\ AtOpen(t)' /\ AtAnswer(t)' /\ AtRelay(t)'
  BY <1>2 DEF AtStart, AtRequest, AtOpen, AtAnswer, AtRelay
<1>8. server'[t].alive => server'[t].peer # None
  BY <1>1
<1> QED
  BY <1>1, <1>3, <1>5, <1>6, <1>7, <1>8 DEF Flow

\* What is over leaves nothing behind, if a response whose end only the end of
\* the connection marks does not keep the connection.
LEMMA Over ==
    ASSUME TypeOK, ClosesTold, NEW t \in Session, Flow(t),
           pc[t] = "finish" \/ (pc[t] = "relay" /\ ~ More(t)),
           ~ closing[t], resp[t].as.persistent
    PROVE  Quiet(t)
<1>1. CASE pc[t] = "finish"
  BY <1>1 DEF Flow, AtFinish
<1>2. CASE pc[t] = "relay" /\ ~ More(t)
  <2> DEFINE h == resp[t]
             n == body[t]
  <2>1. HasHead(t) /\ Rest(server[t], down[t], h, n) /\ server[t].task = None
    BY <1>2 DEF Flow, AtRelay
  <2>2. /\ h \in Header /\ n <= h.as.len /\ (h.as.framing = "close" => n = 0)
        /\ n + Len(down[t]) + server[t].owed = h.as.len
    BY <2>1 DEF HasHead, Rest
  <2>3. /\ h.as \in Response /\ h.as.len \in Nat
        /\ h.as.framing \in {"length", "chunked", "close"}
    BY <2>2, HeaderFields
  <2>4. n \in Nat /\ Len(down[t]) \in Nat /\ server[t].owed \in Nat /\ down[t] \in Seq(Item)
    BY Typed
  <2>5. n = h.as.len
    <3>1. h.as.framing # "chunked" /\ ~ n < BodySize(h)
      BY <1>2 DEF More
    <3>2. CASE h.as.framing = "length"
      <4>1. ~ n < h.as.len
        BY <3>1, <3>2 DEF BodySize
      <4> QED
        BY <2>2, <2>3, <2>4, <4>1
    <3>3. CASE h.as.framing = "close"
      <4>1. ~ h.as.len > 0
        BY <2>3, <3>3 DEF ClosesTold
      <4> QED
        BY <2>2, <2>3, <2>4, <3>3, <4>1
    <3> QED
      BY <2>3, <3>1, <3>2, <3>3
  <2>6. Len(down[t]) = 0 /\ server[t].owed = 0
    BY <2>2, <2>3, <2>4, <2>5
  <2> QED
    BY <2>1, <2>4, <2>6, EmptySeq DEF Quiet
<1> QED
  BY <1>1, <1>2

LEMMA FinishStep ==
    ASSUME TypeOK, ClosesTold, CacheWhole, NEW t \in Session, Flow(t), Finish(t)
    PROVE  TypeOK' /\ Flow(t)' /\ CacheWhole'
<1> DEFINE h == resp[t]
           n == body[t]
           k == KeyOf(req[t].url)
           v == [head |-> h, units |-> n]
<1>1. /\ pc[t] = "finish" \/ (pc[t] = "relay" /\ ~ More(t))
      /\ UNCHANGED <<req, resp, body, closing, client, server, up, down>>
  BY DEF Finish
<1>2. HasHead(t) /\ Relayed(t)
  BY <1>1 DEF Flow, AtRelay, AtFinish
<1>3. /\ h \in Header /\ req[t] \in Request /\ h.url = req[t].url /\ n <= h.as.len
      /\ h.as.framing = "close" => n = 0
  BY <1>2 DEF HasHead
<1>4. cache \in Seq(Pairs) /\ n \in 0 .. MaxLen /\ n \in Nat
  BY SessionAssumption, SameTypes DEF Types
<1>5. k \in Key /\ v \in Value /\ v.head = h /\ v.units = n /\ KeyOf(h.url) = k
  <2>1. k \in Key /\ KeyOf(h.url) = k
    BY <1>3, RequestFields
  <2> HIDE DEF h, n, k
  <2> QED
    BY <1>3, <1>4, <2>1 DEF Value
<1> HIDE DEF v, k
<1>6. cache' \in Seq(Pairs) /\ UNCHANGED found /\ CacheWhole'
  <2>1. CASE Storable(t)
    <3>1. Store!Put(t, k, v)
      BY <2>1 DEF Finish, v, k
    <3>2. /\ cache' \in Seq(Pairs) /\ UNCHANGED found
          /\ \A j \in DOMAIN cache' : \/ \E i \in DOMAIN cache : cache'[j] = cache[i]
                                      \/ cache'[j] = [key |-> k, val |-> v]
      BY <1>4, <1>5, <3>1, AfterPut
    <3> DEFINE e == [key |-> k, val |-> v]
    <3>3. Whole(e)
      <4>1. e.key = k /\ e.val = v
        OBVIOUS
      <4> HIDE DEF e
      <4>2. /\ h.as.cachable /\ h.as.ok /\ h.as.framing # "chunked"
            /\ BodySize(h) > 0 => BodySize(h) = n
        BY <2>1 DEF Storable
      <4>3. n = IF h.as.framing = "length" THEN h.as.len ELSE 0
        <5>1. CASE h.as.framing = "length"
          <6>1. h.as.len > 0 => h.as.len = n
            BY <4>2, <5>1 DEF BodySize
          <6>2. h.as.len \in Nat
            BY <1>3, HeaderFields
          <6> HIDE DEF h, n
          <6> QED
            BY <1>3, <1>4, <5>1, <6>1, <6>2
        <5>2. CASE h.as.framing # "length"
          BY <1>3, <4>2, <5>2, HeaderFields
        <5> QED
          BY <5>1, <5>2
      <4> HIDE DEF h, n
      <4> QED
        BY <1>5, <4>1, <4>2, <4>3 DEF Whole
    <3>4. ASSUME NEW i \in DOMAIN cache PROVE Whole(cache[i])
      BY DEF CacheWhole, Whole
    <3>5. \A j \in DOMAIN cache' : Whole(cache'[j])
      BY <3>2, <3>3, <3>4
    <3> QED
      BY <3>2, <3>5, Zenon DEF CacheWhole, Whole
  <2>2. CASE ~ Storable(t)
    <3>1. UNCHANGED <<cache, found>>
      BY <2>2 DEF Finish, store
    <3> QED
      BY <1>4, <3>1 DEF CacheWhole
  <2> QED
    BY <2>1, <2>2
<1>7. /\ pc' \in [Session -> PC]
      /\ pc'[t] = IF closing[t] \/ ~ h.as.persistent THEN "close" ELSE "request"
  <2>1. CASE closing[t] \/ ~ h.as.persistent
    BY <2>1, SameTypes DEF Types, PC, Finish, Goto
  <2>2. CASE ~ (closing[t] \/ ~ h.as.persistent)
    BY <2>2, SameTypes DEF Types, PC, Finish, Goto
  <2> QED
    BY <2>1, <2>2
<1>8. TypeOK'
  BY <1>1, <1>6, <1>7, SameTypes DEF Types
<1>9. Answering(t)' /\ (server'[t].alive => server'[t].peer # None)
  BY <1>1, Zenon DEF Flow, Answering
<1>10. AtRequest(t)'
  <2> SUFFICES ASSUME pc'[t] = "request" PROVE (Ahead(t)' \/ Given(t)') /\ Quiet(t)'
    BY DEF AtRequest
  <2>1. ~ closing[t] /\ h.as.persistent
    BY <1>7
  <2>2. Quiet(t)
    BY <1>1, <2>1, Over
  <2>3. Ahead(t) \/ Given(t)
    BY <1>2, <1>3, RequestFields DEF Relayed, Given
  <2>4. (Ahead(t)' <=> Ahead(t)) /\ (Given(t)' <=> Given(t)) /\ (Quiet(t)' <=> Quiet(t))
    BY <1>1, Zenon DEF Ahead, Given, Quiet
  <2> QED
    BY <2>2, <2>3, <2>4
<1>11. AtStart(t)' /\ AtOpen(t)' /\ AtAnswer(t)' /\ AtRelay(t)' /\ AtFinish(t)'
  BY <1>7 DEF AtStart, AtOpen, AtAnswer, AtRelay, AtFinish
<1> QED
  BY <1>6, <1>8, <1>9, <1>10, <1>11 DEF Flow

-----------------------------------------------------------------------------
(***************************************************************************)
(* The theorems.                                                           *)
(***************************************************************************)
LEMMA Step ==
    ASSUME IInv, ClosesTold, NEW t \in Session, Minion(t) \/ Peers(t)
    PROVE  TypeOK' /\ Flow(t)' /\ CacheWhole'
<1>1. TypeOK /\ CacheWhole /\ Flow(t)
  BY DEF IInv
<1>2. ASSUME UNCHANGED cache PROVE CacheWhole'
  BY <1>1, <1>2 DEF CacheWhole
<1>3. CASE Minion(t)
  <2>1. CASE Close(t) \/ RequestEnds(t) \/ OpenFails(t) \/ ServerLost(t) \/ ClientLost(t)
    BY <1>1, <1>2, <2>1, EndStep DEF Close, RequestEnds, OpenFails, ServerLost, ClientLost
  <2>2. CASE ReadRequest(t) \/ Hit(t)
    BY <1>1, <1>2, <2>2, ReadRequestStep, HitStep
  <2>3. CASE Lookup(t)
    BY <1>1, <2>3, LookupStep
  <2>4. CASE Open(t) \/ Body(t) \/ BodyEnds(t)
    BY <1>1, <1>2, <2>4, OpenStep, BodyStep, BodyEndsStep
  <2>5. CASE Answer(t) \/ Relay(t) \/ RelayEnds(t)
    BY <1>1, <1>2, <2>5, AnswerStep, RelayStep, RelayEndsStep
  <2>6. CASE Finish(t)
    BY <1>1, <2>6, FinishStep
  <2> QED
    BY <1>3, <2>1, <2>2, <2>3, <2>4, <2>5, <2>6 DEF Minion
<1>4. CASE Peers(t)
  <2>1. UNCHANGED cache
    BY <1>4 DEF Peers, Connect, ClientSends, ClientDone, ClientLeaves, ClientAsks,
                ServerAnswers, ServerGives, ServerLeaves, store
  <2>2. CASE Connect(t) \/ ClientSends(t) \/ ClientDone(t) \/ ClientLeaves(t)
    BY <1>1, <1>2, <2>1, <2>2, ConnectStep, ClientSendsStep, ClientOverStep
  <2>3. CASE \E r \in Request : ClientAsks(t, r)
    BY <1>1, <1>2, <2>1, <2>3, ClientAsksStep
  <2>4. CASE \E r \in Response : ServerAnswers(t, r)
    BY <1>1, <1>2, <2>1, <2>4, ServerAnswersStep
  <2>5. CASE ServerGives(t) \/ ServerLeaves(t)
    BY <1>1, <1>2, <2>1, <2>5, ServerGivesStep, ServerLeavesStep
  <2> QED
    BY <1>4, <2>2, <2>3, <2>4, <2>5 DEF Peers
<1> QED
  BY <1>3, <1>4

LEMMA Inductive == ClosesTold => (Spec => []IInv)
<1> SUFFICES ASSUME ClosesTold PROVE Spec => []IInv
  OBVIOUS
<1>1. Init => IInv
  <2> SUFFICES ASSUME Init PROVE IInv
    OBVIOUS
  <2>1. /\ pc = [s \in Session |-> "none"] /\ req = [s \in Session |-> None]
        /\ resp = [s \in Session |-> None] /\ body = [s \in Session |-> 0]
        /\ closing = [s \in Session |-> FALSE]
        /\ client = [s \in Session |-> NoClient] /\ server = [s \in Session |-> NoServer]
        /\ up = [s \in Session |-> <<>>] /\ down = [s \in Session |-> <<>>]
        /\ cache = <<>> /\ found = [s \in Session |-> None]
    BY DEF Init, Store!Init
  <2>2. TypeOK
    <3>1. 0 \in 0 .. MaxLen /\ "none" \in PC
      BY SessionAssumption DEF PC
    <3>2. Types
      BY <2>1, <3>1, Nobody DEF Types
    <3> QED
      BY <3>2, SameTypes
  <2>3. CacheWhole
    BY <2>1 DEF CacheWhole
  <2>4. ASSUME NEW s \in Session PROVE Flow(s)
    <3>1. /\ pc[s] = "none" /\ client[s] = NoClient /\ server[s] = NoServer
          /\ up[s] = <<>> /\ down[s] = <<>>
      BY <2>1
    <3>2. Answering(s)
      BY <3>1, Nobody DEF Answering
    <3> QED
      BY <3>1, <3>2, Nobody
      DEF Flow, AtStart, AtRequest, AtOpen, AtAnswer, AtRelay, AtFinish
  <2> QED
    BY <2>2, <2>3, <2>4 DEF IInv
<1>2. IInv /\ [Next]_vars => IInv'
  <2> SUFFICES ASSUME IInv, [Next]_vars PROVE IInv'
    OBVIOUS
  <2>1. CASE Next
    <3>1. PICK t \in Session : Minion(t) \/ Peers(t)
      BY <2>1 DEF Next
    <3>2. TypeOK' /\ Flow(t)' /\ CacheWhole'
      BY <3>1, Step
    <3>3. ASSUME NEW s \in Session, s # t PROVE Flow(s)'
      <4>1. Same(s)
        BY <3>1, <3>3, Elsewhere DEF IInv
      <4> QED
        BY <4>1, SameFlow DEF IInv
    <3> QED
      BY <3>2, <3>3 DEF IInv
  <2>2. CASE UNCHANGED vars
    <3>1. UNCHANGED <<pc, req, resp, body, closing, client, server, up, down, cache, found>>
      BY <2>2 DEF vars, minion, store
    <3>2. TypeOK' /\ CacheWhole'
      BY <3>1, SameTypes DEF IInv, Types, CacheWhole
    <3>3. ASSUME NEW s \in Session PROVE Flow(s)'
      <4>1. Same(s)
        BY <3>1 DEF Same
      <4> QED
        BY <4>1, SameFlow DEF IInv
    <3> QED
      BY <3>2, <3>3 DEF IInv
  <2> QED
    BY <2>1, <2>2
<1> QED
  BY <1>1, <1>2, PTL DEF Spec

\* The variables of a session keep their types: no body is counted beyond the
\* bound of its announcement (minion, main.cpp:156-440).
THEOREM SessionTypes == ClosesTold => (Spec => []TypeOK)
<1>1. IInv => TypeOK
  BY DEF IInv
<1> QED
  BY <1>1, Inductive, PTL

\* The cache holds only whole, successful answers, each under the key of its
\* URL, whatever connections break, and wherever (main.cpp:401-429).
THEOREM WholeAnswersCached == ClosesTold => (Spec => []CacheWhole)
<1>1. IInv => CacheWhole
  BY DEF IInv
<1> QED
  BY <1>1, Inductive, PTL

\* A server connection is used again only when nothing of an earlier answer is
\* left in it; minion never takes a unit of a body for the head of an answer.
THEOREM StaysInStep == ClosesTold => (Spec => []InStep)
<1>1. IInv => InStep
  <2> SUFFICES ASSUME IInv, NEW s \in Session
               PROVE  /\ pc[s] \in {"request", "lookup", "hit", "open"} => down[s] = <<>>
                      /\ (pc[s] = "answer" /\ down[s] # <<>>) => down[s][1].is = "head"
    BY DEF InStep
  <2>1. AtRequest(s) /\ AtOpen(s) /\ AtAnswer(s)
    BY DEF IInv, Flow
  <2> QED
    BY <2>1 DEF AtRequest, AtOpen, AtAnswer, Quiet, Waiting, Answered
<1> QED
  BY <1>1, Inductive, PTL

\* What a client gets is part of one answer for the URL it asked for, if no two
\* origins share a host, and to the method it asked with unless it comes from the
\* cache: that is, from a connection that is used again or from a new one (minion).
THEOREM AnswersAreRight == ClosesTold /\ HostsDiffer => (Spec => []RightAnswer)
<1> SUFFICES ASSUME ClosesTold, HostsDiffer PROVE Spec => []RightAnswer
  OBVIOUS
<1>1. IInv => RightAnswer
  <2> SUFFICES ASSUME IInv, NEW s \in Session, client[s].got # <<>>
               PROVE  LET c == client[s]
                          h == c.got[1].of
                      IN  /\ c.got[1].is = "head"
                          /\ c.want # None /\ h.url = c.want.url
                          /\ \/ h.method = c.want.method
                             \/ /\ c.want.len = 0 /\ c.want.cachable
                                /\ pc[s] \notin {"relay", "finish"}
                          /\ \A i \in 2 .. Len(c.got) : c.got[i].is = "unit"
                          /\ Len(c.got) <= 1 + h.as.len
    BY DEF RightAnswer
  <2> DEFINE c == client[s]
             h == c.got[1].of
  <2>1. /\ c.got[1].is = "head" /\ h \in Header
        /\ MayGet(h, c.want)
        /\ \A i \in 2 .. Len(c.got) : c.got[i].is = "unit"
        /\ Len(c.got) <= 1 + h.as.len
        /\ c.want # None
    BY DEF IInv, Flow, Answering
  <2>2. c.want \in Request
    BY <2>1, Typed DEF IInv
  <2> DEFINE u == h.url
             w == c.want.url
  <2>3. u \in Url /\ w \in Url
    BY <2>1, <2>2, HeaderFields, RequestFields
  <2>4. KeyOf(u) = KeyOf(w)
    BY <2>1 DEF MayGet
  <2> HIDE DEF u, w
  <2>5. u = w
    BY <2>3, <2>4 DEF Url, KeyOf, HostsDiffer
  <2>6. ASSUME pc[s] \in {"relay", "finish"} PROVE h.method = c.want.method
    <3>1. HasHead(s) /\ Relayed(s)
      BY <2>6 DEF IInv, Flow, AtRelay, AtFinish
    <3>2. c.want = req[s] /\ c.got[1] = HeadOf(resp[s])
      BY <3>1 DEF Relayed, Ahead
    <3> QED
      BY <3>1, <3>2, Items DEF HasHead
  <2> QED
    BY <2>1, <2>5, <2>6 DEF u, w, MayGet
<1> QED
  BY <1>1, Inductive, PTL
=============================================================================
