---------------------------- MODULE ChordProofs ----------------------------
(***************************************************************************)
(* Invariants and action properties of Chord, for every ring size, set of  *)
(* nodes, number of fingers, backlog and number of deaths; and, while      *)
(* nodes only join, the ring that their successors make.                   *)
(***************************************************************************)
EXTENDS Chord, SequenceTheorems, FiniteSetTheorems, TLAPS

\* A message in the inbox of node n that a finger test let through.
GoodMsg(n) ==
    {m \in Message : m.cmd = "find" => Dist(n, m.arg) < Dist(m.from[1], m.arg)}

InboxOK == \A n \in Node : inbox[n] \in Seq(GoodMsg(n))

\* The inductive invariant.  BusyServerHasCaller is what makes it inductive:
\* when a forwarded lookup comes back there is a connection to answer.
IInv == TypeOK /\ InboxOK /\ BusyServerHasCaller

\* The conjuncts of IInv about connections.
NetOK ==
    /\ inbox \in [Node -> Seq(Message)]
    /\ reply \in [Thread -> ReplyState]
    /\ InboxOK
    /\ BusyServerHasCaller

-----------------------------------------------------------------------------
(***************************************************************************)
(* What the comparisons of ChordRing guarantee.                            *)
(***************************************************************************)
\* A finger that passes the test of findClosestPort is nearer to the key.
LEMMA PrecedesCloser ==
    ASSUME NEW a \in Key, NEW f \in Key, NEW h \in Key, Precedes(a, f, h)
    PROVE  Dist(f, h) < Dist(a, h)
BY RingAssumption, SMT DEF Key, Precedes, Dist

\* The test of stabilize adopts only a node strictly before the successor.
LEMMA AdoptsCloser ==
    ASSUME NEW a \in Key, NEW p \in Key, NEW r \in Key, Adopts(a, p, r)
    PROVE  Between(a, r, p)
BY RingAssumption, SMT DEF Key, Adopts, Between

\* The test of "notify" adopts only a node strictly after the predecessor.
LEMMA CloserPredecessorCloser ==
    ASSUME NEW a \in Key, NEW p \in Key, NEW r \in Key, CloserPredecessor(a, p, r)
    PROVE  Between(p, r, a)
BY RingAssumption, SMT DEF Key, CloserPredecessor, Between

\* Where fix_fingers looks is a position on the ring.
LEMMA FingerStartType ==
    ASSUME NEW n \in Key, NEW i \in Finger
    PROVE  FingerStart(n, i) \in Key
<1>1. 2^i \in Nat
  BY PowerAssumption
<1>2. n + 2^i \in Nat
  BY <1>1, SMT DEF Key
<1> DEFINE s == n + 2^i
<1>3. s \in Nat
  BY <1>2
<1> HIDE DEF s
<1>4. (IF s < RingSize THEN s ELSE IF Saturates THEN RingSize - 1 ELSE s % RingSize) \in Key
  BY <1>3, RingAssumption, SMT DEF Key
<1> QED
  BY <1>4 DEF FingerStart, s

-----------------------------------------------------------------------------
(***************************************************************************)
(* Types of the parts.                                                     *)
(***************************************************************************)
LEMMA NodeIsKey ==
    ASSUME NEW n \in Node PROVE n \in Key /\ n # None /\ translate(n) = n
<1>1. n \in Key
  BY RingAssumption
<1>2. n \in Int
  BY <1>1, RingAssumption, SMT DEF Key
<1> QED
  BY <1>1, <1>2, RingAssumption DEF translate

LEMMA TranslateType == ASSUME NEW p \in Port PROVE translate(p) \in Key
BY RingAssumption DEF Port, translate

LEMMA ThreadType ==
    /\ \A n \in Node : Main(n) \in Thread /\ Maint(n) \in Thread /\ Server(n) \in Thread
    /\ \A c \in Client : Query(c) \in Thread
BY DEF Thread, Main, Maint, Server, Query

LEMMA ReplyType ==
    Idle \in ReplyState /\ Waiting \in ReplyState /\ \A p \in Port : Got(p) \in ReplyState
BY DEF ReplyState

LEMMA ReplyFields ==
    ASSUME NEW r \in ReplyState
    PROVE  /\ r.port \in Port
           /\ r.st = "idle" <=> r = Idle
           /\ r.st = "got" => r # Idle /\ r # Waiting
BY DEF ReplyState, Idle, Waiting, Got, Port

\* A lookup answered at once names a node or port 0, and the finger it is
\* sent to is a node nearer to the key.
LEMMA FindHereType ==
    ASSUME TypeOK, NEW n \in Node, NEW h, NEW p \in FindHere(n, h)
    PROVE  p \in Port
BY DEF FindHere, Here, TypeOK, Port

LEMMA FindAsksType ==
    ASSUME TypeOK, NEW n \in Node, NEW h \in Key, NEW p \in FindAsks(n, h)
    PROVE  p \in Node /\ Dist(p, h) < Dist(n, h)
<1>1. PICK i \in Candidates(n, fin_tb[n], h) : p = fin_tb[n][i]
  BY DEF FindAsks, Asks
<1>2. i \in Finger /\ Precedes(n, translate(p), h)
  BY <1>1 DEF Candidates
<1>3. p \in Node
  BY <1>1, <1>2 DEF TypeOK
<1> QED
  BY <1>2, <1>3, NodeIsKey, PrecedesCloser

-----------------------------------------------------------------------------
(***************************************************************************)
(* What sending, serving and dying do to the connections.                  *)
(***************************************************************************)
LEMMA ThreadsDiffer ==
    \A n, m \in Node : /\ Main(n) # Server(m) /\ Maint(n) # Server(m)
                       /\ Server(n) = Server(m) => n = m
BY DEF Main, Maint, Server

LEMMA QueryIsNoServer == \A n \in Node, c \in Client : Query(c) # Server(n)
BY DEF Query, Server

LEMMA IInvNet == IInv => NetOK
BY DEF IInv, TypeOK, NetOK

\* A message is sent; a server starts to wait only over a lookup.
LEMMA PostKeeps ==
    ASSUME IInv, NEW p \in Node, NEW m \in GoodMsg(p), Post(p, m),
           reply' \in [Thread -> ReplyState],
           \A n \in Node : reply'[Server(n)] # Idle =>
               \/ reply[Server(n)] # Idle
               \/ inbox[n] # <<>> /\ Head1(n).cmd \in {"join", "find", "query"}
    PROVE  NetOK'
<1>1. m \in Message /\ inbox \in [Node -> Seq(Message)]
  BY DEF GoodMsg, IInv, TypeOK
<1>2. Append(inbox[p], m) \in Seq(Message) /\ Append(inbox[p], m) \in Seq(GoodMsg(p))
  BY <1>1, AppendProperties DEF IInv, InboxOK
<1>3. inbox' = [inbox EXCEPT ![p] = Append(inbox[p], m)]
  BY DEF Post
<1>4. inbox' \in [Node -> Seq(Message)]
  BY <1>1, <1>2, <1>3
<1>5. ASSUME NEW n \in Node PROVE inbox'[n] \in Seq(GoodMsg(n))
  BY <1>1, <1>2, <1>3 DEF IInv, InboxOK
<1>6. ASSUME NEW n \in Node, inbox[n] # <<>>
      PROVE  inbox'[n] # <<>> /\ Head1(n)' = Head1(n)
  <2>1. CASE n = p
    <3>1. inbox[p] \in Seq(Message) /\ inbox'[p] = Append(inbox[p], m)
      BY <1>1, <1>3
    <3>2. Len(inbox[p]) \in Nat \ {0}
      BY <1>6, <2>1, <3>1, EmptySeq
    <3>3. /\ Append(inbox[p], m) # <<>>
          /\ Append(inbox[p], m)[1] = inbox[p][1]
      BY <1>1, <3>1, <3>2, AppendProperties
    <3> QED
      BY <2>1, <3>1, <3>3 DEF Head1
  <2>2. CASE n # p
    BY <1>1, <1>3, <1>6, <2>2 DEF Head1
  <2> QED
    BY <2>1, <2>2
<1>7. BusyServerHasCaller'
  BY <1>6 DEF IInv, BusyServerHasCaller
<1> QED
  BY <1>4, <1>5, <1>7 DEF NetOK, InboxOK, GoodMsg, Dist

\* The first connection of n is closed; its server is not waiting.
LEMMA PopKeeps ==
    ASSUME IInv, NEW n \in Node, inbox[n] # <<>>, Pop(n),
           reply' \in [Thread -> ReplyState],
           reply'[Server(n)] = Idle,
           \A m \in Node \ {n} : reply'[Server(m)] # Idle => reply[Server(m)] # Idle
    PROVE  NetOK'
<1>1. inbox \in [Node -> Seq(Message)]
  BY DEF IInv, TypeOK
<1>2. Tail(inbox[n]) \in Seq(Message) /\ Tail(inbox[n]) \in Seq(GoodMsg(n))
  BY <1>1, HeadTailProperties DEF IInv, InboxOK
<1>3. inbox' = [inbox EXCEPT ![n] = Tail(inbox[n])]
  BY DEF Pop
<1>4. inbox' \in [Node -> Seq(Message)]
  BY <1>1, <1>2, <1>3
<1>5. ASSUME NEW k \in Node PROVE inbox'[k] \in Seq(GoodMsg(k))
  BY <1>1, <1>2, <1>3 DEF IInv, InboxOK
<1>6. BusyServerHasCaller'
  BY <1>1, <1>3 DEF IInv, BusyServerHasCaller, Head1
<1> QED
  BY <1>4, <1>5, <1>6 DEF NetOK, InboxOK, GoodMsg, Dist

\* No connection is made or closed and no server starts to wait.
LEMMA StayKeeps ==
    ASSUME IInv, UNCHANGED inbox, reply' \in [Thread -> ReplyState],
           \A n \in Node : reply'[Server(n)] # Idle => reply[Server(n)] # Idle
    PROVE  NetOK'
BY DEF IInv, TypeOK, NetOK, InboxOK, GoodMsg, Dist, BusyServerHasCaller, Head1

LEMMA NetStays == ASSUME IInv, UNCHANGED net PROVE NetOK'
BY StayKeeps, IInvNet DEF net, NetOK

\* A thread that is no server is given its reply, or a client waits.
LEMMA NoServerKeeps ==
    ASSUME IInv, UNCHANGED inbox, NEW t \in Thread, NEW r \in ReplyState,
           \A n \in Node : t # Server(n), reply' = [reply EXCEPT ![t] = r]
    PROVE  NetOK'
<1>1. reply \in [Thread -> ReplyState]
  BY IInvNet DEF NetOK
<1>2. reply' \in [Thread -> ReplyState]
  BY <1>1
<1>3. \A n \in Node : reply'[Server(n)] = reply[Server(n)]
  BY <1>1, ThreadType
<1> QED
  BY <1>2, <1>3, StayKeeps

\* A one-way message has been served.
LEMMA ServedKeeps ==
    ASSUME IInv, NEW n \in Node, NEW cmd, Serves(n, cmd), Pop(n), UNCHANGED reply
    PROVE  NetOK'
<1>1. reply \in [Thread -> ReplyState]
  BY IInvNet DEF NetOK
<1>2. inbox[n] # <<>> /\ reply[Server(n)] = Idle
  BY <1>1, ThreadType, ReplyFields DEF Serves
<1> QED
  BY <1>1, <1>2, PopKeeps

LEMMA HeadType ==
    ASSUME IInv, NEW n \in Node, inbox[n] # <<>>
    PROVE  Head1(n) \in Message
<1>1. inbox[n] \in Seq(Message)
  BY DEF IInv, TypeOK
<1> QED
  BY <1>1, HeadTailProperties DEF Head1

LEMMA CallKeeps ==
    ASSUME IInv, NEW t \in Thread, NEW p \in Port, NEW cmd, NEW arg,
           Call(t, p, cmd, arg), p \in Node => Msg(cmd, t, arg) \in GoodMsg(p),
           \A n \in Node : t = Server(n) =>
               inbox[n] # <<>> /\ Head1(n).cmd \in {"join", "find", "query"}
    PROVE  NetOK'
<1>1. p \in Node
  BY DEF Call, Accepts, Port
<1>2. reply \in [Thread -> ReplyState] /\ reply' = [reply EXCEPT ![t] = Waiting]
  BY IInvNet DEF Call, NetOK
<1>3. reply' \in [Thread -> ReplyState]
  BY <1>2, ReplyType
<1>4. ASSUME NEW n \in Node, t # Server(n) PROVE reply'[Server(n)] = reply[Server(n)]
  BY <1>2, <1>4, ThreadType
<1> QED
  BY <1>1, <1>3, <1>4, PostKeeps DEF Call

LEMMA CastKeeps ==
    ASSUME IInv, NEW p \in Port, NEW cmd, NEW arg,
           Cast(p, cmd, arg), Msg(cmd, Nobody, arg) \in Message, cmd # "find"
    PROVE  NetOK'
<1>1. p \in Node
  BY DEF Cast, Accepts, Port
<1>2. Msg(cmd, Nobody, arg) \in GoodMsg(p)
  BY DEF GoodMsg, Msg
<1> QED
  BY <1>1, <1>2, PostKeeps, IInvNet DEF Cast, NetOK

LEMMA AnswerKeeps ==
    ASSUME IInv, NEW n \in Node, NEW p \in Port, inbox[n] # <<>>, Answer(n, p)
    PROVE  NetOK'
<1>1. reply \in [Thread -> ReplyState]
  BY IInvNet DEF NetOK
<1> DEFINE d == Deliver(reply, Head1(n), p)
<1>2. d \in [Thread -> ReplyState]
  BY <1>1, ReplyType DEF Deliver
<1>3. \A t \in Thread : d[t] # Idle => reply[t] # Idle
  BY <1>1 DEF Deliver, Waiting, Idle
<1>4. reply' = [d EXCEPT ![Server(n)] = Idle]
  BY DEF Answer
<1> HIDE DEF d
<1>5. reply' \in [Thread -> ReplyState]
  BY <1>2, <1>4, ReplyType
<1>6. reply'[Server(n)] = Idle
  BY <1>2, <1>4, ThreadType
<1>7. \A m \in Node : reply'[Server(m)] # Idle => reply[Server(m)] # Idle
  BY <1>2, <1>3, <1>4, <1>6, ThreadType
<1> QED
  BY <1>5, <1>6, <1>7, PopKeeps, StayKeeps DEF Answer

LEMMA DieKeeps == ASSUME IInv, NEW n \in Node, Die(n) PROVE IInv'
<1>1. inbox \in [Node -> Seq(Message)] /\ reply \in [Thread -> ReplyState]
  BY IInvNet DEF NetOK
<1>2. inbox' = [inbox EXCEPT ![n] = <<>>]
  BY DEF Die
<1>3. inbox' \in [Node -> Seq(Message)]
  BY <1>1, <1>2, EmptySeq
<1>4. ASSUME NEW k \in Node PROVE inbox'[k] \in Seq(GoodMsg(k))
  BY <1>1, <1>2, EmptySeq DEF IInv, InboxOK
<1>5. reply' \in [Thread -> ReplyState]
  <2>1. None \in Port
    BY DEF Port
  <2> QED
    BY <1>1, <2>1, ReplyType DEF Die
<1>6. BusyServerHasCaller'
  <2>1. reply'[Server(n)] = Idle
    BY ThreadType DEF Die
  <2>2. ASSUME NEW m \in Node, m # n, reply'[Server(m)] # Idle
        PROVE  reply[Server(m)] # Idle
    BY <2>2, ThreadType DEF Die, Waiting, Idle
  <2> QED
    BY <1>1, <1>2, <2>1, <2>2 DEF IInv, BusyServerHasCaller, Head1
<1>7. /\ status' \in [Node -> {"off", "joining", "up", "dead"}]
      /\ session' \in [Client -> Port]
  BY DEF Die, IInv, TypeOK, Port
<1>8. InboxOK'
  BY <1>4 DEF InboxOK, GoodMsg, Dist
<1> QED
  BY <1>3, <1>5, <1>6, <1>7, <1>8 DEF IInv, TypeOK, Die, maint

-----------------------------------------------------------------------------
(***************************************************************************)
(* Every message the program sends is one of Message, and a "find" goes to *)
(* a node nearer to its key.                                               *)
(***************************************************************************)
LEMMA MessageType ==
    /\ \A n \in Node : Msg("join", Main(n), n) \in Message
    /\ \A n \in Node, h \in Key : Msg("find", Maint(n), h) \in Message
    /\ \A n \in Node, h \in Key : Msg("find", Server(n), h) \in Message
    /\ \A n \in Node : Msg("stable", Maint(n), n) \in Message
    /\ \A n \in Node : Msg("notify", Nobody, n) \in Message
    /\ \A p \in Port : Msg("keep-alive", Nobody, p) \in Message
    /\ Msg("reset-pre", Nobody, None) \in Message
    /\ \A c \in Client : Msg("query", Query(c), None) \in Message
BY DEF Message, Msg, Main, Maint, Server, Query, Port

LEMMA FindIsGood ==
    ASSUME TypeOK, NEW n \in Node, NEW h \in Key, NEW p \in FindAsks(n, h)
    PROVE  /\ p \in Node
           /\ Msg("find", Maint(n), h) \in GoodMsg(p)
           /\ Msg("find", Server(n), h) \in GoodMsg(p)
<1>1. p \in Node /\ Dist(p, h) < Dist(n, h)
  BY FindAsksType
<1>2. /\ Msg("find", Maint(n), h).arg = h /\ Msg("find", Maint(n), h).from[1] = n
      /\ Msg("find", Server(n), h).arg = h /\ Msg("find", Server(n), h).from[1] = n
  BY DEF Msg, Maint, Server
<1> QED
  BY <1>1, <1>2, MessageType DEF GoodMsg

LEMMA OtherIsGood ==
    ASSUME NEW p \in Node, NEW m \in Message, m.cmd # "find" PROVE m \in GoodMsg(p)
BY DEF GoodMsg

LEMMA NodeIsPort == Node \subseteq Port /\ None \in Port
BY DEF Port

\* What atoi makes of a key is a position.
LEMMA ReadKeyType == ASSUME NEW k \in Key PROVE ReadKey(k) \in Key
<1>1. CASE Narrow /\ k >= RingSize \div 2
  <2>1. RingSize \div 2 - 1 \in Key
    BY <1>1, RingAssumption, SMT DEF Key
  <2> QED
    BY <1>1, <2>1 DEF ReadKey
<1>2. CASE ~ (Narrow /\ k >= RingSize \div 2)
  BY <1>2 DEF ReadKey
<1> QED
  BY <1>1, <1>2

\* The key a server is looking up is a position.
LEMMA LookupKeyType ==
    ASSUME IInv, NEW n \in Node, LookupKey(n) # NoKey
    PROVE  /\ LookupKey(n) \in Key
           /\ inbox[n] # <<>>
           /\ Head1(n).cmd \in {"join", "find", "query"}
<1>1. CASE Serves(n, "find")
  <2>1. Head1(n) \in Message /\ Head1(n).cmd = "find"
    BY <1>1, HeadType DEF Serves
  <2>2. ReadKey(Head1(n).arg) \in Key
    BY <2>1, ReadKeyType DEF Message
  <2> QED
    BY <1>1, <2>2 DEF LookupKey, Serves
<1>2. CASE ~ Serves(n, "find") /\ Serves(n, "join") /\ postnode[n] # n
  <2>1. Head1(n) \in Message /\ Head1(n).cmd = "join"
    BY <1>2, HeadType DEF Serves
  <2>2. Head1(n).arg \in Key
    BY <2>1, NodeIsKey DEF Message
  <2> QED
    BY <1>2, <2>2 DEF LookupKey, Serves
<1>3. CASE Serves(n, "query") /\ reply[Head1(n).from] = Waiting
  <2>1. Head1(n) \in Message /\ Head1(n).cmd = "query"
    BY <1>3, HeadType DEF Serves
  <2>2. Head1(n).from \in Client \X {"query"}
    BY <2>1 DEF Message
  <2>3. Head1(n).from[1] \in Client
    BY <2>2
  <2>4. asked[Head1(n).from[1]] \in Key \cup {NoKey}
    BY <2>3 DEF IInv, TypeOK
  <2>5. LookupKey(n) = asked[Head1(n).from[1]]
    BY <1>3 DEF LookupKey, Serves
  <2> QED
    BY <1>3, <2>4, <2>5 DEF Serves
<1> QED
  BY <1>1, <1>2, <1>3 DEF LookupKey

-----------------------------------------------------------------------------
(***************************************************************************)
(* One lemma per group of actions: the invariant is preserved.             *)
(***************************************************************************)
LEMMA StartKeeps == ASSUME IInv, NEW n \in Node, Operator(n) PROVE IInv'
<1>1. CASE creatFirstNode(n)
  <2>1. NetOK'
    BY <1>1, NetStays DEF creatFirstNode
  <2> QED
    BY <1>1, <2>1, NodeIsPort DEF IInv, NetOK, TypeOK, creatFirstNode, net, maint, client
<1>2. ASSUME NEW c \in Node, join(n, c) PROVE IInv'
  <2>1. Msg("join", Main(n), n) \in GoodMsg(c)
    BY MessageType, OtherIsGood DEF Msg
  <2>2. NetOK'
    BY <1>2, <2>1, CallKeeps, NodeIsPort, ThreadType, ThreadsDiffer DEF join
  <2> QED
    BY <1>2, <2>2 DEF IInv, NetOK, TypeOK, join, maint, client
<1>3. ASSUME NEW c \in Node, JoinRefused(n, c) PROVE IInv'
  <2>1. NetOK'
    BY <1>3, NetStays DEF JoinRefused
  <2> QED
    BY <1>3, <2>1 DEF IInv, NetOK, TypeOK, JoinRefused, net, maint, client
<1>4. CASE commandLine(n)
  BY <1>4, DieKeeps DEF commandLine
<1> QED
  BY <1>1, <1>2, <1>3, <1>4 DEF Operator, Start

LEMMA ListenKeeps == ASSUME IInv, NEW n \in Node, Listen(n) PROVE IInv'
<1>1. NetOK'
  BY NoServerKeeps, ThreadType, ThreadsDiffer, ReplyType DEF Listen
<1>2. reply[Main(n)].port \in Port
  BY ThreadType, ReplyFields DEF IInv, TypeOK
<1> QED
  BY <1>1, <1>2 DEF IInv, NetOK, TypeOK, Listen, maint, client

LEMMA SetFingerType ==
    ASSUME TypeOK, NEW n \in Node, NEW p \in Node, SetFinger(n, p)
    PROVE  /\ fin_tb' \in [Node -> [Finger -> Node]]
           /\ pc' \in [Node -> PC]
           /\ finger' \in [Node -> Finger]
<1> DEFINE i == finger[n]
<1>1. i \in Finger
  BY DEF TypeOK
<1>2. (i + 1) % FingerNum \in Finger
  BY <1>1, RingAssumption, SMT DEF Finger
<1>3. fin_tb' \in [Node -> [Finger -> Node]]
  BY <1>1 DEF TypeOK, SetFinger
<1>4. finger' \in [Node -> Finger]
  BY <1>2 DEF TypeOK, SetFinger
<1>5. pc' \in [Node -> PC]
  BY DEF TypeOK, SetFinger, Goto, PC
<1> QED
  BY <1>3, <1>4, <1>5

\* free(prenode) leaves no predecessor and at most one node more exposed.
LEMMA FreeType ==
    ASSUME TypeOK, NEW n \in Node, FreePreNode(n)
    PROVE  prenode' \in [Node -> Port] /\ exposed' \in [Node -> BOOLEAN]
BY NodeIsPort DEF FreePreNode, TypeOK

\* A thread uses a prenode that was freed after it was tested.
LEMMA UseKeeps == ASSUME IInv, NEW n \in Node, UsePreNode(n) PROVE IInv'
<1>1. CASE Die(n)
  BY <1>1, DieKeeps
<1>2. CASE /\ exposed' = [exposed EXCEPT ![n] = FALSE]
           /\ UNCHANGED <<status, postnode, postnode2, prenode, fin_tb, maint, net, client>>
  <2>1. NetOK'
    BY <1>2, NetStays
  <2> QED
    BY <1>2, <2>1 DEF IInv, NetOK, TypeOK, maint, net, client
<1> QED
  BY <1>1, <1>2 DEF UsePreNode

LEMMA MaintKeeps ==
    ASSUME IInv, NEW n \in Node, updateFingerTable(n) PROVE IInv'
<1> USE NodeIsPort
<1>1. postnode[n] \in Port /\ prenode[n] \in Port /\ postnode2[n] \in Port /\ finger[n] \in Finger
  BY DEF IInv, TypeOK
<1>2. CASE FixFingerHere(n)
  <2>1. PICK p \in FindHere(n, FingerStart(n, finger[n])) \ {None} :
          SetFinger(n, p) /\ UNCHANGED <<status, postnode, postnode2, prenode, exposed, net, client>>
    BY <1>2 DEF FixFingerHere
  <2>2. p \in Node
    BY <2>1, FindHereType DEF IInv, Port
  <2>3. NetOK'
    BY <2>1, NetStays
  <2> QED
    BY <2>1, <2>2, <2>3, SetFingerType DEF IInv, NetOK, TypeOK, net, client
<1>3. CASE FixFingerAsk(n)
  <2> DEFINE h == FingerStart(n, finger[n])
  <2>1. PICK p \in FindAsks(n, h) :
          Call(Maint(n), p, "find", h) /\ UNCHANGED <<node, maint, client>>
    BY <1>3 DEF FixFingerAsk
  <2>2. h \in Key
    BY <1>1, FingerStartType, NodeIsKey
  <2>3. p \in Node /\ Msg("find", Maint(n), h) \in GoodMsg(p)
    BY <2>1, <2>2, FindIsGood DEF IInv
  <2>4. NetOK'
    BY <2>1, <2>3, CallKeeps, ThreadType, ThreadsDiffer
  <2> QED
    BY <2>1, <2>4 DEF IInv, NetOK, TypeOK, node, maint, client
<1>4. CASE FixFingerReply(n)
  <2>1. NetOK'
    BY <1>4, NoServerKeeps, ThreadType, ThreadsDiffer, ReplyType DEF FixFingerReply
  <2>2. reply[Maint(n)].port \in Port
    BY ThreadType, ReplyFields DEF IInv, TypeOK
  <2>4. /\ fin_tb' \in [Node -> [Finger -> Node]]
        /\ pc' \in [Node -> PC]
        /\ finger' \in [Node -> Finger]
    <3>1. CASE reply[Maint(n)].port = None
      BY <1>4, <3>1 DEF FixFingerReply, maint, IInv, TypeOK
    <3>2. CASE reply[Maint(n)].port # None
      BY <1>4, <2>2, <3>2, SetFingerType DEF FixFingerReply, IInv, Port
    <3> QED
      BY <3>1, <3>2
  <2> QED
    BY <1>4, <2>1, <2>4 DEF IInv, NetOK, TypeOK, FixFingerReply, client
<1>5. ASSUME NEW f \in {"stabilize", "notify"}, FailOver(n, f) PROVE IInv'
  <2>1. NetOK'
    BY <1>5, NetStays DEF FailOver
  <2> QED
    BY <1>1, <1>5, <2>1 DEF IInv, NetOK, TypeOK, FailOver, Goto, ResetOf, PC, net, client
<1>6. ASSUME NEW f \in {"stabilize", "notify"}, resetPreNode(n, f) PROVE IInv'
  <2>1. NetOK'
    BY <1>1, <1>6, CastKeeps, StayKeeps, MessageType
       DEF resetPreNode, net, IInv, TypeOK
  <2> QED
    BY <1>6, <2>1 DEF IInv, NetOK, TypeOK, resetPreNode, Goto, RetryOf, PC, node, client
<1>7. CASE GiveUp(n, "stabilize", "notify") \/ GiveUp(n, "notify", "heartBeat")
  <2>1. NetOK'
    BY <1>7, NetStays DEF GiveUp
  <2> QED
    BY <1>7, <2>1 DEF IInv, NetOK, TypeOK, GiveUp, Goto, PC, net, node, client
<1>8. CASE StabilizeAsk(n)
  <2>1. postnode[n] \in Node => Msg("stable", Maint(n), n) \in GoodMsg(postnode[n])
    BY MessageType, OtherIsGood DEF Msg
  <2>2. NetOK'
    BY <1>1, <1>8, <2>1, CallKeeps, ThreadType, ThreadsDiffer DEF StabilizeAsk
  <2> QED
    BY <1>8, <2>2 DEF IInv, NetOK, TypeOK, StabilizeAsk, Goto, PC, node, client
<1>9. CASE StabilizeReply(n)
  <2>1. NetOK'
    BY <1>9, NoServerKeeps, ThreadType, ThreadsDiffer, ReplyType DEF StabilizeReply
  <2>2. reply[Maint(n)].port \in Port
    BY ThreadType, ReplyFields DEF IInv, TypeOK
  <2>4. postnode' \in [Node -> Port]
    BY <1>9, <2>2 DEF StabilizeReply, IInv, TypeOK
  <2> QED
    BY <1>9, <2>1, <2>4
       DEF IInv, NetOK, TypeOK, StabilizeReply, Goto, PC, client
<1>10. CASE notify(n)
  <2>1. NetOK'
    BY <1>1, <1>10, CastKeeps, MessageType DEF notify
  <2> QED
    BY <1>10, <2>1 DEF IInv, NetOK, TypeOK, notify, Goto, PC, node, client
<1>11. CASE heartBeat(n)
  <2>1. NetOK'
    BY <1>1, <1>11, CastKeeps, StayKeeps, MessageType
       DEF heartBeat, net, IInv, TypeOK
  <2>2. prenode' \in [Node -> Port] /\ exposed' \in [Node -> BOOLEAN]
    BY <1>11, FreeType DEF heartBeat, IInv, TypeOK
  <2> QED
    BY <1>11, <2>1, <2>2 DEF IInv, NetOK, TypeOK, heartBeat, Goto, PC, client
<1> QED
  BY <1>2, <1>3, <1>4, <1>5, <1>6, <1>7, <1>8, <1>9, <1>10, <1>11 DEF updateFingerTable

LEMMA ServeKeeps == ASSUME IInv, NEW n \in Node, chordNode(n) PROVE IInv'
<1> USE NodeIsPort
<1>1. postnode[n] \in Port /\ prenode[n] \in Port
  BY DEF IInv, TypeOK
<1>2. CASE ServeFirstJoin(n)
  <2>1. CASE prenode[n] = None
    BY <1>2, <2>1, DieKeeps DEF ServeFirstJoin
  <2>2. CASE prenode[n] # None
    <3>1. inbox[n] # <<>> /\ Head1(n) \in Message /\ Head1(n).cmd = "join"
      BY <1>2, HeadType DEF ServeFirstJoin, Serves
    <3>2. Head1(n).arg \in Node
      BY <3>1 DEF Message
    <3>3. Answer(n, n)
      BY <1>2, <2>2 DEF ServeFirstJoin
    <3>4. NetOK'
      BY <3>1, <3>3, AnswerKeeps
    <3> QED
      BY <1>2, <2>2, <3>2, <3>4 DEF IInv, NetOK, TypeOK, ServeFirstJoin, maint, client
  <2> QED
    BY <2>1, <2>2
<1>3. CASE ServeLookup(n)
  <2>1. PICK p \in FindHere(n, LookupKey(n)) \ {None} :
          LookupKey(n) # NoKey /\ Answer(n, p) /\ UNCHANGED <<node, maint, client>>
    BY <1>3 DEF ServeLookup
  <2>2. p \in Port /\ inbox[n] # <<>>
    BY <2>1, FindHereType, LookupKeyType DEF IInv
  <2>3. NetOK'
    BY <2>1, <2>2, AnswerKeeps
  <2> QED
    BY <2>1, <2>3 DEF IInv, NetOK, TypeOK, node, maint, client
<1>4. CASE ServeForward(n)
  <2>1. PICK p \in FindAsks(n, LookupKey(n)) :
          /\ LookupKey(n) # NoKey
          /\ Call(Server(n), p, "find", LookupKey(n))
          /\ UNCHANGED <<node, maint, client>>
    BY <1>4 DEF ServeForward
  <2>2. /\ LookupKey(n) \in Key
        /\ inbox[n] # <<>> /\ Head1(n).cmd \in {"join", "find", "query"}
    BY <2>1, LookupKeyType
  <2>3. p \in Node /\ Msg("find", Server(n), LookupKey(n)) \in GoodMsg(p)
    BY <2>1, <2>2, FindIsGood DEF IInv
  <2>4. NetOK'
    BY <2>1, <2>2, <2>3, CallKeeps, ThreadType, ThreadsDiffer
  <2> QED
    BY <2>1, <2>4 DEF IInv, NetOK, TypeOK, node, maint, client
<1>5. CASE ServeForwarded(n)
  <2>1. reply[Server(n)].port \in Port
    BY ThreadType, ReplyFields DEF IInv, TypeOK
  <2>2. NetOK'
    <3>1. CASE reply[Server(n)].port = None
      <4>1. UNCHANGED inbox /\ reply' = [reply EXCEPT ![Server(n)] = Idle]
        BY <1>5, <3>1 DEF ServeForwarded
      <4>2. reply \in [Thread -> ReplyState]
        BY IInvNet DEF NetOK
      <4>3. reply' \in [Thread -> ReplyState]
        BY <4>1, <4>2, ReplyType
      <4>4. \A m \in Node : reply'[Server(m)] # Idle => reply[Server(m)] # Idle
        BY <4>1, <4>2, ThreadType
      <4> QED
        BY <4>1, <4>3, <4>4, StayKeeps
    <3>2. CASE reply[Server(n)].port # None
      <4>1. reply[Server(n)] # Idle
        BY <1>5, ThreadType, ReplyFields DEF ServeForwarded, IInv, TypeOK
      <4>2. inbox[n] # <<>>
        BY <4>1 DEF IInv, BusyServerHasCaller
      <4> QED
        BY <1>5, <2>1, <3>2, <4>2, AnswerKeeps DEF ServeForwarded
    <3> QED
      BY <3>1, <3>2
  <2> QED
    BY <1>5, <2>2 DEF IInv, NetOK, TypeOK, ServeForwarded, node, maint, client
<1>6. CASE ServeStable(n)
  <2>1. NetOK'
    BY <1>1, <1>6, AnswerKeeps DEF ServeStable, Serves
  <2> QED
    BY <1>6, <2>1 DEF IInv, NetOK, TypeOK, ServeStable, node, maint, client
<1>7. CASE ServeNotify(n)
  <2>1. inbox[n] # <<>> /\ Head1(n) \in Message /\ Head1(n).cmd = "notify"
    BY <1>7, HeadType DEF ServeNotify, Serves
  <2>2. Head1(n).arg \in Node
    BY <2>1 DEF Message
  <2>3. NetOK'
    BY <1>7, ServedKeeps DEF ServeNotify
  <2>4. prenode' \in [Node -> Port]
    BY <1>7, <2>2 DEF ServeNotify, IInv, TypeOK
  <2> QED
    BY <1>7, <2>3, <2>4 DEF IInv, NetOK, TypeOK, ServeNotify, maint, client
<1>8. CASE ServeKeepAlive(n)
  <2>1. inbox[n] # <<>> /\ Head1(n) \in Message /\ Head1(n).cmd = "keep-alive"
    BY <1>8, HeadType DEF ServeKeepAlive, Serves
  <2>2. Head1(n).arg \in Port
    BY <2>1 DEF Message
  <2>3. NetOK'
    BY <1>8, ServedKeeps DEF ServeKeepAlive
  <2> QED
    BY <1>8, <2>2, <2>3 DEF IInv, NetOK, TypeOK, ServeKeepAlive, maint, client
<1>9. CASE ServeReset(n)
  <2>1. NetOK'
    BY <1>9, ServedKeeps DEF ServeReset
  <2>2. prenode' \in [Node -> Port] /\ exposed' \in [Node -> BOOLEAN]
    BY <1>9, FreeType DEF ServeReset, IInv
  <2> QED
    BY <1>9, <2>1, <2>2 DEF IInv, NetOK, TypeOK, ServeReset, maint, client
<1>10. CASE ServeQuit(n)
  <2>1. NetOK'
    BY <1>10, ServedKeeps DEF ServeQuit
  <2> QED
    BY <1>10, <2>1 DEF IInv, NetOK, TypeOK, ServeQuit, node, maint, client
<1> QED
  BY <1>2, <1>3, <1>4, <1>5, <1>6, <1>7, <1>8, <1>9, <1>10 DEF chordNode

LEMMA ClientKeeps ==
    ASSUME IInv, NEW c \in Client, User(c) \/ QueryReply(c) PROVE IInv'
<1> USE NodeIsPort, ReplyType, ThreadType
<1>1. ASSUME NEW n \in Node, QueryConnect(c, n) PROVE IInv'
  <2>1. Msg("query", Query(c), None) \in GoodMsg(n)
    BY MessageType, OtherIsGood DEF Msg
  <2>2. NetOK'
    BY <1>1, <2>1, PostKeeps, IInvNet DEF QueryConnect, NetOK
  <2> QED
    BY <1>1, <2>2 DEF IInv, NetOK, TypeOK, QueryConnect, node, maint
<1>2. ASSUME NEW h \in Key, QueryAsk(c, h) PROVE IInv'
  <2>1. NetOK'
    BY <1>2, NoServerKeeps, QueryIsNoServer DEF QueryAsk
  <2> QED
    BY <1>2, <2>1 DEF IInv, NetOK, TypeOK, QueryAsk, node, maint
<1>3. CASE QueryReply(c)
  <2>1. NetOK'
    BY <1>3, NoServerKeeps, QueryIsNoServer DEF QueryReply
  <2> QED
    BY <1>3, <2>1 DEF IInv, NetOK, TypeOK, QueryReply, node, maint
<1>4. CASE QueryQuit(c)
  <2>1. NetOK'
    BY <1>4, NetStays DEF QueryQuit
  <2> QED
    BY <1>4, <2>1 DEF IInv, NetOK, TypeOK, QueryQuit, node, maint, net
<1> QED
  BY <1>1, <1>2, <1>3, <1>4 DEF User

-----------------------------------------------------------------------------
(***************************************************************************)
(* The invariants.                                                         *)
(***************************************************************************)
LEMMA InitIInv == Init => IInv
<1> SUFFICES ASSUME Init PROVE IInv
  OBVIOUS
<1>1. 0 \in Finger
  BY RingAssumption, SMT DEF Finger
<1>2. TypeOK
  BY <1>1, NodeIsPort, ReplyType, EmptySeq DEF Init, TypeOK, PC
<1>3. InboxOK
  BY EmptySeq DEF Init, InboxOK
<1>4. BusyServerHasCaller
  BY ThreadType DEF Init, BusyServerHasCaller
<1> QED
  BY <1>2, <1>3, <1>4 DEF IInv

LEMMA NextIInv == IInv /\ [Next]_vars => IInv'
<1> SUFFICES ASSUME IInv, [Next]_vars PROVE IInv'
  OBVIOUS
<1>1. CASE UNCHANGED vars
  <2>1. NetOK'
    BY <1>1, NetStays DEF vars, net
  <2> QED
    BY <1>1, <2>1 DEF IInv, NetOK, TypeOK, vars, node, maint, net, client
<1>2. CASE Next
  BY <1>2, StartKeeps, ListenKeeps, UseKeeps, MaintKeeps, ServeKeeps, ClientKeeps DEF Next
<1> QED
  BY <1>1, <1>2

THEOREM ChordInvariant == Spec => []IInv
BY InitIInv, NextIInv, PTL DEF Spec

\* The type of the state of every node, connection and client.
THEOREM ChordType == Spec => []TypeOK
<1>1. IInv => TypeOK
  BY DEF IInv
<1> QED
  BY <1>1, ChordInvariant, PTL

\* A server that waits for a forwarded lookup keeps the connection it is for.
THEOREM ServerKeepsCaller == Spec => []BusyServerHasCaller
<1>1. IInv => BusyServerHasCaller
  BY DEF IInv
<1> QED
  BY <1>1, ChordInvariant, PTL

\* Whatever the nodes join, die and believe, a "find" goes to a node nearer
\* to its key than the one that sends it.
THEOREM FindsTravelForward == Spec => []FindsGoForward
<1>1. IInv => FindsGoForward
  <2> SUFFICES ASSUME IInv, NEW n \in Node, NEW i \in DOMAIN inbox[n],
                      inbox[n][i].cmd = "find"
               PROVE  Dist(n, inbox[n][i].arg) < Dist(inbox[n][i].from[1], inbox[n][i].arg)
    BY DEF FindsGoForward
  <2>1. inbox[n] \in Seq(GoodMsg(n))
    BY DEF IInv, InboxOK
  <2>2. inbox[n][i] \in GoodMsg(n)
    BY <2>1, ElementOfSeq, LenProperties
  <2> QED
    BY <2>2 DEF GoodMsg
<1> QED
  BY <1>1, ChordInvariant, PTL

-----------------------------------------------------------------------------
(***************************************************************************)
(* The action properties.                                                  *)
(***************************************************************************)
PostMoves(n) ==
    \/ Between(n, postnode'[n], translate(postnode[n]))
    \/ postnode[n] = n /\ prenode'[n] = postnode'[n]
    \/ Refuses(postnode[n]) /\ postnode'[n] = postnode2[n]

PreMoves(n) ==
    \/ prenode'[n] = None
    \/ prenode[n] = None
    \/ Between(prenode[n], prenode'[n], n)
    \/ postnode[n] = n /\ prenode'[n] = postnode'[n]

\* The maintenance of m changes only m's successor, as it may.
LEMMA MaintPost ==
    ASSUME IInv, NEW m \in Node, updateFingerTable(m), NEW n \in Node,
           postnode'[n] # postnode[n]
    PROVE  PostMoves(n)
<1>1. postnode \in [Node -> Port]
  BY DEF IInv, TypeOK
<1>2. ASSUME NEW f \in {"stabilize", "notify"}, FailOver(m, f) PROVE PostMoves(n)
  BY <1>1, <1>2 DEF FailOver, PostMoves
<1>3. CASE StabilizeReply(m)
  <2> DEFINE p == reply[Maint(m)].port
  <2>1. n = m /\ p # None /\ Adopts(n, translate(postnode[n]), p) /\ postnode'[n] = p
    BY <1>1, <1>3 DEF StabilizeReply
  <2>2. p \in Node
    BY <2>1, ThreadType, ReplyFields DEF IInv, TypeOK, Port
  <2>3. n \in Key /\ p \in Key /\ translate(postnode[n]) \in Key
    BY <1>1, <2>2, NodeIsKey, TranslateType
  <2> QED
    BY <2>1, <2>3, AdoptsCloser DEF PostMoves
<1>4. UNCHANGED postnode
      \/ StabilizeReply(m) \/ \E f \in {"stabilize", "notify"} : FailOver(m, f)
  BY DEF updateFingerTable, FixFingerHere, FixFingerAsk, FixFingerReply,
         resetPreNode, GiveUp, StabilizeAsk, notify, heartBeat, node
<1> QED
  BY <1>2, <1>3, <1>4

LEMMA ServePost ==
    ASSUME IInv, NEW m \in Node, chordNode(m), NEW n \in Node,
           postnode'[n] # postnode[n]
    PROVE  PostMoves(n)
<1>1. postnode \in [Node -> Port] /\ prenode \in [Node -> Port]
  BY DEF IInv, TypeOK
<1>2. CASE ServeFirstJoin(m)
  BY <1>1, <1>2 DEF ServeFirstJoin, Die, PostMoves
<1>3. UNCHANGED postnode \/ ServeFirstJoin(m)
  BY DEF chordNode, ServeLookup, ServeForward, ServeForwarded, ServeStable,
         ServeNotify, ServeKeepAlive, ServeReset, ServeQuit, node
<1> QED
  BY <1>2, <1>3

\* A successor changes only for a closer one, for the joiner of a node that
\* is alone, or for postnode2 after a refused connect.
THEOREM SuccessorsGetCloser == Spec => PostCloser
<1>1. IInv /\ [Next]_vars =>
        [\A n \in Node : status[n] = "up" /\ postnode'[n] # postnode[n] =>
           \/ Between(n, postnode'[n], translate(postnode[n]))
           \/ postnode[n] = n /\ prenode'[n] = postnode'[n]
           \/ Refuses(postnode[n]) /\ postnode'[n] = postnode2[n]]_vars
  <2> SUFFICES ASSUME IInv, Next, NEW n \in Node, status[n] = "up",
                      postnode'[n] # postnode[n]
               PROVE  PostMoves(n)
    BY DEF PostMoves
  <2>1. ASSUME NEW m \in Node, Operator(m) \/ Listen(m) \/ UsePreNode(m) PROVE FALSE
    <3>1. postnode \in [Node -> Port]
      BY DEF IInv, TypeOK
    <3> QED
      BY <2>1, <3>1 DEF Operator, Start, creatFirstNode, join, JoinRefused,
                       commandLine, Die, Listen, UsePreNode
  <2>2. ASSUME NEW c \in Client, User(c) \/ QueryReply(c) PROVE FALSE
    BY <2>2 DEF User, QueryConnect, QueryAsk, QueryQuit, QueryReply, node
  <2> QED
    BY <2>1, <2>2, MaintPost, ServePost DEF Next
<1> QED
  BY <1>1, ChordInvariant, PTL DEF Spec, PostCloser

LEMMA MaintPre ==
    ASSUME IInv, NEW m \in Node, updateFingerTable(m), NEW n \in Node,
           prenode'[n] # prenode[n]
    PROVE  PreMoves(n)
<1>1. prenode \in [Node -> Port]
  BY DEF IInv, TypeOK
<1>2. CASE heartBeat(m)
  BY <1>1, <1>2 DEF heartBeat, FreePreNode, PreMoves
<1>3. UNCHANGED prenode \/ heartBeat(m)
  BY DEF updateFingerTable, FixFingerHere, FixFingerAsk, FixFingerReply, FailOver,
         resetPreNode, GiveUp, StabilizeAsk, StabilizeReply, notify, node
<1> QED
  BY <1>2, <1>3

LEMMA ServePre ==
    ASSUME IInv, NEW m \in Node, chordNode(m), NEW n \in Node,
           prenode'[n] # prenode[n]
    PROVE  PreMoves(n)
<1>1. postnode \in [Node -> Port] /\ prenode \in [Node -> Port]
  BY DEF IInv, TypeOK
<1>2. CASE ServeFirstJoin(m)
  BY <1>1, <1>2 DEF ServeFirstJoin, Die, PreMoves
<1>3. CASE ServeNotify(m)
  <2>1. Head1(m) \in Message /\ Head1(m).cmd = "notify"
    BY <1>3, HeadType DEF ServeNotify, Serves
  <2>2. Head1(m).arg \in Node
    BY <2>1 DEF Message
  <2>3. /\ n = m /\ prenode'[n] = Head1(n).arg
        /\ prenode[n] = None \/ CloserPredecessor(n, prenode[n], Head1(n).arg)
    BY <1>1, <1>3 DEF ServeNotify
  <2>4. prenode[n] # None => prenode[n] \in Key
    BY <1>1, NodeIsKey DEF Port
  <2> QED
    BY <2>2, <2>3, <2>4, NodeIsKey, CloserPredecessorCloser DEF PreMoves
<1>4. CASE ServeReset(m)
  BY <1>1, <1>4 DEF ServeReset, FreePreNode, PreMoves
<1>5. UNCHANGED prenode \/ ServeFirstJoin(m) \/ ServeNotify(m) \/ ServeReset(m)
  BY DEF chordNode, ServeLookup, ServeForward, ServeForwarded, ServeStable,
         ServeKeepAlive, ServeQuit, node
<1> QED
  BY <1>2, <1>3, <1>4, <1>5

\* A predecessor is forgotten, or replaced by a closer one or by the joiner
\* of a node that is alone.
THEOREM PredecessorsGetCloser == Spec => PreCloser
<1>1. IInv /\ [Next]_vars =>
        [\A n \in Node : status[n] = "up" /\ prenode'[n] # prenode[n] =>
           \/ prenode'[n] = None
           \/ prenode[n] = None
           \/ Between(prenode[n], prenode'[n], n)
           \/ postnode[n] = n /\ prenode'[n] = postnode'[n]]_vars
  <2> SUFFICES ASSUME IInv, Next, NEW n \in Node, status[n] = "up",
                      prenode'[n] # prenode[n]
               PROVE  PreMoves(n)
    BY DEF PreMoves
  <2>1. ASSUME NEW m \in Node, Operator(m) \/ Listen(m) \/ UsePreNode(m) PROVE FALSE
    <3>1. prenode \in [Node -> Port]
      BY DEF IInv, TypeOK
    <3> QED
      BY <2>1, <3>1 DEF Operator, Start, creatFirstNode, join, JoinRefused,
                       commandLine, Die, Listen, UsePreNode
  <2>2. ASSUME NEW c \in Client, User(c) \/ QueryReply(c) PROVE FALSE
    BY <2>2 DEF User, QueryConnect, QueryAsk, QueryQuit, QueryReply, node
  <2> QED
    BY <2>1, <2>2, MaintPre, ServePre DEF Next
<1> QED
  BY <1>1, ChordInvariant, PTL DEF Spec, PreCloser

Dies(n) ==
    \/ n \in Mortal
    \/ /\ prenode[n] = None
       /\ exposed[n] \/ (postnode[n] = n /\ Serves(n, "join"))

\* A process ends when it is killed, over the null pointer of "join", or when a
\* thread had tested prenode before it was freed: no other message a node can
\* receive, in any state it can be in, ends it.
THEOREM NodesOnlyDieAlone == Spec => DiesOnlyAlone
<1>1. IInv /\ [Next]_vars =>
        [\A n \in Node : status[n] = "up" /\ status'[n] = "dead" =>
           \/ n \in Mortal
           \/ /\ prenode[n] = None
              /\ exposed[n] \/ (postnode[n] = n /\ Serves(n, "join"))]_vars
  <2> SUFFICES ASSUME IInv, Next, NEW n \in Node, status[n] = "up",
                      status'[n] = "dead"
               PROVE  Dies(n)
    BY DEF Dies
  <2>1. status \in [Node -> {"off", "joining", "up", "dead"}]
    BY DEF IInv, TypeOK
  <2>2. ASSUME NEW m \in Node, Operator(m) \/ Listen(m) PROVE Dies(n)
    BY <2>1, <2>2 DEF Operator, Start, creatFirstNode, join, JoinRefused,
                      commandLine, Die, Listen, Dies
  <2>3. ASSUME NEW m \in Node, updateFingerTable(m) PROVE FALSE
    BY <2>3 DEF updateFingerTable, FixFingerHere, FixFingerAsk, FixFingerReply,
                FailOver, resetPreNode, GiveUp, StabilizeAsk, StabilizeReply,
                notify, heartBeat, node
  <2>4. ASSUME NEW m \in Node, chordNode(m) PROVE Dies(n)
    <3>1. CASE ServeFirstJoin(m)
      BY <2>1, <3>1 DEF ServeFirstJoin, Die, Dies
    <3>2. UNCHANGED status \/ ServeFirstJoin(m)
      BY <2>4 DEF chordNode, ServeLookup, ServeForward, ServeForwarded, ServeStable,
             ServeNotify, ServeKeepAlive, ServeReset, ServeQuit, node
    <3> QED
      BY <3>1, <3>2
  <2>5. ASSUME NEW c \in Client, User(c) \/ QueryReply(c) PROVE FALSE
    BY <2>5 DEF User, QueryConnect, QueryAsk, QueryQuit, QueryReply, node
  <2>6. ASSUME NEW m \in Node, UsePreNode(m) PROVE Dies(n)
    BY <2>1, <2>6 DEF UsePreNode, Die, Dies
  <2> QED
    BY <2>2, <2>3, <2>4, <2>5, <2>6 DEF Next
<1> QED
  BY <1>1, ChordInvariant, PTL DEF Spec, DiesOnlyAlone

-----------------------------------------------------------------------------
(***************************************************************************)
(* Requests and replies match.                                             *)
(***************************************************************************)
NodeThread == Node \X {"main", "maint", "server"}

\* No message of q, or exactly one, is from t.
Absent(q, t) == \A i \in 1 .. Len(q) : q[i].from # t
Once(q, t) ==
    \E i \in 1 .. Len(q) :
        q[i].from = t /\ \A j \in 1 .. Len(q) : q[j].from = t => j = i

\* A thread that waits has one request in one inbox, another has none.
Matched(t) ==
    IF reply[t] = Waiting
      THEN \E m \in Node : /\ Once(inbox[m], t)
                           /\ \A k \in Node \ {m} : Absent(inbox[k], t)
      ELSE \A k \in Node : Absent(inbox[k], t)

CallsInv ==
    /\ \A n \in Node : Len(inbox[n]) <= Backlog
    /\ \A u \in NodeThread : status[u[1]] = "off" => reply[u] = Idle
    /\ \A u \in NodeThread : status[u[1]] # "dead" => Matched(u)

LEMMA OnceAbsent ==
    ASSUME NEW q \in Seq(Message), NEW t, Once(q, t) PROVE ~ Absent(q, t)
BY DEF Once, Absent

\* What appending a message to an inbox does to a thread's place in it.
LEMMA AppendPlace ==
    ASSUME NEW q \in Seq(Message), NEW m \in Message, NEW t
    PROVE  /\ Absent(q, t) /\ m.from # t => Absent(Append(q, m), t)
           /\ Absent(q, t) /\ m.from = t => Once(Append(q, m), t)
           /\ Once(q, t) /\ m.from # t => Once(Append(q, m), t)
<1>1. PICK n \in Nat : n = Len(q)
  BY LenProperties
<1>2. /\ Len(Append(q, m)) = n + 1
      /\ \A i \in 1 .. n : Append(q, m)[i] = q[i]
      /\ Append(q, m)[n + 1] = m
  BY <1>1, AppendProperties
<1> DEFINE a == Append(q, m)
<1> HIDE DEF a
<1>3. Len(a) = n + 1 /\ \A i \in 1 .. n + 1 : a[i] = IF i = n + 1 THEN m ELSE q[i]
  BY <1>2 DEF a
<1>4. Absent(q, t) /\ m.from # t => Absent(a, t)
  BY <1>1, <1>3 DEF Absent
<1>5. ASSUME Absent(q, t), m.from = t PROVE Once(a, t)
  <2>1. n + 1 \in 1 .. n + 1 /\ a[n + 1].from = t
    BY <1>1, <1>3, <1>5
  <2>2. \A j \in 1 .. n + 1 : a[j].from = t => j = n + 1
    BY <1>1, <1>3, <1>5 DEF Absent
  <2> QED
    BY <1>3, <2>1, <2>2 DEF Once
<1>6. ASSUME Once(q, t), m.from # t PROVE Once(a, t)
  <2>1. PICK i \in 1 .. n : q[i].from = t /\ \A j \in 1 .. n : q[j].from = t => j = i
    BY <1>1, <1>6 DEF Once
  <2>2. i \in 1 .. n + 1 /\ i # n + 1 /\ a[i].from = t
    BY <1>1, <1>3, <2>1
  <2>3. \A j \in 1 .. n + 1 : a[j].from = t => j = i
    BY <1>1, <1>3, <1>6, <2>1
  <2> QED
    BY <1>3, <2>2, <2>3 DEF Once
<1> QED
  BY <1>4, <1>5, <1>6 DEF a

\* What closing the first connection does.
LEMMA TailPlace ==
    ASSUME NEW q \in Seq(Message), q # <<>>, NEW t
    PROVE  /\ Absent(q, t) => Head(q).from # t /\ Absent(Tail(q), t)
           /\ Once(q, t) /\ Head(q).from = t => Absent(Tail(q), t)
           /\ Once(q, t) /\ Head(q).from # t => Once(Tail(q), t)
<1>1. PICK n \in Nat : n = Len(q)
  BY LenProperties
<1>2. n # 0
  BY <1>1, EmptySeq
<1> DEFINE r == Tail(q)
<1> HIDE DEF r
<1>3. /\ Len(r) = n - 1
      /\ \A i \in 1 .. n - 1 : r[i] = q[i + 1]
      /\ Head(q) = q[1]
  BY <1>1, HeadTailProperties DEF r
<1>4. Absent(q, t) => Head(q).from # t /\ Absent(r, t)
  BY <1>1, <1>2, <1>3 DEF Absent
<1>5. Once(q, t) /\ Head(q).from = t => Absent(r, t)
  BY <1>1, <1>2, <1>3 DEF Absent, Once
<1>6. ASSUME Once(q, t), Head(q).from # t PROVE Once(r, t)
  <2>1. PICK i \in 1 .. n : q[i].from = t /\ \A j \in 1 .. n : q[j].from = t => j = i
    BY <1>1, <1>6 DEF Once
  <2>2. i - 1 \in 1 .. n - 1 /\ (i - 1) + 1 = i
    BY <1>1, <1>3, <1>6, <2>1
  <2>3. r[i - 1].from = t
    BY <1>3, <2>1, <2>2
  <2>4. \A j \in 1 .. n - 1 : r[j].from = t => j = i - 1
    BY <1>1, <1>3, <2>1
  <2> QED
    BY <1>3, <2>2, <2>3, <2>4 DEF Once
<1> QED
  BY <1>4, <1>5, <1>6 DEF r

-----------------------------------------------------------------------------
\* One thread, one step.
LEMMA PlaceStays ==
    ASSUME NEW t, Matched(t), UNCHANGED inbox,
           reply'[t] = Waiting <=> reply[t] = Waiting
    PROVE  Matched(t)'
BY DEF Matched

LEMMA OtherPosts ==
    ASSUME IInv, NEW t, NEW p \in Node, NEW m \in Message, m.from # t,
           Matched(t), Post(p, m), reply'[t] = Waiting <=> reply[t] = Waiting
    PROVE  Matched(t)'
<1>1. inbox \in [Node -> Seq(Message)] /\ inbox' = [inbox EXCEPT ![p] = Append(inbox[p], m)]
  BY DEF IInv, TypeOK, Post
<1>2. \A k \in Node : /\ Absent(inbox[k], t) => Absent(inbox'[k], t)
                      /\ Once(inbox[k], t) => Once(inbox'[k], t)
  BY <1>1, AppendPlace
<1> QED
  BY <1>2 DEF Matched

LEMMA OwnPost ==
    ASSUME IInv, NEW t, NEW p \in Node, NEW m \in Message, m.from = t,
           Matched(t), Post(p, m), reply[t] # Waiting, reply'[t] = Waiting
    PROVE  Matched(t)'
<1>1. inbox \in [Node -> Seq(Message)] /\ inbox' = [inbox EXCEPT ![p] = Append(inbox[p], m)]
  BY DEF IInv, TypeOK, Post
<1>2. Once(inbox'[p], t) /\ \A k \in Node \ {p} : Absent(inbox'[k], t)
  BY <1>1, AppendPlace DEF Matched
<1> QED
  BY <1>2 DEF Matched

LEMMA OtherPops ==
    ASSUME IInv, NEW t, NEW n \in Node, inbox[n] # <<>>, Head1(n).from # t,
           Matched(t), Pop(n), reply'[t] = Waiting <=> reply[t] = Waiting
    PROVE  Matched(t)'
<1>1. inbox \in [Node -> Seq(Message)] /\ inbox' = [inbox EXCEPT ![n] = Tail(inbox[n])]
  BY DEF IInv, TypeOK, Pop
<1>2. \A k \in Node : /\ Absent(inbox[k], t) => Absent(inbox'[k], t)
                      /\ Once(inbox[k], t) => Once(inbox'[k], t)
  BY <1>1, TailPlace DEF Head1
<1> QED
  BY <1>2 DEF Matched

\* The request of t is answered: t was waiting and waits no more.
LEMMA OwnPop ==
    ASSUME IInv, NEW t, NEW n \in Node, inbox[n] # <<>>, Head1(n).from = t,
           Matched(t), Pop(n), reply'[t] # Waiting
    PROVE  Matched(t)'
<1>1. inbox \in [Node -> Seq(Message)] /\ inbox' = [inbox EXCEPT ![n] = Tail(inbox[n])]
  BY DEF IInv, TypeOK, Pop
<1>2. ~ Absent(inbox[n], t)
  BY <1>1, TailPlace DEF Head1
<1>3. Once(inbox[n], t) /\ \A k \in Node \ {n} : Absent(inbox[k], t)
  BY <1>2 DEF Matched
<1>4. \A k \in Node : Absent(inbox'[k], t)
  BY <1>1, <1>3, TailPlace DEF Head1
<1> QED
  BY <1>4 DEF Matched

LEMMA HeadMatched ==
    ASSUME IInv, NEW t, NEW n \in Node, inbox[n] # <<>>, Head1(n).from = t, Matched(t)
    PROVE  reply[t] = Waiting
<1>1. inbox[n] \in Seq(Message)
  BY DEF IInv, TypeOK
<1>2. ~ Absent(inbox[n], t)
  BY <1>1, TailPlace DEF Head1
<1> QED
  BY <1>2 DEF Matched

-----------------------------------------------------------------------------
(***************************************************************************)
(* All threads: sending, serving and dying.                                *)
(***************************************************************************)
LEMMA NodeThreads ==
    /\ \A u \in NodeThread : u \in Thread /\ u # Nobody /\ u[1] \in Node
    /\ \A u \in NodeThread : u = Main(u[1]) \/ u = Maint(u[1]) \/ u = Server(u[1])
    /\ \A u \in NodeThread, c \in Client : u # Query(c)
    /\ \A n \in Node : /\ Main(n) \in NodeThread /\ Main(n)[1] = n
                       /\ Maint(n) \in NodeThread /\ Maint(n)[1] = n
                       /\ Server(n) \in NodeThread /\ Server(n)[1] = n
BY DEF NodeThread, Thread, Nobody, Main, Maint, Server, Query

\* No node starts over, or comes back from the dead.
Onward ==
    \A n \in Node : /\ status'[n] = "off" => status[n] = "off"
                    /\ status[n] = "dead" => status'[n] = "dead"

LEMMA CallsNext ==
    ASSUME CallsInv, Onward, \A n \in Node : Len(inbox'[n]) <= Backlog,
           \A u \in NodeThread : status'[u[1]] = "off" /\ reply[u] = Idle => reply'[u] = Idle,
           \A u \in NodeThread : Matched(u) => Matched(u)'
    PROVE  CallsInv'
<1>1. ASSUME NEW u \in NodeThread
      PROVE  /\ status'[u[1]] = "off" => reply'[u] = Idle
             /\ status'[u[1]] # "dead" => Matched(u)'
  <2>1. u[1] \in Node
    BY NodeThreads
  <2>2. /\ status[u[1]] = "off" => reply[u] = Idle
        /\ status[u[1]] # "dead" => Matched(u)
    BY DEF CallsInv
  <2>3. /\ status'[u[1]] = "off" => status[u[1]] = "off"
        /\ status[u[1]] = "dead" => status'[u[1]] = "dead"
    BY <2>1 DEF Onward
  <2> QED
    BY <2>2, <2>3
<1> QED
  BY <1>1 DEF CallsInv

LEMMA StayCalls ==
    ASSUME IInv, CallsInv, Onward, UNCHANGED inbox,
           \A u \in NodeThread : \/ reply'[u] = reply[u]
                                 \/ reply[u] # Waiting /\ reply'[u] = Idle
    PROVE  CallsInv'
<1>1. \A u \in NodeThread : Matched(u) => Matched(u)'
  BY PlaceStays DEF Idle, Waiting
<1>2. \A n \in Node : Len(inbox'[n]) <= Backlog
  BY DEF CallsInv
<1>3. \A u \in NodeThread : reply[u] = Idle => reply'[u] = Idle
  OBVIOUS
<1> QED
  BY <1>1, <1>2, <1>3, CallsNext

LEMMA PostLen ==
    ASSUME IInv, CallsInv, NEW p \in Port, NEW m \in Message, Accepts(p), Post(p, m)
    PROVE  p \in Node /\ \A n \in Node : Len(inbox'[n]) <= Backlog
<1>1. p \in Node /\ Len(inbox[p]) < Backlog
  BY DEF Accepts, Port
<1>2. inbox \in [Node -> Seq(Message)] /\ inbox' = [inbox EXCEPT ![p] = Append(inbox[p], m)]
  BY DEF IInv, TypeOK, Post
<1>3. Len(inbox'[p]) = Len(inbox[p]) + 1 /\ Len(inbox[p]) \in Nat
  BY <1>1, <1>2, AppendProperties, LenProperties
<1>4. Len(inbox'[p]) <= Backlog
  BY <1>1, <1>3, ChordAssumption
<1> QED
  BY <1>1, <1>2, <1>4 DEF CallsInv

\* A message nobody waits on, or that opens a session.
LEMMA PostCalls ==
    ASSUME IInv, CallsInv, Onward, NEW p \in Port, NEW m \in Message,
           m.from \notin NodeThread, Accepts(p), Post(p, m), UNCHANGED reply
    PROVE  CallsInv'
<1>1. p \in Node /\ \A n \in Node : Len(inbox'[n]) <= Backlog
  BY PostLen
<1>2. \A u \in NodeThread : Matched(u) => Matched(u)'
  BY <1>1, OtherPosts
<1> QED
  BY <1>1, <1>2, CallsNext

LEMMA CallCalls ==
    ASSUME IInv, CallsInv, Onward, NEW t \in NodeThread, NEW p \in Port, NEW cmd, NEW arg,
           Msg(cmd, t, arg) \in Message, Call(t, p, cmd, arg),
           reply[t] = Idle, status'[t[1]] # "off"
    PROVE  CallsInv'
<1> DEFINE m == Msg(cmd, t, arg)
<1>1. m.from = t
  BY DEF Msg
<1> HIDE DEF m
<1>2. Accepts(p) /\ Post(p, m) /\ reply' = [reply EXCEPT ![t] = Waiting]
  BY DEF Call, m
<1>3. p \in Node /\ \A n \in Node : Len(inbox'[n]) <= Backlog
  BY <1>2, PostLen DEF m
<1>4. reply \in [Thread -> ReplyState] /\ t \in Thread
  BY NodeThreads DEF IInv, TypeOK
<1>5. reply'[t] = Waiting /\ \A u \in NodeThread \ {t} : reply'[u] = reply[u]
  BY <1>2, <1>4, NodeThreads
<1>6. reply[t] # Waiting
  BY DEF Idle, Waiting
<1>7. Matched(t) => Matched(t)'
  BY <1>1, <1>2, <1>3, <1>5, <1>6, OwnPost DEF m
<1>8. \A u \in NodeThread \ {t} : Matched(u) => Matched(u)'
  BY <1>1, <1>2, <1>3, <1>5, OtherPosts DEF m
<1> QED
  BY <1>3, <1>5, <1>7, <1>8, CallsNext

LEMMA PopLen ==
    ASSUME IInv, CallsInv, NEW n \in Node, inbox[n] # <<>>, Pop(n)
    PROVE  \A k \in Node : Len(inbox'[k]) <= Backlog
<1>1. inbox \in [Node -> Seq(Message)] /\ inbox' = [inbox EXCEPT ![n] = Tail(inbox[n])]
  BY DEF IInv, TypeOK, Pop
<1>2. Len(inbox'[n]) = Len(inbox[n]) - 1 /\ Len(inbox[n]) \in Nat /\ Len(inbox[n]) <= Backlog
  BY <1>1, HeadTailProperties, LenProperties DEF CallsInv
<1>3. Len(inbox'[n]) <= Backlog
  BY <1>2, ChordAssumption
<1> QED
  BY <1>1, <1>3 DEF CallsInv

\* A one-way message has been served, or a session closed.
LEMMA PopCalls ==
    ASSUME IInv, CallsInv, Onward, NEW n \in Node, inbox[n] # <<>>,
           Head1(n).from \notin NodeThread, Pop(n), UNCHANGED reply
    PROVE  CallsInv'
<1>1. \A u \in NodeThread : Matched(u) => Matched(u)'
  BY OtherPops
<1> QED
  BY <1>1, PopLen, CallsNext

LEMMA HeadFrom ==
    ASSUME IInv, NEW n \in Node, inbox[n] # <<>>
    PROVE  Head1(n).cmd \in {"query", "notify", "keep-alive", "reset-pre"}
             => Head1(n).from \notin NodeThread
BY HeadType DEF Message, Nobody, NodeThread

LEMMA AnswerCalls ==
    ASSUME IInv, CallsInv, Onward, NEW n \in Node, NEW p, inbox[n] # <<>>,
           Answer(n, p), reply[Server(n)] # Waiting
    PROVE  CallsInv'
<1> DEFINE h == Head1(n).from
<1>1. reply \in [Thread -> ReplyState]
  BY DEF IInv, TypeOK
<1>2. Got(p) # Waiting
  BY DEF Got, Waiting
<1>3. ASSUME NEW u \in NodeThread
      PROVE  \/ u = h /\ reply[u] = Waiting /\ reply'[u] # Waiting
             \/ reply[u] # Waiting /\ reply'[u] = Idle
             \/ reply'[u] = reply[u] /\ (u # h \/ reply[u] # Waiting)
  BY <1>1, <1>2, NodeThreads DEF Answer, Deliver
<1>4. CASE Head1(n).cmd = "query"
  <2>1. h \notin NodeThread /\ UNCHANGED inbox
    BY <1>4, HeadFrom DEF Answer
  <2> QED
    <3>1. \A u \in NodeThread : \/ reply'[u] = reply[u]
                                \/ reply[u] # Waiting /\ reply'[u] = Idle
      BY <1>3, <2>1
    <3> QED
      BY <2>1, <3>1, StayCalls
<1>5. CASE Head1(n).cmd # "query"
  <2>1. Pop(n)
    BY <1>5 DEF Answer
  <2>2. ASSUME NEW u \in NodeThread, Matched(u) PROVE Matched(u)'
    <3>1. CASE u = h
      <4>1. reply[u] = Waiting
        BY <2>2, <3>1, HeadMatched
      <4>2. reply'[u] # Waiting
        BY <1>3, <3>1, <4>1
      <4> QED
        BY <2>1, <2>2, <3>1, <4>2, OwnPop
    <3>2. CASE u # h
      BY <1>3, <2>1, <2>2, <3>2, OtherPops DEF Idle, Waiting
    <3> QED
      BY <3>1, <3>2
  <2>3. \A u \in NodeThread : reply[u] = Idle => reply'[u] = Idle
    BY <1>3 DEF Idle, Waiting
  <2> QED
    BY <2>1, <2>2, <2>3, PopLen, CallsNext
<1> QED
  BY <1>4, <1>5

\* Whoever waits on a process that dies reads 0, and waits no more.
LEMMA DieCalls == ASSUME IInv, CallsInv, NEW n \in Node, Die(n) PROVE CallsInv'
<1>1. /\ inbox \in [Node -> Seq(Message)]
      /\ reply \in [Thread -> ReplyState]
      /\ status \in [Node -> {"off", "joining", "up", "dead"}]
  BY DEF IInv, TypeOK
<1>2. /\ inbox' = [inbox EXCEPT ![n] = <<>>]
      /\ status' = [status EXCEPT ![n] = "dead"]
  BY DEF Die
<1>3. Onward
  BY <1>1, <1>2 DEF Onward
<1>4. \A t : Absent(<<>>, t)
  BY EmptySeq DEF Absent
<1>5. \A k \in Node : Len(inbox'[k]) <= Backlog
  BY <1>1, <1>2, EmptySeq, ChordAssumption DEF CallsInv
<1>6. Got(None) # Waiting
  BY DEF Got, Waiting
<1>7. ASSUME NEW u \in NodeThread, u[1] # n
      PROVE  reply'[u] = IF reply[u] = Waiting /\ ~ Absent(inbox[n], u)
                           THEN Got(None) ELSE reply[u]
  <2>1. u \notin {Main(n), Maint(n), Server(n)} /\ u \in Thread
    BY <1>7, NodeThreads
  <2>2. DOMAIN inbox[n] = 1 .. Len(inbox[n])
    BY <1>1, LenProperties
  <2>3. ~ Absent(inbox[n], u) <=> \E i \in DOMAIN inbox[n] : inbox[n][i].from = u
    BY <2>2 DEF Absent
  <2> QED
    BY <2>1, <2>3 DEF Die
<1>8. ASSUME NEW u \in NodeThread, u[1] # n, Matched(u) PROVE Matched(u)'
  <2>1. CASE reply[u] # Waiting
    BY <1>1, <1>2, <1>4, <1>7, <1>8, <2>1 DEF Matched
  <2>2. CASE reply[u] = Waiting
    <3>1. PICK m \in Node : Once(inbox[m], u) /\ \A k \in Node \ {m} : Absent(inbox[k], u)
      BY <1>8, <2>2 DEF Matched
    <3>2. CASE m = n
      <4>1. reply'[u] # Waiting
        BY <1>1, <1>6, <1>7, <1>8, <2>2, <3>1, <3>2, OnceAbsent
      <4>2. \A k \in Node : Absent(inbox'[k], u)
        BY <1>1, <1>2, <1>4, <3>1, <3>2
      <4> QED
        BY <4>1, <4>2 DEF Matched
    <3>3. CASE m # n
      <4>1. reply'[u] = Waiting
        BY <1>7, <1>8, <2>2, <3>1, <3>3
      <4>2. Once(inbox'[m], u) /\ \A k \in Node \ {m} : Absent(inbox'[k], u)
        BY <1>1, <1>2, <1>4, <3>1, <3>3
      <4> QED
        BY <4>1, <4>2 DEF Matched
    <3> QED
      BY <3>2, <3>3
  <2> QED
    BY <2>1, <2>2
<1>9. ASSUME NEW u \in NodeThread, status'[u[1]] = "off" PROVE reply'[u] = Idle
  <2>1. u[1] # n /\ status[u[1]] = "off"
    BY <1>1, <1>2, <1>9, NodeThreads
  <2>2. reply[u] = Idle /\ reply[u] # Waiting
    BY <2>1 DEF CallsInv, Idle, Waiting
  <2> QED
    BY <1>7, <2>1, <2>2
<1>10. ASSUME NEW u \in NodeThread, status'[u[1]] # "dead" PROVE Matched(u)'
  <2>1. u[1] # n /\ status[u[1]] # "dead"
    BY <1>1, <1>2, <1>10, NodeThreads
  <2> QED
    BY <1>8, <2>1 DEF CallsInv
<1> QED
  BY <1>5, <1>9, <1>10 DEF CallsInv

-----------------------------------------------------------------------------
(***************************************************************************)
(* One lemma per group of actions.                                         *)
(***************************************************************************)
LEMMA OnwardNext == ASSUME IInv, Next PROVE Onward
<1>1. status \in [Node -> {"off", "joining", "up", "dead"}]
  BY DEF IInv, TypeOK
<1>2. ASSUME NEW m \in Node, Operator(m) \/ Listen(m) PROVE Onward
  BY <1>1, <1>2 DEF Operator, Start, creatFirstNode, join, JoinRefused,
                    commandLine, Die, Listen, Onward
<1>6. ASSUME NEW m \in Node, UsePreNode(m) PROVE Onward
  BY <1>1, <1>6 DEF UsePreNode, Die, Onward
<1>3. ASSUME NEW m \in Node, updateFingerTable(m) PROVE UNCHANGED status
  BY <1>3 DEF updateFingerTable, FixFingerHere, FixFingerAsk, FixFingerReply,
              FailOver, resetPreNode, GiveUp, StabilizeAsk, StabilizeReply,
              notify, heartBeat, node
<1>4. ASSUME NEW m \in Node, chordNode(m) PROVE Onward
  <2>1. CASE ServeFirstJoin(m)
    BY <1>1, <2>1 DEF ServeFirstJoin, Die, Serves, Onward
  <2>2. UNCHANGED status \/ ServeFirstJoin(m)
    BY <1>4 DEF chordNode, ServeLookup, ServeForward, ServeForwarded, ServeStable,
           ServeNotify, ServeKeepAlive, ServeReset, ServeQuit, node
  <2> QED
    BY <2>1, <2>2 DEF Onward
<1>5. ASSUME NEW c \in Client, User(c) \/ QueryReply(c) PROVE UNCHANGED status
  BY <1>5 DEF User, QueryConnect, QueryAsk, QueryQuit, QueryReply, node
<1> QED
  BY <1>2, <1>3, <1>4, <1>5, <1>6 DEF Next, Onward

\* A reply that has been read, or none.
LEMMA ReplyRead ==
    ASSUME IInv, CallsInv, Onward, NEW t \in NodeThread, UNCHANGED inbox,
           reply[t].st = "got", reply' = [reply EXCEPT ![t] = Idle]
    PROVE  CallsInv'
<1>1. reply \in [Thread -> ReplyState] /\ t \in Thread
  BY NodeThreads DEF IInv, TypeOK
<1>2. reply[t] # Waiting
  BY DEF Waiting
<1>3. \A u \in NodeThread : reply'[u] = IF u = t THEN Idle ELSE reply[u]
  BY <1>1, NodeThreads
<1> QED
  BY <1>2, <1>3, StayCalls

LEMMA NetCalls == ASSUME IInv, CallsInv, Onward, UNCHANGED net PROVE CallsInv'
BY StayCalls DEF net

LEMMA CastCalls ==
    ASSUME IInv, CallsInv, Onward, NEW p \in Port, NEW cmd, NEW arg,
           Cast(p, cmd, arg), Msg(cmd, Nobody, arg) \in Message
    PROVE  CallsInv'
<1>1. Msg(cmd, Nobody, arg).from \notin NodeThread
  BY NodeThreads DEF Msg
<1> QED
  BY <1>1, PostCalls DEF Cast

LEMMA IdleAt ==
    ASSUME IInv, NEW n \in Node
    PROVE  /\ \A l : At(n, l) => reply[Maint(n)] = Idle /\ status[n] = "up"
           /\ \A cmd : Serves(n, cmd) => /\ reply[Server(n)] = Idle
                                         /\ reply[Server(n)] # Waiting
                                         /\ status[n] = "up" /\ inbox[n] # <<>>
<1>1. reply[Maint(n)] \in ReplyState /\ reply[Server(n)] \in ReplyState
  BY ThreadType DEF IInv, TypeOK
<1>2. Idle # Waiting
  BY DEF Idle, Waiting
<1> QED
  BY <1>1, <1>2, ReplyFields DEF At, Serves

LEMMA StartCalls ==
    ASSUME IInv, CallsInv, Onward, NEW n \in Node, Operator(n) \/ Listen(n)
    PROVE  CallsInv'
<1>1. CASE creatFirstNode(n)
  BY <1>1, NetCalls DEF creatFirstNode
<1>2. ASSUME NEW c \in Node, join(n, c) PROVE CallsInv'
  <2>1. Main(n) \in NodeThread /\ Main(n)[1] = n /\ Msg("join", Main(n), n) \in Message
    BY NodeThreads, MessageType
  <2>2. reply[Main(n)] = Idle /\ status'[n] = "joining"
    BY <1>2, <2>1 DEF join, CallsInv, IInv, TypeOK
  <2> QED
    BY <1>2, <2>1, <2>2, CallCalls, NodeIsPort DEF join
<1>3. ASSUME NEW c \in Node, JoinRefused(n, c) PROVE CallsInv'
  BY <1>3, NetCalls DEF JoinRefused
<1>4. CASE commandLine(n)
  BY <1>4, DieCalls DEF commandLine
<1>5. CASE Listen(n)
  BY <1>5, ReplyRead, NodeThreads DEF Listen
<1> QED
  BY <1>1, <1>2, <1>3, <1>4, <1>5 DEF Operator, Start

LEMMA MaintCalls ==
    ASSUME IInv, CallsInv, Onward, NEW n \in Node, updateFingerTable(n)
    PROVE  CallsInv'
<1>1. postnode[n] \in Port /\ prenode[n] \in Port /\ finger[n] \in Finger
  BY DEF IInv, TypeOK
<1>2. Maint(n) \in NodeThread /\ Maint(n)[1] = n
  BY NodeThreads
<1>3. ASSUME NEW p \in Port, NEW cmd, NEW arg, NEW l, At(n, l), UNCHANGED status,
             Msg(cmd, Maint(n), arg) \in Message, Call(Maint(n), p, cmd, arg)
      PROVE  CallsInv'
  <2>1. reply[Maint(n)] = Idle /\ status'[Maint(n)[1]] # "off"
    BY <1>2, <1>3, IdleAt
  <2> QED
    BY <1>2, <1>3, <2>1, CallCalls
<1>4. CASE FixFingerHere(n)
  BY <1>4, NetCalls DEF FixFingerHere
<1>5. CASE FixFingerAsk(n)
  <2> DEFINE h == FingerStart(n, finger[n])
  <2>1. h \in Key
    BY <1>1, FingerStartType, NodeIsKey
  <2>2. PICK p \in FindAsks(n, h) :
          At(n, "fix_fingers") /\ Call(Maint(n), p, "find", h) /\ UNCHANGED node
    BY <1>5 DEF FixFingerAsk
  <2>3. p \in Port /\ Msg("find", Maint(n), h) \in Message
    BY <2>1, FindIsGood, MessageType, NodeIsPort DEF IInv
  <2> QED
    BY <1>3, <2>2, <2>3 DEF node
<1>6. CASE FixFingerReply(n)
  BY <1>2, <1>6, ReplyRead DEF FixFingerReply
<1>7. ASSUME NEW f \in {"stabilize", "notify"}, FailOver(n, f) PROVE CallsInv'
  BY <1>7, NetCalls DEF FailOver
<1>8. ASSUME NEW f \in {"stabilize", "notify"}, resetPreNode(n, f) PROVE CallsInv'
  BY <1>1, <1>8, NetCalls, CastCalls, MessageType DEF resetPreNode
<1>9. CASE GiveUp(n, "stabilize", "notify") \/ GiveUp(n, "notify", "heartBeat")
  BY <1>9, NetCalls DEF GiveUp
<1>10. CASE StabilizeAsk(n)
  BY <1>1, <1>3, <1>10, MessageType DEF StabilizeAsk, node
<1>11. CASE StabilizeReply(n)
  BY <1>2, <1>11, ReplyRead DEF StabilizeReply
<1>12. CASE notify(n)
  BY <1>1, <1>12, CastCalls, MessageType DEF notify
<1>13. CASE heartBeat(n)
  BY <1>1, <1>13, NetCalls, CastCalls, MessageType DEF heartBeat
<1> QED
  BY <1>4, <1>5, <1>6, <1>7, <1>8, <1>9, <1>10, <1>11, <1>12, <1>13 DEF updateFingerTable

LEMMA ServeCalls ==
    ASSUME IInv, CallsInv, Onward, NEW n \in Node, chordNode(n) PROVE CallsInv'
<1>1. Server(n) \in NodeThread /\ Server(n)[1] = n
  BY NodeThreads
<1>2. ASSUME NEW cmd \in {"notify", "keep-alive", "reset-pre", "query"},
             Serves(n, cmd), Pop(n), UNCHANGED reply
      PROVE  CallsInv'
  <2>1. inbox[n] # <<>> /\ Head1(n).cmd \in {"query", "notify", "keep-alive", "reset-pre"}
    BY <1>2 DEF Serves
  <2> QED
    BY <1>2, <2>1, HeadFrom, PopCalls
<1>3. LookupKey(n) # NoKey => \E cmd : Serves(n, cmd)
  BY DEF LookupKey
<1>4. CASE ServeFirstJoin(n)
  BY <1>4, DieCalls, AnswerCalls, IdleAt DEF ServeFirstJoin
<1>5. CASE ServeLookup(n)
  <2>1. PICK p : LookupKey(n) # NoKey /\ Answer(n, p)
    BY <1>5 DEF ServeLookup
  <2> QED
    BY <1>3, <2>1, AnswerCalls, IdleAt
<1>6. CASE ServeForward(n)
  <2>1. PICK p \in FindAsks(n, LookupKey(n)) :
          /\ LookupKey(n) # NoKey
          /\ Call(Server(n), p, "find", LookupKey(n))
          /\ UNCHANGED node
    BY <1>6 DEF ServeForward
  <2>2. LookupKey(n) \in Key
    BY <2>1, LookupKeyType
  <2>3. p \in Port /\ Msg("find", Server(n), LookupKey(n)) \in Message
    BY <2>2, FindIsGood, MessageType, NodeIsPort DEF IInv
  <2>4. reply[Server(n)] = Idle /\ status'[n] # "off"
    BY <1>3, <2>1, IdleAt DEF node
  <2> QED
    BY <1>1, <2>1, <2>3, <2>4, CallCalls
<1>7. CASE ServeForwarded(n)
  <2>1. reply[Server(n)].st = "got" /\ reply[Server(n)] # Waiting /\ reply[Server(n)] # Idle
    BY <1>7 DEF ServeForwarded, Waiting, Idle
  <2>2. inbox[n] # <<>>
    BY <2>1 DEF IInv, BusyServerHasCaller
  <2> QED
    BY <1>1, <1>7, <2>1, <2>2, AnswerCalls, ReplyRead DEF ServeForwarded
<1>8. CASE ServeStable(n)
  BY <1>8, AnswerCalls, IdleAt DEF ServeStable
<1>9. CASE ServeNotify(n) \/ ServeKeepAlive(n) \/ ServeReset(n) \/ ServeQuit(n)
  BY <1>2, <1>9 DEF ServeNotify, ServeKeepAlive, ServeReset, ServeQuit
<1> QED
  BY <1>4, <1>5, <1>6, <1>7, <1>8, <1>9 DEF chordNode

LEMMA ClientCalls ==
    ASSUME IInv, CallsInv, Onward, NEW c \in Client, User(c) \/ QueryReply(c)
    PROVE  CallsInv'
<1>1. ASSUME NEW n \in Node, QueryConnect(c, n) PROVE CallsInv'
  <2>1. /\ Msg("query", Query(c), None) \in Message
        /\ Msg("query", Query(c), None).from \notin NodeThread
    BY MessageType, NodeThreads DEF Msg
  <2> QED
    BY <1>1, <2>1, PostCalls, NodeIsPort DEF QueryConnect
<1>2. ASSUME UNCHANGED inbox, NEW r, reply' = [reply EXCEPT ![Query(c)] = r] PROVE CallsInv'
  <2>1. \A u \in NodeThread : reply'[u] = reply[u]
    BY <1>2, NodeThreads DEF IInv, TypeOK
  <2> QED
    BY <1>2, <2>1, StayCalls
<1>3. ASSUME NEW h, QueryAsk(c, h) PROVE CallsInv'
  BY <1>2, <1>3 DEF QueryAsk
<1>4. CASE QueryReply(c)
  BY <1>2, <1>4 DEF QueryReply
<1>5. CASE QueryQuit(c)
  BY <1>5, NetCalls DEF QueryQuit
<1> QED
  BY <1>1, <1>3, <1>4, <1>5 DEF User

LEMMA UseCalls ==
    ASSUME IInv, CallsInv, Onward, NEW n \in Node, UsePreNode(n) PROVE CallsInv'
<1>1. CASE Die(n)
  BY <1>1, DieCalls
<1>2. CASE UNCHANGED net
  BY <1>2, NetCalls
<1> QED
  BY <1>1, <1>2 DEF UsePreNode

LEMMA InitCalls == Init => CallsInv
<1> SUFFICES ASSUME Init PROVE CallsInv
  OBVIOUS
<1>1. \A n \in Node : inbox[n] = <<>> /\ Len(inbox[n]) = 0 /\ 0 <= Backlog
  BY EmptySeq, ChordAssumption DEF Init
<1>2. \A u \in NodeThread : reply[u] = Idle /\ reply[u] # Waiting
  BY NodeThreads DEF Init, Idle, Waiting
<1>3. \A u \in NodeThread : Matched(u)
  BY <1>1, <1>2 DEF Matched, Absent
<1> QED
  BY <1>1, <1>2, <1>3 DEF CallsInv

LEMMA NextCalls == IInv /\ CallsInv /\ [Next]_vars => CallsInv'
<1> SUFFICES ASSUME IInv, CallsInv, [Next]_vars PROVE CallsInv'
  OBVIOUS
<1>1. CASE UNCHANGED vars
  <2>1. UNCHANGED <<inbox, reply, status>>
    BY <1>1 DEF vars, node, net
  <2> QED
    BY <2>1, StayCalls DEF Onward
<1>2. CASE Next
  BY <1>2, OnwardNext, StartCalls, UseCalls, MaintCalls, ServeCalls, ClientCalls DEF Next
<1> QED
  BY <1>1, <1>2

LEMMA ChordCalls == Spec => []CallsInv
BY InitCalls, NextCalls, ChordInvariant, PTL DEF Spec

\* A thread of a live node that waits for a reply has one request outstanding,
\* and no other thread has any.
THEOREM OneRequestEach == Spec => []CallsMatch
<1>1. IInv /\ CallsInv => CallsMatch
  <2> SUFFICES ASSUME IInv, CallsInv, NEW n \in Node, NEW w \in {"main", "maint", "server"},
                      status[n] # "dead"
               PROVE  Cardinality(Outstanding(<<n, w>>)) =
                        IF reply[<<n, w>>] = Waiting THEN 1 ELSE 0
    BY DEF CallsMatch
  <2> DEFINE t == <<n, w>>
  <2>1. t \in NodeThread /\ t[1] = n
    BY DEF NodeThread
  <2>2. Matched(t)
    BY <2>1 DEF CallsInv
  <2> HIDE DEF t
  <2>3. \A m \in Node : DOMAIN inbox[m] = 1 .. Len(inbox[m]) /\ Len(inbox[m]) \in Nat
                        /\ Len(inbox[m]) <= Backlog
    BY LenProperties DEF IInv, TypeOK, CallsInv
  <2>4. \A m \in Node : 1 .. Len(inbox[m]) \subseteq 1 .. Backlog
    BY <2>3, ChordAssumption
  <2>5. \A x : x \in Outstanding(t) <=>
                 /\ x \in Node \X (1 .. Backlog)
                 /\ x[2] \in 1 .. Len(inbox[x[1]]) /\ inbox[x[1]][x[2]].from = t
    BY <2>3 DEF Outstanding
  <2>6. CASE reply[t] # Waiting
    <3>1. \A m \in Node : Absent(inbox[m], t)
      BY <2>2, <2>6 DEF Matched
    <3>2. Outstanding(t) = {}
      BY <2>5, <3>1 DEF Absent
    <3> QED
      BY <2>6, <3>2, FS_EmptySet DEF t
  <2>7. CASE reply[t] = Waiting
    <3>1. PICK m \in Node : Once(inbox[m], t) /\ \A k \in Node \ {m} : Absent(inbox[k], t)
      BY <2>2, <2>7 DEF Matched
    <3>2. PICK i \in 1 .. Len(inbox[m]) :
            /\ inbox[m][i].from = t
            /\ \A j \in 1 .. Len(inbox[m]) : inbox[m][j].from = t => j = i
      BY <3>1 DEF Once
    <3>3. <<m, i>> \in Outstanding(t)
      BY <2>4, <2>5, <3>2
    <3>4. ASSUME NEW x \in Outstanding(t) PROVE x = <<m, i>>
      <4>1. x[1] \in Node /\ x[2] \in 1 .. Len(inbox[x[1]]) /\ inbox[x[1]][x[2]].from = t
            /\ x = <<x[1], x[2]>>
        BY <2>5
      <4>2. x[1] = m
        BY <3>1, <4>1 DEF Absent
      <4> QED
        BY <3>2, <4>1, <4>2
    <3>5. Outstanding(t) = {<<m, i>>}
      BY <3>3, <3>4
    <3> QED
      BY <2>7, <3>5, FS_Singleton DEF t
  <2> QED
    BY <2>6, <2>7
<1> QED
  BY <1>1, ChordCalls, ChordInvariant, PTL

-----------------------------------------------------------------------------
(***************************************************************************)
(* Rings of nodes: f gives the successor of each of its members.           *)
(***************************************************************************)
\* Every non-empty set of naturals has a least element.
LEMMA LeastNatural ==
    ASSUME NEW S \in SUBSET Nat, S # {}
    PROVE  \E m \in S : \A k \in S : m <= k
<1> DEFINE T == {0 .. k : k \in S}
<1>1. IsWellFoundedOn(StrictSubsetOrdering(Nat), FiniteSubsetsOf(Nat))
  BY FS_StrictSubsetOrderingWellFounded
<1>2. T # {} /\ T \subseteq FiniteSubsetsOf(Nat)
  <2>1. ASSUME NEW k \in S PROVE 0 .. k \in FiniteSubsetsOf(Nat)
    <3>1. k \in Int /\ IsFiniteSet(0 .. k)
      BY FS_Interval
    <3> QED
      BY <3>1 DEF FiniteSubsetsOf
  <2> QED
    BY <2>1
<1> HIDE DEF T
<1>3. PICK x \in T : \A y \in T : ~ (<<y, x>> \in StrictSubsetOrdering(Nat))
  BY <1>1, <1>2, WFMin, Zenon
<1>4. PICK m \in S : x = 0 .. m
  BY DEF T
<1>5. ASSUME NEW k \in S PROVE m <= k
  <2>1. SUFFICES ASSUME k < m PROVE FALSE
    OBVIOUS
  <2>2. 0 .. k \in T
    BY DEF T
  <2>3. /\ 0 .. k \in SUBSET Nat /\ 0 .. m \in SUBSET Nat
        /\ 0 .. k \subseteq 0 .. m /\ 0 .. k # 0 .. m
    <3>1. m \in 0 .. m /\ ~ (m \in 0 .. k)
      BY <2>1
    <3> QED
      BY <2>1, <3>1
  <2>4. <<0 .. k, x>> \in StrictSubsetOrdering(Nat)
    BY <2>3, <1>4 DEF StrictSubsetOrdering
  <2> QED
    BY <2>2, <2>4, <1>3
<1> QED
  BY <1>5

\* Along the nodes of Q, each but y has the next of them for its successor.
Chain(f, Q, y) == \A z \in Q \ {y} : IsSuccessor(Q, z, f[z])

\* Successors lead from x to y, without going further than y.
Leads(f, x, y) ==
    \E Q \in SUBSET DOMAIN f :
        /\ x \in Q /\ y \in Q
        /\ Chain(f, Q, y)
        /\ \A z \in Q : Dist(z, y) <= Dist(x, y)

\* One ring through r, in order, to which the successors of all members lead.
OneRing(f, r) ==
    /\ DOMAIN f \subseteq Key
    /\ \A z \in DOMAIN f : f[z] \in DOMAIN f
    /\ DOMAIN f # {} => \E R \in SUBSET DOMAIN f : r \in R /\ \A z \in R : IsSuccessor(R, z, f[z])
    /\ \A S \in SUBSET DOMAIN f : S # {} /\ (\A z \in S : f[z] \in S) => r \in S

\* What leads to a place in f leads there in g.
Keeps(f, g) ==
    /\ DOMAIN f \subseteq DOMAIN g
    /\ \A x, y : Leads(f, x, y) => Leads(g, x, y)

\* Walking along a chain one arrives at its end.
LEMMA ChainArrives ==
    ASSUME NEW f, NEW Q \in SUBSET Key, NEW y \in Q, Chain(f, Q, y),
           NEW S, NEW x \in Q \cap S, \A z \in (Q \cap S) \ {y} : f[z] \in S
    PROVE  y \in S
<1> DEFINE D == {Dist(z, y) : z \in Q \cap S}
<1>1. D \in SUBSET Nat /\ D # {}
  BY RingAssumption DEF Dist, Key
<1> HIDE DEF D
<1>2. PICK d \in D : \A k \in D : d <= k
  BY <1>1, LeastNatural
<1>3. PICK z \in Q \cap S : d = Dist(z, y)
  BY <1>2 DEF D
<1>4. SUFFICES ASSUME z # y PROVE FALSE
  BY <1>3
<1>5. f[z] \in Q /\ ~ Between(z, y, f[z])
  BY <1>4 DEF Chain, IsSuccessor
<1>6. f[z] \in Q \cap S
  BY <1>4, <1>5
<1>7. d <= Dist(f[z], y)
  BY <1>2, <1>6 DEF D
<1>8. Dist(f[z], y) < Dist(z, y)
  <2>1. z \in Key /\ y \in Key /\ f[z] \in Key
    BY <1>5
  <2> QED
    BY <1>4, <1>5, <2>1, RingAssumption DEF Between, Dist, Key
<1>9. d \in Int /\ Dist(f[z], y) \in Int
  BY <1>1, <1>2, <1>6 DEF D
<1> QED
  BY <1>3, <1>7, <1>8, <1>9

\* A member leads to itself and to its successor.
LEMMA LeadsSelf ==
    ASSUME NEW f, DOMAIN f \subseteq Key, NEW x \in DOMAIN f
    PROVE  Leads(f, x, x)
<1>1. {x} \in SUBSET DOMAIN f /\ Chain(f, {x}, x) /\ Dist(x, x) <= Dist(x, x)
  BY RingAssumption DEF Chain, Dist, Key
<1> QED
  BY <1>1 DEF Leads

LEMMA LeadsNext ==
    ASSUME NEW f, DOMAIN f \subseteq Key, NEW x \in DOMAIN f, f[x] \in DOMAIN f
    PROVE  Leads(f, x, f[x])
<1> DEFINE Q == {x, f[x]}
<1>1. x \in Key /\ f[x] \in Key
  OBVIOUS
<1>2. Q \in SUBSET DOMAIN f /\ x \in Q /\ f[x] \in Q
  OBVIOUS
<1>3. Chain(f, Q, f[x])
  <2>1. x = f[x] \/ (~ Between(x, x, f[x]) /\ ~ Between(x, f[x], f[x]))
    BY <1>1 DEF Between, Key
  <2> QED
    BY <2>1 DEF Chain, IsSuccessor
<1>4. \A z \in Q : Dist(z, f[x]) <= Dist(x, f[x])
  BY <1>1, RingAssumption DEF Dist, Key
<1> QED
  BY <1>2, <1>3, <1>4 DEF Leads

\* A node n of a chain A that takes p for its successor, from where a chain Q
\* leads to the old one, takes that chain in.
LEMMA Splice ==
    ASSUME NEW f, DOMAIN f \subseteq Key,
           NEW A \in SUBSET DOMAIN f, NEW e, Chain(f, A, e), NEW n \in A \ {e}, f[n] # n,
           NEW Q \in SUBSET DOMAIN f, Chain(f, Q, f[n]), f[n] \in Q,
           NEW p \in Q, Between(n, p, f[n]), \A z \in Q : Dist(z, f[n]) <= Dist(p, f[n])
    PROVE  Chain([f EXCEPT ![n] = p], A \cup Q, e) /\ n \notin Q
<1> DEFINE s == f[n]
           g == [f EXCEPT ![n] = p]
<1>1. n \in Key /\ p \in Key /\ s \in Key /\ s \in A /\ \A m \in A : ~ Between(n, m, s)
  BY DEF Chain, IsSuccessor
<1>2. g[n] = p /\ \A z \in DOMAIN f \ {n} : g[z] = f[z]
  OBVIOUS
<1>3. /\ f[n] = s /\ s \in Q /\ s # n /\ Between(n, p, s) /\ Chain(f, Q, s)
      /\ \A z \in Q : Dist(z, s) <= Dist(p, s)
  OBVIOUS
<1> HIDE DEF s, g
<1>4. ASSUME NEW m \in Q PROVE /\ m = s \/ Between(n, m, s)
                               /\ ~ Between(n, m, p)
                               /\ m # n
  <2>1. m \in Key /\ Dist(m, s) <= Dist(p, s)
    BY <1>3
  <2> QED
    BY <1>1, <1>3, <2>1, RingAssumption DEF Between, Dist, Key
<1>5. ASSUME NEW z \in (A \cup Q) \ {e} PROVE IsSuccessor(A \cup Q, z, g[z])
  <2>1. CASE z = n
    <3>1. ASSUME NEW m \in A PROVE ~ Between(n, m, p)
      <4>1. m \in Key /\ ~ Between(n, m, s)
        BY <1>1
      <4> QED
        BY <1>1, <1>3, <4>1 DEF Between, Key
    <3> QED
      BY <1>2, <1>4, <2>1, <3>1 DEF IsSuccessor
  <2>2. CASE z \in A /\ z # n
    <3>1. g[z] = f[z] /\ IsSuccessor(A, z, f[z]) /\ z \in Key /\ f[z] \in Key
      BY <1>2, <2>2 DEF Chain, IsSuccessor
    <3>2. ASSUME NEW m \in Q, Between(z, m, f[z]) PROVE FALSE
      <4>1. m \in Key /\ ~ Between(z, n, f[z]) /\ ~ Between(z, s, f[z]) /\ ~ Between(n, z, s)
        BY <1>1, <2>2, <3>1 DEF IsSuccessor
      <4>2. Between(n, m, s)
        BY <1>4, <3>2, <4>1
      <4> QED
        BY <1>1, <2>2, <3>1, <3>2, <4>1, <4>2 DEF Between, Key
    <3> QED
      BY <3>1, <3>2 DEF IsSuccessor
  <2>3. CASE z \in Q /\ z \notin A
    <3>1. z # s /\ z # n
      BY <1>1, <2>3
    <3>2. g[z] = f[z] /\ IsSuccessor(Q, z, f[z]) /\ z \in Key /\ f[z] \in Q /\ f[z] \in Key
      BY <1>2, <1>3, <2>3, <3>1 DEF Chain, IsSuccessor
    <3>3. ASSUME NEW m \in A, Between(z, m, f[z]) PROVE FALSE
      <4>1. m \in Key /\ ~ Between(n, m, s)
        BY <1>1
      <4>2. Between(n, z, s) /\ (f[z] = s \/ Between(n, f[z], s)) /\ ~ Between(z, s, f[z])
        BY <1>3, <1>4, <2>3, <3>1, <3>2 DEF IsSuccessor
      <4> QED
        BY <1>1, <3>1, <3>2, <3>3, <4>1, <4>2 DEF Between, Key
    <3> QED
      BY <3>2, <3>3 DEF IsSuccessor
  <2> QED
    BY <2>1, <2>2, <2>3
<1> QED
  BY <1>4, <1>5 DEF Chain, g

\* The ring stays one when n takes a closer successor that leads to the old one.
LEMMA Adopted ==
    ASSUME NEW f, NEW r, OneRing(f, r), NEW n \in DOMAIN f, f[n] # n,
           NEW p, Leads(f, p, f[n]), Between(n, p, f[n])
    PROVE  OneRing([f EXCEPT ![n] = p], r) /\ Keeps(f, [f EXCEPT ![n] = p])
<1> DEFINE s == f[n]
           g == [f EXCEPT ![n] = p]
<1>1. PICK Q \in SUBSET DOMAIN f :
        /\ p \in Q /\ s \in Q /\ Chain(f, Q, s)
        /\ \A z \in Q : Dist(z, s) <= Dist(p, s)
  BY DEF Leads
<1>2. DOMAIN g = DOMAIN f /\ g[n] = p /\ \A z \in DOMAIN f \ {n} : g[z] = f[z]
  OBVIOUS
<1>3. /\ DOMAIN f \subseteq Key /\ \A z \in DOMAIN f : f[z] \in DOMAIN f
      /\ n \in Key /\ p \in Key /\ s \in Key /\ s # n /\ f[n] = s /\ Between(n, p, s)
  BY <1>1 DEF OneRing
<1>4. ASSUME NEW A \in SUBSET DOMAIN f, NEW e, Chain(f, A, e), n \in A \ {e}
      PROVE  Chain(g, A \cup Q, e)
  BY <1>1, <1>3, <1>4, Splice
<1>5. n \notin Q
  <2>1. \A z \in Q : z \in Key /\ Dist(z, s) <= Dist(p, s)
    BY <1>1, <1>3
  <2>2. ~ (Dist(n, s) <= Dist(p, s))
    BY <1>3, RingAssumption DEF Between, Dist, Key
  <2> QED
    BY <2>1, <2>2
<1> HIDE DEF g, s
<1>6. \E R \in SUBSET DOMAIN g : r \in R /\ \A z \in R : IsSuccessor(R, z, g[z])
  <2>1. PICK R \in SUBSET DOMAIN f : r \in R /\ \A z \in R : IsSuccessor(R, z, f[z])
    BY DEF OneRing
  <2>2. CASE n \in R
    <3>1. PICK e : e \notin DOMAIN f
      BY <1>3, RingAssumption DEF Key
    <3>2. Chain(f, R, e)
      BY <2>1 DEF Chain
    <3>3. Chain(g, R \cup Q, e)
      BY <1>4, <2>2, <3>1, <3>2
    <3>4. \A z \in R \cup Q : IsSuccessor(R \cup Q, z, g[z])
      BY <3>1, <3>3 DEF Chain
    <3> QED
      BY <1>2, <2>1, <3>4
  <2>3. CASE n \notin R
    BY <1>2, <2>1, <2>3
  <2> QED
    BY <2>2, <2>3
<1>7. ASSUME NEW S \in SUBSET DOMAIN g, S # {}, \A z \in S : g[z] \in S
      PROVE  r \in S
  <2>1. ASSUME n \in S PROVE s \in S
    <3>1. p \in Q \cap S
      BY <1>1, <1>2, <1>7, <2>1
    <3>2. \A z \in (Q \cap S) \ {s} : f[z] \in S
      BY <1>2, <1>5, <1>7
    <3>3. Q \in SUBSET Key
      BY <1>3
    <3> QED
      BY <1>1, <3>1, <3>2, <3>3, ChainArrives
  <2>2. \A z \in S : f[z] \in S
    BY <1>2, <1>3, <1>7, <2>1
  <2> QED
    BY <1>2, <1>7, <2>2 DEF OneRing
<1>8. ASSUME NEW x, NEW y, Leads(f, x, y) PROVE Leads(g, x, y)
  <2>1. PICK A \in SUBSET DOMAIN f :
          /\ x \in A /\ y \in A /\ Chain(f, A, y)
          /\ \A z \in A : Dist(z, y) <= Dist(x, y)
    BY <1>8 DEF Leads
  <2>2. CASE n \in A \ {y}
    <3>1. Chain(g, A \cup Q, y)
      BY <1>4, <2>1, <2>2
    <3>2. ASSUME NEW z \in Q PROVE Dist(z, y) <= Dist(x, y)
      <4>1. z \in Key /\ Dist(z, s) <= Dist(p, s) /\ x \in Key /\ y \in Key
        BY <1>1, <1>3, <2>1
      <4>2. Dist(n, y) <= Dist(x, y) /\ n # y
        BY <2>1, <2>2
      <4>3. ~ Between(n, y, s)
        BY <1>3, <2>1, <2>2 DEF Chain, IsSuccessor
      <4> QED
        BY <1>3, <4>1, <4>2, <4>3, RingAssumption DEF Between, Dist, Key
    <3> QED
      BY <1>2, <2>1, <3>1, <3>2 DEF Leads
  <2>3. CASE n \notin A \ {y}
    <3>1. Chain(g, A, y)
      BY <1>2, <2>1, <2>3 DEF Chain
    <3> QED
      BY <1>2, <2>1, <3>1 DEF Leads
  <2> QED
    BY <2>2, <2>3
<1>9. OneRing(g, r)
  <2>1. DOMAIN g \subseteq Key /\ \A z \in DOMAIN g : g[z] \in DOMAIN g
    BY <1>1, <1>2, <1>3
  <2> QED
    BY <1>6, <1>7, <2>1 DEF OneRing
<1> QED
  BY <1>2, <1>8, <1>9 DEF Keeps, g

\* In g there is one member more than in f, its successor is one of the others.
Grows(f, j, g) ==
    /\ j \in Key \ DOMAIN f
    /\ DOMAIN g = DOMAIN f \cup {j}
    /\ g[j] \in DOMAIN f
    /\ \A z \in DOMAIN f : g[z] = f[z]

\* A node that joins with any member for its successor leaves the ring as it is.
LEMMA Joined ==
    ASSUME NEW f, NEW j, NEW g, NEW r, OneRing(f, r), Grows(f, j, g)
    PROVE  OneRing(g, r) /\ Keeps(f, g)
<1> USE DEF Grows
<1>1. DOMAIN g \subseteq Key /\ \A z \in DOMAIN g : g[z] \in DOMAIN g
  BY DEF OneRing
<1>2. \E R \in SUBSET DOMAIN g : r \in R /\ \A z \in R : IsSuccessor(R, z, g[z])
  <2>1. PICK R \in SUBSET DOMAIN f : r \in R /\ \A z \in R : IsSuccessor(R, z, f[z])
    BY DEF OneRing
  <2>2. R \in SUBSET DOMAIN g /\ \A z \in R : IsSuccessor(R, z, g[z])
    BY <2>1
  <2> QED
    BY <2>1, <2>2
<1>3. ASSUME NEW S \in SUBSET DOMAIN g, S # {}, \A z \in S : g[z] \in S
      PROVE  r \in S
  <2> DEFINE T == S \ {j}
  <2>1. T \in SUBSET DOMAIN f /\ T # {}
    <3>1. CASE j \in S
      <4>1. g[j] \in T
        BY <1>3, <3>1
      <4> QED
        BY <4>1
    <3>2. CASE j \notin S
      BY <1>3, <3>2
    <3> QED
      BY <3>1, <3>2
  <2>2. \A z \in T : f[z] \in T
    BY <1>3, <2>1 DEF OneRing
  <2> HIDE DEF T
  <2>3. r \in T
    BY <2>1, <2>2 DEF OneRing
  <2> QED
    BY <2>3 DEF T
<1>4. ASSUME NEW x, NEW y, Leads(f, x, y) PROVE Leads(g, x, y)
  <2>1. PICK A \in SUBSET DOMAIN f :
          /\ x \in A /\ y \in A /\ Chain(f, A, y)
          /\ \A z \in A : Dist(z, y) <= Dist(x, y)
    BY <1>4 DEF Leads
  <2>2. A \in SUBSET DOMAIN g /\ Chain(g, A, y)
    BY <2>1 DEF Chain
  <2> QED
    BY <2>1, <2>2 DEF Leads
<1> QED
  BY <1>1, <1>2, <1>3, <1>4 DEF OneRing, Keeps

\* The first node is a ring of its own.
LEMMA Founded ==
    ASSUME NEW f, DOMAIN f = {}, NEW r \in Key, NEW g, DOMAIN g = {r}, g[r] = r
    PROVE  OneRing(g, r) /\ Keeps(f, g)
<1>1. IsSuccessor({r}, r, g[r])
  BY DEF IsSuccessor, Between, Key
<1>2. \E R \in SUBSET DOMAIN g : r \in R /\ \A z \in R : IsSuccessor(R, z, g[z])
  BY <1>1
<1>3. \A x, y : ~ Leads(f, x, y)
  BY DEF Leads
<1> QED
  BY <1>2, <1>3 DEF OneRing, Keeps

\* The first node to join it makes a ring of two.
LEMMA FirstJoined ==
    ASSUME NEW f, NEW r \in Key, DOMAIN f = {r}, NEW j \in Key \ {r},
           NEW g, DOMAIN g = {r, j}, g[r] = j, g[j] = r
    PROVE  OneRing(g, r) /\ Keeps(f, g)
<1>1. \A z \in {r, j} : IsSuccessor({r, j}, z, g[z])
  BY DEF IsSuccessor, Between, Key
<1>2. \E R \in SUBSET DOMAIN g : r \in R /\ \A z \in R : IsSuccessor(R, z, g[z])
  BY <1>1
<1>3. ASSUME NEW x, NEW y, Leads(f, x, y) PROVE Leads(g, x, y)
  <2>1. x = r /\ y = r
    BY <1>3 DEF Leads
  <2> QED
    BY <2>1, LeadsSelf
<1>4. ASSUME NEW S \in SUBSET DOMAIN g, S # {}, \A z \in S : g[z] \in S
      PROVE  r \in S
  BY <1>4
<1> QED
  BY <1>2, <1>3, <1>4 DEF OneRing, Keeps

-----------------------------------------------------------------------------
(***************************************************************************)
(* While nodes only join, the successors form one ordered ring.            *)
(***************************************************************************)
\* Nobody is killed, no connect comes before the listen it needs, and none gives
\* up on a node that is busy.
OnlyJoins == Mortal = {} /\ Prompt = TRUE /\ TimesOut = FALSE

\* The successors as one function, and the messages node n has not answered.
Successors == [n \in Member |-> Successor(n)]
Mails(n)   == {inbox[n][i] : i \in 1 .. Len(inbox[n])}

\* Nobody fails, and every thread is where a node without failures can be.
LiveOK ==
    \A n \in Node :
        /\ status[n] # "dead"
        /\ status[n] = "up" => n \in Member
        /\ status[n] = "joining" =>
             n # Founder /\ (reply[Main(n)] = Waiting \/ n \in Member)
        /\ status[n] # "off" => status[Founder] = "up"
        /\ status[n] # "up" => reply[Maint(n)] = Idle /\ reply[Server(n)] = Idle
        /\ pc[n] \in {"fix_fingers", "stabilize", "notify", "heartBeat"}

\* Fingers and answers name members.
PortsOK ==
    /\ \A n \in Node : \A i \in Finger : fin_tb[n][i] \in Member \cup {n}
    /\ \A u \in NodeThread : reply[u].port \in Member \cup {None}

\* A predecessor is a node that successors lead from.
PreOK ==
    /\ \A n \in Node : prenode[n] # None => Leads(Successors, prenode[n], n)
    /\ status[Founder] = "up" => prenode[Founder] # None

\* Where a "stable" of node n may be waiting: at its successor, or at n itself,
\* asked before the first node joined it, if the answer will be of no use.
Late(n)     == prenode[n] \notin {None, n} /\ ~ Between(n, prenode[n], postnode[n])
Place(n, k) == k = postnode[n] \/ (k = n /\ Late(n))

\* A message m that node k may hold.
Mail(k, m) ==
    /\ m.cmd # "reset-pre"
    /\ m.cmd = "join" => m.from = Main(m.arg) /\ status[m.arg] = "joining"
    /\ m.cmd = "notify" => Leads(Successors, m.arg, k)
    /\ m.cmd = "stable" =>
         m.from = Maint(m.arg) /\ pc[m.arg] = "stabilize" /\ Place(m.arg, k)
    /\ m.cmd = "find" => \A n \in Node : m.from = Maint(n) => pc[n] = "fix_fingers"
MailOK == \A k \in Node : \A m \in Mails(k) : Mail(k, m)

\* The answer to a "stable" leads to n's successor, or n will not adopt it.
PendingAt(n) ==
    LET p == reply[Maint(n)].port
    IN  pc[n] = "stabilize" /\ p # None =>
          Leads(Successors, p, postnode[n]) \/ ~ Between(n, p, postnode[n])
PendingOK == \A n \in Node : PendingAt(n)

\* Before the first node has joined it the founder is all there is.
AloneOK ==
    status[Founder] = "up" /\ postnode[Founder] = Founder =>
        Member = {Founder} /\ reply[Server(Founder)] = Idle

JoinInv ==
    /\ OneRing(Successors, Founder)
    /\ LiveOK /\ PortsOK /\ PreOK /\ MailOK /\ PendingOK /\ AloneOK

\* Whoever has sent a message in an inbox is waiting for the answer.
LEMMA SenderWaits ==
    ASSUME IInv, CallsInv, LiveOK, NEW k \in Node, NEW m \in Mails(k), m.from \in NodeThread
    PROVE  reply[m.from] = Waiting
<1>1. status[m.from[1]] # "dead"
  BY NodeThreads DEF LiveOK
<1>2. Matched(m.from)
  BY <1>1 DEF CallsInv
<1>3. ~ Absent(inbox[k], m.from)
  BY DEF Mails, Absent
<1> QED
  BY <1>2, <1>3 DEF Matched

\* What a step has to do so that JoinInv stays.
LEMMA JoinStep ==
    ASSUME IInv, CallsInv, JoinInv,
           OneRing(Successors', Founder), Keeps(Successors, Successors'), LiveOK', AloneOK',
           \A n \in Node : \A i \in Finger :
               fin_tb'[n][i] = fin_tb[n][i] \/ fin_tb'[n][i] \in Member' \cup {n},
           \A u \in NodeThread :
               reply'[u] = reply[u] \/ reply'[u].port \in Member' \cup {None},
           \A n \in Node :
               \/ prenode'[n] = prenode[n]
               \/ prenode'[n] # None /\ Leads(Successors', prenode'[n], n),
           status'[Founder] = "up" => status[Founder] = "up" \/ prenode'[Founder] # None,
           \A n \in Node : reply[Maint(n)] = Waiting =>
               pc'[n] = pc[n] /\ \A k \in Node : Place(n, k) => Place(n, k)',
           \A n \in Node : status[n] = "joining" /\ reply[Main(n)] = Waiting =>
               status'[n] = "joining",
           \A k \in Node : \A m \in Mails(k)' : m \in Mails(k) \/ Mail(k, m)',
           \A n \in Node :
               \/ PendingAt(n)'
               \/ UNCHANGED <<reply[Maint(n)], pc[n], postnode[n]>>
    PROVE  JoinInv'
<1>1. Member \subseteq Member' /\ \A x, y : Leads(Successors, x, y) => Leads(Successors', x, y)
  BY DEF Keeps, Successors
<1>2. PortsOK'
  BY <1>1 DEF JoinInv, PortsOK
<1>3. PreOK'
  <2>1. ASSUME NEW n \in Node, prenode'[n] # None PROVE Leads(Successors', prenode'[n], n)
    <3>1. prenode'[n] = prenode[n] => Leads(Successors, prenode[n], n)
      BY <2>1 DEF JoinInv, PreOK
    <3> QED
      BY <1>1, <3>1
  <2>2. ASSUME status'[Founder] = "up" PROVE prenode'[Founder] # None
    BY <2>2, ChordAssumption DEF JoinInv, PreOK
  <2> QED
    BY <2>1, <2>2 DEF PreOK
<1>4. MailOK'
  <2> SUFFICES ASSUME NEW k \in Node, NEW m \in Mails(k)' PROVE Mail(k, m)'
    BY DEF MailOK
  <2>1. CASE m \in Mails(k)
    <3>1. Mail(k, m) /\ m \in Message
      <4>1. inbox[k] \in Seq(Message)
        BY DEF IInv, TypeOK
      <4> QED
        BY <2>1, <4>1, ElementOfSeq DEF JoinInv, MailOK, Mails
    <3>2. m.from \in NodeThread => reply[m.from] = Waiting
      BY <2>1, SenderWaits DEF JoinInv
    <3>3. ASSUME m.cmd = "join" PROVE m.from = Main(m.arg) /\ status'[m.arg] = "joining"
      <4>1. m.arg \in Node /\ m.from = Main(m.arg) /\ status[m.arg] = "joining"
        BY <3>1, <3>3 DEF Message, Mail
      <4> QED
        BY <3>2, <4>1, NodeThreads
    <3>4. ASSUME m.cmd = "stable"
          PROVE  m.from = Maint(m.arg) /\ pc'[m.arg] = "stabilize" /\ Place(m.arg, k)'
      <4>1. m.arg \in Node /\ m.from = Maint(m.arg) /\ pc[m.arg] = "stabilize" /\ Place(m.arg, k)
        BY <3>1, <3>4 DEF Message, Mail
      <4>2. reply[Maint(m.arg)] = Waiting
        BY <3>2, <4>1, NodeThreads
      <4> QED
        BY <4>1, <4>2
    <3>5. ASSUME m.cmd = "find", NEW n \in Node, m.from = Maint(n) PROVE pc'[n] = "fix_fingers"
      BY <3>1, <3>2, <3>5, NodeThreads DEF Mail
    <3>6. m.cmd # "reset-pre" /\ (m.cmd = "notify" => Leads(Successors, m.arg, k)')
      BY <1>1, <3>1 DEF Mail
    <3> QED
      BY <3>3, <3>4, <3>5, <3>6 DEF Mail
  <2>2. CASE m \notin Mails(k)
    BY <2>2
  <2> QED
    BY <2>1, <2>2
<1>5. PendingOK'
  BY <1>1 DEF JoinInv, PendingOK, PendingAt
<1> QED
  BY <1>2, <1>3, <1>4, <1>5 DEF JoinInv

-----------------------------------------------------------------------------
\* What sending, closing and answering do to the messages and the replies.
LEMMA PostMails ==
    ASSUME IInv, NEW p \in Node, NEW m \in Message, Post(p, m)
    PROVE  \A k \in Node : \A x \in Mails(k)' : x \in Mails(k) \/ (k = p /\ x = m)
<1>1. inbox \in [Node -> Seq(Message)] /\ inbox' = [inbox EXCEPT ![p] = Append(inbox[p], m)]
  BY DEF IInv, TypeOK, Post
<1>2. ASSUME NEW i \in 1 .. Len(inbox'[p])
      PROVE  inbox'[p][i] = m \/ \E j \in 1 .. Len(inbox[p]) : inbox'[p][i] = inbox[p][j]
  <2>1. PICK l \in Nat : l = Len(inbox[p])
    BY <1>1, LenProperties
  <2>2. /\ Len(inbox'[p]) = l + 1
        /\ \A j \in 1 .. l : inbox'[p][j] = inbox[p][j]
        /\ inbox'[p][l + 1] = m
    BY <1>1, <2>1, AppendProperties
  <2>3. i \in 1 .. l \/ i = l + 1
    BY <1>2, <2>2
  <2> QED
    BY <2>1, <2>2, <2>3
<1> QED
  BY <1>1, <1>2 DEF Mails

LEMMA PopMails ==
    ASSUME IInv, NEW n \in Node, inbox[n] # <<>>, Pop(n)
    PROVE  \A k \in Node : \A x \in Mails(k)' : x \in Mails(k)
<1>1. inbox \in [Node -> Seq(Message)] /\ inbox' = [inbox EXCEPT ![n] = Tail(inbox[n])]
  BY DEF IInv, TypeOK, Pop
<1>2. ASSUME NEW i \in 1 .. Len(inbox'[n])
      PROVE  \E j \in 1 .. Len(inbox[n]) : inbox'[n][i] = inbox[n][j]
  <2>1. PICK l \in Nat : l = Len(inbox[n])
    BY <1>1, LenProperties
  <2>2. /\ Len(inbox'[n]) = l - 1
        /\ \A j \in 1 .. l - 1 : inbox'[n][j] = inbox[n][j + 1]
    BY <1>1, <2>1, HeadTailProperties
  <2>3. i \in 1 .. l - 1 /\ i + 1 \in 1 .. l
    BY <1>2, <2>2
  <2> QED
    BY <2>1, <2>2, <2>3
<1> QED
  BY <1>1, <1>2 DEF Mails

LEMMA HeadMail ==
    ASSUME IInv, NEW n \in Node, inbox[n] # <<>>
    PROVE  Head1(n) \in Mails(n) /\ Head1(n) \in Message
<1>1. inbox[n] \in Seq(Message)
  BY DEF IInv, TypeOK
<1>2. Len(inbox[n]) \in Nat \ {0} /\ Head(inbox[n]) = inbox[n][1]
  BY <1>1, EmptySeq, LenProperties, HeadTailProperties
<1> QED
  BY <1>2, HeadType DEF Mails, Head1

LEMMA AnswerStep ==
    ASSUME IInv, CallsInv, LiveOK, NEW n \in Node, NEW p, inbox[n] # <<>>, Answer(n, p)
    PROVE  /\ \A u \in NodeThread :
                reply'[u] = IF u = Server(n) THEN Idle
                            ELSE IF u = Head1(n).from THEN Got(p) ELSE reply[u]
           /\ \A k \in Node : \A x \in Mails(k)' : x \in Mails(k)
<1>1. reply \in [Thread -> ReplyState]
  BY DEF IInv, TypeOK
<1>2. Head1(n).from \in NodeThread => reply[Head1(n).from] = Waiting
  BY HeadMail, SenderWaits
<1>3. ASSUME NEW u \in NodeThread
      PROVE  reply'[u] = IF u = Server(n) THEN Idle
                         ELSE IF u = Head1(n).from THEN Got(p) ELSE reply[u]
  BY <1>1, <1>2, NodeThreads DEF Answer, Deliver
<1>4. \A k \in Node : \A x \in Mails(k)' : x \in Mails(k)
  <2>1. CASE Pop(n)
    BY <2>1, PopMails
  <2>2. CASE UNCHANGED inbox
    BY <2>2 DEF Mails
  <2> QED
    BY <2>1, <2>2 DEF Answer
<1> QED
  BY <1>3, <1>4

-----------------------------------------------------------------------------
\* Steps after which every member has the successor it had.
LEMMA RingStays ==
    ASSUME JoinInv, Member' = Member, \A n \in Member : Successor(n)' = Successor(n)
    PROVE  /\ Successors' = Successors
           /\ OneRing(Successors', Founder) /\ Keeps(Successors, Successors')
<1>1. Successors' = Successors
  BY DEF Successors
<1> QED
  BY <1>1 DEF JoinInv, Keeps

\* A step of threads that are neither joining nor change a neighbour.
LEMMA QuietStep ==
    ASSUME IInv, CallsInv, JoinInv, UNCHANGED <<status, postnode, prenode>>,
           \A n \in Node : reply'[Main(n)] = reply[Main(n)],
           \A n \in Node : status[n] = "up" \/ UNCHANGED <<reply[Maint(n)], reply[Server(n)]>>,
           \A u \in NodeThread : reply'[u] = reply[u] \/ reply'[u].port \in Member \cup {None},
           \A n \in Node : \A i \in Finger :
               fin_tb'[n][i] = fin_tb[n][i] \/ fin_tb'[n][i] \in Member \cup {n},
           \A n \in Node :
               /\ pc'[n] \in {"fix_fingers", "stabilize", "notify", "heartBeat"}
               /\ reply[Maint(n)] = Waiting => pc'[n] = pc[n]
               /\ PendingAt(n)' \/ UNCHANGED <<reply[Maint(n)], pc[n]>>,
           \A k \in Node : \A m \in Mails(k)' : m \in Mails(k) \/ Mail(k, m)',
           Member = {Founder} /\ reply[Server(Founder)] = Idle => reply'[Server(Founder)] = Idle
    PROVE  JoinInv'
<1>1. Member' = Member /\ \A n \in Member : Successor(n)' = Successor(n)
  BY DEF Member, Successor
<1>2. LiveOK'
  BY <1>1 DEF JoinInv, LiveOK
<1>3. AloneOK'
  BY <1>1 DEF JoinInv, AloneOK
<1>4. \A n, k \in Node : Place(n, k) => Place(n, k)'
  BY DEF Place, Late
<1> QED
  BY <1>1, <1>2, <1>3, <1>4, RingStays, JoinStep

-----------------------------------------------------------------------------
\* What holds of a node that is up.
LEMMA MemberFacts ==
    ASSUME IInv, JoinInv
    PROVE  /\ Member \subseteq Node /\ DOMAIN Successors = Member /\ Member \subseteq Key
           /\ \A n \in Member : Successors[n] = Successor(n) /\ Successor(n) \in Member
           /\ \A x, y : Leads(Successors, x, y) => x \in Member /\ y \in Member
           /\ \A n \in Node : prenode[n] \in Member \cup {None}
<1>1. Member \subseteq Node /\ DOMAIN Successors = Member
  BY DEF Member, Successors
<1>2. \A x, y : Leads(Successors, x, y) => x \in Member /\ y \in Member
  BY <1>1 DEF Leads
<1>3. \A n \in Member : Successors[n] = Successor(n) /\ Successor(n) \in Member
  BY <1>1 DEF Successors, JoinInv, OneRing
<1> QED
  BY <1>1, <1>2, <1>3, RingAssumption DEF JoinInv, PreOK

LEMMA UpFacts ==
    ASSUME IInv, JoinInv, NEW n \in Node, status[n] = "up"
    PROVE  /\ n \in Member /\ Successors[n] = postnode[n] /\ postnode[n] \in Member
           /\ postnode[n] \in Node /\ postnode[n] # None
           /\ Leads(Successors, n, postnode[n])
           /\ \A i \in Finger : fin_tb[n][i] \in Member
           /\ \A h : FindHere(n, h) \subseteq Member /\ FindAsks(n, h) \subseteq Member
<1>1. n \in Member
  BY DEF JoinInv, LiveOK
<1>2. Successors[n] = postnode[n] /\ postnode[n] \in Member /\ postnode[n] \in Node
  BY <1>1, MemberFacts DEF Successor
<1>3. Leads(Successors, n, postnode[n])
  BY <1>1, <1>2, MemberFacts, LeadsNext
<1>4. \A i \in Finger : fin_tb[n][i] \in Member
  BY <1>1 DEF JoinInv, PortsOK
<1>5. ASSUME NEW h PROVE FindHere(n, h) \subseteq Member /\ FindAsks(n, h) \subseteq Member
  BY <1>1, <1>2, <1>4 DEF FindHere, Here, FindAsks, Asks, Candidates
<1> QED
  BY <1>1, <1>2, <1>3, <1>4, <1>5, NodeIsKey

LEMMA NoRefusal ==
    ASSUME OnlyJoins, IInv, JoinInv, NEW p \in Member PROVE ~ Refuses(p)
<1>1. p # None
  BY MemberFacts, NodeIsKey
<1>2. status[p] \in {"up", "joining"}
  BY DEF Member
<1> QED
  BY <1>1, <1>2 DEF Refuses, OnlyJoins

LEMMA CallStep ==
    ASSUME IInv, NEW t \in NodeThread, NEW p \in Port, NEW cmd, NEW arg,
           Msg(cmd, t, arg) \in Message, Call(t, p, cmd, arg)
    PROVE  /\ p \in Node
           /\ \A u \in NodeThread : reply'[u] = IF u = t THEN Waiting ELSE reply[u]
           /\ \A k \in Node : \A x \in Mails(k)' :
                x \in Mails(k) \/ (k = p /\ x = Msg(cmd, t, arg))
<1>1. p \in Node
  BY DEF Call, Accepts, Port
<1>2. reply \in [Thread -> ReplyState] /\ reply' = [reply EXCEPT ![t] = Waiting]
  BY DEF IInv, TypeOK, Call
<1> QED
  BY <1>1, <1>2, NodeThreads, PostMails DEF Call

LEMMA CastStep ==
    ASSUME IInv, NEW p \in Port, NEW cmd, NEW arg,
           Msg(cmd, Nobody, arg) \in Message, Cast(p, cmd, arg)
    PROVE  /\ p \in Node /\ UNCHANGED reply
           /\ \A k \in Node : \A x \in Mails(k)' :
                x \in Mails(k) \/ (k = p /\ x = Msg(cmd, Nobody, arg))
<1>1. p \in Node
  BY DEF Cast, Accepts, Port
<1> QED
  BY <1>1, PostMails DEF Cast

LEMMA SameMails ==
    UNCHANGED inbox => \A k \in Node : \A m \in Mails(k)' : m \in Mails(k)
BY DEF Mails

\* A step of the maintenance thread of n, but for the answer to "stable".
LEMMA MaintStep ==
    ASSUME IInv, CallsInv, JoinInv, NEW n \in Node, status[n] = "up",
           reply[Maint(n)] # Waiting, UNCHANGED <<status, postnode, prenode>>,
           \A u \in NodeThread \ {Maint(n)} : reply'[u] = reply[u],
           reply'[Maint(n)] \in {Idle, Waiting},
           \A k \in Node : \A i \in Finger :
               fin_tb'[k][i] = fin_tb[k][i] \/ fin_tb'[k][i] \in Member,
           \A k \in Node \ {n} : pc'[k] = pc[k],
           pc'[n] \in {"fix_fingers", "stabilize", "notify", "heartBeat"},
           \A k \in Node : \A m \in Mails(k)' : m \in Mails(k) \/ Mail(k, m)'
    PROVE  JoinInv'
<1>1. \A k \in Node : /\ Main(k) \in NodeThread /\ Main(k) # Maint(n)
                      /\ Server(k) \in NodeThread /\ Server(k) # Maint(n)
                      /\ Maint(k) \in NodeThread /\ (Maint(k) = Maint(n) => k = n)
  BY NodeThreads, ThreadsDiffer DEF Main, Maint
<1>2. reply'[Maint(n)].port = None
  BY DEF Idle, Waiting
<1>3. PendingAt(n)'
  BY <1>2 DEF PendingAt
<1>4. \A k \in Node :
        /\ pc'[k] \in {"fix_fingers", "stabilize", "notify", "heartBeat"}
        /\ reply[Maint(k)] = Waiting => pc'[k] = pc[k]
        /\ PendingAt(k)' \/ UNCHANGED <<reply[Maint(k)], pc[k]>>
  BY <1>1, <1>3 DEF JoinInv, LiveOK
<1>5. \A u \in NodeThread : reply'[u] = reply[u] \/ reply'[u].port \in Member \cup {None}
  BY <1>2
<1>6. \A k \in Node : /\ reply'[Main(k)] = reply[Main(k)]
                      /\ reply'[Server(k)] = reply[Server(k)]
                      /\ status[k] = "up" \/ reply'[Maint(k)] = reply[Maint(k)]
  BY <1>1
<1>7. Founder \in Node
  BY ChordAssumption
<1> QED
  BY <1>4, <1>5, <1>6, <1>7, QuietStep

\* n adopts a closer successor, from which successors lead to the old one.
LEMMA AdoptStep ==
    ASSUME IInv, CallsInv, JoinInv, NEW n \in Node, StabilizeReply(n)
    PROVE  JoinInv'
<1> DEFINE p == reply[Maint(n)].port
           s == postnode[n]
<1>1. /\ status[n] = "up" /\ pc[n] = "stabilize" /\ reply[Maint(n)].st = "got"
      /\ reply' = [reply EXCEPT ![Maint(n)] = Idle]
      /\ pc' = [pc EXCEPT ![n] = "notify"]
      /\ UNCHANGED <<status, prenode, fin_tb, inbox>>
      /\ postnode' = IF p # None /\ Adopts(n, translate(s), p)
                       THEN [postnode EXCEPT ![n] = p] ELSE postnode
  BY DEF StabilizeReply, Goto
<1>2. /\ n \in Member /\ Successors[n] = s /\ s \in Member /\ s \in Key /\ n \in Key /\ translate(s) = s
      /\ p \in Member \cup {None}
  BY <1>1, UpFacts, MemberFacts, NodeIsKey, NodeThreads DEF JoinInv, PortsOK
<1>3. reply \in [Thread -> ReplyState] /\ postnode \in [Node -> Port] /\ pc \in [Node -> PC]
  BY DEF IInv, TypeOK
<1>4. \A u \in NodeThread : reply'[u] = IF u = Maint(n) THEN Idle ELSE reply[u]
  BY <1>1, <1>3, NodeThreads
<1>5. \A k \in Node : pc'[k] = IF k = n THEN "notify" ELSE pc[k]
  BY <1>1, <1>3
<1>6. reply[Maint(n)] # Waiting /\ \A m \in Node : \A x \in Mails(m)' : x \in Mails(m)
  BY <1>1, SameMails DEF Waiting
<1>7. CASE ~ (p # None /\ Adopts(n, translate(s), p))
  <2>1. UNCHANGED postnode
    BY <1>1, <1>7
  <2> QED
    BY <1>1, <1>4, <1>5, <1>6, <2>1, NodeThreads, MaintStep
<1>8. CASE p # None /\ Adopts(n, translate(s), p)
  <2>1. p \in Member /\ p \in Key /\ Between(n, p, s) /\ p # n /\ s # n
    BY <1>2, <1>8, MemberFacts, AdoptsCloser DEF Adopts, Key
  <2>2. Leads(Successors, p, s)
    BY <1>1, <2>1, <1>8 DEF JoinInv, PendingOK, PendingAt
  <2> HIDE DEF p, s
  <2>3. \A k \in Node : postnode'[k] = IF k = n THEN p ELSE postnode[k]
    BY <1>1, <1>3, <1>8
  <2>4. \A k \in Node : /\ Main(k) \in NodeThread /\ Main(k) # Maint(n)
                        /\ Server(k) \in NodeThread /\ Server(k) # Maint(n)
                        /\ Maint(k) \in NodeThread /\ (Maint(k) = Maint(n) => k = n)
    BY NodeThreads, ThreadsDiffer DEF Main, Maint
  <2>5. \A k \in Node : /\ reply'[Main(k)] = reply[Main(k)]
                        /\ reply'[Server(k)] = reply[Server(k)]
                        /\ k # n => reply'[Maint(k)] = reply[Maint(k)]
    BY <1>4, <2>4
  <2>6. Member' = Member
    BY <1>1, <1>2, <1>8, <2>3, <2>5 DEF Member
  <2>7. \A k \in Member : Successor(k)' = IF k = n THEN p ELSE Successor(k)
    BY <1>1, <2>3, <2>5, MemberFacts DEF Successor
  <2>8. Successors' = [Successors EXCEPT ![n] = p]
    BY <2>6, <2>7 DEF Successors
  <2>9. OneRing(Successors', Founder) /\ Keeps(Successors, Successors')
    BY <1>2, <2>1, <2>2, <2>8, Adopted, MemberFacts DEF JoinInv
  <2>10. LiveOK'
    BY <1>1, <1>5, <2>5, <2>6 DEF JoinInv, LiveOK
  <2>11. AloneOK'
    <3>1. Founder \in Node
      BY ChordAssumption
    <3>2. CASE Founder = n
      BY <2>1, <2>3, <3>1, <3>2 DEF AloneOK
    <3>3. CASE Founder # n
      BY <1>1, <1>2, <2>3, <3>1, <3>3 DEF AloneOK, JoinInv
    <3> QED
      BY <3>2, <3>3
  <2>12. \A k \in Node : reply[Maint(k)] = Waiting =>
           pc'[k] = pc[k] /\ \A m \in Node : Place(k, m) => Place(k, m)'
    <3> SUFFICES ASSUME NEW k \in Node, reply[Maint(k)] = Waiting
                 PROVE  pc'[k] = pc[k] /\ \A m \in Node : Place(k, m) => Place(k, m)'
      OBVIOUS
    <3>1. k # n
      BY <1>6
    <3>2. postnode'[k] = postnode[k] /\ prenode'[k] = prenode[k] /\ pc'[k] = pc[k]
      BY <1>1, <1>5, <2>3, <3>1
    <3> QED
      BY <3>2 DEF Place, Late
  <2>13. \A k \in Node : PendingAt(k)' \/ UNCHANGED <<reply[Maint(k)], pc[k], postnode[k]>>
    BY <1>5, <2>3, <2>5 DEF PendingAt
  <2>14. \A u \in NodeThread : reply'[u] = reply[u] \/ reply'[u].port \in Member' \cup {None}
    BY <1>4 DEF Idle
  <2>15. UNCHANGED <<status, prenode, fin_tb>>
    BY <1>1
  <2> QED
    BY <1>6, <2>9, <2>10, <2>11, <2>12, <2>13, <2>14, <2>15, JoinStep
<1> QED
  BY <1>7, <1>8

LEMMA MaintJoins ==
    ASSUME OnlyJoins, IInv, CallsInv, JoinInv, NEW n \in Node, updateFingerTable(n)
    PROVE  JoinInv'
<1>1. ASSUME NEW l, At(n, l) PROVE status[n] = "up" /\ reply[Maint(n)] = Idle /\ pc[n] = l
  BY <1>1, IdleAt DEF At
<1>2. Maint(n) \in NodeThread /\ Idle # Waiting /\ finger[n] \in Finger
  BY NodeThreads DEF Idle, Waiting, IInv, TypeOK
<1>3. /\ pc[n] \in {"fix_fingers", "stabilize", "notify", "heartBeat"}
      /\ fin_tb \in [Node -> [Finger -> Node]] /\ pc \in [Node -> PC]
      /\ reply \in [Thread -> ReplyState]
  BY DEF JoinInv, LiveOK, IInv, TypeOK
<1>4. ASSUME NEW p \in Member, SetFinger(n, p), pc[n] = "fix_fingers"
      PROVE  /\ \A k \in Node : \A i \in Finger :
                  fin_tb'[k][i] = fin_tb[k][i] \/ fin_tb'[k][i] \in Member
             /\ \A k \in Node \ {n} : pc'[k] = pc[k]
             /\ pc'[n] \in {"fix_fingers", "stabilize"}
  BY <1>2, <1>3, <1>4 DEF SetFinger, Goto
<1>5. CASE FixFingerHere(n)
  <2>1. PICK p \in FindHere(n, FingerStart(n, finger[n])) \ {None} :
          At(n, "fix_fingers") /\ SetFinger(n, p)
          /\ UNCHANGED <<status, postnode, postnode2, prenode, net, client>>
    BY <1>5 DEF FixFingerHere
  <2>2. p \in Member
    BY <1>1, <2>1, UpFacts
  <2>3. UNCHANGED <<status, postnode, prenode, inbox, reply>>
    BY <2>1 DEF net
  <2> QED
    BY <1>1, <1>2, <1>4, <2>1, <2>2, <2>3, SameMails, MaintStep
<1>6. CASE FixFingerAsk(n)
  <2> DEFINE h == FingerStart(n, finger[n])
  <2>1. PICK p \in FindAsks(n, h) :
          At(n, "fix_fingers") /\ Call(Maint(n), p, "find", h) /\ UNCHANGED <<node, maint, client>>
    BY <1>6 DEF FixFingerAsk
  <2>2. h \in Key
    BY <1>2, FingerStartType, NodeIsKey
  <2> HIDE DEF h
  <2>3. Msg("find", Maint(n), h) \in Message /\ p \in Port
    BY <2>1, <2>2, FindIsGood, NodeIsPort, MessageType DEF IInv
  <2>4. UNCHANGED <<status, postnode, prenode, fin_tb, pc>>
    BY <2>1 DEF node, maint
  <2>5. \A x : x = Msg("find", Maint(n), h) => Mail(p, x)'
    BY <1>1, <2>1, <2>4 DEF Mail, Msg, Maint
  <2>6. /\ \A u \in NodeThread : reply'[u] = IF u = Maint(n) THEN Waiting ELSE reply[u]
        /\ \A k \in Node : \A x \in Mails(k)' :
             x \in Mails(k) \/ (k = p /\ x = Msg("find", Maint(n), h))
    BY <1>2, <2>1, <2>3, CallStep
  <2>7. \A k \in Node : \A x \in Mails(k)' : x \in Mails(k) \/ Mail(k, x)'
    BY <2>5, <2>6
  <2>8. status[n] = "up" /\ reply[Maint(n)] # Waiting /\ reply'[Maint(n)] = Waiting
    BY <1>1, <1>2, <2>1, <2>6
  <2> QED
    BY <1>3, <2>4, <2>6, <2>7, <2>8, MaintStep
<1>7. CASE FixFingerReply(n)
  <2>1. /\ status[n] = "up" /\ pc[n] = "fix_fingers" /\ reply[Maint(n)] # Waiting
        /\ reply' = [reply EXCEPT ![Maint(n)] = Idle]
        /\ UNCHANGED <<status, postnode, prenode, inbox>>
    BY <1>7 DEF FixFingerReply, Waiting
  <2>2. \A u \in NodeThread : reply'[u] = IF u = Maint(n) THEN Idle ELSE reply[u]
    BY <1>3, <2>1, NodeThreads
  <2>3. CASE reply[Maint(n)].port = None
    <3>1. UNCHANGED <<fin_tb, pc>>
      BY <1>7, <2>3 DEF FixFingerReply, maint
    <3> QED
      BY <1>2, <1>3, <2>1, <2>2, <3>1, SameMails, MaintStep
  <2>4. CASE reply[Maint(n)].port # None
    <3>1. SetFinger(n, reply[Maint(n)].port) /\ reply[Maint(n)].port \in Member
      BY <1>2, <1>7, <2>4 DEF FixFingerReply, JoinInv, PortsOK
    <3> QED
      BY <1>2, <1>4, <2>1, <2>2, <3>1, SameMails, MaintStep
  <2> QED
    BY <2>3, <2>4
<1>8. ASSUME NEW f \in {"stabilize", "notify"}, FailOver(n, f) PROVE FALSE
  BY <1>1, <1>8, UpFacts, NoRefusal DEF FailOver
<1>9. ASSUME NEW f \in {"stabilize", "notify"}, resetPreNode(n, f) PROVE FALSE
  BY <1>1, <1>3, <1>9 DEF resetPreNode, ResetOf
<1>10. ASSUME NEW f \in {"stabilize", "notify"}, NEW l, GiveUp(n, f, l) PROVE FALSE
  BY <1>1, <1>3, <1>10 DEF GiveUp, RetryOf
<1>11. CASE StabilizeAsk(n)
  <2>1. /\ status[n] = "up" /\ reply[Maint(n)] = Idle /\ pc[n] = "stabilize"
        /\ Call(Maint(n), postnode[n], "stable", n)
        /\ pc' = [pc EXCEPT ![n] = "stabilize"]
        /\ UNCHANGED <<status, postnode, prenode, fin_tb>>
    BY <1>1, <1>3, <1>11 DEF StabilizeAsk, Goto, node
  <2>2. Msg("stable", Maint(n), n) \in Message /\ postnode[n] \in Port
    BY MessageType DEF IInv, TypeOK
  <2>3. \A k \in Node : pc'[k] = pc[k]
    BY <1>3, <2>1
  <2>4. \A k, x : k = postnode[n] /\ x = Msg("stable", Maint(n), n) => Mail(k, x)'
    BY <2>1, <2>3 DEF Mail, Msg, Place
  <2>5. /\ \A u \in NodeThread : reply'[u] = IF u = Maint(n) THEN Waiting ELSE reply[u]
        /\ \A k \in Node : \A x \in Mails(k)' :
             x \in Mails(k) \/ (k = postnode[n] /\ x = Msg("stable", Maint(n), n))
    BY <1>2, <2>1, <2>2, CallStep
  <2> QED
    BY <1>2, <1>3, <2>1, <2>3, <2>4, <2>5, MaintStep
<1>12. CASE notify(n)
  <2>1. /\ status[n] = "up" /\ reply[Maint(n)] = Idle
        /\ Cast(postnode[n], "notify", n)
        /\ pc' = [pc EXCEPT ![n] = "heartBeat"]
        /\ UNCHANGED <<status, postnode, prenode, fin_tb>>
    BY <1>1, <1>12 DEF notify, Goto, node
  <2>2. Msg("notify", Nobody, n) \in Message /\ postnode[n] \in Port
    BY MessageType DEF IInv, TypeOK
  <2>3. \A k \in Node : pc'[k] = IF k = n THEN "heartBeat" ELSE pc[k]
    BY <1>3, <2>1
  <2>4. UNCHANGED reply
    BY <2>1 DEF Cast
  <2>5. \A k, x : k = postnode[n] /\ x = Msg("notify", Nobody, n) => Mail(k, x)'
    <3>1. Member' = Member /\ \A k \in Member : Successor(k)' = Successor(k)
      BY <2>1, <2>4 DEF Member, Successor
    <3>2. Leads(Successors', n, postnode[n])
      BY <2>1, <3>1, RingStays, UpFacts
    <3> QED
      BY <2>1, <3>2 DEF Mail, Msg
  <2> QED
    BY <1>2, <1>3, <2>1, <2>2, <2>3, <2>4, <2>5, CastStep, MaintStep
<1>13. CASE heartBeat(n)
  <2>1. /\ status[n] = "up" /\ reply[Maint(n)] = Idle
        /\ pc' = [pc EXCEPT ![n] = "fix_fingers"]
        /\ UNCHANGED <<status, postnode, fin_tb>>
    BY <1>1, <1>13 DEF heartBeat, Goto
  <2>2. \A k \in Node : pc'[k] = IF k = n THEN "fix_fingers" ELSE pc[k]
    BY <1>3, <2>1
  <2>3. ~ (prenode[n] # None /\ Refuses(prenode[n]))
    BY NoRefusal, MemberFacts
  <2>4. CASE UNCHANGED <<prenode, inbox, reply>>
    BY <1>2, <1>3, <2>1, <2>2, <2>4, SameMails, MaintStep
  <2>5. CASE Cast(prenode[n], "keep-alive", postnode[n]) /\ UNCHANGED prenode
    <3>1. Msg("keep-alive", Nobody, postnode[n]) \in Message /\ prenode[n] \in Port
      BY MessageType DEF IInv, TypeOK
    <3>2. \A k, x : x = Msg("keep-alive", Nobody, postnode[n]) => Mail(k, x)'
      BY DEF Mail, Msg
    <3>3. UNCHANGED reply
      BY <2>5 DEF Cast
    <3> QED
      BY <1>2, <1>3, <2>1, <2>2, <2>5, <3>1, <3>2, <3>3, CastStep, MaintStep
  <2> QED
    BY <1>13, <2>3, <2>4, <2>5 DEF heartBeat, net
<1> QED
  BY <1>5, <1>6, <1>7, <1>8, <1>9, <1>10, <1>11, <1>12, <1>13, AdoptStep
     DEF updateFingerTable

-----------------------------------------------------------------------------
\* A node joins.
LEMMA StartJoins ==
    ASSUME OnlyJoins, IInv, CallsInv, JoinInv, NEW n \in Node, Operator(n)
    PROVE  JoinInv'
<1>1. Founder \in Node /\ None \notin Node
  BY ChordAssumption, NodeIsKey
<1>2. status \in [Node -> {"off", "joining", "up", "dead"}] /\ reply \in [Thread -> ReplyState]
      /\ postnode \in [Node -> Port] /\ prenode \in [Node -> Port]
  BY DEF IInv, TypeOK
<1>3. \A k \in Node : status[k] # "dead"
  BY DEF JoinInv, LiveOK
<1>4. ~ commandLine(n) /\ \A c \in Node : ~ JoinRefused(n, c)
  BY <1>1, <1>3 DEF commandLine, JoinRefused, Refuses, OnlyJoins
<1>5. CASE creatFirstNode(n)
  <2>1. /\ status[n] = "off" /\ n = Founder
        /\ status' = [status EXCEPT ![n] = "up"]
        /\ postnode' = [postnode EXCEPT ![n] = n]
        /\ prenode' = [prenode EXCEPT ![n] = n]
        /\ UNCHANGED <<fin_tb, pc, inbox, reply>>
    BY <1>5 DEF creatFirstNode, maint, net
  <2>2. \A k \in Node : status[k] = "off" /\ reply[Maint(k)] = Idle /\ reply[Server(k)] = Idle
    BY <1>2, <2>1 DEF JoinInv, LiveOK
  <2>3. /\ \A k \in Node : status'[k] = IF k = Founder THEN "up" ELSE "off"
        /\ postnode'[Founder] = Founder
        /\ \A k \in Node : prenode'[k] = IF k = Founder THEN Founder ELSE prenode[k]
    BY <1>1, <1>2, <2>1, <2>2
  <2>4. Member = {} /\ Member' = {Founder} /\ Successor(Founder)' = Founder
    BY <1>1, <2>2, <2>3 DEF Member, Successor
  <2>5. DOMAIN Successors = {} /\ DOMAIN Successors' = {Founder} /\ Successors'[Founder] = Founder
    BY <2>4 DEF Successors
  <2>6. OneRing(Successors', Founder) /\ Keeps(Successors, Successors') /\ Founder \in Key
    BY <1>1, <2>5, Founded, NodeIsKey
  <2>7. Leads(Successors', Founder, Founder)
    BY <2>5, <2>6, LeadsSelf
  <2>8. LiveOK'
    BY <1>1, <2>1, <2>2, <2>3, <2>4 DEF JoinInv, LiveOK
  <2>9. AloneOK'
    BY <1>1, <2>1, <2>2, <2>4 DEF AloneOK
  <2>10. \A k \in Node : reply[Maint(k)] # Waiting /\ status[k] # "joining" /\ PendingAt(k)'
    BY <2>1, <2>2 DEF PendingAt, Idle, Waiting
  <2>11. \A k \in Node : \/ prenode'[k] = prenode[k]
                         \/ prenode'[k] # None /\ Leads(Successors', prenode'[k], k)
    BY <1>1, <2>3, <2>7
  <2>12. prenode'[Founder] # None /\ \A k \in Node : \A x \in Mails(k)' : x \in Mails(k)
    BY <1>1, <2>1, <2>3, SameMails
  <2> QED
    BY <2>1, <2>6, <2>8, <2>9, <2>10, <2>11, <2>12, JoinStep
<1>6. ASSUME NEW c \in Node, join(n, c) PROVE JoinInv'
  <2>1. /\ status[n] = "off" /\ n # Founder
        /\ status' = [status EXCEPT ![n] = "joining"]
        /\ Call(Main(n), c, "join", n) /\ status[c] = "up"
        /\ UNCHANGED <<postnode, prenode, fin_tb, pc>>
    BY <1>6 DEF join, maint, Call, Accepts
  <2>2. status[Founder] = "up"
    BY <2>1 DEF JoinInv, LiveOK
  <2>3. /\ \A u \in NodeThread : reply'[u] = IF u = Main(n) THEN Waiting ELSE reply[u]
        /\ \A k \in Node : \A x \in Mails(k)' :
             x \in Mails(k) \/ (k = c /\ x = Msg("join", Main(n), n))
    BY <2>1, CallStep, MessageType, NodeThreads, NodeIsPort
  <2>4. \A k \in Node : status'[k] = IF k = n THEN "joining" ELSE status[k]
    BY <1>2, <2>1
  <2>5. \A k \in Node : /\ reply'[Main(k)] = IF k = n THEN Waiting ELSE reply[Main(k)]
                        /\ reply'[Maint(k)] = reply[Maint(k)]
                        /\ reply'[Server(k)] = reply[Server(k)]
    BY <2>3, NodeThreads DEF Main, Maint, Server
  <2>6. Member' = Member
    BY <2>1, <2>4, <2>5 DEF Member, Waiting
  <2>7. n \notin Member /\ \A k \in Member : Successor(k)' = Successor(k)
    BY <2>1, <2>4, <2>5, MemberFacts DEF Member, Successor
  <2>8. OneRing(Successors', Founder) /\ Keeps(Successors, Successors') /\ Successors' = Successors
    BY <2>6, <2>7, RingStays
  <2>9. LiveOK'
    BY <2>1, <2>2, <2>4, <2>5, <2>6 DEF JoinInv, LiveOK
  <2>10. AloneOK'
    BY <1>1, <2>1, <2>4, <2>5, <2>6 DEF JoinInv, AloneOK
  <2>11. \A x : x = Msg("join", Main(n), n) => Mail(c, x)'
    BY <2>4 DEF Mail, Msg
  <2>12. \A k, m \in Node : Place(k, m) => Place(k, m)'
    BY <2>1 DEF Place, Late
  <2>13. \A u \in NodeThread : reply'[u] = reply[u] \/ reply'[u].port \in Member' \cup {None}
    BY <2>3 DEF Waiting
  <2>14. \A k \in Node : \A m \in Mails(k)' : m \in Mails(k) \/ Mail(k, m)'
    BY <2>3, <2>11
  <2>15. \A k \in Node : status[k] = "joining" => status'[k] = "joining"
    BY <2>4
  <2> QED
    BY <1>1, <2>1, <2>2, <2>5, <2>8, <2>9, <2>10, <2>12, <2>13, <2>14, <2>15, JoinStep
<1> QED
  BY <1>4, <1>5, <1>6 DEF Operator, Start

\* It listens, with the successor that its answer named.
LEMMA ListenJoins ==
    ASSUME IInv, CallsInv, JoinInv, NEW n \in Node, Listen(n)
    PROVE  JoinInv'
<1> DEFINE p == reply[Main(n)].port
<1>1. /\ status[n] = "joining" /\ reply[Main(n)].st = "got"
      /\ status' = [status EXCEPT ![n] = "up"]
      /\ postnode' = [postnode EXCEPT ![n] = p]
      /\ reply' = [reply EXCEPT ![Main(n)] = Idle]
      /\ UNCHANGED <<prenode, fin_tb, pc, inbox>>
  BY DEF Listen, maint
<1>2. Founder \in Node /\ n # Founder /\ n \in Member /\ status[Founder] = "up"
      /\ reply[Maint(n)] = Idle
  BY <1>1, ChordAssumption DEF JoinInv, LiveOK, Waiting
<1>3. Successor(n) = p /\ p \in Member /\ p # None
  BY <1>1, <1>2, MemberFacts, NodeIsKey DEF Successor
<1> HIDE DEF p
<1>4. status \in [Node -> {"off", "joining", "up", "dead"}] /\ reply \in [Thread -> ReplyState]
      /\ postnode \in [Node -> Port]
  BY DEF IInv, TypeOK
<1>5. \A k \in Node : /\ status'[k] = IF k = n THEN "up" ELSE status[k]
                      /\ postnode'[k] = IF k = n THEN p ELSE postnode[k]
  BY <1>1, <1>4
<1>6. \A u \in NodeThread : reply'[u] = IF u = Main(n) THEN Idle ELSE reply[u]
  BY <1>1, <1>4, NodeThreads
<1>7. \A k \in Node : /\ reply'[Main(k)] = IF k = n THEN Idle ELSE reply[Main(k)]
                      /\ reply'[Maint(k)] = reply[Maint(k)]
                      /\ reply'[Server(k)] = reply[Server(k)]
  BY <1>6, NodeThreads DEF Main, Maint, Server
<1>8. Member' = Member
  BY <1>2, <1>3, <1>5, <1>7 DEF Member
<1>9. \A k \in Member : Successor(k)' = Successor(k)
  BY <1>3, <1>5, <1>7, MemberFacts DEF Successor
<1>10. OneRing(Successors', Founder) /\ Keeps(Successors, Successors')
  BY <1>8, <1>9, RingStays
<1>11. LiveOK'
  BY <1>1, <1>2, <1>5, <1>7, <1>8 DEF JoinInv, LiveOK
<1>12. AloneOK'
  BY <1>1, <1>2, <1>5, <1>7, <1>8 DEF JoinInv, AloneOK
<1>13. \A k \in Node : reply[Maint(k)] = Waiting =>
         pc'[k] = pc[k] /\ \A m \in Node : Place(k, m) => Place(k, m)'
  <2> SUFFICES ASSUME NEW k \in Node, reply[Maint(k)] = Waiting
               PROVE  pc'[k] = pc[k] /\ \A m \in Node : Place(k, m) => Place(k, m)'
    OBVIOUS
  <2>1. k # n
    BY <1>2 DEF Idle, Waiting
  <2>2. postnode'[k] = postnode[k] /\ prenode'[k] = prenode[k] /\ pc'[k] = pc[k]
    BY <1>1, <1>5, <2>1
  <2> QED
    BY <2>2 DEF Place, Late
<1>14. \A k \in Node : PendingAt(k)' \/ UNCHANGED <<reply[Maint(k)], pc[k], postnode[k]>>
  <2>1. PendingAt(n)'
    BY <1>2, <1>7 DEF PendingAt, Idle
  <2> QED
    BY <1>1, <1>5, <1>7, <2>1
<1>15. \A k \in Node : status[k] = "joining" /\ reply[Main(k)] = Waiting => status'[k] = "joining"
  BY <1>1, <1>5 DEF Waiting
<1>16. \A u \in NodeThread : reply'[u] = reply[u] \/ reply'[u].port \in Member' \cup {None}
  BY <1>6 DEF Idle
<1>17. \A k \in Node : \A x \in Mails(k)' : x \in Mails(k)
  BY <1>1, SameMails
<1> QED
  BY <1>1, <1>2, <1>10, <1>11, <1>12, <1>13, <1>14, <1>15, <1>16, <1>17, JoinStep

-----------------------------------------------------------------------------
\* A step that changes no neighbour and no reply of a node.
LEMMA IdleStep ==
    ASSUME IInv, CallsInv, JoinInv, UNCHANGED <<status, postnode, prenode, fin_tb, pc>>,
           \A u \in NodeThread : reply'[u] = reply[u],
           \A k \in Node : \A m \in Mails(k)' : m \in Mails(k) \/ Mail(k, m)'
    PROVE  JoinInv'
<1>1. \A n \in Node : UNCHANGED <<reply[Main(n)], reply[Maint(n)], reply[Server(n)]>>
  BY NodeThreads
<1>2. Founder \in Node
  BY ChordAssumption
<1>3. \A n \in Node : pc[n] \in {"fix_fingers", "stabilize", "notify", "heartBeat"}
  BY DEF JoinInv, LiveOK
<1> QED
  BY <1>1, <1>2, <1>3, QuietStep

\* The joiner whose message is being served.
LEMMA Joiner ==
    ASSUME IInv, CallsInv, JoinInv, NEW n \in Node, inbox[n] # <<>>, Head1(n).cmd = "join"
    PROVE  LET j == Head1(n).arg
           IN  /\ j \in Node /\ j \notin Member /\ j # Founder
               /\ Head1(n).from = Main(j) /\ status[j] = "joining" /\ reply[Main(j)] = Waiting
<1> DEFINE j == Head1(n).arg
<1>1. j \in Node /\ Head1(n).from = Main(j) /\ status[j] = "joining"
  BY HeadMail DEF JoinInv, MailOK, Mail, Message
<1>2. reply[Main(j)] = Waiting
  BY <1>1, HeadMail, NodeThreads, SenderWaits DEF JoinInv
<1>3. j \notin Member /\ j # Founder
  BY <1>1, <1>2 DEF Member, Waiting, JoinInv, LiveOK
<1> QED
  BY <1>1, <1>2, <1>3

\* The answer to a "join" makes the joiner a member.
LEMMA JoinAnswered ==
    ASSUME IInv, CallsInv, JoinInv, NEW n \in Node, inbox[n] # <<>>, Head1(n).cmd = "join",
           NEW p \in Member, Answer(n, p), status[n] = "up", UNCHANGED <<status, pc>>
    PROVE  LET j == Head1(n).arg
           IN  /\ \A u \in NodeThread : reply'[u] = IF u = Server(n) THEN Idle
                                                    ELSE IF u = Main(j) THEN Got(p) ELSE reply[u]
               /\ \A k \in Node : /\ reply'[Maint(k)] = reply[Maint(k)]
                                  /\ reply'[Main(k)] = IF k = j THEN Got(p) ELSE reply[Main(k)]
               /\ \A k \in Node : \A x \in Mails(k)' : x \in Mails(k)
               /\ (UNCHANGED postnode \/ postnode' = [postnode EXCEPT ![n] = j])
                     => /\ Member' = Member \cup {j} /\ LiveOK'
                        /\ \A k \in Node : k = j => Successor(k)' = p
<1> DEFINE j == Head1(n).arg
<1>1. /\ j \in Node /\ j \notin Member /\ Head1(n).from = Main(j)
      /\ status[j] = "joining" /\ reply[Main(j)] = Waiting
  BY Joiner
<1> HIDE DEF j
<1>2. LiveOK /\ p # None /\ p \in Node
  BY MemberFacts, NodeIsKey DEF JoinInv
<1>3. /\ \A u \in NodeThread : reply'[u] = IF u = Server(n) THEN Idle
                                           ELSE IF u = Main(j) THEN Got(p) ELSE reply[u]
      /\ \A k \in Node : \A x \in Mails(k)' : x \in Mails(k)
  BY <1>1, <1>2, AnswerStep
<1>4. \A k \in Node : /\ reply'[Maint(k)] = reply[Maint(k)]
                      /\ reply'[Main(k)] = IF k = j THEN Got(p) ELSE reply[Main(k)]
                      /\ k # n => reply'[Server(k)] = reply[Server(k)]
  BY <1>3, NodeThreads DEF Main, Maint, Server
<1>5. ASSUME UNCHANGED postnode \/ postnode' = [postnode EXCEPT ![n] = j]
      PROVE  /\ Member' = Member \cup {j} /\ LiveOK'
             /\ \A k \in Node : k = j => Successor(k)' = p
  <2>1. \A k \in Node : postnode'[k] = postnode[k] \/ (k = n /\ postnode'[k] = j)
    BY <1>5 DEF IInv, TypeOK
  <2>2. j # None /\ n \in Member /\ n # j
    BY <1>1, NodeIsKey, UpFacts
  <2>3. Member' = Member \cup {j}
    <3>1. ASSUME NEW k \in Node, k # j PROVE k \in Member' <=> k \in Member
      <4>1. CASE k = n
        BY <2>1, <2>2, <4>1 DEF Member
      <4>2. CASE k # n
        BY <1>4, <2>1, <3>1, <4>2 DEF Member
      <4> QED
        BY <4>1, <4>2
    <3>2. j \in Member'
      BY <1>1, <1>2, <1>4 DEF Member, Got
    <3> QED
      BY <1>1, <3>1, <3>2 DEF Member
  <2>4. ASSUME NEW k \in Node, k = j PROVE Successor(k)' = p
    BY <1>1, <1>4, <2>4 DEF Successor, Got
  <2>5. LiveOK'
    BY <1>1, <1>2, <1>4, <2>3 DEF LiveOK, JoinInv
  <2> QED
    BY <2>3, <2>4, <2>5
<1> QED
  BY <1>3, <1>4, <1>5 DEF j

\* "join" at the founder while it is alone.
LEMMA FirstJoins ==
    ASSUME IInv, CallsInv, JoinInv, NEW n \in Node, ServeFirstJoin(n)
    PROVE  JoinInv'
<1>1. /\ status[n] = "up" /\ inbox[n] # <<>> /\ Head1(n).cmd = "join" /\ postnode[n] = n
      /\ reply[Server(n)] = Idle
  BY IdleAt DEF ServeFirstJoin, Serves
<1>2. PICK j : j = Head1(n).arg
  OBVIOUS
<1>3. j \in Node /\ j \notin Member /\ status[j] = "joining" /\ reply[Main(j)] = Waiting
  BY <1>1, <1>2, Joiner
<1>4. n = Founder
  <2>1. {n} \in SUBSET DOMAIN Successors /\ \A z \in {n} : Successors[z] \in {n}
    BY <1>1, UpFacts, MemberFacts
  <2> QED
    BY <2>1 DEF JoinInv, OneRing
<1>5. Member = {n} /\ prenode[n] # None
  BY <1>1, <1>4 DEF JoinInv, AloneOK, PreOK
<1>6. /\ Answer(n, n)
      /\ postnode' = [postnode EXCEPT ![n] = j] /\ prenode' = [prenode EXCEPT ![n] = j]
      /\ UNCHANGED <<status, fin_tb, pc>>
  BY <1>2, <1>5 DEF ServeFirstJoin, maint
<1>7. /\ \A u \in NodeThread : reply'[u] = IF u = Server(n) THEN Idle
                                           ELSE IF u = Main(j) THEN Got(n) ELSE reply[u]
      /\ \A k \in Node : /\ reply'[Maint(k)] = reply[Maint(k)]
                         /\ reply'[Main(k)] = IF k = j THEN Got(n) ELSE reply[Main(k)]
      /\ \A k \in Node : \A x \in Mails(k)' : x \in Mails(k)
      /\ Member' = Member \cup {j} /\ LiveOK'
      /\ \A k \in Node : k = j => Successor(k)' = n
  BY <1>1, <1>2, <1>5, <1>6, JoinAnswered
<1>8. /\ n \in Key /\ j \in Key /\ j # n /\ n # None /\ j # None
      /\ \A k \in Node : /\ postnode'[k] = IF k = n THEN j ELSE postnode[k]
                         /\ prenode'[k] = IF k = n THEN j ELSE prenode[k]
  BY <1>3, <1>5, <1>6, NodeIsKey DEF IInv, TypeOK
<1>9. DOMAIN Successors' = {n, j} /\ Successors'[n] = j /\ Successors'[j] = n
  <2>1. Member' = {n, j}
    BY <1>5, <1>7
  <2>2. Successor(n)' = j
    BY <1>1, <1>6, <1>8 DEF Successor
  <2>3. \A k \in Node : k = j => Successors'[k] = n
    BY <1>7, <2>1 DEF Successors
  <2> QED
    BY <1>3, <2>1, <2>2, <2>3 DEF Successors
<1>10. OneRing(Successors', Founder) /\ Keeps(Successors, Successors')
  BY <1>4, <1>5, <1>8, <1>9, FirstJoined, MemberFacts
<1>11. Leads(Successors', j, n)
  <2>1. DOMAIN Successors' \subseteq Key /\ j \in DOMAIN Successors'
        /\ Successors'[j] \in DOMAIN Successors'
    BY <1>8, <1>9
  <2> QED
    BY <1>9, <2>1, LeadsNext
<1>12. AloneOK'
  BY <1>4, <1>8 DEF AloneOK
<1>13. \A k \in Node : \A i \in Node : Place(k, i) => Place(k, i)'
  <2> SUFFICES ASSUME NEW k \in Node, NEW i \in Node, Place(k, i) PROVE Place(k, i)'
    OBVIOUS
  <2>1. CASE k # n
    BY <1>8, <2>1 DEF Place, Late
  <2>2. CASE k = n
    <3>1. i = n
      BY <1>1, <2>2 DEF Place
    <3>2. ~ Between(n, j, j)
      BY <1>8 DEF Between, Key
    <3> QED
      BY <1>8, <2>2, <3>1, <3>2 DEF Place, Late
  <2> QED
    BY <2>1, <2>2
<1>14. \A k \in Node : PendingAt(k)' \/ UNCHANGED <<reply[Maint(k)], pc[k], postnode[k]>>
  <2> SUFFICES ASSUME NEW k \in Node
               PROVE  PendingAt(k)' \/ UNCHANGED <<reply[Maint(k)], pc[k], postnode[k]>>
    OBVIOUS
  <2>1. CASE k # n
    BY <1>6, <1>7, <1>8, <2>1
  <2>2. CASE k = n
    <3>1. reply[Maint(n)].port \in {n, None}
      BY <1>5, NodeThreads DEF JoinInv, PortsOK
    <3>2. ~ Between(n, n, j)
      BY <1>8 DEF Between, Key
    <3> QED
      BY <1>7, <1>8, <2>2, <3>1, <3>2 DEF PendingAt
  <2> QED
    BY <2>1, <2>2
<1>15. \A u \in NodeThread : reply'[u] = reply[u] \/ reply'[u].port \in Member' \cup {None}
  BY <1>5, <1>7 DEF Idle, Got
<1>16. \A k \in Node : \/ prenode'[k] = prenode[k]
                       \/ prenode'[k] # None /\ Leads(Successors', prenode'[k], k)
  BY <1>8, <1>11
<1> QED
  BY <1>6, <1>7, <1>10, <1>12, <1>13, <1>14, <1>15, <1>16, JoinStep

\* A later "join" is answered, by a node that knows the others.
LEMMA LaterJoins ==
    ASSUME IInv, CallsInv, JoinInv, NEW n \in Node, inbox[n] # <<>>, Head1(n).cmd = "join",
           status[n] = "up", postnode[Founder] # Founder, NEW p \in Member, Answer(n, p),
           UNCHANGED <<status, postnode, prenode, fin_tb, pc>>
    PROVE  JoinInv'
<1>1. PICK j : j = Head1(n).arg
  OBVIOUS
<1>2. j \in Node /\ j \notin Member /\ status[j] = "joining" /\ reply[Main(j)] = Waiting
  BY <1>1, Joiner
<1>3. /\ \A u \in NodeThread : reply'[u] = IF u = Server(n) THEN Idle
                                           ELSE IF u = Main(j) THEN Got(p) ELSE reply[u]
      /\ \A k \in Node : /\ reply'[Maint(k)] = reply[Maint(k)]
                         /\ reply'[Main(k)] = IF k = j THEN Got(p) ELSE reply[Main(k)]
      /\ \A k \in Node : \A x \in Mails(k)' : x \in Mails(k)
      /\ Member' = Member \cup {j} /\ LiveOK'
      /\ \A k \in Node : k = j => Successor(k)' = p
  BY <1>1, JoinAnswered
<1>4. \A k \in Member : Successor(k)' = Successor(k)
  BY <1>2, <1>3, MemberFacts DEF Successor
<1>5. /\ DOMAIN Successors' = DOMAIN Successors \cup {j}
      /\ Successors'[j] = p
      /\ \A k \in DOMAIN Successors : Successors'[k] = Successors[k]
  <2>1. \A k \in Node : k = j => Successors'[k] = p
    BY <1>3 DEF Successors
  <2> QED
    BY <1>2, <1>3, <1>4, <2>1 DEF Successors
<1>6. OneRing(Successors', Founder) /\ Keeps(Successors, Successors')
  <2>1. Grows(Successors, j, Successors')
    BY <1>2, <1>5, MemberFacts, NodeIsKey DEF Grows
  <2> QED
    BY <2>1, Joined DEF JoinInv
<1>7. AloneOK'
  BY DEF AloneOK
<1>8. \A k, i \in Node : Place(k, i) => Place(k, i)'
  BY DEF Place, Late
<1>9. \A u \in NodeThread : reply'[u] = reply[u] \/ reply'[u].port \in Member' \cup {None}
  BY <1>3 DEF Idle, Got
<1> QED
  BY <1>3, <1>6, <1>7, <1>8, <1>9, JoinStep

\* Any other answer.
LEMMA OtherAnswers ==
    ASSUME IInv, CallsInv, JoinInv, NEW n \in Node, inbox[n] # <<>>, status[n] = "up",
           Head1(n).cmd \in {"find", "query", "stable"},
           NEW p \in Member \cup {None}, Answer(n, p),
           Head1(n).cmd = "stable" => p = prenode[n],
           UNCHANGED <<status, postnode, prenode, fin_tb, pc>>
    PROVE  JoinInv'
<1> DEFINE m == Head1(n)
           w == m.from
<1>1. m \in Message /\ m \in Mails(n) /\ Mail(n, m)
  BY HeadMail DEF JoinInv, MailOK
<1>2. w \in NodeThread => reply[w] = Waiting
  BY HeadMail, SenderWaits DEF JoinInv
<1>3. /\ m.cmd = "find" => \A k \in Node : w = Maint(k) => pc[k] = "fix_fingers"
      /\ m.cmd = "stable" =>
           /\ m.arg \in Node /\ w = Maint(m.arg)
           /\ pc[m.arg] = "stabilize" /\ Place(m.arg, n) /\ p = prenode[n]
      /\ m.cmd = "query" => w \notin NodeThread
      /\ \A k \in Node : w # Main(k)
  <2>1. m.cmd = "query" => w \in Client \X {"query"}
    BY <1>1 DEF Message
  <2>2. m.cmd \in {"find", "stable"} => w[2] \in {"maint", "server"}
    BY <1>1 DEF Message
  <2> QED
    BY <1>1, <2>1, <2>2, NodeThreads DEF Mail, Message, Main, Query
<1> HIDE DEF m, w
<1>4. /\ \A u \in NodeThread : reply'[u] = IF u = Server(n) THEN Idle
                                           ELSE IF u = w THEN Got(p) ELSE reply[u]
      /\ \A k \in Node : \A x \in Mails(k)' : x \in Mails(k)
  BY AnswerStep DEF JoinInv, m, w
<1>5. \A k \in Node : /\ Main(k) \in NodeThread /\ Maint(k) \in NodeThread /\ Server(k) \in NodeThread
                      /\ Main(k) # Server(n) /\ Maint(k) # Server(n)
                      /\ Server(k) = Server(n) => k = n
  BY NodeThreads, ThreadsDiffer
<1>6. \A k \in Node : reply'[Main(k)] = reply[Main(k)]
  BY <1>3, <1>4, <1>5
<1>7. ASSUME NEW k \in Node, status[k] # "up" PROVE UNCHANGED <<reply[Maint(k)], reply[Server(k)]>>
  <2>1. reply[Maint(k)] = Idle /\ reply[Server(k)] = Idle /\ k # n
    BY <1>7 DEF JoinInv, LiveOK
  <2>2. w # Maint(k) /\ w # Server(k)
    BY <1>2, <1>5, <2>1 DEF Idle, Waiting
  <2> QED
    BY <1>4, <1>5, <2>1, <2>2
<1>8. \A u \in NodeThread : reply'[u] = reply[u] \/ reply'[u].port \in Member \cup {None}
  BY <1>4 DEF Idle, Got
<1>9. \A k \in Node : PendingAt(k)' \/ UNCHANGED <<reply[Maint(k)], pc[k]>>
  <2> SUFFICES ASSUME NEW k \in Node, w = Maint(k) PROVE PendingAt(k)'
    BY <1>4, <1>5
  <2>1. CASE m.cmd \in {"find", "query"}
    BY <1>3, <1>5, <2>1 DEF PendingAt
  <2>2. CASE m.cmd = "stable"
    <3>1. m.arg = k
      BY <1>3, <2>2 DEF Maint
    <3>2. reply'[Maint(k)].port = prenode[n]
      BY <1>3, <1>4, <1>5, <2>2 DEF Got
    <3>3. prenode[n] # None => Leads(Successors', prenode[n], n)
      <4>1. Member' = Member /\ \A i \in Member : Successor(i)' = Successor(i)
        BY <1>6 DEF Member, Successor
      <4>2. Successors' = Successors
        BY <4>1 DEF Successors
      <4> QED
        BY <4>2 DEF JoinInv, PreOK
    <3>4. n = postnode[k] \/ (n = k /\ Late(k))
      BY <1>3, <2>2, <3>1 DEF Place
    <3> QED
      BY <3>2, <3>3, <3>4 DEF PendingAt, Late
  <2> QED
    BY <2>1, <2>2 DEF m
<1>10. reply[Server(Founder)] = Idle => reply'[Server(Founder)] = Idle
  BY <1>2, <1>4, <1>5, ChordAssumption DEF Idle, Waiting
<1>11. \A k \in Node : pc[k] \in {"fix_fingers", "stabilize", "notify", "heartBeat"}
  BY DEF JoinInv, LiveOK
<1> QED
  BY <1>4, <1>6, <1>7, <1>8, <1>9, <1>10, <1>11, QuietStep

\* A lookup is forwarded; a founder that is alone answers it itself.
LEMMA ForwardJoins ==
    ASSUME IInv, CallsInv, JoinInv, NEW n \in Node, ServeForward(n)
    PROVE  JoinInv'
<1> DEFINE h == LookupKey(n)
<1>1. PICK p \in FindAsks(n, h) : Call(Server(n), p, "find", h)
  BY DEF ServeForward
<1>2. /\ status[n] = "up" /\ h \in Key
      /\ UNCHANGED <<status, postnode, prenode, fin_tb, pc>>
  BY LookupKeyType DEF ServeForward, node, maint, LookupKey, Serves
<1> HIDE DEF h
<1>3. p \in Node /\ p \in Member /\ p # n
  <2>1. p \in Node /\ Dist(p, h) < Dist(n, h) /\ n \in Key
    BY <1>1, <1>2, FindAsksType, NodeIsKey DEF IInv
  <2>2. p # n
    BY <1>2, <2>1, RingAssumption DEF Dist, Key
  <2> QED
    BY <1>1, <1>2, <2>1, <2>2, UpFacts
<1>4. Msg("find", Server(n), h) \in Message /\ p \in Port /\ Server(n) \in NodeThread
  BY <1>2, <1>3, MessageType, NodeIsPort, NodeThreads
<1>5. /\ \A u \in NodeThread : reply'[u] = IF u = Server(n) THEN Waiting ELSE reply[u]
      /\ \A k \in Node : \A x \in Mails(k)' :
           x \in Mails(k) \/ (k = p /\ x = Msg("find", Server(n), h))
  BY <1>1, <1>4, CallStep
<1>6. \A x : x = Msg("find", Server(n), h) => Mail(p, x)'
  BY DEF Mail, Msg, Server, Maint
<1>7. \A k \in Node : /\ reply'[Main(k)] = reply[Main(k)]
                      /\ reply'[Maint(k)] = reply[Maint(k)]
                      /\ k # n => reply'[Server(k)] = reply[Server(k)]
  BY <1>5, NodeThreads, ThreadsDiffer
<1>8. Member # {Founder}
  BY <1>2, <1>3, UpFacts
<1>9. \A k \in Node : pc[k] \in {"fix_fingers", "stabilize", "notify", "heartBeat"}
  BY DEF JoinInv, LiveOK
<1>10. \A u \in NodeThread : reply'[u] = reply[u] \/ reply'[u].port \in Member \cup {None}
  BY <1>5 DEF Waiting
<1>11. \A k \in Node : \A x \in Mails(k)' : x \in Mails(k) \/ Mail(k, x)'
  BY <1>5, <1>6
<1>12. \A k \in Node : status[k] = "up" \/ UNCHANGED <<reply[Maint(k)], reply[Server(k)]>>
  BY <1>2, <1>7
<1> QED
  BY <1>2, <1>7, <1>8, <1>9, <1>10, <1>11, <1>12, QuietStep

\* "notify": whatever the new predecessor is, its successors lead to n, and an
\* answer to "stable" that would have been of no use still is.
LEMMA NotifyJoins ==
    ASSUME IInv, CallsInv, JoinInv, NEW n \in Node, ServeNotify(n)
    PROVE  JoinInv'
<1>1. PICK p : p = Head1(n).arg
  OBVIOUS
<1>2. /\ status[n] = "up" /\ inbox[n] # <<>> /\ Head1(n).cmd = "notify"
      /\ prenode' = IF prenode[n] = None \/ CloserPredecessor(n, prenode[n], p)
                      THEN [prenode EXCEPT ![n] = p] ELSE prenode
      /\ Pop(n) /\ UNCHANGED <<status, postnode, fin_tb, pc, reply>>
  BY <1>1, IdleAt DEF ServeNotify, Serves, maint
<1>3. p \in Node /\ Leads(Successors, p, n)
  BY <1>1, <1>2, HeadMail DEF JoinInv, MailOK, Mail, Message
<1>4. \A k \in Node : \A x \in Mails(k)' : x \in Mails(k)
  BY <1>2, PopMails
<1>5. Member' = Member /\ \A k \in Member : Successor(k)' = Successor(k)
  BY <1>2 DEF Member, Successor
<1>6. OneRing(Successors', Founder) /\ Keeps(Successors, Successors') /\ Successors' = Successors
  BY <1>5, RingStays
<1>7. LiveOK' /\ AloneOK'
  BY <1>2, <1>5 DEF JoinInv, LiveOK, AloneOK
<1>8. \A k \in Node : \/ prenode'[k] = prenode[k]
                      \/ /\ k = n /\ prenode'[k] = p
                         /\ prenode[n] # None => CloserPredecessor(n, prenode[n], p)
  BY <1>2 DEF IInv, TypeOK
<1>9. \A k \in Node : \A i \in Node : Place(k, i) => Place(k, i)'
  <2> SUFFICES ASSUME NEW k \in Node, NEW i \in Node, Place(k, i) PROVE Place(k, i)'
    OBVIOUS
  <2>1. CASE prenode'[k] = prenode[k]
    BY <1>2, <2>1 DEF Place, Late
  <2>2. CASE i = postnode[k]
    BY <1>2, <2>2 DEF Place
  <2>3. CASE prenode'[k] # prenode[k] /\ i # postnode[k]
    <3>1. /\ k = n /\ i = n /\ prenode'[n] = p
          /\ prenode[n] \in Key /\ prenode[n] # n /\ ~ Between(n, prenode[n], postnode[n])
          /\ CloserPredecessor(n, prenode[n], p)
      BY <1>8, <2>3, MemberFacts DEF Place, Late
    <3>2. /\ n \in Key /\ p \in Key /\ postnode[n] \in Key /\ p # None
          /\ Between(prenode[n], p, n)
      BY <1>2, <1>3, <3>1, UpFacts, NodeIsKey, CloserPredecessorCloser
    <3>3. p # n /\ ~ Between(n, p, postnode[n])
      BY <3>1, <3>2 DEF Between, Key
    <3> QED
      BY <1>2, <3>1, <3>2, <3>3 DEF Place, Late
  <2> QED
    BY <2>1, <2>2, <2>3
<1>10. \A k \in Node : \/ prenode'[k] = prenode[k]
                       \/ prenode'[k] # None /\ Leads(Successors', prenode'[k], k)
  BY <1>3, <1>6, <1>8, NodeIsKey
<1> QED
  BY <1>2, <1>4, <1>6, <1>7, <1>9, <1>10, JoinStep

LEMMA ServeJoins ==
    ASSUME IInv, CallsInv, JoinInv, NEW n \in Node, chordNode(n)
    PROVE  JoinInv'
<1>1. ASSUME NEW cmd, Serves(n, cmd)
      PROVE  /\ status[n] = "up" /\ inbox[n] # <<>> /\ Head1(n).cmd = cmd
             /\ reply[Server(n)] = Idle /\ Head1(n) \in Mails(n) /\ Mail(n, Head1(n))
  BY <1>1, IdleAt, HeadMail DEF Serves, JoinInv, MailOK
<1>2. ASSUME status[n] = "up", postnode[Founder] = Founder
      PROVE  n = Founder /\ reply[Server(n)] = Idle
  BY <1>2, UpFacts DEF JoinInv, AloneOK, LiveOK
<1>3. ASSUME UNCHANGED <<node, maint, client>>
      PROVE  UNCHANGED <<status, postnode, prenode, fin_tb, pc>>
  BY <1>3 DEF node, maint
<1>4. CASE ServeFirstJoin(n)
  BY <1>4, FirstJoins
<1>5. CASE ServeLookup(n)
  <2>1. PICK p \in FindHere(n, LookupKey(n)) \ {None} :
          LookupKey(n) # NoKey /\ Answer(n, p) /\ UNCHANGED <<node, maint, client>>
    BY <1>5 DEF ServeLookup
  <2>2. /\ status[n] = "up" /\ inbox[n] # <<>> /\ Head1(n).cmd \in {"join", "find", "query"}
        /\ Head1(n).cmd = "join" => postnode[n] # n
    BY <2>1, <1>1, LookupKeyType DEF LookupKey, Serves
  <2>3. p \in Member
    BY <2>1, <2>2, UpFacts
  <2>4. CASE Head1(n).cmd = "join"
    BY <1>2, <1>3, <2>1, <2>2, <2>3, <2>4, LaterJoins
  <2>5. CASE Head1(n).cmd \in {"find", "query"}
    BY <1>3, <2>1, <2>2, <2>3, <2>5, OtherAnswers
  <2> QED
    BY <2>2, <2>4, <2>5
<1>6. CASE ServeForward(n)
  BY <1>6, ForwardJoins
<1>7. CASE ServeForwarded(n)
  <2> DEFINE p == reply[Server(n)].port
  <2>1. /\ status[n] = "up" /\ reply[Server(n)].st = "got"
        /\ IF p = None
             THEN reply' = [reply EXCEPT ![Server(n)] = Idle] /\ UNCHANGED inbox
             ELSE Answer(n, p)
        /\ UNCHANGED <<status, postnode, prenode, fin_tb, pc>>
    BY <1>3, <1>7 DEF ServeForwarded
  <2>2. reply[Server(n)] # Idle /\ reply[Server(n)] # Waiting
    BY <2>1 DEF Idle, Waiting
  <2>3. inbox[n] # <<>> /\ Head1(n).cmd \in {"join", "find", "query"}
    BY <2>2 DEF IInv, BusyServerHasCaller
  <2>4. CASE p = None
    <3>1. /\ reply \in [Thread -> ReplyState] /\ Server(n) \in NodeThread
          /\ reply' = [reply EXCEPT ![Server(n)] = Idle]
      BY <2>1, <2>4, NodeThreads DEF IInv, TypeOK
    <3>2. \A u \in NodeThread : reply'[u] = IF u = Server(n) THEN Idle ELSE reply[u]
      BY <3>1, NodeThreads
    <3>3. \A k \in Node : /\ reply'[Main(k)] = reply[Main(k)]
                          /\ reply'[Maint(k)] = reply[Maint(k)]
                          /\ k # n => reply'[Server(k)] = reply[Server(k)]
      BY <3>2, NodeThreads, ThreadsDiffer
    <3>4. \A u \in NodeThread : reply'[u] = reply[u] \/ reply'[u].port \in Member \cup {None}
      BY <3>2 DEF Idle
    <3>5. \A k \in Node : pc[k] \in {"fix_fingers", "stabilize", "notify", "heartBeat"}
      BY DEF JoinInv, LiveOK
    <3>6. \A k \in Node : status[k] = "up" \/ UNCHANGED <<reply[Maint(k)], reply[Server(k)]>>
      BY <2>1, <3>3
    <3>7. reply[Server(Founder)] = Idle => reply'[Server(Founder)] = Idle
      BY <3>2, NodeThreads, ChordAssumption
    <3>8. UNCHANGED inbox
      BY <2>1, <2>4
    <3> QED
      BY <2>1, <3>3, <3>4, <3>5, <3>6, <3>7, <3>8, SameMails, QuietStep
  <2>5. CASE p # None
    <3>1. Answer(n, p) /\ p \in Member
      BY <2>1, <2>5, NodeThreads DEF JoinInv, PortsOK
    <3> HIDE DEF p
    <3>2. CASE Head1(n).cmd = "join"
      BY <1>2, <2>1, <2>2, <2>3, <3>1, <3>2, LaterJoins
    <3>3. CASE Head1(n).cmd \in {"find", "query"}
      BY <2>1, <2>3, <3>1, <3>3, OtherAnswers
    <3> QED
      BY <2>3, <3>2, <3>3
  <2> QED
    BY <2>4, <2>5
<1>8. CASE ServeStable(n)
  <2>1. Serves(n, "stable") /\ Answer(n, prenode[n]) /\ UNCHANGED <<node, maint, client>>
    BY <1>8 DEF ServeStable
  <2>2. prenode[n] \in Member \cup {None}
    BY MemberFacts
  <2> QED
    BY <1>1, <1>3, <2>1, <2>2, OtherAnswers
<1>9. CASE ServeNotify(n)
  BY <1>9, NotifyJoins
<1>10. CASE ServeKeepAlive(n)
  BY <1>1, <1>10, PopMails, IdleStep DEF ServeKeepAlive, maint
<1>11. CASE ServeReset(n)
  BY <1>1, <1>11 DEF ServeReset, Mail
<1>12. CASE ServeQuit(n)
  BY <1>1, <1>3, <1>12, PopMails, IdleStep DEF ServeQuit
<1> QED
  BY <1>4, <1>5, <1>6, <1>7, <1>8, <1>9, <1>10, <1>11, <1>12 DEF chordNode

LEMMA ClientJoins ==
    ASSUME IInv, CallsInv, JoinInv, NEW c \in Client, User(c) \/ QueryReply(c)
    PROVE  JoinInv'
<1>1. reply \in [Thread -> ReplyState]
  BY DEF IInv, TypeOK
<1>2. UNCHANGED <<status, postnode, prenode, fin_tb, pc>>
  BY DEF User, QueryConnect, QueryAsk, QueryQuit, QueryReply, node, maint
<1>3. ASSUME NEW n \in Node, QueryConnect(c, n) PROVE JoinInv'
  <2>1. Post(n, Msg("query", Query(c), None)) /\ UNCHANGED reply
        /\ Msg("query", Query(c), None) \in Message
    BY <1>3, MessageType DEF QueryConnect
  <2>2. \A k, x : x = Msg("query", Query(c), None) => Mail(k, x)'
    BY DEF Mail, Msg
  <2>3. \A k \in Node : \A x \in Mails(k)' : x \in Mails(k) \/ Mail(k, x)'
    BY <2>1, <2>2, PostMails
  <2> QED
    BY <1>2, <2>1, <2>3, IdleStep
<1>4. CASE UNCHANGED inbox /\ \E r : reply' = [reply EXCEPT ![Query(c)] = r]
  <2>1. \A u \in NodeThread : reply'[u] = reply[u]
    BY <1>1, <1>4, NodeThreads
  <2> QED
    BY <1>2, <1>4, <2>1, SameMails, IdleStep
<1>5. CASE QueryQuit(c)
  BY <1>2, <1>5, SameMails, IdleStep DEF QueryQuit, net
<1> QED
  BY <1>3, <1>4, <1>5 DEF User, QueryAsk, QueryReply

LEMMA InitJoins == Init => JoinInv
<1> SUFFICES ASSUME Init PROVE JoinInv
  OBVIOUS
<1>1. /\ \A n \in Node : /\ status[n] = "off" /\ prenode[n] = None /\ inbox[n] = <<>>
                         /\ pc[n] = "fix_fingers" /\ \A i \in Finger : fin_tb[n][i] = n
      /\ \A u \in NodeThread : reply[u] = Idle
      /\ Founder \in Node
  BY NodeThreads, ChordAssumption DEF Init
<1>2. Member = {}
  BY <1>1 DEF Member
<1>3. OneRing(Successors, Founder)
  BY <1>2 DEF OneRing, Successors
<1>4. \A k \in Node : Mails(k) = {}
  <2>1. Len(<<>>) = 0
    BY EmptySeq
  <2> QED
    BY <1>1, <2>1 DEF Mails
<1>5. LiveOK
  BY <1>1, NodeThreads DEF LiveOK
<1>6. PortsOK
  BY <1>1 DEF PortsOK, Idle
<1>7. PreOK /\ AloneOK
  BY <1>1 DEF PreOK, AloneOK
<1>8. MailOK /\ PendingOK
  BY <1>1, <1>4 DEF MailOK, PendingOK, PendingAt
<1> QED
  BY <1>3, <1>5, <1>6, <1>7, <1>8 DEF JoinInv

\* No predecessor is ever freed: none is refused, and nobody sends "reset-pre".
NoneExposed == \A n \in Node : ~ exposed[n]

LEMMA NextUnexposed ==
    ASSUME OnlyJoins, IInv, JoinInv, NoneExposed, [Next]_vars
    PROVE  NoneExposed'
<1>1. exposed \in [Node -> BOOLEAN]
  BY DEF IInv, TypeOK
<1>2. ASSUME NEW n \in Node, updateFingerTable(n) PROVE NoneExposed'
  <2>1. CASE heartBeat(n)
    <3>1. ~ (prenode[n] # None /\ Refuses(prenode[n]))
      BY NoRefusal, MemberFacts
    <3> QED
      BY <2>1, <3>1 DEF heartBeat, NoneExposed
  <2>2. UNCHANGED exposed \/ heartBeat(n)
    BY <1>2 DEF updateFingerTable, FixFingerHere, FixFingerAsk, FixFingerReply,
                FailOver, resetPreNode, GiveUp, StabilizeAsk, StabilizeReply, notify, node
  <2> QED
    BY <2>1, <2>2 DEF NoneExposed
<1>3. ASSUME NEW n \in Node, chordNode(n) PROVE NoneExposed'
  <2>1. CASE ServeReset(n)
    <3>1. Head1(n).cmd = "reset-pre" /\ Head1(n) \in Mails(n)
      BY <2>1, HeadMail DEF ServeReset, Serves
    <3> QED
      BY <3>1 DEF JoinInv, MailOK, Mail
  <2>2. CASE ServeFirstJoin(n)
    BY <1>1, <2>2 DEF ServeFirstJoin, Die, NoneExposed
  <2>3. UNCHANGED exposed \/ ServeReset(n) \/ ServeFirstJoin(n)
    BY <1>3 DEF chordNode, ServeLookup, ServeForward, ServeForwarded, ServeStable,
                ServeNotify, ServeKeepAlive, ServeQuit, node
  <2> QED
    BY <2>1, <2>2, <2>3 DEF NoneExposed
<1>4. ASSUME NEW n \in Node, Operator(n) \/ Listen(n) \/ UsePreNode(n) PROVE NoneExposed'
  BY <1>1, <1>4 DEF Operator, Start, creatFirstNode, join, JoinRefused, commandLine,
                    Die, Listen, UsePreNode, NoneExposed
<1>5. ASSUME NEW c \in Client, User(c) \/ QueryReply(c) PROVE UNCHANGED exposed
  BY <1>5 DEF User, QueryConnect, QueryAsk, QueryQuit, QueryReply, node
<1>6. CASE UNCHANGED vars
  BY <1>6 DEF vars, node, NoneExposed
<1> QED
  BY <1>2, <1>3, <1>4, <1>5, <1>6 DEF Next, NoneExposed

LEMMA NextJoins ==
    ASSUME OnlyJoins, IInv, CallsInv, JoinInv, NoneExposed, [Next]_vars
    PROVE  JoinInv'
<1>1. CASE UNCHANGED vars
  BY <1>1, SameMails, IdleStep DEF vars, node, maint, net
<1> QED
  BY <1>1, StartJoins, ListenJoins, MaintJoins, ServeJoins, ClientJoins
     DEF Next, NoneExposed, UsePreNode

-----------------------------------------------------------------------------
\* What JoinInv says of the ring in the words of the property.
LEMMA RingFromInv ==
    ASSUME IInv, JoinInv PROVE OneOrderedRing
<1> DEFINE onRing == {n \in Member : n \in Walk(n)}
<1>1. /\ Member \subseteq Node /\ \A k \in Member : Successor(k) \in Member
      /\ \A S \in SUBSET Member : S # {} /\ (\A z \in S : Successor(z) \in S) => Founder \in S
  <2>1. \A z \in Member : Successors[z] = Successor(z)
    BY MemberFacts
  <2> QED
    BY <2>1, MemberFacts DEF JoinInv, OneRing
<1>2. ASSUME Member # {}
      PROVE  \E R \in SUBSET Member : Founder \in R /\ \A z \in R : IsSuccessor(R, z, Successor(z))
  <2>1. PICK R \in SUBSET DOMAIN Successors :
          Founder \in R /\ \A z \in R : IsSuccessor(R, z, Successors[z])
    BY <1>2, MemberFacts DEF JoinInv, OneRing
  <2>2. \A z \in R : Successors[z] = Successor(z)
    BY MemberFacts
  <2> QED
    BY <2>1, <2>2, MemberFacts
<1>3. ASSUME NEW n \in Member PROVE Founder \in Walk(n)
  <2>1. SUFFICES ASSUME NEW S \in SUBSET Node, Successor(n) \in S,
                        \A k \in S \cap Member : Successor(k) \in S
                 PROVE  Founder \in S
    BY ChordAssumption DEF Walk
  <2>2. /\ S \cap Member \in SUBSET Member /\ S \cap Member # {}
        /\ \A k \in S \cap Member : Successor(k) \in S \cap Member
    BY <1>1, <2>1
  <2> QED
    BY <1>1, <2>2
<1>4. ASSUME NEW m \in onRing PROVE \A n \in Member : m \in Walk(n)
  <2> DEFINE T == {z \in Member : \A S \in SUBSET Node :
                     z \in S /\ (\A k \in S \cap Member : Successor(k) \in S) => m \in S}
  <2>1. m \in Member /\ m \in Node /\ m \in Walk(m)
    BY <1>1
  <2>2. m \in T
    BY <2>1
  <2>3. \A z \in T : Successor(z) \in T
    <3> SUFFICES ASSUME NEW z \in T,
                        NEW S \in SUBSET Node, Successor(z) \in S,
                        \A k \in S \cap Member : Successor(k) \in S
                 PROVE  m \in S
      BY <1>1
    <3>1. CASE z = m
      BY <2>1, <3>1 DEF Walk
    <3>2. CASE z # m
      <4>1. /\ S \cup {z} \in SUBSET Node
            /\ \A k \in (S \cup {z}) \cap Member : Successor(k) \in S \cup {z}
        BY <1>1
      <4>2. m \in S \cup {z}
        BY <4>1
      <4> QED
        BY <3>2, <4>2
    <3> QED
      BY <3>1, <3>2
  <2>4. T \in SUBSET Member
    OBVIOUS
  <2> HIDE DEF T
  <2>5. Founder \in T
    BY <1>1, <2>2, <2>3, <2>4
  <2> SUFFICES ASSUME NEW n \in Member, NEW S \in SUBSET Node, Successor(n) \in S,
                      \A k \in S \cap Member : Successor(k) \in S
               PROVE  m \in S
    BY <2>1 DEF Walk
  <2>6. Founder \in S
    BY <1>3 DEF Walk
  <2> QED
    BY <2>5, <2>6 DEF T
<1>5. ASSUME NEW R \in SUBSET Member, \A z \in R : Successor(z) \in R, Founder \in R
      PROVE  onRing \subseteq R
  <2> SUFFICES ASSUME NEW m \in onRing PROVE m \in R
    OBVIOUS
  <2>1. m \in Walk(Founder) /\ Founder \in Member
    BY <1>4, <1>5
  <2>2. R \in SUBSET Node /\ Successor(Founder) \in R
        /\ \A k \in R \cap Member : Successor(k) \in R
    BY <1>1, <1>5
  <2> QED
    BY <2>1, <2>2 DEF Walk
<1>6. ASSUME Member # {}
      PROVE  onRing # {} /\ \A n, m \in onRing : ~ Between(n, m, Successor(n))
  <2>1. PICK R \in SUBSET Member : Founder \in R /\ \A z \in R : IsSuccessor(R, z, Successor(z))
    BY <1>2, <1>6
  <2>2. Founder \in onRing
    BY <1>3, <2>1
  <2>3. onRing \subseteq R
    BY <1>5, <2>1 DEF IsSuccessor
  <2> HIDE DEF onRing
  <2> QED
    BY <2>1, <2>2, <2>3 DEF IsSuccessor
<1>7. ASSUME Member # {} PROVE \A n \in Member : onRing \subseteq Walk(n)
  BY <1>4
<1> QED
  BY <1>6, <1>7 DEF OneOrderedRing

\* Theorem.  While nodes only join (join, stabilize, notify, chordNode), in any
\* order and with any number of requests on their way, the successors make one
\* ring, in the order of the positions, that every other member leads to.
THEOREM SuccessorsFormRing == ASSUME OnlyJoins PROVE Spec => []OneOrderedRing
<1>1. IInv /\ CallsInv /\ JoinInv /\ NoneExposed /\ [Next]_vars => (JoinInv /\ NoneExposed)'
  BY NextJoins, NextUnexposed
<1>2. Init => NoneExposed
  BY DEF Init, NoneExposed
<1>3. Spec => []JoinInv
  BY <1>1, <1>2, ChordCalls, InitJoins, ChordInvariant, PTL DEF Spec
<1> QED
  BY <1>3, RingFromInv, ChordInvariant, PTL
=============================================================================
