------------------------------- MODULE Chord -------------------------------
(***************************************************************************)
(* The protocol of DHT_Chord/chord/chord.c: nodes that join a ring, keep   *)
(* their successor, predecessor and fingers up to date, answer lookups and *)
(* are killed, and the query program of DHT_Chord/query/query.c.           *)
(*                                                                         *)
(* A node is one process with three threads that matter here:              *)
(*   main    sends "join" and, once listening, accepts one connection at a *)
(*           time: it joins the handler thread before the next accept, so  *)
(*           accept loop and handlers are one thread, "server";            *)
(*   maint   updateFingerTable: fingers, stabilize, notify, heartBeat.     *)
(* A fourth, printNodeInfo, only reads; so do the first statements of a    *)
(* handler that tests prenode.  exposed says that a thread has passed the  *)
(* test when another one frees prenode, and has still to use it.           *)
(* inbox[n] holds the connections n has not finished with, in the order in *)
(* which they were made: the first is the one being served and the others  *)
(* wait in the listen backlog.  One connection carries one request, except *)
(* the session of a query client.                                          *)
(***************************************************************************)
EXTENDS ChordRing, FiniteSets, Sequences

CONSTANTS
    Founder,    \* the node that is started without a contact
    Client,     \* query programs, at most one session each
    Backlog,    \* connections a node holds before a connect has to wait
    Mortal,     \* the nodes whose operator may kill them
    Prompt,     \* a joiner listens before anyone connects to it
    TimesOut    \* may a connect give up on a backlog that stays full?

ASSUME ChordAssumption ==
    /\ Founder \in Node
    /\ Client \cap Node = {}
    /\ Backlog \in Nat \ {0}
    /\ Mortal \subseteq Node
    /\ Prompt \in BOOLEAN
    /\ TimesOut \in BOOLEAN

Port   == Node \cup {None}
Thread == (Node \X {"main", "maint", "server"}) \cup (Client \X {"query"})

Main(n)   == <<n, "main">>
Maint(n)  == <<n, "maint">>
Server(n) == <<n, "server">>
Query(c)  == <<c, "query">>

\* Where a thread stands with the one reply it may be waiting for.
Idle    == [st |-> "idle", port |-> None]
Waiting == [st |-> "waiting", port |-> None]
Got(p)  == [st |-> "got", port |-> p]
ReplyState == {Idle, Waiting} \cup {Got(p) : p \in Port}

\* A message: its command word, who waits for the reply, its argument.
Nobody == <<None, "none">>
Msg(cmd, from, arg) == [cmd |-> cmd, from |-> from, arg |-> arg]

VARIABLES
    status,     \* "off", "joining" (not listening yet), "up" or "dead"
    postnode, postnode2, prenode,   \* ports of the neighbours
    exposed,    \* has a thread tested a prenode that was then freed?
    fin_tb,     \* fin_tb[n][i]: the port of finger i
    pc,         \* where the maintenance thread of a node is
    finger,     \* i in updateFingerTable
    inbox,      \* connections a node has not finished with
    reply,      \* of a thread, what became of the request it sent
    session,    \* the node a query client is connected to
    asked       \* the key a query client is looking up

node   == <<status, postnode, postnode2, prenode, exposed, fin_tb>>
maint  == <<pc, finger>>
net    == <<inbox, reply>>
client == <<session, asked>>
vars   == <<node, maint, net, client>>

\* The words of PC name the functions: "reset" is resetPreNode after a
\* failed connect, "retry" the second connect.
PC == {"fix_fingers",
       "stabilize", "stabilize_reset", "stabilize_retry",
       "notify", "notify_reset", "notify_retry", "heartBeat"}
NoKey == -1

Init ==
    /\ status = [n \in Node |-> "off"]
    /\ postnode = [n \in Node |-> None]
    /\ postnode2 = [n \in Node |-> n]
    /\ prenode = [n \in Node |-> None]
    /\ exposed = [n \in Node |-> FALSE]
    /\ fin_tb = [n \in Node |-> [i \in Finger |-> n]]
    /\ pc = [n \in Node |-> "fix_fingers"]
    /\ finger = [n \in Node |-> 0]
    /\ inbox = [n \in Node |-> <<>>]
    /\ reply = [t \in Thread |-> Idle]
    /\ session = [c \in Client |-> None]
    /\ asked = [c \in Client |-> NoKey]

-----------------------------------------------------------------------------
(***************************************************************************)
(* Connections.                                                            *)
(***************************************************************************)
\* A connect to p succeeds; it waits while the backlog is full.
Accepts(p) == p # None /\ status[p] = "up" /\ Len(inbox[p]) < Backlog

\* A connect to p fails.  Prompt leaves out the node that has been told of
\* but has not called listen, TimesOut the one that is too busy to accept.
Refuses(p) ==
    \/ p = None
    \/ status[p] \in {"off", "dead"}
    \/ status[p] = "joining" /\ ~ Prompt
    \/ status[p] = "up" /\ Len(inbox[p]) >= Backlog /\ TimesOut

Post(p, m) == inbox' = [inbox EXCEPT ![p] = Append(@, m)]

\* Thread t sends p a request it will wait on.
Call(t, p, cmd, arg) ==
    /\ Accepts(p)
    /\ Post(p, Msg(cmd, t, arg))
    /\ reply' = [reply EXCEPT ![t] = Waiting]

\* One-way message: the sender closes the connection at once.
Cast(p, cmd, arg) ==
    /\ Accepts(p)
    /\ Post(p, Msg(cmd, Nobody, arg))
    /\ UNCHANGED reply

\* The replies rs, in which whoever waits on message m is given port p.
Deliver(rs, m, p) ==
    [t \in DOMAIN rs |->
        IF t = m.from /\ rs[t] = Waiting THEN Got(p) ELSE rs[t]]

Head1(n) == Head(inbox[n])
Pop(n)   == inbox' = [inbox EXCEPT ![n] = Tail(@)]

\* The process of n ends: its connections break, and whoever waits on one
\* of them reads 0.
Die(n) ==
    /\ status' = [status EXCEPT ![n] = "dead"]
    /\ reply' = [t \in Thread |->
         IF t \in {Main(n), Maint(n), Server(n)} THEN Idle
         ELSE IF reply[t] = Waiting
                 /\ \E i \in DOMAIN inbox[n] : inbox[n][i].from = t
           THEN Got(None)
         ELSE reply[t]]
    /\ inbox' = [inbox EXCEPT ![n] = <<>>]
    /\ session' = [c \in Client |->
                     IF session[c] = n THEN None ELSE session[c]]
    /\ exposed' = [exposed EXCEPT ![n] = FALSE]
    /\ UNCHANGED <<postnode, postnode2, prenode, fin_tb, maint, asked>>

-----------------------------------------------------------------------------
(***************************************************************************)
(* main(): the start of a node.  The operator types no port, or the port   *)
(* of a node that has been listening and may have died since.              *)
(***************************************************************************)
creatFirstNode(n) ==
    /\ status[n] = "off"
    /\ n = Founder
    /\ status' = [status EXCEPT ![n] = "up"]
    /\ postnode' = [postnode EXCEPT ![n] = n]
    /\ prenode' = [prenode EXCEPT ![n] = n]
    /\ UNCHANGED <<postnode2, exposed, fin_tb, maint, net, client>>

\* join() up to the read.  The node is not listening yet.
join(n, c) ==
    /\ status[n] = "off"
    /\ n # Founder
    /\ Call(Main(n), c, "join", n)
    /\ status' = [status EXCEPT ![n] = "joining"]
    /\ UNCHANGED <<postnode, postnode2, prenode, exposed, fin_tb, maint, client>>

\* join() whose connect fails: main goes on, listens and starts the other
\* threads, with a successor that was never set.
JoinRefused(n, c) ==
    /\ status[n] = "off"
    /\ n # Founder
    /\ status[c] \in {"up", "dead"}
    /\ Refuses(c)
    /\ status' = [status EXCEPT ![n] = "up"]
    /\ UNCHANGED <<postnode, postnode2, prenode, exposed, fin_tb, maint, net, client>>

\* The rest of join(), then bind, listen and the other threads.
Listen(n) ==
    /\ status[n] = "joining"
    /\ reply[Main(n)].st = "got"
    /\ postnode' = [postnode EXCEPT ![n] = reply[Main(n)].port]
    /\ status' = [status EXCEPT ![n] = "up"]
    /\ reply' = [reply EXCEPT ![Main(n)] = Idle]
    /\ UNCHANGED <<postnode2, prenode, exposed, fin_tb, maint, inbox, client>>

\* commandLine(): the operator types "kill".
commandLine(n) ==
    /\ status[n] = "up"
    /\ n \in Mortal
    /\ Die(n)

-----------------------------------------------------------------------------
(***************************************************************************)
(* updateFingerTable(): the maintenance thread.                            *)
(***************************************************************************)
At(n, l)   == status[n] = "up" /\ pc[n] = l /\ reply[Maint(n)].st = "idle"
Goto(n, l) == pc' = [pc EXCEPT ![n] = l]

\* Bug: the loop over the fingers runs one too far.
SetFinger_OneMore(n, p) ==
    LET i == finger[n]
    IN  /\ fin_tb' = [fin_tb EXCEPT ![n][i] = p]
        /\ finger' = [finger EXCEPT ![n] = (i + 1) % (FingerNum + 1)]
        /\ IF i = FingerNum THEN Goto(n, "stabilize") ELSE UNCHANGED pc

\* fin_tb[i] := p, and on to the next finger; after the last one, stabilize.
SetFinger(n, p) ==
    LET i == finger[n]
    IN  /\ fin_tb' = [fin_tb EXCEPT ![n][i] = p]
        /\ finger' = [finger EXCEPT ![n] = (i + 1) % FingerNum]
        /\ IF i + 1 = FingerNum THEN Goto(n, "stabilize") ELSE UNCHANGED pc

\* findClosestPort(h) at n, by itself or through a finger.
FindHere(n, h) == Here(n, postnode[n], fin_tb[n], h)
FindAsks(n, h) == Asks(n, postnode[n], fin_tb[n], h)

\* fix_fingers(i) when findClosestPort answers by itself.  On port 0 the
\* thread tries again for ever: no step.
FixFingerHere(n) ==
    \E p \in FindHere(n, FingerStart(n, finger[n])) \ {None} :
        /\ At(n, "fix_fingers")
        /\ SetFinger(n, p)
        /\ UNCHANGED <<status, postnode, postnode2, prenode, exposed, net, client>>

\* fix_fingers(i) when it asks a finger; a refused connect tries again.
FixFingerAsk(n) ==
    LET h == FingerStart(n, finger[n])
    IN  \E p \in FindAsks(n, h) :
          /\ At(n, "fix_fingers")
          /\ Call(Maint(n), p, "find", h)
          /\ UNCHANGED <<node, maint, client>>

\* The reply to that; a broken connection reads 0 and tries again.
FixFingerReply(n) ==
    LET p == reply[Maint(n)].port
    IN  /\ status[n] = "up"
        /\ pc[n] = "fix_fingers"
        /\ reply[Maint(n)].st = "got"
        /\ reply' = [reply EXCEPT ![Maint(n)] = Idle]
        /\ IF p = None THEN UNCHANGED <<fin_tb, maint>> ELSE SetFinger(n, p)
        /\ UNCHANGED <<status, postnode, postnode2, prenode, exposed, inbox, client>>

ResetOf(f) == IF f = "stabilize" THEN "stabilize_reset" ELSE "notify_reset"
RetryOf(f) == IF f = "stabilize" THEN "stabilize_retry" ELSE "notify_retry"

\* stabilize() and notify() alike: the connect to the successor fails and
\* the successor's successor replaces it.
FailOver(n, f) ==
    /\ At(n, f)
    /\ Refuses(postnode[n])
    /\ postnode' = [postnode EXCEPT ![n] = postnode2[n]]
    /\ postnode2' = [postnode2 EXCEPT ![n] = n]
    /\ Goto(n, ResetOf(f))
    /\ UNCHANGED <<status, prenode, exposed, fin_tb, finger, net, client>>

\* resetPreNode(): the new successor is told to forget its predecessor.
resetPreNode(n, f) ==
    /\ At(n, ResetOf(f))
    /\ \/ Cast(postnode[n], "reset-pre", None)
       \/ Refuses(postnode[n]) /\ UNCHANGED net
    /\ Goto(n, RetryOf(f))
    /\ UNCHANGED <<node, finger, client>>

\* The second connect fails too: stabilize or notify returns.
GiveUp(n, f, next) ==
    /\ At(n, RetryOf(f))
    /\ Refuses(postnode[n])
    /\ Goto(n, next)
    /\ UNCHANGED <<node, finger, net, client>>

\* stabilize(): either connect succeeded; ask for its predecessor.
StabilizeAsk(n) ==
    /\ At(n, "stabilize") \/ At(n, "stabilize_retry")
    /\ Call(Maint(n), postnode[n], "stable", n)
    /\ Goto(n, "stabilize")
    /\ UNCHANGED <<node, finger, client>>

\* The reply: a node between n and its successor becomes the successor.
StabilizeReply(n) ==
    LET p == reply[Maint(n)].port
    IN  /\ status[n] = "up"
        /\ pc[n] = "stabilize"
        /\ reply[Maint(n)].st = "got"
        /\ reply' = [reply EXCEPT ![Maint(n)] = Idle]
        /\ postnode' = IF p # None /\ Adopts(n, translate(postnode[n]), p)
                         THEN [postnode EXCEPT ![n] = p]
                         ELSE postnode
        /\ Goto(n, "notify")
        /\ UNCHANGED <<status, postnode2, prenode, exposed, fin_tb, finger, inbox, client>>

\* notify(): either connect succeeded.
notify(n) ==
    /\ At(n, "notify") \/ At(n, "notify_retry")
    /\ Cast(postnode[n], "notify", n)
    /\ Goto(n, "heartBeat")
    /\ UNCHANGED <<node, finger, client>>

\* free(prenode), when another thread may have tested it and not yet used it.
FreePreNode(n) ==
    /\ prenode' = [prenode EXCEPT ![n] = None]
    /\ \/ UNCHANGED exposed
       \/ prenode[n] # None /\ exposed' = [exposed EXCEPT ![n] = TRUE]

\* That thread uses the null pointer, and the process dies; or there is a new
\* predecessor by then.  The test and the use may be those of printNodeInfo,
\* of the branches "stable" and "notify", of heartBeat, or free's own.
UsePreNode(n) ==
    /\ status[n] = "up"
    /\ exposed[n]
    /\ \/ prenode[n] = None /\ Die(n)
       \/ /\ prenode[n] # None
          /\ exposed' = [exposed EXCEPT ![n] = FALSE]
          /\ UNCHANGED <<status, postnode, postnode2, prenode, fin_tb, maint, net, client>>

\* heartBeat(): the predecessor is told n's successor, or forgotten.
heartBeat(n) ==
    /\ At(n, "heartBeat")
    /\ \/ prenode[n] = None /\ UNCHANGED <<prenode, exposed, net>>
       \/ Cast(prenode[n], "keep-alive", postnode[n]) /\ UNCHANGED <<prenode, exposed>>
       \/ prenode[n] # None /\ Refuses(prenode[n]) /\ FreePreNode(n) /\ UNCHANGED net
    /\ Goto(n, "fix_fingers")
    /\ UNCHANGED <<status, postnode, postnode2, fin_tb, finger, client>>

updateFingerTable(n) ==
    \/ FixFingerHere(n) \/ FixFingerAsk(n) \/ FixFingerReply(n)
    \/ \E f \in {"stabilize", "notify"} : FailOver(n, f) \/ resetPreNode(n, f)
    \/ GiveUp(n, "stabilize", "notify") \/ GiveUp(n, "notify", "heartBeat")
    \/ StabilizeAsk(n) \/ StabilizeReply(n)
    \/ notify(n) \/ heartBeat(n)

-----------------------------------------------------------------------------
(***************************************************************************)
(* chordNode(): the server serves the connection at the head of its inbox. *)
(***************************************************************************)
Serves(n, cmd) ==
    /\ status[n] = "up"
    /\ inbox[n] # <<>>
    /\ Head1(n).cmd = cmd
    /\ reply[Server(n)].st = "idle"

\* The key that has to be looked up to answer the head, if there is one.
\* A query session keeps its place until the client leaves.
LookupKey(n) ==
    CASE Serves(n, "find")  -> ReadKey(Head1(n).arg)
      [] Serves(n, "join") /\ postnode[n] # n -> Head1(n).arg
      [] Serves(n, "query") /\ reply[Head1(n).from] = Waiting ->
           asked[Head1(n).from[1]]
      [] OTHER -> NoKey

\* Bugs: the reply that was read is not cleared; the connection is not closed;
\* a query is looked up but not answered.
Answer_Stale(n, p) ==
    /\ reply' = Deliver(reply, Head1(n), p)
    /\ IF Head1(n).cmd = "query" THEN UNCHANGED inbox ELSE Pop(n)
Answer_KeepOpen(n, p) ==
    /\ reply' = [Deliver(reply, Head1(n), p) EXCEPT ![Server(n)] = Idle]
    /\ UNCHANGED inbox
Answer_NoSend(n, p) ==
    IF Head1(n).cmd = "query"
      THEN reply' = [reply EXCEPT ![Server(n)] = Idle] /\ UNCHANGED inbox
      ELSE /\ reply' = [Deliver(reply, Head1(n), p) EXCEPT ![Server(n)] = Idle]
           /\ Pop(n)

\* The reply p goes out; a query session stays open, other callers close.
Answer(n, p) ==
    /\ reply' = [Deliver(reply, Head1(n), p) EXCEPT ![Server(n)] = Idle]
    /\ IF Head1(n).cmd = "query" THEN UNCHANGED inbox ELSE Pop(n)

\* "join" at a node that is its own successor: the joiner becomes its
\* successor and predecessor.  With no predecessor there is a null pointer
\* to write through, and the process dies.
ServeFirstJoin(n) ==
    /\ Serves(n, "join")
    /\ postnode[n] = n
    /\ \/ /\ prenode[n] # None
          /\ postnode' = [postnode EXCEPT ![n] = Head1(n).arg]
          /\ prenode' = [prenode EXCEPT ![n] = Head1(n).arg]
          /\ Answer(n, n)
          /\ UNCHANGED <<status, postnode2, exposed, fin_tb, maint, client>>
       \/ prenode[n] = None /\ Die(n)

\* "find", a query and any other "join", answered from n's own tables.
ServeLookup(n) ==
    \E p \in FindHere(n, LookupKey(n)) \ {None} :
        /\ LookupKey(n) # NoKey
        /\ Answer(n, p)
        /\ UNCHANGED <<node, maint, client>>

\* The same when a finger has to be asked: the server waits in its turn.
ServeForward(n) ==
    \E p \in FindAsks(n, LookupKey(n)) :
        /\ LookupKey(n) # NoKey
        /\ Call(Server(n), p, "find", LookupKey(n))
        /\ UNCHANGED <<node, maint, client>>

\* The finger has replied; after a broken connection the loop tries again.
ServeForwarded(n) ==
    LET p == reply[Server(n)].port
    IN  /\ status[n] = "up"
        /\ reply[Server(n)].st = "got"
        /\ IF p = None
             THEN reply' = [reply EXCEPT ![Server(n)] = Idle] /\ UNCHANGED inbox
             ELSE Answer(n, p)
        /\ UNCHANGED <<node, maint, client>>

\* Bug: "stable" does not test for the null pointer.
ServeStable_NoTest(n) ==
    /\ Serves(n, "stable")
    /\ \/ /\ prenode[n] # None
          /\ Answer(n, prenode[n])
          /\ UNCHANGED <<node, maint, client>>
       \/ prenode[n] = None /\ Die(n)

\* "stable": the predecessor, 0 if there is none.
ServeStable(n) ==
    /\ Serves(n, "stable")
    /\ Answer(n, prenode[n])
    /\ UNCHANGED <<node, maint, client>>

\* Bug: only a node without a predecessor listens to "notify".
ServeNotify_FirstOnly(n) ==
    /\ Serves(n, "notify")
    /\ prenode' = IF prenode[n] = None THEN [prenode EXCEPT ![n] = Head1(n).arg]
                                       ELSE prenode
    /\ Pop(n)
    /\ UNCHANGED <<status, postnode, postnode2, exposed, fin_tb, maint, reply, client>>

\* "notify": the sender becomes the predecessor if it is closer.
ServeNotify(n) ==
    LET p == Head1(n).arg
    IN  /\ Serves(n, "notify")
        /\ prenode' = IF prenode[n] = None \/ CloserPredecessor(n, prenode[n], p)
                        THEN [prenode EXCEPT ![n] = p]
                        ELSE prenode
        /\ Pop(n)
        /\ UNCHANGED <<status, postnode, postnode2, exposed, fin_tb, maint, reply, client>>

\* "keep-alive": the successor's successor.
ServeKeepAlive(n) ==
    /\ Serves(n, "keep-alive")
    /\ postnode2' = [postnode2 EXCEPT ![n] = Head1(n).arg]
    /\ Pop(n)
    /\ UNCHANGED <<status, postnode, prenode, exposed, fin_tb, maint, reply, client>>

\* "reset-pre": the predecessor is freed.
ServeReset(n) ==
    /\ Serves(n, "reset-pre")
    /\ FreePreNode(n)
    /\ Pop(n)
    /\ UNCHANGED <<status, postnode, postnode2, fin_tb, maint, reply, client>>

\* A query session whose client has left: the connection is closed.
ServeQuit(n) ==
    /\ Serves(n, "query")
    /\ session[Head1(n).from[1]] # n
    /\ Pop(n)
    /\ UNCHANGED <<node, maint, reply, client>>

chordNode(n) ==
    \/ ServeFirstJoin(n) \/ ServeLookup(n) \/ ServeForward(n)
    \/ ServeForwarded(n) \/ ServeStable(n) \/ ServeNotify(n)
    \/ ServeKeepAlive(n) \/ ServeReset(n) \/ ServeQuit(n)

-----------------------------------------------------------------------------
(***************************************************************************)
(* query.c: the client connects once and then asks for one key at a time.  *)
(***************************************************************************)
QueryConnect(c, n) ==
    /\ session[c] = None
    /\ \A m \in Node : \A i \in DOMAIN inbox[m] : inbox[m][i].from # Query(c)
    /\ reply[Query(c)] = Idle
    /\ Accepts(n)
    /\ Post(n, Msg("query", Query(c), None))
    /\ session' = [session EXCEPT ![c] = n]
    /\ UNCHANGED <<node, maint, reply, asked>>

QueryAsk(c, h) ==
    /\ session[c] # None
    /\ reply[Query(c)] = Idle
    /\ asked' = [asked EXCEPT ![c] = h]
    /\ reply' = [reply EXCEPT ![Query(c)] = Waiting]
    /\ UNCHANGED <<node, maint, inbox, session>>

QueryReply(c) ==
    /\ reply[Query(c)].st = "got"
    /\ asked' = [asked EXCEPT ![c] = NoKey]
    /\ reply' = [reply EXCEPT ![Query(c)] = Idle]
    /\ UNCHANGED <<node, maint, inbox, session>>

QueryQuit(c) ==
    /\ session[c] # None
    /\ reply[Query(c)] = Idle
    /\ session' = [session EXCEPT ![c] = None]
    /\ UNCHANGED <<node, maint, net, asked>>

-----------------------------------------------------------------------------
Start(n)    == creatFirstNode(n)
                \/ \E c \in Node \ {n} : join(n, c) \/ JoinRefused(n, c)
Operator(n) == Start(n) \/ commandLine(n)
User(c)     == \/ \E n \in Node : QueryConnect(c, n)
               \/ \E h \in Key : QueryAsk(c, h)
               \/ QueryQuit(c)

Next ==
    \/ \E n \in Node : Operator(n) \/ Listen(n) \/ UsePreNode(n)
                       \/ updateFingerTable(n) \/ chordNode(n)
    \/ \E c \in Client : User(c) \/ QueryReply(c)

\* Each thread of a node is scheduled; nobody has to type a command.
Fairness ==
    /\ \A n \in Node : /\ WF_vars(Listen(n))
                       /\ WF_vars(UsePreNode(n))
                       /\ SF_vars(updateFingerTable(n))
                       /\ SF_vars(chordNode(n))
    /\ \A c \in Client : WF_vars(QueryReply(c))

Spec     == Init /\ [][Next]_vars
FairSpec == Spec /\ Fairness

-----------------------------------------------------------------------------
Message ==
    [cmd : {"join"}, from : Node \X {"main"}, arg : Node]
    \cup [cmd : {"find"}, from : Node \X {"maint", "server"}, arg : Key]
    \cup [cmd : {"stable"}, from : Node \X {"maint"}, arg : Node]
    \cup [cmd : {"notify"}, from : {Nobody}, arg : Node]
    \cup [cmd : {"keep-alive", "reset-pre"}, from : {Nobody}, arg : Port]
    \cup [cmd : {"query"}, from : Client \X {"query"}, arg : {None}]

TypeOK ==
    /\ status \in [Node -> {"off", "joining", "up", "dead"}]
    /\ postnode \in [Node -> Port]
    /\ postnode2 \in [Node -> Port]
    /\ prenode \in [Node -> Port]
    /\ exposed \in [Node -> BOOLEAN]
    /\ fin_tb \in [Node -> [Finger -> Node]]
    /\ pc \in [Node -> PC]
    /\ finger \in [Node -> Finger]
    /\ inbox \in [Node -> Seq(Message)]
    /\ reply \in [Thread -> ReplyState]
    /\ session \in [Client -> Port]
    /\ asked \in [Client -> Key \cup {NoKey}]

\* Property.  Requests and replies match, whatever mixture of forwarded
\* lookups, deaths and sessions is going on: a thread of a live node that
\* waits has one request outstanding and no other thread has any.
Outstanding(t) ==
    {x \in Node \X (1 .. Backlog) :
        x[2] \in DOMAIN inbox[x[1]] /\ inbox[x[1]][x[2]].from = t}
CallsMatch ==
    \A n \in Node, t \in {"main", "maint", "server"} :
        status[n] # "dead" =>
          Cardinality(Outstanding(<<n, t>>)) =
            IF reply[<<n, t>>] = Waiting THEN 1 ELSE 0

\* Property.  A server in the middle of a forwarded lookup (chordNode) still
\* has, first in line, the connection that wants the answer, though others
\* arrive, callers die and the node it asked dies.
BusyServerHasCaller ==
    \A n \in Node : reply[Server(n)] # Idle =>
        inbox[n] # <<>> /\ Head1(n).cmd \in {"join", "find", "query"}

\* Property.  A "find" is only ever sent clockwise and never past its key
\* (findClosestPort), even while the ring is changing: no lookup goes round in
\* a circle.
FindsGoForward ==
    \A n \in Node : \A i \in DOMAIN inbox[n] :
        LET m == inbox[n][i]
        IN  m.cmd = "find" => Dist(n, m.arg) < Dist(m.from[1], m.arg)

\* The successor of a node that has one, from the moment its join is answered.
Member ==
    {n \in Node : \/ status[n] = "up" /\ postnode[n] # None
                  \/ /\ status[n] = "joining"
                     /\ reply[Main(n)].st = "got"
                     /\ reply[Main(n)].port # None}
Successor(n) == IF status[n] = "up" THEN postnode[n] ELSE reply[Main(n)].port

\* The nodes met on the walk along successors that starts at n: those in every
\* set that has the successor of n and that no successor leaves.
Walk(n) ==
    {m \in Node : \A S \in SUBSET Node :
        Successor(n) \in S /\ (\A k \in S \cap Member : Successor(k) \in S) => m \in S}

\* Property.  While nodes only join, the successors (join, stabilize) make one
\* ring, in the order of the positions, that every other member leads to.
OneOrderedRing ==
    LET onRing == {n \in Member : n \in Walk(n)}
    IN  Member # {} =>
          /\ onRing # {}
          /\ \A n \in Member : onRing \subseteq Walk(n)
          /\ \A n, m \in onRing : ~ Between(n, m, Successor(n))

\* Property.  A successor changes only for a closer one (stabilize), for the
\* joiner of a node that is alone, or for postnode2 when it has been found
\* dead.
PostCloser ==
    [][\A n \in Node : status[n] = "up" /\ postnode'[n] # postnode[n] =>
         \/ Between(n, postnode'[n], translate(postnode[n]))
         \/ postnode[n] = n /\ prenode'[n] = postnode'[n]
         \/ Refuses(postnode[n]) /\ postnode'[n] = postnode2[n]]_vars

\* Property.  A predecessor is only forgotten, or replaced by a closer one
\* ("notify") or by the joiner of a node that is alone.
PreCloser ==
    [][\A n \in Node : status[n] = "up" /\ prenode'[n] # prenode[n] =>
         \/ prenode'[n] = None
         \/ prenode[n] = None
         \/ Between(prenode[n], prenode'[n], n)
         \/ postnode[n] = n /\ prenode'[n] = postnode'[n]]_vars

\* The servers that n's server waits for: it has sent a lookup there, or wants
\* to and finds the backlog full.
WaitsFor(n) ==
    {m \in Node : \/ \E i \in DOMAIN inbox[m] : inbox[m][i].from = Server(n)
                  \/ /\ LookupKey(n) # NoKey
                     /\ m \in FindAsks(n, LookupKey(n))
                     /\ Len(inbox[m]) >= Backlog}

\* Property.  No servers wait for each other in a circle, each serving one
\* connection while a lookup it has forwarded queues behind another's.  (The
\* README has the nodes "answer queries even if the system is continuously
\* changing", DHT_Chord/README.md:6.)
NoCyclicWait ==
    \A S \in SUBSET Node : S # {} => \E n \in S : WaitsFor(n) \cap S = {}

\* Property.  Once the last join is over, and if no client stays for ever, the
\* neighbours of every member become the right ones (stabilize, notify) and so
\* do the fingers (fix_fingers), but for one that starts at the position of the
\* lowest node; and so they stay.
Settled ==
    \A n \in Member :
        /\ status[n] = "up"
        /\ IsSuccessor(Member, n, postnode[n])
        /\ prenode[n] \in Member
        /\ postnode[prenode[n]] = n
        /\ \A i \in Finger :
             LET h == FingerStart(n, i)
             IN  \/ IsOwner(Member, h, fin_tb[n][i])
                 \/ h \in Member /\ \A m \in Member : h <= m
Converges == (\A c \in Client : []<>(session[c] = None)) => <>[]Settled

\* Property.  A query is answered (DHT_Chord/README.md:6).
QueryAnswered ==
    \A c \in Client : reply[Query(c)] = Waiting ~> reply[Query(c)] # Waiting

\* Property.  A node that has been killed does not stay the successor of a
\* live one (DHT_Chord/README.md:6, "delete nodes").
DeadForgotten ==
    \A n, m \in Node :
        status[n] = "up" /\ postnode[n] = m /\ status[m] = "dead"
          ~> status[n] = "dead" \/ postnode[n] # m

\* Property.  A process that its operator does not kill only ends without a
\* predecessor, in one of two ways: over a "join" while it is its own successor
\* (chordNode writes through the null pointer it does not test), or because a
\* thread had tested prenode when heartBeat or reset-pre freed it.  Every other
\* use of prenode survives every order in which neighbours die.
DiesOnlyAlone ==
    [][\A n \in Node : status[n] = "up" /\ status'[n] = "dead" =>
         \/ n \in Mortal
         \/ /\ prenode[n] = None
            /\ exposed[n] \/ (postnode[n] = n /\ Serves(n, "join"))]_vars
=============================================================================
