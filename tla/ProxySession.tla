---------------------------- MODULE ProxySession ----------------------------
(***************************************************************************)
(* The sessions of Web Proxy_C/Proxy with Cache: minion (main.cpp) between *)
(* a client and the origin servers it asks for, with the cache that all    *)
(* sessions share.  The cache is what Cache implements, an LRUStore.       *)
(*                                                                         *)
(* A message is its head, which arrives whole, and len units of body, each *)
(* of which may arrive later.  A client asks again when it has its answer. *)
(* A status line has a code: one without fails an assertion that ends the  *)
(* process (main.cpp:304), which is left out.                              *)
(***************************************************************************)
EXTENDS Integers, Sequences

CONSTANTS
    Session,    \* the threads, each with its client
    Origin,     \* host and port of an origin server
    Host,       \* of an origin, its host
    File,       \* the rest of a URL
    Request,    \* what a client may ask
    Response,   \* how a server may answer, the URL apart
    MaxLen,     \* bound on the units of a body
    MaxSize,    \* limit of the cache, in heads and units
    None

Url    == [origin : Origin, file : File]
Method == {"GET", "POST", "CONNECT"}

\* The head of an answer: how it is, and the request it is an answer to.
Header == [method : Method, url : Url, as : Response]

ASSUME SessionAssumption ==
    /\ Request \subseteq
         [method : Method, url : Url, len : 0 .. MaxLen, cachable : BOOLEAN, persistent : BOOLEAN]
    /\ Response \subseteq
         [framing : {"length", "chunked", "close"}, len : 0 .. MaxLen,
          cachable : BOOLEAN, persistent : BOOLEAN, ok : BOOLEAN]
    /\ \A r \in Response : r.framing = "chunked" => r.len > 0
    /\ MaxLen \in Nat /\ MaxSize \in Nat
    /\ None \notin Request /\ None \notin Origin

VARIABLES
    pc,         \* of a session, where minion is
    req,        \* the request it works on
    resp, body, \* the head of the response and the units read of its body
    closing,    \* clientClose
    client,     \* of a session, the client: what it wants and got so far
    server,     \* the other end of the server connection
    up, down,   \* what minion has not yet read from the client, the server
    cache, found
minion == <<pc, req, resp, body, closing>>
store  == <<cache, found>>
vars   == <<minion, client, server, up, down, store>>

\* An item of a connection.
HeadOf(h)   == [is |-> "head", of |-> h]
Unit(blank) == [is |-> "unit", blank |-> blank]

\* The cache holds heads with the units that were read; the key of an entry is
\* host and file of the request.
Value == [head : Header, units : 0 .. MaxLen]
Key   == {<<Host[o], f>> : o \in Origin, f \in File}
Size  == [v \in Value |-> 1 + v.units]
Store == INSTANCE LRUStore WITH entries <- cache, result <- found

\* hf in minion: neither the port of the origin nor the method is part of it.
KeyOf(u) == <<Host[u.origin], u.file>>

NoClient == [here |-> FALSE, want |-> None, unsent |-> 0, got |-> <<>>]
NoServer == [peer |-> None, alive |-> FALSE, task |-> None, sofar |-> 0, giving |-> None, owed |-> 0]

Init ==
    /\ pc = [s \in Session |-> "none"]
    /\ req = [s \in Session |-> None]
    /\ resp = [s \in Session |-> None]
    /\ body = [s \in Session |-> 0]
    /\ closing = [s \in Session |-> FALSE]
    /\ client = [s \in Session |-> NoClient]
    /\ server = [s \in Session |-> NoServer]
    /\ up = [s \in Session |-> <<>>]
    /\ down = [s \in Session |-> <<>>]
    /\ Store!Init

Goto(s, l) == pc' = [pc EXCEPT ![s] = l]
Take(s, q) == q' = [q EXCEPT ![s] = Tail(@)]

-----------------------------------------------------------------------------
(***************************************************************************)
(* The client and the origin servers.                                      *)
(***************************************************************************)
Connect(s) ==
    /\ pc[s] = "none"
    /\ Goto(s, "request")
    /\ client' = [client EXCEPT ![s] = [NoClient EXCEPT !.here = TRUE]]
    /\ UNCHANGED <<req, resp, body, closing, server, up, down, store>>

ClientAsks(s, r) ==
    /\ client[s].here
    /\ client[s].want = None
    /\ client' = [client EXCEPT ![s].want = r, ![s].unsent = r.len]
    /\ up' = [up EXCEPT ![s] = Append(@, HeadOf(r))]
    /\ UNCHANGED <<minion, server, down, store>>

ClientSends(s) ==
    /\ client[s].unsent > 0
    /\ client' = [client EXCEPT ![s].unsent = @ - 1]
    /\ up' = [up EXCEPT ![s] = Append(@, Unit(FALSE))]
    /\ UNCHANGED <<minion, server, down, store>>

\* The client has all that the head announces.
ClientDone(s) ==
    /\ client[s].got # <<>>
    /\ Len(client[s].got) = 1 + client[s].got[1].of.as.len
    /\ client' = [client EXCEPT ![s] = [NoClient EXCEPT !.here = client[s].want.persistent]]
    /\ UNCHANGED <<minion, server, up, down, store>>

ClientLeaves(s) ==
    /\ client[s].here
    /\ client' = [client EXCEPT ![s] = NoClient]
    /\ UNCHANGED <<minion, server, up, down, store>>

\* A server answers a request it has in full.
ServerAnswers(s, r) ==
    LET v == server[s]
        h == [method |-> v.task.method,
              url |-> [origin |-> v.peer, file |-> v.task.url.file], as |-> r]
    IN  /\ v.alive
        /\ v.task # None
        /\ v.task.len = v.sofar
        /\ down' = [down EXCEPT ![s] = Append(@, HeadOf(h))]
        /\ server' = [server EXCEPT ![s].task = None, ![s].giving = r, ![s].owed = r.len,
                                    ![s].alive = r.len > 0 \/ r.persistent]
        /\ UNCHANGED <<minion, client, up, store>>

\* The next unit; in a chunked body any line may be empty, and the last one is.
ServerGives(s) ==
    LET v == server[s]
    IN  /\ v.alive
        /\ v.owed > 0
        /\ \E blank \in IF v.giving.framing = "chunked" THEN {TRUE, v.owed = 1} ELSE {FALSE} :
             down' = [down EXCEPT ![s] = Append(@, Unit(blank))]
        /\ server' = [server EXCEPT ![s].owed = @ - 1,
                                    ![s].alive = v.owed > 1 \/ v.giving.persistent]
        /\ UNCHANGED <<minion, client, up, store>>

\* A server that is idle, or fails, closes the connection.
ServerLeaves(s) ==
    /\ server[s].alive
    /\ server' = [server EXCEPT ![s].alive = FALSE]
    /\ UNCHANGED <<minion, client, up, down, store>>

-----------------------------------------------------------------------------
(***************************************************************************)
(* minion.                                                                 *)
(***************************************************************************)
\* client.closex(), server.closex(), return.
End(s) ==
    /\ Goto(s, "none")
    /\ req' = [req EXCEPT ![s] = None]
    /\ resp' = [resp EXCEPT ![s] = None]
    /\ body' = [body EXCEPT ![s] = 0]
    /\ closing' = [closing EXCEPT ![s] = FALSE]
    /\ client' = [client EXCEPT ![s] = NoClient]
    /\ server' = [server EXCEPT ![s] = NoServer]
    /\ up' = [up EXCEPT ![s] = <<>>]
    /\ down' = [down EXCEPT ![s] = <<>>]
    /\ UNCHANGED store

Close(s) == pc[s] = "close" /\ End(s)

\* client.writex(items): lost when the client has gone.
Deliver(s, items) ==
    client' = [client EXCEPT ![s].got = IF client[s].here THEN @ \o items ELSE @]

ReadRequest(s) ==
    LET r == up[s][1].of
    IN  /\ pc[s] = "request"
        /\ up[s] # <<>>
        /\ up[s][1].is = "head"
        /\ Take(s, up)
        /\ req' = [req EXCEPT ![s] = r]
        /\ closing' = [closing EXCEPT ![s] = ~r.persistent]
        /\ Goto(s, IF r.method = "CONNECT" THEN "close" ELSE "lookup")
        /\ UNCHANGED <<resp, body, client, server, down, store>>

\* The client has gone, or what it sent is not a request line (parseAddress): a
\* unit of a body that was not read has not the three words of one.
RequestEnds(s) ==
    /\ pc[s] = "request"
    /\ \/ up[s] = <<>> /\ ~client[s].here
       \/ up[s] # <<>> /\ up[s][1].is = "unit"
    /\ End(s)

\* A request with a body, or that forbids it, is not looked up.
Lookup(s) ==
    /\ pc[s] = "lookup"
    /\ IF req[s].len = 0 /\ req[s].cachable
         THEN Store!Get(s, KeyOf(req[s].url)) /\ Goto(s, IF found'[s] = None THEN "open" ELSE "hit")
         ELSE UNCHANGED store /\ Goto(s, "open")
    /\ UNCHANGED <<req, resp, body, closing, client, server, up, down>>

\* The answer is in the cache.  The result of writex is compared with false,
\* so an empty body ends the session and an error does not.
Hit(s) ==
    LET v == found[s]
    IN  /\ pc[s] = "hit"
        /\ Deliver(s, <<HeadOf(v.head)>> \o [i \in 1 .. v.units |-> Unit(FALSE)])
        /\ Goto(s, IF v.units = 0 THEN "close" ELSE "request")
        /\ found' = [found EXCEPT ![s] = None]
        /\ UNCHANGED <<req, resp, body, closing, server, up, down, cache>>

\* Bug: an open connection is kept whatever it leads to.
Kept_Any(s) == server[s].peer # None
Kept(s) == server[s].peer = req[s].url.origin

\* setHostPort, openx and the head of the request.  An open connection to the
\* origin is used again, though the other end may have closed it.
Open(s) ==
    /\ pc[s] = "open"
    /\ IF Kept(s)
         THEN /\ server' = IF server[s].alive
                             THEN [server EXCEPT ![s].task = req[s], ![s].sofar = 0]
                             ELSE server
              /\ UNCHANGED down
         ELSE /\ server' = [server EXCEPT ![s] = [NoServer EXCEPT
                               !.peer = req[s].url.origin, !.alive = TRUE, !.task = req[s]]]
              /\ down' = [down EXCEPT ![s] = <<>>]
    /\ Goto(s, IF req[s].len > 0 THEN "body" ELSE "answer")
    /\ UNCHANGED <<req, resp, body, closing, client, up, store>>

OpenFails(s) == pc[s] = "open" /\ ~Kept(s) /\ End(s)

\* One read of the body, of what has arrived so far, is passed on.
Body(s) ==
    /\ pc[s] = "body"
    /\ \E n \in 1 .. Len(up[s]) :
         /\ up' = [up EXCEPT ![s] = SubSeq(@, n + 1, Len(@))]
         /\ server' = [server EXCEPT ![s].sofar = IF server[s].alive THEN @ + n ELSE @]
    /\ Goto(s, "answer")
    /\ UNCHANGED <<req, resp, body, closing, client, down, store>>

BodyEnds(s) ==
    /\ pc[s] = "body"
    /\ up[s] = <<>>
    /\ ~client[s].here
    /\ closing' = [closing EXCEPT ![s] = TRUE]
    /\ Goto(s, "answer")
    /\ UNCHANGED <<req, resp, body, client, server, up, down, store>>

\* Bug: a new response adds to the body of the last one.
Answer_KeepBody(s) ==
    LET h == down[s][1].of
    IN  /\ pc[s] = "answer"
        /\ down[s] # <<>>
        /\ Take(s, down)
        /\ resp' = [resp EXCEPT ![s] = h]
        /\ closing' = [closing EXCEPT ![s] = @ \/ h.as.framing = "chunked"]
        /\ Deliver(s, <<HeadOf(h)>>)
        /\ Goto(s, "relay")
        /\ UNCHANGED <<req, body, server, up, store>>

\* The head of the response, passed on.
Answer(s) ==
    LET h == down[s][1].of
    IN  /\ pc[s] = "answer"
        /\ down[s] # <<>>
        /\ down[s][1].is = "head"
        /\ Take(s, down)
        /\ resp' = [resp EXCEPT ![s] = h]
        /\ body' = [body EXCEPT ![s] = 0]
        /\ closing' = [closing EXCEPT ![s] = @ \/ h.as.framing = "chunked"]
        /\ Deliver(s, <<HeadOf(h)>>)
        /\ Goto(s, "relay")
        /\ UNCHANGED <<req, server, up, store>>

\* getBodySize(): without a Content-Length it is 0.
BodySize(h) == IF h.as.framing = "length" THEN h.as.len ELSE 0

\* Bug: the last unit is left in the connection.
More_OneLess(s) == body[s] + 1 < BodySize(resp[s]) \/ resp[s].as.framing = "chunked"

\* The condition of the loop over the body.
More(s) == body[s] < BodySize(resp[s]) \/ resp[s].as.framing = "chunked"

\* A unit of the body, passed on; an empty line ends a chunked body.
Relay(s) ==
    /\ pc[s] = "relay"
    /\ More(s)
    /\ down[s] # <<>>
    /\ Take(s, down)
    /\ Deliver(s, <<down[s][1]>>)
    /\ body' = [body EXCEPT ![s] = @ + 1]
    /\ IF down[s][1].blank THEN Goto(s, "finish") ELSE UNCHANGED pc
    /\ UNCHANGED <<req, resp, closing, server, up, store>>

Reading(s) == pc[s] = "answer" \/ (pc[s] = "relay" /\ More(s))

\* The connection ends inside a body with a Content-Length.
RelayEnds(s) ==
    /\ pc[s] = "relay"
    /\ resp[s].as.framing = "length" /\ More(s)
    /\ down[s] = <<>> /\ ~server[s].alive
    /\ Goto(s, "finish")
    /\ UNCHANGED <<req, resp, body, closing, client, server, up, down, store>>

\* Bug: the end of the connection is not an error.
ServerLost_Ignore(s) ==
    /\ Reading(s)
    /\ down[s] = <<>> /\ ~server[s].alive
    /\ Goto(s, "request")
    /\ UNCHANGED <<req, resp, body, closing, client, server, up, down, store>>

\* It ends before the head or in a chunked body, or a read or write of it fails.
ServerLost(s) ==
    /\ Reading(s) \/ pc[s] = "body"
    /\ pc[s] = "body" \/ down[s] = <<>>
    /\ server[s].peer # None /\ ~server[s].alive
    /\ End(s)

\* A write to the client fails, or the read of its body.
ClientLost(s) ==
    /\ (Reading(s) /\ down[s] # <<>>) \/ pc[s] = "body"
    /\ ~client[s].here
    /\ End(s)

\* Bug: what was read is not compared with Content-Length.
Storable_Any(s) ==
    resp[s].as.cachable /\ resp[s].as.ok /\ resp[s].as.framing # "chunked"

Storable(s) ==
    /\ resp[s].as.cachable /\ resp[s].as.ok /\ resp[s].as.framing # "chunked"
    /\ BodySize(resp[s]) > 0 => BodySize(resp[s]) = body[s]

\* The response is over: cache it, and close or go on.
Finish(s) ==
    /\ pc[s] = "finish" \/ (pc[s] = "relay" /\ ~More(s))
    /\ IF Storable(s)
         THEN Store!Put(s, KeyOf(req[s].url), [head |-> resp[s], units |-> body[s]])
         ELSE UNCHANGED store
    /\ Goto(s, IF closing[s] \/ ~resp[s].as.persistent THEN "close" ELSE "request")
    /\ UNCHANGED <<req, resp, body, closing, client, server, up, down>>

-----------------------------------------------------------------------------
Minion(s) ==
    \/ ReadRequest(s) \/ RequestEnds(s) \/ Lookup(s) \/ Hit(s)
    \/ Open(s) \/ OpenFails(s) \/ Body(s) \/ BodyEnds(s)
    \/ Answer(s) \/ Relay(s) \/ RelayEnds(s) \/ ServerLost(s) \/ ClientLost(s)
    \/ Finish(s) \/ Close(s)

Peers(s) ==
    \/ Connect(s) \/ ClientSends(s) \/ ClientDone(s) \/ ClientLeaves(s)
    \/ \E r \in Request : ClientAsks(s, r)
    \/ \E r \in Response : ServerAnswers(s, r)
    \/ ServerGives(s) \/ ServerLeaves(s)

Next == \E s \in Session : Minion(s) \/ Peers(s)
Spec == Init /\ [][Next]_vars

\* Threads are scheduled; a client sends the body it announced and a server
\* answers, unless they leave.
FairSpec ==
    /\ Spec
    /\ \A s \in Session :
         /\ WF_vars(Minion(s))
         /\ WF_vars(ClientSends(s)) /\ WF_vars(ClientDone(s))
         /\ WF_vars(\E r \in Response : ServerAnswers(s, r)) /\ WF_vars(ServerGives(s))

-----------------------------------------------------------------------------
PC == {"none", "request", "lookup", "hit", "open", "body", "answer", "relay", "finish", "close"}
Item == [is : {"head"}, of : Request \cup Header] \cup [is : {"unit"}, blank : BOOLEAN]

TypeOK ==
    /\ pc \in [Session -> PC]
    /\ req \in [Session -> Request \cup {None}]
    /\ resp \in [Session -> Header \cup {None}]
    /\ body \in [Session -> 0 .. MaxLen]
    /\ closing \in [Session -> BOOLEAN]
    /\ client \in [Session -> [here : BOOLEAN, want : Request \cup {None},
                               unsent : 0 .. MaxLen, got : Seq(Item)]]
    /\ server \in [Session -> [peer : Origin \cup {None}, alive : BOOLEAN,
                               task : Request \cup {None}, sofar : 0 .. MaxLen,
                               giving : Response \cup {None}, owed : 0 .. MaxLen]]
    /\ up \in [Session -> Seq(Item)]
    /\ down \in [Session -> Seq(Item)]
    /\ cache \in Seq([key : Key, val : Value])
    /\ found \in [Session -> Value \cup {None}]

\* Property.  What a client gets is one answer, for the URL it asked for and with
\* no more units than the head announces, whether it comes from the cache, a
\* connection used before or a new one (minion).  An answer that is relayed is to
\* the method of the request too; one from the cache may have been to another,
\* since the key is host and file (main.cpp:203): a GET may get what a POST was
\* answered.
RightAnswer ==
    \A s \in Session :
        LET c == client[s]
            h == c.got[1].of
        IN  c.got # <<>> =>
              /\ c.got[1].is = "head"
              /\ c.want # None /\ h.url = c.want.url
              /\ \/ h.method = c.want.method
                 \/ c.want.len = 0 /\ c.want.cachable /\ pc[s] \notin {"relay", "finish"}
              /\ \A i \in 2 .. Len(c.got) : c.got[i].is = "unit"
              /\ Len(c.got) <= 1 + h.as.len

\* Property.  The cache holds only whole, successful answers, each under the
\* key of its URL, though connections break inside a body (main.cpp:401-429).
\* The exception in the code: of an answer that only the end of the connection
\* delimits, which has no Content-Length, it holds the head alone.
CacheWhole ==
    \A i \in DOMAIN cache :
        LET v == cache[i].val
        IN  /\ v.units = IF v.head.as.framing = "length" THEN v.head.as.len ELSE 0
            /\ v.head.as.ok /\ v.head.as.cachable
            /\ KeyOf(v.head.url) = cache[i].key

\* Property.  Between two requests nothing of the last answer is left in a
\* server connection that will be used again, and what minion reads first of
\* an answer is a head.  This is of servers that send a Connection header with a
\* body that only the end of the connection delimits; without one minion keeps
\* the connection and leaves the body in it (main.cpp:350, 400).
InStep ==
    \A s \in Session :
        /\ pc[s] \in {"request", "lookup", "hit", "open"} => down[s] = <<>>
        /\ (pc[s] = "answer" /\ down[s] # <<>>) => down[s][1].is = "head"

\* Property.  A client that asks and stays gets its whole answer or sees its
\* connection closed, with two exceptions in the code: a server that breaks off
\* inside a body (main.cpp:358-361, 400), and a body of the client's that did not
\* arrive in one read (main.cpp:255).
BrokenOff(s) == server[s].peer # None /\ ~server[s].alive /\ server[s].owed > 0
CutShort(s) == pc[s] = "answer" /\ server[s].task # None /\ server[s].sofar < req[s].len
Told ==
    \A s \in Session :
        client[s].want # None ~> client[s].want = None \/ BrokenOff(s) \/ CutShort(s)
=============================================================================
