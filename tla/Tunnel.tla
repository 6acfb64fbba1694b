------------------------------- MODULE Tunnel -------------------------------
(***************************************************************************)
(* The simplified proxy (proxy.c on the Rio functions of csapp.c).  main   *)
(* accepts connections and starts a thread webTalk for each.  It reads the *)
(* request line through a Rio buffer and connects to the server; for a GET *)
(* it passes on the head and then copies the response; for a CONNECT it    *)
(* starts a second thread, forwarder, and the two copy in both directions  *)
(* until each has met the end of its input.                                *)
(*                                                                         *)
(* Threads share the table of descriptors: a descriptor is a number, and   *)
(* the lowest free one is given out.  The two ends of a connection are     *)
(* external.  An item is a line of a head or a piece of data; the server   *)
(* a name resolves to, and writes that block, are not modelled.            *)
(***************************************************************************)
EXTENDS Integers, Sequences

CONSTANTS Sessions,   \* the connections clients make
          Requests,   \* for each session, what the client may send: the lines of
                      \* a head and, for a CONNECT, data
          Responses,  \* and what its server may send
          Descriptors,\* bound: the numbers 1..Descriptors
          MaxTries    \* how often a failed open_clientfd is repeated: 20

\* The items of a head, the request line first, and of a body.
Words == {"get", "connect", "post", "short", "host", "keep-alive", "close", "end", "data"}

\* Lines in which webTalk and parseAddress find no url, there being fewer than
\* two words, or no port behind the colon.
NoUrl == {"short", "end"}

ASSUME TunnelAssumption ==
  /\ Descriptors \in Nat /\ MaxTries \in Nat
  /\ \A s \in Sessions : Requests[s] \subseteq Seq(Words) /\ Responses[s] \subseteq Seq(Words)

VARIABLES
  up,      \* the process is alive
  fds,     \* the connection behind each descriptor
  pc,      \* webTalk, of each session
  fpc,     \* forwarder, of each session
  cfd, sfd,\* the descriptors in their locals
  rio,     \* webTalk's Rio buffer
  cmd,     \* the request line it has read
  tries,
  script,  \* what the far end of a connection will have sent
  sent,    \* how much it has
  inbox,   \* what arrived and was not read
  open,    \* the far end is open
  got      \* what the far end was given

locals == <<pc, fpc, cfd, sfd, rio, cmd, tries>>
ends == <<script, sent, inbox, open, got>>
vars == <<up, fds, locals, ends>>

Conns == {"client", "server"} \X Sessions
C(s) == <<"client", s>>
S(s) == <<"server", s>>
Closed == <<"closed">>
Lost == <<"lost">>      \* the socket of a connect that failed

Established == <<"200">>

Init ==
  /\ up = TRUE
  /\ fds = [n \in 1..Descriptors |-> Closed]
  /\ pc = [s \in Sessions |-> "none"] /\ fpc = [s \in Sessions |-> "none"]
  /\ cfd = [s \in Sessions |-> 0] /\ sfd = [s \in Sessions |-> 0]
  /\ rio = [s \in Sessions |-> <<>>] /\ cmd = [s \in Sessions |-> <<>>]
  /\ tries = [s \in Sessions |-> 0]
  /\ script = [c \in Conns |-> <<>>] /\ sent = [c \in Conns |-> <<>>]
  /\ inbox = [c \in Conns |-> <<>>] /\ got = [c \in Conns |-> <<>>]
  /\ open = [c \in Conns |-> FALSE]

Lowest(n) ==
  fds[n] = Closed /\ \A k \in 1..(n - 1) : fds[k] # Closed

NoneFree == \A n \in 1..Descriptors : fds[n] # Closed

-----------------------------------------------------------------------------
(* The far ends.                                                           *)

Sends(c) ==
  /\ open[c] /\ Len(sent[c]) < Len(script[c])
  /\ LET item == script[c][Len(sent[c]) + 1] IN
       /\ item[2] = "data" /\ c[1] = "client" => Established \in {got[c][k] : k \in DOMAIN got[c]}
       /\ sent' = [sent EXCEPT ![c] = Append(@, item)]
       /\ inbox' = [inbox EXCEPT ![c] = Append(@, item)]
  /\ UNCHANGED <<up, fds, locals, script, open, got>>

\* It closes.  If it had not read everything the connection is reset, and what
\* it sent last may be lost.
Leaves(c) ==
  /\ open[c]
  /\ open' = [open EXCEPT ![c] = FALSE]
  /\ \/ UNCHANGED <<sent, inbox>>
     \/ /\ sent' = [sent EXCEPT ![c] = SubSeq(@, 1, Len(@) - Len(inbox[c]))]
        /\ inbox' = [inbox EXCEPT ![c] = <<>>]
  /\ UNCHANGED <<up, fds, locals, script, got>>

-----------------------------------------------------------------------------
(* Reading and writing a descriptor.                                       *)

\* read returns what there is, or the end.
Readable(fd) == fds[fd] \in Conns /\ inbox[fds[fd]] # <<>>
AtEnd(fd) == fds[fd] \in Conns => inbox[fds[fd]] = <<>> /\ ~open[fds[fd]]

\* Rio_writen: what is written to a closed connection is gone, the error is
\* printed and ignored.
Given(fd, items) ==
  IF fds[fd] \in Conns /\ open[fds[fd]] THEN [got EXCEPT ![fds[fd]] = @ \o items] ELSE got

\* One turn of a loop of Rio_readp and Rio_writen.
Copy(from, to) ==
  /\ Readable(from)
  /\ got' = Given(to, inbox[fds[from]])
  /\ inbox' = [inbox EXCEPT ![fds[from]] = <<>>]
  /\ UNCHANGED <<script, sent, open>>

\* rio_read fills an empty buffer with what there is.
Refill(s) ==
  /\ pc[s] \in {"line", "head"} /\ rio[s] = <<>> /\ Readable(cfd[s])
  /\ rio' = [rio EXCEPT ![s] = inbox[fds[cfd[s]]]]
  /\ inbox' = [inbox EXCEPT ![fds[cfd[s]]] = <<>>]
  /\ UNCHANGED <<up, fds, pc, fpc, cfd, sfd, cmd, tries, script, sent, open, got>>

-----------------------------------------------------------------------------
(* main and webTalk.                                                       *)

\* A client connects, main accepts it and starts the thread.
Accept(s) ==
  /\ pc[s] = "none"
  /\ \E n \in 1..Descriptors :
       /\ Lowest(n)
       /\ fds' = [fds EXCEPT ![n] = C(s)]
       /\ cfd' = [cfd EXCEPT ![s] = n]
  /\ pc' = [pc EXCEPT ![s] = "line"]
  /\ open' = [open EXCEPT ![C(s)] = TRUE]
  /\ \E r \in Requests[s] : script' = [script EXCEPT ![C(s)] = [k \in DOMAIN r |-> <<s, r[k]>>]]
  /\ UNCHANGED <<up, fpc, sfd, rio, cmd, tries, sent, inbox, got>>

RequestLine(s) ==
  /\ pc[s] = "line" /\ rio[s] # <<>> /\ Head(rio[s])[2] \notin NoUrl
  /\ cmd' = [cmd EXCEPT ![s] = Head(rio[s])]
  /\ rio' = [rio EXCEPT ![s] = Tail(@)]
  /\ pc' = [pc EXCEPT ![s] = "open"]
  /\ UNCHANGED <<up, fds, fpc, cfd, sfd, tries, ends>>

\* The client has gone without a request, or its request line has no url:
\* strtok_r gives NULL, and parseAddress passes it to strstr or to atoi, which
\* is the end of the process.
NoRequest(s) ==
  /\ pc[s] = "line"
  /\ IF rio[s] = <<>> THEN AtEnd(cfd[s]) ELSE Head(rio[s])[2] \in NoUrl
  /\ up' = FALSE
  /\ UNCHANGED <<fds, locals, ends>>

\* open_clientfd succeeds.
Connect(s) ==
  /\ pc[s] = "open"
  /\ \E n \in 1..Descriptors :
       /\ Lowest(n)
       /\ fds' = [fds EXCEPT ![n] = S(s)]
       /\ sfd' = [sfd EXCEPT ![s] = n]
  /\ open' = [open EXCEPT ![S(s)] = TRUE]
  /\ \E r \in Responses[s] : script' = [script EXCEPT ![S(s)] = [k \in DOMAIN r |-> <<s, r[k]>>]]
  /\ pc' = [pc EXCEPT ![s] = "ask"]
  /\ UNCHANGED <<up, fpc, cfd, rio, cmd, tries, sent, inbox, got>>

\* It fails: the socket it made stays open.  After the last try the client is
\* closed.
ConnectFails(s) ==
  /\ pc[s] = "open"
  /\ LET lost == [n \in 1..Descriptors |-> IF Lowest(n) THEN Lost ELSE fds[n]] IN
     IF tries[s] < MaxTries
     THEN /\ tries' = [tries EXCEPT ![s] = @ + 1]
          /\ fds' = lost
          /\ UNCHANGED pc
     ELSE /\ fds' = [lost EXCEPT ![cfd[s]] = Closed]
          /\ pc' = [pc EXCEPT ![s] = "gone"]
          /\ UNCHANGED tries
  /\ UNCHANGED <<up, fpc, cfd, sfd, rio, cmd, ends>>

\* The request line goes to the server; or the answer to the client, and
\* secureTalk starts the forwarder; any other command is left alone, with its
\* descriptors.
Ask(s) ==
  /\ pc[s] = "ask"
  /\ \/ /\ cmd[s][2] = "get"
        /\ got' = Given(sfd[s], <<cmd[s]>>)
        /\ pc' = [pc EXCEPT ![s] = "head"]
        /\ UNCHANGED fpc
     \/ /\ cmd[s][2] = "connect"
        /\ got' = Given(cfd[s], <<Established>>)
        /\ pc' = [pc EXCEPT ![s] = "tunnel"]
        /\ fpc' = [fpc EXCEPT ![s] = "copy"]
     \/ /\ cmd[s][2] \notin {"get", "connect"}
        /\ pc' = [pc EXCEPT ![s] = "left"]
        /\ UNCHANGED <<fpc, got>>
  /\ UNCHANGED <<up, fds, cfd, sfd, rio, cmd, tries, script, sent, inbox, open>>

\* The client asks for one connection for several requests; the server is told
\* that there is one.
Passed(line) == IF line[2] = "keep-alive" THEN <<line[1], "close">> ELSE line

\* Mutant: both lines are sent.
HeadLine_Both(s) ==
  /\ pc[s] = "head" /\ rio[s] # <<>>
  /\ LET line == Head(rio[s]) IN
       /\ got' = Given(sfd[s], IF line[2] = "keep-alive" THEN <<Passed(line), line>> ELSE <<line>>)
       /\ pc' = [pc EXCEPT ![s] = IF line[2] = "end" THEN "relay" ELSE "head"]
  /\ rio' = [rio EXCEPT ![s] = Tail(@)]
  /\ UNCHANGED <<up, fds, fpc, cfd, sfd, cmd, tries, script, sent, inbox, open>>

HeadLine(s) ==
  /\ pc[s] = "head" /\ rio[s] # <<>>
  /\ LET line == Head(rio[s]) IN
       /\ got' = Given(sfd[s], <<Passed(line)>>)
       /\ pc' = [pc EXCEPT ![s] = IF line[2] = "end" THEN "relay" ELSE "head"]
  /\ rio' = [rio EXCEPT ![s] = Tail(@)]
  /\ UNCHANGED <<up, fds, fpc, cfd, sfd, cmd, tries, script, sent, inbox, open>>

\* The client has gone inside the head; the server is not told.
HeadEnds(s) ==
  /\ pc[s] = "head" /\ rio[s] = <<>> /\ AtEnd(cfd[s])
  /\ pc' = [pc EXCEPT ![s] = "relay"]
  /\ UNCHANGED <<up, fds, fpc, cfd, sfd, rio, cmd, tries, ends>>

\* The loop from the server to the client, of webTalk and of secureTalk.
ToClient(s) ==
  /\ pc[s] \in {"relay", "tunnel"}
  /\ Copy(sfd[s], cfd[s])
  /\ UNCHANGED <<up, fds, locals>>

\* Mutant: secureTalk returns without pthread_join.
ServerEnds_NoJoin(s) ==
  /\ pc[s] \in {"relay", "tunnel"} /\ AtEnd(sfd[s])
  /\ pc' = [pc EXCEPT ![s] = "close"]
  /\ UNCHANGED <<up, fds, fpc, cfd, sfd, rio, cmd, tries, ends>>

ServerEnds(s) ==
  /\ pc[s] \in {"relay", "tunnel"} /\ AtEnd(sfd[s])
  /\ pc' = [pc EXCEPT ![s] = IF @ = "relay" THEN "close" ELSE "join"]
  /\ UNCHANGED <<up, fds, fpc, cfd, sfd, rio, cmd, tries, ends>>

\* pthread_join.
Join(s) ==
  /\ pc[s] = "join" /\ fpc[s] = "done"
  /\ pc' = [pc EXCEPT ![s] = "close"]
  /\ UNCHANGED <<up, fds, fpc, cfd, sfd, rio, cmd, tries, ends>>

CloseServer(s) ==
  /\ pc[s] = "close"
  /\ fds' = [fds EXCEPT ![sfd[s]] = Closed]
  /\ pc' = [pc EXCEPT ![s] = "close2"]
  /\ UNCHANGED <<up, fpc, cfd, sfd, rio, cmd, tries, ends>>

CloseClient(s) ==
  /\ pc[s] = "close2"
  /\ fds' = [fds EXCEPT ![cfd[s]] = Closed]
  /\ pc' = [pc EXCEPT ![s] = "done"]
  /\ UNCHANGED <<up, fpc, cfd, sfd, rio, cmd, tries, ends>>

WebTalk(s) ==
  \/ Refill(s) \/ RequestLine(s) \/ NoRequest(s) \/ Connect(s) \/ ConnectFails(s)
  \/ Ask(s) \/ HeadLine(s) \/ HeadEnds(s) \/ ToClient(s) \/ ServerEnds(s)
  \/ Join(s) \/ CloseServer(s) \/ CloseClient(s)

-----------------------------------------------------------------------------
(* forwarder.                                                              *)

ToServer(s) ==
  /\ fpc[s] = "copy"
  /\ Copy(cfd[s], sfd[s])
  /\ UNCHANGED <<up, fds, locals>>

\* Mutant: the forwarder only stops on an error.
ClientEnds_Not(s) ==
  /\ fpc[s] = "copy" /\ AtEnd(cfd[s]) /\ fds[cfd[s]] = Closed
  /\ fpc' = [fpc EXCEPT ![s] = "done"]
  /\ UNCHANGED <<up, fds, pc, cfd, sfd, rio, cmd, tries, ends>>

ClientEnds(s) ==
  /\ fpc[s] = "copy" /\ AtEnd(cfd[s])
  /\ fpc' = [fpc EXCEPT ![s] = "done"]
  /\ UNCHANGED <<up, fds, pc, cfd, sfd, rio, cmd, tries, ends>>

Forwarder(s) == ToServer(s) \/ ClientEnds(s)

-----------------------------------------------------------------------------
Next ==
  /\ up
  /\ \E s \in Sessions :
       \/ Accept(s) \/ WebTalk(s) \/ Forwarder(s)
       \/ \E c \in {C(s), S(s)} : Sends(c) \/ Leaves(c)

\* The system runs every thread that can run.  Clients and servers may stop.
Spec ==
  /\ Init /\ [][Next]_vars
  /\ \A s \in Sessions : WF_vars(up /\ WebTalk(s)) /\ WF_vars(up /\ Forwarder(s))

-----------------------------------------------------------------------------
Items == Sessions \X Words

TypeOK ==
  /\ up \in BOOLEAN
  /\ fds \in [1..Descriptors -> Conns \cup {Closed, Lost}]
  /\ pc \in [Sessions -> {"none", "line", "open", "gone", "ask", "left", "head", "relay",
                          "tunnel", "join", "close", "close2", "done"}]
  /\ fpc \in [Sessions -> {"none", "copy", "done"}]
  /\ cfd \in [Sessions -> 0..Descriptors] /\ sfd \in [Sessions -> 0..Descriptors]
  /\ rio \in [Sessions -> Seq(Items)] /\ cmd \in [Sessions -> Items \cup {<<>>}]
  /\ tries \in [Sessions -> 0..MaxTries]
  /\ script \in [Conns -> Seq(Items)] /\ sent \in [Conns -> Seq(Items)]
  /\ inbox \in [Conns -> Seq(Items)] /\ got \in [Conns -> Seq(Items \cup {Established})]
  /\ open \in [Conns -> BOOLEAN]

\* Where webTalk still has the client's descriptor, and the server's.
HasClient == {"line", "open", "ask", "head", "relay", "tunnel", "join", "close", "close2", "left"}
HasServer == {"ask", "head", "relay", "tunnel", "join", "close", "left"}

\* Descriptors are numbers, and a number that was closed is given out again.
\* As long as a thread may use one it is that of its own session, and a session
\* that is over holds none: only a command that is neither GET nor CONNECT, and
\* a connect that failed, leave any open.
OwnDescriptors ==
  /\ \A s \in Sessions :
       /\ pc[s] \in HasClient => cfd[s] > 0 /\ fds[cfd[s]] = C(s)
       /\ pc[s] \in HasServer => sfd[s] > 0 /\ fds[sfd[s]] = S(s)
       /\ fpc[s] = "copy" => pc[s] \in {"tunnel", "join"}
  /\ \A n \in 1..Descriptors : \A s \in Sessions :
       /\ fds[n] = C(s) => cfd[s] = n /\ pc[s] \in HasClient
       /\ fds[n] = S(s) => sfd[s] = n /\ pc[s] \in HasServer

PassedAll(items) == [k \in DOMAIN items |-> Passed(items[k])]

\* Nothing is lost, repeated, reordered or given to another session.  Of what a
\* client sends, the request line is in cmd, the lines behind it may be in the
\* buffer, and the rest was given to the server or is unread; what the buffer
\* holds when a tunnel starts is never passed on, so a head that arrived with
\* the request line is not, and one that arrives later is.  What a server sends
\* the client is given, after the answer to a CONNECT.
RightBytes ==
  \A s \in Sessions :
    /\ (open[S(s)] /\ pc[s] # "left") =>
         IF pc[s] \in {"ask", "tunnel", "join"}
         THEN sent[C(s)] = <<cmd[s]>> \o rio[s] \o got[S(s)] \o inbox[C(s)]
         ELSE PassedAll(sent[C(s)]) = got[S(s)] \o PassedAll(rio[s]) \o PassedAll(inbox[C(s)])
    /\ open[C(s)] =>
         got[C(s)] \o inbox[S(s)] =
           (IF fpc[s] # "none" THEN <<Established>> ELSE <<>>) \o sent[S(s)]

\* A session comes to its end, and its client is told, once its server has
\* closed and the client has too, although neither thread hears from the other:
\* both loops meet the end of their input and the join is over.  A client that
\* waits for the answer to a GET need not have closed; in a tunnel it must.
SessionEnds ==
  \A s \in Sessions :
    (pc[s] # "none" /\ ~open[S(s)] /\ (~open[C(s)] \/ pc[s] = "relay"))
      ~> (~up \/ open[S(s)] \/ pc[s] \in {"gone", "left", "done"})
=============================================================================
