---------------------------- MODULE TunnelProofs ----------------------------
(***************************************************************************)
(* The simplified proxy, for any number of sessions, descriptors and       *)
(* tries, and whatever clients and servers send: what a descriptor and a   *)
(* session hold, and what becomes of the bytes that are read.              *)
(***************************************************************************)
EXTENDS Tunnel, SequenceTheorems, TLAPS

-----------------------------------------------------------------------------
(***************************************************************************)
(* Types.                                                                  *)
(***************************************************************************)
Answers == Items \cup {Established}

\* Items with a number of the session that sends them.
LEMMA Stamped ==
    ASSUME NEW s \in Sessions, NEW r \in Seq(Words)
    PROVE  [k \in DOMAIN r |-> <<s, r[k]>>] \in Seq(Items)
<1>1. Len(r) \in Nat /\ DOMAIN r = 1 .. Len(r) /\ \A k \in 1 .. Len(r) : r[k] \in Words
  BY ElementOfSeq, LenProperties
<1>2. \A k \in DOMAIN r : <<s, r[k]>> \in Items
  BY <1>1 DEF Items
<1> QED
  BY <1>1, <1>2, IsASeq

LEMMA ItemsAreAnswers == \A q \in Seq(Items) : q \in Seq(Answers)
BY SeqMonotonic DEF Answers

LEMMA GivenType ==
    ASSUME TypeOK, NEW fd, NEW items \in Seq(Answers)
    PROVE  Given(fd, items) \in [Conns -> Seq(Answers)]
<1>1. got \in [Conns -> Seq(Answers)]
  BY DEF TypeOK, Answers
<1>2. \A c \in Conns : got[c] \o items \in Seq(Answers)
  BY <1>1, ConcatProperties
<1> QED
  BY <1>1, <1>2 DEF Given

LEMMA One == \A x \in Answers : <<x>> \in Seq(Answers)
OBVIOUS

LEMMA PassedType == \A i \in Items : Passed(i) \in Items
BY DEF Passed, Items, Words

LEMMA CopyType ==
    ASSUME TypeOK, NEW from, NEW to, Copy(from, to), UNCHANGED <<up, fds, locals>>
    PROVE  TypeOK'
<1>1. /\ fds[from] \in Conns /\ got' = Given(to, inbox[fds[from]])
      /\ inbox' = [inbox EXCEPT ![fds[from]] = <<>>] /\ UNCHANGED <<script, sent, open>>
  BY DEF Copy, Readable
<1>2. inbox[fds[from]] \in Seq(Answers) /\ <<>> \in Seq(Items)
  BY <1>1, ItemsAreAnswers, EmptySeq DEF TypeOK
<1>3. got' \in [Conns -> Seq(Answers)]
  BY <1>1, <1>2, GivenType
<1>4. inbox' \in [Conns -> Seq(Items)]
  BY <1>1, <1>2 DEF TypeOK
<1> QED
  BY <1>1, <1>3, <1>4 DEF TypeOK, locals, Answers

LEMMA SendsType == ASSUME TypeOK, NEW c \in Conns, Sends(c) PROVE TypeOK'
<1> DEFINE item == script[c][Len(sent[c]) + 1]
<1>1. /\ Len(sent[c]) < Len(script[c])
      /\ sent' = [sent EXCEPT ![c] = Append(@, item)]
      /\ inbox' = [inbox EXCEPT ![c] = Append(@, item)]
      /\ UNCHANGED <<up, fds, locals, script, open, got>>
  BY DEF Sends
<1>2. script[c] \in Seq(Items) /\ sent[c] \in Seq(Items) /\ inbox[c] \in Seq(Items)
  BY DEF TypeOK
<1>3. item \in Items
  BY <1>1, <1>2, ElementOfSeq, LenProperties
<1>4. Append(sent[c], item) \in Seq(Items) /\ Append(inbox[c], item) \in Seq(Items)
  BY <1>2, <1>3, AppendProperties
<1>5. sent' \in [Conns -> Seq(Items)] /\ inbox' \in [Conns -> Seq(Items)]
  BY <1>1, <1>4 DEF TypeOK
<1> QED
  BY <1>1, <1>5 DEF TypeOK, locals

LEMMA LeavesType == ASSUME TypeOK, NEW c \in Conns, Leaves(c) PROVE TypeOK'
<1>1. /\ open' = [open EXCEPT ![c] = FALSE] /\ UNCHANGED <<up, fds, locals, script, got>>
      /\ \/ UNCHANGED <<sent, inbox>>
         \/ /\ sent' = [sent EXCEPT ![c] = SubSeq(@, 1, Len(@) - Len(inbox[c]))]
            /\ inbox' = [inbox EXCEPT ![c] = <<>>]
  BY DEF Leaves
<1>2. sent[c] \in Seq(Items) /\ inbox[c] \in Seq(Items)
  BY DEF TypeOK
<1>3. SubSeq(sent[c], 1, Len(sent[c]) - Len(inbox[c])) \in Seq(Items)
  <2>1. PICK a \in Nat : a = Len(sent[c]) /\ \A k \in 1 .. a : sent[c][k] \in Items
    BY <1>2, ElementOfSeq, LenProperties
  <2>2. PICK b \in Nat : b = Len(inbox[c])
    BY <1>2, LenProperties
  <2>3. a - b \in Int /\ \A k \in 1 .. (a - b) : sent[c][k] \in Items
    BY <2>1
  <2>4. SubSeq(sent[c], 1, a - b) \in Seq(Items)
    BY <2>3, SubSeqProperties
  <2> QED
    BY <2>1, <2>2, <2>4
<1>4. sent' \in [Conns -> Seq(Items)] /\ inbox' \in [Conns -> Seq(Items)]
  <2>1. sent \in [Conns -> Seq(Items)] /\ inbox \in [Conns -> Seq(Items)] /\ <<>> \in Seq(Items)
    BY EmptySeq DEF TypeOK
  <2> DEFINE r == SubSeq(sent[c], 1, Len(sent[c]) - Len(inbox[c]))
  <2>2. \/ UNCHANGED <<sent, inbox>>
        \/ sent' = [sent EXCEPT ![c] = r] /\ inbox' = [inbox EXCEPT ![c] = <<>>]
    BY <1>1
  <2>3. r \in Seq(Items)
    BY <1>3
  <2> HIDE DEF r
  <2> QED
    BY <2>1, <2>2, <2>3
<1> QED
  BY <1>1, <1>4 DEF TypeOK, locals

\* main, and webTalk until it has asked.
LEMMA StartType ==
    ASSUME TypeOK, NEW s \in Sessions,
           Accept(s) \/ Refill(s) \/ RequestLine(s) \/ NoRequest(s) \/ Connect(s) \/ ConnectFails(s)
    PROVE  TypeOK'
<1>1. CASE Accept(s) \/ Connect(s)
  <2>1. PICK n \in 1 .. Descriptors, c \in {C(s), S(s)}, r \in Requests[s] \cup Responses[s] :
          /\ fds' = [fds EXCEPT ![n] = c] /\ open' = [open EXCEPT ![c] = TRUE]
          /\ script' = [script EXCEPT ![c] = [k \in DOMAIN r |-> <<s, r[k]>>]]
          /\ \/ pc' = [pc EXCEPT ![s] = "line"] /\ cfd' = [cfd EXCEPT ![s] = n] /\ UNCHANGED sfd
             \/ pc' = [pc EXCEPT ![s] = "ask"] /\ sfd' = [sfd EXCEPT ![s] = n] /\ UNCHANGED cfd
          /\ UNCHANGED <<up, fpc, rio, cmd, tries, sent, inbox, got>>
    BY <1>1 DEF Accept, Connect
  <2>2. c \in Conns
    BY DEF C, S, Conns
  <2>3. r \in Seq(Words)
    BY TunnelAssumption
  <2>4. script' \in [Conns -> Seq(Items)]
    BY <2>1, <2>2, <2>3, Stamped DEF TypeOK
  <2>5. n \in 0 .. Descriptors
    BY TunnelAssumption
  <2>6. /\ fds' \in [1 .. Descriptors -> Conns \cup {Closed, Lost}]
        /\ open' \in [Conns -> BOOLEAN]
    BY <2>1, <2>2 DEF TypeOK
  <2>7. /\ pc' \in [Sessions -> {"none", "line", "open", "gone", "ask", "left", "head", "relay",
                                 "tunnel", "join", "close", "close2", "done"}]
        /\ cfd' \in [Sessions -> 0 .. Descriptors]
        /\ sfd' \in [Sessions -> 0 .. Descriptors]
    BY <2>1, <2>5 DEF TypeOK
  <2> QED
    BY <2>1, <2>4, <2>6, <2>7 DEF TypeOK
<1>2. CASE Refill(s)
  <2>1. fds[cfd[s]] \in Conns /\ <<>> \in Seq(Items)
    BY <1>2, EmptySeq DEF Refill, Readable
  <2> QED
    BY <1>2, <2>1 DEF Refill, TypeOK
<1>3. CASE RequestLine(s)
  <2>1. Head(rio[s]) \in Items /\ Tail(rio[s]) \in Seq(Items)
    BY <1>3, HeadTailProperties DEF RequestLine, TypeOK
  <2> QED
    BY <1>3, <2>1 DEF RequestLine, TypeOK, ends
<1>4. CASE NoRequest(s)
  BY <1>4 DEF NoRequest, TypeOK, locals, ends
<1>5. CASE ConnectFails(s)
  <2> DEFINE lost == [n \in 1 .. Descriptors |-> IF Lowest(n) THEN Lost ELSE fds[n]]
  <2>1. lost \in [1 .. Descriptors -> Conns \cup {Closed, Lost}]
    BY DEF TypeOK
  <2> HIDE DEF lost
  <2>2. /\ fds' \in {lost, [lost EXCEPT ![cfd[s]] = Closed]}
        /\ tries' = tries \/ (tries[s] < MaxTries /\ tries' = [tries EXCEPT ![s] = @ + 1])
        /\ pc' = pc \/ pc' = [pc EXCEPT ![s] = "gone"]
        /\ UNCHANGED <<up, fpc, cfd, sfd, rio, cmd, ends>>
    BY <1>5 DEF ConnectFails, lost
  <2>3. fds' \in [1 .. Descriptors -> Conns \cup {Closed, Lost}]
    BY <2>1, <2>2
  <2>4. tries' \in [Sessions -> 0 .. MaxTries]
    <3>1. tries \in [Sessions -> 0 .. MaxTries] /\ MaxTries \in Nat
      BY TunnelAssumption DEF TypeOK
    <3>2. tries[s] < MaxTries => tries[s] + 1 \in 0 .. MaxTries
      BY <3>1
    <3> QED
      BY <2>2, <3>1, <3>2
  <2> QED
    BY <2>2, <2>3, <2>4 DEF TypeOK, ends
<1> QED
  BY <1>1, <1>2, <1>3, <1>4, <1>5

\* Who has read a line knows what was asked.
Asked == \A s \in Sessions : pc[s] \notin {"none", "line"} => cmd[s] \in Items

LEMMA AskType == ASSUME TypeOK, Asked, NEW s \in Sessions, Ask(s) PROVE TypeOK'
<1>1. /\ \/ got' = Given(sfd[s], <<cmd[s]>>)
         \/ got' = Given(cfd[s], <<Established>>)
         \/ got' = got
      /\ \E x \in {"head", "tunnel", "left"} : pc' = [pc EXCEPT ![s] = x]
      /\ fpc' = fpc \/ fpc' = [fpc EXCEPT ![s] = "copy"]
      /\ UNCHANGED <<up, fds, cfd, sfd, rio, cmd, tries, script, sent, inbox, open>>
  <2>1. \/ got' = Given(sfd[s], <<cmd[s]>>) /\ pc' = [pc EXCEPT ![s] = "head"] /\ fpc' = fpc
        \/ /\ got' = Given(cfd[s], <<Established>>) /\ pc' = [pc EXCEPT ![s] = "tunnel"]
           /\ fpc' = [fpc EXCEPT ![s] = "copy"]
        \/ got' = got /\ pc' = [pc EXCEPT ![s] = "left"] /\ fpc' = fpc
    BY DEF Ask
  <2>2. UNCHANGED <<up, fds, cfd, sfd, rio, cmd, tries, script, sent, inbox, open>>
    BY DEF Ask
  <2> QED
    BY <2>1, <2>2
<1>2. cmd[s] \in Answers /\ Established \in Answers
  BY DEF Ask, Asked, Answers
<1>3. <<cmd[s]>> \in Seq(Answers) /\ <<Established>> \in Seq(Answers)
  BY <1>2, One
<1>4. got' \in [Conns -> Seq(Answers)]
  <2>1. got \in [Conns -> Seq(Answers)]
    BY DEF TypeOK, Answers
  <2>2. /\ Given(sfd[s], <<cmd[s]>>) \in [Conns -> Seq(Answers)]
        /\ Given(cfd[s], <<Established>>) \in [Conns -> Seq(Answers)]
    BY <1>3, GivenType
  <2> QED
    BY <1>1, <2>1, <2>2
<1>5. pc' \in [Sessions -> {"none", "line", "open", "gone", "ask", "left", "head", "relay",
                            "tunnel", "join", "close", "close2", "done"}]
  BY <1>1 DEF TypeOK
<1>6. fpc' \in [Sessions -> {"none", "copy", "done"}]
  BY <1>1 DEF TypeOK
<1> QED
  BY <1>1, <1>4, <1>5, <1>6 DEF TypeOK, Answers

LEMMA HeadLineType == ASSUME TypeOK, NEW s \in Sessions, HeadLine(s) PROVE TypeOK'
<1>1. Head(rio[s]) \in Items /\ Tail(rio[s]) \in Seq(Items)
  BY HeadTailProperties DEF HeadLine, TypeOK
<1>2. <<Passed(Head(rio[s]))>> \in Seq(Answers)
  BY <1>1, PassedType, One DEF Answers
<1>3. /\ got' = Given(sfd[s], <<Passed(Head(rio[s]))>>)
      /\ \E x \in {"relay", "head"} : pc' = [pc EXCEPT ![s] = x]
      /\ rio' = [rio EXCEPT ![s] = Tail(@)]
      /\ UNCHANGED <<up, fds, fpc, cfd, sfd, cmd, tries, script, sent, inbox, open>>
  BY DEF HeadLine
<1>4. got' \in [Conns -> Seq(Answers)]
  BY <1>2, <1>3, GivenType
<1> QED
  BY <1>1, <1>3, <1>4 DEF TypeOK, Answers

LEMMA EndType ==
    ASSUME TypeOK, NEW s \in Sessions,
           HeadEnds(s) \/ ServerEnds(s) \/ Join(s) \/ CloseServer(s) \/ CloseClient(s) \/ ClientEnds(s)
    PROVE  TypeOK'
<1>1. /\ \/ pc' = pc
         \/ \E x \in {"relay", "close", "join", "close2", "done"} : pc' = [pc EXCEPT ![s] = x]
      /\ fpc' = fpc \/ fpc' = [fpc EXCEPT ![s] = "done"]
      /\ fds' = fds \/ \E n : fds' = [fds EXCEPT ![n] = Closed]
      /\ UNCHANGED <<up, cfd, sfd, rio, cmd, tries, ends>>
  BY DEF HeadEnds, ServerEnds, Join, CloseServer, CloseClient, ClientEnds
<1>2. pc' \in [Sessions -> {"none", "line", "open", "gone", "ask", "left", "head", "relay",
                            "tunnel", "join", "close", "close2", "done"}]
  BY <1>1 DEF TypeOK
<1> QED
  BY <1>1, <1>2 DEF TypeOK, ends

LEMMA TypeNext == ASSUME TypeOK, Asked, [Next]_vars PROVE TypeOK'
<1>1. CASE UNCHANGED vars
  BY <1>1 DEF vars, locals, ends, TypeOK
<1>2. ASSUME NEW s \in Sessions, NEW c \in {C(s), S(s)}, Sends(c) \/ Leaves(c) PROVE TypeOK'
  <2>1. c \in Conns
    BY DEF C, S, Conns
  <2> QED
    BY <1>2, <2>1, SendsType, LeavesType
<1>3. ASSUME NEW s \in Sessions, ToClient(s) \/ ToServer(s) PROVE TypeOK'
  BY <1>3, CopyType DEF ToClient, ToServer
<1>4. ASSUME NEW s \in Sessions, Accept(s) \/ WebTalk(s) \/ Forwarder(s) PROVE TypeOK'
  BY <1>3, <1>4, StartType, AskType, HeadLineType, EndType DEF WebTalk, Forwarder
<1> QED
  BY <1>1, <1>2, <1>4 DEF Next

-----------------------------------------------------------------------------
(***************************************************************************)
(* Descriptors.                                                            *)
(***************************************************************************)
LEMMA OtherConns ==
    ASSUME NEW s \in Sessions, NEW t \in Sessions
    PROVE  /\ C(s) # S(t) /\ (s # t => C(s) # C(t) /\ S(s) # S(t))
           /\ C(s) # Closed /\ S(s) # Closed /\ C(s) # Lost /\ S(s) # Lost
           /\ C(s) \in Conns /\ S(s) \in Conns
BY DEF C, S, Closed, Lost, Conns

\* No thread gets, gives up or closes a descriptor.
LEMMA SameDescriptors ==
    ASSUME OwnDescriptors, UNCHANGED <<fds, cfd, sfd>>,
           \A t \in Sessions :
             /\ pc'[t] \in HasClient <=> pc[t] \in HasClient
             /\ pc'[t] \in HasServer <=> pc[t] \in HasServer
             /\ fpc'[t] = "copy" => pc'[t] \in {"tunnel", "join"}
    PROVE  OwnDescriptors'
BY DEF OwnDescriptors, C, S

LEMMA AcceptDescriptors ==
    ASSUME TypeOK, OwnDescriptors, NEW s \in Sessions, Accept(s) PROVE OwnDescriptors'
<1>1. PICK n \in 1 .. Descriptors :
        fds[n] = Closed /\ fds' = [fds EXCEPT ![n] = C(s)] /\ cfd' = [cfd EXCEPT ![s] = n]
  BY DEF Accept, Lowest
<1>2. pc[s] = "none" /\ pc' = [pc EXCEPT ![s] = "line"] /\ UNCHANGED <<sfd, fpc>>
  BY DEF Accept
<1>3. n > 0 /\ n \in Nat
  BY TunnelAssumption
<1>4. pc[s] \notin HasClient /\ pc[s] \notin HasServer /\ "line" \in HasClient /\ "line" \notin HasServer
  BY <1>2 DEF HasClient, HasServer
<1>5. /\ DOMAIN fds = 1 .. Descriptors /\ DOMAIN pc = Sessions /\ DOMAIN cfd = Sessions
  BY DEF TypeOK
<1>6. ASSUME NEW t \in Sessions
      PROVE  /\ pc'[t] \in HasClient => cfd'[t] > 0 /\ fds'[cfd'[t]] = C(t)
             /\ pc'[t] \in HasServer => sfd'[t] > 0 /\ fds'[sfd'[t]] = S(t)
             /\ fpc'[t] = "copy" => pc'[t] \in {"tunnel", "join"}
  BY <1>1, <1>2, <1>3, <1>4, <1>5, OtherConns DEF OwnDescriptors
<1>7. ASSUME NEW m \in 1 .. Descriptors, NEW t \in Sessions
      PROVE  /\ fds'[m] = C(t) => cfd'[t] = m /\ pc'[t] \in HasClient
             /\ fds'[m] = S(t) => sfd'[t] = m /\ pc'[t] \in HasServer
  BY <1>1, <1>2, <1>4, <1>5, OtherConns DEF OwnDescriptors
<1> QED
  BY <1>6, <1>7 DEF OwnDescriptors, C, S

LEMMA ConnectDescriptors ==
    ASSUME TypeOK, OwnDescriptors, NEW s \in Sessions, Connect(s) PROVE OwnDescriptors'
<1>1. PICK n \in 1 .. Descriptors :
        fds[n] = Closed /\ fds' = [fds EXCEPT ![n] = S(s)] /\ sfd' = [sfd EXCEPT ![s] = n]
  BY DEF Connect, Lowest
<1>2. pc[s] = "open" /\ pc' = [pc EXCEPT ![s] = "ask"] /\ UNCHANGED <<cfd, fpc>>
  BY DEF Connect
<1>3. n > 0 /\ n \in Nat
  BY TunnelAssumption
<1>4. pc[s] \in HasClient /\ pc[s] \notin HasServer /\ "ask" \in HasClient /\ "ask" \in HasServer
  BY <1>2 DEF HasClient, HasServer
<1>5. /\ DOMAIN fds = 1 .. Descriptors /\ DOMAIN pc = Sessions /\ DOMAIN sfd = Sessions
  BY DEF TypeOK
<1>6. ASSUME NEW t \in Sessions
      PROVE  /\ pc'[t] \in HasClient => cfd'[t] > 0 /\ fds'[cfd'[t]] = C(t)
             /\ pc'[t] \in HasServer => sfd'[t] > 0 /\ fds'[sfd'[t]] = S(t)
             /\ fpc'[t] = "copy" => pc'[t] \in {"tunnel", "join"}
  BY <1>1, <1>2, <1>3, <1>4, <1>5, OtherConns DEF OwnDescriptors
<1>7. ASSUME NEW m \in 1 .. Descriptors, NEW t \in Sessions
      PROVE  /\ fds'[m] = C(t) => cfd'[t] = m /\ pc'[t] \in HasClient
             /\ fds'[m] = S(t) => sfd'[t] = m /\ pc'[t] \in HasServer
  BY <1>1, <1>2, <1>4, <1>5, OtherConns DEF OwnDescriptors
<1> QED
  BY <1>6, <1>7 DEF OwnDescriptors, C, S

LEMMA FailedDescriptors ==
    ASSUME TypeOK, OwnDescriptors, NEW s \in Sessions, ConnectFails(s) PROVE OwnDescriptors'
<1> DEFINE lost == [n \in 1 .. Descriptors |-> IF Lowest(n) THEN Lost ELSE fds[n]]
<1>1. /\ pc[s] = "open" /\ UNCHANGED <<fpc, cfd, sfd>>
      /\ \/ fds' = lost /\ pc' = pc
         \/ fds' = [lost EXCEPT ![cfd[s]] = Closed] /\ pc' = [pc EXCEPT ![s] = "gone"]
  BY DEF ConnectFails
<1>2. pc[s] \in HasClient /\ pc[s] \notin HasServer /\ "gone" \notin HasClient /\ "gone" \notin HasServer
  BY <1>1 DEF HasClient, HasServer
<1>3. /\ DOMAIN fds = 1 .. Descriptors /\ DOMAIN pc = Sessions
      /\ cfd \in [Sessions -> 0 .. Descriptors] /\ sfd \in [Sessions -> 0 .. Descriptors]
  BY DEF TypeOK
<1>4. /\ DOMAIN lost = 1 .. Descriptors
      /\ \A n \in 1 .. Descriptors : \A t \in Sessions :
           /\ lost[n] = C(t) <=> fds[n] = C(t)
           /\ lost[n] = S(t) <=> fds[n] = S(t)
  BY OtherConns DEF Lowest
<1> HIDE DEF lost
<1>5. /\ DOMAIN fds' = 1 .. Descriptors
      /\ \A n \in 1 .. Descriptors : \A t \in Sessions :
           n # cfd[s] \/ pc' = pc => /\ fds'[n] = C(t) <=> fds[n] = C(t)
                                     /\ fds'[n] = S(t) <=> fds[n] = S(t)
      /\ \A t \in Sessions : pc' # pc => fds'[cfd[s]] # C(t) /\ fds'[cfd[s]] # S(t)
  <2>1. CASE fds' = lost /\ pc' = pc
    BY <1>4, <2>1
  <2>2. CASE fds' = [lost EXCEPT ![cfd[s]] = Closed]
    <3>1. DOMAIN fds' = 1 .. Descriptors /\ \A n \in 1 .. Descriptors :
            fds'[n] = IF n = cfd[s] THEN Closed ELSE lost[n]
      BY <1>4, <2>2
    <3>2. cfd[s] \in 1 .. Descriptors
      BY <1>2, <1>3, TunnelAssumption DEF OwnDescriptors
    <3>3. pc' # pc
      <4>1. pc'[s] # pc[s]
        BY <1>1, <1>3, <2>2, <3>1, <3>2, <1>4, OtherConns DEF OwnDescriptors, HasClient
      <4> QED
        BY <4>1
    <3> QED
      BY <1>4, <3>1, <3>2, <3>3, OtherConns
  <2> QED
    BY <1>1, <2>1, <2>2
<1>6. cfd[s] \in 1 .. Descriptors /\ fds[cfd[s]] = C(s)
  BY <1>2, <1>3, TunnelAssumption DEF OwnDescriptors
<1>7. ASSUME NEW t \in Sessions
      PROVE  /\ pc'[t] \in HasClient => cfd'[t] > 0 /\ fds'[cfd'[t]] = C(t)
             /\ pc'[t] \in HasServer => sfd'[t] > 0 /\ fds'[sfd'[t]] = S(t)
             /\ fpc'[t] = "copy" => pc'[t] \in {"tunnel", "join"}
  <2>1. CASE t = s
    BY <1>1, <1>2, <1>3, <1>5, <1>6, <2>1 DEF OwnDescriptors
  <2>2. CASE t # s
    <3>1. pc'[t] = pc[t]
      BY <1>1, <1>3, <2>2
    <3>2. pc[t] \in HasClient => /\ cfd[t] \in 1 .. Descriptors /\ fds[cfd[t]] = C(t)
                                 /\ cfd[t] # cfd[s]
      BY <1>3, <1>6, <2>2, OtherConns, TunnelAssumption DEF OwnDescriptors
    <3>3. pc[t] \in HasServer => /\ sfd[t] \in 1 .. Descriptors /\ fds[sfd[t]] = S(t)
                                 /\ sfd[t] # cfd[s]
      BY <1>3, <1>6, <2>2, OtherConns, TunnelAssumption DEF OwnDescriptors
    <3> QED
      BY <1>1, <1>5, <3>1, <3>2, <3>3 DEF OwnDescriptors
  <2> QED
    BY <2>1, <2>2
<1>8. ASSUME NEW m \in 1 .. Descriptors, NEW t \in Sessions
      PROVE  /\ fds'[m] = C(t) => cfd'[t] = m /\ pc'[t] \in HasClient
             /\ fds'[m] = S(t) => sfd'[t] = m /\ pc'[t] \in HasServer
  BY <1>1, <1>2, <1>3, <1>5, <1>6, OtherConns DEF OwnDescriptors
<1> QED
  BY <1>7, <1>8 DEF OwnDescriptors, C, S

LEMMA CloseDescriptors ==
    ASSUME TypeOK, OwnDescriptors, NEW s \in Sessions, CloseServer(s) \/ CloseClient(s)
    PROVE  OwnDescriptors'
<1>1. /\ UNCHANGED <<fpc, cfd, sfd>>
      /\ \/ pc[s] = "close" /\ fds' = [fds EXCEPT ![sfd[s]] = Closed] /\ pc' = [pc EXCEPT ![s] = "close2"]
         \/ pc[s] = "close2" /\ fds' = [fds EXCEPT ![cfd[s]] = Closed] /\ pc' = [pc EXCEPT ![s] = "done"]
  BY DEF CloseServer, CloseClient
<1>2. /\ DOMAIN fds = 1 .. Descriptors /\ DOMAIN pc = Sessions
      /\ cfd \in [Sessions -> 0 .. Descriptors] /\ sfd \in [Sessions -> 0 .. Descriptors]
  BY DEF TypeOK
<1>3. fpc[s] # "copy"
  BY <1>1 DEF OwnDescriptors
<1>4. ASSUME NEW t \in Sessions, t # s
      PROVE  /\ pc'[t] = pc[t]
             /\ pc[t] \in HasClient => cfd[t] \in 1 .. Descriptors /\ fds'[cfd[t]] = C(t) /\ cfd[t] > 0
             /\ pc[t] \in HasServer => sfd[t] \in 1 .. Descriptors /\ fds'[sfd[t]] = S(t) /\ sfd[t] > 0
  <2>1. pc'[t] = pc[t]
    BY <1>1, <1>2, <1>4
  <2>2. PICK n \in {sfd[s], cfd[s]} :
          fds' = [fds EXCEPT ![n] = Closed] /\ fds[n] \in {S(s), C(s)}
    BY <1>1 DEF OwnDescriptors, HasClient, HasServer
  <2>3. pc[t] \in HasClient => cfd[t] \in 1 .. Descriptors /\ fds[cfd[t]] = C(t) /\ cfd[t] > 0
    BY <1>2, TunnelAssumption DEF OwnDescriptors
  <2>4. pc[t] \in HasServer => sfd[t] \in 1 .. Descriptors /\ fds[sfd[t]] = S(t) /\ sfd[t] > 0
    BY <1>2, TunnelAssumption DEF OwnDescriptors
  <2>5. \A k \in 1 .. Descriptors : k # n => fds'[k] = fds[k]
    BY <1>2, <2>2
  <2>6. C(t) # fds[n] /\ S(t) # fds[n]
    BY <1>4, <2>2, OtherConns
  <2> QED
    BY <2>1, <2>3, <2>4, <2>5, <2>6
<1>5. ASSUME pc[s] = "close"
      PROVE  cfd[s] > 0 /\ fds'[cfd[s]] = C(s) /\ pc'[s] = "close2"
  BY <1>1, <1>2, <1>5, OtherConns, TunnelAssumption DEF OwnDescriptors, HasClient, HasServer
<1>6. ASSUME NEW t \in Sessions
      PROVE  /\ pc'[t] \in HasClient => cfd'[t] > 0 /\ fds'[cfd'[t]] = C(t)
             /\ pc'[t] \in HasServer => sfd'[t] > 0 /\ fds'[sfd'[t]] = S(t)
             /\ fpc'[t] = "copy" => pc'[t] \in {"tunnel", "join"}
  <2>1. CASE t = s
    BY <1>1, <1>2, <1>3, <1>5, <2>1 DEF HasClient, HasServer
  <2>2. CASE t # s
    BY <1>1, <1>4, <2>2 DEF OwnDescriptors
  <2> QED
    BY <2>1, <2>2
<1>7. ASSUME NEW m \in 1 .. Descriptors, NEW t \in Sessions
      PROVE  /\ fds'[m] = C(t) => cfd'[t] = m /\ pc'[t] \in HasClient
             /\ fds'[m] = S(t) => sfd'[t] = m /\ pc'[t] \in HasServer
  <2>1. /\ fds'[m] = C(t) => fds[m] = C(t) /\ cfd[t] = m /\ pc[t] \in HasClient
        /\ fds'[m] = S(t) => fds[m] = S(t) /\ sfd[t] = m /\ pc[t] \in HasServer
    <3>1. fds'[m] = fds[m] \/ fds'[m] = Closed
      BY <1>1, <1>2
    <3> QED
      BY <3>1, OtherConns DEF OwnDescriptors
  <2>2. CASE t # s
    BY <1>1, <1>4, <2>1, <2>2
  <2>3. CASE t = s /\ pc[s] = "close"
    BY <1>1, <1>2, <2>1, <2>3, OtherConns DEF HasClient
  <2>4. CASE t = s /\ pc[s] = "close2"
    BY <1>1, <1>2, <2>1, <2>4, OtherConns DEF HasServer
  <2> QED
    BY <1>1, <2>2, <2>3, <2>4
<1> QED
  BY <1>6, <1>7 DEF OwnDescriptors, C, S

LEMMA DescriptorsNext == ASSUME TypeOK, OwnDescriptors, [Next]_vars PROVE OwnDescriptors'
<1>0. DOMAIN pc = Sessions /\ DOMAIN fpc = Sessions
  BY DEF TypeOK
<1>1. CASE UNCHANGED vars
  BY <1>1, SameDescriptors DEF vars, locals, OwnDescriptors
<1>2. ASSUME NEW s \in Sessions, NEW c \in {C(s), S(s)}, Sends(c) \/ Leaves(c)
      PROVE  OwnDescriptors'
  BY <1>2, SameDescriptors DEF Sends, Leaves, locals, OwnDescriptors
<1>3. ASSUME NEW s \in Sessions, Refill(s) \/ NoRequest(s) \/ ToClient(s) \/ ToServer(s)
      PROVE  OwnDescriptors'
  BY <1>3, SameDescriptors DEF Refill, NoRequest, ToClient, ToServer, locals, OwnDescriptors
<1>4. ASSUME NEW s \in Sessions,
             \/ RequestLine(s) \/ Ask(s) \/ HeadLine(s) \/ HeadEnds(s) \/ ServerEnds(s)
             \/ Join(s) \/ ClientEnds(s)
      PROVE  OwnDescriptors'
  <2>1. /\ UNCHANGED <<fds, cfd, sfd>>
        /\ \A t \in Sessions \ {s} : pc'[t] = pc[t] /\ fpc'[t] = fpc[t]
    BY <1>0, <1>4 DEF RequestLine, Ask, HeadLine, HeadEnds, ServerEnds, Join, ClientEnds
  <2>2. /\ pc'[s] \in HasClient <=> pc[s] \in HasClient
        /\ pc'[s] \in HasServer <=> pc[s] \in HasServer
        /\ fpc'[s] = "copy" => pc'[s] \in {"tunnel", "join"}
    <3>1. CASE RequestLine(s)
      BY <1>0, <3>1 DEF RequestLine, HasClient, HasServer, OwnDescriptors
    <3>2. CASE Ask(s)
      BY <1>0, <3>2 DEF Ask, HasClient, HasServer, OwnDescriptors
    <3>3. CASE HeadLine(s) \/ HeadEnds(s)
      BY <1>0, <3>3 DEF HeadLine, HeadEnds, HasClient, HasServer, OwnDescriptors
    <3>4. CASE ServerEnds(s)
      BY <1>0, <3>4 DEF ServerEnds, HasClient, HasServer, OwnDescriptors
    <3>5. CASE Join(s)
      BY <1>0, <3>5 DEF Join, HasClient, HasServer, OwnDescriptors
    <3>6. CASE ClientEnds(s)
      BY <1>0, <3>6 DEF ClientEnds, OwnDescriptors
    <3> QED
      BY <1>4, <3>1, <3>2, <3>3, <3>4, <3>5, <3>6
  <2> QED
    BY <2>1, <2>2, SameDescriptors DEF OwnDescriptors
<1>5. ASSUME NEW s \in Sessions, Accept(s) \/ WebTalk(s) \/ Forwarder(s) PROVE OwnDescriptors'
  BY <1>3, <1>4, <1>5, AcceptDescriptors, ConnectDescriptors, FailedDescriptors, CloseDescriptors
     DEF WebTalk, Forwarder
<1> QED
  BY <1>1, <1>2, <1>5 DEF Next

LEMMA AskedNext == ASSUME TypeOK, Asked, [Next]_vars PROVE Asked'
<1>1. CASE UNCHANGED vars
  BY <1>1 DEF vars, locals, Asked, Items
<1>2. ASSUME NEW s \in Sessions, NEW c \in {C(s), S(s)}, Sends(c) \/ Leaves(c) PROVE Asked'
  BY <1>2 DEF Sends, Leaves, locals, Asked, Items
<1>3. ASSUME NEW s \in Sessions, RequestLine(s) PROVE Asked'
  <2>1. /\ Head(rio[s]) \in Items /\ cmd' = [cmd EXCEPT ![s] = Head(rio[s])]
        /\ pc' = [pc EXCEPT ![s] = "open"] /\ DOMAIN cmd = Sessions /\ DOMAIN pc = Sessions
    BY <1>3, HeadTailProperties DEF RequestLine, TypeOK
  <2> QED
    BY <2>1 DEF Asked, Items
<1>4. ASSUME NEW s \in Sessions, \/ Accept(s) \/ Forwarder(s) \/ (WebTalk(s) /\ ~RequestLine(s))
      PROVE  Asked'
  <2>1. cmd' = cmd /\ DOMAIN pc = Sessions
    BY <1>4 DEF TypeOK, Accept, Forwarder, ToServer, ClientEnds, WebTalk, Refill, NoRequest,
                Connect, ConnectFails, Ask, HeadLine, HeadEnds, ToClient, ServerEnds, Join,
                CloseServer, CloseClient, locals
  <2>2. /\ \A t \in Sessions \ {s} : pc'[t] = pc[t]
        /\ pc'[s] \in {"none", "line"} \/ pc[s] \notin {"none", "line"}
    BY <1>4, <2>1 DEF Accept, Forwarder, ToServer, ClientEnds, WebTalk, Refill, NoRequest,
                Connect, ConnectFails, Ask, HeadLine, HeadEnds, ToClient, ServerEnds, Join,
                CloseServer, CloseClient, locals
  <2> QED
    BY <2>1, <2>2 DEF Asked, Items
<1> QED
  BY <1>1, <1>2, <1>3, <1>4 DEF Next

LEMMA Start == ASSUME Init PROVE TypeOK /\ OwnDescriptors /\ Asked
<1>1. <<>> \in Seq(Items) /\ <<>> \in Seq(Items \cup {Established})
  BY EmptySeq
<1>2. 0 \in 0 .. Descriptors /\ 0 \in 0 .. MaxTries
  BY TunnelAssumption
<1>3. TypeOK
  BY <1>1, <1>2 DEF Init, TypeOK
<1>4. OwnDescriptors
  BY OtherConns DEF Init, OwnDescriptors, HasClient, HasServer
<1> QED
  BY <1>3, <1>4 DEF Init, Asked

LEMMA TunnelInvariant == Spec => [](TypeOK /\ OwnDescriptors /\ Asked)
<1>1. Init => TypeOK /\ OwnDescriptors /\ Asked
  BY Start
<1>2. TypeOK /\ OwnDescriptors /\ Asked /\ [Next]_vars => (TypeOK /\ OwnDescriptors /\ Asked)'
  BY TypeNext, DescriptorsNext, AskedNext
<1> QED
  BY <1>1, <1>2, PTL DEF Spec

\* Every variable keeps its type: a buffer holds items of a session, and a
\* descriptor that is in use leads to a connection.
THEOREM TunnelTypes == Spec => []TypeOK
BY TunnelInvariant, PTL

\* Whatever the interleaving of accepts, connects, threads and closes, a
\* thread uses only descriptors of its own session, and a descriptor of a
\* session is one its thread still has.
THEOREM DescriptorsAreOwn == Spec => []OwnDescriptors
BY TunnelInvariant, PTL

-----------------------------------------------------------------------------
(***************************************************************************)
(* Sequences.                                                              *)
(***************************************************************************)
LEMMA Cat3 ==
    ASSUME NEW T, NEW a \in Seq(T), NEW b \in Seq(T), NEW c \in Seq(T)
    PROVE  /\ a \o b \o c = a \o (b \o c) /\ a \o b \in Seq(T) /\ a \o <<>> = a /\ <<>> \o a = a
           /\ b \o c \in Seq(T)
<1>1. a \o b \o c = a \o (b \o c)
  BY ConcatAssociative, SMTT(20)
<1>2. a \o b \in Seq(T) /\ b \o c \in Seq(T)
  BY ConcatProperties, SMTT(20)
<1>3. a \o <<>> = a /\ <<>> \o a = a
  BY ConcatEmptySeq, SMTT(20)
<1> QED
  BY <1>1, <1>2, <1>3

LEMMA AppendItem ==
    ASSUME NEW a \in Seq(Items), NEW b \in Seq(Items), NEW i \in Items
    PROVE  Append(a \o b, i) = a \o Append(b, i)
<1>1. a \o b \in Seq(Items) /\ <<i>> \in Seq(Items)
  BY ConcatProperties
<1>2. Append(a \o b, i) = a \o b \o <<i>> /\ Append(b, i) = b \o <<i>>
  BY <1>1, AppendIsConcat
<1> QED
  BY <1>1, <1>2, ConcatAssociative

LEMMA DropLast ==
    ASSUME NEW T, NEW a \in Seq(T), NEW b \in Seq(T)
    PROVE  SubSeq(a \o b, 1, Len(a \o b) - Len(b)) = a
<1>1. PICK m \in Nat : m = Len(a) /\ \A k \in 1 .. m : a[k] \in T
  BY ElementOfSeq, LenProperties
<1>2. PICK n \in Nat : n = Len(b)
  BY LenProperties
<1>3. Len(a \o b) = m + n /\ \A k \in 1 .. m : (a \o b)[k] = a[k]
  BY <1>1, <1>2, ConcatProperties
<1>4. (m + n) - n = m /\ m \in Int /\ 1 \in Int
  OBVIOUS
<1> DEFINE z == a \o b
           r == SubSeq(z, 1, m)
<1>5. \A k \in 1 .. m : z[k] \in T
  BY <1>1, <1>3
<1> HIDE DEF z
<1>6. r \in Seq(T) /\ Len(r) = m /\ \A k \in 1 .. m : r[k] = z[k]
  <2>1. /\ r \in Seq(T) /\ Len(r) = IF 1 <= m THEN m - 1 + 1 ELSE 0
        /\ \A k \in 1 .. m - 1 + 1 : r[k] = z[1 + k - 1]
    <3>1. \A k \in 1 .. m : z[k] \in T
      BY <1>5
    <3> QED
      BY <1>4, <3>1, SubSeqProperties
  <2> HIDE DEF r
  <2> QED
    BY <2>1
<1> HIDE DEF r
<1>7. \A k \in 1 .. m : r[k] = a[k]
  BY <1>3, <1>6 DEF z
<1>8. SubSeq(a \o b, 1, m) = a
  BY <1>1, <1>6, <1>7, SeqEqual DEF r, z
<1> QED
  BY <1>2, <1>3, <1>4, <1>8

LEMMA HeadFirst ==
    ASSUME NEW T, NEW q \in Seq(T), q # <<>>
    PROVE  q = <<Head(q)>> \o Tail(q) /\ <<Head(q)>> \in Seq(T) /\ Head(q) \in T /\ Tail(q) \in Seq(T)
<1>1. /\ Head(q) \in T /\ Tail(q) \in Seq(T) /\ Len(Tail(q)) = Len(q) - 1
      /\ \A i \in 1 .. Len(Tail(q)) : Tail(q)[i] = q[i + 1]
  BY HeadTailProperties
<1>2. <<Head(q)>> \in Seq(T) /\ Len(<<Head(q)>>) = 1 /\ <<Head(q)>>[1] = Head(q) /\ Head(q) = q[1]
  BY <1>1, EmptySeq
<1>3. PICK n \in Nat : n = Len(q)
  BY LenProperties
<1>4. n # 0
  BY <1>3, EmptySeq
<1> DEFINE c == <<Head(q)>> \o Tail(q)
<1>5. /\ c \in Seq(T) /\ Len(c) = 1 + (n - 1)
      /\ \A i \in 1 .. 1 + (n - 1) : c[i] = IF i <= 1 THEN <<Head(q)>>[i] ELSE Tail(q)[i - 1]
  BY <1>1, <1>2, <1>3, ConcatProperties
<1> HIDE DEF c
<1>6. \A i \in 1 .. n : c[i] = q[i]
  <2> SUFFICES ASSUME NEW i \in 1 .. n PROVE c[i] = q[i]
    OBVIOUS
  <2>0. i \in 1 .. 1 + (n - 1)
    BY <1>3, <1>4
  <2>1. c[i] = IF i <= 1 THEN <<Head(q)>>[i] ELSE Tail(q)[i - 1]
    BY <1>5, <2>0
  <2>2. CASE i = 1
    BY <1>2, <2>1, <2>2
  <2>3. CASE i # 1
    <3>1. i - 1 \in 1 .. Len(Tail(q)) /\ ~(i <= 1) /\ (i - 1) + 1 = i
      BY <1>1, <1>3, <2>3
    <3> QED
      BY <1>1, <2>1, <3>1
  <2> QED
    BY <2>2, <2>3
<1>7. Len(c) = n
  BY <1>4, <1>5
<1>8. c = q
  BY <1>3, <1>5, <1>6, <1>7, SeqEqual
<1> QED
  BY <1>1, <1>2, <1>8 DEF c

LEMMA PassedAllType ==
    ASSUME NEW q \in Seq(Items)
    PROVE  /\ PassedAll(q) \in Seq(Items) /\ Len(PassedAll(q)) = Len(q)
           /\ \A k \in 1 .. Len(q) : PassedAll(q)[k] = Passed(q[k])
<1>1. Len(q) \in Nat /\ DOMAIN q = 1 .. Len(q) /\ \A k \in 1 .. Len(q) : q[k] \in Items
  BY ElementOfSeq, LenProperties
<1>2. \A k \in 1 .. Len(q) : Passed(q[k]) \in Items
  BY <1>1, PassedType
<1>3. /\ [k \in 1 .. Len(q) |-> Passed(q[k])] \in Seq(Items)
      /\ Len([k \in 1 .. Len(q) |-> Passed(q[k])]) = Len(q)
  BY <1>1, <1>2, IsASeq
<1>4. PassedAll(q) = [k \in 1 .. Len(q) |-> Passed(q[k])]
  BY <1>1 DEF PassedAll
<1> QED
  BY <1>3, <1>4

LEMMA PassedConcat ==
    ASSUME NEW a \in Seq(Items), NEW b \in Seq(Items)
    PROVE  PassedAll(a \o b) = PassedAll(a) \o PassedAll(b)
<1>1. PICK m \in Nat : m = Len(a)
  BY LenProperties
<1>2. PICK n \in Nat : n = Len(b)
  BY LenProperties
<1>3. /\ PassedAll(a) \in Seq(Items) /\ Len(PassedAll(a)) = m
      /\ \A k \in 1 .. m : PassedAll(a)[k] = Passed(a[k])
  BY <1>1, PassedAllType
<1>4. /\ PassedAll(b) \in Seq(Items) /\ Len(PassedAll(b)) = n
      /\ \A k \in 1 .. n : PassedAll(b)[k] = Passed(b[k])
  BY <1>2, PassedAllType
<1>5. /\ a \o b \in Seq(Items) /\ Len(a \o b) = m + n
      /\ \A i \in 1 .. m + n : (a \o b)[i] = IF i <= m THEN a[i] ELSE b[i - m]
  BY <1>1, <1>2, ConcatProperties
<1>6. /\ PassedAll(a \o b) \in Seq(Items) /\ Len(PassedAll(a \o b)) = m + n
      /\ \A i \in 1 .. m + n : PassedAll(a \o b)[i] = Passed((a \o b)[i])
  BY <1>5, PassedAllType
<1>7. /\ PassedAll(a) \o PassedAll(b) \in Seq(Items)
      /\ Len(PassedAll(a) \o PassedAll(b)) = m + n
      /\ \A i \in 1 .. m + n : (PassedAll(a) \o PassedAll(b))[i]
           = IF i <= m THEN PassedAll(a)[i] ELSE PassedAll(b)[i - m]
  BY <1>3, <1>4, ConcatProperties
<1>8. ASSUME NEW i \in 1 .. m + n
      PROVE  PassedAll(a \o b)[i] = (PassedAll(a) \o PassedAll(b))[i]
  <2>1. CASE i <= m
    <3>1. i \in 1 .. m
      BY <2>1
    <3> QED
      BY <1>3, <1>5, <1>6, <1>7, <2>1, <3>1
  <2>2. CASE ~(i <= m)
    <3>1. i - m \in 1 .. n
      BY <2>2
    <3> QED
      BY <1>4, <1>5, <1>6, <1>7, <2>2, <3>1
  <2> QED
    BY <2>1, <2>2
<1> QED
  BY <1>6, <1>7, <1>8, SeqEqual

LEMMA PassedOne == ASSUME NEW x \in Items PROVE PassedAll(<<x>>) = <<Passed(x)>>
BY DEF PassedAll

LEMMA CatItems ==
    \A a, b, c \in Seq(Items) : a \o (b \o c) = a \o b \o c /\ a \o b \in Seq(Items)
<1> TAKE a, b, c \in Seq(Items)
<1>1. a \o (b \o c) = a \o b \o c
  BY ConcatAssociative, SMTT(20)
<1>2. a \o b \in Seq(Items)
  BY ConcatProperties, SMTT(20)
<1> QED
  BY <1>1, <1>2

LEMMA CatAnswers ==
    \A a, b, c \in Seq(Answers) : a \o (b \o c) = a \o b \o c /\ a \o b \in Seq(Answers)
<1> TAKE a, b, c \in Seq(Answers)
<1>1. a \o (b \o c) = a \o b \o c
  BY ConcatAssociative, SMTT(20)
<1>2. a \o b \in Seq(Answers)
  BY ConcatProperties, SMTT(20)
<1> QED
  BY <1>1, <1>2

-----------------------------------------------------------------------------
(***************************************************************************)
(* What webTalk and the forwarder have read from the client of a session   *)
(* is y, and from its server x: all that was sent but what is unread.      *)
(***************************************************************************)
Answer(f) == IF f = "none" THEN <<>> ELSE <<Established>>

\* What became of y: it is the request line and what the buffer holds, and the
\* rest was given to the server.
FromClient(p, c, r, gS, oS, y) ==
  /\ p \in {"none", "line"} => y = r
  /\ p = "open" => y = <<c>> \o r
  /\ p \in {"ask", "tunnel", "join"} /\ oS => y = <<c>> \o r \o gS
  /\ p \in {"head", "relay"} /\ oS => \E z \in Seq(Items) : y = z \o r /\ gS = PassedAll(z)

\* x was given to the client, behind the answer to a CONNECT.
FromServer(f, gC, oC, x) == oC => gC = Answer(f) \o x

\* Before there is a server, and before it is asked, nothing is sent either way;
\* who waits for the forwarder, or closes, has met the end.
Quiet(p, f, sS, iS, gC, gS, oS) ==
  /\ p \in {"none", "line", "open", "gone"} => ~oS /\ sS = <<>> /\ iS = <<>>
  /\ p \in {"none", "line", "open", "gone", "ask"} => gC = <<>> /\ gS = <<>> /\ f = "none"
  /\ p \in {"join", "close", "close2", "done"} => ~oS

Flow(s, y, x) ==
  /\ y \in Seq(Items) /\ x \in Seq(Items)
  /\ sent[C(s)] = y \o inbox[C(s)] /\ sent[S(s)] = x \o inbox[S(s)]
  /\ FromClient(pc[s], cmd[s], rio[s], got[S(s)], open[S(s)], y)
  /\ FromServer(fpc[s], got[C(s)], open[C(s)], x)
  /\ Quiet(pc[s], fpc[s], sent[S(s)], inbox[S(s)], got[C(s)], got[S(s)], open[S(s)])

Bytes(s) == \E y, x : Flow(s, y, x)

LEMMA AnswerType == \A f : Answer(f) \in Seq(Answers)
<1>1. <<>> \in Seq(Answers)
  BY EmptySeq
<1>2. <<Established>> \in Seq(Answers)
  BY One DEF Answers
<1> QED
  BY <1>1, <1>2 DEF Answer

LEMMA Values ==
    ASSUME TypeOK, NEW s \in Sessions
    PROVE  /\ rio[s] \in Seq(Items) /\ sent[C(s)] \in Seq(Items) /\ sent[S(s)] \in Seq(Items)
           /\ inbox[C(s)] \in Seq(Items) /\ inbox[S(s)] \in Seq(Items)
           /\ got[C(s)] \in Seq(Answers) /\ got[S(s)] \in Seq(Answers)
           /\ open[C(s)] \in BOOLEAN /\ open[S(s)] \in BOOLEAN
           /\ DOMAIN pc = Sessions /\ DOMAIN fpc = Sessions /\ DOMAIN cmd = Sessions
           /\ DOMAIN rio = Sessions /\ DOMAIN sent = Conns /\ DOMAIN inbox = Conns
           /\ DOMAIN got = Conns /\ DOMAIN open = Conns
           /\ C(s) \in Conns /\ S(s) \in Conns /\ C(s) # S(s)
BY OtherConns DEF TypeOK, Answers

\* Nothing about s changes.
Still(s) ==
  /\ pc'[s] = pc[s] /\ fpc'[s] = fpc[s] /\ cmd'[s] = cmd[s] /\ rio'[s] = rio[s]
  /\ sent'[C(s)] = sent[C(s)] /\ inbox'[C(s)] = inbox[C(s)]
  /\ got'[C(s)] = got[C(s)] /\ open'[C(s)] = open[C(s)]
  /\ sent'[S(s)] = sent[S(s)] /\ inbox'[S(s)] = inbox[S(s)]
  /\ got'[S(s)] = got[S(s)] /\ open'[S(s)] = open[S(s)]

LEMMA StillBytes == ASSUME NEW s, Bytes(s), Still(s) PROVE Bytes(s)'
BY DEF Bytes, Flow, Still, C, S

\* Where the connections lead.
LEMMA OwnEnds ==
    ASSUME OwnDescriptors, NEW s \in Sessions
    PROVE  /\ pc[s] \in HasClient => fds[cfd[s]] = C(s)
           /\ pc[s] \in HasServer => fds[sfd[s]] = S(s)
           /\ fpc[s] = "copy" => pc[s] \in {"tunnel", "join"}
BY DEF OwnDescriptors

LEMMA GivenTo ==
    ASSUME TypeOK, NEW fd, NEW k \in Conns, fds[fd] = k, NEW items
    PROVE  /\ Given(fd, items)[k] = IF open[k] THEN got[k] \o items ELSE got[k]
           /\ \A j \in Conns : j # k => Given(fd, items)[j] = got[j]
BY DEF Given, TypeOK

LEMMA CopyTo ==
    ASSUME TypeOK, NEW from, NEW to, NEW j \in Conns, NEW k \in Conns, j # k,
           fds[from] = j, fds[to] = k, Copy(from, to)
    PROVE  /\ got'[k] = IF open[k] THEN got[k] \o inbox[j] ELSE got[k]
           /\ \A i \in Conns : i # k => got'[i] = got[i]
           /\ inbox'[j] = <<>> /\ \A i \in Conns : i # j => inbox'[i] = inbox[i]
           /\ UNCHANGED <<sent, open>>
<1>1. got' = Given(to, inbox[j]) /\ inbox' = [inbox EXCEPT ![j] = <<>>] /\ UNCHANGED <<sent, open>>
  BY DEF Copy
<1>2. DOMAIN inbox = Conns
  BY DEF TypeOK
<1> QED
  BY <1>1, <1>2, GivenTo

\* A step of one session is none of another.
LEMMA OthersStill ==
    ASSUME TypeOK, OwnDescriptors, NEW s \in Sessions, NEW t \in Sessions, s # t,
           \/ Accept(s) \/ WebTalk(s) \/ Forwarder(s)
           \/ \E c \in {C(s), S(s)} : Sends(c) \/ Leaves(c)
    PROVE  Still(t)
<1>1. /\ C(t) # C(s) /\ C(t) # S(s) /\ S(t) # C(s) /\ S(t) # S(s)
      /\ C(t) \in Conns /\ S(t) \in Conns /\ C(s) \in Conns /\ S(s) \in Conns /\ C(s) # S(s)
  BY OtherConns
<1>2. /\ DOMAIN pc = Sessions /\ DOMAIN fpc = Sessions /\ DOMAIN cmd = Sessions
      /\ DOMAIN rio = Sessions /\ DOMAIN sent = Conns /\ DOMAIN inbox = Conns
      /\ DOMAIN got = Conns /\ DOMAIN open = Conns
  BY Values
<1>3. CASE \E c \in {C(s), S(s)} : Sends(c) \/ Leaves(c)
  <2>1. PICK c \in {C(s), S(s)} :
          /\ UNCHANGED <<locals, got>> /\ (sent' = sent \/ \E q : sent' = [sent EXCEPT ![c] = q])
          /\ (inbox' = inbox \/ \E q : inbox' = [inbox EXCEPT ![c] = q])
          /\ (open' = open \/ \E q : open' = [open EXCEPT ![c] = q])
    <3>1. PICK c \in {C(s), S(s)} : Sends(c) \/ Leaves(c)
      BY <1>3
    <3>2. CASE Sends(c)
      <4> DEFINE item == script[c][Len(sent[c]) + 1]
      <4>1. /\ sent' = [sent EXCEPT ![c] = Append(sent[c], item)]
            /\ inbox' = [inbox EXCEPT ![c] = Append(inbox[c], item)]
            /\ UNCHANGED <<locals, got, open>>
        BY <3>2 DEF Sends
      <4> QED
        BY <4>1
    <3>3. CASE Leaves(c)
      <4>1. /\ open' = [open EXCEPT ![c] = FALSE] /\ UNCHANGED <<locals, got>>
            /\ \/ UNCHANGED <<sent, inbox>>
               \/ /\ sent' = [sent EXCEPT ![c] = SubSeq(sent[c], 1, Len(sent[c]) - Len(inbox[c]))]
                  /\ inbox' = [inbox EXCEPT ![c] = <<>>]
        BY <3>3 DEF Leaves
      <4> QED
        BY <4>1
    <3> QED
      BY <3>1, <3>2, <3>3
  <2> QED
    BY <1>1, <1>2, <2>1 DEF Still, locals
<1>4. CASE Accept(s)
  BY <1>1, <1>2, <1>4 DEF Accept, Still
<1>5. CASE Refill(s)
  <2>1. fds[cfd[s]] = C(s)
    BY <1>5, OwnEnds DEF Refill, HasClient
  <2> QED
    BY <1>1, <1>2, <1>5, <2>1 DEF Refill, Still
<1>6. CASE RequestLine(s) \/ NoRequest(s) \/ ConnectFails(s) \/ HeadEnds(s) \/ ServerEnds(s)
           \/ Join(s) \/ CloseServer(s) \/ CloseClient(s) \/ ClientEnds(s)
  BY <1>2, <1>6 DEF RequestLine, NoRequest, ConnectFails, HeadEnds, ServerEnds, Join, CloseServer,
                    CloseClient, ClientEnds, Still, ends, locals
<1>7. CASE Connect(s)
  BY <1>1, <1>2, <1>7 DEF Connect, Still
<1>8. CASE Ask(s) \/ HeadLine(s)
  <2>1. fds[cfd[s]] = C(s) /\ fds[sfd[s]] = S(s)
    BY <1>8, OwnEnds DEF Ask, HeadLine, HasClient, HasServer
  <2>2. got'[C(t)] = got[C(t)] /\ got'[S(t)] = got[S(t)]
    <3>1. \/ got' = got
          \/ \E q : got' = Given(sfd[s], q) \/ got' = Given(cfd[s], q)
      BY <1>8 DEF Ask, HeadLine
    <3> QED
      BY <1>1, <2>1, <3>1, GivenTo
  <2>3. /\ pc'[t] = pc[t] /\ fpc'[t] = fpc[t] /\ rio'[t] = rio[t]
        /\ UNCHANGED <<cmd, sent, inbox, open>>
    BY <1>2, <1>8 DEF Ask, HeadLine
  <2> QED
    BY <2>2, <2>3 DEF Still
<1>9. CASE ToClient(s) \/ ToServer(s)
  <2>1. fds[cfd[s]] = C(s) /\ fds[sfd[s]] = S(s) /\ UNCHANGED locals
    BY <1>9, OwnEnds DEF ToClient, ToServer, HasClient, HasServer
  <2>2. Copy(sfd[s], cfd[s]) \/ Copy(cfd[s], sfd[s])
    BY <1>9 DEF ToClient, ToServer
  <2>3. /\ \A i \in Conns \ {C(s), S(s)} : got'[i] = got[i] /\ inbox'[i] = inbox[i]
        /\ UNCHANGED <<sent, open>>
    BY <1>1, <2>1, <2>2, CopyTo
  <2> QED
    BY <1>1, <2>1, <2>3 DEF Still, locals
<1> QED
  BY <1>3, <1>4, <1>5, <1>6, <1>7, <1>8, <1>9 DEF WebTalk, Forwarder

LEMMA FlowNext ==
    ASSUME NEW s, NEW y \in Seq(Items), NEW x \in Seq(Items),
           sent'[C(s)] = y \o inbox'[C(s)], sent'[S(s)] = x \o inbox'[S(s)],
           FromClient(pc'[s], cmd'[s], rio'[s], got'[S(s)], open'[S(s)], y),
           FromServer(fpc'[s], got'[C(s)], open'[C(s)], x),
           Quiet(pc'[s], fpc'[s], sent'[S(s)], inbox'[S(s)], got'[C(s)], got'[S(s)], open'[S(s)])
    PROVE  Bytes(s)'
BY DEF Bytes, Flow, C, S

\* The far ends: what has been read stays.
LEMMA SendsBytes ==
    ASSUME TypeOK, NEW s \in Sessions, Bytes(s), NEW c \in {C(s), S(s)}, Sends(c)
    PROVE  Bytes(s)'
<1>1. PICK y, x : Flow(s, y, x)
  BY DEF Bytes
<1> DEFINE item == script[c][Len(sent[c]) + 1]
<1>2. /\ open[c] /\ Len(sent[c]) < Len(script[c])
      /\ sent' = [sent EXCEPT ![c] = Append(sent[c], item)]
      /\ inbox' = [inbox EXCEPT ![c] = Append(inbox[c], item)]
      /\ UNCHANGED <<locals, got, open>>
  BY DEF Sends
<1>3. item \in Items
  <2>1. c \in Conns /\ script[c] \in Seq(Items) /\ sent[c] \in Seq(Items)
    BY Values DEF TypeOK
  <2> QED
    BY <1>2, <2>1, ElementOfSeq, LenProperties
<1> HIDE DEF item
<1>4. ASSUME NEW z \in Seq(Items), sent[c] = z \o inbox[c]
      PROVE  Append(sent[c], item) = z \o Append(inbox[c], item)
  <2>1. inbox[c] \in Seq(Items)
    BY Values
  <2>2. Append(z \o inbox[c], item) = z \o Append(inbox[c], item)
    BY <1>3, <2>1, AppendItem
  <2> QED
    BY <1>4, <2>2
<1>5. sent'[C(s)] = y \o inbox'[C(s)] /\ sent'[S(s)] = x \o inbox'[S(s)]
  BY <1>1, <1>2, <1>4, Values DEF Flow
<1>6. Quiet(pc'[s], fpc'[s], sent'[S(s)], inbox'[S(s)], got'[C(s)], got'[S(s)], open'[S(s)])
  BY <1>1, <1>2, Values DEF Flow, Quiet, locals
<1>7. /\ FromClient(pc'[s], cmd'[s], rio'[s], got'[S(s)], open'[S(s)], y)
      /\ FromServer(fpc'[s], got'[C(s)], open'[C(s)], x)
  BY <1>1, <1>2 DEF Flow, locals
<1> QED
  BY <1>1, <1>5, <1>6, <1>7, FlowNext DEF Flow

LEMMA LeavesBytes ==
    ASSUME TypeOK, NEW s \in Sessions, Bytes(s), NEW c \in {C(s), S(s)}, Leaves(c)
    PROVE  Bytes(s)'
<1>1. PICK y, x : Flow(s, y, x)
  BY DEF Bytes
<1> DEFINE rest == SubSeq(sent[c], 1, Len(sent[c]) - Len(inbox[c]))
<1>2. /\ open[c] /\ open' = [open EXCEPT ![c] = FALSE]
      /\ UNCHANGED <<locals, got>>
      /\ \/ UNCHANGED <<sent, inbox>>
         \/ sent' = [sent EXCEPT ![c] = rest] /\ inbox' = [inbox EXCEPT ![c] = <<>>]
  BY DEF Leaves
<1>3. ASSUME NEW z \in Seq(Items), sent[c] = z \o inbox[c]
      PROVE  rest = z \o <<>>
  <2>1. inbox[c] \in Seq(Items)
    BY Values
  <2>2. rest = z
    BY <1>3, <2>1, DropLast
  <2> QED
    BY <2>2, ConcatEmptySeq
<1> HIDE DEF rest
<1>4. sent'[C(s)] = y \o inbox'[C(s)] /\ sent'[S(s)] = x \o inbox'[S(s)]
  BY <1>1, <1>2, <1>3, Values DEF Flow
<1>5. Quiet(pc'[s], fpc'[s], sent'[S(s)], inbox'[S(s)], got'[C(s)], got'[S(s)], open'[S(s)])
  BY <1>1, <1>2, Values DEF Flow, Quiet, locals
<1>6. /\ FromClient(pc'[s], cmd'[s], rio'[s], got'[S(s)], open'[S(s)], y)
      /\ FromServer(fpc'[s], got'[C(s)], open'[C(s)], x)
  BY <1>1, <1>2, Values DEF Flow, FromClient, FromServer, locals
<1> QED
  BY <1>1, <1>4, <1>5, <1>6, FlowNext DEF Flow

\* main, and webTalk until the server is asked.
LEMMA AcceptBytes ==
    ASSUME TypeOK, NEW s \in Sessions, Bytes(s), Accept(s) PROVE Bytes(s)'
<1>1. PICK y, x : Flow(s, y, x)
  BY DEF Bytes
<1>2. /\ pc[s] = "none" /\ pc'[s] = "line" /\ open'[C(s)] = TRUE /\ open'[S(s)] = open[S(s)]
      /\ UNCHANGED <<fpc, rio, cmd, sent, inbox, got>>
  BY Values DEF Accept
<1>3. x = <<>>
  <2>1. x \in Seq(Items) /\ x \o <<>> = <<>>
    BY <1>1, <1>2 DEF Flow, Quiet
  <2> QED
    BY <2>1, ConcatEmptySeq
<1>4. FromServer(fpc'[s], got'[C(s)], open'[C(s)], x)
  <2>1. got'[C(s)] = <<>> /\ fpc'[s] = "none"
    BY <1>1, <1>2 DEF Flow, Quiet
  <2>2. <<>> \o <<>> = <<>>
    BY <1>1, <1>3, ConcatEmptySeq DEF Flow
  <2> QED
    BY <1>3, <2>1, <2>2 DEF FromServer, Answer
<1>5. FromClient(pc'[s], cmd'[s], rio'[s], got'[S(s)], open'[S(s)], y)
  BY <1>1, <1>2 DEF Flow, FromClient
<1>6. Quiet(pc'[s], fpc'[s], sent'[S(s)], inbox'[S(s)], got'[C(s)], got'[S(s)], open'[S(s)])
  BY <1>1, <1>2 DEF Flow, Quiet
<1> QED
  BY <1>1, <1>2, <1>4, <1>5, <1>6, FlowNext DEF Flow

LEMMA RefillBytes ==
    ASSUME TypeOK, OwnDescriptors, NEW s \in Sessions, Bytes(s), Refill(s) PROVE Bytes(s)'
<1>1. PICK y, x : Flow(s, y, x)
  BY DEF Bytes
<1>2. fds[cfd[s]] = C(s)
  BY OwnEnds DEF Refill, HasClient
<1>3. /\ pc[s] \in {"line", "head"} /\ rio[s] = <<>> /\ rio'[s] = inbox[C(s)]
      /\ inbox'[C(s)] = <<>> /\ inbox'[S(s)] = inbox[S(s)]
      /\ UNCHANGED <<pc, fpc, cmd, sent, got, open>>
  BY <1>2, Values DEF Refill
<1>4. PICK w : w = y \o inbox[C(s)]
  OBVIOUS
<1>5. w \in Seq(Items) /\ w \o <<>> = w
  BY <1>1, <1>4, Values, ConcatProperties, ConcatEmptySeq DEF Flow
<1>6. FromClient(pc'[s], cmd'[s], rio'[s], got'[S(s)], open'[S(s)], w)
  <2>1. CASE pc[s] = "line"
    <3>1. y = <<>>
      BY <1>1, <1>3, <2>1 DEF Flow, FromClient
    <3>2. w = inbox[C(s)]
      BY <1>4, <3>1, Values, ConcatEmptySeq
    <3> QED
      BY <1>3, <2>1, <3>2 DEF FromClient
  <2>2. CASE pc[s] = "head"
    <3>1. ASSUME open[S(s)]
          PROVE  \E z \in Seq(Items) : w = z \o inbox[C(s)] /\ got[S(s)] = PassedAll(z)
      <4>1. PICK z \in Seq(Items) : y = z \o <<>> /\ got[S(s)] = PassedAll(z)
        BY <1>1, <1>3, <2>2, <3>1 DEF Flow, FromClient
      <4>2. y = z
        BY <4>1, ConcatEmptySeq
      <4> QED
        BY <1>4, <4>1, <4>2
    <3> QED
      BY <1>3, <2>2, <3>1 DEF FromClient
  <2> QED
    BY <1>3, <2>1, <2>2
<1>7. Quiet(pc'[s], fpc'[s], sent'[S(s)], inbox'[S(s)], got'[C(s)], got'[S(s)], open'[S(s)])
  BY <1>1, <1>3 DEF Flow, Quiet
<1>8. FromServer(fpc'[s], got'[C(s)], open'[C(s)], x)
  BY <1>1, <1>3 DEF Flow
<1>9. sent'[C(s)] = w \o inbox'[C(s)] /\ sent'[S(s)] = x \o inbox'[S(s)]
  BY <1>1, <1>3, <1>4, <1>5 DEF Flow
<1> QED
  BY <1>1, <1>5, <1>6, <1>7, <1>8, <1>9, FlowNext DEF Flow

LEMMA RequestLineBytes ==
    ASSUME TypeOK, NEW s \in Sessions, Bytes(s), RequestLine(s) PROVE Bytes(s)'
<1>1. PICK y, x : Flow(s, y, x)
  BY DEF Bytes
<1>2. /\ pc[s] = "line" /\ pc'[s] = "open" /\ rio[s] # <<>>
      /\ cmd'[s] = Head(rio[s]) /\ rio'[s] = Tail(rio[s])
      /\ UNCHANGED <<fpc, sent, inbox, got, open>>
  BY Values DEF RequestLine, ends
<1>3. y = <<cmd'[s]>> \o rio'[s]
  <2>1. y = rio[s]
    BY <1>1, <1>2 DEF Flow, FromClient
  <2> QED
    BY <1>2, <2>1, Values, HeadFirst
<1>4. FromClient(pc'[s], cmd'[s], rio'[s], got'[S(s)], open'[S(s)], y)
  BY <1>2, <1>3 DEF FromClient
<1>5. Quiet(pc'[s], fpc'[s], sent'[S(s)], inbox'[S(s)], got'[C(s)], got'[S(s)], open'[S(s)])
  BY <1>1, <1>2 DEF Flow, Quiet
<1> QED
  BY <1>1, <1>2, <1>4, <1>5, FlowNext DEF Flow

LEMMA ConnectBytes ==
    ASSUME TypeOK, Asked, NEW s \in Sessions, Bytes(s), Connect(s) PROVE Bytes(s)'
<1>1. PICK y, x : Flow(s, y, x)
  BY DEF Bytes
<1>2. /\ pc[s] = "open" /\ pc'[s] = "ask" /\ open'[C(s)] = open[C(s)]
      /\ UNCHANGED <<fpc, rio, cmd, sent, inbox, got>>
  BY Values DEF Connect
<1>3. y = <<cmd[s]>> \o rio[s] \o <<>>
  <2>1. y = <<cmd[s]>> \o rio[s] /\ y \in Seq(Items)
    BY <1>1, <1>2 DEF Flow, FromClient
  <2> QED
    BY <2>1, ConcatEmptySeq
<1>4. got[S(s)] = <<>>
  BY <1>1, <1>2 DEF Flow, Quiet
<1>5. FromClient(pc'[s], cmd'[s], rio'[s], got'[S(s)], open'[S(s)], y)
  BY <1>2, <1>3, <1>4 DEF FromClient
<1>6. Quiet(pc'[s], fpc'[s], sent'[S(s)], inbox'[S(s)], got'[C(s)], got'[S(s)], open'[S(s)])
  BY <1>1, <1>2 DEF Flow, Quiet
<1> QED
  BY <1>1, <1>2, <1>5, <1>6, FlowNext DEF Flow

LEMMA AskBytes ==
    ASSUME TypeOK, OwnDescriptors, Asked, NEW s \in Sessions, Bytes(s), Ask(s) PROVE Bytes(s)'
<1>1. PICK y, x : Flow(s, y, x)
  BY DEF Bytes
<1>2. /\ pc[s] = "ask" /\ UNCHANGED <<cmd, rio, sent, inbox, open>>
      /\ got[S(s)] = <<>> /\ got[C(s)] = <<>> /\ fpc[s] = "none"
  BY <1>1 DEF Ask, Flow, Quiet
<1>3. fds[cfd[s]] = C(s) /\ fds[sfd[s]] = S(s) /\ cmd[s] \in Items
  BY <1>2, OwnEnds DEF HasClient, HasServer, Asked
<1>4. open[S(s)] => y = <<cmd[s]>> \o rio[s]
  <2>1. ASSUME open[S(s)] PROVE y = <<cmd[s]>> \o rio[s]
    <3>1. y = <<cmd[s]>> \o rio[s] \o <<>>
      BY <1>1, <1>2, <2>1 DEF Flow, FromClient
    <3>2. <<cmd[s]>> \in Seq(Items) /\ rio[s] \in Seq(Items)
      BY <1>3, Values
    <3> QED
      BY <3>1, <3>2, Cat3
  <2> QED
    BY <2>1
<1>5. open[C(s)] => x = <<>>
  <2>1. x \in Seq(Items) /\ (open[C(s)] => <<>> = <<>> \o x)
    BY <1>1, <1>2 DEF Flow, FromServer, Answer
  <2> QED
    BY <2>1, ConcatEmptySeq
<1>6. CASE /\ cmd[s][2] = "get" /\ got' = Given(sfd[s], <<cmd[s]>>)
           /\ pc' = [pc EXCEPT ![s] = "head"] /\ fpc' = fpc
  <2>1. /\ pc'[s] = "head" /\ got'[C(s)] = got[C(s)]
        /\ open[S(s)] => got'[S(s)] = <<>> \o <<cmd[s]>>
    BY <1>2, <1>3, <1>6, Values DEF Given
  <2>2. PassedAll(<<cmd[s]>>) = <<cmd[s]>> /\ <<cmd[s]>> \in Seq(Items)
    <3>1. Passed(cmd[s]) = cmd[s]
      BY <1>6 DEF Passed
    <3>2. PassedAll(<<cmd[s]>>) = <<Passed(cmd[s])>>
      BY <1>3, PassedOne
    <3> QED
      BY <1>3, <3>1, <3>2
  <2>3. <<>> \o <<cmd[s]>> = <<cmd[s]>>
    BY <2>2, ConcatEmptySeq
  <2>4. FromClient(pc'[s], cmd'[s], rio'[s], got'[S(s)], open'[S(s)], y)
    BY <1>2, <1>4, <2>1, <2>2, <2>3 DEF FromClient
  <2>5. FromServer(fpc'[s], got'[C(s)], open'[C(s)], x)
    BY <1>1, <1>2, <1>6, <2>1 DEF Flow
  <2>6. Quiet(pc'[s], fpc'[s], sent'[S(s)], inbox'[S(s)], got'[C(s)], got'[S(s)], open'[S(s)])
    BY <2>1 DEF Quiet
  <2> QED
    BY <1>1, <1>2, <2>4, <2>5, <2>6, FlowNext DEF Flow
<1>7. CASE /\ got' = Given(cfd[s], <<Established>>)
           /\ pc' = [pc EXCEPT ![s] = "tunnel"] /\ fpc' = [fpc EXCEPT ![s] = "copy"]
  <2>1. /\ pc'[s] = "tunnel" /\ fpc'[s] = "copy" /\ got'[S(s)] = got[S(s)]
        /\ open[C(s)] => got'[C(s)] = <<>> \o <<Established>>
    BY <1>2, <1>3, <1>7, Values DEF Given
  <2>2. <<>> \o <<Established>> = <<Established>> /\ <<Established>> \o <<>> = <<Established>>
    <3>1. <<Established>> \in Seq(Answers)
      BY DEF Answers
    <3> QED
      BY <3>1, ConcatEmptySeq
  <2>3. FromClient(pc'[s], cmd'[s], rio'[s], got'[S(s)], open'[S(s)], y)
    BY <1>1, <1>2, <2>1 DEF Flow, FromClient
  <2>4. FromServer(fpc'[s], got'[C(s)], open'[C(s)], x)
    BY <1>2, <1>5, <2>1, <2>2 DEF FromServer, Answer
  <2>5. Quiet(pc'[s], fpc'[s], sent'[S(s)], inbox'[S(s)], got'[C(s)], got'[S(s)], open'[S(s)])
    BY <2>1 DEF Quiet
  <2> QED
    BY <1>1, <1>2, <2>3, <2>4, <2>5, FlowNext DEF Flow
<1>8. CASE pc' = [pc EXCEPT ![s] = "left"] /\ UNCHANGED <<fpc, got>>
  <2>1. pc'[s] = "left"
    BY <1>8, Values
  <2>2. /\ FromClient(pc'[s], cmd'[s], rio'[s], got'[S(s)], open'[S(s)], y)
        /\ Quiet(pc'[s], fpc'[s], sent'[S(s)], inbox'[S(s)], got'[C(s)], got'[S(s)], open'[S(s)])
    BY <2>1 DEF FromClient, Quiet
  <2> QED
    BY <1>1, <1>2, <1>8, <2>2, FlowNext DEF Flow
<1> QED
  BY <1>6, <1>7, <1>8 DEF Ask

\* The lines behind the first, of a GET.
LEMMA HeadLineBytes ==
    ASSUME TypeOK, OwnDescriptors, NEW s \in Sessions, Bytes(s), HeadLine(s) PROVE Bytes(s)'
<1>1. PICK y, x : Flow(s, y, x)
  BY DEF Bytes
<1>2. /\ pc[s] = "head" /\ rio[s] # <<>> /\ pc'[s] \in {"relay", "head"}
      /\ rio'[s] = Tail(rio[s]) /\ got' = Given(sfd[s], <<Passed(Head(rio[s]))>>)
      /\ UNCHANGED <<fpc, cmd, sent, inbox, open>>
  BY Values DEF HeadLine
<1>3. fds[sfd[s]] = S(s)
  BY <1>2, OwnEnds DEF HasServer
<1>4. /\ got'[C(s)] = got[C(s)]
      /\ open[S(s)] => got'[S(s)] = got[S(s)] \o <<Passed(Head(rio[s]))>>
  BY <1>2, <1>3, Values DEF Given
<1>5. ASSUME open[S(s)]
      PROVE  \E z \in Seq(Items) : y = z \o rio'[s] /\ got'[S(s)] = PassedAll(z)
  <2>1. PICK z \in Seq(Items) : y = z \o rio[s] /\ got[S(s)] = PassedAll(z)
    BY <1>1, <1>2, <1>5 DEF Flow, FromClient
  <2> DEFINE h == Head(rio[s])
             t == Tail(rio[s])
  <2>2. h \in Items /\ t \in Seq(Items) /\ rio[s] = <<h>> \o t /\ <<h>> \in Seq(Items)
    <3>1. rio[s] \in Seq(Items) /\ rio[s] # <<>>
      BY <1>2, Values
    <3> QED
      BY <3>1, HeadFirst
  <2> HIDE DEF h, t
  <2>3. y = (z \o <<h>>) \o t /\ z \o <<h>> \in Seq(Items)
    BY <2>1, <2>2, CatItems
  <2>4. PassedAll(z \o <<h>>) = PassedAll(z) \o <<Passed(h)>>
    BY <2>2, PassedConcat, PassedOne
  <2>5. got'[S(s)] = PassedAll(z \o <<h>>)
    BY <1>4, <1>5, <2>1, <2>4 DEF h
  <2> QED
    BY <1>2, <2>3, <2>5 DEF t
<1>6. FromClient(pc'[s], cmd'[s], rio'[s], got'[S(s)], open'[S(s)], y)
  BY <1>2, <1>5 DEF FromClient
<1>7. FromServer(fpc'[s], got'[C(s)], open'[C(s)], x)
  BY <1>1, <1>2, <1>4 DEF Flow
<1>8. Quiet(pc'[s], fpc'[s], sent'[S(s)], inbox'[S(s)], got'[C(s)], got'[S(s)], open'[S(s)])
  BY <1>2 DEF Quiet
<1> QED
  BY <1>1, <1>2, <1>6, <1>7, <1>8, FlowNext DEF Flow

\* The two loops that copy.
LEMMA ToClientBytes ==
    ASSUME TypeOK, OwnDescriptors, NEW s \in Sessions, Bytes(s), ToClient(s) PROVE Bytes(s)'
<1>1. PICK y, x : Flow(s, y, x)
  BY DEF Bytes
<1>2. pc[s] \in {"relay", "tunnel"} /\ Copy(sfd[s], cfd[s]) /\ UNCHANGED locals
  BY DEF ToClient
<1>3. fds[sfd[s]] = S(s) /\ fds[cfd[s]] = C(s)
  BY <1>2, OwnEnds DEF HasClient, HasServer
<1>4. /\ got'[C(s)] = IF open[C(s)] THEN got[C(s)] \o inbox[S(s)] ELSE got[C(s)]
      /\ got'[S(s)] = got[S(s)] /\ inbox'[S(s)] = <<>> /\ inbox'[C(s)] = inbox[C(s)]
      /\ UNCHANGED <<sent, open>>
  BY <1>2, <1>3, Values DEF Copy, Given
<1>5. PICK w : w = x \o inbox[S(s)]
  OBVIOUS
<1>6. w \in Seq(Items) /\ w \o <<>> = w
  BY <1>1, <1>5, Values, ConcatProperties, ConcatEmptySeq DEF Flow
<1>7. FromServer(fpc'[s], got'[C(s)], open'[C(s)], w)
  <2>1. ASSUME open[C(s)] PROVE got'[C(s)] = Answer(fpc[s]) \o w
    <3>1. got'[C(s)] = Answer(fpc[s]) \o x \o inbox[S(s)]
      BY <1>1, <1>4, <2>1 DEF Flow, FromServer
    <3>2. Answer(fpc[s]) \in Seq(Answers)
      BY AnswerType
    <3>3. x \in Seq(Answers) /\ inbox[S(s)] \in Seq(Answers)
      BY <1>1, Values, ItemsAreAnswers DEF Flow
    <3> QED
      BY <1>5, <3>1, <3>2, <3>3, CatAnswers
  <2> QED
    BY <1>2, <1>4, <2>1 DEF FromServer, locals
<1>8. FromClient(pc'[s], cmd'[s], rio'[s], got'[S(s)], open'[S(s)], y)
  BY <1>1, <1>2, <1>4 DEF Flow, locals
<1>9. Quiet(pc'[s], fpc'[s], sent'[S(s)], inbox'[S(s)], got'[C(s)], got'[S(s)], open'[S(s)])
  BY <1>2 DEF Quiet, locals
<1>10. sent'[C(s)] = y \o inbox'[C(s)] /\ sent'[S(s)] = w \o inbox'[S(s)]
  BY <1>1, <1>4, <1>5, <1>6 DEF Flow
<1> QED
  BY <1>1, <1>6, <1>7, <1>8, <1>9, <1>10, FlowNext DEF Flow

LEMMA ToServerBytes ==
    ASSUME TypeOK, OwnDescriptors, Asked, NEW s \in Sessions, Bytes(s), ToServer(s)
    PROVE  Bytes(s)'
<1>1. PICK y, x : Flow(s, y, x)
  BY DEF Bytes
<1>2. fpc[s] = "copy" /\ Copy(cfd[s], sfd[s]) /\ UNCHANGED locals
  BY DEF ToServer
<1>3. pc[s] \in {"tunnel", "join"}
  BY <1>2, OwnEnds
<1>4. fds[sfd[s]] = S(s) /\ fds[cfd[s]] = C(s)
  BY <1>3, OwnEnds DEF HasClient, HasServer
<1>5. /\ got'[S(s)] = IF open[S(s)] THEN got[S(s)] \o inbox[C(s)] ELSE got[S(s)]
      /\ got'[C(s)] = got[C(s)] /\ inbox'[C(s)] = <<>> /\ inbox'[S(s)] = inbox[S(s)]
      /\ UNCHANGED <<sent, open>>
  BY <1>2, <1>4, Values DEF Copy, Given
<1>6. PICK w : w = y \o inbox[C(s)]
  OBVIOUS
<1>7. w \in Seq(Items) /\ w \o <<>> = w
  BY <1>1, <1>6, Values, ConcatProperties, ConcatEmptySeq DEF Flow
<1>8. FromClient(pc'[s], cmd'[s], rio'[s], got'[S(s)], open'[S(s)], w)
  <2>1. ASSUME open[S(s)] PROVE w = <<cmd[s]>> \o rio[s] \o got'[S(s)]
    <3>1. w = <<cmd[s]>> \o rio[s] \o got[S(s)] \o inbox[C(s)]
      BY <1>1, <1>3, <1>6, <2>1 DEF Flow, FromClient
    <3>2. <<cmd[s]>> \in Seq(Answers)
      BY <1>3 DEF Asked, Answers
    <3>3. rio[s] \in Seq(Answers) /\ inbox[C(s)] \in Seq(Answers) /\ got[S(s)] \in Seq(Answers)
      BY Values, ItemsAreAnswers
    <3>4. <<cmd[s]>> \o rio[s] \in Seq(Answers)
      BY <3>2, <3>3, ConcatProperties
    <3>5. w = <<cmd[s]>> \o rio[s] \o (got[S(s)] \o inbox[C(s)])
      BY <3>1, <3>3, <3>4, CatAnswers
    <3> QED
      BY <1>5, <2>1, <3>5
  <2> QED
    BY <1>2, <1>3, <1>5, <2>1 DEF FromClient, locals
<1>9. FromServer(fpc'[s], got'[C(s)], open'[C(s)], x)
  BY <1>1, <1>2, <1>5 DEF Flow, locals
<1>10. Quiet(pc'[s], fpc'[s], sent'[S(s)], inbox'[S(s)], got'[C(s)], got'[S(s)], open'[S(s)])
  BY <1>1, <1>2, <1>3, <1>5 DEF Flow, Quiet, locals
<1>11. sent'[C(s)] = w \o inbox'[C(s)] /\ sent'[S(s)] = x \o inbox'[S(s)]
  BY <1>1, <1>5, <1>6, <1>7 DEF Flow
<1> QED
  BY <1>1, <1>7, <1>8, <1>9, <1>10, <1>11, FlowNext DEF Flow

\* Steps that neither read nor write.
LEMMA ControlBytes ==
    ASSUME TypeOK, OwnDescriptors, NEW s \in Sessions, Bytes(s),
           \/ NoRequest(s) \/ ConnectFails(s) \/ HeadEnds(s) \/ ServerEnds(s) \/ Join(s)
           \/ CloseServer(s) \/ CloseClient(s) \/ ClientEnds(s)
    PROVE  Bytes(s)'
<1>1. PICK y, x : Flow(s, y, x)
  BY DEF Bytes
<1>2. /\ UNCHANGED <<cmd, rio, ends>>
      /\ \/ pc'[s] = pc[s] /\ fpc'[s] = fpc[s]
         \/ pc[s] = "open" /\ pc'[s] = "gone" /\ fpc'[s] = fpc[s]
         \/ pc[s] = "head" /\ pc'[s] = "relay" /\ fpc'[s] = fpc[s]
         \/ /\ pc[s] \in {"relay", "tunnel"} /\ AtEnd(sfd[s])
            /\ pc'[s] \in {"close", "join"} /\ fpc'[s] = fpc[s]
         \/ /\ pc[s] \in {"join", "close", "close2"} /\ pc'[s] \in {"close", "close2", "done"}
            /\ fpc'[s] = fpc[s]
         \/ pc'[s] = pc[s] /\ fpc[s] = "copy" /\ fpc'[s] = "done"
  BY Values DEF NoRequest, ConnectFails, HeadEnds, ServerEnds, Join, CloseServer, CloseClient,
                ClientEnds, locals, ends
<1>3. /\ pc[s] \in {"relay", "tunnel"} /\ AtEnd(sfd[s]) => ~open[S(s)]
      /\ fpc[s] = "copy" => pc[s] \in {"tunnel", "join"}
  BY OwnEnds, Values DEF AtEnd, HasServer
<1>4. FromClient(pc'[s], cmd'[s], rio'[s], got'[S(s)], open'[S(s)], y)
  BY <1>1, <1>2, <1>3 DEF Flow, FromClient, ends
<1>5. FromServer(fpc'[s], got'[C(s)], open'[C(s)], x)
  BY <1>1, <1>2 DEF Flow, FromServer, Answer, ends
<1>6. Quiet(pc'[s], fpc'[s], sent'[S(s)], inbox'[S(s)], got'[C(s)], got'[S(s)], open'[S(s)])
  BY <1>1, <1>2, <1>3 DEF Flow, Quiet, ends
<1> QED
  BY <1>1, <1>2, <1>4, <1>5, <1>6, FlowNext DEF Flow, ends

AllBytes == \A s \in Sessions : Bytes(s)

LEMMA BytesNext ==
    ASSUME TypeOK, OwnDescriptors, Asked, AllBytes, [Next]_vars PROVE AllBytes'
<1>1. CASE UNCHANGED vars
  BY <1>1, StillBytes DEF vars, locals, ends, Still, AllBytes
<1>2. ASSUME NEW s \in Sessions,
             \/ Accept(s) \/ WebTalk(s) \/ Forwarder(s)
             \/ \E c \in {C(s), S(s)} : Sends(c) \/ Leaves(c)
      PROVE  AllBytes'
  <2>1. Bytes(s)
    BY DEF AllBytes
  <2>2. Bytes(s)'
    BY <1>2, <2>1, SendsBytes, LeavesBytes, AcceptBytes, RefillBytes, RequestLineBytes,
       ConnectBytes, AskBytes, HeadLineBytes, ToClientBytes, ToServerBytes, ControlBytes
       DEF WebTalk, Forwarder
  <2>3. ASSUME NEW t \in Sessions, t # s PROVE Bytes(t)'
    BY <1>2, <2>3, OthersStill, StillBytes DEF AllBytes
  <2> QED
    BY <2>2, <2>3 DEF AllBytes
<1> QED
  BY <1>1, <1>2 DEF Next

LEMMA BytesStart == ASSUME Init PROVE AllBytes
<1>1. <<>> \in Seq(Items) /\ <<>> \o <<>> = <<>>
  BY EmptySeq, ConcatEmptySeq
<1>2. ASSUME NEW s \in Sessions PROVE Flow(s, <<>>, <<>>)
  BY <1>1, OtherConns DEF Init, Flow, FromClient, FromServer, Quiet, Answer
<1> QED
  BY <1>2 DEF AllBytes, Bytes

LEMMA BytesAreRight ==
    ASSUME TypeOK, Asked, AllBytes PROVE RightBytes
<1>1. ASSUME NEW s \in Sessions
      PROVE  /\ (open[S(s)] /\ pc[s] # "left") =>
                  IF pc[s] \in {"ask", "tunnel", "join"}
                  THEN sent[C(s)] = <<cmd[s]>> \o rio[s] \o got[S(s)] \o inbox[C(s)]
                  ELSE PassedAll(sent[C(s)])
                         = got[S(s)] \o PassedAll(rio[s]) \o PassedAll(inbox[C(s)])
             /\ open[C(s)] => got[C(s)] \o inbox[S(s)] =
                  (IF fpc[s] # "none" THEN <<Established>> ELSE <<>>) \o sent[S(s)]
  <2>1. PICK y, x : Flow(s, y, x)
    BY DEF AllBytes, Bytes
  <2>2. /\ rio[s] \in Seq(Items) /\ inbox[C(s)] \in Seq(Items)
        /\ inbox[S(s)] \in Seq(Answers) /\ x \in Seq(Answers)
    BY <2>1, Values, ItemsAreAnswers DEF Flow
  <2>3. ASSUME open[S(s)], pc[s] \in {"ask", "tunnel", "join"}
        PROVE  sent[C(s)] = <<cmd[s]>> \o rio[s] \o got[S(s)] \o inbox[C(s)]
    BY <2>1, <2>3 DEF Flow, FromClient
  <2>4. ASSUME open[S(s)], pc[s] \in {"head", "relay"}
        PROVE  PassedAll(sent[C(s)]) = got[S(s)] \o PassedAll(rio[s]) \o PassedAll(inbox[C(s)])
    <3>1. PICK z \in Seq(Items) : y = z \o rio[s] /\ got[S(s)] = PassedAll(z)
      BY <2>1, <2>4 DEF Flow, FromClient
    <3>2. PassedAll(sent[C(s)]) = PassedAll(y) \o PassedAll(inbox[C(s)])
      BY <2>1, <2>2, PassedConcat DEF Flow
    <3>3. PassedAll(y) = PassedAll(z) \o PassedAll(rio[s])
      BY <2>2, <3>1, PassedConcat
    <3> QED
      BY <3>1, <3>2, <3>3
  <2>5. open[S(s)] => pc[s] \in {"ask", "tunnel", "join", "head", "relay", "left"}
    BY <2>1 DEF Flow, Quiet, TypeOK
  <2>6. ASSUME open[C(s)] PROVE got[C(s)] \o inbox[S(s)] = Answer(fpc[s]) \o sent[S(s)]
    <3>1. got[C(s)] = Answer(fpc[s]) \o x
      BY <2>1, <2>6 DEF Flow, FromServer
    <3>2. Answer(fpc[s]) \in Seq(Answers)
      BY AnswerType
    <3>3. Answer(fpc[s]) \o (x \o inbox[S(s)]) = Answer(fpc[s]) \o x \o inbox[S(s)]
      BY <2>2, <3>2, CatAnswers
    <3>4. sent[S(s)] = x \o inbox[S(s)]
      BY <2>1 DEF Flow
    <3> QED
      BY <3>1, <3>3, <3>4
  <2> QED
    BY <2>3, <2>4, <2>5, <2>6 DEF Answer
<1> QED
  BY <1>1 DEF RightBytes

\* No byte is lost, repeated, reordered or given to another session, but for
\* what the Rio buffer holds when a tunnel starts.
THEOREM BytesArrive == Spec => []RightBytes
<1>1. Init => AllBytes
  BY BytesStart
<1>2. (TypeOK /\ OwnDescriptors /\ Asked) /\ AllBytes /\ [Next]_vars => AllBytes'
  BY BytesNext
<1>3. (TypeOK /\ OwnDescriptors /\ Asked) /\ AllBytes => RightBytes
  BY BytesAreRight
<1> QED
  BY <1>1, <1>2, <1>3, TunnelInvariant, PTL DEF Spec
=============================================================================
