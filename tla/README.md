# TLA+ models of Tiny-Projects-And-Tools-In-Cpp

The repository holds four unrelated programs: a Chord ring (`DHT_Chord/`), two
web proxies (`Web Proxy_C/`), a small shell (`MiniShell/`) and an
error-correcting code (`ECC Code/`). None of them has tests. This directory
holds TLA+ models of them, TLC configurations that check the models on small
instances, and theorems about the models with proofs that TLAPS checks.

Run everything from this directory: `tlc -config X.cfg M` for a run (the module
of each run is in the table below), `tlapm M.tla` for a proof module.

## 1. Inventory

### Chord (`DHT_Chord/chord/chord.c`, `DHT_Chord/query/query.c`)

| Part | State | Operations | Interacts with |
|---|---|---|---|
| routing | `fin_tb`, `postnode`, `localNode` | `findClosestPort`: own successor, own port, or a `find` sent to a finger | the server of the finger |
| node start | none of its own | `main`, `creatFirstNode`, `join` | sends `join` to its contact before it listens itself |
| maintenance thread | `fin_tb`, `postnode`, `postnode2`, `prenode` | `fix_fingers`, `stabilize`, `notify`, `heartBeat`, `resetPreNode`, for ever in `updateFingerTable` | sends `find`, `stable`, `notify`, `keep-alive`, `reset-pre` |
| server | the same globals | `chordNode`: one branch per command word; the accept loop joins the handler thread before it accepts again, so one connection is served at a time | may send `find` itself while it serves `join`, `find` or `query` |
| query client | one socket | connect, one key at a time, quit | holds the server for the whole session |
| printer, console | none | `printNodeInfo`, `commandLine` ("kill" is `exit(0)`) | reads the globals; ends the process |

The three threads of a node share the neighbour structs with no lock. There is
no persistence: a node that dies is gone. What is hard here: every request is a
blocking call from a thread that others may be waiting for; a node is told of a
joiner that does not listen yet; failures are noticed only by a connect that
fails; stale fingers; one half of a two-sided change failing. Correctness means
that a lookup names the node that owns the key and terminates, that the
successors stay one ordered ring while nodes join, that neighbours converge, that
a dead node is forgotten, that requests and replies match, and that nobody waits
for ever.

### Proxy with cache (`Web Proxy_C/Proxy with Cache/`)

| Part | State | Operations | Interacts with |
|---|---|---|---|
| `Cache` | `memoryMap`, `memoryList` (least recently used first), `cacheSize`, a recursive mutex | `get`, `put`, two private `erase` | every session thread; an instance leaves it by pointer, is used after the unlock and is never deleted |
| `CacheInstance`, `HttpHeader`, `HttpBody` | header text and flags, body text | `append` per header line, `getTotSize` with an assertion | the session that fills them |
| `CommClient` | socket, a read buffer with a counter | `openx`, `closex`, `setHostPort`, `readlinex`, `readx`, `writex` | client or origin server |
| `CommServer`, `main` | the listening socket | accept, one detached thread per connection | starts `minion` |
| session `minion` | client and server `CommClient`, close flags | read a request, answer it from the cache or forward it and perhaps cache the response, loop while both sides persist | all of the above |

Hard: session threads interleave in the cache; the size bookkeeping; a request
body that arrives in several segments; the buffer that mixes header and body
reads. Correct: list, map and size agree whenever the mutex is free, the cache
is within its limit and evicts the least recently used, a response belongs to
its request, only complete responses are cached, and each session ends.

### Simplified proxy (`Web Proxy_C/simplified version/`)

| Part | State | Operations | Interacts with |
|---|---|---|---|
| `main` | the listening socket | accept, one detached thread per connection | starts `webTalk` |
| `webTalk` | client and server descriptor, a Rio buffer, the request line | read the line, `open_clientfd` with up to 20 retries, for a GET copy head and response, for a CONNECT `secureTalk` | client, origin server |
| `secureTalk`, `forwarder` | the same two descriptors | copy server to client; copy client to server; the first joins the second | each other, client, server |
| `csapp.c` | the Rio buffer | `Rio_readlineb`, `Rio_readp`, `Rio_writen`, `open_clientfd` | the table of descriptors of the process |

Hard: which side's end of file ends which thread; descriptor numbers that one
thread closes and the system gives to another; bytes that wait in the buffer
when a tunnel starts; the paths that return without closing a socket. Correct: a
thread uses descriptors of its own session only, bytes are neither lost nor
misdirected, sessions end.

### Mini shell (`MiniShell/myShell.cpp`)

| Part | State | Operations |
|---|---|---|
| command loop | current directory, the argument words | read, split, built-ins, fork, wait |
| directory stack | `queue<char*> dirStack` rotated to act as a stack | `pushdir`, `popdir`, `Printdirstack`, `cleandirstack` |
| redirection and pipes | file descriptors of the child, `args`, the index `j` | `redirect`, one `pipe`/`fork`/`waitpid` per `\|`, `execvp` |

Hard: the child waits for the first command of a pipe before it starts the
second, the index that is reset while the words are erased, a failed `execvp`
that falls through, a file that cannot be opened, a directory that disappears
between push and pop, the shell's own included. Correct:
the queue is a stack; each program of a line runs once with its words and
descriptors; no process outlives its line; the prompt comes back.

### Error-correcting code (`ECC Code/`)

| Part | State | Operations |
|---|---|---|
| `GaloisField` | three tables of 256 symbols | `multiply28`, `inv28`, `add28`, `sub28` |
| `encoder.cpp` | none | `dfs_encoder`: values of the message's polynomial at powers of 3 |
| `decoder.cpp` | the matrix of one call | `decoder` picks rows that arrived, `gaussElimination` solves them |
| `fft_encoder.cpp` | none | `recursive_FFT` over the integers modulo 257, roots by `findW` |
| `main.cpp` | none | experiments: lose symbols, decode, time it |

Hard: tables typed by hand, row numbers that skip missing symbols, a zero pivot
that `inv28` does not report, a sum of logarithms that may be 255, `pow` in
`findW` that leaves the range of `int`. Correct: the tables are the field's, any
k surviving symbols decode to the message, the fast transform gives the values
of the message's polynomial at the powers of 3.

## 2. Modules

| Module | What it models | Proofs |
|---|---|---|
| `ChordRing` | the comparisons of ring positions, the finger starts | `ChordLookupProofs`, `ChordProofs` |
| `ChordLookup` | one lookup on a settled ring | `ChordLookupProofs` |
| `Chord` | the protocol: start, maintenance thread, server, query client, kills | `ChordProofs` |
| `LRUStore` | what the cache of the proxy promises | `LRUStoreProofs` |
| `Cache` | the cache and its mutex; implements `LRUStore` | `CacheProofs` |
| `ProxySession` | `minion` with client, origin server and an `LRUStore` | `ProxySessionProofs` |
| `Tunnel` | the simplified proxy: sessions, their threads, the table of descriptors | `TunnelProofs` |
| `Directories` | what the directory commands of the shell promise | |
| `DirStack` | the rotated queue; implements `Directories` | `MiniShellProofs` |
| `MiniShell` | the command loop on top of `DirStack`, children, redirections, pipes | `MiniShellProofs` |
| `GaloisField` | the tables and the field's definition | `ErasureCodeProofs` |
| `ErasureCode` | encoder, a channel that loses symbols, decoder | `ErasureCodeProofs` |
| `FFT` | the transform | |
| `FFTCode` | `fft_encoder` on the messages of `ErasureCode`, beside the transform it should be | |
| `MCChordLookup`, `MCChord`, `MCCache`, `MCProxySession`, `MCTunnel`, `MCMiniShell`, `MCErasureCode` | the sets the runs use | |

The four programs share no state, so there is no module over them. Inside a
program modules are composed: `Chord` and `ChordLookup` use `ChordRing`,
`ProxySession` uses the store that `Cache` implements, `MiniShell` extends
`DirStack`, `ErasureCode` extends `GaloisField`, and `FFTCode` puts
`FFT` beside it.

## 3. Chord

**Positions.** A node is named by its position on the ring; the program names
it by its port and hashes the port (`translate`). The models take the hash to
be a function that tells the ports in use apart, and leave out the digest.
`None` is port 0, what a failed call leaves, and `Key0` is what the key field
holds beside it. `RingSize` is `TOTAL`, 2^32 in the program and 8 in the runs;
`FingerNum` is `FINGER_NUM`. `FingerStart` keeps the conversion of
`localNode.key + pow(2, i)` to `unsigned int`: out of range it is undefined, and
`Saturates` chooses between what x86-64 and AArch64 builds do. `ReadKey` is a key
that was printed with `%u` and read with `atoi` (412): with a `long` of 64 bits
the key itself, with one of 32 (`Narrow`) at most the greatest `int`. Distances of 3
bits are enough for every case of the comparisons: own position, before, after
and across position 0, with room between.

**`ChordLookup`.** `Answer` and `Forward` are the two ways out of
`findClosestPort`. The state is where the lookup is; the fingers of a node are
chosen when the lookup gets there, any member for a stale one, and for a fresh
one what a lookup would find. Finger 0 is what `fix_fingers(0)` leaves: the
successor, except at a node that is `Stuck`. A node at the last position whose
successor is at position 0 looks finger 0 up at position 0, for which no branch
of `findClosestPort` is true (the wrapped test is strict), and keeps itself.
`HopBound` shows that no node is visited twice, so the late choice loses
nothing.

**`Chord`.** One node is a process with a main, a maintenance and a server
thread. `inbox[n]` holds the connections `n` has not finished with; its head is
being served and the others wait in the backlog, `Backlog` of them at most.
`reply[t]` says whether thread `t` waits and what it got. Each `Serve...`
action is one branch of `chordNode`, up to the point where the branch calls
another node: a forwarded lookup is `ServeForward` and later `ServeForwarded`.
The maintenance thread walks through `PC`; `FailOver`, `resetPreNode` and
`GiveUp` are the failed first connect, the message to the new successor and the
failed second connect that `stabilize` and `notify` have in common. A handler
that loops for ever on port 0 has no step. `Die` is `exit(0)`: the kernel closes
all connections, so whoever waits reads 0 bytes, which `atoi` makes port 0.

The statements of one handler are one step, with one exception. `prenode` is
tested in one statement and used in a later one, by the server (440 and 444, 455
and 461), the maintenance thread (`heartBeat`) and the printer (107 to 111), and
another thread may free it and make it NULL in between (333, 479). When it is
freed, `exposed[n]` may become TRUE: some thread has passed its test. `UsePreNode`
is what that thread then does: the process dies on the null pointer, unless there
is a new predecessor by then.

`Prompt` says whether a joiner listens before anybody connects to it; with
FALSE the window between `join` and `listen` is open. `TimesOut` says whether a
connect to a full backlog may give up, which the code takes for a death.

### Runs

| Run | Instance | Shows |
|---|---|---|
| `ChordLookup` | all rings of positions 0..7, 3 fingers, fresh and stale; `Saturates` is TRUE | the right node answers every key except the boundary position and what lies beyond a stuck node (below), in fewer hops than nodes, at most one hop per finger when they are fresh |
| `Chord_join` | nodes 1, 4, 6 (founder 6, so the ring wraps at once), 1 finger, backlog 1, fairness | one ordered ring at every moment of any joins; the neighbours end up right |
| `Chord_kill` | nodes 1, 2, 5 (founder 5), 1 finger, backlog 1; 1 and 2 may be killed at any moment (`Mortal`), so that a fail-over may find its second successor dead as well; keys are read with a `long` of 32 bits (`Narrow`) | calls match, lookups go forward, neighbours change only as they should, and a process ends over its operator or over a null predecessor (below) |
| `Chord_query` | nodes 1, 3, 3 fingers, backlog 2, one client, fairness | queries are answered and the fingers of both nodes end up right while the client comes and goes |
| `Chord_startup` | nodes 1, 5, the start-up window open | violates `Converges` |
| `Chord_joins` | nodes 1, 3, 5, 7, no client | violates `NoCyclicWait` |
| `Chord_delete` | nodes 1, 3, one kill | violates `DeadForgotten` |

Bounds. `Narrow` is TRUE in `Chord_kill` only, `Saturates` in `ChordLookup` only;
the theorems are about both values, but for what they take as hypotheses.
`TimesOut` is FALSE in all runs, since three nodes with it are more than TLC
can go through; the theorems on steps and messages hold for both values, and
TLC went through two nodes with it once by hand (`CallsMatch`, `DiesOnlyAlone`).
Three nodes are what a middle node, a join between two neighbours and a
wait through an intermediary need. The model has a step for each connect that
may fail; one kill leads to both fail-overs, the reset and the retries, and a
second one to the failure of a retry. A backlog of 1 makes every connect wait that can wait.
`NoCyclicWait` needs two joins that meet at two members, hence the four nodes of
`Chord_joins`: with three nodes there is no such cycle, so that `Converges` and
`QueryAnswered` are statements about the instances of their runs and not about
rings of any size. Deadlock is checked in `Chord_join` and
`Chord_query`; with kills a node may really spin or be left alone and stop, and in
`Chord_startup` both processes may end over a null `prenode`.

Fairness. Threads are scheduled by the kernel: weak fairness for the joiner's
start and for the client reading a reply. A maintenance or server thread that
waits to connect to a full backlog is enabled only now and then; the kernel
keeps retransmitting its SYN, so strong fairness. Nothing makes an operator or
a client act, in particular no client has to leave; `Converges` assumes that it
does where a client exists.

### What the violations say

* `Chord_startup`: the contact answers `join` and at once takes the joiner for
  its successor (`chord.c:389-391`). If its own `stabilize` connects before the
  joiner listens, it falls back on `postnode2`, itself, and with
  `postnode->key == localNode.key` none of the tests of lines 275-283 ever
  changes the successor again.
* `Chord_joins`: on a ring of 1 and 5, node 3 joins through 5 and node 7 through 1
  at the same time; each contact forwards the lookup of the `join` to the other
  (`chord.c:399`) while its server is busy with that very `join` (616), and both
  wait for ever. Query sessions do the same: with nodes 1 and 3, three fingers
  and two clients TLC finds two sessions whose lookups go through each other.
* `Chord_delete`: `fix_fingers` (line 186) retries a dead finger for ever, and
  `stabilize`, in the same thread, never runs.

Four more, met while modelling, are in the shape of the passing properties and
have no run of their own:

* the wrapped test of `findClosestPort` is strict (`hashValue < postnode->key`,
  line 128) where the plain one is not. A node at the last position, 2^32 - 1 in
  the program, whose successor is at position 0 is stuck: all its fingers become
  itself, and it names itself for keys that other nodes own. Two ports must hash
  to just these positions for it. `AnswerOwnsKey` names this answer beside the
  right one;
* the same test leaves the key at the position of the lowest node to nobody,
  and the node that answers for it depends on where the lookup starts:
  `AnswerOwnsKey` says that it is the owner or the node just before, and
  `Settled` exempts this one position;
* a null `prenode` ends a process in two ways. The `join` branch does not test it
  (line 392): a node that lost its predecessor and is its own successor dies when
  somebody joins it. And the places that do test it may be overtaken by a `free`
  (`exposed`). `DiesOnlyAlone` says that nothing else ends a process that nobody
  killed;
* a query client that stays silent keeps the node from serving anybody (line
  424): the assumption in `Converges`.

### What is proved

For every ring size, number of fingers, set of nodes and of clients, backlog
and set of nodes that may die, from the assumptions on the constants alone
(`RingAssumption`, `PowerAssumption`, which states what 2^i is, and
`ChordAssumption`) and the hypotheses named below:

* On the comparisons: the routing test and the two adoption tests pick a node
  strictly closer on the ring (`PrecedesCloser`, `AdoptsCloser`,
  `CloserPredecessorCloser`, in `ChordProofs`), and the first test of
  `findClosestPort` picks the owner (`OwnedIsOwner`, `NotForwarded`, in
  `ChordLookupProofs`).
* `ChordLookupProofs`: `TypeOK`, and from `Wide` (`Narrow` is FALSE) `HopBound` and
  `AnswerOwnsKey`, for lookups with any stale fingers; together they are
  inductive. `AnswerOwnsKey` names what a lookup may find besides the owner: the
  node before the boundary position, and the stuck node if it is on the way from
  the start to the key. `FewHops` (`LookupShort`)
  needs more. That there are fewer hops than nodes follows from the set of nodes
  the lookup has been at (`Visits`), all of them further from the key than the
  one it is at. That there is at most one hop per finger is the argument the
  protocol is known for, made for this code (`ForwardHalves`): a hop at least
  halves the distance to the node before the key, except when the key is in the
  wrapped part of the ring and the asked finger is the highest node, which
  happens once and leaves a distance from which the answer follows at once
  (`Crossed`). It assumes `Halving`, the program's own numbers: the ring has
  2^FINGER_NUM positions, `Saturates` is FALSE and `Wide` holds. `FewHops` in the
  build that saturates is what the run `ChordLookup` checks.
* `ChordProofs`: `IInv`, the conjunction of `TypeOK`, `InboxOK` (every `find` in
  an inbox is closer to its key than its sender) and `BusyServerHasCaller`.
  None of the properties is inductive alone: when a forwarded lookup comes back
  there must be a connection to answer, and that no port 0 gets into a finger
  needs the types of what is in the inboxes. Each action keeps each part, with
  one lemma per group of actions. From `IInv` follow the theorems on the state
  (`ChordType`, `ServerKeepsCaller`, `FindsTravelForward`) and on the steps
  (`SuccessorsGetCloser`, `PredecessorsGetCloser`, `NodesOnlyDieAlone`), for
  any values of `Narrow`, `Prompt` and `TimesOut`.
  `OneRequestEach` (`CallsMatch`) has an invariant of its own, `CallsInv`: the
  request of a thread that waits is in one inbox, once, and a thread that does
  not wait is in none (`Matched`); no inbox is longer than the backlog; a node
  that is off waits for nothing. It is inductive because a thread calls only
  when idle, a reply closes the connection it answers, a death both empties the
  inbox and wakes whoever was in it, and no node comes back from the dead
  (`Onward`).
* The same module, on the ring: `SuccessorsFormRing`, that `OneOrderedRing` always
  holds when nodes only join (`OnlyJoins`: nobody is killed, `Mortal` is empty,
  a joiner listens before anyone connects to it, `Prompt`, and no connect times
  out). The hypotheses are needed and are those of the run `Chord_join`: a killed
  node is nobody's way on, and a node whose successor does not listen yet falls back on `postnode2`, at
  first itself, and is a ring of its own (TLC shows both within ten steps on the
  nodes of that run); so does a node whose successor is too busy to accept. The argument is about where successors
  lead. `Leads` says that from `x` one comes to `y` through
  members each of which has the next of them for its successor, without passing
  `y`. `OneRing` is the ring itself: an ordered one through the founder, and
  every set that no successor leaves has the founder in it. What changes
  a ring are three steps, one lemma each: a joiner that is given any member for
  its successor (`Joined`), the first joiner (`FirstJoined`), and `stabilize`,
  which may take `p` in between only because `p` leads to the old successor
  (`Adopted`; `Splice` shows that the members on that way come into the ring in
  their places). Each of them keeps what led somewhere leading there (`Keeps`), so
  that a message may be late. `JoinInv` says where such a `p` comes from: a
  predecessor leads to its node (`PreOK`), so does the sender of a `notify` on
  its way (`Mail`), and the answer to a `stable` leads to the successor of the
  asker, or the test of `stabilize` rejects it (`PendingAt`). The second case is the one
  the code does not look for: the founder asks itself, its first joiner becomes
  its successor before the question is served, and the answer is about a
  successor it no longer has (`Late`). While the founder
  is alone its server is not in the middle of a lookup (`AloneOK`), so that it
  answers its first joiner in the branch made for that. TLC had checked `JoinInv` on the instance of `Chord_join`
  and on one with three fingers and a backlog of two.

Only model-checked: the liveness properties, which are out of the provers' reach.

## 4. Cache of the proxy

`Cache` models `cache.cpp` with any number of session threads. `owner` and
`depth` are the recursive mutex. `memoryList` holds keys with the address of
their element; a `CacheInstance` in `memoryMap` is its value and the address it
keeps as iterator, so an iterator that was not refreshed is visible as such.
Addresses of erased elements are used again. `get` is `GetEnter`, then
`GetMiss`, or `GetHit`, `GetMove` and `GetExit`; `put` is `PutEnter`,
`PutFind`, perhaps `EraseMap`, then `PutInsert`, `Evict` and `EraseList` as
often as needed, and `PutExit`. What `get` returns is used after the unlock;
nothing deletes an instance, so there is nothing to go wrong there, and evicted
instances are leaked.

`LRUStore` is what the cache promises: a store whose `Get` and `Put` are one
step each, never larger than the limit, and which drops what was used longest
ago. `ImplementsLRU` maps the list to its entries; during a `put` the mapping
already shows what the store will hold at its end, which no other session can
see before.

| Run | Instance | Shows |
|---|---|---|
| `Cache` | 2 sessions, 3 keys, values of size 1, 2 and 4, limit 3, 4 addresses | map, list and size agree; the limit; the mutex is released; the LRU store is implemented |

With the limit 3, one pair may be evicted by another, two by one, and a value
of size 4 evicts everything and itself. Three keys are enough for an order of
use that differs from the order of insertion. There is one address more than
there can be elements, so `push_back` always has one that is not in use.
Fairness: a session inside the cache is scheduled; nobody has to call.

### What is proved

For any sessions, keys, values, addresses, sizes and limit, from
`CacheAssumption` alone:

* `LRUStoreProofs` has the facts about the store's operators: what a sum over a
  finite set or a fold over a sequence is when one element comes or goes
  (`SumImage`, `TotalAppend`, `TotalWithout`), and what `Without` and `Fitting`
  leave. Sums and folds are recursions; that one exists for a finite set is
  shown once, by taking a smallest subset without one (`FoldExists`).
  `StoreFits` is about `LRUStore` itself: it never holds two pairs of one key
  nor more than the limit.
* `CacheProofs`: `CacheType`, `MutualExclusion` and `MapAndListAgree`. The
  inductive invariant adds to `TypeOK` the mutex (`MutexOK`), what a session
  knows where it stands (`CallOK`: a key that was found is still there) and that
  no two elements share an address (`Apart`); without the first another session
  could change the map between find and use, and without the last an erase could
  take the wrong element. `RemoveAtIsWithout` and `MatchesWithout` are the facts
  about lists it rests on.
* `SizeAccounted`, that `Accounted` always holds. `SizeOK` is inductive with the
  above: `cacheSize` is the sum over the list (`Pairs`) at every step, the ones
  in the middle of a `put` too, and it exceeds the limit only while a session
  evicts. It follows that the loop that evicts ends before the list is empty,
  the guard of `EraseList`. `SumOverKeys` turns the sum over the list into the
  one over the keys of the map that `Accounted` speaks of.
* `CacheIsLRU`, the refinement `ImplementsLRU`. Each step of a session is a
  stutter but two: the one that finds (or misses) is `Get`, and the one that
  takes the mutex for a `put` is `Put` (`GetRefines`, `PutRefines`,
  `RestRefines`). While a `put` is under way the mapping shows the store with
  all that is still to be evicted gone; `RoomIsMade` shows that `Evict` and
  `EraseList` take from the list what `Fitting` leaves out.

`Released` is a liveness property and stays with TLC.

## 5. Sessions of the proxy

`ProxySession` models `minion` with the two it talks to: a client that asks
again once it has its answer, and an origin server that answers what it has in
full. A message is a head, which arrives whole, and units of body that arrive
one by one; `up` and `down` hold what minion has not yet read. Either end may
close its connection at any time (`ClientLeaves`, `ServerLeaves`); items already
sent can still be read, a write to a closed connection is lost or fails. One
action is one read or one write with the control that follows it: `ReadRequest`,
`Lookup`, `Hit`; `Open` (a connection to the same origin is used again),
`Body`, `Answer`, `Relay`, `Finish` (put into the cache, close or go on). The
early returns are `RequestEnds`, `OpenFails`, `ServerLost` and `ClientLost`. The
shared cache is an `LRUStore`, which `Cache` implements, so a `get` or `put`
is one step here.

| Run | Instance | Shows |
|---|---|---|
| `ProxySession` | 1 thread after another; 2 origins, one of them with two pages; cachable GETs, a POST of two units, a CONNECT; responses with 2, 1 (an error) and no units, chunked, and delimited by the end of the connection; cache of 4 | all five properties |

The run has one session at a time; sessions share only the cache. The theorems
below are about any number of them, so that what one puts while another looks
up is covered by proof. TLC went once by hand through two sessions at a time with
two pages and the cachable messages (`RightAnswer`, `CacheWhole`; 2.6 million
states). The interleavings inside the cache are those of the run `Cache`.

A body of two units is enough to be cut in the middle, and the cache holds one
entry with a full body and evict it for the next. What the code does and one may
not expect:

* a request body is passed on with one read (main.cpp:255). If more arrives
  later, client, minion and server wait for each other until one gives up;
  `Told` exempts this state (`CutShort`);
* when a connection ends inside a body with a Content-Length, `serverClose` is
  set (360) and overwritten (400): with a persistent header minion goes on and
  the client waits for the rest. `Told` exempts this (`BrokenOff`), and
  `CacheWhole` shows that the part is not cached;
* a response with neither Content-Length nor chunks counts as one without a
  body. Its body is lost and its head is cached. The run's response of this
  kind says `Connection: close`; without that the session would go on with the
  body still in the connection, and `InStep` would not hold;
* a hit whose body is empty ends the session, since `writex` returns the size,
  0, which equals `false` (228); and a hit does not notice a failed write;
* after a hit `clientClose` is not looked at: minion waits for the client to
  close;
* the cache key has no port (203): the runs give each origin its own host, and
  with both on one host `RightAnswer` fails;
* nor has it the method. `put` does not look at the request (401-416), so what a
  POST was answered is cached and answers the next GET of that page. `RightAnswer`
  is about the page for every answer, and about the method for those that do not
  come from the cache;
* what is left of a request body that was not read whole is read as the next
  request line (169). In the model it is not one, and the session ends; a body
  with three words in its next line would be taken for a request;
* a status line without a code fails an assertion (304), which ends the process
  with all its sessions. Servers of the model send heads that parse.

Fairness: threads are scheduled, a client sends the body it announced and a
server that has the request answers, unless they close. Nobody has to ask or to
leave.

### What is proved

`ProxySessionProofs`, for any number of sessions, origins, files, requests and
responses, any bound on bodies and any limit of the cache: `SessionTypes`,
`WholeAnswersCached`, `StaysInStep` and `AnswersAreRight`, the four invariants of
the run. Beside `SessionAssumption` they have two hypotheses, each of which the
code needs and does not check, and which the run's instance satisfies:

* `ClosesTold`: a response whose body ends with the connection says so, with a
  header `Connection: close`. Without it `minion` takes the connection to be
  persistent (httpheader.cpp:9, main.cpp:400) and reads the body as the head of
  the next answer.
* `HostsDiffer`, for `AnswersAreRight` only: no two origins share a host, since
  the cache key has no port. There is no such hypothesis about methods: the
  theorem promises nothing of the method of a cached answer.

With either dropped TLC finds a counterexample. The inductive invariant `IInv`
adds to the types and to `CacheWhole` one formula for each session, `Flow`: where
the units of the current request and of the current answer are. `Answering` is
the client's side whatever minion does; then, for each place of minion, what the
two connections may hold: nothing (`AtStart`), the next request or nothing while
the answer is still on its way to a client that has all it asked for
(`AtRequest`), the rest of a request body (`AtOpen`, `AtAnswer`), an answer
that has begun to arrive (`Answered`), and inside an answer that what was read,
what has arrived and what the server still owes add up to what the head
announces (`Rest`, in `AtRelay`). `Relayed` is needed because a client may have
its whole answer, and even ask again, before minion has noticed that it is over.
A step of one session leaves the others' variables alone (`Elsewhere`); all they
share is the cache, which `AfterGet` and `AfterPut` take care of. `Over` is where
`ClosesTold` is used: when minion goes on to the next request nothing is left.

Not modelled: heads in pieces, heads that do not parse (304), bodies that parse
as heads (169), servers that send more than they announce, the read
buffer (`readx` returns what it holds, all of it, since minion's size is as large as the buffer's rest).

## 6. Error-correcting code

`GaloisField` holds the three tables as they are typed in `galoisField.cpp` and
the four functions on them, and beside them `Product`, multiplication of
polynomials over bits modulo `POLY`, which is what the tables are for.
`ErasureCode` is one message on its way: `Init` encodes it (`dfs_encoder`),
`Lose` overwrites a symbol as `main.cpp` does, and `Build`, `Pivot`,
`Eliminate`, `Turn`, `Solve` and `Return` are one call of `decoder` and
`gaussElimination`, a step for each turn of the loop over the columns; the inner
loops are functions. C's `^` is `Xor`, bit by bit, and the loops that build rows,
sums and equations are recursive functions, so that one can prove something about
them. `FFT` is `recursive_FFT` with the unsigned arithmetic of
the code: a root that is negative is used as 2^32 plus itself. `FFTCode` gives
`fft_encoder` a message of `ErasureCode` behind some zeros (`Spread`), so that it
has coefficients anywhere in the 256 places, and compares the code with the
values of the message's polynomial at the powers of 3 modulo 257
(`IsTransform`), computed without any of `FFT`. The two codes share nothing else.

| Run | Instance | Shows |
|---|---|---|
| `ErasureCode` | each of the 256 symbols with a 1 behind it, and five messages of 3 and 4 symbols; 5 symbols sent, any set of them lost; the transform of each message behind as many zeros as its first symbol says, with both outcomes of an undefined conversion | all five properties |

`FieldTables` compares every pair of symbols and every inverse: this is the
whole input space. `SameSolution` and `Decoded` go through all 32 patterns of
loss for each message; a message of 4 leaves matrices with swaps, with a pivot
from below and with rows that skip one or more symbols. The transform is linear,
so that a few coefficients at a time show most of it. There is nothing concurrent
here, and nothing to be fair to.

What the code does and one may not expect:

* `findW` computes 3^(256/n) in `double` and converts it to `int`. For n = 8 and
  less the power does not fit, and the roots for 8 and for 4 elements are wrong
  (that for 2 is not used). Every transform of 256 comes down to arrays of these
  sizes. `ECC Code/README.md:6-9` speaks of a fast transform under GF(257);
  `Transform` says for which messages there is one: exactly those with no symbol
  but 0 at the places 33 to 128 and 161 to 256 (`MeetsWrongRoot`). The messages
  that `main.cpp` transforms have 10 and 26 symbols, which is short enough;
* with fewer than k symbols left the decoder solves the equations it has and
  fills up with zeros: the message is wrong and nothing tells (`Decoded` is about
  the other case, `TypeOK` about this one);
* `inv28(0)` is 0, so a zero pivot would go unnoticed. `Decoded` shows that
  there is none;
* bases of rows are powers of 3, which has order 255: codewords longer than 255
  repeat rows (`CodeAssumption`).

### What is proved

`ErasureCodeProofs`, from `CodeAssumption` (the length n of a codeword is at most
255, a message has 1 to n symbols, what marks a lost symbol is above 256):
`TypeCorrect`, `TablesAreRight`, `KeepsTheSolution` and `MessageDecoded`, that is
`TypeOK`, `FieldTables`, `SameSolution` and `Decoded`, for every message, every n
and every loss. The run has five symbols and a few messages; what it cannot
reach is a pivot that becomes zero for some other message or pattern. The
argument, in the order of the module:

* *The tables are a field's.* Each entry of `ExpTable` is three times the one
  before it, and `LogTable` and `InvTable` are its inverses (`ExpTriples`,
  `ExpOfLog`, `LogOfExp`, `LogOfInv`: the prover goes through the entries). So
  `multiply28` adds logarithms modulo 255 (`MulLog`), 255 itself included, and is
  commutative and associative, with inverses. Tripling is linear bit by bit, hence so
  is multiplication by any power of 3 (`Distributes`), and `multiply28` is the
  product of polynomials (`Multiplies`).
* *Sums.* What the recursive functions return is what their definitions say
  (`Recursion`, by a least exception; `PowersFacts`, `SumsFacts`), and `Dot` is
  linear on both sides (`DotLinear`, `DotChange`, `DotComm`).
* *Few zeros.* Dividing a polynomial by a linear one (`Division`, `Divided`)
  leaves a quotient that vanishes at the other zeros, so one with k coefficients
  and k different zeros is zero (`Vandermonde`). The first 255 powers of 3 are
  different (`Bases`), and the decoder picks different rows (`NewMatrix`): only zero
  is mapped to zero by the matrix it builds (`BuiltNonsingular`). Here n <= 255 is
  needed.
* *The elimination.* `SameSolution` and `Decoded` are not inductive. `System`
  adds to "the message solves the equations" that the matrix is `Nonsingular`, that
  the columns before i are `Cleared`, and during back substitution that the right
  sides hold what is left of the message (`Reduced`). A pivot that is 0
  contradicts them: the row swapped in has the greatest entry of the column, so
  all are 0, and back substitution completes a vector that is not zero and is
  mapped to zero (`PivotIsNotZero`). A swap, a subtraction and a turn of back
  substitution keep all four (`Swapped`, `Eliminated`, `Resolved`).

`Types` says which of the parts there are in which phase, and that what
arrived is as it was sent (`Arrived`). TLC had checked `Types` and `System` on the
run's instance, `Nonsingular` of it for some messages of two symbols.

Only model-checked: `Transform`, since `FFT` has a recursive operator, which
no module with theorems may reach.

## 7. Mini shell

**Directories.** `Directories` is the promise: a current directory and a stack.
`DirStack` has the queue. `popdir` and `Printdirstack` are loops over the queue
and are modelled turn by turn: `pc` is `"pop"` or `"show"`, `turned` counts, and
`Popped` and `Shown` are what follows the loop. The refinement maps the queue to
what it was before it was turned (`Unturned`). `Rmdir` and `Mkdir` are other
programs: a directory on the stack may be gone when it is popped, and the shell's
own may be removed under it (`lost`). `getcwd` then fails, `pushdir` does not look
(26), and what it pushes is an uninitialised buffer, any of `Names`.
`Directories` allows any name there, too, and promises everything else: the
stack below it, and where a pop leads.

**Lines.** A line is a sequence of words. `procs` holds the processes of the
line. Process 1 is the child of the shell; a process has the words still to look
at (`args`), the index `j`, the words of the last `parseLine` (`cmd`) and three
descriptors. `Redirect`, `MakePipe`, `ExecPipe`, `Waited` and `ExecLast` are the
branches of the child's loop. A file can be opened or not (`Opens`); if not, `dup2`
fails as well and the descriptor stays where it was (143-150). An `exec`ed program is external: it writes some
units (`Write`, which a full pipe stops), reads its input and ends. The processes
run concurrently, except that the code waits. `log` records what was executed
with its words and descriptors.

| Run | Instance | Shows |
|---|---|---|
| `MiniShell` | 23 lines (directory commands, redirections to files that open and that do not, up to two pipes, programs that are not found), 2 directories and a name of none, stack of 3, 4 processes, pipes that hold 1 of up to 2 units | all five properties |

One unit more than a pipe holds is enough to fill it; two pipes and a
program that is not found give the longest chain of fall-throughs, which needs
three processes. Fairness: the kernel schedules every process; nobody has to
type a line, so deadlock is not checked.

What the code does and one may not expect. The first four `Plain` exempts from
`RunAsMeant`; the run contains each of them:

* after a pipe all remaining words become `cmd`, operators and file names among
  them (337): `a | b > f` does redirect, but `b` is given the words `>` and `f`;
* a redirection before a pipe is made in the process that goes on to be the
  last: `a > f | b` sends what `b` writes to `f` too, and of a redirection in
  front of a pipe the words stay in `cmd`;
* the loop sets `j` to 0 after a redirection and then increments it (287): a
  redirection that comes to stand first is not looked at;
* a failed `execvp` behind a pipe falls through into the code of the child (326):
  `x | b | c` with `x` not found runs `c` twice. `NoneLeft` shows that even then
  no process outlives the line;
* a file that cannot be opened, for input or for output, leaves the descriptor
  where it was, and the program runs all the same: `RunAsMeant` says so;
* the process in front of a pipe is waited for before the one behind is started
  (328): if it writes more than the pipe holds, both wait for ever.
  `PromptReturns` holds up to this (`Overfull`).

### What is proved

For any lines, directories, files that open, programs, processes, capacity and depth, from
`DirAssumption` (directories have names) and `ShellAssumption`: behind an operator
there is a word that is none. The code reads that word without looking, past the
end in a line such as `a >`; such lines are outside the model.

* `MiniShellProofs`: `DirsType` and `QueueIsStack`, the refinement. The type
  carries what the argument needs: while `pc` is `"pop"` there is an entry to
  turn, and `turned` is 0 outside the loops. `TurnKeepsStack` shows that a turn is
  a stutter and `FrontIsTop` that the front, after all but one turns, is the top.
* the same module, on the processes: `ShellTypes` and `NothingLeft`. The invariant `ShellInv`
  has five parts. `ProcsType` is the type; `ArgsInv`, that behind an operator
  there is a word, in the words of every process; `FreeInv`, that processes are
  taken from the lowest. `ChainInv` is the heart: above a process that scans,
  executes or runs none is alive, and above one that waits none unless its child
  is, which is the first of them. So at most one process of a line is not
  waiting, although a failed `execvp` makes a child go on as its parent would.
  From it follows `FirstInv`: the child of the shell lives as long as any, and
  the shell waits for that one.

* `LineRunsAsMeant`, for lines of any length with any number of pipes:
  `RunAsMeant` always holds. `Pipeline(l)` is read off the line alone, while `log`
  comes of processes that erase, cut and copy words, so the invariant must say at
  every step which places of the line a process has left. All words are
  `Selected(l, K)`, the words of `l` at the places `K`, and the first half of the
  argument is about that operator: the rank of a place among `K`, and what
  appending, cutting (`SelectedCut`) and erasing two neighbours (`EraseWords`) do to
  `K`. `NextPlace` then says which place of the line the loop's `j` stands for.
  The invariant `MeantInv` has three cases while the shell waits. `Reading`: its
  child reads the part behind the pipe `d`, with the redirections up to `e` done;
  what it has left is `Left(l, d, e)`, and where its descriptors lead is decided by
  the operators up to `e`. `Piping`: it waits at the pipe `b`, and the process of the
  part has not executed it, or has failed to and finds no operator behind `b`
  (here a second pipe behind would break it, which `Plain` excludes), or has.
  `Ran`: the last program was executed. The number of pipes made is the number
  of `|` passed (`PipesTo`), and `log` is always the programs of the parts passed
  (`Taken`, which `TakenPart` extends by one). From `ChainInv` follows that only the
  child, or the one process it waits for, can move.

`PromptReturns` (liveness) is only model-checked.

## 8. Simplified proxy

`Tunnel` models `proxy.c` with what it uses of `csapp.c`, for a set of sessions,
each a connection a client makes. `pc` is where `webTalk` (and `secureTalk`
inside it) is, `fpc` the forwarder. A descriptor is a number; `fds` says what
connection is behind it, and `Accept` and `Connect` take the lowest free one, as
the system does. `rio` is the Rio buffer, which only `webTalk` reads through.
Each connection has a far end, which sends the items of a script one at a time,
may leave at any time, and collects what it is given (`got`). A far end that
leaves with data unread resets the connection, and what it sent last may be lost
(`Leaves`). `Copy` is one turn of a loop of `Rio_readp` and `Rio_writen`.

| Run | Instance | Shows |
|---|---|---|
| `Tunnel` | 2 sessions, 4 descriptors, 1 retry; the first session makes a GET with a keep-alive line, a CONNECT with data, another command or a line without a url and gets one piece of data; the second is a tunnel whose ends only close | all three properties |

Two sessions with four descriptors give every number a chance to be closed
by one and handed to the other; a connect that fails twice takes the last free
ones. Two full sessions were checked once by hand for safety (16.5 million
states); the run keeps the second one small so that liveness is checked in a
minute. Fairness: threads are scheduled; clients and servers need not act.

What the code does and one may not expect:

* what the Rio buffer holds when a tunnel starts is never passed on: of a
  CONNECT whose head arrives with its first line the server sees nothing, of one
  whose head arrives later it gets the rest of the head as if it were data
  (`RightBytes` states both);
* when one direction of a tunnel ends the thread waits for the other, which is
  not told (286): the session ends when both far ends have closed.
  `SessionEnds` says exactly this;
* a client that leaves before it asked, or sends a line of fewer than two words
  or with a colon and no port, ends the process: `strtok_r` gives NULL, and
  `parseAddress` passes it to `strstr` or `atoi` (`NoRequest`, lines 122 and 147);
* a command other than GET and CONNECT leaves both descriptors open (245), and
  every failed connect its socket (csapp.c:735): `OwnDescriptors` allows these
  two and no other;
* `gethostbyname` returns storage that all threads share (csapp.c:725): a
  session may connect to another one's server. The model does not say which
  server a name stands for.

### What is proved

`TunnelProofs`, for any number of sessions, descriptors and retries and whatever
the ends send, from `TunnelAssumption` (scripts are sequences of items):
`TunnelTypes` and `DescriptorsAreOwn`. `OwnDescriptors` is inductive with the
types: its second half, that a number in use is held by the session of its
connection, is what makes closing one session harmless to the others. `Asked` is
added because the answer depends on a request line that was read.

The same module proves `BytesArrive`, that `RightBytes` always holds. The invariant
(`Flow`) compares everything a far end has sent with where it can be: what was
read from a client is what it sent but its unread inbox, and it is the request
line, the buffer and what the server got (in a tunnel), or what came of each
line (for a GET); the same for a server and its client. `Quiet` says that before
there is a server nothing goes either way, and that a thread that joins or
closes has met the end of its input. Sequences are compared whole, with lemmas
on concatenation.

## 9. What stays with TLC, and what is not modelled

Out of the provers' reach: liveness (`Converges`, `QueryAnswered`, `Released`,
`Told`, `SessionEnds`, `PromptReturns` and the like), which needs ENABLED. The
library's induction theorems take an operator as a parameter, which the provers
here cannot instantiate, so induction is by a least element
(`LeastNatural` in the Chord proofs, `UpTo` in `ErasureCodeProofs`, and sums in
`LRUStoreProofs`).
`FFT` has a recursive operator, with which a module can hold no proofs:
`Transform` is the one safety property that TLC checks and no theorem states.

Not modelled:

* SHA-1 (third-party code, twice), the node printer, all wording and timing;
* Chord, one statement at a time: of the races on the neighbour structs only the
  null pointer is modelled (`exposed`). What a read of freed memory gives (444,
  461, 332 and the printer) is up to the allocator, and a handler that reads a
  port, connects and then reacts may react to another neighbour than it called;
  so may one that sees a neighbour's new port with its old key, two stores (276).
  Also a message that `recv` returns in pieces (381), the uninitialised buffer
  `translate` appends to (97), and the sockets that failed connects leave open
  (155);
* proxy: heads in pieces, servers that send more than they announce (377), a
  short write, which is retried from the advanced pointer with the full size
  (commclient.cpp:236), two origins on one host (203), a status line without a code
  (304), a body that parses as a request (169);
* simplified proxy: accept failing, writes that block, name resolution; of
  `csapp.c` everything the proxy does not call;
* shell: escapes and quotes, `pipe()` or the fork behind it failing, a pipe
  without a word on one side (the code reads past the words);
* error-correcting code: codewords longer than 255, messages longer than the
  codeword, the driver's experiments beyond what they do to a codeword.

`PROJECT.json` lists most of the hazards among these at their lines, with the reason
why no property covers them.
