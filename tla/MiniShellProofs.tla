-------------------------- MODULE MiniShellProofs --------------------------
(***************************************************************************)
(* The shell, for every set of directories, lines and programs and every   *)
(* bound: the queue of directories implements a stack, the processes of a  *)
(* line are well typed, when the shell is at its prompt none is left, and  *)
(* a plain line executes each of its programs once, as it is meant.        *)
(*                                                                         *)
(* A process waits for each process it forks, so at any time at most one   *)
(* is not waiting, and it is the last of those that live: the invariant    *)
(* of the processes is that chain.  For a plain line it has at most two    *)
(* links, and what each process still has to do is known from the places   *)
(* in the line of the words it has left.                                   *)
(***************************************************************************)
EXTENDS MiniShell, SequenceTheorems, FiniteSetTheorems, WellFoundedInduction, TLAPS

-----------------------------------------------------------------------------
(***************************************************************************)
(* Turning a queue.                                                        *)
(***************************************************************************)
LEMMA UnturnedType ==
    ASSUME NEW q \in Seq(Names), NEW t \in 0 .. Len(q)
    PROVE  Unturned(q, t) \in Seq(Names) /\ Len(Unturned(q, t)) = Len(q)
<1>1. Len(q) \in Nat /\ \A k \in 1 .. Len(q) : q[k] \in Names
  BY ElementOfSeq, LenProperties
<1>2. \A k \in 1 .. Len(q) : Unturned(q, t)[k] \in Names
  BY <1>1 DEF Unturned
<1>3. Unturned(q, t) \in [1 .. Len(q) -> Names]
  BY <1>2 DEF Unturned
<1> QED
  BY <1>1, <1>3, SeqDef

\* A queue that was not turned, or all the way, is as it was.
LEMMA UnturnedWhole ==
    ASSUME NEW q \in Seq(Names), NEW t \in {0, Len(q)} PROVE Unturned(q, t) = q
<1>1. Len(q) \in Nat
  BY LenProperties
<1>2. \A k \in 1 .. Len(q) : Unturned(q, t)[k] = q[k]
  BY <1>1 DEF Unturned
<1>3. Unturned(q, t) \in Seq(Names) /\ Len(Unturned(q, t)) = Len(q)
  BY <1>1, UnturnedType
<1> QED
  BY <1>2, <1>3, SeqEqual

LEMMA TurnedQueue ==
    ASSUME NEW q \in Seq(Names), q # <<>>
    PROVE  LET r == Append(Tail(q), Head(q))
           IN  /\ r \in Seq(Names) /\ Len(r) = Len(q) /\ Len(q) \in Nat \ {0}
               /\ \A k \in 1 .. Len(q) - 1 : r[k] = q[k + 1]
               /\ r[Len(q)] = q[1]
<1> DEFINE r == Append(Tail(q), Head(q))
<1>1. Len(q) \in Nat \ {0} /\ Head(q) = q[1]
  BY EmptySeq
<1>2. /\ Tail(q) \in Seq(Names) /\ Head(q) \in Names /\ Len(Tail(q)) = Len(q) - 1
      /\ \A k \in 1 .. Len(Tail(q)) : Tail(q)[k] = q[k + 1]
  BY HeadTailProperties
<1>3. /\ r \in Seq(Names) /\ Len(r) = Len(Tail(q)) + 1
      /\ \A k \in 1 .. Len(Tail(q)) : r[k] = Tail(q)[k]
      /\ r[Len(Tail(q)) + 1] = Head(q)
  BY <1>2, AppendProperties
<1> QED
  BY <1>1, <1>2, <1>3

\* One more turn, counted, changes nothing in what the queue stands for.
LEMMA TurnKeepsStack ==
    ASSUME NEW q \in Seq(Names), NEW t \in 0 .. Len(q) - 1, q # <<>>
    PROVE  Unturned(Append(Tail(q), Head(q)), t + 1) = Unturned(q, t)
<1> DEFINE r == Append(Tail(q), Head(q))
<1>1. /\ r \in Seq(Names) /\ Len(r) = Len(q) /\ Len(q) \in Nat \ {0}
      /\ \A k \in 1 .. Len(q) - 1 : r[k] = q[k + 1]
      /\ r[Len(q)] = q[1]
  BY TurnedQueue
<1> HIDE DEF r
<1>2. \A k \in 1 .. Len(q) : Unturned(r, t + 1)[k] = Unturned(q, t)[k]
  <2> SUFFICES ASSUME NEW k \in 1 .. Len(q)
               PROVE  Unturned(r, t + 1)[k] = Unturned(q, t)[k]
    OBVIOUS
  <2>1. Unturned(r, t + 1)[k] = IF k <= t + 1 THEN r[Len(q) - (t + 1) + k] ELSE r[k - (t + 1)]
    BY <1>1 DEF Unturned
  <2>2. Unturned(q, t)[k] = IF k <= t THEN q[Len(q) - t + k] ELSE q[k - t]
    BY <1>1 DEF Unturned
  <2>3. CASE k <= t
    <3>1. Len(q) - (t + 1) + k \in 1 .. Len(q) - 1
      BY <1>1, <2>3
    <3>2. r[Len(q) - (t + 1) + k] = q[Len(q) - (t + 1) + k + 1]
      BY <1>1, <3>1
    <3> QED
      BY <1>1, <2>1, <2>2, <2>3, <3>2
  <2>4. CASE k = t + 1
    BY <1>1, <2>1, <2>2, <2>4
  <2>5. CASE k > t + 1
    <3>1. k - (t + 1) \in 1 .. Len(q) - 1
      BY <1>1, <2>5
    <3>2. r[k - (t + 1)] = q[k - (t + 1) + 1]
      BY <1>1, <3>1
    <3> QED
      BY <1>1, <2>1, <2>2, <2>5, <3>2
  <2> QED
    BY <1>1, <2>3, <2>4, <2>5
<1>3. /\ Unturned(r, t + 1) \in Seq(Names) /\ Len(Unturned(r, t + 1)) = Len(q)
      /\ Unturned(q, t) \in Seq(Names) /\ Len(Unturned(q, t)) = Len(q)
  BY <1>1, UnturnedType
<1>4. Unturned(r, t + 1) = Unturned(q, t)
  BY <1>2, <1>3, SeqEqual
<1> QED
  BY <1>4 DEF r

\* With one turn left, the front is the top of the stack and the rest is the
\* stack below it.
LEMMA FrontIsTop ==
    ASSUME NEW q \in Seq(Names), q # <<>>
    PROVE  LET s == Unturned(q, Len(q) - 1)
           IN  /\ s \in Seq(Names) /\ s # <<>>
               /\ s[Len(s)] = Head(q)
               /\ SubSeq(s, 1, Len(s) - 1) = Unturned(Tail(q), 0)
<1> DEFINE s == Unturned(q, Len(q) - 1)
<1>1. Len(q) \in Nat \ {0} /\ Head(q) = q[1]
  BY EmptySeq
<1>2. /\ Tail(q) \in Seq(Names) /\ Len(Tail(q)) = Len(q) - 1
      /\ \A k \in 1 .. Len(Tail(q)) : Tail(q)[k] = q[k + 1]
  BY HeadTailProperties
<1>3. s \in Seq(Names) /\ Len(s) = Len(q)
  BY <1>1, UnturnedType
<1>4. \A k \in 1 .. Len(q) - 1 : s[k] = q[k + 1]
  BY <1>1 DEF Unturned
<1>5. s[Len(q)] = q[1]
  BY <1>1 DEF Unturned
<1> HIDE DEF s
<1>6. s # <<>>
  BY <1>1, <1>3, EmptySeq
<1>7. \A k \in 1 .. Len(q) - 1 : s[k] \in Names
  BY <1>1, <1>3, ElementOfSeq
<1>8. /\ SubSeq(s, 1, Len(q) - 1) \in Seq(Names)
      /\ Len(SubSeq(s, 1, Len(q) - 1)) = Len(q) - 1
      /\ \A k \in 1 .. Len(q) - 1 : SubSeq(s, 1, Len(q) - 1)[k] = s[k]
  <2>1. PICK n \in Nat : n = Len(q) - 1
    BY <1>1
  <2>2. \A k \in 1 .. n : s[k] \in Names
    BY <1>7, <2>1
  <2>3. /\ SubSeq(s, 1, n) \in Seq(Names)
        /\ Len(SubSeq(s, 1, n)) = IF 1 <= n THEN n - 1 + 1 ELSE 0
        /\ \A k \in 1 .. n - 1 + 1 : SubSeq(s, 1, n)[k] = s[1 + k - 1]
    BY <2>2, SubSeqProperties
  <2> QED
    BY <2>1, <2>3
<1>9. SubSeq(s, 1, Len(q) - 1) = Tail(q)
  BY <1>1, <1>2, <1>4, <1>8, SeqEqual
<1>10. Unturned(Tail(q), 0) = Tail(q)
  BY <1>2, UnturnedWhole
<1>11. /\ s \in Seq(Names) /\ s # <<>> /\ s[Len(s)] = Head(q)
       /\ SubSeq(s, 1, Len(s) - 1) = Unturned(Tail(q), 0)
  BY <1>1, <1>3, <1>5, <1>6, <1>9, <1>10
<1> QED
  BY <1>11 DEF s
-----------------------------------------------------------------------------
(***************************************************************************)
(* Every step of the shell is one of a stack of directories, or none.      *)
(***************************************************************************)
StackStep == [Abstract!Next]_<<cwd, lost, exists, Unturned(dirStack, turned)>>

\* Commands start with a queue that is as it should be.
LEMMA AtPrompt ==
    ASSUME DirTypeOK, pc = "prompt"
    PROVE  turned = 0 /\ Unturned(dirStack, turned) = dirStack /\ dirStack \in Seq(Names)
<1>1. turned = 0 /\ dirStack \in Seq(Names)
  BY LenProperties DEF DirTypeOK
<1> QED
  BY <1>1, UnturnedWhole

LEMMA SameStack ==
    ASSUME UNCHANGED <<cwd, lost, dirStack, turned, exists>> PROVE StackStep
BY DEF StackStep

LEMMA GoesStep ==
    ASSUME DirTypeOK, NEW d, Goes(d), UNCHANGED exists
    PROVE  /\ cwd' \in Dirs /\ lost' \in BOOLEAN /\ (~lost' => cwd' \in exists')
           /\ d \in exists => Abstract!Go(d)
           /\ d \notin exists => UNCHANGED <<cwd, lost>>
<1>1. cwd \in Dirs /\ lost \in BOOLEAN /\ exists \subseteq Dirs /\ (~lost => cwd \in exists)
  BY DEF DirTypeOK
<1>2. CASE d \in exists
  <2>1. cwd' = d /\ lost' = FALSE
    BY <1>2 DEF Goes
  <2> QED
    BY <1>1, <1>2, <2>1 DEF Abstract!Go
<1>3. CASE d \notin exists
  <2>1. cwd' = cwd /\ lost' = lost
    BY <1>1, <1>3 DEF Goes
  <2> QED
    BY <1>1, <1>3, <2>1
<1> QED
  BY <1>2, <1>3

LEMMA ChdirStep ==
    ASSUME DirTypeOK, pc = "prompt", NEW d, chdir(d)
    PROVE  DirTypeOK' /\ StackStep
<1>1. Goes(d) /\ UNCHANGED <<pc, dirStack, turned, exists>>
  BY DEF chdir
<1>2. /\ cwd' \in Dirs /\ lost' \in BOOLEAN /\ (~lost' => cwd' \in exists')
      /\ d \in exists => Abstract!Go(d)
      /\ d \notin exists => UNCHANGED <<cwd, lost>>
  BY <1>1, GoesStep
<1>3. DirTypeOK'
  BY <1>1, <1>2 DEF DirTypeOK
<1>4. CASE d \in exists
  <2>1. Abstract!Cd
    BY <1>1, <1>2, <1>4 DEF Abstract!Cd
  <2> QED
    BY <1>3, <2>1 DEF StackStep, Abstract!Next
<1>5. CASE d \notin exists
  BY <1>1, <1>2, <1>3, <1>5, SameStack
<1> QED
  BY <1>4, <1>5

LEMMA PushdirStep ==
    ASSUME DirTypeOK, pc = "prompt", NEW d, pushdir(d)
    PROVE  DirTypeOK' /\ StackStep
<1>1. Goes(d) /\ UNCHANGED <<pc, turned, exists>>
  BY DEF pushdir
<1>2. /\ cwd' \in Dirs /\ lost' \in BOOLEAN /\ (~lost' => cwd' \in exists')
      /\ d \in exists => Abstract!Go(d)
      /\ d \notin exists => UNCHANGED <<cwd, lost>>
  BY <1>1, GoesStep
<1>3. CASE d \notin exists
  <2>1. dirStack' = dirStack
    BY <1>3 DEF pushdir
  <2> QED
    BY <1>1, <1>2, <1>3, <2>1, SameStack DEF DirTypeOK
<1>4. CASE d \in exists
  <2>1. PICK was \in IF lost THEN Names ELSE {cwd} : dirStack' = Append(dirStack, was)
    BY <1>4 DEF pushdir
  <2>2. turned = 0 /\ Unturned(dirStack, turned) = dirStack /\ dirStack \in Seq(Names)
    BY AtPrompt
  <2>3. was \in Names
    BY <2>1, DirAssumption DEF DirTypeOK
  <2>4. dirStack' \in Seq(Names)
    BY <2>1, <2>2, <2>3, AppendProperties
  <2>5. Len(dirStack') \in Nat
    BY <2>4, LenProperties
  <2>6. DirTypeOK'
    BY <1>1, <1>2, <2>2, <2>4, <2>5 DEF DirTypeOK
  <2>7. Unturned(dirStack', turned') = dirStack'
    BY <1>1, <2>2, <2>4, UnturnedWhole
  <2>8. Abstract!Push
    BY <1>1, <1>2, <1>4, <2>1, <2>2, <2>7 DEF Abstract!Push
  <2> QED
    BY <2>6, <2>8 DEF StackStep, Abstract!Next
<1> QED
  BY <1>3, <1>4

LEMMA CleanStep ==
    ASSUME DirTypeOK, pc = "prompt", cleandirstack
    PROVE  DirTypeOK' /\ StackStep
<1>1. pc' = "exited" /\ dirStack' = <<>> /\ UNCHANGED <<cwd, lost, turned, exists>>
  BY DEF cleandirstack
<1>2. turned = 0
  BY AtPrompt
<1>3. dirStack' \in Seq(Names) /\ Len(dirStack') = 0
  BY <1>1, EmptySeq
<1>4. DirTypeOK'
  BY <1>1, <1>2, <1>3 DEF DirTypeOK
<1>5. Unturned(dirStack', turned') = <<>>
  BY <1>1, <1>2, <1>3, UnturnedWhole
<1>6. Abstract!Clean
  BY <1>1, <1>5 DEF Abstract!Clean
<1> QED
  BY <1>4, <1>6 DEF StackStep, Abstract!Next

\* popd and dirstack begin to turn the queue.
LEMMA BeginStep ==
    ASSUME DirTypeOK, pc = "prompt", popdir \/ Printdirstack
    PROVE  DirTypeOK' /\ StackStep
<1>1. /\ UNCHANGED <<cwd, lost, dirStack, turned, exists>>
      /\ pc' \in {"prompt", "pop", "show"} /\ (pc' = "pop" => dirStack # <<>>)
  BY DEF popdir, Printdirstack
<1>2. turned = 0 /\ dirStack \in Seq(Names)
  BY AtPrompt
<1>3. pc' = "pop" => turned < Len(dirStack)
  BY <1>1, <1>2, EmptySeq
<1>4. DirTypeOK'
  BY <1>1, <1>2, <1>3 DEF DirTypeOK
<1> QED
  BY <1>1, <1>4, SameStack

LEMMA CommandStep ==
    ASSUME DirTypeOK, pc = "prompt", NEW cmd, DirCommand(cmd)
    PROVE  DirTypeOK' /\ StackStep
<1>1. CASE UNCHANGED dirvars
  BY <1>1, SameStack DEF dirvars, DirTypeOK
<1>2. \/ UNCHANGED dirvars \/ cleandirstack \/ popdir \/ Printdirstack
      \/ \E d \in {Home, cmd[2]} : chdir(d) \/ pushdir(d)
  BY DEF DirCommand
<1> QED
  BY <1>1, <1>2, ChdirStep, PushdirStep, CleanStep, BeginStep

LEMMA ReadLineStep ==
    ASSUME DirTypeOK, NEW l, ReadLine(l)
    PROVE  DirTypeOK' /\ StackStep
<1>1. pc = "prompt"
  BY DEF ReadLine
<1>2. \/ DirCommand(Words(l))
      \/ UNCHANGED <<cwd, lost, dirStack, turned, exists>> /\ pc' \in {"wait", "exited"}
  BY DEF ReadLine
<1>3. CASE UNCHANGED <<cwd, lost, dirStack, turned, exists>> /\ pc' \in {"wait", "exited"}
  BY <1>1, <1>3, AtPrompt, SameStack DEF DirTypeOK
<1> QED
  BY <1>1, <1>2, <1>3, CommandStep

LEMMA TurnStep == ASSUME DirTypeOK, Turn PROVE DirTypeOK' /\ StackStep
<1>1. /\ dirStack \in Seq(Names) /\ turned \in 0 .. Len(dirStack) /\ Len(dirStack) \in Nat
      /\ pc \in {"pop", "show"}
      /\ turned < Turns
      /\ dirStack' = Append(Tail(dirStack), Head(dirStack))
      /\ turned' = turned + 1
      /\ UNCHANGED <<pc, cwd, lost, exists>>
  BY LenProperties DEF DirTypeOK, Turn
<1>2. turned \in 0 .. Len(dirStack) - 1 /\ (pc = "pop" => turned + 1 < Len(dirStack))
  BY <1>1 DEF Turns
<1>3. dirStack # <<>>
  BY <1>1, <1>2, EmptySeq
<1>4. dirStack' \in Seq(Names) /\ Len(dirStack') = Len(dirStack)
  BY <1>1, <1>3, TurnedQueue
<1>5. dirStack' # <<>>
  BY <1>2, <1>4, EmptySeq
<1>6. DirTypeOK'
  BY <1>1, <1>2, <1>4, <1>5 DEF DirTypeOK
<1>7. Unturned(dirStack', turned') = Unturned(dirStack, turned)
  BY <1>1, <1>2, <1>3, TurnKeepsStack
<1> QED
  BY <1>1, <1>6, <1>7 DEF StackStep

LEMMA PoppedStep == ASSUME DirTypeOK, Popped PROVE DirTypeOK' /\ StackStep
<1>1. /\ dirStack \in Seq(Names) /\ dirStack # <<>>
      /\ Goes(Head(dirStack))
      /\ dirStack' = Tail(dirStack) /\ turned' = 0 /\ pc' = "prompt"
      /\ turned = Len(dirStack) - 1 /\ UNCHANGED exists
  BY DEF DirTypeOK, Popped, Turns
<1>2. Tail(dirStack) \in Seq(Names)
  BY <1>1, HeadTailProperties
<1>3. Len(dirStack') \in Nat
  BY <1>1, <1>2, LenProperties
<1>4. /\ cwd' \in Dirs /\ lost' \in BOOLEAN /\ (~lost' => cwd' \in exists')
      /\ Head(dirStack) \in exists => Abstract!Go(Head(dirStack))
      /\ Head(dirStack) \notin exists => UNCHANGED <<cwd, lost>>
  BY <1>1, GoesStep
<1>5. DirTypeOK'
  BY <1>1, <1>2, <1>3, <1>4 DEF DirTypeOK
<1> DEFINE s == Unturned(dirStack, turned)
<1>6. /\ s \in Seq(Names) /\ s # <<>> /\ s[Len(s)] = Head(dirStack)
      /\ SubSeq(s, 1, Len(s) - 1) = Unturned(dirStack', turned')
  BY <1>1, FrontIsTop
<1>7. Abstract!Pop
  BY <1>1, <1>4, <1>6 DEF Abstract!Pop
<1> QED
  BY <1>5, <1>7 DEF StackStep, Abstract!Next

LEMMA ShownStep == ASSUME DirTypeOK, Shown PROVE DirTypeOK' /\ StackStep
<1>1. /\ dirStack \in Seq(Names) /\ turned = Len(dirStack) /\ turned' = 0 /\ pc' = "prompt"
      /\ UNCHANGED <<cwd, lost, dirStack, exists>>
  BY DEF DirTypeOK, Shown, Turns
<1>2. Len(dirStack) \in Nat
  BY <1>1, LenProperties
<1>3. DirTypeOK'
  BY <1>1, <1>2 DEF DirTypeOK
<1>4. Unturned(dirStack', turned') = Unturned(dirStack, turned)
  BY <1>1, UnturnedWhole
<1> QED
  BY <1>1, <1>3, <1>4 DEF StackStep

LEMMA DirNext == ASSUME DirTypeOK, [Next]_vars PROVE DirTypeOK' /\ StackStep
<1>1. CASE UNCHANGED vars
  BY <1>1, SameStack DEF vars, dirvars, DirTypeOK
<1>2. ASSUME NEW l \in Lines, ReadLine(l) PROVE DirTypeOK' /\ StackStep
  BY <1>2, ReadLineStep
<1>3. CASE Eof \/ Reap
  <2>1. turned = 0 /\ UNCHANGED <<cwd, lost, dirStack, turned, exists>> /\ pc' \in {"prompt", "exited"}
    BY <1>3, LenProperties DEF Eof, Reap, DirTypeOK
  <2> QED
    BY <2>1, SameStack DEF DirTypeOK
<1>4. CASE Queue
  BY <1>4, TurnStep, PoppedStep, ShownStep DEF Queue
<1>5. ASSUME NEW d \in Dirs, Rmdir(d) \/ Mkdir(d) PROVE DirTypeOK' /\ StackStep
  <2>1. UNCHANGED <<pc, cwd, dirStack, turned>>
    BY <1>5 DEF Rmdir, Mkdir
  <2>2. CASE Rmdir(d)
    <3>1. d \in exists /\ exists' = exists \ {d} /\ lost' = (lost \/ d = cwd)
      BY <2>2 DEF Rmdir
    <3>2. DirTypeOK'
      BY <2>1, <3>1 DEF DirTypeOK
    <3>3. Abstract!Remove
      BY <2>1, <3>1 DEF Abstract!Remove
    <3> QED
      BY <3>2, <3>3 DEF StackStep, Abstract!Next
  <2>3. CASE Mkdir(d)
    <3>1. d \notin exists /\ exists' = exists \cup {d} /\ lost' = lost
      BY <2>3 DEF Mkdir
    <3>2. DirTypeOK'
      BY <2>1, <3>1 DEF DirTypeOK
    <3>3. Abstract!Make
      BY <2>1, <3>1 DEF Abstract!Make
    <3> QED
      BY <3>2, <3>3 DEF StackStep, Abstract!Next
  <2> QED
    BY <1>5, <2>2, <2>3
<1>6. ASSUME NEW p \in 1 .. MaxProcs, Process(p) PROVE DirTypeOK' /\ StackStep
  <2>1. UNCHANGED dirvars
    BY <1>6 DEF Process
  <2> QED
    BY <2>1, SameStack DEF dirvars, DirTypeOK
<1> QED
  BY <1>1, <1>2, <1>3, <1>4, <1>5, <1>6 DEF Next

LEMMA DirStart == ASSUME Init PROVE DirTypeOK /\ Abstract!Init
<1>1. dirStack = <<>> /\ dirStack \in Seq(Names) /\ Len(dirStack) = 0 /\ turned = 0
  BY EmptySeq DEF Init, DirInit
<1>2. Unturned(dirStack, turned) = <<>>
  BY <1>1, UnturnedWhole
<1>3. pc = "prompt" /\ cwd \in Dirs /\ lost = FALSE /\ exists = Dirs
  BY DEF Init, DirInit
<1>4. DirTypeOK
  <2>1. turned \in 0 .. Len(dirStack) /\ ~(turned > 0)
    BY <1>1
  <2>2. lost \in BOOLEAN /\ exists \subseteq Dirs /\ cwd \in exists
    BY <1>3
  <2> QED
    BY ONLY <1>1, <1>3, <2>1, <2>2, Zenon DEF DirTypeOK
<1>5. Abstract!Init
  BY <1>2, <1>3 DEF Abstract!Init
<1> QED
  BY <1>4, <1>5

THEOREM DirsType == Spec => []DirTypeOK
<1>1. Init => DirTypeOK
  BY DirStart
<1>2. DirTypeOK /\ [Next]_vars => DirTypeOK'
  BY DirNext
<1> QED
  BY <1>1, <1>2, PTL DEF Spec

\* The queue that popd and dirstack turn is a stack: popd returns to what
\* pushd left last if that is there, whatever directories come and go, the
\* shell's own included; in one that was removed pushd may leave any name.
THEOREM QueueIsStack == Spec => ImplementsStack
<1>1. Init => Abstract!Init
  BY DirStart
<1>2. DirTypeOK /\ [Next]_vars => [Abstract!Next]_<<cwd, lost, exists, Unturned(dirStack, turned)>>
  BY DirNext DEF StackStep
<1> QED
  BY <1>1, <1>2, DirsType, PTL DEF Spec, ImplementsStack, Abstract!Spec

-----------------------------------------------------------------------------
Procs == 1 .. MaxProcs
LiveStates == {"scan", "exec", "wait", "run"}
Live(p) == procs[p].st \in LiveStates

\* The process that runs, if p does: it lives, waits for nobody that lives,
\* and nobody above it lives.
LastLive(p) == Live(p) /\ \A q \in Procs : q > p => ~Live(q)

WellFormed(words) ==
  \A k \in 1 .. Len(words) :
    words[k] \in Operators => k < Len(words) /\ words[k + 1] \notin Operators

ProcsType ==
  /\ DOMAIN procs = Procs
  /\ \A p \in Procs : procs[p] \in ProcessType(p) \cup {Free}
  /\ pipes \in Seq(0 .. Capacity)

ArgsInv == \A p \in Procs : procs[p] # Free => WellFormed(procs[p].args)

\* The free entries are the last ones.
FreeInv == \A p, q \in Procs : procs[p] = Free /\ p < q => procs[q] = Free

\* Above a process that does not wait none lives; above one that waits none
\* lives unless its child does, which is the first of them.
ChainInv ==
  \A p \in Procs :
    /\ procs[p].st \in {"scan", "exec", "run"} => LastLive(p)
    /\ procs[p].st = "wait" =>
         /\ procs[p].child \in Procs /\ procs[p].child > p
         /\ procs[p].pipe \in 1 .. Len(pipes)
         /\ procs[p].j < Len(procs[p].args)
         /\ \A q \in Procs : q > p /\ Live(q) => q >= procs[p].child /\ Live(procs[p].child)

\* The child of the shell lives as long as any, and only while it is waited for.
FirstInv ==
  /\ \A q \in Procs : Live(q) => Live(1) /\ pc = "wait"

ShellInv == ProcsType /\ ArgsInv /\ FreeInv /\ ChainInv /\ FirstInv

-----------------------------------------------------------------------------
(***************************************************************************)
(* The words of a process.                                                 *)
(***************************************************************************)
LEMMA Minimum ==
    ASSUME NEW T \in SUBSET Nat, T # {} PROVE \E m \in T : \A n \in T : m <= n
<1>1. PICK m \in T : \A n \in T : ~(<<n, m>> \in OpToRel(<, Nat))
  BY NatLessThanWellFounded, WFMin
<1>2. \A n \in T : ~(n < m)
  BY <1>1 DEF OpToRel
<1> QED
  BY <1>2

LEMMA NextOpFound ==
    ASSUME NEW r, r.args \in Seq(STRING), r.j \in Nat, NextOp(r) # 0
    PROVE  NextOp(r) \in r.j .. Len(r.args) /\ r.args[NextOp(r)] \in Operators
<1> DEFINE ops == {k \in r.j .. Len(r.args) : r.args[k] \in Operators}
<1>1. Len(r.args) \in Nat
  BY LenProperties
<1>2. ops # {} /\ ops \in SUBSET Nat
  BY <1>1 DEF NextOp
<1>3. \E k \in ops : \A k2 \in ops : k <= k2
  BY <1>2, Minimum
<1>4. NextOp(r) \in ops
  BY <1>2, <1>3 DEF NextOp
<1> QED
  BY <1>4

\* The words behind the n-th.
LEMMA Suffix ==
    ASSUME NEW w \in Seq(STRING), NEW n \in 0 .. Len(w)
    PROVE  LET r == SubSeq(w, n + 1, Len(w))
           IN  /\ r \in Seq(STRING) /\ Len(r) = Len(w) - n
               /\ \A k \in 1 .. Len(r) : r[k] = w[n + k]
<1>1. Len(w) \in Nat /\ \A k \in 1 .. Len(w) : w[k] \in STRING
  BY ElementOfSeq, LenProperties
<1>2. PICK m \in Nat : m = n + 1
  BY <1>1
<1>3. \A k \in m .. Len(w) : w[k] \in STRING
  BY <1>1, <1>2
<1>4. /\ SubSeq(w, m, Len(w)) \in Seq(STRING)
      /\ Len(SubSeq(w, m, Len(w))) = IF m <= Len(w) THEN Len(w) - m + 1 ELSE 0
      /\ \A k \in 1 .. Len(w) - m + 1 : SubSeq(w, m, Len(w))[k] = w[m + k - 1]
  BY <1>1, <1>2, <1>3, SubSeqProperties
<1> QED
  BY <1>1, <1>2, <1>4

\* The words up to the n-th.
LEMMA Prefix ==
    ASSUME NEW w \in Seq(STRING), NEW n \in 0 .. Len(w)
    PROVE  LET r == SubSeq(w, 1, n)
           IN  /\ r \in Seq(STRING) /\ Len(r) = n
               /\ \A k \in 1 .. n : r[k] = w[k]
<1>1. Len(w) \in Nat /\ \A k \in 1 .. Len(w) : w[k] \in STRING
  BY ElementOfSeq, LenProperties
<1>2. \A k \in 1 .. n : w[k] \in STRING
  BY <1>1
<1>3. /\ SubSeq(w, 1, n) \in Seq(STRING)
      /\ Len(SubSeq(w, 1, n)) = IF 1 <= n THEN n - 1 + 1 ELSE 0
      /\ \A k \in 1 .. n - 1 + 1 : SubSeq(w, 1, n)[k] = w[1 + k - 1]
  BY <1>1, <1>2, SubSeqProperties
<1> QED
  BY <1>1, <1>3

\* The words behind a pipe are words with one behind each operator.
LEMMA SuffixWellFormed ==
    ASSUME NEW w \in Seq(STRING), WellFormed(w), NEW n \in 0 .. Len(w)
    PROVE  WellFormed(SubSeq(w, n + 1, Len(w)))
<1> DEFINE r == SubSeq(w, n + 1, Len(w))
<1>1. /\ Len(w) \in Nat /\ Len(r) = Len(w) - n
      /\ \A k \in 1 .. Len(r) : r[k] = w[n + k]
  BY Suffix, LenProperties
<1> HIDE DEF r
<1>2. ASSUME NEW k \in 1 .. Len(r), r[k] \in Operators
      PROVE  k < Len(r) /\ r[k + 1] \notin Operators
  <2>1. n + k \in 1 .. Len(w) /\ w[n + k] \in Operators
    BY <1>1, <1>2
  <2>2. n + k < Len(w) /\ w[n + k + 1] \notin Operators
    BY <2>1 DEF WellFormed
  <2>3. k + 1 \in 1 .. Len(r) /\ r[k + 1] = w[n + (k + 1)]
    BY <1>1, <2>2
  <2> QED
    BY <1>1, <2>2, <2>3
<1>3. WellFormed(r)
  BY <1>2 DEF WellFormed
<1> QED
  BY <1>3 DEF r

\* So are those left when a redirection operator and the word behind it go.
LEMMA ErasedWellFormed ==
    ASSUME NEW w \in Seq(STRING), WellFormed(w),
           NEW k \in 1 .. Len(w), w[k] \in Operators
    PROVE  LET r == SubSeq(w, 1, k - 1) \o SubSeq(w, k + 2, Len(w))
           IN  r \in Seq(STRING) /\ WellFormed(r)
<1> DEFINE a == SubSeq(w, 1, k - 1)
           b == SubSeq(w, k + 2, Len(w))
           r == a \o b
<1>1. Len(w) \in Nat /\ k < Len(w) /\ w[k + 1] \notin Operators
  BY LenProperties DEF WellFormed
<1>2. /\ a \in Seq(STRING) /\ Len(a) = k - 1
      /\ \A i \in 1 .. k - 1 : a[i] = w[i]
  BY <1>1, Prefix
<1>3. /\ b \in Seq(STRING) /\ Len(b) = Len(w) - (k + 1)
      /\ \A i \in 1 .. Len(b) : b[i] = w[k + 1 + i]
      /\ WellFormed(b)
  <2>1. PICK n \in 0 .. Len(w) : n = k + 1
    BY <1>1
  <2>2. b = SubSeq(w, n + 1, Len(w))
    BY <2>1
  <2> HIDE DEF b
  <2> QED
    BY <2>1, <2>2, Suffix, SuffixWellFormed
<1> HIDE DEF a, b
<1>4. /\ r \in Seq(STRING) /\ Len(r) = Len(a) + Len(b)
      /\ \A i \in 1 .. Len(a) + Len(b) : r[i] = IF i <= Len(a) THEN a[i] ELSE b[i - Len(a)]
  BY <1>2, <1>3, ConcatProperties
<1> HIDE DEF r
<1>7. /\ Len(r) = Len(w) - 2 /\ Len(r) \in Nat
      /\ \A i \in 1 .. k - 1 : r[i] = w[i]
      /\ \A m \in 1 .. Len(b) : r[m + (k - 1)] = b[m]
  <2>1. Len(a) \in Nat /\ Len(b) \in Nat /\ Len(r) = Len(w) - 2 /\ Len(r) \in Nat
    BY <1>1, <1>2, <1>3, <1>4
  <2>2. ASSUME NEW i \in 1 .. k - 1 PROVE r[i] = w[i]
    <3>1. i \in 1 .. Len(a) + Len(b) /\ i <= Len(a)
      BY <1>2, <2>1
    <3> QED
      BY <1>2, <1>4, <3>1
  <2>3. ASSUME NEW m \in 1 .. Len(b) PROVE r[m + (k - 1)] = b[m]
    <3>1. m + (k - 1) \in 1 .. Len(a) + Len(b) /\ ~(m + (k - 1) <= Len(a))
      BY <1>2, <2>1
    <3>2. PICK x \in Int : x = m + (k - 1)
      BY <2>1
    <3>3. x - Len(a) = m
      BY <1>2, <2>1, <3>2
    <3>4. r[x] = b[x - Len(a)]
      BY <1>4, <3>1, <3>2
    <3> QED
      BY <3>2, <3>3, <3>4
  <2> QED
    BY <2>1, <2>2, <2>3
<1>5. ASSUME NEW i \in 1 .. Len(r), r[i] \in Operators
      PROVE  i < Len(r) /\ r[i + 1] \notin Operators
  <2>1. CASE i <= k - 1
    <3>1. r[i] = w[i]
      BY <1>1, <1>2, <1>3, <1>4, <2>1
    <3>2. w[i + 1] \notin Operators
      BY <1>1, <1>5, <2>1, <3>1 DEF WellFormed
    <3>3. i + 1 \in 1 .. k - 1
      BY <1>1, <2>1, <3>2
    <3>4. r[i + 1] = w[i + 1]
      BY <1>7, <3>3
    <3> QED
      BY <1>1, <1>7, <3>2, <3>3, <3>4
  <2>2. CASE i > k - 1
    <3>1. i - (k - 1) \in 1 .. Len(b)
      BY <1>1, <1>3, <1>7, <2>2
    <3>2. PICK m \in 1 .. Len(b) : i = m + (k - 1)
      BY <3>1
    <3>3. m < Len(b) /\ b[m + 1] \notin Operators
      BY <1>3, <1>5, <1>7, <3>2 DEF WellFormed
    <3>4. m + 1 \in 1 .. Len(b) /\ i + 1 = (m + 1) + (k - 1)
      BY <1>1, <1>3, <3>2, <3>3
    <3>5. r[i + 1] = b[m + 1]
      BY <1>7, <3>4
    <3> QED
      BY <1>1, <1>3, <1>7, <3>2, <3>3, <3>5
  <2> QED
    BY <1>1, <1>5, <2>1, <2>2
<1>6. r \in Seq(STRING) /\ WellFormed(r)
  BY <1>4, <1>5 DEF WellFormed
<1> QED
  BY <1>6 DEF a, b, r
-----------------------------------------------------------------------------
(***************************************************************************)
(* The elements of a sequence at some places.                              *)
(***************************************************************************)
LEMMA PlacesFinite ==
    ASSUME NEW N \in Nat, NEW K \in SUBSET (1 .. N)
    PROVE  IsFiniteSet(K) /\ Cardinality(K) \in Nat
<1>1. IsFiniteSet(1 .. N)
  BY FS_Interval
<1> QED
  BY <1>1, FS_Subset, FS_CardinalityType

\* The rank of a place grows with it, by one at each of the places K.
LEMMA RankGrows ==
    ASSUME NEW N \in Nat, NEW K \in SUBSET (1 .. N)
    PROVE  /\ \A k \in Int : Rank(K, k) \in 0 .. Cardinality(K)
           /\ Rank(K, 0) = 0 /\ Rank(K, N) = Cardinality(K)
           /\ \A k \in 1 .. N : Rank(K, k) = IF k \in K THEN Rank(K, k - 1) + 1 ELSE Rank(K, k - 1)
           /\ \A i, k \in Int : i <= k => Rank(K, i) <= Rank(K, k)
           /\ \A i \in Int, k \in K : i < k => Rank(K, i) < Rank(K, k)
<1> DEFINE To(k) == {k2 \in K : k2 <= k}
<1>0. \A k \in K : k \in Int /\ 1 <= k /\ k <= N
  OBVIOUS
<1>1. \A k : IsFiniteSet(To(k)) /\ Cardinality(To(k)) \in Nat /\ Cardinality(To(k)) <= Cardinality(K)
  <2> TAKE k
  <2>1. To(k) \in SUBSET K /\ IsFiniteSet(K)
    BY PlacesFinite
  <2> HIDE DEF To
  <2> QED
    BY <2>1, FS_Subset, FS_CardinalityType
<1>2. \A k \in Int : Rank(K, k) \in 0 .. Cardinality(K)
  BY <1>1, PlacesFinite DEF Rank
<1>3. Rank(K, 0) = 0
  <2>0. \A k \in K : ~(k <= 0)
    BY <1>0
  <2>1. To(0) = {}
    BY <2>0
  <2> QED
    BY <2>1, FS_EmptySet DEF Rank
<1>4. Rank(K, N) = Cardinality(K)
  <2>1. To(N) = K
    BY <1>0
  <2> QED
    BY <2>1 DEF Rank
<1>5. ASSUME NEW k \in 1 .. N
      PROVE  Rank(K, k) = IF k \in K THEN Rank(K, k - 1) + 1 ELSE Rank(K, k - 1)
  <2>1. CASE k \in K
    <3>0. \A i \in K : (i <= k <=> i <= k - 1 \/ i = k) /\ ~(k <= k - 1)
      BY <1>0
    <3>1. To(k) = To(k - 1) \cup {k} /\ k \notin To(k - 1)
      BY <2>1, <3>0
    <3> HIDE DEF To
    <3>2. Cardinality(To(k)) = Cardinality(To(k - 1)) + 1
      BY <1>1, <3>1, FS_AddElement
    <3> QED
      BY <2>1, <3>2 DEF Rank, To
  <2>2. CASE k \notin K
    <3>0. \A i \in K : i <= k <=> i <= k - 1
      BY <1>0, <2>2
    <3>1. To(k) = To(k - 1)
      BY <3>0
    <3> QED
      BY <2>2, <3>1 DEF Rank
  <2> QED
    BY <2>1, <2>2
<1>6. ASSUME NEW i \in Int, NEW k \in Int, i <= k PROVE Rank(K, i) <= Rank(K, k)
  <2>0. \A k2 \in K : k2 <= i => k2 <= k
    BY <1>0, <1>6
  <2>1. To(i) \in SUBSET To(k)
    BY <2>0
  <2> HIDE DEF To
  <2>2. Cardinality(To(i)) <= Cardinality(To(k))
    BY <1>1, <2>1, FS_Subset
  <2> QED
    BY <2>2 DEF Rank, To
<1>7. ASSUME NEW i \in Int, NEW k \in K, i < k PROVE Rank(K, i) < Rank(K, k)
  <2>1. k \in 1 .. N /\ k - 1 \in Int /\ i <= k - 1
    BY <1>7
  <2>2. Rank(K, i) <= Rank(K, k - 1) /\ Rank(K, k) = Rank(K, k - 1) + 1
    BY <1>5, <1>6, <2>1
  <2>3. Rank(K, i) \in Int /\ Rank(K, k - 1) \in Int
    BY <1>2, <2>1
  <2> QED
    BY <2>2, <2>3
<1> QED
  BY <1>2, <1>3, <1>4, <1>5, <1>6, <1>7

\* Every number of an element is the rank of one place.
LEMMA RankOnto ==
    ASSUME NEW N \in Nat, NEW K \in SUBSET (1 .. N), NEW n \in 1 .. Cardinality(K)
    PROVE  \E k \in K : Rank(K, k) = n
<1> DEFINE T == {k \in 0 .. N : Rank(K, k) >= n}
<1>1. Cardinality(K) \in Nat
  BY PlacesFinite
<1>2. N \in T
  BY <1>1, RankGrows
<1>3. PICK m \in T : \A k \in T : m <= k
  <2>1. T \in SUBSET Nat /\ T # {}
    BY <1>2
  <2> HIDE DEF T
  <2> QED
    BY <2>1, Minimum
<1>4. Rank(K, 0) = 0
  BY RankGrows
<1>5. m \in 1 .. N
  BY <1>3, <1>4
<1>6. Rank(K, m - 1) < n
  <2>1. Rank(K, m - 1) \in Int
    BY <1>5, RankGrows
  <2> QED
    BY <1>3, <1>5, <2>1
<1>7. Rank(K, m - 1) \in Int /\ Rank(K, m) = IF m \in K THEN Rank(K, m - 1) + 1 ELSE Rank(K, m - 1)
  BY <1>5, RankGrows
<1> QED
  BY <1>3, <1>6, <1>7

LEMMA SelectedAt ==
    ASSUME NEW N \in Nat, NEW K \in SUBSET (1 .. N), NEW s, NEW k \in K
    PROVE  Rank(K, k) \in 1 .. Cardinality(K) /\ Selected(s, K)[Rank(K, k)] = s[k]
<1>1. Cardinality(K) \in Nat /\ k \in Int /\ 0 < k
  BY PlacesFinite
<1>2. Rank(K, 0) = 0 /\ Rank(K, 0) < Rank(K, k) /\ Rank(K, k) \in 0 .. Cardinality(K)
  BY <1>1, RankGrows
<1>3. Rank(K, k) \in 1 .. Cardinality(K)
  BY <1>1, <1>2
<1>4. ASSUME NEW i \in K, Rank(K, i) = Rank(K, k) PROVE i = k
  <2>1. /\ i < k => Rank(K, i) < Rank(K, k)
        /\ k < i => Rank(K, k) < Rank(K, i)
    <3>1. i \in Int /\ k \in Int
      OBVIOUS
    <3> QED
      BY <3>1, RankGrows
  <2> QED
    BY <1>2, <1>4, <2>1
<1>5. (CHOOSE i \in K : Rank(K, i) = Rank(K, k)) = k
  BY <1>4
<1> QED
  BY <1>3, <1>5 DEF Selected

LEMMA SelectedType ==
    ASSUME NEW N \in Nat, NEW K \in SUBSET (1 .. N), NEW s, NEW S, \A k \in K : s[k] \in S
    PROVE  Selected(s, K) \in Seq(S) /\ Len(Selected(s, K)) = Cardinality(K)
<1>1. Cardinality(K) \in Nat
  BY PlacesFinite
<1>2. ASSUME NEW n \in 1 .. Cardinality(K) PROVE Selected(s, K)[n] \in S
  <2>1. PICK k \in K : Rank(K, k) = n
    BY RankOnto
  <2> QED
    BY <2>1, SelectedAt
<1>3. Selected(s, K) \in [1 .. Cardinality(K) -> S]
  BY <1>2 DEF Selected
<1> QED
  BY <1>1, <1>3, SeqDef, LenProperties

LEMMA SelectedSome ==
    ASSUME NEW N \in Nat, NEW K \in SUBSET (1 .. N), NEW s, NEW k \in K
    PROVE  Selected(s, K) # <<>>
<1>1. Cardinality(K) \in Nat /\ 1 \in 1 .. Cardinality(K)
  <2>1. Rank(K, k) \in 1 .. Cardinality(K) /\ Cardinality(K) \in Nat
    BY SelectedAt, PlacesFinite
  <2> QED
    BY <2>1
<1>2. \A i \in K : s[i] \in {s[j] : j \in K}
  OBVIOUS
<1>3. Selected(s, K) \in Seq({s[j] : j \in K}) /\ Len(Selected(s, K)) = Cardinality(K)
  BY <1>2, SelectedType
<1> QED
  BY <1>1, <1>3, EmptySeq

LEMMA SelectedNone == ASSUME NEW s PROVE Selected(s, {}) = <<>>
<1>1. Cardinality({}) = 0
  BY FS_EmptySet
<1>2. DOMAIN Selected(s, {}) = {}
  BY <1>1 DEF Selected
<1>3. \A k \in {} : s[k] \in {}
  OBVIOUS
<1>4. Selected(s, {}) \in Seq({}) /\ Len(Selected(s, {})) = 0
  <2>1. 0 \in Nat /\ {} \in SUBSET (1 .. 0)
    OBVIOUS
  <2> QED
    BY <1>1, <1>3, <2>1, SelectedType
<1> QED
  BY <1>4, EmptySeq

\* The ranks in two sets of places, one before the other.
LEMMA RankUnion ==
    ASSUME NEW N \in Nat, NEW K \in SUBSET (1 .. N), NEW L \in SUBSET (1 .. N),
           \A k \in K, i \in L : k < i
    PROVE  /\ Cardinality(K \cup L) = Cardinality(K) + Cardinality(L)
           /\ \A k \in K : Rank(K \cup L, k) = Rank(K, k)
           /\ \A k \in L : Rank(K \cup L, k) = Cardinality(K) + Rank(L, k)
<1>0. /\ IsFiniteSet(K) /\ Cardinality(K) \in Nat
      /\ IsFiniteSet(L) /\ Cardinality(L) \in Nat
  BY PlacesFinite
<1>4. K \cup L \subseteq Int
  OBVIOUS
<1>1. ASSUME NEW M \in SUBSET L PROVE Cardinality(K \cup M) = Cardinality(K) + Cardinality(M)
  <2>1. IsFiniteSet(M) /\ Cardinality(M) \in Nat
    BY PlacesFinite
  <2>4. \A k \in K : k \notin L
    BY <1>4
  <2>2. K \cap M = {}
    BY <2>4
  <2>3. Cardinality(K \cap M) = 0
    BY <2>2, FS_EmptySet
  <2>5. Cardinality(K \cup M) = Cardinality(K) + Cardinality(M) - Cardinality(K \cap M)
    BY <1>0, <2>1, FS_Union
  <2> QED
    BY <1>0, <2>1, <2>3, <2>5
<1>2. ASSUME NEW k \in K PROVE Rank(K \cup L, k) = Rank(K, k)
  <2>0. \A i \in L : ~(i <= k)
    BY <1>4
  <2>1. {k2 \in K \cup L : k2 <= k} = {k2 \in K : k2 <= k}
    BY <2>0
  <2> QED
    BY <2>1 DEF Rank
<1>3. ASSUME NEW k \in L PROVE Rank(K \cup L, k) = Cardinality(K) + Rank(L, k)
  <2>1. PICK M \in SUBSET L : M = {k2 \in L : k2 <= k}
    OBVIOUS
  <2>0. \A i \in K : i <= k
    BY <1>4
  <2>2. {k2 \in K \cup L : k2 <= k} = K \cup M
    BY <2>0, <2>1
  <2> QED
    BY <1>1, <2>1, <2>2 DEF Rank
<1> QED
  BY <1>1, <1>2, <1>3

LEMMA SelectedConcat ==
    ASSUME NEW N \in Nat, NEW K \in SUBSET (1 .. N), NEW L \in SUBSET (1 .. N),
           \A k \in K, i \in L : k < i,
           NEW s, NEW S, \A k \in K \cup L : s[k] \in S
    PROVE  Selected(s, K \cup L) = Selected(s, K) \o Selected(s, L)
<1> DEFINE t == Selected(s, K \cup L)
           a == Selected(s, K)
           b == Selected(s, L)
<1>1. /\ Cardinality(K) \in Nat /\ Cardinality(L) \in Nat
      /\ Cardinality(K \cup L) = Cardinality(K) + Cardinality(L)
  BY PlacesFinite, RankUnion
<1>2. /\ t \in Seq(S) /\ Len(t) = Cardinality(K) + Cardinality(L)
      /\ a \in Seq(S) /\ Len(a) = Cardinality(K)
      /\ b \in Seq(S) /\ Len(b) = Cardinality(L)
  BY <1>1, SelectedType
<1>3. /\ a \o b \in Seq(S) /\ Len(a \o b) = Len(a) + Len(b)
      /\ \A i \in 1 .. Len(a) + Len(b) :
           (a \o b)[i] = IF i <= Len(a) THEN a[i] ELSE b[i - Len(a)]
  BY <1>2, ConcatProperties
<1>4. ASSUME NEW n \in 1 .. Len(t) PROVE t[n] = (a \o b)[n]
  <2>1. K \cup L \in SUBSET (1 .. N) /\ n \in 1 .. Cardinality(K \cup L)
    BY <1>1, <1>2
  <2>2. PICK k \in K \cup L : Rank(K \cup L, k) = n
    BY <2>1, RankOnto
  <2>3. t[n] = s[k]
    <3>1. PICK M \in SUBSET (1 .. N) : M = K \cup L
      BY <2>1
    <3>2. k \in M
      BY <3>1
    <3>3. Selected(s, M)[Rank(M, k)] = s[k]
      BY ONLY N \in Nat, M \in SUBSET (1 .. N), <3>2, SelectedAt
    <3> QED
      BY <2>2, <3>1, <3>3
  <2>4. CASE k \in K
    <3>1. Rank(K, k) = n
      BY <2>2, <2>4, RankUnion
    <3>2. Rank(K, k) \in 1 .. Cardinality(K) /\ a[Rank(K, k)] = s[k]
      BY <2>4, SelectedAt
    <3> HIDE DEF t, a, b
    <3> QED
      BY <1>1, <1>2, <1>3, <2>3, <3>1, <3>2
  <2>5. CASE k \in L
    <3>1. PICK i \in 1 .. Cardinality(L) : i = Rank(L, k) /\ b[i] = s[k]
      BY <2>5, SelectedAt
    <3>2. n = Cardinality(K) + i
      BY <2>2, <2>5, <3>1, RankUnion
    <3> HIDE DEF t, a, b
    <3>3. n - Len(a) = i /\ ~(n <= Len(a)) /\ n \in 1 .. Len(a) + Len(b)
      BY <1>1, <1>2, <3>2
    <3> QED
      BY <1>3, <2>3, <3>1, <3>3
  <2> QED
    BY <2>4, <2>5
<1> HIDE DEF t, a, b
<1>5. t = a \o b
  BY <1>1, <1>2, <1>3, <1>4, SeqEqual
<1> QED
  BY <1>5 DEF t, a, b

\* What is selected up to a place m, and behind it.
LEMMA SelectedCut ==
    ASSUME NEW N \in Nat, NEW K \in SUBSET (1 .. N), NEW m \in 0 .. N,
           NEW s, NEW S, \A k \in K : s[k] \in S
    PROVE  LET t == Selected(s, K)
           IN  /\ SubSeq(t, 1, Rank(K, m)) = Selected(s, {k \in K : k <= m})
               /\ SubSeq(t, Rank(K, m) + 1, Len(t)) = Selected(s, {k \in K : k > m})
<1> DEFINE A == {k \in K : k <= m}
           B == {k \in K : k > m}
           t == Selected(s, K)
           a == Selected(s, A)
           b == Selected(s, B)
<1>1. K = A \cup B /\ A \in SUBSET (1 .. N) /\ B \in SUBSET (1 .. N) /\ \A k \in A, i \in B : k < i
  <2>1. \A k \in K : (k <= m \/ k > m) /\ k \in 1 .. N
    OBVIOUS
  <2>2. \A k, i \in K : k <= m /\ i > m => k < i
    BY <2>1
  <2>3. K = A \cup B
    BY <2>1
  <2> QED
    BY <2>1, <2>2, <2>3
<1>2. /\ Cardinality(A) = Rank(K, m)
      /\ \A k \in A : s[k] \in S
      /\ \A k \in B : s[k] \in S
  BY DEF Rank
<1> HIDE DEF A, B
<1>3. Selected(s, A \cup B) = a \o b
  BY <1>1, SelectedConcat
<1>4. /\ t = a \o b
      /\ a \in Seq(S) /\ Len(a) = Rank(K, m)
      /\ b \in Seq(S) /\ Len(b) = Cardinality(B)
  <2>1. a \in Seq(S) /\ Len(a) = Cardinality(A)
    BY <1>1, <1>2, SelectedType
  <2>2. b \in Seq(S) /\ Len(b) = Cardinality(B)
    BY <1>1, <1>2, SelectedType
  <2> QED
    BY <1>1, <1>2, <1>3, <2>1, <2>2
<1> HIDE DEF t, a, b
<1>5. Rank(K, m) \in Nat /\ Cardinality(B) \in Nat
  <2>1. Cardinality(K) \in Nat /\ Cardinality(B) \in Nat
    BY <1>1, PlacesFinite
  <2>2. \A k \in Int : Rank(K, k) \in 0 .. Cardinality(K)
    BY RankGrows
  <2> QED
    BY <2>1, <2>2
<1>6. PICK n \in Nat : n = Rank(K, m)
  BY <1>5
<1>7. /\ t \in Seq(S) /\ Len(t) = n + Len(b) /\ Len(b) \in Nat
      /\ \A i \in 1 .. n + Len(b) : t[i] = IF i <= n THEN a[i] ELSE b[i - n]
  BY <1>4, <1>5, <1>6, ConcatProperties
<1>8. \A i \in 1 .. Len(t) : t[i] \in S
  BY <1>7, ElementOfSeq
<1>9. SubSeq(t, 1, n) = a
  <2>1. \A i \in 1 .. n : t[i] \in S
    BY <1>7, <1>8
  <2>2. /\ SubSeq(t, 1, n) \in Seq(S)
        /\ Len(SubSeq(t, 1, n)) = IF 1 <= n THEN n - 1 + 1 ELSE 0
        /\ \A i \in 1 .. n - 1 + 1 : SubSeq(t, 1, n)[i] = t[1 + i - 1]
    BY <2>1, SubSeqProperties
  <2>3. Len(SubSeq(t, 1, n)) = n /\ \A i \in 1 .. n : SubSeq(t, 1, n)[i] = a[i]
    BY <1>7, <2>2
  <2> QED
    BY <1>4, <1>6, <2>2, <2>3, SeqEqual
<1>10. SubSeq(t, n + 1, Len(t)) = b
  <2>1. PICK h \in Nat : h = n + 1
    OBVIOUS
  <2>2. Len(t) \in Nat /\ \A i \in h .. Len(t) : t[i] \in S
    BY <1>7, <1>8, <2>1
  <2>3. /\ SubSeq(t, h, Len(t)) \in Seq(S)
        /\ Len(SubSeq(t, h, Len(t))) = IF h <= Len(t) THEN Len(t) - h + 1 ELSE 0
        /\ \A i \in 1 .. Len(t) - h + 1 : SubSeq(t, h, Len(t))[i] = t[h + i - 1]
    BY <2>2, SubSeqProperties
  <2>4. Len(SubSeq(t, h, Len(t))) = Len(b)
    BY <1>7, <2>1, <2>3
  <2>5. ASSUME NEW i \in 1 .. Len(b) PROVE SubSeq(t, h, Len(t))[i] = b[i]
    <3>1. PICK x \in Int : x = h + i - 1
      BY <2>1
    <3>2. x \in 1 .. n + Len(b) /\ ~(x <= n) /\ x - n = i
      BY <1>7, <2>1, <3>1
    <3>3. t[x] = b[i]
      BY <1>7, <3>2
    <3> QED
      BY <1>7, <2>1, <2>3, <3>1, <3>3
  <2>6. SubSeq(t, h, Len(t)) = b
    BY <1>4, <2>3, <2>4, <2>5, SeqEqual
  <2> QED
    BY <2>1, <2>6
<1>11. SubSeq(t, 1, Rank(K, m)) = a /\ SubSeq(t, Rank(K, m) + 1, Len(t)) = b
  BY <1>6, <1>9, <1>10
<1> QED
  BY <1>11 DEF t, a, b, A, B

\* One more place, behind the others.
LEMMA SelectedOne ==
    ASSUME NEW N \in Nat, NEW K \in SUBSET (1 .. N), NEW m \in 1 .. N, \A k \in K : k < m,
           NEW s, NEW S, \A k \in K \cup {m} : s[k] \in S
    PROVE  Selected(s, K \cup {m}) = Append(Selected(s, K), s[m])
<1>1. /\ Selected(s, K \cup {m}) = Selected(s, K) \o Selected(s, {m})
      /\ Selected(s, K) \in Seq(S) /\ Selected(s, {m}) \in Seq(S)
      /\ Len(Selected(s, {m})) = Cardinality({m})
  <2>1. {m} \in SUBSET (1 .. N)
    OBVIOUS
  <2>2. PICK M \in SUBSET (1 .. N) : M = {m}
    BY <2>1
  <2>3. Selected(s, K \cup M) = Selected(s, K) \o Selected(s, M)
    <3>1. \A k \in K, i \in M : k < i
      BY <2>2
    <3>2. \A k \in K \cup M : s[k] \in S
      BY <2>2
    <3> QED
      BY ONLY N \in Nat, K \in SUBSET (1 .. N), M \in SUBSET (1 .. N), <3>1, <3>2, SelectedConcat
  <2>4. Selected(s, K) \in Seq(S)
    BY SelectedType
  <2>5. Selected(s, M) \in Seq(S) /\ Len(Selected(s, M)) = Cardinality(M)
    BY <2>2, SelectedType
  <2> QED
    BY <2>2, <2>3, <2>4, <2>5
<1>2. Cardinality({m}) = 1
  BY FS_Singleton
<1>3. Selected(s, {m})[1] = s[m]
  <2>1. {m} \in SUBSET (1 .. N) /\ m \in {m}
    OBVIOUS
  <2>2. Rank({m}, m) \in 1 .. Cardinality({m}) /\ Selected(s, {m})[Rank({m}, m)] = s[m]
    BY <2>1, SelectedAt
  <2> QED
    BY <1>2, <2>2
<1>4. PICK a \in Seq(S) : a = Selected(s, K)
  BY <1>1
<1>5. PICK b \in Seq(S) : b = Selected(s, {m}) /\ Len(b) = 1 /\ b[1] = s[m]
  BY <1>1, <1>2, <1>3
<1>6. s[m] \in S /\ Len(a) \in Nat
  BY LenProperties
<1>7. /\ a \o b \in Seq(S) /\ Len(a \o b) = Len(a) + 1
      /\ \A i \in 1 .. Len(a) + 1 : (a \o b)[i] = IF i <= Len(a) THEN a[i] ELSE b[i - Len(a)]
  <2>1. /\ a \o b \in Seq(S) /\ Len(a \o b) = Len(a) + Len(b)
        /\ \A i \in 1 .. Len(a) + Len(b) : (a \o b)[i] = IF i <= Len(a) THEN a[i] ELSE b[i - Len(a)]
    BY ConcatProperties
  <2> QED
    BY <1>5, <2>1
<1>8. /\ Append(a, s[m]) \in Seq(S) /\ Len(Append(a, s[m])) = Len(a) + 1
      /\ \A i \in 1 .. Len(a) : Append(a, s[m])[i] = a[i]
      /\ Append(a, s[m])[Len(a) + 1] = s[m]
  BY <1>6, AppendProperties
<1>9. ASSUME NEW i \in 1 .. Len(a) + 1 PROVE (a \o b)[i] = Append(a, s[m])[i]
  <2>1. CASE i <= Len(a)
    BY <1>6, <1>7, <1>8, <2>1
  <2>2. CASE i = Len(a) + 1
    <3>1. i - Len(a) = 1 /\ ~(i <= Len(a))
      BY <1>6, <2>2
    <3> QED
      BY <1>5, <1>7, <1>8, <2>2, <3>1
  <2>3. i <= Len(a) \/ i = Len(a) + 1
    BY <1>6
  <2> QED
    BY <2>1, <2>2, <2>3
<1>10. a \o b = Append(a, s[m])
  BY <1>7, <1>8, <1>9, SeqEqual
<1> QED
  BY <1>1, <1>4, <1>5, <1>10

\* A whole sequence.
LEMMA SelectedAll ==
    ASSUME NEW S, NEW s \in Seq(S) PROVE Selected(s, 1 .. Len(s)) = s
<1>1. Len(s) \in Nat /\ \A k \in 1 .. Len(s) : s[k] \in S
  BY LenProperties, ElementOfSeq
<1>2. ASSUME NEW k \in 1 .. Len(s) PROVE Rank(1 .. Len(s), k) = k
  <2>1. {k2 \in 1 .. Len(s) : k2 <= k} = 1 .. k
    BY <1>1
  <2>2. Cardinality(1 .. k) = k
    BY <1>1, FS_Interval
  <2> QED
    BY <2>1, <2>2 DEF Rank
<1>3. Cardinality(1 .. Len(s)) = Len(s)
  <2>1. Cardinality(1 .. Len(s)) = IF 1 > Len(s) THEN 0 ELSE Len(s) - 1 + 1
    BY <1>1, FS_Interval
  <2> QED
    BY <1>1, <2>1
<1>4. PICK t \in Seq(S) : t = Selected(s, 1 .. Len(s)) /\ Len(t) = Len(s)
  BY <1>1, <1>3, SelectedType
<1>5. ASSUME NEW k \in 1 .. Len(s) PROVE t[k] = s[k]
  <2>1. Selected(s, 1 .. Len(s))[Rank(1 .. Len(s), k)] = s[k]
    BY <1>1, SelectedAt
  <2> QED
    BY <1>2, <1>4, <2>1
<1> QED
  BY <1>4, <1>5, SeqEqual

\* The words that parseLine is given are words.
LEMMA WordsType ==
    ASSUME NEW l \in Seq(STRING)
    PROVE  Kept(l) \in SUBSET (1 .. Len(l)) /\ Len(l) \in Nat /\ Words(l) \in Seq(STRING)
<1>1. Len(l) \in Nat /\ \A k \in 1 .. Len(l) : l[k] \in STRING
  BY LenProperties, ElementOfSeq
<1>2. Kept(l) \in SUBSET (1 .. Len(l))
  BY DEF Kept
<1>3. Words(l) \in Seq(STRING)
  BY <1>1, <1>2, SelectedType DEF Words
<1> QED
  BY <1>1, <1>2, <1>3
-----------------------------------------------------------------------------
(***************************************************************************)
(* The steps of a process.                                                 *)
(***************************************************************************)
LEMMA LiveIsTyped ==
    ASSUME ProcsType, NEW p \in Procs, procs[p].st # "free"
    PROVE  procs[p] \in ProcessType(p) /\ procs[p] # Free
BY DEF ProcsType, Free

LEMMA PipesLen == ASSUME ProcsType PROVE Len(pipes) \in Nat
BY LenProperties DEF ProcsType

\* The last process that lives moves, and makes neither a pipe nor a process.
LEMMA OneMoves ==
    ASSUME ShellInv, NEW p \in Procs, LastLive(p),
           NEW r \in ProcessType(p), r.st # "wait", WellFormed(r.args),
           procs' = [procs EXCEPT ![p] = r],
           pipes' \in Seq(0 .. Capacity), Len(pipes') = Len(pipes), pc' = pc
    PROVE  ShellInv'
<1>0. MaxProcs \in Nat \ {0} /\ Procs \subseteq Nat
  BY ShellAssumption DEF Procs
<1>1. DOMAIN procs = Procs /\ procs'[p] = r /\ \A q \in Procs : q # p => procs'[q] = procs[q]
  BY DEF ShellInv, ProcsType
<1>2. r # Free /\ r.st \in {"scan", "exec", "run", "done"}
  BY DEF ProcessType, Free
<1>3. \A q \in Procs : Live(q)' => Live(q)
  BY <1>1 DEF Live, LastLive
<1>4. \A q \in Procs : Live(q) /\ q # p => Live(q)'
  BY <1>1 DEF Live
<1>5. ProcsType'
  <2>1. \A q \in Procs : ProcessType(q)' = ProcessType(q)
    BY DEF ProcessType, Descriptor
  <2>2. \A q \in Procs : procs'[q] \in ProcessType(q) \cup {Free}
    BY <1>1 DEF ShellInv, ProcsType
  <2>3. DOMAIN procs' = Procs
    BY <1>1
  <2> QED
    BY <2>1, <2>2, <2>3 DEF ProcsType, Procs, Free
<1>6. ArgsInv'
  BY <1>1 DEF ShellInv, ArgsInv, Procs
<1>7. FreeInv'
  <2>1. procs[p] # Free
    BY DEF LastLive, Live, LiveStates, Free
  <2> QED
    BY <1>1, <1>2, <2>1 DEF ShellInv, FreeInv, Procs, Free
<1>8. FirstInv'
  <2>1. ASSUME NEW q \in Procs, Live(q)' PROVE Live(1)' /\ pc' = "wait"
    <3>1. Live(q) /\ Live(1) /\ pc = "wait"
      BY <1>3, <2>1 DEF ShellInv, FirstInv
    <3>2. 1 \in Procs
      BY <1>0 DEF Procs
    <3>3. CASE p # 1
      BY <1>4, <3>1, <3>2, <3>3
    <3>4. CASE p = 1
      <4>1. q = 1
        BY <1>0, <3>1, <3>4 DEF LastLive, Procs
      <4> QED
        BY <2>1, <3>1, <4>1
    <3> QED
      BY <3>3, <3>4
  <2> QED
    BY <2>1 DEF FirstInv, Procs
<1>9. ChainInv'
  <2> SUFFICES ASSUME NEW q \in Procs
      PROVE /\ procs'[q].st \in {"scan", "exec", "run"} => LastLive(q)'
            /\ procs'[q].st = "wait" =>
                 /\ procs'[q].child \in Procs /\ procs'[q].child > q
                 /\ procs'[q].pipe \in 1 .. Len(pipes')
                 /\ procs'[q].j < Len(procs'[q].args)
                 /\ \A q2 \in Procs : q2 > q /\ Live(q2)' =>
                      q2 >= procs'[q].child /\ Live(procs[q].child)'
    <3>1. \A q \in Procs : procs'[q].st = "wait" => procs'[q].child = procs[q].child
      BY <1>1, <1>2
    <3> QED
      BY <3>1 DEF ChainInv, Procs, Live
  <2>1. CASE q = p
    <3>1. \A q2 \in Procs : q2 > p => ~Live(q2)'
      BY <1>3 DEF LastLive
    <3> QED
      BY <1>1, <1>2, <2>1, <3>1 DEF LastLive, Live, LiveStates, Procs
  <2>2. CASE q # p /\ procs[q].st \in {"scan", "exec", "run"}
    <3>1. LastLive(q)
      BY <2>2 DEF ShellInv, ChainInv
    <3>2. LastLive(q)'
      BY <1>3, <1>4, <2>2, <3>1 DEF LastLive, Procs
    <3> QED
      BY <1>1, <2>2, <3>2
  <2>3. CASE q # p /\ procs[q].st = "wait"
    <3>1. /\ procs[q].child \in Procs /\ procs[q].child > q
          /\ procs[q].pipe \in 1 .. Len(pipes)
          /\ procs[q].j < Len(procs[q].args)
          /\ \A q2 \in Procs : q2 > q /\ Live(q2) => q2 >= procs[q].child /\ Live(procs[q].child)
      BY <2>3 DEF ShellInv, ChainInv
    <3>2. PICK c \in Procs : c = procs[q].child
      BY <3>1
    <3>3. ASSUME NEW q2 \in Procs, q2 > q, Live(q2)' PROVE q2 >= c /\ Live(c)'
      <4>1. Live(q2) /\ q2 >= c /\ Live(c)
        BY <1>3, <3>1, <3>2, <3>3
      <4>2. CASE c # p
        BY <1>4, <4>1, <4>2
      <4>3. CASE c = p
        <5>1. q2 = p
          BY <1>0, <4>1, <4>3 DEF LastLive
        <5> QED
          BY <3>3, <4>1, <4>3, <5>1
      <4> QED
        BY <4>2, <4>3
    <3>4. procs'[q] = procs[q] /\ procs'[q].child = c
      BY <1>1, <2>3, <3>2
    <3> QED
      BY <2>3, <3>1, <3>2, <3>3, <3>4
  <2>4. CASE q # p /\ procs[q].st \notin {"scan", "exec", "run", "wait"}
    BY <1>1, <2>4
  <2> QED
    BY <2>1, <2>2, <2>3, <2>4
<1> QED
  BY <1>5, <1>6, <1>7, <1>8, <1>9 DEF ShellInv

\* What a scanning process knows of its words and of the next operator.
LEMMA Scanning ==
    ASSUME ShellInv, NEW p \in Procs, procs[p].st \in {"scan", "exec", "run"}
    PROVE  /\ procs[p] \in ProcessType(p) /\ LastLive(p) /\ WellFormed(procs[p].args)
           /\ Len(procs[p].args) \in Nat
           /\ NextOp(procs[p]) # 0 =>
                /\ NextOp(procs[p]) \in 1 .. Len(procs[p].args)
                /\ procs[p].args[NextOp(procs[p])] \in Operators
<1>1. procs[p] \in ProcessType(p) /\ procs[p] # Free
  BY LiveIsTyped DEF ShellInv
<1>2. procs[p].args \in Seq(STRING) /\ procs[p].j \in Nat \ {0}
  BY <1>1 DEF ProcessType
<1>3. Len(procs[p].args) \in Nat
  BY <1>2, LenProperties
<1>4. NextOp(procs[p]) # 0 =>
        /\ NextOp(procs[p]) \in procs[p].j .. Len(procs[p].args)
        /\ procs[p].args[NextOp(procs[p])] \in Operators
  BY <1>2, NextOpFound
<1> QED
  BY <1>1, <1>2, <1>3, <1>4 DEF ShellInv, ArgsInv, ChainInv

\* A process takes other words and descriptors, and goes on scanning.
Retype(pr, w, c, i, o, e) ==
  [pr EXCEPT !.st = "scan", !.args = w, !.cmd = c, !.in = i, !.out = o, !.err = e, !.j = 2]

LEMMA Retyped ==
    ASSUME NEW p \in Procs, NEW pr \in ProcessType(p), NEW w \in Seq(STRING),
           NEW c \in Seq(STRING) \ {<<>>},
           NEW i \in Descriptor, NEW o \in Descriptor, NEW e \in Descriptor
    PROVE  /\ Retype(pr, w, c, i, o, e) \in ProcessType(p)
           /\ Retype(pr, w, c, i, o, e).st # "wait"
           /\ Retype(pr, w, c, i, o, e).args = w
<1>0. p \in Int
  BY ShellAssumption DEF Procs
<1>8. Retype(pr, w, c, i, o, e)
        = [[[[[[[pr EXCEPT !.st = "scan"] EXCEPT !.args = w] EXCEPT !.cmd = c] EXCEPT !.in = i]
             EXCEPT !.out = o] EXCEPT !.err = e] EXCEPT !.j = 2]
  BY DEF Retype
<1> DEFINE r1 == [pr EXCEPT !.st = "scan"]
<1>1. r1 \in ProcessType(p) /\ r1.st = "scan"
  BY <1>0 DEF ProcessType
<1> HIDE DEF r1
<1> DEFINE r2 == [r1 EXCEPT !.args = w]
<1>2. r2 \in ProcessType(p) /\ r2.st = "scan" /\ r2.args = w
  BY <1>0, <1>1 DEF ProcessType
<1> HIDE DEF r2
<1> DEFINE r3 == [r2 EXCEPT !.cmd = c]
<1>3. r3 \in ProcessType(p) /\ r3.st = "scan" /\ r3.args = w
  BY <1>0, <1>2 DEF ProcessType
<1> HIDE DEF r3
<1> DEFINE r4 == [r3 EXCEPT !.in = i]
<1>4. r4 \in ProcessType(p) /\ r4.st = "scan" /\ r4.args = w
  BY <1>0, <1>3 DEF ProcessType
<1> HIDE DEF r4
<1> DEFINE r5 == [r4 EXCEPT !.out = o]
<1>5. r5 \in ProcessType(p) /\ r5.st = "scan" /\ r5.args = w
  BY <1>0, <1>4 DEF ProcessType
<1> HIDE DEF r5
<1> DEFINE r6 == [r5 EXCEPT !.err = e]
<1>6. r6 \in ProcessType(p) /\ r6.st = "scan" /\ r6.args = w
  BY <1>0, <1>5 DEF ProcessType
<1> HIDE DEF r6
<1> DEFINE r7 == [r6 EXCEPT !.j = 2]
<1>7. r7 \in ProcessType(p) /\ r7.st = "scan" /\ r7.args = w
  <2>1. 2 \in Nat \ {0}
    OBVIOUS
  <2> QED
    BY <1>0, <1>6, <2>1 DEF ProcessType
<1> HIDE DEF r7
<1>9. r7 = Retype(pr, w, c, i, o, e)
  BY <1>8 DEF r1, r2, r3, r4, r5, r6, r7
<1> QED
  BY <1>7, <1>9

LEMMA RedirectStep ==
    ASSUME ShellInv, NEW p \in Procs, Redirect(p), pc' = pc PROVE ShellInv'
<1> DEFINE pr == procs[p]
           k  == NextOp(pr)
           f  == File(pr.args[k + 1])
           op == pr.args[k]
           ok == Opens(op, pr.args[k + 1])
           w  == SubSeq(pr.args, 1, k - 1) \o SubSeq(pr.args, k + 2, Len(pr.args))
           r  == [pr EXCEPT !.in  = IF op = "<" /\ ok THEN f ELSE @,
                            !.out = IF op = ">" /\ ok THEN f ELSE @,
                            !.err = IF op = "2>" /\ ok THEN f ELSE @,
                            !.args = SubSeq(@, 1, k - 1) \o SubSeq(@, k + 2, Len(@)),
                            !.j = 2]
<1>1. pr.st = "scan" /\ k # 0 /\ UNCHANGED pipes /\ procs' = [procs EXCEPT ![p] = r]
  BY DEF Redirect
<1>2. /\ pr \in ProcessType(p) /\ LastLive(p) /\ WellFormed(pr.args)
      /\ k \in 1 .. Len(pr.args) /\ pr.args[k] \in Operators
  BY <1>1, Scanning
<1>3. pr.args \in Seq(STRING)
  BY <1>2 DEF ProcessType
<1>4. w \in Seq(STRING) /\ WellFormed(w)
  BY <1>2, <1>3, ErasedWellFormed
<1>5. pr.args[k + 1] \in STRING
  BY <1>2, <1>3, ElementOfSeq, LenProperties DEF WellFormed
<1>6. f \in Descriptor
  BY <1>5 DEF File, Descriptor
<1>7. /\ pr.in \in Descriptor /\ pr.out \in Descriptor /\ pr.err \in Descriptor
      /\ pr.cmd \in Seq(STRING) \ {<<>>}
  BY <1>2 DEF ProcessType
<1> DEFINE i == IF op = "<" /\ ok THEN f ELSE pr.in
           o == IF op = ">" /\ ok THEN f ELSE pr.out
           e == IF op = "2>" /\ ok THEN f ELSE pr.err
<1>8. i \in Descriptor /\ o \in Descriptor /\ e \in Descriptor
  BY <1>6, <1>7
<1>9. r = Retype(pr, w, pr.cmd, i, o, e)
  BY <1>1, <1>2 DEF ProcessType, Retype
<1> HIDE DEF r, w, i, o, e
<1> HIDE DEF pr
<1>10. r \in ProcessType(p) /\ r.st # "wait" /\ r.args = w
  <2>1. /\ Retype(pr, w, pr.cmd, i, o, e) \in ProcessType(p)
        /\ Retype(pr, w, pr.cmd, i, o, e).st # "wait"
        /\ Retype(pr, w, pr.cmd, i, o, e).args = w
    <3>1. /\ pr \in ProcessType(p) /\ w \in Seq(STRING) /\ pr.cmd \in Seq(STRING) \ {<<>>}
          /\ i \in Descriptor /\ o \in Descriptor /\ e \in Descriptor
      BY <1>2, <1>4, <1>7, <1>8
    <3> QED
      BY <3>1, Retyped
  <2> QED
    BY <1>9, <2>1
<1>11. pipes' \in Seq(0 .. Capacity) /\ Len(pipes') = Len(pipes)
  BY <1>1 DEF ShellInv, ProcsType
<1> QED
  BY <1>1, <1>2, <1>4, <1>10, <1>11, OneMoves

\* A process that has nobody above it takes another state, or more.
LEMMA StateChanges ==
    ASSUME ShellInv, NEW p \in Procs, LastLive(p),
           NEW st \in {"scan", "run", "done"}, NEW left \in 0 .. MaxOut,
           NEW j \in Nat \ {0},
           procs' = [procs EXCEPT ![p] = [@ EXCEPT !.st = st, !.left = left, !.j = j]],
           pipes' \in Seq(0 .. Capacity), Len(pipes') = Len(pipes), pc' = pc
    PROVE  ShellInv'
<1> DEFINE r == [procs[p] EXCEPT !.st = st, !.left = left, !.j = j]
<1>1. procs[p] \in ProcessType(p) /\ procs[p] # Free
  BY LiveIsTyped DEF ShellInv, LastLive, Live, LiveStates
<1>2. WellFormed(procs[p].args)
  BY <1>1 DEF ShellInv, ArgsInv
<1>3. r \in ProcessType(p) /\ r.st # "wait" /\ r.args = procs[p].args
  BY <1>1 DEF ProcessType
<1>4. procs' = [procs EXCEPT ![p] = r]
  BY DEF ShellInv, ProcsType
<1> QED
  BY <1>2, <1>3, <1>4, OneMoves

LEMMA BecomesStep ==
    ASSUME ShellInv, NEW p \in Procs, LastLive(p), NEW words,
           NEW n \in 0 .. MaxOut, Becomes(p, words, n), pc' = pc
    PROVE  ShellInv'
<1>1. procs[p] \in ProcessType(p)
  BY LiveIsTyped DEF ShellInv, LastLive, Live, LiveStates
<1>2. procs' = [procs EXCEPT ![p] = [@ EXCEPT !.st = "run", !.left = n, !.j = procs[p].j]]
  BY <1>1 DEF Becomes, ProcessType, ShellInv, ProcsType
<1>3. pipes' \in Seq(0 .. Capacity) /\ Len(pipes') = Len(pipes)
  BY DEF Becomes, ShellInv, ProcsType
<1>4. procs[p].j \in Nat \ {0}
  BY <1>1 DEF ProcessType
<1> QED
  BY <1>2, <1>3, <1>4, StateChanges

LEMMA ExecStep ==
    ASSUME ShellInv, NEW p \in Procs, ExecPipe(p) \/ ExecLast(p), pc' = pc
    PROVE  ShellInv'
<1>1. procs[p].st \in {"scan", "exec"}
  BY DEF ExecPipe, ExecLast
<1>2. procs[p] \in ProcessType(p) /\ LastLive(p)
  BY <1>1, Scanning
<1>3. \/ \E n \in 0 .. MaxOut, words \in {SubSeq(procs[p].args, 1, procs[p].j - 1), procs[p].cmd} :
           Becomes(p, words, n)
      \/ /\ \/ procs' = [procs EXCEPT ![p] = [procs[p] EXCEPT !.st = "scan", !.j = @ + 1]]
            \/ procs' = [procs EXCEPT ![p].st = "done"]
         /\ UNCHANGED pipes
  BY DEF ExecPipe, ExecLast
<1>4. CASE UNCHANGED pipes /\ procs' = [procs EXCEPT ![p] = [procs[p] EXCEPT !.st = "scan", !.j = @ + 1]]
  <2>3. procs[p].left \in 0 .. MaxOut /\ procs[p].j + 1 \in Nat \ {0}
    BY <1>2 DEF ProcessType
  <2>4. [procs[p] EXCEPT !.st = "scan", !.j = procs[p].j + 1]
          = [procs[p] EXCEPT !.st = "scan", !.left = procs[p].left, !.j = procs[p].j + 1]
    BY <1>2 DEF ProcessType
  <2>1. procs' = [procs EXCEPT ![p] = [@ EXCEPT !.st = "scan", !.left = procs[p].left,
                                                !.j = procs[p].j + 1]]
    BY <1>4, <2>4
  <2>2. pipes' \in Seq(0 .. Capacity) /\ Len(pipes') = Len(pipes)
    BY <1>4 DEF ShellInv, ProcsType
  <2> QED
    BY <1>2, <2>1, <2>2, <2>3, StateChanges
<1>5. CASE UNCHANGED pipes /\ procs' = [procs EXCEPT ![p].st = "done"]
  <2>1. /\ procs[p].left \in 0 .. MaxOut /\ procs[p].j \in Nat \ {0}
        /\ procs' = [procs EXCEPT ![p] = [@ EXCEPT !.st = "done", !.left = procs[p].left,
                                                    !.j = procs[p].j]]
    BY <1>2, <1>5 DEF ProcessType, ShellInv, ProcsType
  <2>2. pipes' \in Seq(0 .. Capacity) /\ Len(pipes') = Len(pipes)
    BY <1>5 DEF ShellInv, ProcsType
  <2> QED
    BY <1>2, <2>1, <2>2, StateChanges
<1> QED
  BY <1>2, <1>3, <1>4, <1>5, BecomesStep

LEMMA WaitedStep ==
    ASSUME ShellInv, NEW p \in Procs, Waited(p), pc' = pc PROVE ShellInv'
<1> DEFINE pr == procs[p]
           rest == SubSeq(pr.args, pr.j + 1, Len(pr.args))
           r == [pr EXCEPT !.st = "scan", !.args = rest, !.cmd = rest,
                           !.in = Pipe(pr.pipe), !.j = 2]
<1>1. /\ pr.st = "wait" /\ procs[pr.child].st = "done" /\ UNCHANGED pipes
      /\ procs' = [procs EXCEPT ![p] = r]
  BY DEF Waited
<1>2. pr \in ProcessType(p) /\ pr # Free
  BY <1>1, LiveIsTyped DEF ShellInv
<1>3. /\ pr.child \in Procs /\ pr.pipe \in 1 .. Len(pipes) /\ pr.j < Len(pr.args)
      /\ \A q \in Procs : q > p /\ Live(q) => Live(pr.child)
  BY <1>1 DEF ShellInv, ChainInv
<1>4. LastLive(p)
  BY <1>1, <1>3 DEF LastLive, Live, LiveStates
<1>5. /\ pr.args \in Seq(STRING) /\ WellFormed(pr.args) /\ Len(pr.args) \in Nat
      /\ pr.j \in 0 .. Len(pr.args)
  BY <1>2, <1>3, LenProperties DEF ProcessType, ShellInv, ArgsInv
<1>6. rest \in Seq(STRING) /\ Len(rest) = Len(pr.args) - pr.j /\ WellFormed(rest)
  BY <1>3, <1>5, Suffix, SuffixWellFormed
<1>7. PICK w \in Seq(STRING) : w = rest /\ w # <<>> /\ WellFormed(w)
  <2>1. Len(rest) # 0
    BY <1>3, <1>5, <1>6
  <2> HIDE DEF rest
  <2> QED
    BY <1>6, <2>1, EmptySeq
<1>8. PICK d \in Descriptor : d = Pipe(pr.pipe)
  BY <1>3 DEF Pipe, Descriptor
<1>9. r \in ProcessType(p) /\ r.st # "wait" /\ r.args = w
  <2>1. pr.out \in Descriptor /\ pr.err \in Descriptor
    BY <1>2 DEF ProcessType
  <2>2. r = Retype(pr, w, w, d, pr.out, pr.err)
    BY <1>2, <1>7, <1>8 DEF ProcessType, Retype
  <2> HIDE DEF r, pr
  <2>3. /\ Retype(pr, w, w, d, pr.out, pr.err) \in ProcessType(p)
        /\ Retype(pr, w, w, d, pr.out, pr.err).st # "wait"
        /\ Retype(pr, w, w, d, pr.out, pr.err).args = w
    <3>1. pr \in ProcessType(p) /\ w \in Seq(STRING) \ {<<>>}
      BY <1>2, <1>7
    <3> QED
      BY <2>1, <3>1, Retyped
  <2> QED
    BY <2>2, <2>3
<1>10. pipes' \in Seq(0 .. Capacity) /\ Len(pipes') = Len(pipes)
  BY <1>1 DEF ShellInv, ProcsType
<1> QED
  BY <1>1, <1>4, <1>7, <1>9, <1>10, OneMoves

\* The type of a process when there are n pipes and D are the descriptors.
ProcType(p, n, D) ==
  [st : {"scan", "exec", "wait", "run", "done"},
   args : Seq(STRING), j : Nat \ {0}, cmd : Seq(STRING) \ {<<>>},
   in : D, out : D, err : D,
   pipe : 0 .. n, child : {0} \cup (p + 1) .. MaxProcs, left : 0 .. MaxOut]

\* A process that has forked another, and the other.
Waiting(pr, j, m, c) == [pr EXCEPT !.st = "wait", !.j = j, !.pipe = m, !.child = c]
Forked(pr, j, d) == [pr EXCEPT !.st = "exec", !.j = j, !.out = d, !.pipe = 0, !.child = 0]

LEMMA WaitingType ==
    ASSUME NEW p \in Int, NEW n \in Nat, NEW D, NEW pr \in ProcType(p, n, D),
           NEW j \in Nat \ {0}, NEW m \in 0 .. n, NEW c \in (p + 1) .. MaxProcs
    PROVE  /\ Waiting(pr, j, m, c) \in ProcType(p, n, D)
           /\ Waiting(pr, j, m, c).st = "wait"
           /\ Waiting(pr, j, m, c).j = j
           /\ Waiting(pr, j, m, c).pipe = m
           /\ Waiting(pr, j, m, c).child = c
           /\ Waiting(pr, j, m, c).args = pr.args
<1>5. Waiting(pr, j, m, c)
        = [[[[pr EXCEPT !.st = "wait"] EXCEPT !.j = j] EXCEPT !.pipe = m] EXCEPT !.child = c]
  BY DEF Waiting
<1> DEFINE r1 == [pr EXCEPT !.st = "wait"]
<1>1. r1 \in ProcType(p, n, D) /\ r1.st = "wait" /\ r1.args = pr.args
  BY DEF ProcType
<1> HIDE DEF r1
<1> DEFINE r2 == [r1 EXCEPT !.j = j]
<1>2. r2 \in ProcType(p, n, D) /\ r2.st = "wait" /\ r2.j = j /\ r2.args = pr.args
  BY <1>1 DEF ProcType
<1> HIDE DEF r2
<1> DEFINE r3 == [r2 EXCEPT !.pipe = m]
<1>3. r3 \in ProcType(p, n, D) /\ r3.st = "wait" /\ r3.j = j /\ r3.pipe = m /\ r3.args = pr.args
  BY <1>2 DEF ProcType
<1> HIDE DEF r3
<1> DEFINE r4 == [r3 EXCEPT !.child = c]
<1>4. r4 \in ProcType(p, n, D) /\ r4.st = "wait" /\ r4.j = j /\ r4.pipe = m /\ r4.child = c /\ r4.args = pr.args
  BY <1>3 DEF ProcType
<1> HIDE DEF r4
<1>6. r4 = Waiting(pr, j, m, c)
  BY <1>5 DEF r1, r2, r3, r4
<1> QED
  BY <1>4, <1>6

LEMMA ForkedType ==
    ASSUME NEW p \in Int, NEW q \in Int, NEW n \in Nat, NEW D, NEW pr \in ProcType(p, n, D),
           NEW j \in Nat \ {0}, NEW d \in D
    PROVE  /\ Forked(pr, j, d) \in ProcType(q, n, D)
           /\ Forked(pr, j, d).st = "exec"
           /\ Forked(pr, j, d).args = pr.args
<1>6. Forked(pr, j, d)
        = [[[[[pr EXCEPT !.st = "exec"] EXCEPT !.j = j] EXCEPT !.out = d] EXCEPT !.pipe = 0] EXCEPT !.child = 0]
  BY DEF Forked
<1> DEFINE r1 == [pr EXCEPT !.st = "exec"]
<1>1. r1 \in ProcType(p, n, D) /\ r1.st = "exec" /\ r1.args = pr.args
  BY DEF ProcType
<1> HIDE DEF r1
<1> DEFINE r2 == [r1 EXCEPT !.j = j]
<1>2. r2 \in ProcType(p, n, D) /\ r2.st = "exec" /\ r2.args = pr.args
  BY <1>1 DEF ProcType
<1> HIDE DEF r2
<1> DEFINE r3 == [r2 EXCEPT !.out = d]
<1>3. r3 \in ProcType(p, n, D) /\ r3.st = "exec" /\ r3.args = pr.args
  BY <1>2 DEF ProcType
<1> HIDE DEF r3
<1> DEFINE r4 == [r3 EXCEPT !.pipe = 0]
<1>4. r4 \in ProcType(p, n, D) /\ r4.st = "exec" /\ r4.args = pr.args
  <2>1. 0 \in 0 .. n
    OBVIOUS
  <2> QED
    BY <1>3, <2>1 DEF ProcType
<1> HIDE DEF r4
<1> DEFINE r5 == [r4 EXCEPT !.child = 0]
<1>5. r5 \in ProcType(q, n, D) /\ r5.st = "exec" /\ r5.args = pr.args
  BY <1>4 DEF ProcType
<1> HIDE DEF r5
<1>7. r5 = Forked(pr, j, d)
  BY <1>6 DEF r1, r2, r3, r4, r5
<1> QED
  BY <1>5, <1>7


LEMMA TypeGrows ==
    ASSUME NEW p \in Int, NEW n \in Nat, NEW m \in Nat, n <= m, NEW D, NEW E, D \subseteq E,
           NEW pr \in ProcType(p, n, D)
    PROVE  pr \in ProcType(p, m, E)
BY DEF ProcType

LEMMA MakePipeStep ==
    ASSUME ShellInv, NEW p \in Procs, MakePipe(p), pc' = pc PROVE ShellInv'
<1> DEFINE pr == procs[p]
           k  == NextOp(pr)
           n  == Len(pipes')
<1>0. /\ MaxProcs \in Nat \ {0} /\ Procs \subseteq Int /\ 1 \in Procs
      /\ Capacity \in Nat
  BY ShellAssumption DEF Procs
<1>1. /\ pr.st = "scan" /\ k # 0 /\ pr.args[k] = "|" /\ pipes' = Append(pipes, 0)
  BY DEF MakePipe
<1>2. PICK q \in Procs :
        /\ procs[q] = Free
        /\ procs' = [procs EXCEPT
             ![p] = [pr EXCEPT !.st = "wait", !.j = k, !.pipe = Len(pipes'), !.child = q],
             ![q] = [pr EXCEPT !.st = "exec", !.j = k, !.out = Pipe(Len(pipes')),
                               !.pipe = 0, !.child = 0]]
        /\ \A q2 \in 1 .. (q - 1) : procs[q2] # Free
  BY DEF MakePipe, Procs
<1>3. /\ pr \in ProcessType(p) /\ LastLive(p) /\ WellFormed(pr.args)
      /\ k \in 1 .. Len(pr.args) /\ Len(pr.args) \in Nat
  BY <1>1, Scanning
<1>4. k < Len(pr.args) /\ k \in Nat \ {0}
  BY <1>1, <1>3 DEF WellFormed, Operators
<1>5. q > p
  <2>1. pr # Free
    BY <1>1 DEF Free
  <2> QED
    BY <1>0, <1>2, <2>1 DEF ShellInv, FreeInv
<1>6. /\ pipes' \in Seq(0 .. Capacity) /\ Len(pipes) \in Nat
      /\ n \in Nat \ {0} /\ n = Len(pipes) + 1
  <2>1. 0 \in 0 .. Capacity /\ pipes \in Seq(0 .. Capacity)
    BY <1>0 DEF ShellInv, ProcsType
  <2> QED
    BY <1>1, <2>1, AppendProperties, LenProperties
<1>7. \A x \in Procs : procs[x] # Free => procs[x] \in ProcType(x, n, Descriptor')
  <2> SUFFICES ASSUME NEW x \in Procs, procs[x] # Free
               PROVE  procs[x] \in ProcType(x, n, Descriptor')
    OBVIOUS
  <2>1. Descriptor \subseteq Descriptor'
    BY <1>6 DEF Descriptor
  <2>2. procs[x] \in ProcType(x, Len(pipes), Descriptor)
    BY DEF ShellInv, ProcsType, ProcessType, ProcType
  <2> QED
    BY <1>0, <1>6, <2>1, <2>2, TypeGrows
<1> DEFINE r1 == Waiting(pr, k, n, q)
           r2 == Forked(pr, k, Pipe(n))
<1>8. procs' = [procs EXCEPT ![p] = r1, ![q] = r2]
  BY <1>2 DEF Waiting, Forked
<1>9. /\ DOMAIN procs' = Procs /\ procs'[p] = r1 /\ procs'[q] = r2
      /\ \A x \in Procs \ {p, q} : procs'[x] = procs[x]
  <2>1. DOMAIN procs = Procs
    BY DEF ShellInv, ProcsType
  <2> HIDE DEF r1, r2
  <2> QED
    BY <1>0, <1>5, <1>8, <2>1
<1>10. pr \in ProcType(p, n, Descriptor') /\ pr # Free
  BY <1>1, <1>7 DEF Free
<1>11. Pipe(n) \in Descriptor' /\ q \in (p + 1) .. MaxProcs
  BY <1>0, <1>5, <1>6 DEF Pipe, Descriptor, Procs
<1> HIDE DEF pr, k, n
<1>12. /\ r1 \in ProcType(p, n, Descriptor')
       /\ r1.st = "wait" /\ r1.j = k /\ r1.pipe = n /\ r1.child = q /\ r1.args = pr.args
  <2>1. p \in Int /\ n \in 0 .. n /\ n \in Nat
    BY <1>0, <1>6
  <2> QED
    BY <1>4, <1>10, <1>11, <2>1, WaitingType
<1>13. r2 \in ProcType(q, n, Descriptor') /\ r2.st = "exec" /\ r2.args = pr.args
  <2>1. p \in Int /\ q \in Int /\ n \in Nat
    BY <1>0, <1>6
  <2> QED
    BY <1>4, <1>10, <1>11, <2>1, ForkedType
<1> HIDE DEF r1, r2
<1>14. ProcsType'
  <2>1. \A x \in Procs : ProcessType(x)' = ProcType(x, n, Descriptor')
    BY DEF ProcessType, ProcType, n
  <2>2. \A x \in Procs : procs'[x] \in ProcType(x, n, Descriptor') \cup {Free}
    BY <1>7, <1>9, <1>12, <1>13
  <2> QED
    BY <1>6, <1>9, <2>1, <2>2 DEF ProcsType, Procs, Free
<1>15. r1 # Free /\ r2 # Free
  BY <1>12, <1>13 DEF Free
<1>16. ArgsInv'
  BY <1>3, <1>9, <1>12, <1>13, <1>15 DEF ShellInv, ArgsInv, Procs, Free
<1>17. FreeInv'
  <2> SUFFICES ASSUME NEW x \in Procs, NEW y \in Procs, procs'[x] = Free, x < y
               PROVE  procs'[y] = Free
    BY DEF FreeInv, Procs, Free
  <2>1. x # p /\ x # q /\ procs[x] = Free
    BY <1>9, <1>15
  <2>2. procs[y] = Free
    BY <2>1 DEF ShellInv, FreeInv
  <2>3. y # p
    BY <1>10, <2>2 DEF pr
  <2>4. y # q
    BY <1>0, <1>2, <2>1 DEF Procs
  <2> QED
    BY <1>9, <2>2, <2>3, <2>4
<1>18. Live(p) /\ Live(p)' /\ Live(q)' /\ ~Live(q)
  BY <1>1, <1>2, <1>9, <1>12, <1>13 DEF Live, LiveStates, Free, pr
<1>19. \A x \in Procs : x # q => (Live(x)' <=> Live(x))
  BY <1>9, <1>18 DEF Live
<1>20. FirstInv'
  <2>1. Live(1) /\ pc = "wait"
    BY <1>18 DEF ShellInv, FirstInv
  <2>2. Live(1)'
    BY <1>0, <1>18, <1>19, <2>1
  <2> QED
    BY <2>1, <2>2 DEF FirstInv
<1>21. ChainInv'
  <2> SUFFICES ASSUME NEW x \in Procs
      PROVE /\ procs'[x].st \in {"scan", "exec", "run"} => LastLive(x)'
            /\ procs'[x].st = "wait" =>
                 \E c \in Procs :
                   /\ procs'[x].child = c /\ c > x
                   /\ procs'[x].pipe \in 1 .. Len(pipes')
                   /\ procs'[x].j < Len(procs'[x].args)
                   /\ \A y \in Procs : y > x /\ Live(y)' => y >= c /\ Live(c)'
    BY DEF ChainInv, Procs, Live
  <2>1. CASE x = p
    <3>1. \A y \in Procs : y > p /\ Live(y)' => y = q
      BY <1>3, <1>19 DEF LastLive
    <3>2. n \in 1 .. Len(pipes')
      BY <1>6 DEF n
    <3> QED
      BY <1>0, <1>4, <1>5, <1>9, <1>12, <1>18, <2>1, <3>1, <3>2
  <2>2. CASE x = q
    <3>1. ASSUME NEW y \in Procs, y > q PROVE ~Live(y)'
      <4>1. procs[y] = Free
        BY <1>0, <1>2, <3>1 DEF ShellInv, FreeInv
      <4>2. ~Live(y) /\ y # q
        BY <1>0, <3>1, <4>1 DEF Live, LiveStates, Free
      <4> QED
        BY <1>19, <4>2
    <3>2. LastLive(q)'
      BY <1>18, <3>1 DEF LastLive, Procs
    <3> QED
      BY <1>9, <1>13, <2>2, <3>2
  <2>3. CASE x # p /\ x # q
    <3>1. procs'[x] = procs[x]
      BY <1>9, <2>3
    <3>2. procs[x].st \notin {"scan", "exec", "run"}
      <4>1. ASSUME LastLive(x) PROVE FALSE
        BY <1>0, <1>3, <1>18, <2>3, <4>1 DEF LastLive
      <4> QED
        BY <4>1 DEF ShellInv, ChainInv
    <3>3. ASSUME procs[x].st = "wait"
          PROVE  \E c \in Procs :
                   /\ procs[x].child = c /\ c > x
                   /\ procs[x].pipe \in 1 .. Len(pipes')
                   /\ procs[x].j < Len(procs[x].args)
                   /\ \A y \in Procs : y > x /\ Live(y)' => y >= c /\ Live(c)'
      <4>1. PICK c \in Procs : c = procs[x].child
        BY <3>3 DEF ShellInv, ChainInv
      <4>2. /\ c > x /\ procs[x].pipe \in 1 .. Len(pipes)
            /\ procs[x].j < Len(procs[x].args)
            /\ \A y \in Procs : y > x /\ Live(y) => y >= c /\ Live(c)
        BY <3>3, <4>1 DEF ShellInv, ChainInv
      <4>3. p > x
        <5>1. Live(x)
          BY <3>3 DEF Live, LiveStates
        <5> QED
          BY <1>0, <1>3, <2>3, <5>1 DEF LastLive
      <4>4. p >= c /\ Live(c)
        BY <1>18, <4>2, <4>3
      <4>5. Live(c)'
        BY <1>18, <1>19, <4>4
      <4>6. \A y \in Procs : y > x /\ Live(y)' => y >= c
        BY <1>0, <1>5, <1>19, <4>2, <4>4
      <4>7. procs[x].pipe \in 1 .. Len(pipes')
        BY <1>6, <4>2 DEF n
      <4> QED
        BY <4>1, <4>2, <4>5, <4>6, <4>7
    <3> QED
      BY <3>1, <3>2, <3>3
  <2> QED
    BY <2>1, <2>2, <2>3
<1> QED
  BY <1>14, <1>16, <1>17, <1>20, <1>21 DEF ShellInv

\* A descriptor that is a pipe is one of those that were made.
LEMMA PipeMade ==
    ASSUME ProcsType, NEW d \in Descriptor, d[1] = "pipe"
    PROVE  d[2] \in 1 .. Len(pipes)
BY DEF Descriptor, Tty

LEMMA WriteStep ==
    ASSUME ShellInv, NEW p \in Procs, Write(p), pc' = pc PROVE ShellInv'
<1> DEFINE pr == procs[p]
<1>1. /\ pr.st = "run" /\ pr.left > 0 /\ ~Full(pr)
      /\ procs' = [procs EXCEPT ![p].left = @ - 1]
      /\ pipes' = IF pr.out[1] = "pipe" THEN [pipes EXCEPT ![pr.out[2]] = @ + 1] ELSE pipes
  BY DEF Write
<1>2. pr \in ProcessType(p) /\ LastLive(p)
  BY <1>1, Scanning
<1>3. pr.left - 1 \in 0 .. MaxOut /\ pr.j \in Nat \ {0} /\ pr.out \in Descriptor
  BY <1>1, <1>2, ShellAssumption DEF ProcessType
<1>4. procs' = [procs EXCEPT ![p] = [@ EXCEPT !.st = "run", !.left = pr.left - 1, !.j = pr.j]]
  BY <1>1, <1>2 DEF ProcessType, ShellInv, ProcsType
<1>5. pipes' \in Seq(0 .. Capacity) /\ Len(pipes') = Len(pipes)
  <2>1. pipes \in Seq(0 .. Capacity)
    BY DEF ShellInv, ProcsType
  <2>2. CASE pr.out[1] = "pipe"
    <3>1. PICK m \in 1 .. Len(pipes) : m = pr.out[2]
      BY <1>3, <2>2, PipeMade DEF ShellInv
    <3>2. pipes[m] \in 0 .. Capacity /\ pipes[m] # Capacity
      BY <1>1, <2>1, <2>2, <3>1, ElementOfSeq DEF Full
    <3>3. pipes[m] + 1 \in 0 .. Capacity
      BY <3>2, ShellAssumption
    <3>4. pipes' = [pipes EXCEPT ![m] = pipes[m] + 1]
      BY <1>1, <2>2, <3>1
    <3> QED
      BY <2>1, <3>3, <3>4, ExceptSeq
  <2> QED
    BY <1>1, <2>1, <2>2
<1> QED
  BY <1>2, <1>3, <1>4, <1>5, StateChanges

LEMMA ReadStep ==
    ASSUME ShellInv, NEW p \in Procs, Read(p), pc' = pc PROVE ShellInv'
<1> DEFINE pr == procs[p]
<1>1. /\ pr.st = "run" /\ pr.in[1] = "pipe" /\ pipes[pr.in[2]] > 0 /\ UNCHANGED procs
      /\ pipes' = [pipes EXCEPT ![pr.in[2]] = @ - 1]
  BY DEF Read
<1>2. pr \in ProcessType(p) /\ LastLive(p)
  BY <1>1, Scanning
<1>3. pr.in \in Descriptor
  BY <1>2 DEF ProcessType
<1>5. pipes' \in Seq(0 .. Capacity) /\ Len(pipes') = Len(pipes)
  <2>1. pipes \in Seq(0 .. Capacity)
    BY DEF ShellInv, ProcsType
  <2>2. PICK m \in 1 .. Len(pipes) : m = pr.in[2]
    BY <1>1, <1>3, PipeMade DEF ShellInv
  <2>3. pipes[m] \in 0 .. Capacity /\ pipes[m] > 0
    BY <1>1, <2>1, <2>2, ElementOfSeq
  <2>4. pipes[m] - 1 \in 0 .. Capacity
    BY <2>3, ShellAssumption
  <2>5. pipes' = [pipes EXCEPT ![m] = pipes[m] - 1]
    BY <1>1, <2>2
  <2> QED
    BY <2>1, <2>4, <2>5, ExceptSeq
<1>6. ProcsType'
  BY <1>1, <1>5 DEF ShellInv, ProcsType, ProcessType, Descriptor, Free
<1>7. ArgsInv' /\ FreeInv' /\ ChainInv' /\ FirstInv'
  BY <1>1, <1>5 DEF ShellInv, ArgsInv, FreeInv, ChainInv, FirstInv, LastLive, Live
<1> QED
  BY <1>6, <1>7 DEF ShellInv

LEMMA ExitStep ==
    ASSUME ShellInv, NEW p \in Procs, Exit(p), pc' = pc PROVE ShellInv'
<1>1. procs[p].st = "run" /\ UNCHANGED pipes /\ procs' = [procs EXCEPT ![p].st = "done"]
  BY DEF Exit
<1>2. procs[p] \in ProcessType(p) /\ LastLive(p)
  BY <1>1, Scanning
<1>3. procs[p].left \in 0 .. MaxOut /\ procs[p].j \in Nat \ {0}
  BY <1>2 DEF ProcessType
<1>4. procs' = [procs EXCEPT ![p] = [@ EXCEPT !.st = "done", !.left = procs[p].left,
                                              !.j = procs[p].j]]
  BY <1>1, <1>2 DEF ProcessType, ShellInv, ProcsType
<1>5. pipes' \in Seq(0 .. Capacity) /\ Len(pipes') = Len(pipes)
  BY <1>1 DEF ShellInv, ProcsType
<1> QED
  BY <1>2, <1>3, <1>4, <1>5, StateChanges

-----------------------------------------------------------------------------
(***************************************************************************)
(* The steps of the shell.                                                 *)
(***************************************************************************)
\* No process but perhaps the child, which is new.
LEMMA Alone ==
    ASSUME NEW c \in {Free, Child(line)'},
           procs' = [p \in 1 .. MaxProcs |-> IF p = 1 THEN c ELSE Free],
           pipes' = <<>>, c # Free => pc' = "wait",
           line' \in Lines, Words(line') # <<>> \/ c = Free
    PROVE  ShellInv'
<1>0. MaxProcs \in Nat \ {0} /\ 1 \in Procs /\ Procs \subseteq Nat
  BY ShellAssumption DEF Procs
<1>1. /\ line' \in Seq(STRING) /\ Words(line') \in Seq(STRING) /\ WellFormed(line')
  BY ShellAssumption, WordsType DEF WellFormed
<1>2. c # Free => /\ c \in ProcessType(1)' /\ c.st = "scan" /\ c.args = line'
  <2>1. 0 \in 0 .. Len(pipes') /\ 0 \in 0 .. MaxOut /\ 1 \in Nat \ {0}
    BY ShellAssumption, EmptySeq
  <2>2. Tty \in Descriptor'
    BY DEF Descriptor
  <2>3. Free.st = "free" /\ Child(line').st = "scan" /\ Child(line').args = line'
    BY DEF Free, Child
  <2>4. c # Free => Words(line') \in Seq(STRING) \ {<<>>}
    BY <1>1
  <2>5. c # Free => Child(line') \in ProcessType(1)'
    BY <1>1, <2>1, <2>2, <2>4 DEF Child, ProcessType
  <2> QED
    BY <2>3, <2>5
<1>3. pipes' \in Seq(0 .. Capacity)
  BY EmptySeq
<1>4. /\ DOMAIN procs' = Procs /\ procs'[1] = c
      /\ \A p \in Procs : p # 1 => procs'[p] = Free
  BY <1>0 DEF Procs
<1>5. ProcsType'
  BY <1>2, <1>3, <1>4 DEF ProcsType, Procs, Free
<1>6. ArgsInv'
  BY <1>1, <1>2, <1>4 DEF ArgsInv, Procs, Free
<1>7. FreeInv'
  BY <1>0, <1>4 DEF FreeInv, Procs, Free
<1>8. \A p \in Procs : Live(p)' => p = 1 /\ c # Free
  BY <1>4 DEF Live, LiveStates, Free
<1>9. FirstInv'
  BY <1>2, <1>8 DEF FirstInv, Procs
<1>10. ChainInv'
  <2>1. c # Free => LastLive(1)'
    BY <1>0, <1>2, <1>4, <1>8 DEF LastLive, Live, LiveStates, Procs
  <2>2. \A p \in Procs : procs'[p].st # "wait" /\ (procs'[p].st = "scan" => p = 1 /\ c # Free)
                            /\ procs'[p].st \notin {"exec", "run"}
    BY <1>2, <1>4 DEF Free
  <2> QED
    BY <2>1, <2>2 DEF ChainInv, Procs
<1> QED
  BY <1>5, <1>6, <1>7, <1>9, <1>10 DEF ShellInv

LEMMA LineStep ==
    ASSUME ShellInv, NEW l \in Lines, ReadLine(l) PROVE ShellInv'
<1>1. line' = l /\ pipes' = <<>>
  BY DEF ReadLine
<1>2. CASE procs' = [p \in 1 .. MaxProcs |-> Free]
  <2>1. procs' = [p \in 1 .. MaxProcs |-> IF p = 1 THEN Free ELSE Free]
    BY <1>2
  <2> QED
    BY <1>1, <2>1, Alone
<1>3. CASE /\ Words(l) # <<>> /\ pc' = "wait"
           /\ procs' = [p \in 1 .. MaxProcs |-> IF p = 1 THEN Child(l) ELSE Free]
  BY <1>1, <1>3, Alone
<1> QED
  BY <1>2, <1>3 DEF ReadLine

\* The shell and its queue leave the processes alone; it waits until they
\* have ended.
LEMMA ShellStep ==
    ASSUME ShellInv, Eof \/ Reap \/ Queue \/ UNCHANGED vars
                     \/ ((\E d \in Dirs : Rmdir(d) \/ Mkdir(d)) /\ UNCHANGED procvars)
    PROVE  ShellInv'
<1>1. UNCHANGED <<procs, pipes>>
  BY DEF Eof, Reap, Queue, vars, procvars
<1>2. ProcsType' /\ ArgsInv' /\ FreeInv' /\ ChainInv'
  BY <1>1 DEF ShellInv, ProcsType, ProcessType, Descriptor, ArgsInv, FreeInv, ChainInv,
              LastLive, Live
<1>3. FirstInv'
  <2>1. CASE Reap
    <3>1. ~Live(1)
      BY <2>1 DEF Reap, Live, LiveStates
    <3>2. \A q \in Procs : ~Live(q)
      BY <3>1 DEF ShellInv, FirstInv
    <3> QED
      BY <1>1, <3>2 DEF FirstInv, Live
  <2>2. CASE pc' = pc
    BY <1>1, <2>2 DEF ShellInv, FirstInv, Live
  <2>3. CASE pc # "wait"
    BY <1>1, <2>3 DEF ShellInv, FirstInv, Live
  <2>4. Reap \/ pc' = pc \/ pc # "wait"
    BY DEF Eof, Queue, Turn, Popped, Shown, Rmdir, Mkdir, vars, dirvars
  <2> QED
    BY <2>1, <2>2, <2>3, <2>4
<1> QED
  BY <1>2, <1>3 DEF ShellInv

LEMMA ShellNext == ASSUME ShellInv, [Next]_vars PROVE ShellInv'
<1>1. ASSUME NEW l \in Lines, ReadLine(l) PROVE ShellInv'
  BY <1>1, LineStep
<1>2. CASE Eof \/ Reap \/ Queue \/ UNCHANGED vars
           \/ ((\E d \in Dirs : Rmdir(d) \/ Mkdir(d)) /\ UNCHANGED procvars)
  BY <1>2, ShellStep
<1>3. ASSUME NEW p \in 1 .. MaxProcs, Process(p) PROVE ShellInv'
  <2>1. p \in Procs /\ pc' = pc
    BY <1>3 DEF Process, dirvars, Procs
  <2> QED
    BY <1>3, <2>1, RedirectStep, MakePipeStep, ExecStep, WaitedStep, WriteStep, ReadStep,
       ExitStep DEF Process
<1> QED
  BY <1>1, <1>2, <1>3 DEF Next

LEMMA ShellStart == ASSUME Init PROVE ShellInv
<1>1. pipes \in Seq(0 .. Capacity) /\ procs = [p \in 1 .. MaxProcs |-> Free]
  BY EmptySeq DEF Init
<1>2. \A p \in Procs : procs[p] = Free /\ ~Live(p) /\ procs[p].st = "free"
  BY <1>1 DEF Procs, Live, LiveStates, Free
<1> QED
  BY <1>1, <1>2 DEF ShellInv, ProcsType, ArgsInv, FreeInv, ChainInv, FirstInv, Procs

LEMMA ShellInvariant == Spec => []ShellInv
<1>1. Init => ShellInv
  BY ShellStart
<1>2. ShellInv /\ [Next]_vars => ShellInv'
  BY ShellNext
<1> QED
  BY <1>1, <1>2, PTL DEF Spec

\* The processes of every line stay well typed: a pipe a descriptor leads to
\* was made, and a program never writes more than its pipe holds.
THEOREM ShellTypes == Spec => []TypeOK
<1>1. ShellInv /\ DirTypeOK => TypeOK
  BY DEF ShellInv, ProcsType, TypeOK, Procs
<1> QED
  BY <1>1, ShellInvariant, DirsType, PTL

\* At the prompt every process of the last line has ended, also one whose
\* execvp failed and that went on with the words of another.
THEOREM NothingLeft == Spec => []NoneLeft
<1>1. ShellInv => NoneLeft
  <2> SUFFICES ASSUME ShellInv, pc # "wait", NEW p \in Procs
               PROVE  procs[p].st \in {"free", "done"}
    BY DEF NoneLeft, Procs
  <2>1. ~Live(p)
    BY DEF ShellInv, FirstInv
  <2> QED
    BY <2>1 DEF ShellInv, ProcsType, ProcessType, Live, LiveStates, Free
<1> QED
  BY <1>1, ShellInvariant, PTL

-----------------------------------------------------------------------------
(***************************************************************************)
(* A line that is run as it is meant: its parts and their places.          *)
(***************************************************************************)
\* The lines that RunAsMeant is about.
Ordinary(l) == l \in Seq(STRING) /\ WellFormed(l) /\ l # <<>> /\ Plain(l)

\* Where the parts of a line end that have one behind them, and the pipes up
\* to a place.
Ends(l) == {0} \cup Bars(l)
BarsTo(l, d) == Rank(Bars(l), d)

\* What is left of the words behind d when the redirections up to e are done,
\* and of those from a part that ends at the pipe b.
Left(l, d, e) ==
  {k \in d + 1 .. Len(l) : \A i \in {k - 1, k} : i \in d + 1 .. e => l[i] \notin Redirection}
Behind(l, d, b) == (Kept(l) \cap (d + 1 .. b - 1)) \cup (b .. Len(l))

\* The programs of the parts that begin up to d.
Taken(l, d) == Selected([k \in 1 .. Len(l) |-> Part(l, k)], {k \in Found(l) : k <= d})

LEMMA LineFacts ==
    ASSUME NEW l, Ordinary(l)
    PROVE  /\ Len(l) \in Nat \ {0} /\ \A k \in 1 .. Len(l) : l[k] \in STRING
           /\ Bars(l) \in SUBSET (1 .. Len(l)) /\ Kept(l) \in SUBSET (1 .. Len(l))
           /\ Found(l) \in SUBSET (1 .. Len(l))
           /\ \A k \in 1 .. Len(l) : l[k] \in Operators => k < Len(l) /\ l[k + 1] \notin Operators
           /\ \A k \in 1 .. Len(l) : l[k] \in Operators <=> l[k] \in Redirection \/ k \in Bars(l)
           /\ \A k \in Bars(l) : l[k] \notin Redirection
           /\ \A d \in Ends(l) : d \in 0 .. Len(l) - 1 /\ l[d + 1] \notin Operators
<1>1. Len(l) \in Nat \ {0} /\ \A k \in 1 .. Len(l) : l[k] \in STRING
  BY EmptySeq, LenProperties, ElementOfSeq DEF Ordinary
<1>2. /\ Bars(l) \in SUBSET (1 .. Len(l)) /\ Kept(l) \in SUBSET (1 .. Len(l))
      /\ Found(l) \in SUBSET (1 .. Len(l))
  BY DEF Bars, Kept, Found
<1>3. \A k \in 1 .. Len(l) : l[k] \in Operators => k < Len(l) /\ l[k + 1] \notin Operators
  BY DEF Ordinary, WellFormed
<1>4. /\ \A k \in 1 .. Len(l) : l[k] \in Operators <=> l[k] \in Redirection \/ k \in Bars(l)
      /\ \A k \in Bars(l) : l[k] \notin Redirection
  BY DEF Operators, Redirection, Bars
<1>5. ASSUME NEW d \in Ends(l) PROVE d \in 0 .. Len(l) - 1 /\ l[d + 1] \notin Operators
  <2>1. CASE d = 0
    BY <1>1, <2>1 DEF Ordinary, Plain
  <2>2. CASE d \in Bars(l)
    <3>1. d \in 1 .. Len(l) /\ l[d] \in Operators
      BY <1>2, <1>4, <2>2
    <3> QED
      BY <1>1, <1>3, <3>1
  <2> QED
    BY <2>1, <2>2 DEF Ends
<1> QED
  BY <1>1, <1>2, <1>3, <1>4, <1>5

\* With a pipe, only the input of the first part is redirected.
LEMMA PlainFacts ==
    ASSUME NEW l, Ordinary(l), NEW k \in 1 .. Len(l), l[k] \in Redirection, NEW b \in Bars(l)
    PROVE  l[k] = "<" /\ k < b
BY DEF Ordinary, Plain

LEMMA SelectedFirst ==
    ASSUME NEW N \in Nat, NEW K \in SUBSET (1 .. N), NEW m \in K, \A k \in K : m <= k, NEW s
    PROVE  Rank(K, m) = 1 /\ Selected(s, K)[1] = s[m]
<1>1. m \in 1 .. N /\ Cardinality(K) \in Nat
  BY PlacesFinite
<1>2. {k \in K : k <= m} = {m}
  <2>1. \A k \in K : k \in Int /\ (k <= m <=> k = m)
    BY <1>1
  <2> QED
    BY <2>1
<1>3. Rank(K, m) = 1
  BY <1>2, FS_Singleton DEF Rank
<1>4. Selected(s, K)[Rank(K, m)] = s[m]
  BY SelectedAt
<1> QED
  BY <1>3, <1>4

LEMMA LineStarts ==
    ASSUME NEW l, Ordinary(l) PROVE Words(l) # <<>> /\ Words(l)[1] = l[1]
<1>1. 1 \in Kept(l) /\ \A k \in Kept(l) : 1 <= k
  <2>1. l[1] \notin Redirection /\ 1 \in 1 .. Len(l)
    BY LineFacts DEF Ordinary, Plain, Operators
  <2> QED
    BY <2>1 DEF Kept
<1>2. Words(l)[1] = l[1] /\ Rank(Kept(l), 1) = 1
  <2>1. Len(l) \in Nat /\ Kept(l) \in SUBSET (1 .. Len(l))
    BY LineFacts
  <2> QED
    BY <1>1, <2>1, SelectedFirst DEF Words
<1>3. 1 \in 1 .. Cardinality(Kept(l))
  <2>1. Rank(Kept(l), 1) \in 1 .. Cardinality(Kept(l))
    BY <1>1, LineFacts, SelectedAt
  <2> QED
    BY <1>2, <2>1
<1>4. Words(l) \in Seq(STRING) /\ Len(Words(l)) = Cardinality(Kept(l))
  <2>1. /\ Len(l) \in Nat /\ Kept(l) \in SUBSET (1 .. Len(l))
        /\ \A k \in Kept(l) : l[k] \in STRING
    BY LineFacts
  <2> QED
    BY <2>1, SelectedType DEF Words
<1> QED
  BY <1>2, <1>3, <1>4, EmptySeq

-----------------------------------------------------------------------------
(***************************************************************************)
(* The programs of a line.                                                 *)
(***************************************************************************)
LEMMA TakenType ==
    ASSUME NEW l, Ordinary(l), NEW d \in 0 .. Len(l)
    PROVE  /\ {k \in Found(l) : k <= d} \in SUBSET (1 .. Len(l))
           /\ Len(Taken(l, d)) <= Len(Pipeline(l))
           /\ Taken(l, d) = SubSeq(Pipeline(l), 1, Len(Taken(l, d)))
<1> DEFINE F == {k \in Found(l) : k <= d}
           s == [k \in 1 .. Len(l) |-> Part(l, k)]
           S == {Part(l, k) : k \in 1 .. Len(l)}
<1>1. Len(l) \in Nat /\ Found(l) \in SUBSET (1 .. Len(l)) /\ F \in SUBSET (1 .. Len(l))
  BY LineFacts
<1>2. /\ \A k \in Found(l) : s[k] \in S
      /\ \A k \in F : s[k] \in S
  BY <1>1
<1>3. Pipeline(l) = Selected(s, Found(l)) /\ Taken(l, d) = Selected(s, F)
  BY DEF Pipeline, Taken
<1>4. Rank(Found(l), d) = Cardinality(F)
  BY DEF Rank
<1> HIDE DEF s, S, F
<1>5. Len(Selected(s, Found(l))) = Cardinality(Found(l)) /\ Len(Selected(s, F)) = Cardinality(F)
  BY <1>1, <1>2, SelectedType
<1>6. SubSeq(Selected(s, Found(l)), 1, Rank(Found(l), d)) = Selected(s, F)
  BY <1>1, <1>2, SelectedCut DEF F
<1>7. Rank(Found(l), d) \in 0 .. Cardinality(Found(l))
  <2>1. d \in Int
    BY <1>1
  <2>2. \A k \in Int : Rank(Found(l), k) \in 0 .. Cardinality(Found(l))
    BY <1>1, RankGrows
  <2> QED
    BY <2>1, <2>2
<1>8. Cardinality(Found(l)) \in Nat
  BY <1>1, PlacesFinite
<1>9. Len(Taken(l, d)) = Rank(Found(l), d) /\ Len(Pipeline(l)) = Cardinality(Found(l))
  BY <1>3, <1>4, <1>5
<1>10. Len(Taken(l, d)) <= Len(Pipeline(l))
  BY <1>7, <1>8, <1>9
<1> QED
  BY <1>1, <1>3, <1>6, <1>9, <1>10 DEF F

LEMMA TakenEnds ==
    ASSUME NEW l, Ordinary(l)
    PROVE  Taken(l, 0) = <<>> /\ Taken(l, Len(l)) = Pipeline(l)
<1>1. Len(l) \in Nat /\ \A k \in Found(l) : k \in 1 .. Len(l)
  BY LineFacts
<1>2. {k \in Found(l) : k <= 0} = {}
  <2>1. \A k \in Found(l) : ~(k <= 0)
    BY <1>1
  <2> QED
    BY <2>1
<1>3. {k \in Found(l) : k <= Len(l)} = Found(l)
  <2>1. \A k \in Found(l) : k <= Len(l)
    BY <1>1
  <2> QED
    BY <2>1
<1> QED
  BY <1>2, <1>3, SelectedNone DEF Taken, Pipeline

\* Up to the end of a part, its program is one more.
LEMMA TakenPart ==
    ASSUME NEW l, Ordinary(l), NEW d \in Ends(l), NEW b \in d + 1 .. Len(l),
           Bars(l) \cap (d + 1 .. b - 1) = {}
    PROVE  Taken(l, b) = IF l[d + 1] \in Programs THEN Append(Taken(l, d), Part(l, d + 1))
                         ELSE Taken(l, d)
<1> DEFINE F == {k \in Found(l) : k <= d}
           G == {k \in Found(l) : k <= b}
           s == [k \in 1 .. Len(l) |-> Part(l, k)]
           S == {Part(l, k) : k \in 1 .. Len(l)}
<1>1. /\ Len(l) \in Nat /\ Found(l) \in SUBSET (1 .. Len(l)) /\ F \in SUBSET (1 .. Len(l))
      /\ d \in 0 .. Len(l) - 1 /\ Bars(l) \in SUBSET (1 .. Len(l))
  BY LineFacts
<1>2. PICK n \in 1 .. Len(l) : n = d + 1
  BY <1>1
<1>3. n \in Found(l) <=> l[n] \in Programs
  <2>1. n = 1 \/ n - 1 \in Bars(l)
    BY <1>1, <1>2 DEF Ends
  <2> QED
    BY <1>2, <2>1 DEF Found
<1>4. ASSUME NEW k \in Found(l), d < k, k <= b PROVE k = n
  <2>1. k \in 1 .. Len(l) /\ (k = 1 \/ k - 1 \in Bars(l))
    BY DEF Found
  <2>2. CASE k = 1
    BY <1>1, <1>2, <1>4, <2>2
  <2>3. CASE k - 1 \in Bars(l)
    <3>1. k - 1 \notin d + 1 .. b - 1
      BY <2>3
    <3> QED
      BY <1>1, <1>2, <1>4, <2>1, <3>1
  <2> QED
    BY <2>1, <2>2, <2>3
<1>5. \A k \in Found(l) : k \in Int /\ (k <= d \/ d < k) /\ (k <= d => k <= b /\ k < n)
  BY <1>1, <1>2
<1>6. n <= b
  BY <1>1, <1>2
<1>7. CASE l[n] \in Programs
  <2>1. G = F \cup {n}
    BY <1>3, <1>4, <1>5, <1>6, <1>7
  <2>2. \A k \in F : k < n
    BY <1>5
  <2>3. \A k \in F \cup {n} : s[k] \in S
    BY <1>1
  <2>4. s[n] = Part(l, n)
    OBVIOUS
  <2> HIDE DEF s, S, F, G
  <2>5. Selected(s, F \cup {n}) = Append(Selected(s, F), s[n])
    BY <1>1, <2>2, <2>3, SelectedOne
  <2> QED
    BY <1>2, <1>7, <2>1, <2>4, <2>5 DEF Taken, s, F, G
<1>8. CASE l[n] \notin Programs
  <2>1. G = F
    BY <1>3, <1>4, <1>5, <1>8
  <2> QED
    BY <1>2, <1>8, <2>1 DEF Taken
<1> QED
  BY <1>7, <1>8

-----------------------------------------------------------------------------
(***************************************************************************)
(* The places of a part that is being read.                                *)
(***************************************************************************)
\* The part behind d is read, and its redirections up to e are done.
At(l, d, e) == d \in Ends(l) /\ e \in d .. Len(l) /\ Bars(l) \cap (d + 1 .. e) = {}

LEMMA LeftFacts ==
    ASSUME NEW l, Ordinary(l), NEW d, NEW e, At(l, d, e)
    PROVE  /\ d \in 0 .. Len(l) - 1 /\ e \in 0 .. Len(l) /\ d <= e
           /\ Left(l, d, e) \in SUBSET (1 .. Len(l))
           /\ \A k \in Left(l, d, e) : d + 1 <= k
           /\ d + 1 \in Left(l, d, e)
           /\ \A k \in d + 1 .. Len(l) :
                l[k] \in Operators =>
                  IF k \in Left(l, d, e) THEN e < k ELSE k <= e /\ l[k] \in Redirection
<1>1. d \in 0 .. Len(l) - 1 /\ l[d + 1] \notin Operators /\ Len(l) \in Nat \ {0}
  BY LineFacts DEF At
<1>2. e \in 0 .. Len(l) /\ d <= e /\ Bars(l) \cap (d + 1 .. e) = {}
  BY <1>1 DEF At
<1>3. Left(l, d, e) \in SUBSET (1 .. Len(l)) /\ \A k \in Left(l, d, e) : d + 1 <= k
  BY <1>1 DEF Left
<1>4. d + 1 \in Left(l, d, e)
  <2>1. ASSUME NEW i \in {(d + 1) - 1, d + 1}, i \in d + 1 .. e PROVE l[i] \notin Redirection
    <3>1. i = d + 1
      BY <1>1, <2>1
    <3> QED
      BY <1>1, <3>1 DEF Operators
  <2>2. d + 1 \in d + 1 .. Len(l)
    BY <1>1
  <2> QED
    BY <2>1, <2>2 DEF Left
<1>5. ASSUME NEW k \in d + 1 .. Len(l), l[k] \in Operators
      PROVE  IF k \in Left(l, d, e) THEN e < k ELSE k <= e /\ l[k] \in Redirection
  <2>0. k \in 1 .. Len(l) /\ k \in Int
    BY <1>1
  <2>1. l[k] \in Redirection \/ k \in Bars(l)
    BY <1>5, <2>0, LineFacts
  <2>2. CASE k \in Left(l, d, e)
    <3>1. k \in d + 1 .. e => l[k] \notin Redirection
      BY <2>2 DEF Left
    <3>2. k \notin d + 1 .. e
      BY <1>2, <2>1, <3>1
    <3> QED
      BY <1>1, <1>2, <2>0, <2>2, <3>2
  <2>3. CASE k \notin Left(l, d, e)
    <3>1. PICK i \in {k - 1, k} : i \in d + 1 .. e /\ l[i] \in Redirection
      BY <2>3 DEF Left
    <3>2. i = k
      <4>1. ASSUME i = k - 1 PROVE FALSE
        <5>1. i \in 1 .. Len(l) /\ l[i] \in Operators /\ k = i + 1
          BY <1>1, <1>2, <2>0, <3>1, <4>1 DEF Operators
        <5> QED
          BY <1>5, <5>1, LineFacts
      <4> QED
        BY <4>1
    <3> QED
      BY <1>1, <1>2, <2>0, <2>3, <3>1, <3>2
  <2> QED
    BY <2>2, <2>3
<1> QED
  BY <1>1, <1>2, <1>3, <1>4, <1>5

\* The words of a part up to a place, when its redirections are done.
LEMMA LeftKept ==
    ASSUME NEW l, Ordinary(l), NEW d, NEW e, At(l, d, e), NEW k \in d + 1 .. Len(l),
           \A i \in e + 1 .. k : l[i] \notin Redirection
    PROVE  k \in Left(l, d, e) <=> k \in Kept(l)
<1>1. /\ d \in 0 .. Len(l) - 1 /\ e \in 0 .. Len(l) /\ d <= e /\ Len(l) \in Nat
      /\ d \in Ends(l)
  BY LeftFacts, LineFacts DEF At
<1>2. k \in 1 .. Len(l) /\ k \in Int /\ d \in Int /\ e \in Int
  BY <1>1
<1>3. d # 0 => l[d] \notin Redirection
  BY <1>1, LineFacts DEF Ends
<1>4. ASSUME k \in Left(l, d, e) PROVE k \in Kept(l)
  <2>1. ASSUME NEW i \in {k - 1, k}, i # 0 PROVE l[i] \notin Redirection
    <3>1. CASE i \in d + 1 .. e
      BY <1>4, <3>1 DEF Left
    <3>2. CASE i \in e + 1 .. k
      BY <3>2
    <3>3. CASE i = d
      BY <1>3, <2>1, <3>3
    <3>4. i \in Int /\ (i = d \/ i > d) /\ i <= k
      BY <1>2
    <3> QED
      BY <1>2, <3>1, <3>2, <3>3, <3>4
  <2>2. l[k] \notin Redirection /\ (k = 1 \/ l[k - 1] \notin Redirection)
    BY <1>2, <2>1
  <2> QED
    BY <1>2, <2>2 DEF Kept
<1>5. ASSUME k \in Kept(l) PROVE k \in Left(l, d, e)
  <2>1. l[k] \notin Redirection /\ (k = 1 \/ l[k - 1] \notin Redirection)
    BY <1>5 DEF Kept
  <2>2. ASSUME NEW i \in {k - 1, k}, i \in d + 1 .. e PROVE l[i] \notin Redirection
    BY <1>1, <1>2, <2>1, <2>2
  <2> QED
    BY <2>2 DEF Left
<1> QED
  BY <1>4, <1>5

\* No operator is left: the part is the last one, and all its redirections
\* are done.
LEMMA LeftNone ==
    ASSUME NEW l, Ordinary(l), NEW d, NEW e, At(l, d, e),
           \A k \in Left(l, d, e) : l[k] \notin Operators
    PROVE  /\ \A k \in d + 1 .. Len(l) : l[k] \in Operators => k <= e /\ l[k] \in Redirection
           /\ Bars(l) \cap (d + 1 .. Len(l)) = {}
<1>1. \A k \in d + 1 .. Len(l) : l[k] \in Operators => k <= e /\ l[k] \in Redirection
  BY LeftFacts
<1>2. /\ d \in 0 .. Len(l) - 1 /\ Len(l) \in Nat
      /\ \A k \in Bars(l) : l[k] \notin Redirection /\ k \in 1 .. Len(l) /\ l[k] \in Operators
  BY LeftFacts, LineFacts
<1> QED
  BY <1>1, <1>2

\* The next operator that is left lies behind those that are done, with
\* nothing but words between.
LEMMA LeftNext ==
    ASSUME NEW l, Ordinary(l), NEW d, NEW e, At(l, d, e),
           NEW k \in Left(l, d, e), l[k] \in Operators,
           \A i \in Left(l, d, e) : i < k => l[i] \notin Operators
    PROVE  /\ k \in d + 1 .. Len(l) - 1 /\ e < k
           /\ \A i \in e + 1 .. k - 1 : l[i] \notin Operators
           /\ Bars(l) \cap (d + 1 .. k - 1) = {}
           /\ k + 1 \in Left(l, d, e)
<1>1. /\ d \in 0 .. Len(l) - 1 /\ e \in 0 .. Len(l) /\ d <= e /\ Len(l) \in Nat
      /\ k \in 1 .. Len(l) /\ d + 1 <= k
  BY LeftFacts, LineFacts
<1>2. k < Len(l) /\ l[k + 1] \notin Operators
  BY <1>1, LineFacts
<1>3. e < k
  <2>1. k \in d + 1 .. Len(l)
    BY <1>1
  <2> QED
    BY <2>1, LeftFacts
<1>4. ASSUME NEW i \in e + 1 .. k - 1 PROVE l[i] \notin Operators
  <2>1. i \in d + 1 .. Len(l) /\ i < k /\ ~(i <= e)
    BY <1>1
  <2> QED
    BY <2>1, LeftFacts
<1>5. Bars(l) \cap (d + 1 .. k - 1) = {}
  <2>1. ASSUME NEW i \in Bars(l), i \in d + 1 .. k - 1 PROVE FALSE
    <3>1. i \notin d + 1 .. e
      BY DEF At
    <3>2. i \in e + 1 .. k - 1
      BY <1>1, <2>1, <3>1
    <3>3. i \in 1 .. Len(l) /\ l[i] \in Operators
      BY LineFacts
    <3> QED
      BY <1>4, <3>2, <3>3
  <2> QED
    BY <2>1
<1>6. k + 1 \in Left(l, d, e)
  <2>1. k + 1 \in d + 1 .. Len(l)
    BY <1>1, <1>2
  <2>2. \A i \in {(k + 1) - 1, k + 1} : i \notin d + 1 .. e
    BY <1>1, <1>3
  <2> QED
    BY <2>1, <2>2 DEF Left
<1> QED
  BY <1>1, <1>2, <1>3, <1>4, <1>5, <1>6

\* When a redirection is done, it and the word behind it are gone.
LEMMA LeftRedirect ==
    ASSUME NEW l, Ordinary(l), NEW d, NEW e, At(l, d, e),
           NEW k \in Left(l, d, e), l[k] \in Redirection,
           \A i \in Left(l, d, e) : i < k => l[i] \notin Operators
    PROVE  At(l, d, k) /\ Left(l, d, k) = Left(l, d, e) \ {k, k + 1}
<1>1. /\ k \in d + 1 .. Len(l) - 1 /\ e < k
      /\ \A i \in e + 1 .. k - 1 : l[i] \notin Operators
      /\ Bars(l) \cap (d + 1 .. k - 1) = {}
      /\ k + 1 \in Left(l, d, e)
  BY LeftNext DEF Operators
<1>2. d \in 0 .. Len(l) - 1 /\ e \in 0 .. Len(l) /\ d <= e /\ Len(l) \in Nat /\ d \in Ends(l)
  BY LeftFacts, LineFacts DEF At
<1>3. At(l, d, k)
  <2>1. k \notin Bars(l)
    BY LineFacts
  <2>2. \A i \in Bars(l) : i \in Int /\ i \notin d + 1 .. k - 1
    BY <1>1, LineFacts
  <2>3. Bars(l) \cap (d + 1 .. k) = {}
    BY <1>1, <1>2, <2>1, <2>2
  <2> QED
    BY <1>1, <1>2, <2>3 DEF At
<1>4. ASSUME NEW x \in Left(l, d, k) PROVE x \in Left(l, d, e) \ {k, k + 1}
  <2>1. x \in d + 1 .. Len(l) /\ \A i \in {x - 1, x} : i \in d + 1 .. k => l[i] \notin Redirection
    BY DEF Left
  <2>2. \A i \in {x - 1, x} : i \in d + 1 .. e => i \in d + 1 .. k
    BY <1>1, <1>2
  <2>3. x \in Left(l, d, e)
    BY <2>1, <2>2 DEF Left
  <2>4. k \in d + 1 .. k
    BY <1>1, <1>2
  <2>5. x # k /\ x - 1 # k
    BY <2>1, <2>4
  <2> QED
    BY <1>1, <1>2, <2>1, <2>3, <2>5
<1>5. ASSUME NEW x \in Left(l, d, e) \ {k, k + 1} PROVE x \in Left(l, d, k)
  <2>1. x \in d + 1 .. Len(l) /\ \A i \in {x - 1, x} : i \in d + 1 .. e => l[i] \notin Redirection
    BY DEF Left
  <2>2. ASSUME NEW i \in {x - 1, x}, i \in d + 1 .. k PROVE l[i] \notin Redirection
    <3>1. i # k
      BY <1>1, <1>2, <2>1
    <3>2. i \in d + 1 .. e \/ i \in e + 1 .. k - 1
      BY <1>1, <1>2, <2>2, <3>1
    <3> QED
      BY <1>1, <2>1, <3>2 DEF Operators
  <2> QED
    BY <2>1, <2>2 DEF Left
<1> QED
  BY <1>3, <1>4, <1>5

\* At the next pipe: what is left are the words of the part, the pipe, and
\* all that is behind it.
LEMMA LeftPipe ==
    ASSUME NEW l, Ordinary(l), NEW d, NEW e, At(l, d, e),
           NEW b \in Left(l, d, e), b \in Bars(l),
           \A i \in Left(l, d, e) : i < b => l[i] \notin Operators
    PROVE  Left(l, d, e) = Behind(l, d, b)
<1>0. l[b] \in Operators /\ l[b] \notin Redirection /\ b \in 1 .. Len(l)
  BY LineFacts
<1>1. /\ b \in d + 1 .. Len(l) - 1 /\ e < b
      /\ \A i \in e + 1 .. b - 1 : l[i] \notin Operators
  BY <1>0, LeftNext
<1>2. d \in 0 .. Len(l) - 1 /\ e \in 0 .. Len(l) /\ d <= e /\ Len(l) \in Nat
  BY LeftFacts, LineFacts DEF At
<1>3. ASSUME NEW x \in d + 1 .. b - 1 PROVE x \in Left(l, d, e) <=> x \in Kept(l)
  <2>1. x \in d + 1 .. Len(l)
    BY <1>1, <1>2
  <2>2. \A i \in e + 1 .. x : l[i] \notin Redirection
    BY <1>1, <1>2, <2>1 DEF Operators
  <2> QED
    BY <2>1, <2>2, LeftKept
<1>4. ASSUME NEW x \in b .. Len(l) PROVE x \in Left(l, d, e)
  <2>1. x \in d + 1 .. Len(l) /\ x \in Int
    BY <1>1, <1>2
  <2>2. ASSUME NEW i \in {x - 1, x}, i \in d + 1 .. e PROVE l[i] \notin Redirection
    <3>1. x = b /\ i = b - 1 /\ i \in 1 .. Len(l) /\ i + 1 = b
      BY <1>1, <1>2, <2>1, <2>2
    <3>2. l[i] \notin Operators
      BY <1>0, <3>1, LineFacts
    <3> QED
      BY <3>2 DEF Operators
  <2> QED
    BY <2>1, <2>2 DEF Left
<1>5. \A x \in Left(l, d, e) : x \in d + 1 .. b - 1 \/ x \in b .. Len(l)
  <2>1. \A x \in Left(l, d, e) : x \in 1 .. Len(l) /\ d + 1 <= x
    BY LeftFacts
  <2> QED
    BY <1>1, <1>2, <2>1
<1> QED
  BY <1>3, <1>4, <1>5 DEF Behind

-----------------------------------------------------------------------------
(***************************************************************************)
(* Where descriptors lead.                                                 *)
(***************************************************************************)
LEMMA LeadsSame ==
    ASSUME NEW l, NEW K, NEW M, NEW op, NEW default,
           \A k \in K : l[k] = op /\ Opens(op, l[k + 1]) => k \in M,
           \A k \in M : l[k] = op /\ Opens(op, l[k + 1]) => k \in K
    PROVE  Leads(l, K, op, default) = Leads(l, M, op, default)
<1>1. {k \in K : l[k] = op /\ Opens(op, l[k + 1])} = {k \in M : l[k] = op /\ Opens(op, l[k + 1])}
  OBVIOUS
<1> QED
  BY <1>1 DEF Leads

LEMMA LeadsNowhere ==
    ASSUME NEW l, NEW K, NEW op, NEW default, \A k \in K : l[k] # op
    PROVE  Leads(l, K, op, default) = default
<1>1. {k \in K : l[k] = op /\ Opens(op, l[k + 1])} = {}
  OBVIOUS
<1> QED
  BY <1>1 DEF Leads

LEMMA LeadsLast ==
    ASSUME NEW l, NEW K \in SUBSET Int, NEW op, NEW default, NEW k \in K, l[k] = op,
           Opens(op, l[k + 1]),
           \A i \in K : l[i] = op => i <= k
    PROVE  Leads(l, K, op, default) = File(l[k + 1])
<1> DEFINE at == {i \in K : l[i] = op /\ Opens(op, l[i + 1])}
<1>1. k \in at /\ at \in SUBSET Int /\ \A i \in at : k >= i
  OBVIOUS
<1> HIDE DEF at
<1>2. \A i \in at : (\A i2 \in at : i >= i2) => i = k
  BY <1>1
<1>3. Latest(at) = k
  BY <1>1, <1>2 DEF Latest
<1> QED
  BY <1>1, <1>3 DEF Leads, at

\* The input of the part behind d, unless it is redirected.
Input(l, d) == IF d = 0 THEN Tty ELSE Pipe(BarsTo(l, d))

LEMMA PipesTo ==
    ASSUME NEW l, Ordinary(l), NEW d \in Ends(l)
    PROVE  /\ BarsTo(l, d) \in Nat
           /\ BarsTo(l, d) = 0 <=> d = 0
           /\ Cardinality({b \in Bars(l) : b < d + 1}) = BarsTo(l, d)
           /\ \A b \in Bars(l) : d < b /\ Bars(l) \cap (d + 1 .. b - 1) = {}
                => BarsTo(l, b) = BarsTo(l, d) + 1
<1>1. Len(l) \in Nat /\ Bars(l) \in SUBSET (1 .. Len(l)) /\ d \in 0 .. Len(l) - 1
  BY LineFacts
<1>2. /\ \A k \in Int : Rank(Bars(l), k) \in 0 .. Cardinality(Bars(l))
      /\ Rank(Bars(l), 0) = 0
      /\ \A i \in Int, k \in Bars(l) : i < k => Rank(Bars(l), i) < Rank(Bars(l), k)
  BY <1>1, RankGrows
<1>3. Cardinality(Bars(l)) \in Nat
  BY <1>1, PlacesFinite
<1>4. BarsTo(l, d) \in Nat
  BY <1>1, <1>2, <1>3 DEF BarsTo
<1>5. BarsTo(l, d) = 0 <=> d = 0
  <2>1. ASSUME d # 0 PROVE BarsTo(l, d) # 0
    <3>1. d \in Bars(l) /\ 0 < d
      BY <1>1, <2>1 DEF Ends
    <3>2. Rank(Bars(l), 0) < Rank(Bars(l), d)
      BY <1>2, <3>1
    <3> QED
      BY <1>2, <3>2 DEF BarsTo
  <2> QED
    BY <1>2, <2>1 DEF BarsTo
<1>6. Cardinality({b \in Bars(l) : b < d + 1}) = BarsTo(l, d)
  <2>1. \A b \in Bars(l) : b < d + 1 <=> b <= d
    BY <1>1
  <2>2. {b \in Bars(l) : b < d + 1} = {b \in Bars(l) : b <= d}
    BY <2>1
  <2> QED
    BY <2>2 DEF BarsTo, Rank
<1>7. ASSUME NEW b \in Bars(l), d < b, Bars(l) \cap (d + 1 .. b - 1) = {}
      PROVE  BarsTo(l, b) = BarsTo(l, d) + 1
  <2>1. b \in 1 .. Len(l) /\ \A k \in Bars(l) : k \notin d + 1 .. b - 1 /\ k \in Int
    BY <1>1, <1>7
  <2>2. \A k \in Bars(l) : k <= b - 1 <=> k <= d
    BY <1>1, <1>7, <2>1
  <2>3. {k \in Bars(l) : k <= b - 1} = {k \in Bars(l) : k <= d}
    BY <2>2
  <2>4. Rank(Bars(l), b - 1) = Rank(Bars(l), d)
    BY <2>3 DEF Rank
  <2>5. \A k \in 1 .. Len(l) : k \in Bars(l) => Rank(Bars(l), k) = Rank(Bars(l), k - 1) + 1
    BY <1>1, RankGrows
  <2> QED
    BY <2>1, <2>4, <2>5 DEF BarsTo
<1> QED
  BY <1>4, <1>5, <1>6, <1>7

\* A part, from behind d up to its end.
LEMMA PartIs ==
    ASSUME NEW l, Ordinary(l), NEW d \in Ends(l), NEW b \in d + 1 .. Len(l) + 1,
           Bars(l) \cap (d + 1 .. b - 1) = {}, b \in Bars(l) \/ b = Len(l) + 1
    PROVE  LET part == d + 1 .. b - 1
           IN  Part(l, d + 1)
                 = [words |-> Selected(l, part \cap Kept(l)),
                    in  |-> Leads(l, part, "<", Input(l, d)),
                    out |-> Leads(l, part, ">", IF b = Len(l) + 1 THEN Tty ELSE Pipe(BarsTo(l, d) + 1)),
                    err |-> Leads(l, part, "2>", Tty)]
<1>1. Len(l) \in Nat /\ Bars(l) \in SUBSET (1 .. Len(l)) /\ d \in 0 .. Len(l) - 1
  BY LineFacts
<1>2. ASSUME NEW k \in d + 1 .. Len(l)
      PROVE  Bars(l) \cap (d + 1) .. k = {} <=> k \in d + 1 .. b - 1
  <2>1. CASE k < b
    <3>1. (d + 1) .. k \subseteq d + 1 .. b - 1
      BY <1>1, <2>1
    <3>2. k \in d + 1 .. b - 1
      BY <1>1, <2>1
    <3> QED
      BY <3>1, <3>2
  <2>2. CASE ~(k < b)
    <3>1. b \in Bars(l) /\ b \in (d + 1) .. k /\ k \notin d + 1 .. b - 1
      BY <1>1, <2>2
    <3> QED
      BY <3>1
  <2> QED
    BY <2>1, <2>2
<1>3. PICK part : part = {k \in d + 1 .. Len(l) : Bars(l) \cap (d + 1) .. k = {}}
  OBVIOUS
<1>4. part = d + 1 .. b - 1
  <2>1. \A k : k \in d + 1 .. b - 1 => k \in d + 1 .. Len(l)
    BY <1>1
  <2> QED
    BY <1>2, <1>3, <2>1
<1>5. PICK before : before = Cardinality({i \in Bars(l) : i < d + 1})
  OBVIOUS
<1>6. before = BarsTo(l, d) /\ (before = 0 <=> d = 0)
  BY <1>5, PipesTo
<1>7. (\A i \in Bars(l) : i < d + 1) <=> b = Len(l) + 1
  <2>1. CASE b = Len(l) + 1
    <3>1. \A i \in Bars(l) : i \in 1 .. Len(l) /\ i \notin d + 1 .. b - 1
      BY <1>1
    <3> QED
      BY <1>1, <2>1, <3>1
  <2>2. CASE b \in Bars(l)
    BY <1>1, <2>2
  <2> QED
    BY <2>1, <2>2
<1>8. PICK last \in BOOLEAN : last <=> \A i \in Bars(l) : i < d + 1
  OBVIOUS
<1>9. Part(l, d + 1)
        = [words |-> Selected(l, part \cap Kept(l)),
           in  |-> Leads(l, part, "<", IF before = 0 THEN Tty ELSE Pipe(before)),
           out |-> Leads(l, part, ">", IF last THEN Tty ELSE Pipe(before + 1)),
           err |-> Leads(l, part, "2>", Tty)]
  BY <1>3, <1>5, <1>8 DEF Part
<1>10. /\ (IF before = 0 THEN Tty ELSE Pipe(before)) = Input(l, d)
       /\ (IF last THEN Tty ELSE Pipe(before + 1))
            = (IF b = Len(l) + 1 THEN Tty ELSE Pipe(BarsTo(l, d) + 1))
  BY <1>6, <1>7, <1>8 DEF Input
<1> QED
  BY <1>4, <1>9, <1>10

-----------------------------------------------------------------------------
(***************************************************************************)
(* A process whose words are those of the line at some places.             *)
(***************************************************************************)
LEMMA PlaceWords ==
    ASSUME NEW l \in Seq(STRING), NEW A \in SUBSET (1 .. Len(l))
    PROVE  /\ Selected(l, A) \in Seq(STRING) /\ Len(Selected(l, A)) = Cardinality(A)
           /\ Cardinality(A) \in Nat /\ Len(l) \in Nat
           /\ \A k \in A : /\ Rank(A, k) \in 1 .. Cardinality(A)
                           /\ Selected(l, A)[Rank(A, k)] = l[k] /\ l[k] \in STRING
<1>1. Len(l) \in Nat /\ \A k \in 1 .. Len(l) : l[k] \in STRING
  BY LenProperties, ElementOfSeq
<1>2. \A k \in A : l[k] \in STRING
  BY <1>1
<1> QED
  BY <1>1, <1>2, PlacesFinite, SelectedType, SelectedAt

\* The next operator the loop meets is the first one that is left.
LEMMA NextPlace ==
    ASSUME NEW l \in Seq(STRING), NEW A \in SUBSET (1 .. Len(l)),
           NEW r, r.args = Selected(l, A), r.j \in Nat \ {0},
           \A k \in A : Rank(A, k) < r.j => l[k] \notin Operators
    PROVE  /\ NextOp(r) = 0 => \A k \in A : l[k] \notin Operators
           /\ NextOp(r) # 0 =>
                \E k \in A : /\ NextOp(r) = Rank(A, k) /\ r.args[NextOp(r)] = l[k]
                             /\ l[k] \in Operators
                             /\ \A i \in A : i < k => l[i] \notin Operators
<1> DEFINE ops == {n \in r.j .. Len(r.args) : r.args[n] \in Operators}
<1>1. /\ Len(l) \in Nat /\ Cardinality(A) \in Nat /\ Len(r.args) = Cardinality(A)
      /\ \A k \in A : Rank(A, k) \in 1 .. Cardinality(A) /\ r.args[Rank(A, k)] = l[k]
  BY PlaceWords
<1>2. ASSUME NEW k \in A, l[k] \in Operators PROVE Rank(A, k) \in ops
  <2>1. Rank(A, k) \in 1 .. Cardinality(A) /\ ~(Rank(A, k) < r.j)
    BY <1>1, <1>2
  <2> QED
    BY <1>1, <1>2, <2>1
<1>3. CASE ops = {}
  <2>1. NextOp(r) = 0
    BY <1>3 DEF NextOp
  <2> QED
    BY <1>2, <1>3, <2>1
<1>4. CASE ops # {}
  <2>1. ops \in SUBSET Nat
    BY <1>1
  <2>2. \E n \in ops : \A n2 \in ops : n <= n2
    BY <1>4, <2>1, Minimum
  <2>3. NextOp(r) \in ops /\ \A n2 \in ops : NextOp(r) <= n2
    BY <1>4, <2>2 DEF NextOp
  <2>4. PICK n \in ops : n = NextOp(r)
    BY <2>3
  <2>5. n \in 1 .. Cardinality(A) /\ r.args[n] \in Operators
    BY <1>1, <2>4
  <2>6. PICK k \in A : Rank(A, k) = n
    BY <1>1, <2>5, RankOnto
  <2>7. l[k] = r.args[n]
    BY <1>1, <2>6
  <2>8. ASSUME NEW i \in A, i < k PROVE l[i] \notin Operators
    <3>1. Rank(A, i) < Rank(A, k)
      <4>1. i \in Int
        BY <1>1
      <4> QED
        BY <1>1, <2>8, <4>1, RankGrows
    <3>2. Rank(A, i) \notin ops
      BY <1>1, <2>3, <2>4, <2>6, <3>1
    <3> QED
      BY <1>2, <3>2
  <2>9. n # 0
    BY <2>5
  <2> HIDE DEF ops
  <2> QED
    BY <2>4, <2>5, <2>6, <2>7, <2>8, <2>9
<1> QED
  BY <1>3, <1>4

LEMMA NextNothing ==
    ASSUME NEW l \in Seq(STRING), NEW A \in SUBSET (1 .. Len(l)),
           NEW r, r.args = Selected(l, A), r.j \in Nat \ {0},
           \A k \in A : Rank(A, k) >= r.j => l[k] \notin Operators
    PROVE  NextOp(r) = 0
<1> DEFINE ops == {n \in r.j .. Len(r.args) : r.args[n] \in Operators}
<1>1. /\ Len(l) \in Nat /\ Cardinality(A) \in Nat /\ Len(r.args) = Cardinality(A)
      /\ \A k \in A : Rank(A, k) \in 1 .. Cardinality(A) /\ r.args[Rank(A, k)] = l[k]
  BY PlaceWords
<1>2. ASSUME NEW n \in ops PROVE FALSE
  <2>1. n \in 1 .. Cardinality(A) /\ n >= r.j /\ r.args[n] \in Operators
    BY <1>1
  <2>2. PICK k \in A : Rank(A, k) = n
    BY <1>1, <2>1, RankOnto
  <2> QED
    BY <1>1, <2>1, <2>2
<1>3. ops = {}
  BY <1>2
<1> QED
  BY <1>3 DEF NextOp

\* The words up to a place, and before and behind one of them.
LEMMA CutAt ==
    ASSUME NEW l \in Seq(STRING), NEW A \in SUBSET (1 .. Len(l)), NEW h \in 0 .. Len(l)
    PROVE  /\ SubSeq(Selected(l, A), 1, Rank(A, h)) = Selected(l, {i \in A : i <= h})
           /\ SubSeq(Selected(l, A), Rank(A, h) + 1, Len(Selected(l, A))) = Selected(l, {i \in A : i > h})
<1>1. Len(l) \in Nat /\ \A i \in A : l[i] \in STRING
  BY PlaceWords
<1>2. SubSeq(Selected(l, A), 1, Rank(A, h)) = Selected(l, {i \in A : i <= h})
  BY <1>1, SelectedCut
<1>3. SubSeq(Selected(l, A), Rank(A, h) + 1, Len(Selected(l, A))) = Selected(l, {i \in A : i > h})
  BY <1>1, SelectedCut
<1> QED
  BY <1>2, <1>3

LEMMA CutWords ==
    ASSUME NEW l \in Seq(STRING), NEW A \in SUBSET (1 .. Len(l)), NEW k \in A
    PROVE  LET w == Selected(l, A)
           IN  /\ SubSeq(w, 1, Rank(A, k) - 1) = Selected(l, {i \in A : i < k})
               /\ SubSeq(w, Rank(A, k) + 1, Len(w)) = Selected(l, {i \in A : i > k})
<1> DEFINE w == Selected(l, A)
<1>1. /\ Len(l) \in Nat /\ \A i \in A : l[i] \in STRING
      /\ k \in 1 .. Len(l) /\ k \in 0 .. Len(l)
  BY PlaceWords
<1>2. PICK h \in 0 .. Len(l) : h = k - 1
  BY <1>1
<1>3. Rank(A, k) = Rank(A, h) + 1 /\ Rank(A, h) \in Int
  <2>1. /\ \A i \in 1 .. Len(l) : i \in A => Rank(A, i) = Rank(A, i - 1) + 1
        /\ \A i \in Int : Rank(A, i) \in 0 .. Cardinality(A)
    BY <1>1, RankGrows
  <2> QED
    BY <1>1, <1>2, <2>1
<1> HIDE DEF w
<1>4. SubSeq(w, 1, Rank(A, h)) = Selected(l, {i \in A : i <= h})
  BY CutAt DEF w
<1>5. SubSeq(w, Rank(A, k) + 1, Len(w)) = Selected(l, {i \in A : i > k})
  BY <1>1, CutAt DEF w
<1>6. {i \in A : i <= h} = {i \in A : i < k}
  <2>1. \A i \in A : i <= h <=> i < k
    BY <1>1, <1>2
  <2> QED
    BY <2>1
<1>7. Rank(A, k) - 1 = Rank(A, h)
  BY <1>3
<1> QED
  BY <1>4, <1>5, <1>6, <1>7 DEF w

\* The words without one of them and the next.
LEMMA EraseWords ==
    ASSUME NEW l \in Seq(STRING), NEW A \in SUBSET (1 .. Len(l)), NEW k \in A, k + 1 \in A
    PROVE  LET w == Selected(l, A)
           IN  /\ SubSeq(w, 1, Rank(A, k) - 1) \o SubSeq(w, Rank(A, k) + 2, Len(w))
                    = Selected(l, A \ {k, k + 1})
               /\ w[Rank(A, k) + 1] = l[k + 1]
<1> DEFINE w == Selected(l, A)
           B == {i \in A : i < k}
           C == {i \in A : i > k + 1}
<1>1. Len(l) \in Nat /\ k \in 1 .. Len(l) /\ \A i \in 1 .. Len(l) : l[i] \in STRING
  BY LenProperties, ElementOfSeq
<1>2. PICK m \in A : m = k + 1
  OBVIOUS
<1>3. Rank(A, m) = Rank(A, k) + 1 /\ Rank(A, k) \in Int
  <2>1. /\ \A i \in 1 .. Len(l) : i \in A => Rank(A, i) = Rank(A, i - 1) + 1
        /\ \A i \in Int : Rank(A, i) \in 0 .. Cardinality(A)
    BY <1>1, RankGrows
  <2>2. m \in 1 .. Len(l) /\ m - 1 = k /\ k \in Int
    BY <1>1, <1>2
  <2> QED
    BY <2>1, <2>2
<1>4. SubSeq(w, 1, Rank(A, k) - 1) = Selected(l, B)
  BY CutWords
<1>5. SubSeq(w, Rank(A, m) + 1, Len(w)) = Selected(l, {i \in A : i > m})
  BY CutWords
<1>6. {i \in A : i > m} = C /\ Rank(A, m) + 1 = Rank(A, k) + 2
  BY <1>2, <1>3
<1>7. B \cup C = A \ {k, k + 1}
  <2>1. \A i \in A : i < k \/ i > k + 1 <=> i # k /\ i # k + 1
    BY <1>1
  <2> QED
    BY <2>1
<1>8. Selected(l, B \cup C) = Selected(l, B) \o Selected(l, C)
  <2>1. B \in SUBSET (1 .. Len(l)) /\ C \in SUBSET (1 .. Len(l))
    OBVIOUS
  <2>2. \A i, i2 \in A : i < k /\ i2 > k + 1 => i < i2
    BY <1>1
  <2>3. \A i \in B, i2 \in C : i < i2
    BY <2>2
  <2>4. \A i \in B \cup C : l[i] \in STRING
    BY <1>1, <2>1
  <2> HIDE DEF B, C
  <2> QED
    BY <1>1, <2>1, <2>3, <2>4, SelectedConcat
<1>9. w[Rank(A, m)] = l[m]
  BY PlaceWords
<1> HIDE DEF B, C, w
<1>10. SubSeq(w, Rank(A, k) + 2, Len(w)) = Selected(l, C)
  BY <1>5, <1>6
<1>11. SubSeq(w, 1, Rank(A, k) - 1) \o SubSeq(w, Rank(A, k) + 2, Len(w)) = Selected(l, B \cup C)
  BY <1>4, <1>8, <1>10
<1>12. w[Rank(A, k) + 1] = l[k + 1]
  BY <1>2, <1>3, <1>9
<1> QED
  BY <1>7, <1>11, <1>12 DEF w

-----------------------------------------------------------------------------
(***************************************************************************)
(* What the processes of a line l are doing, when there are n pipes and g  *)
(* was executed.                                                           *)
(***************************************************************************)
\* pr reads the part behind d; its redirections up to e are done.
Scans(pr, l, n, g, d, e) ==
  /\ At(l, d, e)
  /\ pr.st = "scan" /\ pr.j \in {1, 2}
  /\ pr.args = Selected(l, Left(l, d, e))
  /\ pr.cmd = Selected(l, Kept(l) \cap (d + 1 .. Len(l)))
  /\ pr.in = Leads(l, d + 1 .. e, "<", Input(l, d))
  /\ pr.out = Leads(l, d + 1 .. e, ">", Tty)
  /\ pr.err = Leads(l, d + 1 .. e, "2>", Tty)
  /\ n = BarsTo(l, d) /\ g = Taken(l, d)

\* q is to execute the part between d and b; it has not yet, or has failed
\* and goes on behind b, where it finds nothing to do; or it has.
Executes(q, pr, l, g, d, b) ==
  \/ /\ q.st = "exec" /\ q.args = pr.args /\ q.j = pr.j /\ q.cmd[1] = l[d + 1]
     /\ q.in = Part(l, d + 1).in /\ q.out = Part(l, d + 1).out /\ q.err = Part(l, d + 1).err
     /\ g = Taken(l, d)
  \/ /\ q.st = "scan" /\ NextOp(q) = 0 /\ q.cmd[1] = l[d + 1] /\ l[d + 1] \notin Programs
     /\ g = Taken(l, d)
  \/ q.st \in {"run", "done"} /\ g = Taken(l, b)

\* pr waits for the process q of the part between d and the pipe b.
Waits(pr, q, l, n, g, d, b) ==
  /\ d \in Ends(l) /\ b \in Bars(l) /\ d < b /\ Bars(l) \cap (d + 1 .. b - 1) = {}
  /\ pr.st = "wait"
  /\ pr.args = Selected(l, Behind(l, d, b)) /\ pr.j = Rank(Behind(l, d, b), b)
  /\ pr.out = Tty /\ pr.err = Tty /\ pr.pipe = n /\ n = BarsTo(l, b)
  /\ Executes(q, pr, l, g, d, b)

\* The child begins with the whole line.
LEMMA ChildScans ==
    ASSUME NEW l, Ordinary(l) PROVE Scans(Child(l), l, 0, <<>>, 0, 0)
<1>1. Len(l) \in Nat \ {0} /\ Kept(l) \in SUBSET (1 .. Len(l)) /\ Bars(l) \in SUBSET (1 .. Len(l))
  BY LineFacts
<1>2. At(l, 0, 0)
  BY <1>1 DEF At, Ends
<1>3. Left(l, 0, 0) = 1 .. Len(l)
  <2>1. ASSUME NEW k \in 1 .. Len(l) PROVE k \in Left(l, 0, 0)
    <3>1. \A i \in {k - 1, k} : i \notin 0 + 1 .. 0
      BY <1>1
    <3> QED
      BY <1>1, <3>1 DEF Left
  <2> QED
    BY <1>1, <2>1 DEF Left
<1>4. l = Selected(l, Left(l, 0, 0))
  <2>1. Selected(l, 1 .. Len(l)) = l
    BY SelectedAll DEF Ordinary
  <2> QED
    BY <1>3, <2>1
<1>5. Words(l) = Selected(l, Kept(l) \cap (0 + 1 .. Len(l)))
  <2>1. Kept(l) \cap (0 + 1 .. Len(l)) = Kept(l)
    BY <1>1
  <2> QED
    BY <2>1 DEF Words
<1>6. \A k \in 0 + 1 .. 0 : l[k] \notin {"<", ">", "2>"}
  OBVIOUS
<1>7. /\ Tty = Leads(l, 0 + 1 .. 0, "<", Input(l, 0))
      /\ Tty = Leads(l, 0 + 1 .. 0, ">", Tty)
      /\ Tty = Leads(l, 0 + 1 .. 0, "2>", Tty)
  BY <1>6, LeadsNowhere DEF Input
<1>8. BarsTo(l, 0) = 0 /\ Taken(l, 0) = <<>>
  <2>1. 0 \in Ends(l)
    BY DEF Ends
  <2> QED
    BY <2>1, PipesTo, TakenEnds
<1> QED
  BY <1>2, <1>4, <1>5, <1>7, <1>8 DEF Scans, Child

\* The next operator of a process that scans.
LEMMA ScansNext ==
    ASSUME NEW l, Ordinary(l), NEW pr, NEW n, NEW g, NEW d, NEW e, Scans(pr, l, n, g, d, e)
    PROVE  /\ Left(l, d, e) \in SUBSET (1 .. Len(l)) /\ l \in Seq(STRING)
           /\ NextOp(pr) = 0 => \A k \in Left(l, d, e) : l[k] \notin Operators
           /\ NextOp(pr) # 0 =>
                \E k \in Left(l, d, e) :
                   /\ NextOp(pr) = Rank(Left(l, d, e), k) /\ pr.args[NextOp(pr)] = l[k]
                   /\ l[k] \in Operators
                   /\ \A i \in Left(l, d, e) : i < k => l[i] \notin Operators
<1> DEFINE A == Left(l, d, e)
<1>1. /\ A \in SUBSET (1 .. Len(l)) /\ \A k \in A : d + 1 <= k
      /\ d + 1 \in A /\ d \in 0 .. Len(l) - 1
  BY LeftFacts DEF Scans
<1>2. Len(l) \in Nat /\ l[d + 1] \notin Operators
  BY LineFacts DEF Scans, At
<1>3. l \in Seq(STRING)
  BY DEF Ordinary
<1>4. pr.args = Selected(l, A) /\ pr.j \in {1, 2}
  BY DEF Scans
<1> HIDE DEF A
<1>5. PICK m \in A : m = d + 1
  BY <1>1
<1>6. Rank(A, m) = 1
  BY <1>1, <1>2, <1>5, SelectedFirst
<1>7. ASSUME NEW k \in A, Rank(A, k) < pr.j PROVE l[k] \notin Operators
  <2>1. k # m => m < k /\ m \in Int
    BY <1>1, <1>2, <1>5
  <2>2. k # m => Rank(A, m) < Rank(A, k)
    BY <1>1, <1>2, <2>1, RankGrows
  <2>3. Rank(A, k) \in Int
    <3>1. Cardinality(A) \in Nat /\ \A i \in A : Rank(A, i) \in 1 .. Cardinality(A)
      BY <1>1, <1>3, PlaceWords
    <3> QED
      BY <1>7, <3>1
  <2>4. k = m
    BY <1>4, <1>6, <1>7, <2>2, <2>3
  <2> QED
    BY <1>2, <1>5, <2>4
<1>8. /\ NextOp(pr) = 0 => \A k \in A : l[k] \notin Operators
      /\ NextOp(pr) # 0 =>
           \E k \in A : /\ NextOp(pr) = Rank(A, k) /\ pr.args[NextOp(pr)] = l[k]
                        /\ l[k] \in Operators
                        /\ \A i \in A : i < k => l[i] \notin Operators
  <2>1. pr.j \in Nat \ {0}
    BY <1>4
  <2> QED
    BY <1>1, <1>3, <1>4, <1>7, <2>1, NextPlace
<1> QED
  BY <1>1, <1>3, <1>8 DEF A

\* Behind the redirections up to e, the next operator is at k.
NextAt(l, d, e, k) ==
  /\ d \in Nat /\ e \in Nat /\ Len(l) \in Nat
  /\ k \in d + 1 .. Len(l) - 1 /\ e < k
  /\ \A i \in e + 1 .. k - 1 : l[i] \notin Operators

\* The descriptors when one more redirection is done.
LEMMA LeadsMore ==
    ASSUME NEW l, NEW d, NEW e, NEW k, NextAt(l, d, e, k), NEW op \in Redirection, NEW default
    PROVE  /\ l[k] = op /\ Opens(op, l[k + 1]) =>
                Leads(l, d + 1 .. k, op, default) = File(l[k + 1])
           /\ ~(l[k] = op /\ Opens(op, l[k + 1])) =>
                Leads(l, d + 1 .. k, op, default) = Leads(l, d + 1 .. e, op, default)
<1> DEFINE K == d + 1 .. k
           M == d + 1 .. e
<1>1. /\ K \in SUBSET Int /\ k \in K /\ \A i \in K : i <= k
      /\ \A i \in M : i \in K
  BY DEF NextAt
<1>2. \A i \in K : l[i] = op => i \in M \/ i = k
  <2>1. ASSUME NEW i \in K, l[i] = op PROVE i \in M \/ i = k
    <3>1. i \notin e + 1 .. k - 1
      BY <2>1 DEF Operators, NextAt
    <3> QED
      BY <3>1 DEF NextAt
  <2> QED
    BY <2>1
<1> HIDE DEF K, M
<1>3. CASE l[k] = op /\ Opens(op, l[k + 1])
  <2>1. Leads(l, K, op, default) = File(l[k + 1])
    BY <1>1, <1>3, LeadsLast
  <2> QED
    BY <1>3, <2>1 DEF K
<1>4. CASE ~(l[k] = op /\ Opens(op, l[k + 1]))
  <2>1. /\ \A i \in K : l[i] = op /\ Opens(op, l[i + 1]) => i \in M
        /\ \A i \in M : l[i] = op /\ Opens(op, l[i + 1]) => i \in K
    BY <1>1, <1>2, <1>4
  <2>2. Leads(l, K, op, default) = Leads(l, M, op, default)
    BY ONLY <2>1, LeadsSame
  <2> QED
    BY <1>4, <2>2 DEF K, M
<1> QED
  BY <1>3, <1>4

\* One more redirection is done.
LEMMA ScansRedirect ==
    ASSUME NEW l, Ordinary(l), NEW pr, NEW n, NEW g, NEW d, NEW e, Scans(pr, l, n, g, d, e),
           NEW m, m = NextOp(pr), m # 0, pr.args[m] \in Redirection,
           NEW r, r.st = "scan", r.j = 2, r.cmd = pr.cmd,
           r.args = SubSeq(pr.args, 1, m - 1) \o SubSeq(pr.args, m + 2, Len(pr.args)),
           r.in = IF pr.args[m] = "<" /\ Opens(pr.args[m], pr.args[m + 1]) THEN File(pr.args[m + 1]) ELSE pr.in,
           r.out = IF pr.args[m] = ">" /\ Opens(pr.args[m], pr.args[m + 1]) THEN File(pr.args[m + 1]) ELSE pr.out,
           r.err = IF pr.args[m] = "2>" /\ Opens(pr.args[m], pr.args[m + 1]) THEN File(pr.args[m + 1]) ELSE pr.err
    PROVE  \E k : Scans(r, l, n, g, d, k)
<1> DEFINE A == Left(l, d, e)
<1>1. A \in SUBSET (1 .. Len(l)) /\ l \in Seq(STRING) /\ Len(l) \in Nat
  BY ScansNext, LineFacts
<1>2. PICK k \in A :
        /\ m = Rank(A, k) /\ pr.args[m] = l[k] /\ l[k] \in Operators
        /\ \A i \in A : i < k => l[i] \notin Operators
  BY ONLY Ordinary(l), Scans(pr, l, n, g, d, e), m = NextOp(pr), m # 0, ScansNext
<1>3. l[k] \in Redirection /\ At(l, d, e)
  BY <1>2 DEF Scans
<1>4. At(l, d, k) /\ Left(l, d, k) = A \ {k, k + 1}
  BY <1>2, <1>3, LeftRedirect
<1>5. /\ k \in d + 1 .. Len(l) - 1 /\ e < k /\ k + 1 \in A
      /\ \A i \in e + 1 .. k - 1 : l[i] \notin Operators
  BY <1>2, <1>3, LeftNext
<1>6. pr.args = Selected(l, A)
  BY DEF Scans
<1> HIDE DEF A
<1>7. r.args = Selected(l, Left(l, d, k)) /\ pr.args[m + 1] = l[k + 1]
  <2>1. k \in A /\ k + 1 \in A
    BY <1>2, <1>5
  <2>2. /\ SubSeq(Selected(l, A), 1, Rank(A, k) - 1)
             \o SubSeq(Selected(l, A), Rank(A, k) + 2, Len(Selected(l, A)))
             = Selected(l, A \ {k, k + 1})
        /\ Selected(l, A)[Rank(A, k) + 1] = l[k + 1]
    BY <1>1, <2>1, EraseWords
  <2>3. /\ SubSeq(pr.args, 1, m - 1) \o SubSeq(pr.args, m + 2, Len(pr.args))
             = Selected(l, A \ {k, k + 1})
        /\ pr.args[m + 1] = l[k + 1]
    BY <1>2, <1>6, <2>2
  <2> QED
    BY <1>4, <2>3
<1>8. d \in 0 .. Len(l) - 1 /\ e \in 0 .. Len(l) /\ d <= e
  BY <1>3, LeftFacts
<1>9. NextAt(l, d, e, k)
  BY <1>1, <1>5, <1>8 DEF NextAt
<1>10. /\ pr.in = Leads(l, d + 1 .. e, "<", Input(l, d))
       /\ pr.out = Leads(l, d + 1 .. e, ">", Tty)
       /\ pr.err = Leads(l, d + 1 .. e, "2>", Tty)
       /\ pr.cmd = Selected(l, Kept(l) \cap (d + 1 .. Len(l)))
       /\ n = BarsTo(l, d) /\ g = Taken(l, d)
  BY DEF Scans
<1>11. /\ r.in = Leads(l, d + 1 .. k, "<", Input(l, d))
       /\ r.out = Leads(l, d + 1 .. k, ">", Tty)
       /\ r.err = Leads(l, d + 1 .. k, "2>", Tty)
  <2>1. /\ r.in = IF l[k] = "<" /\ Opens("<", l[k + 1]) THEN File(l[k + 1]) ELSE pr.in
        /\ r.out = IF l[k] = ">" /\ Opens(">", l[k + 1]) THEN File(l[k + 1]) ELSE pr.out
        /\ r.err = IF l[k] = "2>" /\ Opens("2>", l[k + 1]) THEN File(l[k + 1]) ELSE pr.err
    BY <1>2, <1>7
  <2>2. "<" \in Redirection /\ ">" \in Redirection /\ "2>" \in Redirection
    BY DEF Redirection
  <2>3. /\ r.in = Leads(l, d + 1 .. k, "<", Input(l, d))
    BY <1>9, <1>10, <2>1, <2>2, LeadsMore
  <2>4. r.out = Leads(l, d + 1 .. k, ">", Tty)
    BY <1>9, <1>10, <2>1, <2>2, LeadsMore
  <2>5. r.err = Leads(l, d + 1 .. k, "2>", Tty)
    BY <1>9, <1>10, <2>1, <2>2, LeadsMore
  <2> QED
    BY <2>3, <2>4, <2>5
<1>12. Scans(r, l, n, g, d, k)
  BY <1>4, <1>7, <1>10, <1>11 DEF Scans
<1> QED
  BY <1>12

\* The word parseLine puts first is the first one of the part.
LEMMA CmdFirst ==
    ASSUME NEW l, Ordinary(l), NEW d \in Ends(l), NEW K \in SUBSET (d + 1 .. Len(l)), d + 1 \in K
    PROVE  Selected(l, K)[1] = l[d + 1]
<1>1. Len(l) \in Nat /\ d \in 0 .. Len(l) - 1
  BY LineFacts
<1>2. K \in SUBSET (1 .. Len(l)) /\ \A k \in K : d + 1 <= k
  BY <1>1
<1>3. PICK m \in K : m = d + 1
  OBVIOUS
<1>4. Selected(l, K)[1] = l[m]
  BY <1>1, <1>2, <1>3, SelectedFirst
<1> QED
  BY <1>3, <1>4

LEMMA PartFirst ==
    ASSUME NEW l, Ordinary(l), NEW d \in Ends(l) PROVE d + 1 \in Kept(l)
<1>1. d \in 0 .. Len(l) - 1 /\ Len(l) \in Nat /\ l[d + 1] \notin Operators
  BY LineFacts
<1>2. l[d + 1] \notin Redirection
  BY <1>1 DEF Operators
<1>3. d + 1 = 1 \/ l[d] \notin Redirection
  BY LineFacts DEF Ends
<1>4. (d + 1) - 1 = d /\ d + 1 \in 1 .. Len(l)
  BY <1>1
<1> QED
  BY <1>2, <1>3, <1>4 DEF Kept

LEMMA ScansFirst ==
    ASSUME NEW l, Ordinary(l), NEW pr, NEW n, NEW g, NEW d, NEW e, Scans(pr, l, n, g, d, e)
    PROVE  pr.cmd[1] = l[d + 1]
<1>1. d \in Ends(l) /\ pr.cmd = Selected(l, Kept(l) \cap (d + 1 .. Len(l)))
  BY DEF Scans, At
<1>2. d \in 0 .. Len(l) - 1 /\ Len(l) \in Nat
  BY <1>1, LineFacts
<1>3. PICK K : K = Kept(l) \cap (d + 1 .. Len(l))
  OBVIOUS
<1>4. K \in SUBSET (d + 1 .. Len(l)) /\ d + 1 \in K
  BY <1>1, <1>2, <1>3, PartFirst
<1>5. Selected(l, K)[1] = l[d + 1]
  BY <1>1, <1>4, CmdFirst
<1> QED
  BY <1>1, <1>3, <1>5

\* At a pipe: the process waits for the one of its part.
LEMMA ScansPipe ==
    ASSUME NEW l, Ordinary(l), NEW pr, NEW n, NEW g, NEW d, NEW e, Scans(pr, l, n, g, d, e),
           NEW m, m = NextOp(pr), m # 0, pr.args[m] = "|",
           NEW r, r.st = "wait", r.args = pr.args, r.j = m, r.out = pr.out, r.err = pr.err,
           r.pipe = n + 1,
           NEW q, q.st = "exec", q.args = pr.args, q.j = m, q.cmd = pr.cmd,
           q.in = pr.in, q.out = Pipe(n + 1), q.err = pr.err
    PROVE  \E b : Waits(r, q, l, n + 1, g, d, b)
<1>1. /\ Left(l, d, e) \in SUBSET (1 .. Len(l)) /\ Len(l) \in Nat
      /\ At(l, d, e) /\ d \in Ends(l) /\ pr.args = Selected(l, Left(l, d, e))
  BY ScansNext, LineFacts DEF Scans, At
<1>2. PICK b \in Left(l, d, e) :
        /\ m = Rank(Left(l, d, e), b) /\ pr.args[m] = l[b] /\ l[b] \in Operators
        /\ \A i \in Left(l, d, e) : i < b => l[i] \notin Operators
  BY ScansNext
<1>3. b \in Bars(l)
  BY <1>1, <1>2 DEF Bars
<1>4. Left(l, d, e) = Behind(l, d, b)
  BY <1>1, <1>2, <1>3, LeftPipe
<1>5. /\ b \in d + 1 .. Len(l) - 1 /\ e < b
      /\ \A i \in e + 1 .. b - 1 : l[i] \notin Operators
      /\ Bars(l) \cap (d + 1 .. b - 1) = {}
  BY <1>1, <1>2, LeftNext
<1>6. d \in 0 .. Len(l) - 1 /\ e \in 0 .. Len(l) /\ d <= e
  BY <1>1, LeftFacts
<1>7. n = BarsTo(l, d) /\ g = Taken(l, d) /\ BarsTo(l, d) \in Nat
  BY <1>1, PipesTo DEF Scans
<1>8. BarsTo(l, b) = n + 1
  <2>1. d < b
    BY <1>5, <1>6
  <2> QED
    BY <1>1, <1>3, <1>5, <1>7, <2>1, PipesTo
<1>9. \A i \in d + 1 .. b - 1 : l[i] \notin {">", "2>"}
  <2>1. ASSUME NEW i \in d + 1 .. b - 1 PROVE l[i] \notin {">", "2>"}
    <3>1. i \in 1 .. Len(l)
      BY <1>5, <1>6
    <3>2. l[i] \in Redirection => l[i] = "<"
      BY <1>3, <3>1, PlainFacts
    <3> QED
      BY <3>2 DEF Redirection
  <2> QED
    BY <2>1
<1> DEFINE K == d + 1 .. b - 1
           M == d + 1 .. e
<1>10. /\ \A i \in K : l[i] = "<" => i \in M
       /\ \A i \in M : i \in K
  <2>1. ASSUME NEW i \in K, l[i] = "<" PROVE i \in M
    <3>1. i \notin e + 1 .. b - 1
      BY <1>5, <2>1 DEF Operators, Redirection
    <3> QED
      BY <1>5, <1>6, <3>1
  <2>2. \A i \in M : i \in K
    BY <1>5, <1>6
  <2> QED
    BY <2>1, <2>2
<1>11. /\ pr.in = Leads(l, M, "<", Input(l, d))
       /\ pr.out = Leads(l, M, ">", Tty)
       /\ pr.err = Leads(l, M, "2>", Tty)
  BY DEF Scans
<1>12. Part(l, d + 1)
         = [words |-> Selected(l, K \cap Kept(l)), in |-> Leads(l, K, "<", Input(l, d)),
            out |-> Leads(l, K, ">", Pipe(n + 1)), err |-> Leads(l, K, "2>", Tty)]
  <2>1. b \in d + 1 .. Len(l) + 1 /\ b # Len(l) + 1
    BY <1>1, <1>5, <1>6
  <2> QED
    BY <1>1, <1>3, <1>5, <1>7, <2>1, PartIs
<1> HIDE DEF K, M
<1>13. \A i \in K : l[i] # ">" /\ l[i] # "2>"
  BY <1>9 DEF K
<1>14. pr.out = Tty /\ pr.err = Tty
  <2>1. \A i \in M : l[i] # ">"
    BY <1>10, <1>13
  <2>2. \A i \in M : l[i] # "2>"
    BY <1>10, <1>13
  <2> QED
    BY <1>11, <2>1, <2>2, LeadsNowhere
<1>15. Part(l, d + 1).in = pr.in
  <2>1. Leads(l, K, "<", Input(l, d)) = Leads(l, M, "<", Input(l, d))
    <3>1. /\ \A i \in K : l[i] = "<" => i \in M
          /\ \A i \in M : l[i] = "<" => i \in K
      BY <1>10
    <3> QED
      BY ONLY <3>1, LeadsSame
  <2> QED
    BY <1>11, <1>12, <2>1
<1>16. Part(l, d + 1).out = Pipe(n + 1) /\ Part(l, d + 1).err = Tty
  <2>1. Leads(l, K, ">", Pipe(n + 1)) = Pipe(n + 1)
    <3>1. \A i \in K : l[i] # ">"
      BY <1>13
    <3> QED
      BY <3>1, LeadsNowhere
  <2>2. Leads(l, K, "2>", Tty) = Tty
    <3>1. \A i \in K : l[i] # "2>"
      BY <1>13
    <3> QED
      BY <3>1, LeadsNowhere
  <2> QED
    BY <1>12, <2>1, <2>2
<1>17. q.cmd[1] = l[d + 1]
  BY ScansFirst
<1>18. Executes(q, r, l, g, d, b)
  BY <1>7, <1>14, <1>15, <1>16, <1>17 DEF Executes
<1>19. d < b
  BY <1>5, <1>6
<1>20. Waits(r, q, l, n + 1, g, d, b)
  BY <1>1, <1>2, <1>3, <1>4, <1>5, <1>8, <1>14, <1>18, <1>19 DEF Waits
<1> QED
  BY <1>20

\* No operator is left: what the process executes is the last part.
LEMMA ScansLast ==
    ASSUME NEW l, Ordinary(l), NEW pr, NEW n, NEW g, NEW d, NEW e, Scans(pr, l, n, g, d, e),
           NextOp(pr) = 0
    PROVE  Pipeline(l) = IF pr.cmd[1] \in Programs
                         THEN Append(g, [words |-> pr.cmd, in |-> pr.in, out |-> pr.out, err |-> pr.err])
                         ELSE g
<1>1. Len(l) \in Nat /\ At(l, d, e) /\ d \in Ends(l) /\ e \in 0 .. Len(l) /\ d \in 0 .. Len(l) - 1
  BY LineFacts, LeftFacts DEF Scans, At
<1>2. /\ \A k \in d + 1 .. Len(l) : l[k] \in Operators => k <= e /\ l[k] \in Redirection
      /\ Bars(l) \cap (d + 1 .. Len(l)) = {}
  BY <1>1, ScansNext, LeftNone
<1> DEFINE K == d + 1 .. Len(l)
           M == d + 1 .. e
           b == Len(l) + 1
<1>3. /\ pr.in = Leads(l, M, "<", Input(l, d))
      /\ pr.out = Leads(l, M, ">", Tty)
      /\ pr.err = Leads(l, M, "2>", Tty)
      /\ pr.cmd = Selected(l, Kept(l) \cap K)
  BY DEF Scans
<1>4. Part(l, d + 1)
        = [words |-> Selected(l, K \cap Kept(l)), in |-> Leads(l, K, "<", Input(l, d)),
           out |-> Leads(l, K, ">", Tty), err |-> Leads(l, K, "2>", Tty)]
  <2>1. b \in d + 1 .. Len(l) + 1 /\ d + 1 .. b - 1 = K
    BY <1>1
  <2> QED
    BY <1>1, <1>2, <2>1, PartIs
<1>5. /\ \A i \in K : l[i] \in Redirection => i \in M
      /\ \A i \in M : i \in K
  BY <1>1, <1>2 DEF Operators
<1>6. Taken(l, Len(l)) = IF l[d + 1] \in Programs THEN Append(Taken(l, d), Part(l, d + 1))
                         ELSE Taken(l, d)
  <2>1. PICK c : c = Len(l)
    OBVIOUS
  <2>2. c \in d + 1 .. Len(l) /\ Bars(l) \cap (d + 1 .. c - 1) = {}
    BY <1>1, <1>2, <2>1
  <2>3. Taken(l, c) = IF l[d + 1] \in Programs THEN Append(Taken(l, d), Part(l, d + 1))
                      ELSE Taken(l, d)
    BY <1>1, <2>2, TakenPart
  <2> QED
    BY <2>1, <2>3
<1> HIDE DEF K, M
<1>7. ASSUME NEW op \in Redirection, NEW default
      PROVE  Leads(l, K, op, default) = Leads(l, M, op, default)
  <2>1. /\ \A i \in K : l[i] = op => i \in M
        /\ \A i \in M : l[i] = op => i \in K
    BY <1>5, <1>7
  <2> QED
    BY ONLY <2>1, LeadsSame
<1>8. "<" \in Redirection /\ ">" \in Redirection /\ "2>" \in Redirection
  BY DEF Redirection
<1>9. [words |-> pr.cmd, in |-> pr.in, out |-> pr.out, err |-> pr.err] = Part(l, d + 1)
  <2>1. K \cap Kept(l) = Kept(l) \cap K
    OBVIOUS
  <2>2. /\ Leads(l, K, "<", Input(l, d)) = pr.in
        /\ Leads(l, K, ">", Tty) = pr.out
        /\ Leads(l, K, "2>", Tty) = pr.err
    BY <1>3, <1>7, <1>8
  <2> QED
    BY <1>3, <1>4, <2>1, <2>2
<1>10. pr.cmd[1] = l[d + 1] /\ g = Taken(l, d) /\ Taken(l, Len(l)) = Pipeline(l)
  BY ScansFirst, TakenEnds DEF Scans
<1> QED
  BY <1>6, <1>9, <1>10

\* The places of the words of a part that ends at a pipe.
LEMMA BehindFacts ==
    ASSUME NEW l, Ordinary(l), NEW d \in Ends(l), NEW b \in Bars(l), d < b
    PROVE  /\ l \in Seq(STRING) /\ Len(l) \in Nat /\ d \in 0 .. Len(l) - 1 /\ b \in d + 1 .. Len(l) - 1
           /\ Behind(l, d, b) \in SUBSET (1 .. Len(l)) /\ b \in Behind(l, d, b)
           /\ {i \in Behind(l, d, b) : i < b} = (d + 1 .. b - 1) \cap Kept(l)
           /\ {i \in Behind(l, d, b) : i > b} = b + 1 .. Len(l)
           /\ d + 1 < b
<1>1. l \in Seq(STRING) /\ Len(l) \in Nat /\ d \in 0 .. Len(l) - 1 /\ b \in 1 .. Len(l)
  BY LineFacts DEF Ordinary
<1>2. b \in d + 1 .. Len(l) - 1
  <2>1. b < Len(l)
    BY <1>1, LineFacts
  <2> QED
    BY <1>1, <2>1
<1>3. \A i : i \in Behind(l, d, b) <=> i \in (d + 1 .. b - 1) \cap Kept(l) \/ i \in b .. Len(l)
  BY DEF Behind
<1>4. Behind(l, d, b) \in SUBSET (1 .. Len(l)) /\ b \in Behind(l, d, b)
  BY <1>1, <1>2, <1>3
<1>5. /\ \A i \in Behind(l, d, b) : i < b => i \in (d + 1 .. b - 1) \cap Kept(l)
      /\ \A i \in (d + 1 .. b - 1) \cap Kept(l) : i \in Behind(l, d, b) /\ i < b
      /\ \A i \in Behind(l, d, b) : i > b => i \in b + 1 .. Len(l)
      /\ \A i \in b + 1 .. Len(l) : i \in Behind(l, d, b) /\ i > b
  BY <1>1, <1>2, <1>3
<1>6. d + 1 # b
  BY <1>1, LineFacts
<1>7. d + 1 < b
  BY <1>1, <1>2, <1>6
<1> QED
  BY <1>1, <1>2, <1>4, <1>5, <1>7

\* The words in front of a pipe.
Front(q) == SubSeq(q.args, 1, q.j - 1)

\* The words in front of the pipe are those of the part.
LEMMA ExecutesWords ==
    ASSUME NEW l, Ordinary(l), NEW pr, NEW q, NEW n, NEW g, NEW d, NEW b,
           Waits(pr, q, l, n, g, d, b), q.st = "exec"
    PROVE  /\ Front(q) # <<>> /\ Front(q)[1] = l[d + 1]
           /\ [words |-> Front(q), in |-> q.in, out |-> q.out, err |-> q.err] = Part(l, d + 1)
<1>1. /\ d \in Ends(l) /\ b \in Bars(l) /\ d < b /\ Bars(l) \cap (d + 1 .. b - 1) = {}
      /\ q.args = Selected(l, Behind(l, d, b)) /\ q.j = Rank(Behind(l, d, b), b)
      /\ q.in = Part(l, d + 1).in /\ q.out = Part(l, d + 1).out /\ q.err = Part(l, d + 1).err
  BY DEF Waits, Executes
<1>2. /\ l \in Seq(STRING) /\ Len(l) \in Nat /\ d \in 0 .. Len(l) - 1 /\ b \in d + 1 .. Len(l) - 1
      /\ Behind(l, d, b) \in SUBSET (1 .. Len(l)) /\ b \in Behind(l, d, b)
      /\ {i \in Behind(l, d, b) : i < b} = (d + 1 .. b - 1) \cap Kept(l)
      /\ d + 1 < b
  BY <1>1, BehindFacts
<1>3. PICK K : K = (d + 1 .. b - 1) \cap Kept(l)
  OBVIOUS
<1>4. SubSeq(q.args, 1, q.j - 1) = Selected(l, K)
  <2>1. PICK A : A = Behind(l, d, b)
    OBVIOUS
  <2>2. SubSeq(Selected(l, A), 1, Rank(A, b) - 1) = Selected(l, {i \in A : i < b})
    BY <1>2, <2>1, CutWords
  <2> QED
    BY <1>1, <1>2, <1>3, <2>1, <2>2
<1>5. Selected(l, K) # <<>> /\ Selected(l, K)[1] = l[d + 1]
  <2>1. K \in SUBSET (d + 1 .. Len(l)) /\ d + 1 \in K
    BY <1>1, <1>2, <1>3, PartFirst
  <2>2. Selected(l, K)[1] = l[d + 1]
    BY <1>1, <2>1, CmdFirst
  <2>3. K \in SUBSET (1 .. Len(l))
    BY <1>2, <2>1
  <2>4. Selected(l, K) # <<>>
    BY ONLY Len(l) \in Nat, <1>2, <2>1, <2>3, SelectedSome
  <2> QED
    BY <2>2, <2>4
<1>6. \E in, out, err :
        Part(l, d + 1) = [words |-> Selected(l, K), in |-> in, out |-> out, err |-> err]
  <2>1. b \in d + 1 .. Len(l) + 1
    BY <1>2
  <2>2. Part(l, d + 1)
          = [words |-> Selected(l, (d + 1 .. b - 1) \cap Kept(l)),
             in  |-> Leads(l, d + 1 .. b - 1, "<", Input(l, d)),
             out |-> Leads(l, d + 1 .. b - 1, ">", IF b = Len(l) + 1 THEN Tty ELSE Pipe(BarsTo(l, d) + 1)),
             err |-> Leads(l, d + 1 .. b - 1, "2>", Tty)]
    BY <1>1, <2>1, PartIs
  <2> QED
    BY <1>3, <2>2
<1>7. [words |-> Selected(l, K), in |-> q.in, out |-> q.out, err |-> q.err] = Part(l, d + 1)
  BY <1>1, <1>6
<1> QED
  BY <1>4, <1>5, <1>7 DEF Front

\* What the log says of the process q when it executes words.
Entry(q, words) == [words |-> words, in |-> q.in, out |-> q.out, err |-> q.err]

\* The program is found: it is executed as its part is meant.
LEMMA ExecutesFound ==
    ASSUME NEW l, Ordinary(l), NEW pr, NEW q, NEW n, NEW g, NEW d, NEW b,
           Waits(pr, q, l, n, g, d, b), q.st = "exec",
           Front(q)[1] \in Programs
    PROVE  Append(g, Entry(q, Front(q))) = Taken(l, b)
<1>1. l[d + 1] \in Programs
  BY ExecutesWords
<1>2. Entry(q, Front(q)) = Part(l, d + 1)
  BY ExecutesWords DEF Entry
<1>3. d \in Ends(l) /\ b \in Bars(l) /\ d < b /\ Bars(l) \cap (d + 1 .. b - 1) = {} /\ g = Taken(l, d)
  BY DEF Waits, Executes
<1>4. Taken(l, b) = Append(g, Part(l, d + 1))
  <2>1. b \in d + 1 .. Len(l)
    BY <1>3, BehindFacts
  <2> QED
    BY <1>1, <1>3, <2>1, TakenPart
<1> QED
  BY <1>2, <1>3, <1>4

\* Then it runs, and at last ends.
LEMMA ExecutesOn ==
    ASSUME NEW l, NEW pr, NEW q, NEW n, NEW g, NEW d, NEW b, Waits(pr, q, l, n, g, d, b),
           NEW r, r.st \in {"run", "done"}
    PROVE  /\ Waits(pr, r, l, n, Taken(l, b), d, b)
           /\ q.st \in {"run", "done"} => g = Taken(l, b)
BY DEF Waits, Executes

\* It is not found: the process goes on behind the pipe, where there is no
\* operator.
LEMMA ExecutesNot ==
    ASSUME NEW l, Ordinary(l), NEW pr, NEW q, NEW n, NEW g, NEW d, NEW b,
           Waits(pr, q, l, n, g, d, b), q.st = "exec",
           Front(q)[1] \notin Programs,
           NEW r, r.st = "scan", r.args = q.args, r.cmd = q.cmd, r.j = q.j + 1
    PROVE  Waits(pr, r, l, n, g, d, b)
<1>1. l[d + 1] \notin Programs
  <2>1. Front(q)[1] = l[d + 1]
    BY ONLY Ordinary(l), Waits(pr, q, l, n, g, d, b), q.st = "exec", ExecutesWords
  <2> QED
    BY <2>1
<1>2. /\ d \in Ends(l) /\ b \in Bars(l) /\ d < b /\ g = Taken(l, d) /\ q.cmd[1] = l[d + 1]
      /\ q.args = Selected(l, Behind(l, d, b)) /\ q.j = Rank(Behind(l, d, b), b)
  BY DEF Waits, Executes
<1>3. /\ l \in Seq(STRING) /\ Len(l) \in Nat /\ d \in 0 .. Len(l) - 1 /\ b \in d + 1 .. Len(l) - 1
      /\ Behind(l, d, b) \in SUBSET (1 .. Len(l)) /\ b \in Behind(l, d, b)
      /\ d + 1 < b
  BY <1>2, BehindFacts
<1>4. Bars(l) \in SUBSET (1 .. Len(l)) /\ IsFiniteSet(Bars(l))
  BY <1>3, LineFacts, PlacesFinite
<1>5. Cardinality({b2 \in Bars(l) : b2 > d + 1}) <= 1
  <2>1. d + 1 \in 1 .. Len(l) /\ (d + 1 = 1 \/ (d + 1) - 1 \in Bars(l))
    BY <1>2, <1>3 DEF Ends
  <2> QED
    BY <1>1, <2>1 DEF Ordinary, Plain
<1>6. ASSUME NEW k \in Bars(l), k > b PROVE FALSE
  <2> DEFINE B == {b2 \in Bars(l) : b2 > d + 1}
  <2>1. IsFiniteSet(B) /\ IsFiniteSet({b, k})
    <3>1. B \subseteq Bars(l)
      OBVIOUS
    <3>2. {b, k} \subseteq Bars(l)
      BY <1>2, <1>6
    <3> QED
      BY <1>4, <3>1, <3>2, FS_Subset
  <2>2. {b, k} \subseteq B
    BY <1>2, <1>3, <1>4, <1>6
  <2>3. Cardinality({b, k}) = 2
    <3>1. b # k
      BY <1>3, <1>4, <1>6
    <3>2. IsFiniteSet({b}) /\ Cardinality({b}) = 1
      BY FS_Singleton
    <3>3. Cardinality({b} \cup {k}) = Cardinality({b}) + 1
      BY <3>1, <3>2, FS_AddElement
    <3>4. {b} \cup {k} = {b, k}
      OBVIOUS
    <3> QED
      BY <3>2, <3>3, <3>4
  <2>4. Cardinality({b, k}) <= Cardinality(B) /\ Cardinality(B) \in Nat
    BY <2>1, <2>2, FS_Subset, FS_CardinalityType
  <2> QED
    BY <1>5, <2>3, <2>4
<1>7. ASSUME NEW k \in 1 .. Len(l), k > b PROVE l[k] \notin Operators
  <2>1. l[k] \notin Redirection
    BY <1>2, <1>3, <1>7, PlainFacts
  <2>2. k \notin Bars(l)
    BY <1>6, <1>7
  <2> QED
    BY <2>1, <2>2, LineFacts
<1> DEFINE A == Behind(l, d, b)
<1>8. ASSUME NEW k \in A, Rank(A, k) >= r.j PROVE l[k] \notin Operators
  <2>1. k \in Int /\ b \in Int /\ k \in 1 .. Len(l)
    BY <1>3
  <2>2. /\ Rank(A, k) \in Int /\ Rank(A, b) \in Int
        /\ k < b => Rank(A, k) < Rank(A, b)
    <3>1. /\ \A i \in Int : Rank(A, i) \in 0 .. Cardinality(A)
          /\ \A i \in Int, m \in A : i < m => Rank(A, i) < Rank(A, m)
      BY <1>3, RankGrows
    <3> QED
      BY <1>3, <2>1, <3>1
  <2>3. Rank(A, k) > Rank(A, b)
    BY <1>2, <1>8, <2>2
  <2>4. k > b
    BY <2>1, <2>2, <2>3
  <2> QED
    BY <1>7, <2>1, <2>4
<1>9. NextOp(r) = 0
  <2>1. r.j \in Nat \ {0} /\ r.args = Selected(l, A) /\ A \in SUBSET (1 .. Len(l))
    <3>1. Rank(A, b) \in 1 .. Cardinality(A) /\ Cardinality(A) \in Nat
      BY <1>3, PlaceWords
    <3> QED
      BY <1>2, <1>3, <3>1
  <2> QED
    BY <1>3, <1>8, <2>1, NextNothing
<1> QED
  BY <1>1, <1>2, <1>9 DEF Waits, Executes

\* Then it executes nothing.
LEMMA ExecutesNothing ==
    ASSUME NEW l, Ordinary(l), NEW pr, NEW q, NEW n, NEW g, NEW d, NEW b,
           Waits(pr, q, l, n, g, d, b), q.st = "scan", NEW r, r.st = "done"
    PROVE  NextOp(q) = 0 /\ q.cmd[1] \notin Programs /\ Waits(pr, r, l, n, g, d, b)
<1>1. /\ d \in Ends(l) /\ b \in Bars(l) /\ d < b /\ Bars(l) \cap (d + 1 .. b - 1) = {}
      /\ NextOp(q) = 0 /\ q.cmd[1] = l[d + 1] /\ l[d + 1] \notin Programs /\ g = Taken(l, d)
  BY DEF Waits, Executes
<1>2. Taken(l, b) = Taken(l, d)
  <2>1. b \in d + 1 .. Len(l)
    BY <1>1, BehindFacts
  <2> QED
    BY <1>1, <2>1, TakenPart
<1> QED
  BY <1>1, <1>2 DEF Waits, Executes

\* The process of the part is done: the one that waited reads the next part.
LEMMA WaitsScans ==
    ASSUME NEW l, Ordinary(l), NEW pr, NEW q, NEW n, NEW g, NEW d, NEW b,
           Waits(pr, q, l, n, g, d, b), q.st = "done",
           NEW r, r.st = "scan", r.j = 2,
           r.args = SubSeq(pr.args, pr.j + 1, Len(pr.args)), r.cmd = r.args,
           r.in = Pipe(pr.pipe), r.out = pr.out, r.err = pr.err
    PROVE  Scans(r, l, n, g, b, b)
<1>1. /\ d \in Ends(l) /\ b \in Bars(l) /\ d < b
      /\ pr.args = Selected(l, Behind(l, d, b)) /\ pr.j = Rank(Behind(l, d, b), b)
      /\ pr.out = Tty /\ pr.err = Tty /\ pr.pipe = n /\ n = BarsTo(l, b) /\ g = Taken(l, b)
  BY DEF Waits, Executes
<1>2. /\ l \in Seq(STRING) /\ Len(l) \in Nat /\ d \in 0 .. Len(l) - 1 /\ b \in d + 1 .. Len(l) - 1
      /\ Behind(l, d, b) \in SUBSET (1 .. Len(l)) /\ b \in Behind(l, d, b)
      /\ {i \in Behind(l, d, b) : i > b} = b + 1 .. Len(l)
  BY <1>1, BehindFacts
<1>3. r.args = Selected(l, b + 1 .. Len(l))
  BY <1>1, <1>2, CutWords
<1>4. \A i \in b .. Len(l) : l[i] \notin Redirection
  <2>1. ASSUME NEW i \in b .. Len(l) PROVE l[i] \notin Redirection
    <3>1. i \in 1 .. Len(l) /\ ~ (i < b)
      BY <1>2, <2>1
    <3> QED
      BY <1>1, <3>1, PlainFacts
  <2> QED
    BY <2>1
<1>5. Left(l, b, b) = b + 1 .. Len(l)
  <2>1. \A i : i \notin b + 1 .. b
    BY <1>2
  <2> QED
    BY <2>1 DEF Left
<1>6. Kept(l) \cap (b + 1 .. Len(l)) = b + 1 .. Len(l)
  <2>1. ASSUME NEW i \in b + 1 .. Len(l) PROVE i \in Kept(l)
    <3>1. i \in 1 .. Len(l) /\ i \in b .. Len(l) /\ i - 1 \in b .. Len(l)
      BY <1>2
    <3> QED
      BY <1>4, <3>1 DEF Kept
  <2> QED
    BY <2>1
<1>7. At(l, b, b)
  BY <1>1, <1>2 DEF At, Ends
<1>8. Input(l, b) = Pipe(n)
  BY <1>1, <1>2 DEF Input
<1>9. ASSUME NEW op, NEW default PROVE Leads(l, b + 1 .. b, op, default) = default
  <2>1. PICK K : K = b + 1 .. b
    OBVIOUS
  <2>2. \A k \in K : l[k] # op
    BY <1>2, <2>1
  <2>3. Leads(l, K, op, default) = default
    BY ONLY <2>2, LeadsNowhere
  <2> QED
    BY <2>1, <2>3
<1>10. /\ Leads(l, b + 1 .. b, "<", Input(l, b)) = Pipe(n)
       /\ Leads(l, b + 1 .. b, ">", Tty) = Tty
       /\ Leads(l, b + 1 .. b, "2>", Tty) = Tty
  BY <1>8, <1>9
<1> QED
  BY <1>1, <1>3, <1>5, <1>6, <1>7, <1>10 DEF Scans

-----------------------------------------------------------------------------
(***************************************************************************)
(* The processes of a line that is run as it is meant.                     *)
(***************************************************************************)
Fields == {"st", "args", "j", "cmd", "in", "out", "err", "pipe", "child", "left"}

Reading == \E d, e : Scans(procs[1], line, Len(pipes), log, d, e)
Piping == \E d, b : Waits(procs[1], procs[procs[1].child], line, Len(pipes), log, d, b)
Ran == procs[1].st \in {"run", "done"} /\ log = Pipeline(line)

Regular == Commanded /\ Plain(line)

\* While the shell waits, its child reads a part, or waits for the process of
\* one, or is the last program; then everything was executed.
MeantInv ==
  /\ line \in Lines \cup {<<>>}
  /\ Regular =>
       \/ pc = "exited" /\ log = <<>>
       \/ pc \in {"prompt", "exited"} /\ log = Pipeline(line)
       \/ pc = "wait" /\ (Reading \/ Piping \/ Ran)

LEMMA ProcessFields ==
    ASSUME NEW p, NEW pr \in ProcessType(p) PROVE DOMAIN pr = Fields
BY DEF ProcessType, Fields

LEMMA LinesOrdinary ==
    ASSUME NEW l \in Lines, l # <<>>, Plain(l) PROVE Ordinary(l)
BY ShellAssumption DEF Ordinary, WellFormed

LEMMA RegularOrdinary == ASSUME MeantInv, Regular PROVE Ordinary(line)
BY LinesOrdinary DEF MeantInv, Regular, Commanded

\* The line is read, and the child is forked or not.
LEMMA MeantLine == ASSUME NEW l \in Lines, ReadLine(l) PROVE MeantInv'
<1>1. line' = l /\ pipes' = <<>> /\ log' = <<>>
  BY DEF ReadLine
<1> SUFFICES ASSUME Regular'
             PROVE  \/ pc' = "exited"
                    \/ pc' = "wait" /\ Reading'
  BY <1>1 DEF MeantInv
<1>2. Ordinary(l) /\ Words(l)[1] \notin DirCommands
  BY <1>1, LinesOrdinary DEF Regular, Commanded
<1>3. Words(l) # <<>>
  BY <1>2, LineStarts
<1>4. \/ pc' = "exited"
      \/ pc' = "wait" /\ procs' = [p \in 1 .. MaxProcs |-> IF p = 1 THEN Child(l) ELSE Free]
  BY <1>2, <1>3 DEF ReadLine
<1>5. ASSUME procs' = [p \in 1 .. MaxProcs |-> IF p = 1 THEN Child(l) ELSE Free]
      PROVE  Reading'
  <2>1. procs'[1] = Child(l)
    BY <1>5, ShellAssumption
  <2>2. Len(pipes') = 0
    BY <1>1, EmptySeq
  <2>3. Scans(procs'[1], line', Len(pipes'), log', 0, 0)
    BY <1>1, <1>2, <2>1, <2>2, ChildScans
  <2> QED
    BY <2>3 DEF Reading
<1> QED
  BY <1>4, <1>5

LEMMA MeantShell ==
    ASSUME MeantInv, Eof \/ Reap \/ Queue \/ UNCHANGED vars
                     \/ ((\E d \in Dirs : Rmdir(d) \/ Mkdir(d)) /\ UNCHANGED procvars)
    PROVE  MeantInv'
<1>1. UNCHANGED <<line, procs, pipes, log>>
  BY DEF Eof, Reap, Queue, vars, procvars
<1>2. (Reading <=> Reading') /\ (Piping <=> Piping') /\ (Ran <=> Ran') /\ (Regular <=> Regular')
  BY <1>1 DEF Reading, Piping, Ran, Regular, Commanded
<1>3. \/ pc' = pc
      \/ pc = "prompt" /\ pc' = "exited"
      \/ pc = "wait" /\ procs[1].st = "done" /\ pc' = "prompt"
      \/ pc \in {"pop", "show"}
  BY DEF Eof, Reap, Queue, Turn, Popped, Shown, Rmdir, Mkdir, vars, dirvars
<1>4. procs[1].st = "done" => ~Reading /\ ~Piping
  BY DEF Reading, Piping, Scans, Waits
<1> QED
  BY <1>1, <1>2, <1>3, <1>4 DEF MeantInv, Ran

\* Which process moves.
LEMMA FirstMoves ==
    ASSUME ShellInv, NEW p \in Procs, Live(p), procs[1].st \in {"scan", "exec", "run", "done"}
    PROVE  p = 1 /\ procs[1].st # "done"
<1>1. MaxProcs \in Nat \ {0} /\ 1 \in Procs /\ Procs \subseteq Nat /\ \A q \in Procs : q >= 1
  BY ShellAssumption DEF Procs
<1>2. Live(1)
  BY DEF ShellInv, FirstInv
<1>3. procs[1].st # "done"
  BY <1>2 DEF Live, LiveStates
<1>4. LastLive(1)
  BY <1>1, <1>3 DEF ShellInv, ChainInv
<1> QED
  BY <1>1, <1>3, <1>4 DEF LastLive

LEMMA ChildMoves ==
    ASSUME ShellInv, NEW p \in Procs, Live(p), procs[1].st = "wait",
           NEW c, c = procs[1].child, procs[c].st # "wait"
    PROVE  /\ c \in Procs /\ c # 1
           /\ p = 1 \/ (p = c /\ procs[c].st \in {"scan", "exec", "run"})
<1>1. MaxProcs \in Nat \ {0} /\ 1 \in Procs /\ Procs \subseteq Nat /\ \A q \in Procs : q >= 1
  BY ShellAssumption DEF Procs
<1>2. c \in Procs /\ c > 1 /\ \A q \in Procs : q > 1 /\ Live(q) => q >= c /\ Live(c)
  BY <1>1 DEF ShellInv, ChainInv
<1>3. CASE p # 1
  <2>1. p > 1
    BY <1>1, <1>3
  <2>2. p >= c /\ Live(c)
    BY <1>2, <2>1
  <2>3. procs[c].st \in {"scan", "exec", "run"}
    BY <2>2 DEF Live, LiveStates
  <2>4. LastLive(c)
    BY <1>2, <2>3 DEF ShellInv, ChainInv
  <2>5. p = c
    BY <1>1, <1>2, <2>2, <2>4 DEF LastLive
  <2> QED
    BY <1>2, <2>3, <2>5
<1> QED
  BY <1>2, <1>3

LEMMA FirstTyped ==
    ASSUME ShellInv, NEW p \in Procs, Live(p)
    PROVE  DOMAIN procs = Procs /\ DOMAIN procs[p] = Fields /\ 1 \in Procs /\ Len(pipes) \in Nat
<1>1. procs[p] \in ProcessType(p)
  BY LiveIsTyped DEF ShellInv, Live, LiveStates
<1>2. DOMAIN procs[p] = Fields
  BY <1>1, ProcessFields
<1>3. 1 \in Procs
  BY ShellAssumption DEF Procs
<1> QED
  BY <1>2, <1>3, PipesLen DEF ShellInv, ProcsType

LEMMA RedirectFirst ==
    ASSUME ShellInv, Ordinary(line), Reading, Redirect(1) PROVE Reading'
<1> DEFINE pr == procs[1]
           m  == NextOp(pr)
           f  == File(pr.args[m + 1])
           op == pr.args[m]
           ok == Opens(op, pr.args[m + 1])
           r  == [pr EXCEPT !.in  = IF op = "<" /\ ok THEN f ELSE @,
                            !.out = IF op = ">" /\ ok THEN f ELSE @,
                            !.err = IF op = "2>" /\ ok THEN f ELSE @,
                            !.args = SubSeq(@, 1, m - 1) \o SubSeq(@, m + 2, Len(@)),
                            !.j = 2]
<1>1. /\ pr.st = "scan" /\ m # 0 /\ op \in Redirection /\ procs' = [procs EXCEPT ![1] = r]
      /\ UNCHANGED <<line, pipes, log>>
  BY DEF Redirect
<1>2. 1 \in Procs
  BY ShellAssumption DEF Procs
<1>3. DOMAIN procs = Procs /\ DOMAIN pr = Fields
  BY <1>1, <1>2, FirstTyped DEF Live, LiveStates
<1>4. PICK d, e : Scans(pr, line, Len(pipes), log, d, e)
  BY DEF Reading
<1>5. procs'[1] = r
  BY <1>1, <1>2, <1>3
<1>6. /\ r.st = "scan" /\ r.j = 2 /\ r.cmd = pr.cmd
      /\ r.args = SubSeq(pr.args, 1, m - 1) \o SubSeq(pr.args, m + 2, Len(pr.args))
      /\ r.in = IF op = "<" /\ ok THEN f ELSE pr.in
      /\ r.out = IF op = ">" /\ ok THEN f ELSE pr.out
      /\ r.err = IF op = "2>" /\ ok THEN f ELSE pr.err
  <2> HIDE DEF pr, m, f
  <2> QED
    BY <1>1, <1>3 DEF Fields
<1> HIDE DEF r
<1>7. \E k : Scans(r, line, Len(pipes), log, d, k)
  BY <1>1, <1>4, <1>6, ScansRedirect
<1> QED
  BY <1>1, <1>5, <1>7 DEF Reading

LEMMA MakePipeFirst ==
    ASSUME ShellInv, Ordinary(line), Reading, MakePipe(1) PROVE Piping'
<1> DEFINE pr == procs[1]
           m  == NextOp(pr)
           n  == Len(pipes')
<1>1. /\ pr.st = "scan" /\ m # 0 /\ pr.args[m] = "|" /\ pipes' = Append(pipes, 0)
      /\ UNCHANGED <<line, log>>
  BY DEF MakePipe
<1>2. 1 \in Procs
  BY ShellAssumption DEF Procs
<1>3. DOMAIN procs = Procs /\ DOMAIN pr = Fields /\ Len(pipes) \in Nat
  BY <1>1, <1>2, FirstTyped DEF Live, LiveStates
<1>4. PICK d, e : Scans(pr, line, Len(pipes), log, d, e)
  BY DEF Reading
<1>5. PICK c \in Procs :
        /\ procs[c] = Free
        /\ procs' = [procs EXCEPT
             ![1] = [pr EXCEPT !.st = "wait", !.j = m, !.pipe = n, !.child = c],
             ![c] = [pr EXCEPT !.st = "exec", !.j = m, !.out = Pipe(n), !.pipe = 0, !.child = 0]]
  BY DEF MakePipe, Procs
<1> DEFINE r == [pr EXCEPT !.st = "wait", !.j = m, !.pipe = n, !.child = c]
           q == [pr EXCEPT !.st = "exec", !.j = m, !.out = Pipe(n), !.pipe = 0, !.child = 0]
<1>6. /\ r.st = "wait" /\ r.args = pr.args /\ r.j = m /\ r.out = pr.out /\ r.err = pr.err
      /\ r.pipe = n /\ r.child = c
      /\ q.st = "exec" /\ q.args = pr.args /\ q.j = m /\ q.cmd = pr.cmd
      /\ q.in = pr.in /\ q.out = Pipe(n) /\ q.err = pr.err
  <2> HIDE DEF pr, m, n
  <2> QED
    BY <1>3 DEF Fields
<1>7. c # 1
  BY <1>1, <1>5 DEF Free
<1> HIDE DEF r, q
<1>8. procs'[1] = r /\ procs'[c] = q
  BY <1>2, <1>3, <1>5, <1>7 DEF r, q
<1>9. n = Len(pipes) + 1
  <2>1. pipes \in Seq(0 .. Capacity) /\ 0 \in 0 .. Capacity
    BY ShellAssumption DEF ShellInv, ProcsType
  <2> QED
    BY <1>1, <2>1, AppendProperties
<1>10. PICK b : Waits(r, q, line, Len(pipes) + 1, log, d, b)
  BY <1>1, <1>4, <1>6, <1>9, ScansPipe
<1> QED
  BY <1>1, <1>6, <1>8, <1>9, <1>10 DEF Piping

LEMMA ExecLastFirst ==
    ASSUME ShellInv, Ordinary(line), Reading, ExecLast(1) PROVE Ran'
<1> DEFINE pr == procs[1]
<1>1. pr.st = "scan" /\ NextOp(pr) = 0 /\ line' = line
  BY DEF ExecLast, Becomes
<1>2. 1 \in Procs
  BY ShellAssumption DEF Procs
<1>3. DOMAIN procs = Procs /\ DOMAIN pr = Fields
  BY <1>1, <1>2, FirstTyped DEF Live, LiveStates
<1>4. PICK d, e : Scans(pr, line, Len(pipes), log, d, e)
  BY DEF Reading
<1>5. Pipeline(line)
        = IF pr.cmd[1] \in Programs
          THEN Append(log, [words |-> pr.cmd, in |-> pr.in, out |-> pr.out, err |-> pr.err])
          ELSE log
  BY <1>1, <1>4, ScansLast
<1>6. procs'[1].st \in {"run", "done"}
  BY <1>2, <1>3 DEF ExecLast, Becomes, Fields
<1>7. log' = Pipeline(line)
  <2>1. CASE pr.cmd[1] \in Programs
    <3>1. log' = Append(log, [words |-> pr.cmd, in |-> pr.in, out |-> pr.out, err |-> pr.err])
      BY <2>1 DEF ExecLast, Becomes
    <3> QED
      BY <1>5, <2>1, <3>1
  <2>2. CASE pr.cmd[1] \notin Programs
    <3>1. log' = log
      BY <2>2 DEF ExecLast
    <3> QED
      BY <1>5, <2>2, <3>1
  <2> QED
    BY <2>1, <2>2
<1> QED
  BY <1>1, <1>6, <1>7 DEF Ran

\* The process of the part ends: the child of the shell reads the next part.
LEMMA WaitedFirst ==
    ASSUME ShellInv, Ordinary(line), Piping, Waited(1) PROVE Reading'
<1> DEFINE pr == procs[1]
           q == procs[pr.child]
           rest == SubSeq(pr.args, pr.j + 1, Len(pr.args))
           r == [pr EXCEPT !.st = "scan", !.args = rest, !.cmd = rest,
                           !.in = Pipe(pr.pipe), !.j = 2]
<1>1. /\ pr.st = "wait" /\ q.st = "done" /\ procs' = [procs EXCEPT ![1] = r]
      /\ UNCHANGED <<line, pipes, log>>
  BY DEF Waited
<1>2. 1 \in Procs
  BY ShellAssumption DEF Procs
<1>3. DOMAIN procs = Procs /\ DOMAIN pr = Fields
  BY <1>1, <1>2, FirstTyped DEF Live, LiveStates
<1>4. PICK d, b : Waits(pr, q, line, Len(pipes), log, d, b)
  BY DEF Piping
<1>5. procs'[1] = r
  BY <1>1, <1>2, <1>3
<1>6. /\ r.st = "scan" /\ r.j = 2 /\ r.args = rest /\ r.cmd = r.args
      /\ r.in = Pipe(pr.pipe) /\ r.out = pr.out /\ r.err = pr.err
  <2> HIDE DEF pr, rest
  <2> QED
    BY <1>3 DEF Fields
<1> HIDE DEF r
<1>7. Scans(r, line, Len(pipes), log, b, b)
  BY <1>1, <1>4, <1>6, WaitsScans
<1> QED
  BY <1>1, <1>5, <1>7 DEF Reading

\* The child moves on, and the one that waits for it still does.
LEMMA ChildStep ==
    ASSUME ShellInv, procs[1].st = "wait", NEW c \in Procs, c = procs[1].child, c # 1,
           \A x \in Procs \ {c} : procs'[x] = procs[x],
           UNCHANGED line, Len(pipes') = Len(pipes),
           NEW d, NEW b, Waits(procs[1], procs'[c], line, Len(pipes), log', d, b)
    PROVE  Piping'
<1>1. 1 \in Procs
  BY ShellAssumption DEF Procs
<1>2. procs'[1] = procs[1]
  BY <1>1
<1> QED
  BY <1>2 DEF Piping

LEMMA ExecutePart ==
    ASSUME ShellInv, Ordinary(line), Piping, procs[1].st = "wait",
           NEW c \in Procs, c = procs[1].child, c # 1, ExecPipe(c)
    PROVE  Piping'
<1> DEFINE q == procs[c]
           words == Front(q)
<1>1. q.st = "exec" /\ DOMAIN q = Fields
  BY FirstTyped DEF ExecPipe, Live, LiveStates
<1>2. PICK d, b : Waits(procs[1], q, line, Len(pipes), log, d, b)
  BY DEF Piping
<1>0. words # <<>>
  <2> HIDE DEF q
  <2> QED
    BY <1>1, <1>2, ExecutesWords
<1>3. CASE words[1] \in Programs
  <2>1. PICK n \in 0 .. MaxOut : Becomes(c, words, n)
    BY <1>0, <1>3 DEF ExecPipe, Front
  <2> DEFINE r == [q EXCEPT !.st = "run", !.left = n]
             g == Append(log, [words |-> words, in |-> q.in, out |-> q.out, err |-> q.err])
  <2>2. procs' = [procs EXCEPT ![c] = r] /\ log' = g /\ UNCHANGED <<line, pipes>>
    BY <2>1 DEF Becomes
  <2>3. r.st \in {"run", "done"}
    BY <1>1 DEF Fields
  <2> HIDE DEF r, q
  <2>4. Append(log, Entry(q, Front(q))) = Taken(line, b)
    BY <1>1, <1>2, <1>3, ExecutesFound
  <2>5. g = Taken(line, b)
    BY <2>4 DEF Entry, Front
  <2>6. Waits(procs[1], r, line, Len(pipes), Taken(line, b), d, b)
    BY <1>2, <2>3, ExecutesOn
  <2>7. procs'[c] = r /\ \A x \in Procs \ {c} : procs'[x] = procs[x]
    BY <2>2 DEF ShellInv, ProcsType
  <2> QED
    BY <2>2, <2>5, <2>6, <2>7, ChildStep
<1>4. CASE words[1] \notin Programs
  <2> DEFINE r == [q EXCEPT !.st = "scan", !.j = @ + 1]
  <2>1. procs' = [procs EXCEPT ![c] = r] /\ UNCHANGED <<line, pipes, log>>
    BY <1>4 DEF ExecPipe, Front
  <2>2. r.st = "scan" /\ r.args = q.args /\ r.cmd = q.cmd /\ r.j = q.j + 1
    BY <1>1 DEF Fields
  <2> HIDE DEF r, q
  <2>3. Waits(procs[1], r, line, Len(pipes), log, d, b)
    BY <1>1, <1>2, <1>4, <2>2, ExecutesNot
  <2>4. procs'[c] = r /\ \A x \in Procs \ {c} : procs'[x] = procs[x]
    BY <2>1 DEF ShellInv, ProcsType
  <2> QED
    BY <2>1, <2>3, <2>4, ChildStep
<1> QED
  BY <1>3, <1>4

LEMMA ExecuteNothing ==
    ASSUME ShellInv, Ordinary(line), Piping, procs[1].st = "wait",
           NEW c \in Procs, c = procs[1].child, c # 1, ExecLast(c)
    PROVE  Piping'
<1> DEFINE q == procs[c]
           r == [q EXCEPT !.st = "done"]
<1>1. q.st = "scan" /\ DOMAIN q = Fields
  BY FirstTyped DEF ExecLast, Live, LiveStates
<1>2. PICK d, b : Waits(procs[1], q, line, Len(pipes), log, d, b)
  BY DEF Piping
<1>3. r.st = "done"
  BY <1>1 DEF Fields
<1>4. q.cmd[1] \notin Programs /\ Waits(procs[1], r, line, Len(pipes), log, d, b)
  <2> HIDE DEF r, q
  <2> QED
    BY <1>1, <1>2, <1>3, ExecutesNothing
<1>5. /\ procs'[c] = r /\ \A x \in Procs \ {c} : procs'[x] = procs[x]
      /\ UNCHANGED <<line, pipes, log>>
  BY <1>4 DEF ExecLast, ShellInv, ProcsType
<1> HIDE DEF r, q
<1> QED
  BY <1>4, <1>5, ChildStep

\* A program that runs writes, reads and ends.
LEMMA ProgramStep ==
    ASSUME ShellInv, NEW p \in Procs, Write(p) \/ Read(p) \/ Exit(p)
    PROVE  /\ procs[p].st = "run" /\ UNCHANGED <<line, log>> /\ Len(pipes') = Len(pipes)
           /\ procs'[p].st \in {"run", "done"}
           /\ \A x \in Procs \ {p} : procs'[x] = procs[x]
<1>1. procs[p].st = "run" /\ UNCHANGED <<line, log>>
  BY DEF Write, Read, Exit
<1>2. DOMAIN procs = Procs /\ DOMAIN procs[p] = Fields /\ pipes \in Seq(0 .. Capacity)
  BY <1>1, FirstTyped DEF Live, LiveStates, ShellInv, ProcsType
<1>3. Len(pipes') = Len(pipes)
  <2>1. PICK N \in Nat : pipes \in [1 .. N -> 0 .. Capacity] /\ N = Len(pipes)
    BY <1>2, LenProperties
  <2>2. pipes' = pipes \/ \E i, x : pipes' = [pipes EXCEPT ![i] = x]
    BY DEF Write, Read, Exit
  <2>3. ASSUME NEW i, NEW x PROVE Len([pipes EXCEPT ![i] = x]) = Len(pipes)
    BY <1>2, <2>1
  <2> QED
    BY <2>2, <2>3
<1>4. procs'[p].st \in {"run", "done"} /\ \A x \in Procs \ {p} : procs'[x] = procs[x]
  BY <1>1, <1>2 DEF Write, Read, Exit, Fields
<1> QED
  BY <1>1, <1>3, <1>4

LEMMA MeantProcess ==
    ASSUME MeantInv, ShellInv, NEW p \in Procs, Process(p) PROVE MeantInv'
<1>1. UNCHANGED <<line, pc>>
  BY DEF Process, Redirect, MakePipe, ExecPipe, Becomes, Waited, ExecLast, Write, Read, Exit, dirvars
<1> SUFFICES ASSUME Regular PROVE pc = "wait" /\ (Reading' \/ Piping' \/ Ran')
  BY <1>1 DEF MeantInv, Regular, Commanded
<1>2. Ordinary(line) /\ 1 \in Procs
  BY RegularOrdinary, ShellAssumption DEF Procs
<1>3. Live(p)
  BY DEF Process, Redirect, MakePipe, ExecPipe, Waited, ExecLast, Write, Read, Exit, Live, LiveStates
<1>4. pc = "wait"
  BY <1>3 DEF ShellInv, FirstInv
<1>5. Reading \/ Piping \/ Ran
  BY <1>4 DEF MeantInv
<1>6. \/ Redirect(p) \/ MakePipe(p) \/ ExecPipe(p) \/ Waited(p) \/ ExecLast(p)
      \/ Write(p) \/ Read(p) \/ Exit(p)
  BY DEF Process
<1>7. CASE Reading
  <2>1. procs[1].st = "scan"
    BY <1>7 DEF Reading, Scans
  <2>2. p = 1
    BY <1>3, <2>1, FirstMoves
  <2>3. Redirect(1) \/ MakePipe(1) \/ ExecLast(1)
    BY <1>6, <2>1, <2>2 DEF ExecPipe, Waited, Write, Read, Exit
  <2> QED
    BY <1>2, <1>4, <1>7, <2>3, RedirectFirst, MakePipeFirst, ExecLastFirst
<1>8. CASE Piping
  <2>1. PICK d, b : Waits(procs[1], procs[procs[1].child], line, Len(pipes), log, d, b)
    BY <1>8 DEF Piping
  <2>2. PICK c : c = procs[1].child
    OBVIOUS
  <2>3. procs[1].st = "wait" /\ procs[c].st \in {"exec", "scan", "run", "done"}
    BY <2>1, <2>2 DEF Waits, Executes
  <2>4. /\ c \in Procs /\ c # 1
        /\ p = 1 \/ (p = c /\ procs[c].st \in {"scan", "exec", "run"})
    BY <1>3, <2>2, <2>3, ChildMoves
  <2>5. CASE p = 1
    <3>1. Waited(1)
      BY <1>6, <2>3, <2>5 DEF Redirect, MakePipe, ExecPipe, ExecLast, Write, Read, Exit
    <3> QED
      BY <1>2, <1>4, <1>8, <3>1, WaitedFirst
  <2>6. CASE p = c /\ procs[c].st = "exec"
    <3>1. ExecPipe(c)
      BY <1>6, <2>6 DEF Redirect, MakePipe, Waited, ExecLast, Write, Read, Exit
    <3> QED
      BY <1>2, <1>4, <1>8, <2>2, <2>3, <2>4, <3>1, ExecutePart
  <2>7. CASE p = c /\ procs[c].st = "scan"
    <3>1. NextOp(procs[c]) = 0
      BY <2>1, <2>2, <2>7 DEF Waits, Executes
    <3>2. ExecLast(c)
      BY <1>6, <2>7, <3>1 DEF Redirect, MakePipe, ExecPipe, Waited, Write, Read, Exit
    <3> QED
      BY <1>2, <1>4, <1>8, <2>2, <2>3, <2>4, <3>2, ExecuteNothing
  <2>8. CASE p = c /\ procs[c].st = "run"
    <3>1. Write(c) \/ Read(c) \/ Exit(c)
      BY <1>6, <2>8 DEF Redirect, MakePipe, ExecPipe, Waited, ExecLast
    <3>2. /\ UNCHANGED <<line, log>> /\ Len(pipes') = Len(pipes)
          /\ procs'[c].st \in {"run", "done"}
          /\ \A x \in Procs \ {c} : procs'[x] = procs[x]
      BY <2>4, <3>1, ProgramStep
    <3>3. log = Taken(line, b)
      BY <2>1, <2>2, <2>8 DEF Waits, Executes
    <3>4. Waits(procs[1], procs'[c], line, Len(pipes), log', d, b)
      BY <2>1, <3>2, <3>3 DEF Waits, Executes
    <3> QED
      BY <1>4, <2>2, <2>3, <2>4, <3>2, <3>4, ChildStep
  <2> QED
    BY <2>3, <2>4, <2>5, <2>6, <2>7, <2>8
<1>9. CASE Ran
  <2>1. procs[1].st \in {"run", "done"}
    BY <1>9 DEF Ran
  <2>2. p = 1 /\ procs[1].st = "run"
    BY <1>3, <2>1, FirstMoves
  <2>3. Write(1) \/ Read(1) \/ Exit(1)
    BY <1>6, <2>2 DEF Redirect, MakePipe, ExecPipe, Waited, ExecLast
  <2>4. UNCHANGED <<line, log>> /\ procs'[1].st \in {"run", "done"}
    BY <1>2, <2>3, ProgramStep
  <2> QED
    BY <1>4, <1>9, <2>4 DEF Ran
<1> QED
  BY <1>5, <1>7, <1>8, <1>9

LEMMA MeantNext == ASSUME MeantInv, ShellInv, [Next]_vars PROVE MeantInv'
<1>1. ASSUME NEW l \in Lines, ReadLine(l) PROVE MeantInv'
  BY <1>1, MeantLine
<1>2. CASE Eof \/ Reap \/ Queue \/ UNCHANGED vars
           \/ ((\E d \in Dirs : Rmdir(d) \/ Mkdir(d)) /\ UNCHANGED procvars)
  BY <1>2, MeantShell
<1>3. ASSUME NEW p \in 1 .. MaxProcs, Process(p) PROVE MeantInv'
  BY <1>3, MeantProcess DEF Procs
<1> QED
  BY <1>1, <1>2, <1>3 DEF Next

\* What was executed is where the invariant says.
LEMMA MeantSoFar == ASSUME MeantInv PROVE RunAsMeant
<1> SUFFICES ASSUME Regular
             PROVE  /\ Len(log) <= Len(Pipeline(line))
                    /\ log = SubSeq(Pipeline(line), 1, Len(log))
                    /\ pc = "prompt" => log = Pipeline(line)
  BY DEF RunAsMeant, AsMeant, Regular
<1>1. Ordinary(line) /\ Len(line) \in Nat
  BY RegularOrdinary, LineFacts
<1>2. \E d \in 0 .. Len(line) : log = Taken(line, d)
  <2>1. Taken(line, 0) = <<>> /\ Taken(line, Len(line)) = Pipeline(line)
    BY <1>1, TakenEnds
  <2>2. 0 \in 0 .. Len(line) /\ Len(line) \in 0 .. Len(line)
    BY <1>1
  <2>3. CASE log = <<>> \/ log = Pipeline(line)
    BY <2>1, <2>2, <2>3
  <2>4. CASE Reading
    <3>1. PICK d, e : Scans(procs[1], line, Len(pipes), log, d, e)
      BY <2>4 DEF Reading
    <3>2. d \in 0 .. Len(line) - 1 /\ log = Taken(line, d)
      BY <1>1, <3>1, LeftFacts DEF Scans
    <3>3. d \in 0 .. Len(line)
      BY <1>1, <3>2
    <3> QED
      BY <3>2, <3>3
  <2>5. CASE Piping
    <3>1. PICK d, b : Waits(procs[1], procs[procs[1].child], line, Len(pipes), log, d, b)
      BY <2>5 DEF Piping
    <3>2. /\ d \in Ends(line) /\ b \in Bars(line)
          /\ log = Taken(line, d) \/ log = Taken(line, b)
      BY <3>1 DEF Waits, Executes
    <3>3. d \in 0 .. Len(line) - 1 /\ b \in 1 .. Len(line)
      BY <1>1, <3>2, LineFacts
    <3>4. d \in 0 .. Len(line) /\ b \in 0 .. Len(line)
      BY <1>1, <3>3
    <3> QED
      BY <3>2, <3>4
  <2> QED
    BY <2>3, <2>4, <2>5 DEF MeantInv, Ran
<1>3. Len(log) <= Len(Pipeline(line)) /\ log = SubSeq(Pipeline(line), 1, Len(log))
  BY <1>1, <1>2, TakenType
<1>4. pc = "prompt" => log = Pipeline(line)
  BY DEF MeantInv
<1> QED
  BY <1>3, <1>4

\* A plain line executes each of its programs once, from left to right, with
\* its own words, and with its input and output where the pipes lead; when
\* the prompt is back, all of them.
THEOREM LineRunsAsMeant == Spec => []RunAsMeant
<1>1. Init => MeantInv
  BY DEF Init, MeantInv, Regular, Commanded
<1>2. MeantInv /\ ShellInv /\ [Next]_vars => MeantInv'
  BY MeantNext
<1>3. MeantInv => RunAsMeant
  BY MeantSoFar
<1> QED
  BY <1>1, <1>2, <1>3, ShellInvariant, PTL DEF Spec
=============================================================================
