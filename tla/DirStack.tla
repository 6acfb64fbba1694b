------------------------------ MODULE DirStack ------------------------------
(***************************************************************************)
(* The directory commands of the shell.  The stack is kept in a            *)
(* queue<char*>: to reach the entry pushed last, popdir turns the queue,   *)
(* front to back, size - 1 times; Printdirstack turns it all the way.      *)
(***************************************************************************)
EXTENDS Integers, Sequences

CONSTANTS Dirs,      \* directories, by their full names
          Names,     \* what a buffer may hold: these names, and names of nothing
          Home,      \* $HOME
          MaxDepth   \* bound: pushd is not given with so many entries

ASSUME DirAssumption == Dirs \subseteq Names

VARIABLES pc,        \* where the shell is
          cwd,       \* its current directory
          lost,      \* that directory was removed under it
          dirStack,  \* the queue
          turned,    \* how often it was turned in this command
          exists     \* the directories there are

dirvars == <<pc, cwd, lost, dirStack, turned, exists>>

DirInit ==
  /\ pc = "prompt"
  /\ cwd \in Dirs /\ lost = FALSE
  /\ dirStack = <<>> /\ turned = 0
  /\ exists = Dirs

\* The shell goes to a directory, unless it is not there.
Goes(d) ==
  /\ cwd' = IF d \in exists THEN d ELSE cwd
  /\ lost' = (lost /\ d \notin exists)

chdir(d) ==
  /\ Goes(d)
  /\ UNCHANGED <<pc, dirStack, turned, exists>>

\* In a directory that was removed getcwd fails, which is not looked at: what
\* is pushed is whatever the buffer holds.
pushdir(d) ==
  /\ Len(dirStack) < MaxDepth
  /\ Goes(d)
  /\ \E was \in IF lost THEN Names ELSE {cwd} :
       dirStack' = IF d \in exists THEN Append(dirStack, was) ELSE dirStack
  /\ UNCHANGED <<pc, turned, exists>>

popdir ==
  /\ pc' = IF dirStack = <<>> THEN "prompt" ELSE "pop"
  /\ UNCHANGED <<cwd, lost, dirStack, turned, exists>>

Printdirstack ==
  /\ pc' = "show"
  /\ UNCHANGED <<cwd, lost, dirStack, turned, exists>>

\* exit frees the entries.
cleandirstack ==
  /\ pc' = "exited"
  /\ dirStack' = <<>>
  /\ UNCHANGED <<cwd, lost, turned, exists>>

\* Mutant: popdir turns the queue once too often.
Turns_Size == Len(dirStack)

\* How often the loop of the command turns the queue.
Turns == IF pc = "pop" THEN Len(dirStack) - 1 ELSE Len(dirStack)

Turn ==
  /\ pc \in {"pop", "show"} /\ turned < Turns
  /\ dirStack' = Append(Tail(dirStack), Head(dirStack))
  /\ turned' = turned + 1
  /\ UNCHANGED <<pc, cwd, lost, exists>>

\* Mutant: the counter of the loop is not reset.
Popped_KeepTurned ==
  /\ pc = "pop" /\ turned = Turns
  /\ Goes(Head(dirStack))
  /\ dirStack' = Tail(dirStack)
  /\ pc' = "prompt"
  /\ UNCHANGED <<exists, turned>>

\* popdir takes the front, whether or not chdir succeeds.
Popped ==
  /\ pc = "pop" /\ turned = Turns
  /\ Goes(Head(dirStack))
  /\ dirStack' = Tail(dirStack)
  /\ turned' = 0 /\ pc' = "prompt"
  /\ UNCHANGED exists

Shown ==
  /\ pc = "show" /\ turned = Turns
  /\ turned' = 0 /\ pc' = "prompt"
  /\ UNCHANGED <<cwd, lost, dirStack, exists>>

\* Someone else removes a directory, the shell's own included, or makes it.
\* A shell in a removed directory is not in the new one of that name.
Rmdir(d) ==
  /\ d \in exists
  /\ exists' = exists \ {d}
  /\ lost' = (lost \/ d = cwd)
  /\ UNCHANGED <<pc, cwd, dirStack, turned>>

Mkdir(d) ==
  /\ d \notin exists
  /\ exists' = exists \cup {d}
  /\ UNCHANGED <<pc, cwd, lost, dirStack, turned>>

-----------------------------------------------------------------------------
\* The queue as it was before it was turned t times.
Unturned(q, t) ==
  [k \in 1..Len(q) |-> IF k <= t THEN q[Len(q) - t + k] ELSE q[k - t]]

Abstract == INSTANCE Directories WITH stack <- Unturned(dirStack, turned)

DirTypeOK ==
  /\ pc \in {"prompt", "pop", "show", "wait", "exited"}
  /\ cwd \in Dirs /\ lost \in BOOLEAN
  /\ dirStack \in Seq(Names)
  /\ turned \in 0..Len(dirStack)
  /\ turned > 0 => pc \in {"pop", "show"}
  /\ pc = "pop" => dirStack # <<>> /\ turned < Len(dirStack)
  /\ exists \subseteq Dirs
  /\ ~lost => cwd \in exists
=============================================================================
