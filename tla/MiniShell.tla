----------------------------- MODULE MiniShell -----------------------------
(***************************************************************************)
(* The command loop of myShell.cpp and the processes it makes.  A line is  *)
(* a sequence of words.  Directory commands run in the shell; for any      *)
(* other the shell forks a child, which walks over the words, redirects    *)
(* its own descriptors, and at each "|" makes a pipe and forks a process   *)
(* for the words in front of it, WAITS for that process, and goes on with  *)
(* the words behind; what is left at the end it executes itself.           *)
(*                                                                         *)
(* A program that was executed is external: it writes some units of output *)
(* and ends.  Escapes, quotes and empty words are not modelled.            *)
(***************************************************************************)
EXTENDS DirStack, FiniteSets

CONSTANTS Lines,      \* what the user may type
          Programs,   \* the names execvp finds
          InFiles,    \* the files "<" can open
          OutFiles,   \* the files ">" and "2>" can open
          MaxProcs,   \* bound: processes of one line
          Capacity,   \* what a pipe holds
          MaxOut      \* bound: what one program writes

VARIABLES line,   \* the words read last
          procs,  \* the processes of that line
          pipes,  \* what each of its pipes holds
          log     \* the programs executed, with words and descriptors

procvars == <<line, procs, pipes, log>>
vars == <<dirvars, procvars>>

Redirection == {"<", ">", "2>"}
Operators == Redirection \cup {"|"}

\* A descriptor leads to the terminal, a file or a pipe.
Tty == <<"tty">>
File(f) == <<"file", f>>
Pipe(n) == <<"pipe", n>>

\* The elements of s at the places K, in their order.
Rank(K, k) == Cardinality({k2 \in K : k2 <= k})
Selected(s, K) == [n \in 1..Cardinality(K) |-> s[CHOOSE k \in K : Rank(K, k) = n]]

\* The words that are neither a redirection operator nor the word after one.
Kept(l) == {k \in 1..Len(l) : l[k] \notin Redirection /\ (k = 1 \/ l[k - 1] \notin Redirection)}
Words(l) == Selected(l, Kept(l))

\* Behind an operator there is a word that is none: the code reads it without
\* looking whether it is there.
ASSUME ShellAssumption ==
  /\ MaxProcs \in Nat \ {0} /\ Capacity \in Nat /\ MaxOut \in Nat
  /\ Lines \subseteq Seq(STRING)
  /\ \A l \in Lines : \A k \in 1..Len(l) :
       l[k] \in Operators => k < Len(l) /\ l[k + 1] \notin Operators

Free == [st |-> "free"]

\* The child of the shell: args are all the words, cmd those that parseLine
\* was given.
Child(l) ==
  [st |-> "scan", args |-> l, j |-> 1, cmd |-> Words(l),
   in |-> Tty, out |-> Tty, err |-> Tty, pipe |-> 0, child |-> 0, left |-> 0]

Init ==
  /\ DirInit
  /\ line = <<>> /\ pipes = <<>> /\ log = <<>>
  /\ procs = [p \in 1..MaxProcs |-> Free]

-----------------------------------------------------------------------------
(* The shell.                                                              *)

DirCommand(cmd) ==
  \/ cmd = <<>> /\ UNCHANGED dirvars
  \/ cmd # <<>> /\
     \/ cmd[1] = "exit" /\ cleandirstack
     \/ cmd[1] = "cd" /\ CASE Len(cmd) = 1 -> chdir(Home)
                           [] Len(cmd) = 2 -> chdir(cmd[2])
                           [] OTHER -> UNCHANGED dirvars
     \/ cmd[1] = "pushd" /\ IF Len(cmd) = 2 THEN pushdir(cmd[2]) ELSE UNCHANGED dirvars
     \/ cmd[1] = "popd" /\ popdir
     \/ cmd[1] = "dirstack" /\ Printdirstack

DirCommands == {"exit", "cd", "pushd", "popd", "dirstack"}

\* A line is read; fork may fail, and then the shell returns.
ReadLine(l) ==
  /\ pc = "prompt"
  /\ line' = l /\ pipes' = <<>> /\ log' = <<>>
  /\ LET cmd == Words(l) IN
     IF cmd = <<>> \/ cmd[1] \in DirCommands
     THEN DirCommand(cmd) /\ procs' = [p \in 1..MaxProcs |-> Free]
     ELSE /\ UNCHANGED <<cwd, lost, dirStack, turned, exists>>
          /\ \/ /\ pc' = "wait"
                /\ procs' = [p \in 1..MaxProcs |-> IF p = 1 THEN Child(l) ELSE Free]
             \/ /\ pc' = "exited"
                /\ procs' = [p \in 1..MaxProcs |-> Free]

Eof ==
  /\ pc = "prompt" /\ pc' = "exited"
  /\ UNCHANGED <<cwd, lost, dirStack, turned, exists, procvars>>

\* waitpid for the child.
Reap ==
  /\ pc = "wait" /\ procs[1].st = "done"
  /\ pc' = "prompt"
  /\ UNCHANGED <<cwd, lost, dirStack, turned, exists, procvars>>

-----------------------------------------------------------------------------
(* The child, and every process that falls through to its code.            *)

\* The next operator the loop meets, from word j on; 0 if there is none.
NextOp(pr) ==
  LET ops == {k \in pr.j..Len(pr.args) : pr.args[k] \in Operators}
  IN IF ops = {} THEN 0 ELSE CHOOSE k \in ops : \A k2 \in ops : k <= k2

Opens(op, f) == f \in IF op = "<" THEN InFiles ELSE OutFiles

\* redirect, and the two words go.  If open fails, dup2 fails too and the
\* descriptor stays where it was; neither is looked at.  The loop then sets j to 0 and adds one:
\* the new first word is not looked at.
Redirect(p) ==
  LET pr == procs[p]
      k  == NextOp(pr)
      f  == File(pr.args[k + 1])
      op == pr.args[k]
      ok == Opens(op, pr.args[k + 1])
  IN /\ pr.st = "scan" /\ k # 0 /\ op \in Redirection
     /\ procs' = [procs EXCEPT ![p] =
          [pr EXCEPT !.in  = IF op = "<" /\ ok THEN f ELSE @,
                     !.out = IF op = ">" /\ ok THEN f ELSE @,
                     !.err = IF op = "2>" /\ ok THEN f ELSE @,
                     !.args = SubSeq(@, 1, k - 1) \o SubSeq(@, k + 2, Len(@)),
                     !.j = 2]]
     /\ UNCHANGED <<line, pipes, log>>

\* pipe and fork: the new process is to execute the words in front, with the
\* pipe as output; this one waits for it.
MakePipe(p) ==
  LET pr == procs[p]
      k  == NextOp(pr)
  IN /\ pr.st = "scan" /\ k # 0 /\ pr.args[k] = "|"
     /\ pipes' = Append(pipes, 0)
     /\ \E q \in 1..MaxProcs :
          /\ procs[q] = Free /\ \A q2 \in 1..(q - 1) : procs[q2] # Free
          /\ procs' = [procs EXCEPT
               ![p] = [pr EXCEPT !.st = "wait", !.j = k, !.pipe = Len(pipes'), !.child = q],
               ![q] = [pr EXCEPT !.st = "exec", !.j = k, !.out = Pipe(Len(pipes')),
                         !.pipe = 0, !.child = 0]]
     /\ UNCHANGED <<line, log>>

\* The process is now the program words[1], which will write n units.
Becomes(p, words, n) ==
  LET pr == procs[p] IN
  /\ procs' = [procs EXCEPT ![p] = [pr EXCEPT !.st = "run", !.left = n]]
  /\ log' = Append(log, [words |-> words, in |-> pr.in, out |-> pr.out, err |-> pr.err])
  /\ UNCHANGED <<line, pipes>>

\* execvp in the process behind a pipe.  If it fails there is no exit: the
\* process goes on with the loop, as if it were the child.
ExecPipe(p) ==
  LET pr == procs[p]
      words == SubSeq(pr.args, 1, pr.j - 1)
  IN /\ pr.st = "exec"
     /\ IF words # <<>> /\ words[1] \in Programs THEN \E n \in 0..MaxOut : Becomes(p, words, n)
        ELSE /\ procs' = [procs EXCEPT ![p] = [pr EXCEPT !.st = "scan", !.j = @ + 1]]
             /\ UNCHANGED <<line, pipes, log>>

\* Mutant: the child goes on without waiting.
Waited_Not(p) ==
  LET pr == procs[p]
      rest == SubSeq(pr.args, pr.j + 1, Len(pr.args))
  IN /\ pr.st = "wait"
     /\ procs' = [procs EXCEPT ![p] =
          [pr EXCEPT !.st = "scan", !.args = rest, !.cmd = rest, !.in = Pipe(pr.pipe), !.j = 2]]
     /\ UNCHANGED <<line, pipes, log>>

\* Mutant: the words that are left are not copied to cmd.
Waited_OldCmd(p) ==
  LET pr == procs[p]
      rest == SubSeq(pr.args, pr.j + 1, Len(pr.args))
  IN /\ pr.st = "wait" /\ procs[pr.child].st = "done"
     /\ procs' = [procs EXCEPT ![p] =
          [pr EXCEPT !.st = "scan", !.args = rest, !.in = Pipe(pr.pipe), !.j = 2]]
     /\ UNCHANGED <<line, pipes, log>>

\* waitpid returns: what is left are the words behind the pipe, all of them
\* for cmd too, and the pipe is the input.
Waited(p) ==
  LET pr == procs[p]
      rest == SubSeq(pr.args, pr.j + 1, Len(pr.args))
  IN /\ pr.st = "wait" /\ procs[pr.child].st = "done"
     /\ procs' = [procs EXCEPT ![p] =
          [pr EXCEPT !.st = "scan", !.args = rest, !.cmd = rest, !.in = Pipe(pr.pipe), !.j = 2]]
     /\ UNCHANGED <<line, pipes, log>>

\* Mutant: after a failed execvp the child returns to the loop of the shell.
ExecLast_Stay(p) ==
  LET pr == procs[p] IN
  /\ pr.st = "scan" /\ NextOp(pr) = 0
  /\ IF pr.cmd[1] \in Programs THEN \E n \in 0..MaxOut : Becomes(p, pr.cmd, n)
     ELSE /\ procs' = [procs EXCEPT ![p].st = "prompt"]
          /\ UNCHANGED <<line, pipes, log>>

\* No operator is left: the process executes cmd, or exits with 1.
ExecLast(p) ==
  LET pr == procs[p] IN
  /\ pr.st = "scan" /\ NextOp(pr) = 0
  /\ IF pr.cmd[1] \in Programs THEN \E n \in 0..MaxOut : Becomes(p, pr.cmd, n)
     ELSE /\ procs' = [procs EXCEPT ![p].st = "done"]
          /\ UNCHANGED <<line, pipes, log>>

Full(pr) == pr.out[1] = "pipe" /\ pipes[pr.out[2]] = Capacity

\* A program writes; into a full pipe it cannot.
Write(p) ==
  LET pr == procs[p] IN
  /\ pr.st = "run" /\ pr.left > 0 /\ ~Full(pr)
  /\ procs' = [procs EXCEPT ![p].left = @ - 1]
  /\ pipes' = IF pr.out[1] = "pipe" THEN [pipes EXCEPT ![pr.out[2]] = @ + 1] ELSE pipes
  /\ UNCHANGED <<line, log>>

\* A program reads its input, if that is a pipe.
Read(p) ==
  LET pr == procs[p] IN
  /\ pr.st = "run" /\ pr.in[1] = "pipe" /\ pipes[pr.in[2]] > 0
  /\ pipes' = [pipes EXCEPT ![pr.in[2]] = @ - 1]
  /\ UNCHANGED <<line, procs, log>>

\* A program ends.
Exit(p) ==
  /\ procs[p].st = "run" /\ procs[p].left = 0
  /\ procs' = [procs EXCEPT ![p].st = "done"]
  /\ UNCHANGED <<line, pipes, log>>

Process(p) ==
  /\ \/ Redirect(p) \/ MakePipe(p) \/ ExecPipe(p) \/ Waited(p) \/ ExecLast(p)
     \/ Write(p) \/ Read(p) \/ Exit(p)
  /\ UNCHANGED dirvars

-----------------------------------------------------------------------------
Queue == (Turn \/ Popped \/ Shown) /\ UNCHANGED procvars

Next ==
  \/ \E l \in Lines : ReadLine(l)
  \/ Eof \/ Reap
  \/ Queue
  \/ (\E d \in Dirs : Rmdir(d) \/ Mkdir(d)) /\ UNCHANGED procvars
  \/ \E p \in 1..MaxProcs : Process(p)

\* The system runs every process that can run, the shell among them.
Spec ==
  /\ Init /\ [][Next]_vars
  /\ WF_vars(Reap) /\ WF_vars(Queue)
  /\ \A p \in 1..MaxProcs : WF_vars(Process(p))

-----------------------------------------------------------------------------
Descriptor == {Tty} \cup ({"file"} \X STRING) \cup ({"pipe"} \X (1..Len(pipes)))

ProcessType(p) ==
  [st : {"scan", "exec", "wait", "run", "done"},
   args : Seq(STRING), j : Nat \ {0}, cmd : Seq(STRING) \ {<<>>},
   in : Descriptor, out : Descriptor, err : Descriptor,
   pipe : 0..Len(pipes), child : {0} \cup (p + 1)..MaxProcs, left : 0..MaxOut]

TypeOK ==
  /\ DirTypeOK
  /\ DOMAIN procs = 1..MaxProcs
  /\ \A p \in 1..MaxProcs : procs[p] \in ProcessType(p) \cup {Free}
  /\ pipes \in Seq(0..Capacity)

\* README: the directory commands are those of a stack.  The queue that is
\* turned to reach its last entry, or to print all, comes out in the order it
\* had, and popd returns to the directory that was pushed last.
ImplementsStack == Abstract!Spec

Bars(l) == {k \in 1..Len(l) : l[k] = "|"}

\* The file behind the last of the operators op at the places K that can be
\* opened.
Latest(K) == CHOOSE k \in K : \A k2 \in K : k >= k2
Leads(l, K, op, default) ==
  LET at == {k \in K : l[k] = op /\ Opens(op, l[k + 1])} IN IF at = {} THEN default ELSE File(l[Latest(at) + 1])

\* The part of a line, between its pipes, that begins at word k, as it is
\* meant: its words, and where its input, output and errors go.
Part(l, k) ==
  LET part   == {k2 \in k..Len(l) : Bars(l) \cap k..k2 = {}}
      before == Cardinality({b \in Bars(l) : b < k})
      last   == \A b \in Bars(l) : b < k
  IN [words |-> Selected(l, part \cap Kept(l)),
      in  |-> Leads(l, part, "<", IF before = 0 THEN Tty ELSE Pipe(before)),
      out |-> Leads(l, part, ">", IF last THEN Tty ELSE Pipe(before + 1)),
      err |-> Leads(l, part, "2>", Tty)]

\* The parts whose program is found.
Found(l) == {k \in 1..Len(l) : (k = 1 \/ k - 1 \in Bars(l)) /\ l[k] \in Programs}
Pipeline(l) == Selected([k \in 1..Len(l) |-> Part(l, k)], Found(l))

\* The lines that are run as they are meant: if there is a pipe, the only
\* redirections are of the input of the first part; no line begins with an
\* operator; and a program that is not found has at most one pipe behind it.
Plain(l) ==
  LET ops == {k \in 1..Len(l) : l[k] \in Redirection}
  IN /\ l[1] \notin Operators
     /\ \A k \in ops : Bars(l) = {} \/ (l[k] = "<" /\ \A b \in Bars(l) : k < b)
     /\ \A k \in 1..Len(l) :
          (l[k] \notin Programs /\ (k = 1 \/ k - 1 \in Bars(l)))
            => Cardinality({b \in Bars(l) : b > k}) <= 1

\* What has been executed of a line is what it says: each of its programs
\* once, from left to right, with its own words, its input from the program
\* before it and its output to the one behind it; a program that is not found
\* is left out, and none is executed by a process that was to be another.
AsMeant(l) ==
  LET meant == Pipeline(l)
  IN /\ Len(log) <= Len(meant) /\ log = SubSeq(meant, 1, Len(log))
     /\ pc = "prompt" => log = meant

Commanded == line # <<>> /\ line[1] \notin Operators /\ Words(line)[1] \notin DirCommands

\* A plain line is executed as it is meant.  A file that cannot be opened
\* leaves its descriptor where it was, and the program runs all the same.
RunAsMeant == (Commanded /\ Plain(line)) => AsMeant(line)

\* When the shell is at its prompt nothing of the last line is left running,
\* not even a process whose execvp failed and that went on with the line.
NoneLeft ==
  pc # "wait" => \A p \in 1..MaxProcs : procs[p].st \in {"free", "done"}

\* A program has filled its pipe, which is read only when it has ended.
Overfull == \E p \in 1..MaxProcs : procs[p].st = "run" /\ procs[p].left > 0 /\ Full(procs[p])

\* The prompt comes back after every line, as long as no program writes more
\* than its pipe holds.
PromptReturns ==
  (pc \notin {"prompt", "exited"}) ~> (pc = "prompt" \/ Overfull)
=============================================================================
