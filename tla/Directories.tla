---------------------------- MODULE Directories ----------------------------
(***************************************************************************)
(* What the shell's directory commands promise: a current directory and a  *)
(* stack of those that pushd left, the last on top, while directories come *)
(* and go.  Only what pushd leaves on the stack in a directory that was    *)
(* removed is not promised.                                                *)
(***************************************************************************)
EXTENDS Sequences, Integers

CONSTANTS Dirs, Names

VARIABLES cwd, lost, exists, stack

Init == cwd \in Dirs /\ lost = FALSE /\ exists = Dirs /\ stack = <<>>

Go(d) == cwd' = d /\ lost' = FALSE

Cd ==
  /\ \E d \in exists : Go(d)
  /\ UNCHANGED <<exists, stack>>

Push ==
  /\ \E d \in exists : Go(d)
  /\ \E was \in IF lost THEN Names ELSE {cwd} : stack' = Append(stack, was)
  /\ UNCHANGED exists

\* The top goes; it becomes the current directory unless it is gone.
Pop ==
  /\ stack # <<>>
  /\ LET top == stack[Len(stack)]
     IN IF top \in exists THEN Go(top) ELSE UNCHANGED <<cwd, lost>>
  /\ stack' = SubSeq(stack, 1, Len(stack) - 1)
  /\ UNCHANGED exists

Clean == stack' = <<>> /\ UNCHANGED <<cwd, lost, exists>>

Remove ==
  /\ \E d \in exists : exists' = exists \ {d} /\ lost' = (lost \/ d = cwd)
  /\ UNCHANGED <<cwd, stack>>

Make ==
  /\ \E d \in Dirs \ exists : exists' = exists \cup {d}
  /\ UNCHANGED <<cwd, lost, stack>>

Next == Cd \/ Push \/ Pop \/ Clean \/ Remove \/ Make

Spec == Init /\ [][Next]_<<cwd, lost, exists, stack>>
=============================================================================
