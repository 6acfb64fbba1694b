------------------------------ MODULE MCChord ------------------------------
EXTENDS Chord

Nodes2 == {1, 5}
Near2  == {1, 3}
Nodes3 == {1, 4, 6}
Near3  == {1, 2, 5}
Nodes4 == {1, 3, 5, 7}
=============================================================================
