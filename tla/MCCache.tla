------------------------------ MODULE MCCache ------------------------------
EXTENDS Cache, TLC

CONSTANTS k1, k2, k3, s1, s2, small, middle, large

Keys == {k1, k2, k3}
Sessions == {s1, s2}
Values == {small, middle, large}

\* With a limit of 3: two pairs fit or one, and a large one never does.
Sizes == (small :> 1) @@ (middle :> 2) @@ (large :> 4)

\* One more than there can be elements.
Addresses == 0 .. 3
=============================================================================
