---------------------------- MODULE ErasureCode ----------------------------
(***************************************************************************)
(* A message of k symbols is sent as n values of the polynomial with those *)
(* coefficients (dfs_encoder), some of the n are lost on the way, and the  *)
(* decoder solves the k equations of the first k that arrive, by Gaussian  *)
(* elimination.  One decoding is one call of decoder; its loops over the   *)
(* columns are the steps.                                                  *)
(***************************************************************************)
EXTENDS GaloisField

CONSTANTS Messages,    \* the messages: sequences of symbols
          CodeLen,     \* n, the length of a codeword
          Missing      \* what the driver writes over a lost symbol

ASSUME CodeAssumption ==
  /\ CodeLen \in 1..255
  /\ \A msg \in Messages : msg \in Seq(Symbol) /\ Len(msg) \in 1..CodeLen
  /\ Missing \in Nat /\ Missing > 256

VARIABLES
  m,      \* the message
  c,      \* the codeword, as sent and then as received
  phase,  \* "sent", or where the decoder is
  M,      \* the matrix of gaussElimination, with the right sides as last column
  i,      \* its column
  x       \* its result

vars == <<m, c, phase, M, i, x>>

\* Mutant: the bases start at 0, and stay there.
Base_Zero(r) ==
  LET b[s \in 1..r] == IF s = 1 THEN 0 ELSE multiply28(b[s - 1], 3) IN b[r]

-----------------------------------------------------------------------------
\* The first k powers of b.
Powers(b, k) ==
  LET v[j \in 1..k] == IF j = 1 THEN 1 ELSE multiply28(v[j - 1], b) IN v

\* base at row r: the powers of 3.
Base(r) == Powers(3, r)[r]

Row(r, k) == Powers(Base(r), k)

\* The sums of the products of two rows, and the last of them.
Sums(v, w) ==
  LET s[j \in 0..Len(v)] ==
        IF j = 0 THEN 0 ELSE add28(s[j - 1], multiply28(v[j], w[j]))
  IN s

Dot(v, w) == Sums(v, w)[Len(v)]

dfs_encoder(n, msg) == [r \in 1..n |-> Dot(Row(r, Len(msg)), msg)]

\* Mutant: rows are numbered without counting the missing ones.
newMatrix_Count(k, code) ==
  LET rows[r \in 0..Len(code)] ==
        IF r = 0 THEN <<>>
        ELSE LET found == rows[r - 1] IN
             IF Len(found) < k /\ code[r] <= 256
             THEN Append(found, Append(Row(Len(found) + 1, k), code[r]))
             ELSE found
  IN rows[Len(code)]

\* The first k rows whose symbol is not missing, each with its symbol.
newMatrix(k, code) ==
  LET rows[r \in 0..Len(code)] ==
        IF r = 0 THEN <<>>
        ELSE LET found == rows[r - 1] IN
             IF Len(found) < k /\ code[r] <= 256
             THEN Append(found, Append(Row(r, k), code[r]))
             ELSE found
  IN rows[Len(code)]

Init ==
  /\ m \in Messages
  /\ c = dfs_encoder(CodeLen, m)
  /\ phase = "sent" /\ M = <<>> /\ i = 0 /\ x = <<>>

\* The channel: a symbol is lost.  In main.cpp the driver writes 290, 300, 330
\* or 367 over symbols of a codeword.
Lose(r) ==
  /\ phase = "sent" /\ c[r] # Missing
  /\ c' = [c EXCEPT ![r] = Missing]
  /\ UNCHANGED <<m, phase, M, i, x>>

\* decoder builds the equations.
Build ==
  /\ phase = "sent"
  /\ M' = newMatrix(Len(m), c)
  /\ phase' = "pivot" /\ i' = 1
  /\ x' = [r \in DOMAIN M' |-> 0]
  /\ UNCHANGED <<m, c>>

\* The first row with the greatest entry of column i, from row i on.
MaxRow ==
  CHOOSE r \in i..Len(M) :
    /\ \A s \in i..Len(M) : M[s][i] <= M[r][i]
    /\ \A s \in i..(r - 1) : M[s][i] < M[r][i]

\* It changes places with row i, in the columns from i to that of the right sides.
Pivot ==
  /\ phase = "pivot" /\ i <= Len(M)
  /\ M' = [r \in DOMAIN M |-> [j \in DOMAIN M[r] |->
             IF j < i \/ j > Len(M) + 1 THEN M[r][j]
             ELSE IF r = i THEN M[MaxRow][j]
             ELSE IF r = MaxRow THEN M[i][j] ELSE M[r][j]]]
  /\ phase' = "eliminate"
  /\ UNCHANGED <<m, c, i, x>>

\* Multiples of row i make column i zero below it.
Eliminate ==
  /\ phase = "eliminate"
  /\ M' = [r \in DOMAIN M |-> IF r <= i THEN M[r] ELSE
             LET f == multiply28(M[r][i], inv28(M[i][i])) IN
             [j \in DOMAIN M[r] |->
                IF j < i \/ j > Len(M) + 1 THEN M[r][j]
                ELSE IF j = i THEN 0
                ELSE sub28(M[r][j], multiply28(f, M[i][j]))]]
  /\ phase' = "pivot" /\ i' = i + 1
  /\ UNCHANGED <<m, c, x>>

\* The columns are done; the solution is found from the last row up.
Turn ==
  /\ phase = "pivot" /\ i > Len(M)
  /\ phase' = "solve" /\ i' = Len(M)
  /\ UNCHANGED <<m, c, M, x>>

\* x[i], which then leaves the right sides of the rows above.
Solve ==
  /\ phase = "solve" /\ i >= 1
  /\ LET y == multiply28(M[i][Len(M) + 1], inv28(M[i][i])) IN
       /\ x' = [x EXCEPT ![i] = y]
       /\ M' = [r \in DOMAIN M |->
                  IF r >= i THEN M[r]
                  ELSE [M[r] EXCEPT ![Len(M) + 1] = sub28(@, multiply28(y, M[r][i]))]]
  /\ i' = i - 1
  /\ UNCHANGED <<m, c, phase>>

\* Mutant: the result is not filled up.
Return_Short ==
  /\ phase = "solve" /\ i = 0
  /\ phase' = "done"
  /\ UNCHANGED <<m, c, M, i, x>>

\* decoder returns; with fewer than k equations it fills up with zeros.
Return ==
  /\ phase = "solve" /\ i = 0
  /\ x' = [j \in 1..Len(m) |-> IF j <= Len(M) THEN x[j] ELSE 0]
  /\ phase' = "done"
  /\ UNCHANGED <<m, c, M, i>>

Next ==
  \/ \E r \in 1..CodeLen : Lose(r)
  \/ Build \/ Pivot \/ Eliminate \/ Turn \/ Solve \/ Return

Spec == Init /\ [][Next]_vars

-----------------------------------------------------------------------------
TypeOK ==
  /\ m \in Messages
  /\ c \in [1..CodeLen -> Symbol \cup {Missing}]
  /\ phase \in {"sent", "pivot", "eliminate", "solve", "done"}
  /\ i \in 0..(Len(M) + 1)
  /\ phase # "sent" =>
       /\ Len(M) <= Len(m)
       /\ \A r \in DOMAIN M : M[r] \in [1..(Len(m) + 1) -> Symbol]
       /\ Len(x) = IF phase = "done" THEN Len(m) ELSE Len(M)
       /\ \A j \in DOMAIN x : x[j] \in Symbol

AllThere == \A r \in 1..CodeLen : c[r] # Missing

\* The three tables typed into galoisField.cpp are those of the field: with the
\* first symbol of the message and every other, the product read from the
\* tables is that of the polynomials, and the inverse is one.
FieldTables ==
  phase = "sent" /\ AllThere =>
    /\ \A y \in Symbol : multiply28(m[1], y) = Product(m[1], y)
    /\ m[1] # 0 => multiply28(m[1], inv28(m[1])) = 1

\* While the decoder eliminates, the message that was sent solves each of its
\* equations: swaps and subtractions act on whole equations, the right sides
\* among them, and no symbol meets the row of another.
SameSolution ==
  (phase \in {"pivot", "eliminate"} /\ Len(M) = Len(m)) =>
    \A r \in DOMAIN M : Dot(m, M[r]) = M[r][Len(m) + 1]

\* Whatever is lost, as long as k symbols arrive the decoder returns the
\* message: no pivot is zero, which inv28 would not report.
Decoded ==
  (phase = "done" /\ Len(M) = Len(m)) => x = m
=============================================================================
