------------------------- MODULE ErasureCodeProofs -------------------------
(***************************************************************************)
(* The decoder returns the message, for every message, every length of the *)
(* codeword up to 255 and every loss that leaves as many symbols as the    *)
(* message has.  In this order: the tables are those of a field; sums and  *)
(* recursions over its elements; a polynomial of k coefficients has fewer  *)
(* than k zeros, so the equations the decoder builds have one solution;    *)
(* the steps of the elimination keep that, and the solution.               *)
(***************************************************************************)
EXTENDS ErasureCode, SequenceTheorems, WellFoundedInduction, TLAPS

-----------------------------------------------------------------------------
(***************************************************************************)
(* Symbols, bit by bit.                                                    *)
(***************************************************************************)
Dif(a, b) == IF a = b THEN 0 ELSE 1
Bits == [1..8 -> {0, 1}]
Val(b) == b[1] + 2 * b[2] + 4 * b[3] + 8 * b[4] + 16 * b[5] + 32 * b[6] + 64 * b[7] + 128 * b[8]
Triple(y) == Xor(y, Double(y))

\* A bit is 0 or 1.
LEMMA BitsType == ASSUME NEW b \in Bits PROVE \A j \in 1..8 : b[j] \in {0, 1}
BY DEF Bits

\* The value of a bit vector is a symbol, and its bits are those of the vector.
LEMMA ValBits ==
    ASSUME NEW b \in Bits
    PROVE  /\ Val(b) \in Symbol
           /\ Bit(Val(b), 1) = b[1] /\ Bit(Val(b), 2) = b[2]
           /\ Bit(Val(b), 4) = b[3] /\ Bit(Val(b), 8) = b[4]
           /\ Bit(Val(b), 16) = b[5] /\ Bit(Val(b), 32) = b[6]
           /\ Bit(Val(b), 64) = b[7] /\ Bit(Val(b), 128) = b[8]
BY BitsType DEF Val, Bit, Symbol

\* Every symbol is the value of its bits.
LEMMA SymbolBits ==
    ASSUME NEW y \in Symbol
    PROVE  \E b \in Bits : y = Val(b)
<1> DEFINE b == [j \in 1..8 |-> Bit(y, 2^(j - 1))]
<1>1. /\ b \in Bits
      /\ b[1] = Bit(y, 1) /\ b[2] = Bit(y, 2) /\ b[3] = Bit(y, 4) /\ b[4] = Bit(y, 8)
      /\ b[5] = Bit(y, 16) /\ b[6] = Bit(y, 32) /\ b[7] = Bit(y, 64) /\ b[8] = Bit(y, 128)
  BY DEF Bits, Bit, Symbol
<1>2. Val(b) = y
  BY <1>1 DEF Val, Bit, Symbol
<1> QED
  BY <1>1, <1>2

\* Xor, bit by bit.
LEMMA XorBits ==
    ASSUME NEW a \in Bits, NEW b \in Bits
    PROVE  /\ [j \in 1..8 |-> Dif(a[j], b[j])] \in Bits
           /\ Xor(Val(a), Val(b)) = Val([j \in 1..8 |-> Dif(a[j], b[j])])
<1>1. [j \in 1..8 |-> Dif(a[j], b[j])] \in Bits
  BY DEF Bits, Dif
<1>2. Xor(Val(a), Val(b)) = Val([j \in 1..8 |-> Dif(a[j], b[j])])
  BY ValBits, BitsType DEF Xor, Val, Dif
<1> QED
  BY <1>1, <1>2

\* Double moves the bits up; the bit that leaves comes back as the rest of POLY.
Shift(b) == [j \in 1..8 |->
               IF j = 1 THEN b[8]
               ELSE IF j \in {2, 4, 5} THEN Dif(b[j - 1], b[8]) ELSE b[j - 1]]

LEMMA DoubleBits ==
    ASSUME NEW b \in Bits
    PROVE  Shift(b) \in Bits /\ Double(Val(b)) = Val(Shift(b))
<1> DEFINE s == Shift(b)
<1>1. /\ s \in Bits
      /\ s[1] = b[8] /\ s[2] = Dif(b[1], b[8]) /\ s[3] = b[2] /\ s[4] = Dif(b[3], b[8])
      /\ s[5] = Dif(b[4], b[8]) /\ s[6] = b[5] /\ s[7] = b[6] /\ s[8] = b[7]
  BY BitsType DEF Bits, Shift, Dif
<1>2. CASE b[8] = 0
  <2>1. Val(b) < 128 /\ 2 * Val(b) = Val(s)
    BY <1>1, <1>2, BitsType DEF Val, Dif
  <2> QED
    BY <1>1, <2>1 DEF Double
<1>3. CASE b[8] = 1
  <2>1. ~ (Val(b) < 128)
    BY <1>3, BitsType DEF Val
  <2>2. /\ Bit(2 * Val(b), 1) = 0    /\ Bit(2 * Val(b), 2) = b[1]
        /\ Bit(2 * Val(b), 4) = b[2] /\ Bit(2 * Val(b), 8) = b[3]
        /\ Bit(2 * Val(b), 16) = b[4] /\ Bit(2 * Val(b), 32) = b[5]
        /\ Bit(2 * Val(b), 64) = b[6] /\ Bit(2 * Val(b), 128) = b[7]
    BY BitsType DEF Val, Bit
  <2>3. /\ Bit(POLY, 1) = 1 /\ Bit(POLY, 2) = 1 /\ Bit(POLY, 4) = 0 /\ Bit(POLY, 8) = 1
        /\ Bit(POLY, 16) = 1 /\ Bit(POLY, 32) = 0 /\ Bit(POLY, 64) = 0 /\ Bit(POLY, 128) = 0
    BY DEF Bit, POLY
  <2>4. Xor(2 * Val(b), POLY) = Val(s)
    BY <1>1, <1>3, <2>2, <2>3, BitsType DEF Xor, Val, Dif
  <2> QED
    BY <1>1, <2>1, <2>4 DEF Double
<1> QED
  BY <1>1, <1>2, <1>3, BitsType

\* Three times a symbol, bit by bit.
LEMMA TripleBits ==
    ASSUME NEW b \in Bits
    PROVE  Triple(Val(b)) = Val([j \in 1..8 |-> Dif(b[j], Shift(b)[j])])
BY DoubleBits, XorBits DEF Triple

-----------------------------------------------------------------------------
(***************************************************************************)
(* The tables, entry by entry.                                             *)
(***************************************************************************)
Exp(n) == In(ExpTable, n)
Log(y) == In(LogTable, y)

\* No entry of the table of powers is 0.
LEMMA ExpEntries ==
    ASSUME NEW k \in 1..16, NEW j \in 1..16
    PROVE  ExpTable[k][j] \in 1..255
BY SMTT(100) DEF ExpTable

\* Every entry is three times the one before it.
LEMMA ExpTriples ==
    ASSUME NEW b \in Bits, NEW k \in 1..16, NEW j \in 1..16, Val(b) = ExpTable[k][j]
    PROVE  /\ j < 16 => Triple(Val(b)) = ExpTable[k][j + 1]
           /\ j = 16 /\ k < 16 => Triple(Val(b)) = ExpTable[k + 1][1]
<1>1. Triple(Val(b)) =
        Dif(b[1], b[8]) + 2 * Dif(b[2], Dif(b[1], b[8])) + 4 * Dif(b[3], b[2])
          + 8 * Dif(b[4], Dif(b[3], b[8])) + 16 * Dif(b[5], Dif(b[4], b[8]))
          + 32 * Dif(b[6], b[5]) + 64 * Dif(b[7], b[6]) + 128 * Dif(b[8], b[7])
  BY TripleBits DEF Shift, Val
<1>2. CASE j < 16
  BY <1>1, <1>2, BitsType, SMTT(100) DEF Val, Dif, ExpTable
<1>3. CASE j = 16 /\ k < 16
  BY <1>1, <1>3, BitsType, SMTT(100) DEF Val, Dif, ExpTable
<1> QED
  BY <1>2, <1>3

\* The table of logarithms inverts that of powers, entry by entry.
LEMMA LogOfExp ==
    ASSUME NEW k \in 1..16, NEW j \in 1..16, ~ (k = 16 /\ j = 16)
    PROVE  Log(ExpTable[k][j]) = 16 * (k - 1) + j - 1
BY SMTT(100) DEF ExpTable, LogTable, Log, In

\* And the other way round.
LEMMA ExpOfLog ==
    ASSUME NEW k \in 1..16, NEW j \in 1..16, ~ (k = 1 /\ j = 1)
    PROVE  /\ LogTable[k][j] \in 0..254
           /\ Exp(LogTable[k][j]) = 16 * (k - 1) + j - 1
BY SMTT(100) DEF ExpTable, LogTable, Exp, In

\* An entry of the table of inverses has the opposite logarithm.
LEMMA LogOfInv ==
    ASSUME NEW k \in 1..16, NEW j \in 1..16, ~ (k = 1 /\ j = 1)
    PROVE  /\ InvTable[k][j] \in 1..255
           /\ Log(InvTable[k][j]) = IF LogTable[k][j] = 0 THEN 0 ELSE 255 - LogTable[k][j]
BY SMTT(100) DEF InvTable, LogTable, Log, In

\* The row and the column at which In looks a symbol up.
LEMMA Places ==
    ASSUME NEW y \in Symbol
    PROVE  /\ (y \div 16) + 1 \in 1..16 /\ (y % 16) + 1 \in 1..16
           /\ y = 16 * ((y \div 16) + 1 - 1) + ((y % 16) + 1) - 1
           /\ y = 255 <=> (y \div 16) + 1 = 16 /\ (y % 16) + 1 = 16
           /\ y = 0 <=> (y \div 16) + 1 = 1 /\ (y % 16) + 1 = 1
BY DEF Symbol

\* What the arithmetic needs of the tables.  From here on the numbers are not
\* enumerated: Symbol stays folded, and a logarithm is a natural below 255.
LEMMA ExpFacts ==
    /\ Exp(0) = 1 /\ Exp(255) = 1
    /\ \A n \in Nat : n <= 255 => Exp(n) \in Symbol /\ Exp(n) # 0
    /\ \A n \in Nat : n < 255 => Log(Exp(n)) = n /\ Exp(n + 1) = Triple(Exp(n))
<1>1. Exp(0) = 1 /\ Exp(255) = 1
  BY DEF Exp, In, ExpTable
<1>2. ASSUME NEW n \in Nat, n <= 255
      PROVE  n \in Symbol /\ Exp(n) \in Symbol /\ Exp(n) # 0
  <2>1. n \in Symbol
    BY <1>2 DEF Symbol
  <2>2. Exp(n) \in 1..255
    BY <2>1, Places, ExpEntries DEF Exp, In
  <2>3. 1..255 \subseteq Symbol /\ ~ (0 \in 1..255)
    BY DEF Symbol
  <2> QED
    BY <2>1, <2>2, <2>3, Zenon
<1>3. ASSUME NEW n \in Nat, n < 255
      PROVE  Log(Exp(n)) = n /\ Exp(n + 1) = Triple(Exp(n))
  <2> DEFINE k == (n \div 16) + 1
             j == (n % 16) + 1
  <2>1. /\ k \in 1..16 /\ j \in 1..16 /\ ~ (k = 16 /\ j = 16)
        /\ n = 16 * (k - 1) + j - 1
    BY <1>3
  <2>2. Exp(n) = ExpTable[k][j] /\ Exp(n) \in Symbol
    <3>1. Exp(n) = ExpTable[k][j]
      BY DEF Exp, In
    <3>2. Exp(n) \in Symbol
      BY <1>2, <1>3
    <3> QED
      BY <3>1, <3>2
  <2>3. PICK b \in Bits : Exp(n) = Val(b)
    BY <2>2, SymbolBits
  <2>4. CASE j < 16
    <3>1. ((n + 1) \div 16) + 1 = k /\ ((n + 1) % 16) + 1 = j + 1
      BY <2>1, <2>4
    <3>2. Exp(n + 1) = ExpTable[k][j + 1]
      BY <3>1, Zenon DEF Exp, In
    <3> HIDE DEF k, j
    <3> QED
      BY <2>1, <2>2, <2>3, <2>4, <3>2, ExpTriples, LogOfExp
  <2>5. CASE j = 16
    <3>1. ((n + 1) \div 16) + 1 = k + 1 /\ ((n + 1) % 16) + 1 = 1 /\ k < 16
      BY <2>1, <2>5
    <3>2. Exp(n + 1) = ExpTable[k + 1][1]
      BY <3>1, Zenon DEF Exp, In
    <3> HIDE DEF k, j
    <3> QED
      BY <2>1, <2>2, <2>3, <2>5, <3>1, <3>2, ExpTriples, LogOfExp
  <2> QED
    BY <2>1, <2>4, <2>5
<1> QED
  BY <1>1, <1>2, <1>3

\* The same of logarithms and inverses; inv28 reads neither at 0.
LEMMA LogFacts ==
    ASSUME NEW y \in Symbol, y # 0
    PROVE  /\ Log(y) \in Nat /\ Log(y) < 255
           /\ Exp(Log(y)) = y
           /\ inv28(y) \in Symbol /\ inv28(y) # 0
           /\ Log(inv28(y)) = IF Log(y) = 0 THEN 0 ELSE 255 - Log(y)
<1> DEFINE k == (y \div 16) + 1
           j == (y % 16) + 1
<1>1. k \in 1..16 /\ j \in 1..16 /\ ~ (k = 1 /\ j = 1) /\ y = 16 * (k - 1) + j - 1
  BY DEF Symbol
<1>2. Log(y) = LogTable[k][j] /\ inv28(y) = InvTable[k][j]
  BY DEF Log, inv28, In
<1> HIDE DEF k, j
<1>3. LogTable[k][j] \in 0..254 /\ Exp(LogTable[k][j]) = y
  BY <1>1, ExpOfLog
<1>4. InvTable[k][j] \in 1..255
  BY <1>1, LogOfInv
<1>5. Log(InvTable[k][j]) = IF LogTable[k][j] = 0 THEN 0 ELSE 255 - LogTable[k][j]
  BY <1>1, LogOfInv
<1>6. LogTable[k][j] \in Nat /\ LogTable[k][j] < 255
  BY <1>3
<1>7. InvTable[k][j] \in Symbol /\ InvTable[k][j] # 0
  BY <1>4 DEF Symbol
<1> QED
  BY <1>2, <1>3, <1>5, <1>6, <1>7, Zenon

\* What inv28 returns at 0, where there is no inverse.
LEMMA InvOfZero == inv28(0) = 0
BY DEF inv28, In, InvTable

-----------------------------------------------------------------------------
(***************************************************************************)
(* The laws of the field.                                                  *)
(***************************************************************************)
a \oplus b == add28(a, b)
a \otimes b == multiply28(a, b)

\* add28: a commutative group in which every symbol is its own inverse.
LEMMA AddType == ASSUME NEW a \in Symbol, NEW b \in Symbol PROVE a \oplus b \in Symbol
<1>1. PICK p \in Bits, q \in Bits : a = Val(p) /\ b = Val(q)
  BY SymbolBits
<1>2. a \oplus b = Val([j \in 1..8 |-> Dif(p[j], q[j])])
  BY <1>1, XorBits DEF \oplus, add28
<1> QED
  BY <1>1, <1>2, XorBits, ValBits

LEMMA AddComm == ASSUME NEW a \in Symbol, NEW b \in Symbol PROVE a \oplus b = b \oplus a
BY DEF \oplus, add28, Xor, Bit, Symbol

LEMMA AddAssoc ==
    ASSUME NEW a \in Symbol, NEW b \in Symbol, NEW d \in Symbol
    PROVE  (a \oplus b) \oplus d = a \oplus (b \oplus d)
<1>1. PICK p \in Bits, q \in Bits, r \in Bits : a = Val(p) /\ b = Val(q) /\ d = Val(r)
  BY SymbolBits
<1> DEFINE pq == [j \in 1..8 |-> Dif(p[j], q[j])]
           qr == [j \in 1..8 |-> Dif(q[j], r[j])]
           pqr == [j \in 1..8 |-> Dif(pq[j], r[j])]
           qrp == [j \in 1..8 |-> Dif(p[j], qr[j])]
<1>2. pq \in Bits /\ Xor(a, b) = Val(pq) /\ qr \in Bits /\ Xor(b, d) = Val(qr)
  BY <1>1, XorBits, Zenon
<1> HIDE DEF pq, qr
<1>3. Xor(Xor(a, b), d) = Val(pqr) /\ Xor(a, Xor(b, d)) = Val(qrp)
  BY <1>1, <1>2, XorBits, Zenon
<1>4. pqr = qrp
  BY BitsType DEF pq, qr, Dif
<1> QED
  BY <1>3, <1>4 DEF \oplus, add28

LEMMA AddZero == ASSUME NEW a \in Symbol PROVE a \oplus 0 = a /\ 0 \oplus a = a /\ a \oplus a = 0
BY DEF \oplus, add28, Xor, Bit, Symbol

\* What is added to itself goes away.
LEMMA AddTwice ==
    ASSUME NEW a \in Symbol, NEW b \in Symbol
    PROVE  (a \oplus b) \oplus b = a /\ (a \oplus b = 0 => a = b)
<1>1. (a \oplus b) \oplus b = a \oplus (b \oplus b)
  BY AddAssoc
<1>2. (a \oplus b) \oplus b = a
  BY <1>1, AddZero
<1>3. 0 \oplus b = b
  BY AddZero
<1> QED
  BY <1>2, <1>3

\* The product has the sum of the logarithms.
LEMMA MulLog ==
    ASSUME NEW a \in Symbol, a # 0, NEW b \in Symbol, b # 0,
           NEW k \in Nat, Log(a) = k, NEW l \in Nat, Log(b) = l
    PROVE  /\ a \otimes b \in Symbol /\ a \otimes b # 0
           /\ Log(a \otimes b) = IF k + l < 255 THEN k + l ELSE k + l - 255
<1>1. k < 255 /\ l < 255
  BY LogFacts
<1>2. a \otimes b = Exp(Wrap(k + l))
  BY Zenon DEF \otimes, multiply28, Exp, Log
<1>3. Wrap(k + l) \in Nat /\ Wrap(k + l) <= 255
  BY <1>1 DEF Wrap
<1>4. Log(Exp(Wrap(k + l))) = IF k + l < 255 THEN k + l ELSE k + l - 255
  <2>1. CASE k + l < 255
    <3>1. Wrap(k + l) = k + l /\ k + l \in Nat
      BY <2>1 DEF Wrap
    <3> QED
      BY <2>1, <3>1, ExpFacts
  <2>2. CASE k + l = 255
    <3>1. Wrap(k + l) = 255
      BY <2>2 DEF Wrap
    <3>2. Exp(255) = Exp(0) /\ Log(Exp(0)) = 0
      BY ExpFacts
    <3> QED
      BY <2>2, <3>1, <3>2
  <2>3. CASE k + l > 255
    <3>1. Wrap(k + l) = k + l - 255 /\ k + l - 255 \in Nat /\ k + l - 255 < 255
      BY <1>1, <2>3 DEF Wrap
    <3> QED
      BY <2>3, <3>1, ExpFacts
  <2> QED
    BY <2>1, <2>2, <2>3
<1> QED
  BY <1>2, <1>3, <1>4, ExpFacts

\* Two symbols are the same if their logarithms are.
LEMMA SameLog ==
    ASSUME NEW a \in Symbol, a # 0, NEW b \in Symbol, b # 0, Log(a) = Log(b)
    PROVE  a = b
BY LogFacts

\* The logarithm of 1.
LEMMA Zero == 0 \in Symbol /\ 1 \in Symbol /\ 1 # 0 /\ Log(1) = 0
<1>1. 0 \in Symbol /\ 1 \in Symbol
  BY DEF Symbol
<1> QED
  BY <1>1, ExpFacts

\* The branch of multiply28 that does not read the tables.
LEMMA MulZero == ASSUME NEW a PROVE a \otimes 0 = 0 /\ 0 \otimes a = 0
BY DEF \otimes, multiply28

\* multiply28: commutative, associative, with unit 1.
LEMMA MulType == ASSUME NEW a \in Symbol, NEW b \in Symbol PROVE a \otimes b \in Symbol
<1>1. CASE a = 0 \/ b = 0
  BY <1>1, MulZero, Zero
<1>2. CASE a # 0 /\ b # 0
  BY <1>2, MulLog, LogFacts
<1> QED
  BY <1>1, <1>2

LEMMA MulComm == ASSUME NEW a \in Symbol, NEW b \in Symbol PROVE a \otimes b = b \otimes a
<1>1. CASE a = 0 \/ b = 0
  BY <1>1, MulZero
<1>2. CASE a # 0 /\ b # 0
  <2>1. PICK k \in Nat, l \in Nat : Log(a) = k /\ Log(b) = l
    BY <1>2, LogFacts
  <2>2. /\ a \otimes b \in Symbol /\ a \otimes b # 0
        /\ Log(a \otimes b) = IF k + l < 255 THEN k + l ELSE k + l - 255
        /\ b \otimes a \in Symbol /\ b \otimes a # 0
        /\ Log(b \otimes a) = IF l + k < 255 THEN l + k ELSE l + k - 255
    BY <1>2, <2>1, MulLog
  <2> QED
    BY <2>2, SameLog
<1> QED
  BY <1>1, <1>2

LEMMA MulAssoc ==
    ASSUME NEW a \in Symbol, NEW b \in Symbol, NEW d \in Symbol
    PROVE  (a \otimes b) \otimes d = a \otimes (b \otimes d)
<1>1. CASE a = 0 \/ b = 0 \/ d = 0
  BY <1>1, MulZero
<1>2. CASE a # 0 /\ b # 0 /\ d # 0
  <2>1. PICK j \in Nat, k \in Nat, l \in Nat : Log(a) = j /\ Log(b) = k /\ Log(d) = l
    BY <1>2, LogFacts
  <2>2. j < 255 /\ k < 255 /\ l < 255
    BY <1>2, <2>1, LogFacts
  <2> DEFINE jk == IF j + k < 255 THEN j + k ELSE j + k - 255
             kl == IF k + l < 255 THEN k + l ELSE k + l - 255
  <2>3. jk \in Nat /\ kl \in Nat
    BY <2>2
  <2>4. /\ a \otimes b \in Symbol /\ a \otimes b # 0 /\ Log(a \otimes b) = jk
        /\ b \otimes d \in Symbol /\ b \otimes d # 0 /\ Log(b \otimes d) = kl
    BY <1>2, <2>1, MulLog
  <2> HIDE DEF jk, kl
  <2>5. /\ (a \otimes b) \otimes d \in Symbol /\ (a \otimes b) \otimes d # 0
        /\ Log((a \otimes b) \otimes d) = IF jk + l < 255 THEN jk + l ELSE jk + l - 255
    BY <1>2, <2>1, <2>3, <2>4, MulLog
  <2>6. /\ a \otimes (b \otimes d) \in Symbol /\ a \otimes (b \otimes d) # 0
        /\ Log(a \otimes (b \otimes d)) = IF j + kl < 255 THEN j + kl ELSE j + kl - 255
    BY <1>2, <2>1, <2>3, <2>4, MulLog
  <2>7. (IF jk + l < 255 THEN jk + l ELSE jk + l - 255)
          = IF j + kl < 255 THEN j + kl ELSE j + kl - 255
    BY <2>2 DEF jk, kl
  <2> QED
    BY <2>5, <2>6, <2>7, SameLog
<1> QED
  BY <1>1, <1>2

LEMMA MulOne == ASSUME NEW a \in Symbol PROVE 1 \otimes a = a /\ a \otimes 1 = a
<1>1. CASE a = 0
  BY <1>1, MulZero
<1>2. CASE a # 0
  <2>1. PICK k \in Nat : Log(a) = k /\ k < 255
    BY <1>2, LogFacts
  <2>2. /\ 1 \otimes a \in Symbol /\ 1 \otimes a # 0 /\ Log(1 \otimes a) = k
        /\ a \otimes 1 \in Symbol /\ a \otimes 1 # 0 /\ Log(a \otimes 1) = k
    BY <1>2, <2>1, MulLog, Zero
  <2> QED
    BY <1>2, <2>1, <2>2, SameLog
<1> QED
  BY <1>1, <1>2

\* inv28 is the inverse, but of 0.
LEMMA MulInv ==
    ASSUME NEW a \in Symbol
    PROVE  inv28(a) \in Symbol /\ (a # 0 => a \otimes inv28(a) = 1)
<1>1. CASE a = 0
  BY <1>1, InvOfZero, Zero
<1>2. CASE a # 0
  <2>1. PICK k \in Nat : Log(a) = k /\ k < 255
    BY <1>2, LogFacts
  <2> DEFINE l == IF k = 0 THEN 0 ELSE 255 - k
  <2>2. inv28(a) \in Symbol /\ inv28(a) # 0 /\ Log(inv28(a)) = l
    BY <1>2, <2>1, LogFacts
  <2>3. l \in Nat
    BY <2>1
  <2>4. a \otimes inv28(a) \in Symbol /\ a \otimes inv28(a) # 0 /\ Log(a \otimes inv28(a)) = 0
    <3>1. (IF k + l < 255 THEN k + l ELSE k + l - 255) = 0
      BY <2>1
    <3> HIDE DEF l
    <3> QED
      BY <1>2, <2>1, <2>2, <2>3, <3>1, MulLog
  <2> QED
    BY <2>2, <2>4, Zero, SameLog
<1> QED
  BY <1>1, <1>2

LEMMA NoZeroDivisors ==
    ASSUME NEW a \in Symbol, NEW b \in Symbol, a \otimes b = 0
    PROVE  a = 0 \/ b = 0
BY MulLog, LogFacts

-----------------------------------------------------------------------------
(***************************************************************************)
(* The field is linear: multiplication distributes.                        *)
(***************************************************************************)
\* Induction, as the existence of a least exception.
LEMMA UpTo ==
    ASSUME NEW S, 0 \in S, NEW n \in Nat, \A j \in Nat : j < n /\ j \in S => j + 1 \in S
    PROVE  \A j \in Nat : j <= n => j \in S
<1> DEFINE Bad == {j \in Nat : j <= n /\ j \notin S}
<1>1. SUFFICES ASSUME Bad # {} PROVE FALSE
  OBVIOUS
<1>2. PICK R : R = {ss \in Nat \X Nat : ss[1] < ss[2]}
  OBVIOUS
<1>3. IsWellFoundedOn(R, Nat)
  <2>1. R = OpToRel(<, Nat)
    BY <1>2, Zenon DEF OpToRel
  <2> QED
    BY <2>1, NatLessThanWellFounded, Zenon
<1>4. PICK j \in Bad : \A k \in Bad : ~ (<<k, j>> \in R)
  <2>1. Bad \subseteq Nat
    OBVIOUS
  <2> HIDE DEF Bad
  <2> QED
    BY <1>1, <1>3, <2>1, WFMin
<1>5. j \in Nat /\ j <= n /\ j \notin S /\ j # 0
  OBVIOUS
<1>6. j - 1 \in Nat /\ j - 1 < j /\ j - 1 < n /\ (j - 1) + 1 = j
  BY <1>5
<1>7. j - 1 \notin S
  BY <1>5, <1>6
<1>8. j - 1 \in Bad
  BY <1>5, <1>6, <1>7
<1>9. <<j - 1, j>> \in R
  BY <1>2, <1>5, <1>6
<1> QED
  BY <1>4, <1>8, <1>9

-----------------------------------------------------------------------------
\* Triple is linear.
LEMMA TripleType == ASSUME NEW y \in Symbol PROVE Triple(y) \in Symbol /\ Double(y) \in Symbol
<1>1. PICK b \in Bits : y = Val(b)
  BY SymbolBits
<1>2. Double(y) \in Symbol
  BY <1>1, DoubleBits, ValBits
<1>3. Triple(y) = y \oplus Double(y)
  BY DEF Triple, \oplus, add28
<1> QED
  BY <1>2, <1>3, AddType

LEMMA TripleSum ==
    ASSUME NEW y \in Symbol, NEW z \in Symbol
    PROVE  Triple(y \oplus z) = Triple(y) \oplus Triple(z)
<1>1. PICK p \in Bits, q \in Bits : y = Val(p) /\ z = Val(q)
  BY SymbolBits
<1> DEFINE pq == [j \in 1..8 |-> Dif(p[j], q[j])]
           p3 == [j \in 1..8 |-> Dif(p[j], Shift(p)[j])]
           q3 == [j \in 1..8 |-> Dif(q[j], Shift(q)[j])]
           pq3 == [j \in 1..8 |-> Dif(pq[j], Shift(pq)[j])]
           s3 == [j \in 1..8 |-> Dif(p3[j], q3[j])]
<1>2. pq \in Bits /\ y \oplus z = Val(pq)
  BY <1>1, XorBits, Zenon DEF \oplus, add28
<1>3. Triple(y) = Val(p3) /\ Triple(z) = Val(q3)
  BY <1>1, TripleBits, Zenon
<1>4. Triple(y \oplus z) = Val(pq3)
  <2> HIDE DEF pq
  <2> QED
    BY <1>2, TripleBits, Zenon
<1>5. p3 \in Bits /\ q3 \in Bits
  <2>1. Shift(p) \in Bits /\ Shift(q) \in Bits
    BY DoubleBits
  <2> QED
    BY <2>1, XorBits, Zenon
<1>6. Triple(y) \oplus Triple(z) = Val(s3)
  <2> HIDE DEF p3, q3
  <2> QED
    BY <1>3, <1>5, XorBits, Zenon DEF \oplus, add28
<1>7. pq3 = s3
  <2>1. ASSUME NEW j \in 1..8 PROVE pq3[j] = s3[j]
    BY BitsType DEF Shift, Dif
  <2> QED
    BY <2>1
<1> QED
  BY <1>4, <1>6, <1>7

\* It is the product with 3, whose logarithm is 1.
LEMMA MulThree == ASSUME NEW y \in Symbol PROVE 3 \in Symbol /\ 3 \otimes y = Triple(y)
<1>1. 3 \in Symbol /\ 3 # 0 /\ Log(3) = 1
  BY DEF Symbol, Log, In, LogTable
<1>2. CASE y = 0
  <2>1. Triple(0) = 0
    BY DEF Triple, Double, Xor, Bit
  <2> QED
    BY <1>1, <1>2, <2>1, MulZero
<1>3. CASE y # 0
  <2>1. PICK k \in Nat : Log(y) = k /\ k < 255 /\ Exp(k) = y
    BY <1>3, LogFacts
  <2>2. Exp(k + 1) = Triple(y)
    BY <2>1, ExpFacts
  <2>3. 3 \otimes y = Exp(Wrap(1 + k))
    BY <1>1, <1>3, <2>1, Zenon DEF \otimes, multiply28, Exp, Log
  <2>4. Wrap(1 + k) = k + 1
    BY <2>1 DEF Wrap
  <2> QED
    BY <1>1, <2>2, <2>3, <2>4
<1> QED
  BY <1>2, <1>3

\* So multiplication by any power of 3, that is by any symbol, is linear.
LEMMA Distributes ==
    ASSUME NEW a \in Symbol, NEW b \in Symbol, NEW d \in Symbol
    PROVE  /\ a \otimes (b \oplus d) = (a \otimes b) \oplus (a \otimes d)
           /\ (b \oplus d) \otimes a = (b \otimes a) \oplus (d \otimes a)
<1> DEFINE Linear(e) == e \otimes (b \oplus d) = (e \otimes b) \oplus (e \otimes d)
           S == {n \in Nat : n <= 255 => Linear(Exp(n))}
<1>1. b \oplus d \in Symbol
  BY AddType
<1>2. 0 \in S
  BY <1>1, ExpFacts, MulOne
<1>3. ASSUME NEW n \in Nat, n < 254, n \in S PROVE n + 1 \in S
  <2> DEFINE e == Exp(n)
  <2>1. e \in Symbol /\ Exp(n + 1) = 3 \otimes e /\ 3 \in Symbol /\ Linear(e)
    BY <1>3, ExpFacts, MulThree
  <2> HIDE DEF e
  <2>2. ASSUME NEW y \in Symbol
        PROVE  (3 \otimes e) \otimes y = Triple(e \otimes y) /\ e \otimes y \in Symbol
    BY <2>1, MulAssoc, MulThree, MulType
  <2>3. Triple((e \otimes b) \oplus (e \otimes d)) = Triple(e \otimes b) \oplus Triple(e \otimes d)
    BY <2>2, TripleSum
  <2>4. Linear(3 \otimes e)
    BY <1>1, <2>1, <2>2, <2>3
  <2> QED
    BY <2>1, <2>4
<1>4. ASSUME a # 0 PROVE Linear(a)
  <2>1. PICK k \in Nat : Log(a) = k /\ k < 255 /\ Exp(k) = a
    BY <1>4, LogFacts
  <2>2. k \in S
    <3>1. k <= 254
      BY <2>1
    <3> HIDE DEF S
    <3> QED
      BY <1>2, <1>3, <2>1, <3>1, UpTo
  <2> QED
    BY <2>1, <2>2
<1>5. CASE a = 0
  BY <1>1, <1>5, MulZero, Zero, AddZero
<1> QED
  BY <1>1, <1>4, <1>5, MulComm, MulType

-----------------------------------------------------------------------------
(***************************************************************************)
(* The recursive functions.                                                *)
(***************************************************************************)
\* A recursion over the naturals up to n has a solution.
IsRec(f, n, S, a, g) ==
  f \in [0..n -> S] /\ f[0] = a /\ \A j \in 1..n : f[j] = g[j][f[j - 1]]

LEMMA Recursion ==
    ASSUME NEW n \in Nat, NEW S, NEW a \in S,
           NEW g, \A j \in 1..n, y \in S : g[j][y] \in S
    PROVE  \E f : IsRec(f, n, S, a, g)
<1> DEFINE T == {k \in Nat : k <= n => \E f : IsRec(f, k, S, a, g)}
<1>1. 0 \in T
  <2>1. IsRec([j \in 0..0 |-> a], 0, S, a, g)
    BY DEF IsRec
  <2> QED
    BY <2>1
<1>2. ASSUME NEW k \in Nat, k < n, k \in T PROVE k + 1 \in T
  <2>1. PICK f : IsRec(f, k, S, a, g)
    BY <1>2
  <2> DEFINE h == [j \in 0..(k + 1) |-> IF j = k + 1 THEN g[k + 1][f[k]] ELSE f[j]]
  <2>2. f[k] \in S /\ k + 1 \in 1..n
    BY <1>2, <2>1 DEF IsRec
  <2>3. g[k + 1][f[k]] \in S
    BY <2>2
  <2>4. h \in [0..(k + 1) -> S] /\ h[0] = a
    BY <2>1, <2>3 DEF IsRec
  <2>5. ASSUME NEW j \in 1..(k + 1) PROVE h[j] = g[j][h[j - 1]]
    <3>1. CASE j = k + 1
      <4>1. h[k + 1] = g[k + 1][f[k]] /\ h[k] = f[k]
        OBVIOUS
      <4>2. j - 1 = k
        BY <3>1
      <4> HIDE DEF h
      <4> QED
        BY <3>1, <4>1, <4>2, Zenon
    <3>2. CASE j # k + 1
      <4>1. j \in 1..k /\ j - 1 \in 0..k
        BY <3>2
      <4>2. h[j] = f[j] /\ h[j - 1] = f[j - 1]
        BY <4>1
      <4> QED
        BY <2>1, <4>1, <4>2 DEF IsRec
    <3> QED
      BY <3>1, <3>2
  <2> HIDE DEF h
  <2>6. IsRec(h, k + 1, S, a, g)
    BY <2>4, <2>5 DEF IsRec
  <2> QED
    BY <2>6
<1>3. n \in T
  <2> HIDE DEF T
  <2> QED
    BY <1>1, <1>2, UpTo
<1> QED
  BY <1>3

\* The powers of b.
LEMMA PowersFacts ==
    ASSUME NEW k \in Nat, NEW b \in Symbol
    PROVE  /\ Powers(b, k) \in [1..k -> Symbol]
           /\ \A j \in 1..k : Powers(b, k)[j] = IF j = 1 THEN 1 ELSE Powers(b, k)[j - 1] \otimes b
<1> DEFINE Solves(v) == v = [j \in 1..k |-> IF j = 1 THEN 1 ELSE multiply28(v[j - 1], b)]
           g == [j \in 1..k |-> [y \in Symbol |-> y \otimes b]]
<1>1. Powers(b, k) = CHOOSE v : Solves(v)
  BY Zenon DEF Powers
<1>2. \A j \in 1..k, y \in Symbol : g[j][y] \in Symbol
  BY MulType
<1>3. PICK f : IsRec(f, k, Symbol, 1, g)
  <2>1. 1 \in Symbol
    BY Zero
  <2> HIDE DEF g
  <2> QED
    BY <1>2, <2>1, Recursion
<1> DEFINE v == [j \in 1..k |-> f[j - 1]]
<1>4. ASSUME NEW j \in 1..k PROVE v[j] = IF j = 1 THEN 1 ELSE multiply28(v[j - 1], b)
  <2>1. CASE j = 1
    <3>1. v[j] = f[0]
      BY <2>1
    <3> QED
      BY <1>3, <2>1, <3>1, Zenon DEF IsRec
  <2>2. CASE j # 1
    <3>1. j - 1 \in 1..k /\ (j - 1) - 1 \in 0..k
      BY <2>2
    <3>2. f[(j - 1) - 1] \in Symbol
      BY <1>3, <3>1 DEF IsRec
    <3>3. f[j - 1] = f[(j - 1) - 1] \otimes b
      BY <1>3, <3>1, <3>2 DEF IsRec
    <3>4. v[j] = f[j - 1] /\ v[j - 1] = f[(j - 1) - 1]
      BY <3>1
    <3> HIDE DEF v
    <3> QED
      BY <2>2, <3>3, <3>4, Zenon DEF \otimes
  <2> QED
    BY <2>1, <2>2
<1>5. Solves(v)
  <2>1. v = [j \in 1..k |-> v[j]]
    OBVIOUS
  <2> HIDE DEF v
  <2> QED
    BY <1>4, <2>1, Zenon
<1>6. Solves(Powers(b, k))
  <2> HIDE DEF Solves
  <2> QED
    BY <1>1, <1>5, Zenon
<1> DEFINE w == Powers(b, k)
<1>7. /\ DOMAIN w = 1..k
      /\ \A j \in 1..k : w[j] = IF j = 1 THEN 1 ELSE w[j - 1] \otimes b
      /\ w = [j \in 1..k |-> w[j]]
  <2> HIDE DEF w
  <2>1. w = [j \in 1..k |-> IF j = 1 THEN 1 ELSE multiply28(w[j - 1], b)]
    BY <1>6 DEF w
  <2> QED
    BY <2>1, Zenon DEF \otimes
<1> HIDE DEF w
<1>8. \A j \in 1..k : w[j] \in Symbol
  <2> DEFINE S == {j \in Nat : j \in 1..k => w[j] \in Symbol}
  <2>1. 0 \in S
    OBVIOUS
  <2>2. ASSUME NEW j \in Nat, j < k, j \in S PROVE j + 1 \in S
    <3>1. CASE j = 0
      <4>1. w[1] = 1
        <5>1. 1 \in 1..k
          BY <2>2, <3>1
        <5> QED
          BY <1>7, <5>1, Zenon
      <4> QED
        BY <3>1, <4>1, Zero
    <3>2. CASE j # 0
      <4>1. j \in 1..k /\ j + 1 \in 1..k /\ j + 1 # 1 /\ (j + 1) - 1 = j
        BY <2>2, <3>2
      <4>2. w[j + 1] = w[j] \otimes b
        BY <1>7, <4>1
      <4> QED
        BY <2>2, <4>1, <4>2, MulType
    <3> QED
      BY <3>1, <3>2
  <2> HIDE DEF S
  <2>3. \A j \in Nat : j <= k => j \in S
    BY <2>1, <2>2, UpTo
  <2> QED
    BY <2>3 DEF S
<1> QED
  BY <1>7, <1>8 DEF w

\* The rows of the encoder.
LEMMA RowType ==
    ASSUME NEW k \in Nat, NEW r \in Nat \ {0}
    PROVE  Base(r) \in Symbol /\ Row(r, k) \in [1..k -> Symbol]
<1>1. 3 \in Symbol
  BY MulThree, Zero
<1>2. Base(r) \in Symbol
  BY <1>1, PowersFacts DEF Base
<1> QED
  BY <1>2, PowersFacts DEF Row

\* The partial sums of a product.
LEMMA SumsFacts ==
    ASSUME NEW k \in Nat, NEW v \in [1..k -> Symbol], NEW w, \A j \in 1..k : w[j] \in Symbol
    PROVE  /\ Sums(v, w) \in [0..k -> Symbol]
           /\ Sums(v, w)[0] = 0
           /\ \A j \in 1..k : Sums(v, w)[j] = Sums(v, w)[j - 1] \oplus (v[j] \otimes w[j])
           /\ Dot(v, w) = Sums(v, w)[k]
<1> DEFINE Solves(s) == s = [j \in 0..k |-> IF j = 0 THEN 0
                                  ELSE add28(s[j - 1], multiply28(v[j], w[j]))]
           g == [j \in 1..k |-> [y \in Symbol |-> y \oplus (v[j] \otimes w[j])]]
<1>1. Len(v) = k
  OBVIOUS
<1>2. Sums(v, w) = CHOOSE s : Solves(s)
  BY <1>1, Zenon DEF Sums
<1>3. \A j \in 1..k, y \in Symbol : g[j][y] \in Symbol
  BY MulType, AddType
<1>4. PICK f : IsRec(f, k, Symbol, 0, g)
  <2>1. 0 \in Symbol
    BY Zero
  <2> HIDE DEF g
  <2> QED
    BY <1>3, <2>1, Recursion
<1>5. ASSUME NEW j \in 0..k
      PROVE  f[j] = IF j = 0 THEN 0 ELSE add28(f[j - 1], multiply28(v[j], w[j]))
  <2>1. CASE j = 0
    BY <1>4, <2>1 DEF IsRec
  <2>2. CASE j # 0
    <3>1. j \in 1..k /\ j - 1 \in 0..k
      BY <2>2
    <3>2. f[j - 1] \in Symbol
      BY <1>4, <3>1 DEF IsRec
    <3> QED
      BY <1>4, <2>2, <3>1, <3>2 DEF \oplus, \otimes, IsRec
  <2> QED
    BY <2>1, <2>2
<1>6. Solves(f)
  <2>1. f = [j \in 0..k |-> f[j]]
    BY <1>4 DEF IsRec
  <2> QED
    BY <1>5, <2>1, Zenon
<1>7. Solves(Sums(v, w))
  <2> HIDE DEF Solves
  <2> QED
    BY <1>2, <1>6, Zenon
<1> DEFINE s == Sums(v, w)
<1>8. /\ s = [j \in 0..k |-> s[j]]
      /\ \A j \in 0..k : s[j] = IF j = 0 THEN 0 ELSE s[j - 1] \oplus (v[j] \otimes w[j])
  <2> HIDE DEF s
  <2>1. s = [j \in 0..k |-> IF j = 0 THEN 0 ELSE add28(s[j - 1], multiply28(v[j], w[j]))]
    BY <1>7 DEF s
  <2> QED
    BY <2>1, Zenon DEF \otimes, \oplus
<1> HIDE DEF s
<1>9. s[0] = 0 /\ \A j \in 1..k : s[j] = s[j - 1] \oplus (v[j] \otimes w[j])
  <2>1. 0 \in 0..k /\ \A j \in 1..k : j \in 0..k /\ j # 0
    OBVIOUS
  <2> QED
    BY <1>8, <2>1, Zenon
<1>10. \A j \in 0..k : s[j] \in Symbol
  <2> DEFINE S == {j \in Nat : j <= k => s[j] \in Symbol}
  <2>1. 0 \in S
    BY <1>9, Zero
  <2>2. ASSUME NEW j \in Nat, j < k, j \in S PROVE j + 1 \in S
    <3>1. j + 1 \in 1..k /\ (j + 1) - 1 = j /\ s[j] \in Symbol
      BY <2>2
    <3>2. s[j + 1] = s[j] \oplus (v[j + 1] \otimes w[j + 1])
      BY <1>9, <3>1
    <3> QED
      BY <3>1, <3>2, MulType, AddType
  <2> HIDE DEF S
  <2>3. \A j \in Nat : j <= k => j \in S
    BY <2>1, <2>2, UpTo
  <2> QED
    BY <2>3 DEF S
<1> QED
  BY <1>1, <1>8, <1>9, <1>10, Zenon DEF s, Dot

-----------------------------------------------------------------------------
(***************************************************************************)
(* Sums.                                                                   *)
(***************************************************************************)
\* Four summands, in another order.
LEMMA AddSwap ==
    ASSUME NEW a \in Symbol, NEW b \in Symbol, NEW d \in Symbol, NEW e \in Symbol
    PROVE  (a \oplus b) \oplus (d \oplus e) = (a \oplus d) \oplus (b \oplus e)
<1>1. (a \oplus b) \oplus (d \oplus e) = a \oplus (b \oplus (d \oplus e))
  BY AddAssoc, AddType
<1>2. b \oplus (d \oplus e) = (b \oplus d) \oplus e
  BY AddAssoc
<1>3. b \oplus d = d \oplus b
  BY AddComm
<1>4. (d \oplus b) \oplus e = d \oplus (b \oplus e)
  BY AddAssoc
<1>5. a \oplus (d \oplus (b \oplus e)) = (a \oplus d) \oplus (b \oplus e)
  BY AddAssoc, AddType
<1> QED
  BY <1>1, <1>2, <1>3, <1>4, <1>5

\* The sums of p[1], p[2] and so on.
IsSum(s, p, k) ==
  /\ s \in [0..k -> Symbol] /\ s[0] = 0
  /\ \A j \in 1..k : p[j] \in Symbol /\ s[j] = s[j - 1] \oplus p[j]

LEMMA SumsAreSums ==
    ASSUME NEW k \in Nat, NEW v \in [1..k -> Symbol], NEW w, \A j \in 1..k : w[j] \in Symbol
    PROVE  /\ IsSum(Sums(v, w), [j \in 1..k |-> v[j] \otimes w[j]], k)
           /\ Dot(v, w) = Sums(v, w)[k] /\ Dot(v, w) \in Symbol
<1> DEFINE p == [j \in 1..k |-> v[j] \otimes w[j]]
           s == Sums(v, w)
<1>1. \A j \in 1..k : p[j] = v[j] \otimes w[j] /\ p[j] \in Symbol
  BY MulType
<1>2. /\ s \in [0..k -> Symbol] /\ s[0] = 0
      /\ \A j \in 1..k : s[j] = s[j - 1] \oplus (v[j] \otimes w[j])
      /\ Dot(v, w) = s[k]
  BY SumsFacts
<1> HIDE DEF p, s
<1>3. IsSum(s, p, k)
  BY <1>1, <1>2 DEF IsSum
<1> QED
  BY <1>2, <1>3 DEF p, s

\* Sums of sums are sums, and those of multiples are multiples.
LEMMA SumsLinear ==
    ASSUME NEW k \in Nat, NEW d \in Symbol,
           NEW s, NEW p, IsSum(s, p, k), NEW t, NEW q, IsSum(t, q, k),
           NEW u, NEW r, IsSum(u, r, k),
           NEW n \in Nat, n <= k, \A j \in 1..n : p[j] = q[j] \oplus (d \otimes r[j])
    PROVE  s[n] = t[n] \oplus (d \otimes u[n])
<1> DEFINE S == {j \in Nat : j <= n => s[j] = t[j] \oplus (d \otimes u[j])}
<1>1. 0 \in S
  BY AddZero, MulZero, Zero DEF IsSum
<1>2. ASSUME NEW j \in Nat, j < n, j \in S PROVE j + 1 \in S
  <2>1. j + 1 \in 1..n /\ j + 1 \in 1..k /\ (j + 1) - 1 = j /\ j \in 0..k
    BY <1>2
  <2> DEFINE qq == q[j + 1]
             rr == r[j + 1]
             tj == t[j]
             uj == u[j]
  <2>2. qq \in Symbol /\ rr \in Symbol /\ tj \in Symbol /\ uj \in Symbol
    BY <2>1 DEF IsSum
  <2>3. s[j + 1] = s[j] \oplus p[j + 1] /\ t[j + 1] = tj \oplus qq /\ u[j + 1] = uj \oplus rr
    BY <2>1 DEF IsSum
  <2>4. p[j + 1] = qq \oplus (d \otimes rr)
    BY <2>1
  <2>5. s[j] = tj \oplus (d \otimes uj)
    BY <1>2
  <2> HIDE DEF qq, rr, tj, uj
  <2>6. d \otimes rr \in Symbol /\ d \otimes uj \in Symbol
    BY <2>2, MulType
  <2> DEFINE dr == d \otimes rr
             du == d \otimes uj
  <2>7. (tj \oplus du) \oplus (qq \oplus dr) = (tj \oplus qq) \oplus (du \oplus dr)
    <3> HIDE DEF dr, du
    <3>1. dr \in Symbol /\ du \in Symbol
      BY <2>6 DEF dr, du
    <3> QED
      BY <2>2, <3>1, AddSwap
  <2>8. d \otimes (uj \oplus rr) = du \oplus dr
    BY <2>2, Distributes
  <2>9. s[j + 1] = t[j + 1] \oplus (d \otimes u[j + 1])
    BY <2>3, <2>4, <2>5, <2>7, <2>8
  <2> QED
    BY <2>9
<1> HIDE DEF S
<1>3. \A j \in Nat : j <= n => j \in S
  BY <1>1, <1>2, UpTo
<1> QED
  BY <1>3 DEF S

\* Equal numbers have equal sums.
LEMMA SumsAlike ==
    ASSUME NEW k \in Nat, NEW l \in Nat, NEW s, NEW p, IsSum(s, p, k), NEW t, NEW q, IsSum(t, q, l),
           NEW n \in Nat, n <= k, n <= l, \A j \in 1..n : p[j] = q[j]
    PROVE  s[n] = t[n]
<1> DEFINE S == {j \in Nat : j <= n => s[j] = t[j]}
<1>1. 0 \in S
  BY DEF IsSum
<1>2. ASSUME NEW j \in Nat, j < n, j \in S PROVE j + 1 \in S
  <2>1. j + 1 \in 1..n /\ j + 1 \in 1..k /\ j + 1 \in 1..l /\ (j + 1) - 1 = j
    BY <1>2
  <2> QED
    BY <1>2, <2>1 DEF IsSum
<1> HIDE DEF S
<1>3. \A j \in Nat : j <= n => j \in S
  BY <1>1, <1>2, UpTo
<1> QED
  BY <1>3 DEF S

\* Zeros add nothing.
LEMMA SumsStay ==
    ASSUME NEW k \in Nat, NEW s, NEW p, IsSum(s, p, k),
           NEW a \in Nat, NEW b \in Nat, a <= b, b <= k, \A j \in 1..k : a < j /\ j <= b => p[j] = 0
    PROVE  s[b] = s[a]
<1> DEFINE S == {j \in Nat : j <= b - a => s[a + j] = s[a]}
<1>1. 0 \in S
  OBVIOUS
<1>2. ASSUME NEW j \in Nat, j < b - a, j \in S PROVE j + 1 \in S
  <2>1. a + (j + 1) \in 1..k /\ (a + (j + 1)) - 1 = a + j /\ a + j \in 0..k
        /\ a < a + (j + 1) /\ a + (j + 1) <= b
    BY <1>2
  <2>2. s[a + (j + 1)] = s[a + j] \oplus p[a + (j + 1)]
    BY <2>1 DEF IsSum
  <2>3. p[a + (j + 1)] = 0 /\ s[a + j] \in Symbol /\ s[a + j] = s[a]
    BY <1>2, <2>1 DEF IsSum
  <2> QED
    BY <2>2, <2>3, AddZero
<1>3. b - a \in Nat
  OBVIOUS
<1> HIDE DEF S
<1>4. \A j \in Nat : j <= b - a => j \in S
  BY <1>1, <1>2, <1>3, UpTo
<1>5. b - a \in S
  BY <1>3, <1>4
<1>6. a + (b - a) = b
  OBVIOUS
<1> QED
  BY <1>3, <1>5, <1>6 DEF S

\* The sum of one number and zeros is that number.
LEMMA SumsOne ==
    ASSUME NEW k \in Nat, NEW s, NEW p, IsSum(s, p, k),
           NEW a \in 1..k, NEW n \in Nat, a <= n, n <= k,
           \A j \in 1..k : j <= n /\ j # a => p[j] = 0
    PROVE  s[n] = p[a]
<1>1. a - 1 \in Nat /\ a - 1 <= k /\ 0 <= a - 1 /\ \A j \in 1..k : 0 < j /\ j <= a - 1 => p[j] = 0
  OBVIOUS
<1>2. s[a - 1] = s[0]
  BY <1>1, SumsStay
<1>3. s[n] = s[a]
  BY SumsStay
<1>4. s[a] = s[a - 1] \oplus p[a] /\ p[a] \in Symbol /\ s[0] = 0
  BY DEF IsSum
<1> QED
  BY <1>2, <1>3, <1>4, AddZero

-----------------------------------------------------------------------------
(***************************************************************************)
(* Powers, and polynomials with more zeros than their degree.              *)
(***************************************************************************)
Pow(y, n) == Powers(y, n + 1)[n + 1]

\* The powers do not depend on how many are asked for.
LEMMA PowersPrefix ==
    ASSUME NEW y \in Symbol, NEW j \in Nat, NEW k \in Nat, NEW l \in Nat, 1 <= j, j <= k, j <= l
    PROVE  Powers(y, k)[j] = Powers(y, l)[j]
<1> DEFINE v == Powers(y, k)
           w == Powers(y, l)
           S == {n \in Nat : n + 1 <= j => v[n + 1] = w[n + 1]}
<1>1. /\ \A n \in 1..k : v[n] = IF n = 1 THEN 1 ELSE v[n - 1] \otimes y
      /\ \A n \in 1..l : w[n] = IF n = 1 THEN 1 ELSE w[n - 1] \otimes y
  BY PowersFacts
<1> HIDE DEF v, w
<1>2. 0 \in S
  BY <1>1
<1>3. ASSUME NEW n \in Nat, n < j - 1, n \in S PROVE n + 1 \in S
  <2>1. (n + 1) + 1 \in 1..k /\ (n + 1) + 1 \in 1..l /\ (n + 1) + 1 # 1 /\ ((n + 1) + 1) - 1 = n + 1
    BY <1>3
  <2>2. v[(n + 1) + 1] = v[n + 1] \otimes y /\ w[(n + 1) + 1] = w[n + 1] \otimes y
    BY <1>1, <2>1
  <2> QED
    BY <1>3, <2>2
<1>4. j - 1 \in Nat /\ (j - 1) + 1 = j
  OBVIOUS
<1> HIDE DEF S
<1>5. j - 1 \in S
  BY <1>2, <1>3, <1>4, UpTo
<1> QED
  BY <1>4, <1>5 DEF S, v, w

\* Pow names the powers without their number.
LEMMA PowFacts ==
    ASSUME NEW y \in Symbol
    PROVE  /\ Pow(y, 0) = 1
           /\ \A n \in Nat : Pow(y, n) \in Symbol /\ Pow(y, n + 1) = Pow(y, n) \otimes y
           /\ \A k \in Nat : \A j \in 1..k : Powers(y, k)[j] = Pow(y, j - 1)
<1>1. \A n \in Nat : Pow(y, n) \in Symbol
  BY PowersFacts DEF Pow
<1>2. Pow(y, 0) = 1
  <2>1. 0 + 1 = 1 /\ 1 \in Nat /\ 1 \in 1..1
    OBVIOUS
  <2>2. Powers(y, 1)[1] = 1
    BY <2>1, PowersFacts
  <2> QED
    BY <2>1, <2>2 DEF Pow
<1>3. ASSUME NEW k \in Nat, NEW j \in 1..k PROVE Powers(y, k)[j] = Pow(y, j - 1)
  <2>1. j \in Nat /\ 1 <= j /\ j <= k /\ (j - 1) + 1 = j
    OBVIOUS
  <2>2. Powers(y, k)[j] = Powers(y, j)[j]
    BY <2>1, PowersPrefix
  <2> QED
    BY <2>1, <2>2 DEF Pow
<1>4. ASSUME NEW n \in Nat PROVE Pow(y, n + 1) = Pow(y, n) \otimes y
  <2>1. n + 2 \in Nat /\ n + 2 \in 1..(n + 2) /\ n + 2 # 1 /\ (n + 2) - 1 = n + 1
        /\ n + 1 \in 1..(n + 2) /\ (n + 1) + 1 = n + 2 /\ (n + 1) - 1 = n
    OBVIOUS
  <2>2. Powers(y, n + 2)[n + 2] = Powers(y, n + 2)[n + 1] \otimes y
    BY <2>1, PowersFacts
  <2>3. Powers(y, n + 2)[n + 1] = Pow(y, n)
    BY <1>3, <2>1
  <2> QED
    BY <2>1, <2>2, <2>3 DEF Pow
<1> QED
  BY <1>1, <1>2, <1>3, <1>4

\* The powers of 3 are the entries of the table, and the bases are different.
LEMMA Bases ==
    /\ \A n \in Nat : n <= 255 => Pow(3, n) = Exp(n)
    /\ \A r \in Nat : 1 <= r /\ r <= 255 => Base(r) = Exp(r - 1)
    /\ \A r, s \in Nat : 1 <= r /\ r <= 255 /\ 1 <= s /\ s <= 255 /\ Base(r) = Base(s) => r = s
<1> DEFINE S == {n \in Nat : n <= 255 => Pow(3, n) = Exp(n)}
<1>1. 3 \in Symbol /\ \A y \in Symbol : y \otimes 3 = Triple(y)
  BY MulThree, MulComm, Zero
<1>2. 0 \in S
  BY <1>1, PowFacts, ExpFacts
<1>3. ASSUME NEW n \in Nat, n < 255, n \in S PROVE n + 1 \in S
  <2>1. Pow(3, n + 1) = Pow(3, n) \otimes 3 /\ Pow(3, n) = Exp(n) /\ Exp(n) \in Symbol
    BY <1>1, <1>3, PowFacts, ExpFacts
  <2>2. Exp(n + 1) = Triple(Exp(n))
    BY <1>3, ExpFacts
  <2>3. Pow(3, n + 1) = Exp(n + 1)
    BY <1>1, <2>1, <2>2
  <2> QED
    BY <2>3
<1>4. 255 \in Nat
  OBVIOUS
<1>5. \A n \in Nat : n <= 255 => Pow(3, n) = Exp(n)
  <2> HIDE DEF S
  <2>1. \A n \in Nat : n <= 255 => n \in S
    BY <1>2, <1>3, <1>4, UpTo
  <2> QED
    BY <2>1 DEF S
<1>6. ASSUME NEW r \in Nat, 1 <= r, r <= 255 PROVE Base(r) = Exp(r - 1) /\ Log(Base(r)) = r - 1
  <2>1. r - 1 \in Nat /\ r - 1 < 255 /\ (r - 1) + 1 = r
    BY <1>6
  <2>2. Base(r) = Pow(3, r - 1)
    BY <2>1 DEF Base, Pow
  <2>3. Pow(3, r - 1) = Exp(r - 1)
    BY <1>5, <2>1
  <2>4. Log(Exp(r - 1)) = r - 1
    BY <2>1, ExpFacts
  <2> QED
    BY <2>2, <2>3, <2>4
<1>7. ASSUME NEW r \in Nat, NEW s \in Nat, 1 <= r, r <= 255, 1 <= s, s <= 255, Base(r) = Base(s)
      PROVE  r = s
  BY <1>6, <1>7
<1> QED
  BY <1>5, <1>6, <1>7

\* Synthetic division of the polynomial v by the variable plus a: h[1] is the
\* rest, the other h are the quotient.
LEMMA Division ==
    ASSUME NEW k \in Nat, NEW v \in [1..(k + 1) -> Symbol], NEW a \in Symbol
    PROVE  \E h \in [1..(k + 2) -> Symbol] :
             h[k + 2] = 0 /\ \A j \in 1..(k + 1) : v[j] = h[j] \oplus (a \otimes h[j + 1])
<1> DEFINE g == [j \in 1..(k + 1) |-> [y \in Symbol |-> v[k + 2 - j] \oplus (a \otimes y)]]
<1>1. ASSUME NEW j \in 1..(k + 1), NEW y \in Symbol
      PROVE  g[j][y] = v[k + 2 - j] \oplus (a \otimes y) /\ g[j][y] \in Symbol
  <2>1. k + 2 - j \in 1..(k + 1)
    OBVIOUS
  <2>2. v[k + 2 - j] \in Symbol /\ a \otimes y \in Symbol
    BY <2>1, MulType
  <2> QED
    BY <2>2, AddType
<1>2. PICK f : IsRec(f, k + 1, Symbol, 0, g)
  <2>1. k + 1 \in Nat /\ 0 \in Symbol
    BY Zero
  <2>2. \A j \in 1..(k + 1), y \in Symbol : g[j][y] \in Symbol
    BY <1>1
  <2> HIDE DEF g
  <2> QED
    BY <2>1, <2>2, Recursion
<1> DEFINE h == [j \in 1..(k + 2) |-> f[k + 2 - j]]
<1>3. h \in [1..(k + 2) -> Symbol] /\ h[k + 2] = 0
  <2>1. f \in [0..(k + 1) -> Symbol] /\ f[0] = 0
    BY <1>2 DEF IsRec
  <2>2. k + 2 - (k + 2) = 0 /\ k + 2 \in 1..(k + 2)
    OBVIOUS
  <2>3. \A j \in 1..(k + 2) : k + 2 - j \in 0..(k + 1)
    OBVIOUS
  <2> HIDE DEF g
  <2>4. \A j \in 1..(k + 2) : f[k + 2 - j] \in Symbol
    BY <2>1, <2>3
  <2> QED
    BY <2>1, <2>2, <2>4
<1>4. ASSUME NEW j \in 1..(k + 1) PROVE v[j] = h[j] \oplus (a \otimes h[j + 1])
  <2> DEFINE l == k + 2 - j
  <2>1. l \in 1..(k + 1) /\ k + 2 - l = j /\ l - 1 \in 0..(k + 1)
    OBVIOUS
  <2>2. h[j] = f[l] /\ h[j + 1] = f[l - 1]
    OBVIOUS
  <2> HIDE DEF l
  <2>3. f[l - 1] \in Symbol /\ f[l] = g[l][f[l - 1]]
    BY <1>2, <2>1 DEF IsRec
  <2>4. f[l] = v[j] \oplus (a \otimes f[l - 1])
    BY <1>1, <2>1, <2>3
  <2>5. v[j] \in Symbol /\ a \otimes f[l - 1] \in Symbol
    BY <2>3, MulType
  <2> HIDE DEF h, g
  <2> QED
    BY <2>2, <2>4, <2>5, AddTwice
<1> QED
  <2> HIDE DEF h
  <2> QED
    BY <1>3, <1>4

\* The value of a polynomial, term by term.
LEMMA PolynomialSums ==
    ASSUME NEW k \in Nat, NEW v \in [1..k -> Symbol], NEW y \in Symbol
    PROVE  /\ Sums(v, Powers(y, k)) \in [0..k -> Symbol] /\ Sums(v, Powers(y, k))[0] = 0
           /\ Dot(v, Powers(y, k)) = Sums(v, Powers(y, k))[k]
           /\ Dot(v, Powers(y, k)) \in Symbol
           /\ \A j \in 1..k : Sums(v, Powers(y, k))[j]
                = Sums(v, Powers(y, k))[j - 1] \oplus (v[j] \otimes Pow(y, j - 1))
<1> DEFINE w == Powers(y, k)
<1>1. \A j \in 1..k : w[j] = Pow(y, j - 1) /\ w[j] \in Symbol
  BY PowersFacts, PowFacts
<1> HIDE DEF w
<1>2. Sums(v, w) \in [0..k -> Symbol] /\ Sums(v, w)[0] = 0 /\ Dot(v, w) = Sums(v, w)[k]
  BY <1>1, SumsFacts
<1>3. \A j \in 1..k : Sums(v, w)[j] = Sums(v, w)[j - 1] \oplus (v[j] \otimes w[j])
  BY <1>1, SumsFacts
<1>4. Dot(v, w) \in Symbol
  BY <1>2
<1> QED
  BY <1>1, <1>2, <1>3, <1>4 DEF w

\* The value at y is the rest and y plus a times the value of the quotient.
LEMMA Divided ==
    ASSUME NEW k \in Nat, NEW v \in [1..(k + 1) -> Symbol], NEW a \in Symbol, NEW y \in Symbol,
           NEW h \in [1..(k + 2) -> Symbol], h[k + 2] = 0,
           \A j \in 1..(k + 1) : v[j] = h[j] \oplus (a \otimes h[j + 1])
    PROVE  Dot(v, Powers(y, k + 1))
             = h[1] \oplus ((y \oplus a) \otimes Dot([j \in 1..k |-> h[j + 1]], Powers(y, k)))
<1> DEFINE q == [j \in 1..k |-> h[j + 1]]
           s == Sums(v, Powers(y, k + 1))
           t == Sums(q, Powers(y, k))
           ya == y \oplus a
           Rest(n) == h[1] \oplus (ya \otimes t[n])
           S == {n \in Nat : n <= k => s[n] = Rest(n) \oplus (Pow(y, n) \otimes h[n + 1])}
<1>1. q \in [1..k -> Symbol] /\ k + 1 \in Nat /\ ya \in Symbol
  BY AddType
<1>2. /\ s[0] = 0 /\ Dot(v, Powers(y, k + 1)) = s[k + 1]
      /\ \A j \in 1..(k + 1) : s[j] = s[j - 1] \oplus (v[j] \otimes Pow(y, j - 1))
  BY <1>1, PolynomialSums
<1>3. /\ t \in [0..k -> Symbol] /\ t[0] = 0 /\ Dot(q, Powers(y, k)) = t[k]
      /\ \A j \in 1..k : t[j] = t[j - 1] \oplus (h[j + 1] \otimes Pow(y, j - 1))
  <2>1. \A j \in 1..k : q[j] = h[j + 1]
    OBVIOUS
  <2> HIDE DEF q
  <2>2. /\ t \in [0..k -> Symbol] /\ t[0] = 0 /\ Dot(q, Powers(y, k)) = t[k]
        /\ \A j \in 1..k : t[j] = t[j - 1] \oplus (q[j] \otimes Pow(y, j - 1))
    BY <1>1, PolynomialSums
  <2> HIDE DEF t
  <2> QED
    BY <2>1, <2>2
<1>4. Dot(v, Powers(y, k + 1)) = s[k + 1] /\ Dot(q, Powers(y, k)) = t[k]
  BY <1>2, <1>3
<1> HIDE DEF q, s, t, ya
<1>5. ASSUME NEW n \in Nat, n <= k
      PROVE  /\ t[n] \in Symbol /\ h[1] \in Symbol /\ h[n + 1] \in Symbol /\ h[n + 2] \in Symbol
             /\ ya \otimes t[n] \in Symbol /\ Rest(n) \in Symbol
             /\ Pow(y, n) \in Symbol /\ Pow(y, n) \otimes h[n + 1] \in Symbol
  <2>1. t[n] \in Symbol /\ h[1] \in Symbol /\ h[n + 1] \in Symbol /\ h[n + 2] \in Symbol
    BY <1>3, <1>5
  <2>2. Pow(y, n) \in Symbol
    BY PowFacts
  <2> QED
    BY <1>1, <2>1, <2>2, MulType, AddType
<1>6. 0 \in S
  <2>1. Pow(y, 0) \otimes h[1] = h[1] /\ h[1] \in Symbol
    BY PowFacts, MulOne
  <2>2. Rest(0) = h[1]
    BY <1>3, <2>1, MulZero, AddZero
  <2> QED
    BY <1>2, <2>1, <2>2, AddZero
<1>7. ASSUME NEW n \in Nat, n < k, n \in S PROVE n + 1 \in S
  <2> DEFINE P == Pow(y, n)
             H == h[n + 1]
             G == h[n + 2]
             U == P \otimes H
             GP == G \otimes P
             W == a \otimes GP
             V == y \otimes GP
             Z == Rest(n)
  <2>1. /\ n + 1 \in 1..k /\ n + 1 \in 1..(k + 1) /\ (n + 1) - 1 = n /\ (n + 1) + 1 = n + 2
        /\ n <= k /\ n + 1 \in Nat
    BY <1>7
  <2>2. /\ P \in Symbol /\ H \in Symbol /\ G \in Symbol /\ U \in Symbol /\ Z \in Symbol
        /\ t[n] \in Symbol /\ h[1] \in Symbol /\ ya \otimes t[n] \in Symbol
    BY <1>5, <2>1
  <2>3. s[n] = Z \oplus U
    BY <1>7
  <2>4. s[n + 1] = s[n] \oplus (v[n + 1] \otimes P) /\ v[n + 1] = H \oplus (a \otimes G)
    BY <1>2, <2>1
  <2>5. t[n + 1] = t[n] \oplus GP
    BY <1>3, <2>1
  <2>6. Pow(y, n + 1) = P \otimes y
    BY PowFacts
  <2>7. Rest(n + 1) = h[1] \oplus (ya \otimes (t[n] \oplus GP))
    BY <2>5
  <2>8. Z = h[1] \oplus (ya \otimes t[n])
    OBVIOUS
  <2>9. SUFFICES s[n + 1] = Rest(n + 1) \oplus ((P \otimes y) \otimes G)
    BY <2>1, <2>6
  <2> HIDE DEF P, H, G, Z, S, Rest
  <2>10. GP \in Symbol /\ W \in Symbol /\ V \in Symbol /\ a \otimes G \in Symbol
    BY <2>2, MulType
  <2>11. (H \oplus (a \otimes G)) \otimes P = U \oplus W
    BY <2>2, <2>10, Distributes, MulComm, MulAssoc
  <2>12. ya \otimes GP = V \oplus W
    BY <2>10, Distributes DEF ya
  <2>13. ya \otimes (t[n] \oplus GP) = (ya \otimes t[n]) \oplus (V \oplus W)
    BY <1>1, <2>2, <2>10, <2>12, Distributes
  <2>14. (P \otimes y) \otimes G = V
    BY <2>2, MulComm, MulAssoc, MulType
  <2> HIDE DEF U, W, V, GP
  <2>15. s[n + 1] = Z \oplus W
    <3>1. (Z \oplus U) \oplus (U \oplus W) = ((Z \oplus U) \oplus U) \oplus W
      <4>1. Z \oplus U \in Symbol
        BY <2>2, AddType
      <4> QED
        BY <2>2, <2>10, <4>1, AddAssoc
    <3>2. (Z \oplus U) \oplus U = Z
      BY <2>2, AddTwice
    <3> QED
      BY <2>3, <2>4, <2>11, <3>1, <3>2
  <2>16. Rest(n + 1) = Z \oplus (V \oplus W)
    <3>1. V \oplus W \in Symbol
      BY <2>10, AddType
    <3> QED
      BY <2>2, <2>7, <2>8, <2>13, <3>1, AddAssoc
  <2>17. (Z \oplus (V \oplus W)) \oplus V = Z \oplus W
    <3>1. V \oplus W = W \oplus V
      BY <2>10, AddComm
    <3>2. Z \oplus (W \oplus V) = (Z \oplus W) \oplus V
      BY <2>2, <2>10, AddAssoc
    <3>3. ((Z \oplus W) \oplus V) \oplus V = Z \oplus W
      BY <2>2, <2>10, AddType, AddTwice
    <3> QED
      BY <3>1, <3>2, <3>3
  <2> QED
    BY <2>14, <2>15, <2>16, <2>17
<1>8. s[k] = Rest(k) \oplus (Pow(y, k) \otimes h[k + 1])
  <2> HIDE DEF S, Rest
  <2>1. k \in S
    BY <1>6, <1>7, UpTo
  <2> QED
    BY <2>1 DEF S
<1>9. s[k + 1] = s[k] \oplus (h[k + 1] \otimes Pow(y, k))
  <2>1. k + 1 \in 1..(k + 1) /\ (k + 1) - 1 = k /\ (k + 1) + 1 = k + 2
    OBVIOUS
  <2>2. s[k + 1] = s[k] \oplus (v[k + 1] \otimes Pow(y, k))
    BY <1>2, <2>1
  <2>3. v[k + 1] = h[k + 1] \oplus (a \otimes 0)
    BY <2>1
  <2>4. v[k + 1] = h[k + 1]
    BY <1>5, <2>3, MulZero, AddZero
  <2> QED
    BY <2>2, <2>4
<1>10. s[k + 1] = Rest(k)
  <2>1. h[k + 1] \otimes Pow(y, k) = Pow(y, k) \otimes h[k + 1]
    BY <1>5, MulComm
  <2>2. Rest(k) \in Symbol /\ Pow(y, k) \otimes h[k + 1] \in Symbol
    BY <1>5
  <2> HIDE DEF Rest
  <2> QED
    BY <1>8, <1>9, <2>1, <2>2, AddTwice
<1> QED
  BY <1>4, <1>10 DEF ya, q

-----------------------------------------------------------------------------
\* A polynomial with k coefficients is zero at k different points only if it is
\* zero everywhere.
Vanishes(k) ==
  \A v, b \in [1..k -> Symbol] :
    (/\ \A r, s \in 1..k : r # s => b[r] # b[s]
     /\ \A r \in 1..k : Dot(v, Powers(b[r], k)) = 0)
      => \A j \in 1..k : v[j] = 0

\* By division: the quotient vanishes at the remaining points.
LEMMA VandermondeStep ==
    ASSUME NEW k \in Nat, Vanishes(k) PROVE Vanishes(k + 1)
<1> SUFFICES ASSUME NEW v \in [1..(k + 1) -> Symbol], NEW b \in [1..(k + 1) -> Symbol],
                    \A r, s \in 1..(k + 1) : r # s => b[r] # b[s],
                    \A r \in 1..(k + 1) : Dot(v, Powers(b[r], k + 1)) = 0
             PROVE  \A j \in 1..(k + 1) : v[j] = 0
  BY DEF Vanishes
<1> DEFINE a == b[k + 1]
<1>1. a \in Symbol /\ k + 1 \in 1..(k + 1)
  OBVIOUS
<1> HIDE DEF a
<1>2. PICK h \in [1..(k + 2) -> Symbol] :
        h[k + 2] = 0 /\ \A j \in 1..(k + 1) : v[j] = h[j] \oplus (a \otimes h[j + 1])
  BY <1>1, Division
<1> DEFINE q == [j \in 1..k |-> h[j + 1]]
           bb == [j \in 1..k |-> b[j]]
           P(y) == Dot(q, Powers(y, k))
<1>3. q \in [1..k -> Symbol] /\ bb \in [1..k -> Symbol] /\ \A r \in 1..k : bb[r] = b[r]
  OBVIOUS
<1>4. ASSUME NEW y \in Symbol
      PROVE  P(y) \in Symbol /\ Dot(v, Powers(y, k + 1)) = h[1] \oplus ((y \oplus a) \otimes P(y))
  <2>1. P(y) \in Symbol
    <3> HIDE DEF q
    <3> QED
      BY <1>3, PolynomialSums
  <2> QED
    BY <1>1, <1>2, <2>1, Divided
<1> HIDE DEF q, P, bb
<1>5. h[1] = 0
  <2>1. P(a) \in Symbol /\ Dot(v, Powers(a, k + 1)) = h[1] \oplus ((a \oplus a) \otimes P(a))
    BY <1>1, <1>4
  <2>2. a \oplus a = 0 /\ h[1] \in Symbol
    BY <1>1, <1>2, AddZero
  <2>3. Dot(v, Powers(a, k + 1)) = h[1]
    BY <2>1, <2>2, MulZero, AddZero
  <2> QED
    BY <1>1, <2>3 DEF a
<1>6. ASSUME NEW r \in 1..k PROVE Dot(q, Powers(bb[r], k)) = 0
  <2> DEFINE y == b[r]
  <2>1. r \in 1..(k + 1) /\ r # k + 1
    OBVIOUS
  <2>2. y \in Symbol /\ y # a /\ Dot(v, Powers(y, k + 1)) = 0
    BY <1>1, <2>1 DEF a
  <2> HIDE DEF y
  <2>3. P(y) \in Symbol /\ 0 = 0 \oplus ((y \oplus a) \otimes P(y))
    BY <1>4, <1>5, <2>2
  <2>4. y \oplus a \in Symbol /\ y \oplus a # 0
    BY <1>1, <2>2, AddType, AddTwice
  <2>5. (y \oplus a) \otimes P(y) = 0
    BY <2>3, <2>4, MulType, AddZero
  <2>6. P(y) = 0
    BY <2>3, <2>4, <2>5, NoZeroDivisors
  <2> QED
    BY <1>3, <2>6 DEF P, y
<1>7. \A r, s \in 1..k : r # s => bb[r] # bb[s]
  <2>1. \A r \in 1..k : r \in 1..(k + 1)
    OBVIOUS
  <2> QED
    BY <1>3, <2>1
<1>8. \A j \in 1..k : q[j] = 0
  BY <1>3, <1>6, <1>7, Zenon DEF Vanishes
<1>9. \A j \in 1..(k + 2) : h[j] = 0
  <2>1. ASSUME NEW j \in 1..(k + 2), j # 1, j # k + 2 PROVE h[j] = 0
    <3>1. j - 1 \in 1..k /\ (j - 1) + 1 = j
      BY <2>1
    <3>2. q[j - 1] = h[j]
      BY <3>1 DEF q
    <3> QED
      BY <1>8, <3>1, <3>2
  <2> QED
    BY <1>2, <1>5, <2>1
<1>10. ASSUME NEW j \in 1..(k + 1) PROVE v[j] = 0
  <2>1. j \in 1..(k + 2) /\ j + 1 \in 1..(k + 2)
    OBVIOUS
  <2>2. v[j] = 0 \oplus (a \otimes 0)
    BY <1>2, <1>9, <2>1
  <2> QED
    BY <2>2, MulZero, AddZero, Zero
<1> QED
  BY <1>10

LEMMA Vandermonde == ASSUME NEW k \in Nat PROVE Vanishes(k)
<1> DEFINE S == {n \in Nat : Vanishes(n)}
<1>1. 0 \in S
  BY DEF Vanishes
<1>2. ASSUME NEW n \in Nat, n < k, n \in S PROVE n + 1 \in S
  BY <1>2, VandermondeStep
<1> HIDE DEF S
<1>3. k \in S
  BY <1>1, <1>2, UpTo
<1> QED
  BY <1>3 DEF S

-----------------------------------------------------------------------------
(***************************************************************************)
(* The product of the tables is that of the polynomials.                   *)
(***************************************************************************)
\* Double is the product with 2.
LEMMA MulTwo == ASSUME NEW y \in Symbol PROVE 2 \in Symbol /\ Double(y) = 2 \otimes y
<1>1. 2 \in Symbol /\ 3 \in Symbol /\ 1 \in Symbol /\ 1 \oplus 2 = 3
  BY DEF Symbol, \oplus, add28, Xor, Bit
<1>2. 3 \otimes y = (1 \otimes y) \oplus (2 \otimes y)
  BY <1>1, Distributes
<1>3. 3 \otimes y = y \oplus Double(y)
  BY MulThree DEF Triple, \oplus, add28
<1>4. Double(y) \in Symbol /\ 2 \otimes y \in Symbol /\ 1 \otimes y = y
  BY <1>1, TripleType, MulType, MulOne
<1>5. y \oplus Double(y) = y \oplus (2 \otimes y)
  BY <1>2, <1>3, <1>4
<1>6. \A z \in Symbol : y \oplus z = z \oplus y /\ (z \oplus y) \oplus y = z
  BY AddComm, AddTwice
<1> QED
  BY <1>1, <1>4, <1>5, <1>6

\* The recursions of Product: x shifted, and the sum of what y selects.
LEMMA ShiftedExists ==
    ASSUME NEW a \in Symbol
    PROVE  \E f : /\ f = [l \in 0..7 |-> IF l = 0 THEN a ELSE Double(f[l - 1])]
                  /\ f \in [0..7 -> Symbol]
<1> DEFINE g == [j \in 1..7 |-> [y \in Symbol |-> Double(y)]]
<1>1. \A j \in 1..7, y \in Symbol : g[j][y] = Double(y) /\ g[j][y] \in Symbol
  BY TripleType
<1> HIDE DEF g
<1>2. PICK f : IsRec(f, 7, Symbol, a, g)
  <2>1. 7 \in Nat
    OBVIOUS
  <2> QED
    BY <1>1, <2>1, Recursion
<1>3. f \in [0..7 -> Symbol] /\ f[0] = a
  BY <1>2 DEF IsRec
<1>4. ASSUME NEW l \in 0..7, l # 0 PROVE f[l] = Double(f[l - 1])
  <2>1. l \in 1..7 /\ l - 1 \in 0..7
    BY <1>4
  <2> QED
    BY <1>1, <1>2, <1>3, <2>1 DEF IsRec
<1>5. f = [l \in 0..7 |-> IF l = 0 THEN a ELSE Double(f[l - 1])]
  <2>1. f = [l \in 0..7 |-> f[l]]
    BY <1>3
  <2>2. \A l \in 0..7 : f[l] = IF l = 0 THEN a ELSE Double(f[l - 1])
    BY <1>3, <1>4
  <2> QED
    BY <2>1, <2>2, Zenon
<1> QED
  BY <1>3, <1>5

\* The bits up to j, and bit j alone.
Low(b, j) == Val([l \in 1..8 |-> IF l <= j THEN b[l] ELSE 0])
Unit(j) == Val([l \in 1..8 |-> IF l = j THEN 1 ELSE 0])

LEMMA LowFacts ==
    ASSUME NEW b \in Bits
    PROVE  /\ Low(b, 0) = 0 /\ Low(b, 8) = Val(b) /\ \A j \in 0..8 : Low(b, j) \in Symbol
           /\ \A j \in 1..8 : Low(b, j) =
                IF b[j] = 1 THEN Low(b, j - 1) \oplus Unit(j) ELSE Low(b, j - 1)
<1>1. Low(b, 0) = 0
  BY DEF Low, Val
<1>2. Low(b, 8) = Val(b)
  BY DEF Low, Val
<1>3. ASSUME NEW j \in 0..8 PROVE Low(b, j) \in Symbol
  <2>1. [l \in 1..8 |-> IF l <= j THEN b[l] ELSE 0] \in Bits
    BY BitsType DEF Bits
  <2> QED
    BY <2>1, ValBits DEF Low
<1>4. ASSUME NEW j \in 1..8, b[j] = 1 PROVE Low(b, j) = Low(b, j - 1) \oplus Unit(j)
  <2> DEFINE low == [l \in 1..8 |-> IF l <= j - 1 THEN b[l] ELSE 0]
             one == [l \in 1..8 |-> IF l = j THEN 1 ELSE 0]
  <2>1. low \in Bits /\ one \in Bits
    BY BitsType DEF Bits
  <2>2. [l \in 1..8 |-> Dif(low[l], one[l])] = [l \in 1..8 |-> IF l <= j THEN b[l] ELSE 0]
    BY <1>4, BitsType DEF Dif
  <2>3. Low(b, j - 1) = Val(low) /\ Unit(j) = Val(one)
    BY DEF Low, Unit
  <2> HIDE DEF low, one
  <2>4. Val(low) \oplus Val(one) = Val([l \in 1..8 |-> Dif(low[l], one[l])])
    BY <2>1, XorBits DEF \oplus, add28
  <2> QED
    BY <2>2, <2>3, <2>4 DEF Low
<1>5. ASSUME NEW j \in 1..8, b[j] # 1 PROVE Low(b, j) = Low(b, j - 1)
  <2>1. b[j] = 0
    BY <1>5, BitsType
  <2>2. [l \in 1..8 |-> IF l <= j THEN b[l] ELSE 0]
          = [l \in 1..8 |-> IF l <= j - 1 THEN b[l] ELSE 0]
    BY <2>1
  <2> QED
    BY <2>2 DEF Low
<1> QED
  BY <1>1, <1>2, <1>3, <1>4, <1>5

LEMMA UnitFacts ==
    /\ Unit(1) = 1 /\ \A j \in 1..8 : Unit(j) \in Symbol
    /\ \A j \in 1..7 : Unit(j + 1) = Double(Unit(j))
<1>1. Unit(1) = 1
  BY DEF Unit, Val
<1>2. ASSUME NEW j \in 1..8 PROVE [l \in 1..8 |-> IF l = j THEN 1 ELSE 0] \in Bits
  BY DEF Bits
<1>3. ASSUME NEW j \in 1..7 PROVE Unit(j + 1) = Double(Unit(j))
  <2> DEFINE one == [l \in 1..8 |-> IF l = j THEN 1 ELSE 0]
  <2>1. one \in Bits
    BY <1>2
  <2>2. Shift(one) = [l \in 1..8 |-> IF l = j + 1 THEN 1 ELSE 0]
    BY DEF Shift, Dif
  <2> HIDE DEF one
  <2>3. Double(Val(one)) = Val(Shift(one))
    BY <2>1, DoubleBits
  <2> QED
    BY <2>2, <2>3 DEF Unit, one
<1> QED
  BY <1>1, <1>2, <1>3, ValBits DEF Unit

\* Bit j of a symbol, as Product asks for it.
LEMMA BitOf ==
    ASSUME NEW b \in Bits, NEW j \in 1..8
    PROVE  (Val(b) \div 2^(j - 1)) % 2 = b[j]
<1>1. CASE j = 1
  <2>1. 2^(j - 1) = 1
    BY <1>1
  <2> QED
    BY <1>1, <2>1, ValBits DEF Bit
<1>2. CASE j = 2
  <2>1. 2^(j - 1) = 2
    BY <1>2
  <2> QED
    BY <1>2, <2>1, ValBits DEF Bit
<1>3. CASE j = 3
  <2>1. 2^(j - 1) = 4
    BY <1>3
  <2> QED
    BY <1>3, <2>1, ValBits DEF Bit
<1>4. CASE j = 4
  <2>1. 2^(j - 1) = 8
    BY <1>4
  <2> QED
    BY <1>4, <2>1, ValBits DEF Bit
<1>5. CASE j = 5
  <2>1. 2^(j - 1) = 16
    BY <1>5
  <2> QED
    BY <1>5, <2>1, ValBits DEF Bit
<1>6. CASE j = 6
  <2>1. 2^(j - 1) = 32
    BY <1>6
  <2> QED
    BY <1>6, <2>1, ValBits DEF Bit
<1>7. CASE j = 7
  <2>1. 2^(j - 1) = 64
    BY <1>7
  <2> QED
    BY <1>7, <2>1, ValBits DEF Bit
<1>8. CASE j = 8
  <2>1. 2^(j - 1) = 128
    BY <1>8
  <2> QED
    BY <1>8, <2>1, ValBits DEF Bit
<1> QED
  BY <1>1, <1>2, <1>3, <1>4, <1>5, <1>6, <1>7, <1>8

\* multiply28, read from the tables, is the product of the polynomials.
LEMMA Multiplies ==
    ASSUME NEW a \in Symbol, NEW y \in Symbol
    PROVE  Product(a, y) = multiply28(a, y)
<1> DEFINE Solves(f) == f = [l \in 0..7 |-> IF l = 0 THEN a ELSE Double(f[l - 1])]
           Adds(s, f) == s = [l \in 0..8 |-> IF l = 0 THEN 0
                           ELSE IF (y \div 2^(l - 1)) % 2 = 1 THEN Xor(s[l - 1], f[l - 1])
                           ELSE s[l - 1]]
           Shifted == CHOOSE f : Solves(f)
           Sum == CHOOSE s : Adds(s, Shifted)
<1>1. Product(a, y) = Sum[8]
  BY Zenon DEF Product
<1>2. Solves(Shifted)
  <2>1. \E f : Solves(f)
    BY ShiftedExists
  <2> HIDE DEF Solves
  <2> QED
    BY <2>1
<1> HIDE DEF Shifted
<1>3. Shifted[0] = a /\ \A l \in 1..7 : Shifted[l] = Double(Shifted[l - 1])
  <2> DEFINE f == Shifted
  <2>1. f = [l \in 0..7 |-> IF l = 0 THEN a ELSE Double(f[l - 1])]
    BY <1>2
  <2> HIDE DEF f
  <2>2. \A l \in 0..7 : f[l] = IF l = 0 THEN a ELSE Double(f[l - 1])
    BY <2>1, Zenon
  <2> QED
    BY <2>2 DEF f
<1>4. PICK b \in Bits : y = Val(b)
  BY SymbolBits
<1>5. \A j \in 1..8 : Shifted[j - 1] = Unit(j) \otimes a /\ Shifted[j - 1] \in Symbol
  <2> DEFINE S == {n \in Nat : n <= 7 => Shifted[n] = Unit(n + 1) \otimes a}
  <2>1. 0 \in S
    BY <1>3, UnitFacts, MulOne
  <2>2. ASSUME NEW n \in Nat, n < 7, n \in S PROVE n + 1 \in S
    <3>1. n + 1 \in 1..7 /\ (n + 1) - 1 = n /\ n + 1 \in 1..8
      BY <2>2
    <3>2. Shifted[n] = Unit(n + 1) \otimes a /\ Unit(n + 1) \in Symbol
      BY <2>2, <3>1, UnitFacts
    <3>3. Shifted[n + 1] = 2 \otimes (Unit(n + 1) \otimes a) /\ 2 \in Symbol
      BY <1>3, <3>1, <3>2, MulType, MulTwo
    <3>4. Unit((n + 1) + 1) = 2 \otimes Unit(n + 1)
      BY <3>1, <3>2, UnitFacts, MulTwo
    <3>5. Shifted[n + 1] = Unit((n + 1) + 1) \otimes a
      BY <3>2, <3>3, <3>4, MulAssoc
    <3> QED
      BY <3>5
  <2>3. 7 \in Nat
    OBVIOUS
  <2> HIDE DEF S
  <2>4. \A n \in Nat : n <= 7 => n \in S
    BY <2>1, <2>2, <2>3, UpTo
  <2>5. ASSUME NEW j \in 1..8 PROVE Shifted[j - 1] = Unit(j) \otimes a
    <3>1. j - 1 \in Nat /\ j - 1 <= 7 /\ (j - 1) + 1 = j
      OBVIOUS
    <3>2. j - 1 \in S
      BY <2>4, <3>1
    <3> QED
      BY <3>1, <3>2 DEF S
  <2> QED
    BY <2>5, UnitFacts, MulType
<1>6. Adds(Sum, Shifted)
  <2> DEFINE g == [j \in 1..8 |-> [z \in Symbol |->
                     IF b[j] = 1 THEN z \oplus Shifted[j - 1] ELSE z]]
  <2>1. ASSUME NEW j \in 1..8, NEW z \in Symbol
        PROVE  /\ g[j][z] = IF b[j] = 1 THEN z \oplus Shifted[j - 1] ELSE z
               /\ g[j][z] \in Symbol
    BY <1>5, AddType
  <2> HIDE DEF g
  <2>2. PICK s : IsRec(s, 8, Symbol, 0, g)
    <3>1. 8 \in Nat
      OBVIOUS
    <3> QED
      BY <2>1, <3>1, Zero, Recursion
  <2>3. s \in [0..8 -> Symbol] /\ s[0] = 0
    BY <2>2 DEF IsRec
  <2>4. ASSUME NEW l \in 0..8
        PROVE  s[l] = IF l = 0 THEN 0
                      ELSE IF (y \div 2^(l - 1)) % 2 = 1 THEN Xor(s[l - 1], Shifted[l - 1])
                      ELSE s[l - 1]
    <3>1. CASE l = 0
      BY <2>3, <3>1
    <3>2. CASE l # 0
      <4>1. l \in 1..8 /\ l - 1 \in 0..8
        BY <3>2
      <4>2. (y \div 2^(l - 1)) % 2 = b[l]
        BY <1>4, <4>1, BitOf
      <4>3. s[l - 1] \in Symbol
        BY <2>3, <4>1
      <4>4. s[l] = g[l][s[l - 1]]
        BY <2>2, <4>1 DEF IsRec
      <4>5. s[l] = IF b[l] = 1 THEN s[l - 1] \oplus Shifted[l - 1] ELSE s[l - 1]
        BY <2>1, <4>1, <4>3, <4>4
      <4> QED
        BY <3>2, <4>2, <4>5, Zenon DEF \oplus, add28
    <3> QED
      BY <3>1, <3>2
  <2>5. Adds(s, Shifted)
    <3>1. s = [l \in 0..8 |-> s[l]]
      BY <2>3
    <3> QED
      BY <2>4, <3>1, Zenon
  <2> HIDE DEF Adds
  <2> QED
    BY <2>5
<1>7. Sum[0] = 0 /\ \A j \in 1..8 : Sum[j] = IF b[j] = 1 THEN Sum[j - 1] \oplus Shifted[j - 1]
                                             ELSE Sum[j - 1]
  <2> DEFINE s == Sum
  <2>1. s = [l \in 0..8 |-> IF l = 0 THEN 0
                           ELSE IF (y \div 2^(l - 1)) % 2 = 1 THEN Xor(s[l - 1], Shifted[l - 1])
                           ELSE s[l - 1]]
    BY <1>6
  <2> HIDE DEF s
  <2>2. \A l \in 0..8 : s[l] = IF l = 0 THEN 0
                           ELSE IF (y \div 2^(l - 1)) % 2 = 1 THEN Xor(s[l - 1], Shifted[l - 1])
                           ELSE s[l - 1]
    BY <2>1, Zenon
  <2>3. 0 \in 0..8 /\ \A j \in 1..8 : j \in 0..8 /\ j # 0
    OBVIOUS
  <2>4. \A j \in 1..8 : (y \div 2^(j - 1)) % 2 = b[j]
    BY <1>4, BitOf
  <2>5. s[0] = 0 /\ \A j \in 1..8 : s[j] =
          IF b[j] = 1 THEN s[j - 1] \oplus Shifted[j - 1] ELSE s[j - 1]
    BY <2>2, <2>3, <2>4, Zenon DEF \oplus, add28
  <2> QED
    BY <2>5 DEF s
<1> HIDE DEF Sum
<1>8. Sum[8] = Low(b, 8) \otimes a
  <2> DEFINE S == {n \in Nat : n <= 8 => Sum[n] = Low(b, n) \otimes a}
  <2>1. 0 \in S
    BY <1>7, LowFacts, MulZero
  <2>2. ASSUME NEW n \in Nat, n < 8, n \in S PROVE n + 1 \in S
    <3>1. n + 1 \in 1..8 /\ (n + 1) - 1 = n /\ n \in 0..8
      BY <2>2
    <3>2. Sum[n] = Low(b, n) \otimes a
      BY <2>2
    <3>3. Sum[n + 1] = Low(b, n + 1) \otimes a
      <4>1. CASE b[n + 1] = 1
        <5>1. Sum[n + 1] = (Low(b, n) \otimes a) \oplus (Unit(n + 1) \otimes a)
          BY <1>5, <1>7, <3>1, <3>2, <4>1
        <5>2. Low(b, n + 1) = Low(b, n) \oplus Unit(n + 1)
          BY <3>1, <4>1, LowFacts
        <5>3. Low(b, n) \in Symbol /\ Unit(n + 1) \in Symbol
          BY <3>1, LowFacts, UnitFacts
        <5> QED
          BY <5>1, <5>2, <5>3, Distributes
      <4>2. CASE b[n + 1] # 1
        BY <1>7, <3>1, <3>2, <4>2, LowFacts
      <4> QED
        BY <4>1, <4>2
    <3> QED
      BY <3>3
  <2>3. 8 \in Nat
    OBVIOUS
  <2> HIDE DEF S
  <2>4. 8 \in S
    BY <2>1, <2>2, <2>3, UpTo
  <2> QED
    BY <2>4 DEF S
<1>9. Sum[8] = a \otimes y
  BY <1>4, <1>8, LowFacts, MulComm
<1> QED
  BY <1>1, <1>9 DEF \otimes

-----------------------------------------------------------------------------
(***************************************************************************)
(* The equations the decoder builds.                                       *)
(***************************************************************************)
Equations(k) == Seq([1..(k + 1) -> Symbol])

\* X has the rows pick[1], pick[2] and so on, each with its symbol.
Picked(X, pick, k, code, n) ==
  /\ X \in Equations(k) /\ Len(X) <= k
  /\ pick \in [1..Len(X) -> 1..n]
  /\ \A r, s \in 1..Len(X) : r # s => pick[r] # pick[s]
  /\ \A r \in 1..Len(X) :
       /\ code[pick[r]] \in Symbol
       /\ X[r][k + 1] = code[pick[r]]
       /\ \A j \in 1..k : X[r][j] = Row(pick[r], k)[j]

\* What is needed of symbols as numbers, and of Missing.
LEMMA SymbolRange == \A y \in Symbol : y \in Nat /\ y <= 255
BY DEF Symbol

LEMMA MissingIsNone == Missing \in Nat /\ ~ (Missing <= 256) /\ Missing \notin Symbol
<1>1. Missing \in Nat /\ Missing > 256
  BY CodeAssumption
<1> QED
  BY <1>1, SymbolRange

\* An equation: a row and its right side.
LEMMA RowAppended ==
    ASSUME NEW k \in Nat, NEW r \in Nat \ {0}, NEW y \in Symbol
    PROVE  /\ Append(Row(r, k), y) \in [1..(k + 1) -> Symbol]
           /\ Append(Row(r, k), y)[k + 1] = y
           /\ \A j \in 1..k : Append(Row(r, k), y)[j] = Row(r, k)[j]
<1> DEFINE v == Row(r, k)
<1>1. v \in [1..k -> Symbol]
  BY RowType
<1> HIDE DEF v
<1>2. v \in Seq(Symbol) /\ Len(v) = k
  BY <1>1, SeqDef
<1>3. /\ Append(v, y) \in Seq(Symbol) /\ Len(Append(v, y)) = k + 1
      /\ Append(v, y)[k + 1] = y /\ \A j \in 1..k : Append(v, y)[j] = v[j]
  BY <1>2
<1>4. Append(v, y) \in [1..(k + 1) -> Symbol]
  BY <1>3, LenProperties
<1> QED
  BY <1>3, <1>4 DEF v

\* One symbol more.
LEMMA PickedNext ==
    ASSUME NEW k \in Nat, NEW n \in Nat, NEW code, NEW r \in 1..n, code[r] \in Symbol,
           NEW X, NEW pick, Picked(X, pick, k, code, r - 1), Len(X) < k
    PROVE  \E p : Picked(Append(X, Append(Row(r, k), code[r])), p, k, code, r)
<1> DEFINE row == Append(Row(r, k), code[r])
           XX == Append(X, row)
           N == Len(X)
           p == [l \in 1..(N + 1) |-> IF l = N + 1 THEN r ELSE pick[l]]
<1>1. /\ row \in [1..(k + 1) -> Symbol] /\ row[k + 1] = code[r]
      /\ \A j \in 1..k : row[j] = Row(r, k)[j]
  <2>1. r \in Nat \ {0}
    OBVIOUS
  <2> QED
    BY <2>1, RowAppended
<1> HIDE DEF row
<1>2. X \in Equations(k) /\ N \in Nat /\ N <= k
  BY DEF Picked, Equations
<1>3. XX \in Equations(k) /\ Len(XX) = N + 1 /\ XX[N + 1] = row /\ \A l \in 1..N : XX[l] = X[l]
  BY <1>1, <1>2 DEF Equations
<1>4. N + 1 <= k
  BY <1>2
<1>5. /\ pick \in [1..N -> 1..(r - 1)]
      /\ \A l, s \in 1..N : l # s => pick[l] # pick[s]
      /\ \A l \in 1..N : /\ code[pick[l]] \in Symbol /\ X[l][k + 1] = code[pick[l]]
                         /\ \A j \in 1..k : X[l][j] = Row(pick[l], k)[j]
  BY DEF Picked
<1> HIDE DEF N, XX
<1>6. ASSUME NEW l \in 1..(N + 1), l # N + 1 PROVE l \in 1..N
  BY <1>2, <1>6
<1>7. p[N + 1] = r /\ \A l \in 1..N : p[l] = pick[l] /\ pick[l] \in 1..(r - 1)
  BY <1>2, <1>5
<1>8. p \in [1..(N + 1) -> 1..r]
  BY <1>5, <1>6, <1>7
<1> HIDE DEF p
<1>9. ASSUME NEW l \in 1..(N + 1), NEW s \in 1..(N + 1), l # s PROVE p[l] # p[s]
  <2>1. CASE l = N + 1 \/ s = N + 1
    BY <1>6, <1>7, <1>9, <2>1
  <2>2. CASE l # N + 1 /\ s # N + 1
    BY <1>5, <1>6, <1>7, <1>9, <2>2
  <2> QED
    BY <2>1, <2>2
<1>10. ASSUME NEW l \in 1..(N + 1)
       PROVE  /\ code[p[l]] \in Symbol /\ XX[l][k + 1] = code[p[l]]
              /\ \A j \in 1..k : XX[l][j] = Row(p[l], k)[j]
  <2>1. CASE l = N + 1
    BY <1>1, <1>3, <1>7, <2>1
  <2>2. CASE l # N + 1
    <3>1. l \in 1..N /\ p[l] = pick[l] /\ XX[l] = X[l]
      BY <1>3, <1>6, <1>7, <2>2
    <3> QED
      BY <1>5, <3>1, Zenon
  <2> QED
    BY <2>1, <2>2
<1>11. Picked(XX, p, k, code, r)
  BY <1>3, <1>4, <1>8, <1>9, <1>10 DEF Picked
<1> QED
  BY <1>11 DEF XX, row

\* newMatrix picks rows, whatever is missing.
LEMMA NewMatrix ==
    ASSUME NEW k \in Nat, NEW n \in Nat, NEW code \in [1..n -> Symbol \cup {Missing}]
    PROVE  \E pick : Picked(newMatrix(k, code), pick, k, code, n)
<1> DEFINE Solves(f) == f = [r \in 0..n |->
                          IF r = 0 THEN <<>>
                          ELSE IF Len(f[r - 1]) < k /\ code[r] <= 256
                               THEN Append(f[r - 1], Append(Row(r, k), code[r]))
                               ELSE f[r - 1]]
           g == [r \in 1..n |-> [X \in Equations(k) |->
                   IF Len(X) < k /\ code[r] <= 256
                   THEN Append(X, Append(Row(r, k), code[r])) ELSE X]]
           rows == CHOOSE f : Solves(f)
<1>1. newMatrix(k, code) = rows[n]
  <2>1. Len(code) = n
    OBVIOUS
  <2> QED
    BY <2>1, Zenon DEF newMatrix
<1>2. ASSUME NEW r \in 1..n PROVE code[r] <= 256 <=> code[r] \in Symbol
  <2>1. code[r] \in Symbol \/ code[r] = Missing
    OBVIOUS
  <2> QED
    BY <2>1, MissingIsNone, SymbolRange
<1>3. ASSUME NEW r \in 1..n, NEW X \in Equations(k)
      PROVE  /\ g[r][X] = IF Len(X) < k /\ code[r] <= 256
                          THEN Append(X, Append(Row(r, k), code[r])) ELSE X
             /\ g[r][X] \in Equations(k)
  <2>1. ASSUME code[r] \in Symbol PROVE Append(X, Append(Row(r, k), code[r])) \in Equations(k)
    <3>1. Append(Row(r, k), code[r]) \in [1..(k + 1) -> Symbol]
      <4>1. r \in Nat \ {0}
        OBVIOUS
      <4> QED
        BY <2>1, <4>1, RowAppended
    <3> QED
      BY <3>1 DEF Equations
  <2> QED
    BY <1>2, <2>1
<1> HIDE DEF g
<1>4. <<>> \in Equations(k)
  BY DEF Equations
<1>5. PICK f : IsRec(f, n, Equations(k), <<>>, g)
  BY <1>3, <1>4, Recursion
<1>6. f \in [0..n -> Equations(k)] /\ f[0] = <<>>
  BY <1>5 DEF IsRec
<1>7. ASSUME NEW r \in 0..n
      PROVE  f[r] = IF r = 0 THEN <<>>
                    ELSE IF Len(f[r - 1]) < k /\ code[r] <= 256
                         THEN Append(f[r - 1], Append(Row(r, k), code[r]))
                         ELSE f[r - 1]
  <2>1. CASE r = 0
    BY <1>6, <2>1
  <2>2. CASE r # 0
    <3>1. r \in 1..n /\ r - 1 \in 0..n
      BY <2>2
    <3>2. f[r - 1] \in Equations(k) /\ f[r] = g[r][f[r - 1]]
      BY <1>5, <1>6, <3>1 DEF IsRec
    <3> QED
      BY <1>3, <2>2, <3>1, <3>2
  <2> QED
    BY <2>1, <2>2
<1>8. Solves(rows)
  <2>1. f = [r \in 0..n |-> f[r]]
    BY <1>6
  <2>2. Solves(f)
    BY <1>7, <2>1, Zenon
  <2> HIDE DEF Solves
  <2> QED
    BY <2>2
<1> HIDE DEF rows
<1>9. /\ rows[0] = <<>>
      /\ \A r \in 1..n : rows[r] = IF Len(rows[r - 1]) < k /\ code[r] <= 256
                                   THEN Append(rows[r - 1], Append(Row(r, k), code[r]))
                                   ELSE rows[r - 1]
  <2> DEFINE h == rows
  <2>1. h = [r \in 0..n |->
                          IF r = 0 THEN <<>>
                          ELSE IF Len(h[r - 1]) < k /\ code[r] <= 256
                               THEN Append(h[r - 1], Append(Row(r, k), code[r]))
                               ELSE h[r - 1]]
    BY <1>8
  <2> HIDE DEF h
  <2>2. \A r \in 0..n : h[r] =
                          IF r = 0 THEN <<>>
                          ELSE IF Len(h[r - 1]) < k /\ code[r] <= 256
                               THEN Append(h[r - 1], Append(Row(r, k), code[r]))
                               ELSE h[r - 1]
    BY <2>1, Zenon
  <2>3. 0 \in 0..n /\ \A r \in 1..n : r \in 0..n /\ r # 0
    OBVIOUS
  <2>4. /\ h[0] = <<>>
        /\ \A r \in 1..n : h[r] = IF Len(h[r - 1]) < k /\ code[r] <= 256
                                   THEN Append(h[r - 1], Append(Row(r, k), code[r]))
                                   ELSE h[r - 1]
    BY <2>2, <2>3, Zenon
  <2> QED
    BY <2>4 DEF h
<1> DEFINE S == {r \in Nat : r <= n => \E p : Picked(rows[r], p, k, code, r)}
<1>10. 0 \in S
  <2>1. Picked(<<>>, [l \in 1..0 |-> 0], k, code, 0)
    BY <1>4 DEF Picked
  <2> QED
    BY <1>9, <2>1
<1>11. ASSUME NEW r \in Nat, r < n, r \in S PROVE r + 1 \in S
  <2>1. r + 1 \in 1..n /\ (r + 1) - 1 = r
    BY <1>11
  <2>2. PICK p : Picked(rows[r], p, k, code, r)
    BY <1>11
  <2>3. \E q : Picked(rows[r + 1], q, k, code, r + 1)
    <3>1. CASE Len(rows[r]) < k /\ code[r + 1] <= 256
      <4>1. code[r + 1] \in Symbol
        BY <1>2, <2>1, <3>1
      <4>2. rows[r + 1] = Append(rows[r], Append(Row(r + 1, k), code[r + 1]))
        BY <1>9, <2>1, <3>1
      <4> DEFINE X == rows[r]
                 l == r + 1
      <4>3. Picked(X, p, k, code, l - 1) /\ Len(X) < k /\ l \in 1..n /\ code[l] \in Symbol
        BY <2>1, <2>2, <3>1, <4>1
      <4> HIDE DEF X, l
      <4>4. \E q : Picked(Append(X, Append(Row(l, k), code[l])), q, k, code, l)
        BY <4>3, PickedNext
      <4> QED
        BY <4>2, <4>4 DEF X, l
    <3>2. CASE ~ (Len(rows[r]) < k /\ code[r + 1] <= 256)
      <4>1. rows[r + 1] = rows[r]
        BY <1>9, <2>1, <3>2
      <4>2. Picked(rows[r], p, k, code, r + 1)
        <5>1. 1..r \subseteq 1..(r + 1)
          OBVIOUS
        <5> QED
          BY <2>2, <5>1 DEF Picked
      <4> QED
        BY <4>1, <4>2
    <3> QED
      BY <3>1, <3>2
  <2> QED
    BY <2>3
<1> HIDE DEF S
<1>12. n \in S
  <2>1. \A r \in Nat : r <= n => r \in S
    BY <1>10, <1>11, UpTo
  <2> QED
    BY <2>1
<1> QED
  BY <1>1, <1>12 DEF S

-----------------------------------------------------------------------------
(***************************************************************************)
(* Rows, and what becomes of their products with a vector.                 *)
(***************************************************************************)
Entries(w, k) == \A j \in 1..k : w[j] \in Symbol

\* Dot, as a sum.
LEMMA SumsOf ==
    ASSUME NEW k \in Nat, NEW v \in [1..k -> Symbol], NEW w, Entries(w, k)
    PROVE  \E p : /\ IsSum(Sums(v, w), p, k) /\ \A j \in 1..k : p[j] = v[j] \otimes w[j]
                  /\ Dot(v, w) = Sums(v, w)[k] /\ Dot(v, w) \in Symbol
<1> DEFINE p == [j \in 1..k |-> v[j] \otimes w[j]]
<1>1. \A j \in 1..k : p[j] = v[j] \otimes w[j]
  OBVIOUS
<1>2. \A j \in 1..k : w[j] \in Symbol
  BY DEF Entries
<1>3. IsSum(Sums(v, w), p, k)
  BY <1>2, SumsAreSums
<1>4. Dot(v, w) = Sums(v, w)[k] /\ Dot(v, w) \in Symbol
  BY <1>2, SumsAreSums
<1> HIDE DEF p
<1> QED
  BY <1>1, <1>3, <1>4

\* Only the entries up to k matter.
LEMMA DotAlike ==
    ASSUME NEW k \in Nat, NEW v \in [1..k -> Symbol], NEW w, Entries(w, k), NEW u, Entries(u, k),
           \A j \in 1..k : w[j] = u[j]
    PROVE  Dot(v, w) = Dot(v, u) /\ \A n \in 0..k : Sums(v, w)[n] = Sums(v, u)[n]
<1>1. PICK p : IsSum(Sums(v, w), p, k) /\ (\A j \in 1..k : p[j] = v[j] \otimes w[j])
               /\ Dot(v, w) = Sums(v, w)[k]
  BY SumsOf
<1>2. PICK q : IsSum(Sums(v, u), q, k) /\ (\A j \in 1..k : q[j] = v[j] \otimes u[j])
               /\ Dot(v, u) = Sums(v, u)[k]
  BY SumsOf
<1>3. \A j \in 1..k : p[j] = q[j]
  BY <1>1, <1>2
<1>4. ASSUME NEW n \in 0..k PROVE Sums(v, w)[n] = Sums(v, u)[n]
  <2>1. n \in Nat /\ n <= k /\ \A j \in 1..n : p[j] = q[j]
    BY <1>3
  <2> QED
    BY <1>1, <1>2, <2>1, SumsAlike
<1> QED
  BY <1>1, <1>2, <1>4

\* Dot is commutative and linear.
LEMMA DotComm ==
    ASSUME NEW k \in Nat, NEW v \in [1..k -> Symbol], NEW w \in [1..k -> Symbol]
    PROVE  Dot(v, w) = Dot(w, v)
<1>1. Entries(v, k) /\ Entries(w, k)
  BY DEF Entries
<1>2. PICK p : IsSum(Sums(v, w), p, k) /\ (\A j \in 1..k : p[j] = v[j] \otimes w[j])
               /\ Dot(v, w) = Sums(v, w)[k]
  BY <1>1, SumsOf
<1>3. PICK q : IsSum(Sums(w, v), q, k) /\ (\A j \in 1..k : q[j] = w[j] \otimes v[j])
               /\ Dot(w, v) = Sums(w, v)[k]
  BY <1>1, SumsOf
<1>4. \A j \in 1..k : p[j] = q[j]
  BY <1>2, <1>3, MulComm
<1> QED
  BY <1>2, <1>3, <1>4, SumsAlike

LEMMA DotLinear ==
    ASSUME NEW k \in Nat, NEW v \in [1..k -> Symbol], NEW d \in Symbol,
           NEW w, Entries(w, k), NEW u, Entries(u, k), NEW z, Entries(z, k),
           \A j \in 1..k : w[j] = u[j] \oplus (d \otimes z[j])
    PROVE  Dot(v, w) = Dot(v, u) \oplus (d \otimes Dot(v, z))
<1>1. PICK p : IsSum(Sums(v, w), p, k) /\ (\A j \in 1..k : p[j] = v[j] \otimes w[j])
               /\ Dot(v, w) = Sums(v, w)[k]
  BY SumsOf
<1>2. PICK q : IsSum(Sums(v, u), q, k) /\ (\A j \in 1..k : q[j] = v[j] \otimes u[j])
               /\ Dot(v, u) = Sums(v, u)[k]
  BY SumsOf
<1>3. PICK r : IsSum(Sums(v, z), r, k) /\ (\A j \in 1..k : r[j] = v[j] \otimes z[j])
               /\ Dot(v, z) = Sums(v, z)[k]
  BY SumsOf
<1>4. ASSUME NEW j \in 1..k PROVE p[j] = q[j] \oplus (d \otimes r[j])
  <2> DEFINE V == v[j]
             U == u[j]
             Z == z[j]
  <2>1. V \in Symbol /\ U \in Symbol /\ Z \in Symbol /\ w[j] = U \oplus (d \otimes Z)
    BY DEF Entries
  <2>2. p[j] = V \otimes w[j] /\ q[j] = V \otimes U /\ r[j] = V \otimes Z
    BY <1>1, <1>2, <1>3
  <2> HIDE DEF V, U, Z
  <2>3. V \otimes (U \oplus (d \otimes Z)) = (V \otimes U) \oplus (V \otimes (d \otimes Z))
    BY <2>1, MulType, Distributes
  <2>4. V \otimes (d \otimes Z) = d \otimes (V \otimes Z)
    <3>1. V \otimes (d \otimes Z) = (V \otimes d) \otimes Z /\ V \otimes d = d \otimes V
      BY <2>1, MulAssoc, MulComm
    <3>2. (d \otimes V) \otimes Z = d \otimes (V \otimes Z)
      BY <2>1, MulAssoc
    <3> QED
      BY <3>1, <3>2
  <2> QED
    BY <2>1, <2>2, <2>3, <2>4
<1> DEFINE s == Sums(v, w)
           t == Sums(v, u)
           y == Sums(v, z)
<1>5. IsSum(s, p, k) /\ IsSum(t, q, k) /\ IsSum(y, r, k)
  BY <1>1, <1>2, <1>3
<1> HIDE DEF s, t, y
<1>6. s[k] = t[k] \oplus (d \otimes y[k])
  BY <1>4, <1>5, SumsLinear
<1> QED
  BY <1>1, <1>2, <1>3, <1>6 DEF s, t, y

\* One place of the vector changes.
LEMMA DotChange ==
    ASSUME NEW k \in Nat, NEW v \in [1..k -> Symbol], NEW a \in 1..k, NEW d \in Symbol,
           NEW vv \in [1..k -> Symbol], vv[a] = v[a] \oplus d,
           \A j \in 1..k : j # a => vv[j] = v[j], NEW w, Entries(w, k)
    PROVE  Dot(vv, w) = Dot(v, w) \oplus (d \otimes w[a])
<1> DEFINE r == [j \in 1..k |-> IF j = a THEN w[a] ELSE 0]
           y == [n \in 0..k |-> IF n < a THEN 0 ELSE w[a]]
<1>1. vv[a] = v[a] \oplus d /\ \A j \in 1..k : j # a => vv[j] = v[j]
  OBVIOUS
<1>2. PICK p : IsSum(Sums(vv, w), p, k) /\ (\A j \in 1..k : p[j] = vv[j] \otimes w[j])
               /\ Dot(vv, w) = Sums(vv, w)[k]
  BY <1>1, SumsOf
<1>3. PICK q : IsSum(Sums(v, w), q, k) /\ (\A j \in 1..k : q[j] = v[j] \otimes w[j])
               /\ Dot(v, w) = Sums(v, w)[k]
  BY SumsOf
<1>4. w[a] \in Symbol /\ 0 \in Symbol
  BY Zero DEF Entries
<1>5. IsSum(y, r, k)
  <2>1. y \in [0..k -> Symbol] /\ y[0] = 0
    BY <1>4
  <2>2. ASSUME NEW j \in 1..k PROVE r[j] \in Symbol /\ y[j] = y[j - 1] \oplus r[j]
    <3>1. j \in 0..k /\ j - 1 \in 0..k
      OBVIOUS
    <3>2. CASE j < a
      <4>1. r[j] = 0 /\ y[j] = 0 /\ y[j - 1] = 0
        BY <3>1, <3>2
      <4> QED
        BY <1>4, <4>1, AddZero
    <3>3. CASE j = a
      <4>1. r[j] = w[a] /\ y[j] = w[a] /\ y[j - 1] = 0
        BY <3>1, <3>3
      <4> QED
        BY <1>4, <4>1, AddZero
    <3>4. CASE j > a
      <4>1. r[j] = 0 /\ y[j] = w[a] /\ y[j - 1] = w[a]
        BY <3>1, <3>4
      <4> QED
        BY <1>4, <4>1, AddZero
    <3> QED
      BY <3>2, <3>3, <3>4
  <2> HIDE DEF y, r
  <2> QED
    BY <2>1, <2>2 DEF IsSum
<1>6. y[k] = w[a]
  OBVIOUS
<1>7. ASSUME NEW j \in 1..k PROVE p[j] = q[j] \oplus (d \otimes r[j])
  <2>1. v[j] \in Symbol /\ w[j] \in Symbol /\ v[j] \otimes w[j] \in Symbol
    BY MulType DEF Entries
  <2>2. CASE j = a
    <3>1. r[j] = w[j] /\ vv[j] = v[j] \oplus d
      BY <1>1, <2>2
    <3> HIDE DEF r
    <3> QED
      BY <1>2, <1>3, <2>1, <3>1, Distributes
  <2>3. CASE j # a
    <3>1. r[j] = 0 /\ vv[j] = v[j]
      BY <1>1, <2>3
    <3> HIDE DEF r
    <3> QED
      BY <1>2, <1>3, <2>1, <3>1, MulZero, AddZero
  <2> QED
    BY <2>2, <2>3
<1> DEFINE s == Sums(vv, w)
           t == Sums(v, w)
<1>8. IsSum(s, p, k) /\ IsSum(t, q, k) /\ Dot(vv, w) = s[k] /\ Dot(v, w) = t[k]
  BY <1>2, <1>3
<1> HIDE DEF s, t, y, r
<1>9. s[k] = t[k] \oplus (d \otimes y[k])
  <2>1. IsSum(s, p, k) /\ IsSum(t, q, k) /\ IsSum(y, r, k) /\
        \A j \in 1..k : p[j] = q[j] \oplus (d \otimes r[j])
    BY <1>5, <1>7, <1>8
  <2> QED
    BY <2>1, SumsLinear
<1> QED
  BY <1>1, <1>6, <1>8, <1>9 DEF s, t

\* Zeros on one side or the other.
LEMMA DotZero ==
    ASSUME NEW k \in Nat, NEW v \in [1..k -> Symbol], NEW w, Entries(w, k),
           \A j \in 1..k : v[j] = 0 \/ w[j] = 0
    PROVE  Dot(v, w) = 0
<1>1. PICK p : IsSum(Sums(v, w), p, k) /\ (\A j \in 1..k : p[j] = v[j] \otimes w[j])
               /\ Dot(v, w) = Sums(v, w)[k]
  BY SumsOf
<1>2. \A j \in 1..k : p[j] = 0
  BY <1>1, MulZero
<1> DEFINE s == Sums(v, w)
<1>3. IsSum(s, p, k) /\ Dot(v, w) = s[k]
  BY <1>1
<1> HIDE DEF s
<1>4. s[k] = s[0]
  BY <1>2, <1>3, SumsStay
<1> QED
  BY <1>3, <1>4 DEF IsSum

-----------------------------------------------------------------------------
(***************************************************************************)
(* Square systems.                                                         *)
(***************************************************************************)
Rows(X, k) == \A r \in 1..k : X[r] \in [1..(k + 1) -> Symbol]

\* Only zero is mapped to zero.
Nonsingular(X, k) ==
  \A v \in [1..k -> Symbol] :
    (\A r \in 1..k : Dot(v, X[r]) = 0) => \A j \in 1..k : v[j] = 0

\* v is a solution.
Solves(v, X, k) == \A r \in 1..k : Dot(v, X[r]) = X[r][k + 1]

\* The first l columns are zero below the diagonal, and not on it.
Cleared(X, k, l) ==
  \A j \in 1..k : j <= l => X[j][j] # 0 /\ \A r \in 1..k : r > j => X[r][j] = 0

LEMMA RowEntries == ASSUME NEW k \in Nat, NEW X, Rows(X, k), NEW r \in 1..k PROVE Entries(X[r], k)
<1>1. X[r] \in [1..(k + 1) -> Symbol]
  BY DEF Rows
<1> QED
  BY <1>1 DEF Entries

\* When some columns are cleared and the next has no entry but above the
\* diagonal, the system is singular: a vector that is 1 there and 0 beyond is
\* completed, from the last cleared column to the first, to one that is mapped
\* to zero.
LEMMA PivotIsNotZero ==
    ASSUME NEW k \in Nat, NEW X, Rows(X, k), NEW l \in 1..k,
           Nonsingular(X, k), Cleared(X, k, l - 1), \A r \in 1..k : r >= l => X[r][l] = 0
    PROVE  FALSE
<1> DEFINE Kernel(v, t) == /\ v \in [1..k -> Symbol] /\ v[l] = 1
                           /\ \A r \in 1..k : r >= l - t => Dot(v, X[r]) = 0
           S == {t \in Nat : t <= l - 1 => \E v : Kernel(v, t)}
<1>1. 0 \in S
  <2> DEFINE v == [j \in 1..k |-> IF j = l THEN 1 ELSE 0]
  <2>1. v \in [1..k -> Symbol] /\ v[l] = 1 /\ \A j \in 1..k : j # l => v[j] = 0
    BY Zero
  <2> HIDE DEF v
  <2>2. ASSUME NEW r \in 1..k, r >= l PROVE Dot(v, X[r]) = 0
    <3>1. Entries(X[r], k)
      BY RowEntries
    <3>2. \A j \in 1..k : v[j] = 0 \/ X[r][j] = 0
      BY <2>1, <2>2
    <3> QED
      BY <2>1, <3>1, <3>2, DotZero
  <2>3. Kernel(v, 0)
    BY <2>1, <2>2
  <2> QED
    BY <2>3
<1>2. ASSUME NEW t \in Nat, t < l - 1, t \in S PROVE t + 1 \in S
  <2>1. PICK v : Kernel(v, t)
    BY <1>2
  <2> DEFINE a == l - (t + 1)
             e == Dot(v, X[a])
             d == e \otimes inv28(X[a][a])
             vv == [v EXCEPT ![a] = v[a] \oplus d]
  <2>2. a \in 1..k /\ a <= l - 1 /\ a # l /\ l \in 1..k
    BY <1>2
  <2>3. v \in [1..k -> Symbol] /\ v[l] = 1 /\ \A r \in 1..k : r > a => Dot(v, X[r]) = 0
    <3>1. \A r \in 1..k : r > a => r >= l - t
      BY <1>2
    <3> HIDE DEF a
    <3> QED
      BY <2>1, <3>1
  <2> HIDE DEF a
  <2>4. X[a][a] \in Symbol /\ X[a][a] # 0 /\ Entries(X[a], k)
    <3>1. Entries(X[a], k)
      BY <2>2, RowEntries
    <3>2. X[a][a] # 0
      BY <2>2 DEF Cleared
    <3> QED
      BY <2>2, <3>1, <3>2 DEF Entries
  <2>5. e \in Symbol
    BY <2>3, <2>4, SumsOf
  <2> HIDE DEF e
  <2>6. inv28(X[a][a]) \in Symbol /\ X[a][a] \otimes inv28(X[a][a]) = 1 /\ d \in Symbol
    BY <2>4, <2>5, MulInv, MulType
  <2>7. d \otimes X[a][a] = e
    <3> DEFINE q == X[a][a]
               w == inv28(q)
    <3>1. q \in Symbol /\ w \in Symbol /\ q \otimes w = 1 /\ w \otimes q = 1
      BY <2>4, <2>6, MulComm
    <3> HIDE DEF q, w
    <3>2. (e \otimes w) \otimes q = e \otimes (w \otimes q)
      BY <2>5, <3>1, MulAssoc
    <3>3. e \otimes (w \otimes q) = e
      BY <2>5, <3>1, MulOne
    <3> QED
      BY <3>2, <3>3 DEF q, w
  <2> HIDE DEF d
  <2>8. /\ vv \in [1..k -> Symbol] /\ vv[l] = 1
        /\ \A w : Entries(w, k) => Dot(vv, w) = Dot(v, w) \oplus (d \otimes w[a])
    <3>1. /\ vv \in [1..k -> Symbol] /\ vv[a] = v[a] \oplus d
          /\ \A j \in 1..k : j # a => vv[j] = v[j]
      BY <2>2, <2>3, <2>6, AddType
    <3> HIDE DEF vv
    <3> QED
      BY <2>2, <2>3, <2>4, <2>6, <3>1, DotChange
  <2> HIDE DEF vv
  <2>9. ASSUME NEW r \in 1..k, r >= l - (t + 1) PROVE Dot(vv, X[r]) = 0
    <3>1. Entries(X[r], k)
      BY RowEntries
    <3>2. Dot(vv, X[r]) = Dot(v, X[r]) \oplus (d \otimes X[r][a])
      BY <2>8, <3>1
    <3>3. CASE r = a
      <4>1. Dot(v, X[r]) = e /\ X[r][a] = X[a][a]
        BY <3>3 DEF e
      <4> QED
        BY <2>5, <2>7, <3>2, <4>1, AddZero
    <3>4. CASE r # a
      <4>1. r > a
        BY <2>9, <3>4 DEF a
      <4>2. Dot(v, X[r]) = 0
        BY <2>3, <4>1
      <4>3. X[r][a] = 0
        BY <2>2, <4>1 DEF Cleared
      <4> QED
        BY <3>2, <4>2, <4>3, MulZero, AddZero, Zero
    <3> QED
      BY <3>3, <3>4
  <2>10. Kernel(vv, t + 1)
    BY <2>8, <2>9
  <2> QED
    BY <2>10
<1>3. l - 1 \in Nat
  OBVIOUS
<1>4. l - 1 \in S
  <2> HIDE DEF S
  <2> QED
    BY <1>1, <1>2, <1>3, UpTo
<1>5. PICK v : Kernel(v, l - 1)
  BY <1>3, <1>4
<1>6. \A r \in 1..k : r >= l - (l - 1)
  OBVIOUS
<1>7. \A r \in 1..k : Dot(v, X[r]) = 0
  BY <1>5, <1>6
<1>8. v[l] = 0
  BY <1>5, <1>7 DEF Nonsingular
<1> QED
  BY <1>5, <1>8, Zero

\* The matrix that is built: its rows are the powers of different bases.
LEMMA BuiltNonsingular ==
    ASSUME NEW k \in Nat, NEW n \in Nat, n <= 255, NEW code, NEW X, NEW pick,
           Picked(X, pick, k, code, n), Len(X) = k
    PROVE  Nonsingular(X, k) /\ Rows(X, k)
<1>1. /\ pick \in [1..k -> 1..n]
      /\ \A r, s \in 1..k : r # s => pick[r] # pick[s]
      /\ \A r \in 1..k : \A j \in 1..k : X[r][j] = Row(pick[r], k)[j]
  BY DEF Picked
<1>2. Rows(X, k)
  BY DEF Picked, Rows, Equations
<1>3. ASSUME NEW r \in 1..k
      PROVE  /\ pick[r] \in Nat /\ 1 <= pick[r] /\ pick[r] <= 255 /\ Base(pick[r]) \in Symbol
             /\ Entries(Row(pick[r], k), k)
  <2>1. pick[r] \in Nat /\ 1 <= pick[r] /\ pick[r] <= 255
    BY <1>1
  <2>2. pick[r] \in Nat \ {0}
    BY <2>1
  <2> QED
    BY <2>1, <2>2, RowType DEF Entries
<1> SUFFICES ASSUME NEW v \in [1..k -> Symbol], \A r \in 1..k : Dot(v, X[r]) = 0
             PROVE  \A j \in 1..k : v[j] = 0
  BY <1>2 DEF Nonsingular
<1> DEFINE b == [r \in 1..k |-> Base(pick[r])]
<1>4. b \in [1..k -> Symbol] /\ \A r \in 1..k : b[r] = Base(pick[r])
  BY <1>3
<1> HIDE DEF b
<1>5. \A r, s \in 1..k : r # s => b[r] # b[s]
  BY <1>1, <1>3, <1>4, Bases
<1>6. ASSUME NEW r \in 1..k PROVE Dot(v, Powers(b[r], k)) = 0
  <2>1. Powers(b[r], k) = Row(pick[r], k)
    BY <1>4 DEF Row
  <2>2. \A j \in 1..k : X[r][j] = Row(pick[r], k)[j]
    BY <1>1
  <2> DEFINE w == X[r]
             u == Row(pick[r], k)
  <2>3. Entries(w, k) /\ Entries(u, k) /\ \A j \in 1..k : w[j] = u[j]
    BY <1>2, <1>3, <2>2, RowEntries
  <2> HIDE DEF w, u
  <2>4. Dot(v, w) = Dot(v, u)
    BY <2>3, DotAlike
  <2> QED
    BY <2>1, <2>4 DEF w, u
<1>7. Vanishes(k)
  BY Vandermonde
<1> QED
  BY <1>4, <1>5, <1>6, <1>7, Zenon DEF Vanishes

\* Two rows change places.
LEMMA Swapped ==
    ASSUME NEW k \in Nat, NEW X, Rows(X, k), NEW l \in 1..k, NEW a \in l..k, NEW XX,
           XX[l] = X[a], XX[a] = X[l], \A r \in 1..k : r # l /\ r # a => XX[r] = X[r],
           NEW v, Solves(v, X, k), Nonsingular(X, k), Cleared(X, k, l - 1)
    PROVE  Rows(XX, k) /\ Solves(v, XX, k) /\ Nonsingular(XX, k) /\ Cleared(XX, k, l - 1)
<1> DEFINE At(r) == IF r = l THEN a ELSE IF r = a THEN l ELSE r
<1>1. a \in 1..k
  OBVIOUS
<1>2. \A r \in 1..k : At(r) \in 1..k /\ XX[r] = X[At(r)] /\ At(At(r)) = r
  BY <1>1
<1>3. \A j, r \in 1..k : j < l /\ r > j => At(r) > j
  OBVIOUS
<1>4. \A j \in 1..k : j < l => At(j) = j
  OBVIOUS
<1> HIDE DEF At
<1>5. Rows(XX, k)
  BY <1>2 DEF Rows
<1>6. Solves(v, XX, k)
  BY <1>2 DEF Solves
<1>7. Nonsingular(XX, k)
  <2> SUFFICES ASSUME NEW w \in [1..k -> Symbol], \A r \in 1..k : Dot(w, XX[r]) = 0
               PROVE  \A j \in 1..k : w[j] = 0
    BY DEF Nonsingular
  <2>1. ASSUME NEW r \in 1..k PROVE Dot(w, X[r]) = 0
    <3>1. XX[At(r)] = X[r] /\ At(r) \in 1..k
      BY <1>2
    <3>2. Dot(w, XX[At(r)]) = 0
      BY <3>1
    <3> QED
      BY <3>1, <3>2
  <2> QED
    BY <2>1 DEF Nonsingular
<1>8. Cleared(XX, k, l - 1)
  <2> SUFFICES ASSUME NEW j \in 1..k, j < l
               PROVE  XX[j][j] # 0 /\ \A r \in 1..k : r > j => XX[r][j] = 0
    BY DEF Cleared
  <2>1. X[j][j] # 0 /\ \A r \in 1..k : r > j => X[r][j] = 0
    BY DEF Cleared
  <2> QED
    BY <1>2, <1>3, <1>4, <2>1
<1> QED
  BY <1>5, <1>6, <1>7, <1>8

\* Multiples of row l are added to those below, so that column l becomes zero.
LEMMA Eliminated ==
    ASSUME NEW k \in Nat, NEW X, Rows(X, k), NEW l \in 1..k, X[l][l] # 0, NEW XX, Rows(XX, k),
           \A r \in 1..k : r <= l => XX[r] = X[r],
           NEW e \in [1..k -> Symbol],
           \A r \in 1..k : r > l =>
             XX[r][l] = 0 /\ \A j \in 1..(k + 1) : XX[r][j] = X[r][j] \oplus (e[r] \otimes X[l][j]),
           NEW v \in [1..k -> Symbol],
           Solves(v, X, k), Nonsingular(X, k), Cleared(X, k, l - 1)
    PROVE  Solves(v, XX, k) /\ Nonsingular(XX, k) /\ Cleared(XX, k, l)
<1>1. ASSUME NEW w \in [1..k -> Symbol], NEW r \in 1..k, r > l
      PROVE  Dot(w, XX[r]) = Dot(w, X[r]) \oplus (e[r] \otimes Dot(w, X[l]))
  <2> DEFINE a == XX[r]
             b == X[r]
             q == X[l]
             d == e[r]
  <2>1. Entries(a, k) /\ Entries(b, k) /\ Entries(q, k) /\ d \in Symbol
    BY RowEntries
  <2>2. \A j \in 1..k : a[j] = b[j] \oplus (d \otimes q[j])
    BY <1>1
  <2> HIDE DEF a, b, q, d
  <2>3. Dot(w, a) = Dot(w, b) \oplus (d \otimes Dot(w, q))
    BY <2>1, <2>2, DotLinear
  <2> QED
    BY <2>3 DEF a, b, q, d
<1>2. Solves(v, XX, k)
  <2> SUFFICES ASSUME NEW r \in 1..k PROVE Dot(v, XX[r]) = XX[r][k + 1]
    BY DEF Solves
  <2>1. CASE r <= l
    BY <2>1 DEF Solves
  <2>2. CASE r > l
    <3>1. Dot(v, X[r]) = X[r][k + 1] /\ Dot(v, X[l]) = X[l][k + 1]
      BY DEF Solves
    <3>2. k + 1 \in 1..(k + 1)
      OBVIOUS
    <3>3. XX[r][k + 1] = X[r][k + 1] \oplus (e[r] \otimes X[l][k + 1])
      BY <2>2, <3>2
    <3>4. Dot(v, XX[r]) = Dot(v, X[r]) \oplus (e[r] \otimes Dot(v, X[l]))
      BY <1>1, <2>2
    <3> QED
      BY <3>1, <3>3, <3>4
  <2> QED
    BY <2>1, <2>2
<1>3. Nonsingular(XX, k)
  <2> SUFFICES ASSUME NEW w \in [1..k -> Symbol], \A r \in 1..k : Dot(w, XX[r]) = 0
               PROVE  \A j \in 1..k : w[j] = 0
    BY DEF Nonsingular
  <2>1. ASSUME NEW r \in 1..k, r <= l PROVE Dot(w, X[r]) = 0
    <3>1. Dot(w, XX[r]) = 0 /\ XX[r] = X[r]
      BY <2>1
    <3> QED
      BY <3>1
  <2>2. ASSUME NEW r \in 1..k, r > l PROVE Dot(w, X[r]) = 0
    <3>1. Dot(w, X[l]) = 0
      BY <2>1
    <3>2. Dot(w, XX[r]) = Dot(w, X[r]) \oplus (e[r] \otimes 0)
      BY <1>1, <2>2, <3>1
    <3>3. Dot(w, X[r]) \in Symbol
      <4> DEFINE b == X[r]
      <4>1. Entries(b, k)
        BY RowEntries
      <4> HIDE DEF b
      <4>2. Dot(w, b) \in Symbol
        BY <4>1, SumsOf
      <4> QED
        BY <4>2 DEF b
    <3>4. Dot(w, XX[r]) = 0
      OBVIOUS
    <3> QED
      BY <3>2, <3>3, <3>4, MulZero, AddZero
  <2>3. \A r \in 1..k : Dot(w, X[r]) = 0
    BY <2>1, <2>2
  <2> QED
    BY <2>3 DEF Nonsingular
<1>4. Cleared(XX, k, l)
  <2> SUFFICES ASSUME NEW j \in 1..k, j <= l
               PROVE  XX[j][j] # 0 /\ \A r \in 1..k : r > j => XX[r][j] = 0
    BY DEF Cleared
  <2>1. CASE j = l
    BY <2>1
  <2>2. CASE j < l
    <3>1. X[j][j] # 0 /\ \A r \in 1..k : r > j => X[r][j] = 0
      BY <2>2 DEF Cleared
    <3>2. ASSUME NEW r \in 1..k, r > j PROVE XX[r][j] = 0
      <4>1. CASE r <= l
        BY <3>1, <3>2, <4>1
      <4>2. CASE r > l
        <5>1. X[r][j] = 0 /\ X[l][j] = 0 /\ j \in 1..(k + 1)
          BY <2>2, <3>1, <3>2
        <5>2. XX[r][j] = 0 \oplus (e[r] \otimes 0)
          BY <4>2, <5>1
        <5> QED
          BY <5>2, MulZero, AddZero, Zero
      <4> QED
        BY <4>1, <4>2
    <3> QED
      BY <2>2, <3>1, <3>2
  <2> QED
    BY <2>1, <2>2
<1> QED
  BY <1>2, <1>3, <1>4

\* The last coordinates are known, and have left the right sides of rows 1 to l.
Reduced(v, X, k, l) == \A r \in 1..k : r <= l => Sums(v, X[r])[l] = X[r][k + 1]

\* Row l gives coordinate l, and it leaves the rows above.
LEMMA Resolved ==
    ASSUME NEW k \in Nat, NEW X, Rows(X, k), NEW l \in 1..k, Cleared(X, k, k),
           NEW v \in [1..k -> Symbol], Reduced(v, X, k, l),
           NEW y, y = X[l][k + 1] \otimes inv28(X[l][l]), NEW XX, Rows(XX, k),
           \A r \in 1..k : /\ \A j \in 1..k : XX[r][j] = X[r][j]
                           /\ r < l => XX[r][k + 1] = X[r][k + 1] \oplus (y \otimes X[r][l])
    PROVE  y = v[l] /\ Cleared(XX, k, k) /\ Reduced(v, XX, k, l - 1)
<1> DEFINE w == X[l]
           a == w[l]
           b == inv28(a)
<1>1. Entries(w, k) /\ w[k + 1] = Sums(v, w)[l]
  BY RowEntries DEF Reduced
<1>2. PICK p : IsSum(Sums(v, w), p, k) /\ \A j \in 1..k : p[j] = v[j] \otimes w[j]
  <2> HIDE DEF w
  <2> QED
    BY <1>1, SumsOf
<1>3. ASSUME NEW j \in 1..k, j <= l, j # l PROVE p[j] = 0
  <2>1. w[j] = 0
    BY <1>3 DEF Cleared
  <2> HIDE DEF w
  <2> QED
    BY <1>2, <2>1, MulZero
<1>4. a # 0 /\ a \in Symbol
  <2>1. a # 0
    BY DEF Cleared
  <2> HIDE DEF w
  <2> QED
    BY <1>1, <2>1 DEF Entries
<1>5. Sums(v, w)[l] = v[l] \otimes a
  <2> DEFINE s == Sums(v, w)
  <2>1. /\ IsSum(s, p, k) /\ l \in Nat /\ l <= l /\ l <= k
        /\ \A j \in 1..k : j <= l /\ j # l => p[j] = 0
    BY <1>2, <1>3
  <2> HIDE DEF s, w
  <2>2. s[l] = p[l]
    BY <2>1, SumsOne
  <2> QED
    BY <1>2, <2>2 DEF s
<1>6. y = (v[l] \otimes a) \otimes b
  BY <1>1, <1>5
<1> HIDE DEF w, a, b
<1>7. y = v[l]
  <2>1. v[l] \in Symbol /\ b \in Symbol /\ a \otimes b = 1
    BY <1>4, MulInv DEF b
  <2> QED
    BY <1>4, <1>6, <2>1, MulAssoc, MulOne
<1>8. Cleared(XX, k, k)
  BY DEF Cleared
<1>9. ASSUME NEW r \in 1..k, r <= l - 1 PROVE Sums(v, XX[r])[l - 1] = XX[r][k + 1]
  <2> DEFINE u == X[r]
             z == XX[r]
             s == Sums(v, u)
  <2>1. /\ Entries(u, k) /\ Entries(z, k) /\ \A j \in 1..k : z[j] = u[j]
        /\ r <= l /\ l - 1 \in 0..k /\ u[l] \in Symbol
    BY <1>9, RowEntries DEF Entries
  <2>2. s[l] = u[k + 1] /\ z[k + 1] = u[k + 1] \oplus (y \otimes u[l])
    BY <1>9 DEF Reduced
  <2> HIDE DEF u, z
  <2>3. Sums(v, z)[l - 1] = s[l - 1]
    BY <2>1, DotAlike
  <2>4. PICK q : IsSum(s, q, k) /\ \A j \in 1..k : q[j] = v[j] \otimes u[j]
    BY <2>1, SumsOf
  <2> HIDE DEF s
  <2>5. s[l] = s[l - 1] \oplus (v[l] \otimes u[l]) /\ s[l - 1] \in Symbol
    BY <2>1, <2>4 DEF IsSum
  <2>6. v[l] \otimes u[l] \in Symbol
    BY <2>1, MulType
  <2>7. z[k + 1] = (s[l - 1] \oplus (v[l] \otimes u[l])) \oplus (v[l] \otimes u[l])
    BY <1>7, <2>2, <2>5
  <2>8. z[k + 1] = s[l - 1]
    BY <2>5, <2>6, <2>7, AddTwice
  <2> QED
    BY <2>3, <2>8 DEF z
<1> QED
  BY <1>7, <1>8, <1>9 DEF Reduced

-----------------------------------------------------------------------------
(***************************************************************************)
(* The inductive invariant.                                                *)
(***************************************************************************)
\* What is there of the codeword is as it was sent.
Arrived == \A r \in 1..CodeLen : c[r] = Missing \/ c[r] = Dot(Row(r, Len(m)), m)

Types ==
  /\ m \in Messages
  /\ c \in [1..CodeLen -> Symbol \cup {Missing}]
  /\ phase \in {"sent", "pivot", "eliminate", "solve", "done"}
  /\ phase = "sent" => M = <<>> /\ i = 0 /\ Arrived
  /\ phase # "sent" =>
       /\ M \in Equations(Len(m)) /\ Len(M) <= Len(m)
       /\ x \in Seq(Symbol) /\ Len(x) = IF phase = "done" THEN Len(m) ELSE Len(M)
  /\ phase \in {"pivot", "eliminate"} => i \in 1..(Len(M) + 1)
  /\ phase = "eliminate" => i <= Len(M)
  /\ phase \in {"solve", "done"} => i \in 0..Len(M)

\* With as many equations as symbols: the columns before i are cleared, the
\* message is the one solution, and what is solved of it is right.
System ==
  phase # "sent" /\ Len(M) = Len(m) =>
    /\ phase \in {"pivot", "eliminate"} =>
         Solves(m, M, Len(m)) /\ Nonsingular(M, Len(m)) /\ Cleared(M, Len(m), i - 1)
    /\ phase = "eliminate" => \A r \in i..Len(M) : M[r][i] <= M[i][i]
    /\ phase = "solve" =>
         /\ Cleared(M, Len(m), Len(m)) /\ Reduced(m, M, Len(m), i)
         /\ \A j \in 1..Len(m) : j > i => x[j] = m[j]
    /\ phase = "done" => x = m

IInv == Types /\ System

-----------------------------------------------------------------------------
(***************************************************************************)
(* What every step needs.                                                  *)
(***************************************************************************)
\* What the assumption on the constants says of the message.
LEMMA MessageFacts ==
    ASSUME m \in Messages
    PROVE  /\ Len(m) \in Nat \ {0} /\ Len(m) <= CodeLen /\ m \in [1..Len(m) -> Symbol]
           /\ CodeLen \in Nat \ {0} /\ CodeLen <= 255
<1>1. m \in Seq(Symbol) /\ Len(m) \in 1..CodeLen /\ CodeLen \in 1..255
  BY CodeAssumption
<1>2. m \in [1..Len(m) -> Symbol]
  BY <1>1, LenProperties
<1>3. CodeLen \in Nat \ {0} /\ CodeLen <= 255
  BY <1>1
<1> HIDE DEF Symbol
<1> QED
  BY <1>1, <1>2, <1>3

\* A matrix, as a sequence of rows and as a function.
LEMMA MatrixSeq ==
    ASSUME NEW n \in Nat, NEW k \in Nat, NEW X
    PROVE  X \in [1..n -> [1..(k + 1) -> Symbol]] <=> X \in Equations(k) /\ Len(X) = n
<1> DEFINE R == [1..(k + 1) -> Symbol]
<1> HIDE DEF R
<1>1. ASSUME X \in [1..n -> R] PROVE X \in Seq(R) /\ Len(X) = n
  BY <1>1, SeqDef
<1>2. ASSUME X \in Seq(R), Len(X) = n PROVE X \in [1..n -> R]
  BY <1>2, LenProperties
<1> QED
  BY <1>1, <1>2 DEF R, Equations

\* A maximum, and the first of its places.
LEMMA FirstGreatest ==
    ASSUME NEW a \in Nat, NEW b \in Nat, a <= b, NEW f, \A s \in a..b : f[s] \in Nat
    PROVE  \E r \in a..b : (\A s \in a..b : f[s] <= f[r]) /\ \A s \in a..(r - 1) : f[s] < f[r]
<1> DEFINE First(r, t) == /\ r \in a..(a + t) /\ \A s \in a..(a + t) : f[s] <= f[r]
                          /\ \A s \in a..(r - 1) : f[s] < f[r]
           S == {t \in Nat : t <= b - a => \E r : First(r, t)}
<1>1. 0 \in S
  <2>1. a \in a..b
    OBVIOUS
  <2>2. First(a, 0)
    BY <2>1
  <2> QED
    BY <2>2
<1>2. ASSUME NEW t \in Nat, t < b - a, t \in S PROVE t + 1 \in S
  <2>1. PICK r : First(r, t)
    BY <1>2
  <2> DEFINE q == a + (t + 1)
  <2>2. q \in a..b /\ r \in a..b /\ f[q] \in Nat /\ f[r] \in Nat /\ r < q
    BY <1>2, <2>1
  <2>3. \A s \in a..q : s = q \/ s \in a..(a + t)
    OBVIOUS
  <2>4. \A s \in a..q : s \in a..b
    BY <2>2
  <2>5. CASE f[q] > f[r]
    <3>1. \A s \in a..(q - 1) : s \in a..(a + t)
      OBVIOUS
    <3>2. \A s \in a..(q - 1) : f[s] < f[q]
      BY <2>1, <2>2, <2>4, <2>5, <3>1
    <3>3. \A s \in a..q : f[s] <= f[q]
      BY <2>2, <2>3, <3>1, <3>2
    <3>4. First(q, t + 1)
      BY <2>2, <3>2, <3>3
    <3> QED
      BY <3>4
  <2>6. CASE ~ (f[q] > f[r])
    <3>1. First(r, t + 1)
      BY <2>1, <2>2, <2>3, <2>6
    <3> QED
      BY <3>1
  <2> QED
    BY <2>5, <2>6
<1>3. b - a \in Nat /\ a + (b - a) = b
  OBVIOUS
<1> HIDE DEF S
<1>4. b - a \in S
  <2>1. \A t \in Nat : t <= b - a => t \in S
    BY <1>1, <1>2, <1>3, UpTo
  <2> QED
    BY <1>3, <2>1
<1> QED
  BY <1>3, <1>4 DEF S

\* MaxRow, chosen by Pivot, exists.
LEMMA MaxRowFacts ==
    ASSUME Types, phase = "pivot", i <= Len(M)
    PROVE  MaxRow \in i..Len(M) /\ \A s \in i..Len(M) : M[s][i] <= M[MaxRow][i]
<1> DEFINE N == Len(M)
           f == [s \in i..N |-> M[s][i]]
<1>1. i \in 1..(N + 1) /\ M \in Equations(Len(m)) /\ N <= Len(m) /\ i <= N /\ Len(m) \in Nat
      /\ M \in [1..N -> [1..(Len(m) + 1) -> Symbol]] /\ N \in Nat
  <2>1. /\ i \in 1..(N + 1) /\ M \in Equations(Len(m)) /\ N <= Len(m) /\ i <= N /\ m \in Messages
    BY DEF Types
  <2>2. Len(m) \in Nat /\ N \in Nat
    BY <2>1, MessageFacts DEF Equations
  <2> QED
    BY <2>1, <2>2, MatrixSeq
<1> HIDE DEF N
<1>2. ASSUME NEW s \in i..N PROVE f[s] = M[s][i] /\ f[s] \in Nat
  <2>1. s \in 1..N /\ i \in 1..(Len(m) + 1)
    BY <1>1
  <2>2. M[s][i] \in Symbol
    BY <1>1, <2>1
  <2> QED
    BY <2>2, SymbolRange
<1> HIDE DEF f
<1>3. \E r \in i..N : (\A s \in i..N : f[s] <= f[r]) /\ \A s \in i..(r - 1) : f[s] < f[r]
  <2>1. i \in Nat /\ N \in Nat /\ i <= N /\ \A s \in i..N : f[s] \in Nat
    BY <1>1, <1>2
  <2> QED
    BY <2>1, FirstGreatest
<1>4. \E r \in i..N : /\ \A s \in i..N : M[s][i] <= M[r][i]
                    /\ \A s \in i..(r - 1) : M[s][i] < M[r][i]
  <2>1. \A r \in i..N : \A s \in i..(r - 1) : s \in i..N
    BY <1>1
  <2> QED
    BY <1>2, <1>3, <2>1
<1> DEFINE P(r) == (\A s \in i..N : M[s][i] <= M[r][i]) /\ \A s \in i..(r - 1) : M[s][i] < M[r][i]
<1>5. MaxRow = CHOOSE r \in i..N : P(r)
  BY DEF MaxRow, N
<1>6. MaxRow \in i..N /\ P(MaxRow)
  <2> HIDE DEF P
  <2>1. \E r \in i..N : P(r)
    BY <1>4 DEF P
  <2> QED
    BY <1>5, <2>1
<1> QED
  BY <1>6 DEF N

\* The codeword of the message.
LEMMA EncodedFacts ==
    ASSUME m \in Messages, NEW r \in 1..CodeLen
    PROVE  Dot(Row(r, Len(m)), m) \in Symbol /\ Dot(m, Row(r, Len(m))) = Dot(Row(r, Len(m)), m)
<1> DEFINE k == Len(m)
           w == Row(r, k)
<1>1. k \in Nat /\ m \in [1..k -> Symbol] /\ r \in Nat \ {0}
  BY MessageFacts
<1>2. w \in [1..k -> Symbol]
  BY <1>1, RowType
<1> HIDE DEF k, w
<1>3. Entries(m, k)
  BY <1>1 DEF Entries
<1> QED
  BY <1>1, <1>2, <1>3, SumsOf, DotComm DEF k, w

\* The codeword that is sent is the one of the message.
LEMMA InitOK == Init => IInv
<1> SUFFICES ASSUME Init PROVE IInv
  OBVIOUS
<1>1. m \in Messages /\ phase = "sent" /\ M = <<>> /\ i = 0
  BY DEF Init
<1>2. CodeLen \in Nat
  BY <1>1, MessageFacts
<1>3. c = [r \in 1..CodeLen |-> Dot(Row(r, Len(m)), m)]
  BY DEF Init, dfs_encoder
<1>4. c \in [1..CodeLen -> Symbol \cup {Missing}]
  BY <1>1, <1>3, EncodedFacts
<1>5. Arrived
  BY <1>3 DEF Arrived
<1>6. Types
  BY <1>1, <1>4, <1>5 DEF Types
<1> QED
  BY <1>1, <1>6 DEF IInv, System

\* A lost symbol leaves the others as they were.
LEMMA LoseOK == ASSUME IInv, NEW r \in 1..CodeLen, Lose(r) PROVE IInv'
<1>1. /\ phase = "sent" /\ c' = [c EXCEPT ![r] = Missing]
      /\ m' = m /\ phase' = phase /\ M' = M /\ i' = i /\ x' = x
  BY DEF Lose
<1>2. m \in Messages /\ c \in [1..CodeLen -> Symbol \cup {Missing}] /\ M = <<>> /\ i = 0 /\ Arrived
  BY <1>1 DEF IInv, Types
<1>3. c' \in [1..CodeLen -> Symbol \cup {Missing}]
  BY <1>1, <1>2
<1>4. Arrived'
  BY <1>1, <1>2 DEF Arrived
<1>5. Types'
  BY <1>1, <1>2, <1>3, <1>4 DEF Types
<1> QED
  BY <1>1, <1>5 DEF IInv, System

\* The equations that are built: the message solves them, and only the message
\* might, as their rows are powers of different bases.
LEMMA BuildOK == ASSUME IInv, Build PROVE IInv'
<1> DEFINE k == Len(m)
           X == newMatrix(k, c)
<1>1. /\ phase = "sent" /\ M' = X /\ phase' = "pivot" /\ i' = 1 /\ m' = m /\ c' = c
      /\ x' = [r \in DOMAIN M' |-> 0]
  BY DEF Build
<1>2. m \in Messages /\ c \in [1..CodeLen -> Symbol \cup {Missing}] /\ Arrived
  BY <1>1 DEF IInv, Types
<1>3. /\ k \in Nat /\ m \in [1..k -> Symbol] /\ CodeLen \in Nat /\ CodeLen <= 255
  BY <1>2, MessageFacts
<1>4. PICK pick : Picked(X, pick, k, c, CodeLen)
  <2> HIDE DEF k
  <2> QED
    BY <1>2, <1>3, NewMatrix
<1> HIDE DEF X
<1>5. X \in Equations(k) /\ Len(X) <= k /\ Len(X) \in Nat /\ DOMAIN X = 1..Len(X)
  <2>1. X \in Equations(k) /\ Len(X) <= k
    BY <1>4 DEF Picked
  <2> QED
    BY <2>1 DEF Equations
<1>6. x' \in Seq(Symbol) /\ Len(x') = Len(X)
  <2>1. x' = [r \in 1..Len(X) |-> 0]
    BY <1>1, <1>5
  <2>2. x' \in [1..Len(X) -> Symbol]
    BY <2>1, Zero
  <2> QED
    BY <1>5, <2>2, SeqDef
<1>7. Types'
  <2>1. X \in Equations(Len(m')) /\ Len(X) <= Len(m') /\ 1 \in 1..(Len(X) + 1)
    BY <1>1, <1>5
  <2> QED
    BY <1>1, <1>2, <1>6, <2>1 DEF Types
<1>8. ASSUME Len(X) = k
      PROVE  Solves(m, X, k) /\ Nonsingular(X, k) /\ Cleared(X, k, 0)
  <2>1. Nonsingular(X, k) /\ Rows(X, k)
    <3> HIDE DEF k
    <3> QED
      BY <1>3, <1>4, <1>8, BuiltNonsingular
  <2>2. Cleared(X, k, 0)
    BY DEF Cleared
  <2>3. ASSUME NEW r \in 1..k PROVE Dot(m, X[r]) = X[r][k + 1]
    <3> DEFINE w == X[r]
               l == pick[r]
               u == Row(l, k)
    <3>1. /\ l \in 1..CodeLen /\ c[l] \in Symbol /\ w[k + 1] = c[l]
          /\ \A j \in 1..k : w[j] = u[j]
      BY <1>4, <1>8 DEF Picked
    <3>2. c[l] = Dot(u, m) /\ Dot(m, u) = Dot(u, m)
      BY <1>2, <3>1, MissingIsNone, EncodedFacts DEF Arrived
    <3>3. Entries(w, k) /\ Entries(u, k)
      <4>1. Entries(w, k)
        <5> HIDE DEF k
        <5> QED
          BY <1>3, <2>1, RowEntries
      <4>2. l \in Nat \ {0}
        BY <3>1
      <4> QED
        BY <1>3, <4>1, <4>2, RowType DEF Entries
    <3> HIDE DEF w, u, l, k
    <3>4. Dot(m, w) = Dot(m, u)
      BY <1>3, <3>1, <3>3, DotAlike
    <3> QED
      BY <3>1, <3>2, <3>4 DEF w
  <2> QED
    BY <2>1, <2>2, <2>3 DEF Solves
<1>9. System'
  <2>1. 1 - 1 = 0
    OBVIOUS
  <2> QED
    BY <1>1, <1>8, <2>1 DEF System
<1> QED
  BY <1>7, <1>9 DEF IInv

\* All columns are cleared.
LEMMA TurnOK == ASSUME IInv, Turn PROVE IInv'
<1> DEFINE k == Len(m)
<1>1. phase = "pivot" /\ i > Len(M) /\ phase' = "solve" /\ i' = Len(M)
      /\ m' = m /\ c' = c /\ M' = M /\ x' = x
  BY DEF Turn
<1>2. /\ m \in Messages /\ c \in [1..CodeLen -> Symbol \cup {Missing}]
      /\ M \in Equations(k) /\ Len(M) <= k /\ x \in Seq(Symbol) /\ Len(x) = Len(M)
      /\ i \in 1..(Len(M) + 1)
  BY <1>1 DEF IInv, Types
<1>3. Len(M) \in Nat /\ k \in Nat /\ i = Len(M) + 1
  <2>1. Len(M) \in Nat
    BY <1>2 DEF Equations
  <2> QED
    BY <1>1, <1>2, <2>1, MessageFacts
<1>4. Types'
  <2>1. Len(M) \in 0..Len(M)
    BY <1>3
  <2> QED
    BY <1>1, <1>2, <2>1 DEF Types
<1>5. ASSUME Len(M) = k
      PROVE  Cleared(M, k, k) /\ Reduced(m, M, k, k) /\ \A j \in 1..k : j > k => x[j] = m[j]
  <2>1. Solves(m, M, k) /\ Cleared(M, k, i - 1)
    BY <1>1, <1>5 DEF IInv, System
  <2>2. i - 1 = k
    BY <1>3, <1>5
  <2>3. Cleared(M, k, k)
    BY <2>1, <2>2
  <2>4. ASSUME NEW r \in 1..k PROVE Sums(m, M[r])[k] = M[r][k + 1]
    <3>1. Dot(m, M[r]) = M[r][k + 1]
      BY <2>1 DEF Solves
    <3> QED
      BY <3>1 DEF Dot
  <2>5. Reduced(m, M, k, k)
    BY <2>4 DEF Reduced
  <2>6. \A j \in 1..k : ~ (j > k)
    BY <1>3
  <2> QED
    BY <2>3, <2>5, <2>6
<1>6. System'
  BY <1>1, <1>5 DEF System
<1> QED
  BY <1>4, <1>6 DEF IInv

\* All coordinates are known.
LEMMA ReturnOK == ASSUME IInv, Return PROVE IInv'
<1> DEFINE k == Len(m)
<1>1. /\ phase = "solve" /\ i = 0 /\ phase' = "done"
      /\ x' = [j \in 1..k |-> IF j <= Len(M) THEN x[j] ELSE 0]
      /\ m' = m /\ c' = c /\ M' = M /\ i' = i
  BY DEF Return
<1>2. /\ m \in Messages /\ c \in [1..CodeLen -> Symbol \cup {Missing}]
      /\ M \in Equations(k) /\ Len(M) <= k /\ x \in Seq(Symbol) /\ Len(x) = Len(M)
      /\ i \in 0..Len(M)
  BY <1>1 DEF IInv, Types
<1>3. k \in Nat /\ m \in [1..k -> Symbol] /\ Len(M) \in Nat
  BY <1>2, MessageFacts DEF Equations
<1>4. x' \in Seq(Symbol) /\ Len(x') = k
  <2>1. x' \in [1..k -> Symbol]
    <3>1. ASSUME NEW j \in 1..k, j <= Len(M) PROVE x[j] \in Symbol
      BY <1>2, <3>1
    <3> QED
      BY <1>1, <3>1, Zero
  <2> QED
    BY <1>3, <2>1, SeqDef
<1>5. Types'
  BY <1>1, <1>2, <1>4 DEF Types
<1>6. ASSUME Len(M) = k PROVE x' = m
  <2>1. \A j \in 1..k : x[j] = m[j]
    <3>1. \A j \in 1..k : j > i => x[j] = m[j]
      BY <1>1, <1>6 DEF IInv, System
    <3> QED
      BY <1>1, <3>1
  <2>2. \A j \in 1..k : j <= Len(M)
    BY <1>6
  <2>3. x' = [j \in 1..k |-> m[j]]
    BY <1>1, <2>1, <2>2
  <2>4. m = [j \in 1..k |-> m[j]]
    BY <1>3
  <2> QED
    BY <2>3, <2>4
<1>7. System'
  BY <1>1, <1>6 DEF System
<1> QED
  BY <1>5, <1>7 DEF IInv

\* What the three steps on the matrix share.
LEMMA MatrixFacts ==
    ASSUME Types, phase # "sent"
    PROVE  /\ m \in Messages /\ c \in [1..CodeLen -> Symbol \cup {Missing}]
           /\ Len(m) \in Nat /\ m \in [1..Len(m) -> Symbol]
           /\ Len(M) \in Nat /\ Len(M) <= Len(m) /\ DOMAIN M = 1..Len(M)
           /\ \A r \in 1..Len(M) : M[r] \in [1..(Len(m) + 1) -> Symbol]
           /\ Len(M) = Len(m) => Rows(M, Len(m))
<1>1. m \in Messages /\ M \in Equations(Len(m)) /\ Len(M) <= Len(m)
      /\ c \in [1..CodeLen -> Symbol \cup {Missing}]
  BY DEF Types
<1>2. Len(m) \in Nat /\ m \in [1..Len(m) -> Symbol]
  BY <1>1, MessageFacts
<1>3. Len(M) \in Nat /\ DOMAIN M = 1..Len(M)
  BY <1>1 DEF Equations
<1>4. \A r \in 1..Len(M) : M[r] \in [1..(Len(m) + 1) -> Symbol]
  BY <1>1, <1>2, <1>3, MatrixSeq
<1> QED
  BY <1>1, <1>2, <1>3, <1>4 DEF Rows

\* Two rows change places.
LEMMA PivotOK == ASSUME IInv, Pivot PROVE IInv'
<1> DEFINE k == Len(m)
           N == Len(M)
           a == MaxRow
           Entry(r, j) == IF j < i \/ j > N + 1 THEN M[r][j]
                          ELSE IF r = i THEN M[a][j]
                          ELSE IF r = a THEN M[i][j] ELSE M[r][j]
<1>1. /\ phase = "pivot" /\ i <= N /\ phase' = "eliminate"
      /\ M' = [r \in DOMAIN M |-> [j \in DOMAIN M[r] |-> Entry(r, j)]]
      /\ m' = m /\ c' = c /\ i' = i /\ x' = x
  BY DEF Pivot
<1>2. /\ m \in Messages /\ c \in [1..CodeLen -> Symbol \cup {Missing}]
      /\ k \in Nat /\ m \in [1..k -> Symbol] /\ N \in Nat /\ N <= k /\ DOMAIN M = 1..N
      /\ \A r \in 1..N : M[r] \in [1..(k + 1) -> Symbol]
      /\ N = k => Rows(M, k)
  BY <1>1, MatrixFacts DEF IInv
<1>3. i \in 1..N /\ a \in i..N /\ a \in 1..N /\ \A s \in i..N : M[s][i] <= M[a][i]
  <2>1. i \in 1..(N + 1) /\ Types
    BY <1>1 DEF IInv, Types
  <2>2. a \in i..N /\ \A s \in i..N : M[s][i] <= M[a][i]
    BY <1>1, <2>1, MaxRowFacts
  <2>3. i <= N
    BY <1>1
  <2>4. N \in Nat
    BY <1>2
  <2> HIDE DEF N, a
  <2>5. i \in 1..N
    BY <2>1, <2>3, <2>4
  <2>6. a \in 1..N
    BY <2>2, <2>4, <2>5
  <2> QED
    BY <2>2, <2>5, <2>6
<1> HIDE DEF N, a, Entry
<1>4. ASSUME NEW r \in 1..N
      PROVE  M'[r] = [j \in 1..(k + 1) |-> Entry(r, j)]
  BY <1>1, <1>2
<1>5. ASSUME NEW r \in 1..N, NEW j \in 1..(k + 1)
      PROVE  M'[r][j] = Entry(r, j) /\ Entry(r, j) \in Symbol
  <2>1. M'[r][j] = Entry(r, j)
    BY <1>4
  <2>2. M[r][j] \in Symbol /\ M[a][j] \in Symbol /\ M[i][j] \in Symbol
    BY <1>2, <1>3
  <2>3. Entry(r, j) \in Symbol
    BY <2>2 DEF Entry
  <2> QED
    BY <2>1, <2>3
<1>6. M' \in [1..N -> [1..(k + 1) -> Symbol]]
  <2>1. \A r \in 1..N : M'[r] \in [1..(k + 1) -> Symbol]
    BY <1>4, <1>5
  <2>2. M' = [r \in 1..N |-> M'[r]]
    BY <1>1, <1>2
  <2> QED
    BY <2>1, <2>2
<1>7. M' \in Equations(k) /\ Len(M') = N
  <2> DEFINE X == M'
  <2>1. X \in [1..N -> [1..(k + 1) -> Symbol]]
    BY <1>6
  <2> HIDE DEF X
  <2>2. X \in Equations(k) /\ Len(X) = N
    BY <1>2, <2>1, MatrixSeq
  <2> QED
    BY <2>2 DEF X
<1>8. Types'
  <2>1. x \in Seq(Symbol) /\ Len(x) = N /\ i \in 1..(N + 1)
    BY <1>1 DEF IInv, Types, N
  <2> QED
    BY <1>1, <1>2, <1>3, <1>7, <2>1 DEF Types
<1>9. ASSUME N = k
      PROVE  /\ Solves(m, M', k) /\ Nonsingular(M', k) /\ Cleared(M', k, i - 1)
             /\ \A r \in i..k : M'[r][i] <= M'[i][i]
  <2> DEFINE X == M
             XX == M'
             l == i
             v == m
  <2>1. Rows(X, k) /\ Solves(v, X, k) /\ Nonsingular(X, k) /\ Cleared(X, k, l - 1)
    BY <1>1, <1>2, <1>9 DEF IInv, System, N
  <2>2. l \in 1..k /\ a \in l..k /\ a \in 1..k
    BY <1>3, <1>9
  <2>3. ASSUME NEW j \in 1..(k + 1), j < l PROVE \A r \in 1..k : r >= l => X[r][j] = 0
    <3>1. j \in 1..k /\ j <= l - 1
      BY <2>2, <2>3
    <3>2. \A r \in 1..k : r > j => X[r][j] = 0
      BY <2>1, <3>1 DEF Cleared
    <3> HIDE DEF X
    <3> QED
      BY <2>2, <2>3, <3>2
  <2>4. ASSUME NEW r \in 1..k, NEW j \in 1..(k + 1)
        PROVE  XX[r][j] = X[IF r = l THEN a ELSE IF r = a THEN l ELSE r][j]
    <3>1. XX[r][j] = Entry(r, j) /\ ~ (j > N + 1)
      BY <1>5, <1>9
    <3>2. CASE j < l
      <4>1. XX[r][j] = X[r][j]
        BY <3>1, <3>2 DEF Entry
      <4>2. a >= l
        BY <2>2
      <4> HIDE DEF X, XX, l
      <4> QED
        BY <2>2, <2>3, <3>2, <4>1, <4>2
    <3>3. CASE ~ (j < l)
      BY <3>1, <3>3 DEF Entry
    <3> QED
      BY <3>2, <3>3
  <2>5. \A r \in 1..k : X[r] \in [1..(k + 1) -> Symbol] /\ XX[r] \in [1..(k + 1) -> Symbol]
    BY <1>2, <1>6, <1>9
  <2> HIDE DEF X, XX, l, v
  <2>6. XX[l] = X[a] /\ XX[a] = X[l] /\ \A r \in 1..k : r # l /\ r # a => XX[r] = X[r]
    <3>1. ASSUME NEW r \in 1..k
          PROVE  XX[r] = X[IF r = l THEN a ELSE IF r = a THEN l ELSE r]
      <4> DEFINE q == IF r = l THEN a ELSE IF r = a THEN l ELSE r
      <4>1. q \in 1..k
        BY <2>2
      <4>2. \A j \in 1..(k + 1) : XX[r][j] = X[q][j]
        BY <2>4
      <4> HIDE DEF q
      <4>3. XX[r] \in [1..(k + 1) -> Symbol] /\ X[q] \in [1..(k + 1) -> Symbol]
        BY <2>5, <4>1
      <4>4. XX[r] = X[q]
        BY <4>2, <4>3
      <4> QED
        BY <4>4 DEF q
    <3> QED
      BY <2>2, <3>1
  <2>7. Solves(v, XX, k) /\ Nonsingular(XX, k) /\ Cleared(XX, k, l - 1)
    BY <1>2, <2>1, <2>2, <2>6, Swapped
  <2>8. \A r \in l..k : XX[r][l] <= XX[l][l]
    <3>1. \A s \in l..k : X[s][l] <= X[a][l]
      BY <1>3, <1>9 DEF X, l
    <3>2. l \in l..k /\ \A r \in l..k : r \in 1..k
      BY <2>2
    <3> QED
      BY <2>2, <2>6, <3>1, <3>2
  <2> QED
    BY <2>7, <2>8 DEF X, XX, l, v
<1>10. System'
  BY <1>1, <1>7, <1>9 DEF System
<1> QED
  BY <1>8, <1>10 DEF IInv

\* The pivot is not zero, or the columns before it would make the system singular.
LEMMA EliminateOK == ASSUME IInv, Eliminate PROVE IInv'
<1> DEFINE k == Len(m)
           N == Len(M)
           e == [r \in 1..N |-> multiply28(M[r][i], inv28(M[i][i]))]
           Entry(r, j) == IF r <= i \/ j < i \/ j > N + 1 THEN M[r][j]
                          ELSE IF j = i THEN 0
                          ELSE sub28(M[r][j], multiply28(e[r], M[i][j]))
<1>1. /\ phase = "eliminate" /\ phase' = "pivot" /\ i' = i + 1 /\ m' = m /\ c' = c /\ x' = x
      /\ M' = [r \in DOMAIN M |-> IF r <= i THEN M[r] ELSE
                 LET f == multiply28(M[r][i], inv28(M[i][i])) IN
                 [j \in DOMAIN M[r] |->
                    IF j < i \/ j > N + 1 THEN M[r][j]
                    ELSE IF j = i THEN 0
                    ELSE sub28(M[r][j], multiply28(f, M[i][j]))]]
  BY DEF Eliminate
<1>2. /\ m \in Messages /\ c \in [1..CodeLen -> Symbol \cup {Missing}]
      /\ k \in Nat /\ m \in [1..k -> Symbol] /\ N \in Nat /\ N <= k /\ DOMAIN M = 1..N
      /\ \A r \in 1..N : M[r] \in [1..(k + 1) -> Symbol]
      /\ N = k => Rows(M, k)
  BY <1>1, MatrixFacts DEF IInv
<1>3. i \in 1..N
  <2>1. i \in 1..(N + 1) /\ i <= N
    BY <1>1 DEF IInv, Types
  <2>2. N \in Nat
    BY <1>2
  <2> HIDE DEF N
  <2> QED
    BY <2>1, <2>2
<1> HIDE DEF N
<1>4. \A r \in 1..N : M[r][i] \in Symbol /\ inv28(M[i][i]) \in Symbol /\ e[r] \in Symbol
                      /\ e[r] = M[r][i] \otimes inv28(M[i][i])
  <2>1. i \in 1..(k + 1)
    <3>1. k \in Nat /\ N \in Nat /\ N <= k
      BY <1>2
    <3> HIDE DEF k
    <3> QED
      BY <1>3, <3>1
  <2>2. \A r \in 1..N : M[r][i] \in Symbol
    BY <1>2, <2>1
  <2>3. inv28(M[i][i]) \in Symbol
    BY <1>3, <2>2, MulInv
  <2>4. \A r \in 1..N : e[r] = M[r][i] \otimes inv28(M[i][i])
    BY DEF \otimes
  <2> HIDE DEF e
  <2> QED
    BY <2>2, <2>3, <2>4, MulType
<1>5. ASSUME NEW r \in 1..N, NEW j \in 1..(k + 1)
      PROVE  M'[r][j] = Entry(r, j)
  <2>1. r \in DOMAIN M /\ j \in DOMAIN M[r]
    BY <1>2
  <2>2. e[r] = multiply28(M[r][i], inv28(M[i][i]))
    OBVIOUS
  <2> HIDE DEF e
  <2>3. CASE r <= i
    BY <1>1, <2>1, <2>3
  <2>4. CASE ~ (r <= i)
    <3>1. M'[r] = [jj \in DOMAIN M[r] |->
                    IF jj < i \/ jj > N + 1 THEN M[r][jj]
                    ELSE IF jj = i THEN 0
                    ELSE sub28(M[r][jj], multiply28(e[r], M[i][jj]))]
      BY <1>1, <2>1, <2>2, <2>4, Zenon
    <3> QED
      BY <2>1, <2>4, <3>1
  <2> QED
    BY <2>3, <2>4
<1>6. ASSUME NEW r \in 1..N
      PROVE  DOMAIN M'[r] = 1..(k + 1) /\ M'[r] = [j \in 1..(k + 1) |-> M'[r][j]]
                                  /\ (r <= i => M'[r] = M[r])
  <2>1. r \in DOMAIN M /\ DOMAIN M[r] = 1..(k + 1) /\ M[r] = [j \in 1..(k + 1) |-> M[r][j]]
    BY <1>2
  <2>2. CASE r <= i
    BY <1>1, <2>1, <2>2
  <2>3. CASE ~ (r <= i)
    BY <1>1, <2>1, <2>3
  <2> QED
    BY <2>2, <2>3
<1> HIDE DEF e
<1>7. ASSUME NEW r \in 1..N, NEW j \in 1..(k + 1) PROVE Entry(r, j) \in Symbol
  <2>1. M[r][j] \in Symbol /\ M[i][j] \in Symbol /\ e[r] \in Symbol
    BY <1>2, <1>3, <1>4
  <2>2. M[r][j] \oplus (e[r] \otimes M[i][j]) \in Symbol
    BY <2>1, MulType, AddType
  <2>3. sub28(M[r][j], multiply28(e[r], M[i][j])) \in Symbol
    BY <2>2 DEF sub28, add28, \oplus, \otimes
  <2> QED
    BY <2>1, <2>3, Zero
<1> HIDE DEF Entry
<1>8. M' \in [1..N -> [1..(k + 1) -> Symbol]]
  <2>1. \A r \in 1..N : M'[r] \in [1..(k + 1) -> Symbol]
    BY <1>5, <1>6, <1>7
  <2>2. M' = [r \in 1..N |-> M'[r]]
    BY <1>1, <1>2
  <2> QED
    BY <2>1, <2>2
<1>9. M' \in Equations(k) /\ Len(M') = N
  <2> DEFINE X == M'
  <2>1. X \in [1..N -> [1..(k + 1) -> Symbol]]
    BY <1>8
  <2> HIDE DEF X
  <2>2. X \in Equations(k) /\ Len(X) = N
    BY <1>2, <2>1, MatrixSeq
  <2> QED
    BY <2>2 DEF X
<1>10. Types'
  <2>1. x \in Seq(Symbol) /\ Len(x) = N
    BY <1>1 DEF IInv, Types, N
  <2>2. i + 1 \in 1..(N + 1)
    <3>1. N \in Nat
      BY <1>2
    <3> QED
      BY <1>3, <3>1
  <2> QED
    BY <1>1, <1>2, <1>9, <2>1, <2>2 DEF Types
<1>11. ASSUME N = k
       PROVE  Solves(m, M', k) /\ Nonsingular(M', k) /\ Cleared(M', k, i)
  <2> DEFINE X == M
             XX == M'
             l == i
             v == m
  <2>1. /\ Rows(X, k) /\ Solves(v, X, k) /\ Nonsingular(X, k) /\ Cleared(X, k, l - 1)
        /\ \A r \in l..k : X[r][l] <= X[l][l]
    BY <1>1, <1>2, <1>11 DEF IInv, System, N
  <2>2. l \in 1..k /\ v \in [1..k -> Symbol] /\ k \in Nat
    BY <1>2, <1>3, <1>11
  <2>3. \A r \in 1..k : X[r][l] \in Symbol /\ e[r] = X[r][l] \otimes inv28(X[l][l])
    BY <1>4, <1>11
  <2>4. \A r \in 1..k : \A j \in 1..(k + 1) : X[r][j] \in Symbol
    BY <1>2, <1>11
  <2>5. ASSUME NEW r \in 1..k, r > l, NEW j \in 1..(k + 1), j > l
        PROVE  XX[r][j] = X[r][j] \oplus (e[r] \otimes X[l][j])
    <3>1. XX[r][j] = Entry(r, j) /\ ~ (j > N + 1)
      BY <1>5, <1>11
    <3>2. ~ (r <= l) /\ ~ (j < l) /\ j # l
      BY <2>2, <2>5
    <3>3. Entry(r, j) = sub28(M[r][j], multiply28(e[r], M[i][j]))
      BY <3>1, <3>2 DEF Entry
    <3> QED
      BY <3>1, <3>3 DEF sub28, add28, \oplus, \otimes
  <2>6. ASSUME NEW r \in 1..k, r > l, NEW j \in 1..(k + 1), j < l PROVE XX[r][j] = X[r][j]
    BY <1>5, <1>11, <2>6 DEF Entry
  <2>7. ASSUME NEW r \in 1..k, r > l PROVE XX[r][l] = 0
    <3>1. l \in 1..(k + 1) /\ ~ (r <= l) /\ ~ (l < l) /\ ~ (l > N + 1)
      BY <1>11, <2>2, <2>7
    <3>2. XX[r][l] = Entry(r, l)
      BY <1>5, <1>11, <3>1
    <3> QED
      BY <3>1, <3>2 DEF Entry
  <2>8. Rows(XX, k)
    BY <1>8, <1>11 DEF Rows
  <2>9. \A r \in 1..k : r <= l => XX[r] = X[r]
    BY <1>6, <1>11
  <2>10. e \in [1..k -> Symbol]
    <3>1. \A r \in 1..k : e[r] \in Symbol
      BY <1>4, <1>11
    <3> QED
      BY <1>11, <3>1 DEF e
  <2> HIDE DEF X, XX, l, v, k
  <2>11. X[l][l] # 0
    <3>1. SUFFICES ASSUME X[l][l] = 0 PROVE FALSE
      OBVIOUS
    <3>2. ASSUME NEW r \in 1..k, r >= l PROVE X[r][l] = 0
      <4>1. r \in l..k /\ X[r][l] \in Symbol
        BY <2>2, <2>3, <3>2
      <4>2. X[r][l] <= 0
        BY <2>1, <3>1, <4>1
      <4> QED
        BY <4>1, <4>2, SymbolRange
    <3> QED
      BY <2>1, <2>2, <3>2, PivotIsNotZero
  <2>12. ASSUME NEW r \in 1..k, r > l, NEW j \in 1..(k + 1)
         PROVE  XX[r][j] = X[r][j] \oplus (e[r] \otimes X[l][j])
    <3>1. CASE j > l
      BY <2>5, <2>12, <3>1
    <3>2. CASE j < l
      <4>1. j \in 1..k /\ j <= l - 1 /\ l > j /\ r > j
        BY <2>2, <2>12, <3>2
      <4>2. X[l][j] = 0 /\ X[r][j] = 0
        BY <2>1, <2>2, <4>1 DEF Cleared
      <4>3. XX[r][j] = X[r][j]
        BY <2>6, <2>12, <3>2
      <4> QED
        BY <4>2, <4>3, MulZero, AddZero, Zero
    <3>3. CASE j = l
      <4> DEFINE q == X[l][l]
                 w == inv28(q)
                 y == X[r][l]
      <4>1. q \in Symbol /\ q # 0 /\ y \in Symbol
        BY <2>2, <2>3, <2>11
      <4>2. w \in Symbol /\ w \otimes q = 1
        <5> HIDE DEF q
        <5> QED
          BY <4>1, MulInv, MulComm
      <4>3. e[r] = y \otimes w
        BY <2>3
      <4> HIDE DEF q, w, y
      <4>4. (y \otimes w) \otimes q = y
        BY <4>1, <4>2, MulAssoc, MulOne
      <4>5. y \oplus y = 0
        BY <4>1, AddZero
      <4>6. XX[r][l] = 0
        BY <2>7, <2>12
      <4> QED
        BY <3>3, <4>3, <4>4, <4>5, <4>6 DEF q, y
    <3>4. j < l \/ j = l \/ j > l
      BY <2>2
    <3> QED
      BY <3>1, <3>2, <3>3, <3>4
  <2>13. \A r \in 1..k : r > l =>
           XX[r][l] = 0 /\ \A j \in 1..(k + 1) : XX[r][j] = X[r][j] \oplus (e[r] \otimes X[l][j])
    BY <2>7, <2>12
  <2>14. Solves(v, XX, k) /\ Nonsingular(XX, k) /\ Cleared(XX, k, l)
    BY <2>1, <2>2, <2>8, <2>9, <2>10, <2>11, <2>13, Eliminated
  <2> QED
    BY <2>14 DEF XX, l, v, k
<1>12. System'
  <2>1. i' - 1 = i /\ m' = m /\ phase' = "pivot" /\ Len(M') = N
    BY <1>1, <1>3, <1>9
  <2>2. Len(M') = Len(m') =>
          Solves(m', M', Len(m')) /\ Nonsingular(M', Len(m')) /\ Cleared(M', Len(m'), i' - 1)
    BY <1>11, <2>1
  <2> QED
    BY <2>1, <2>2 DEF System
<1> QED
  BY <1>10, <1>12 DEF IInv

\* Coordinate i is found, and taken out of the rows above.
LEMMA SolveOK == ASSUME IInv, Solve PROVE IInv'
<1> DEFINE k == Len(m)
           N == Len(M)
           y == multiply28(M[i][N + 1], inv28(M[i][i]))
           Entry(r, j) == IF r >= i \/ j # N + 1 THEN M[r][j]
                          ELSE sub28(M[r][j], multiply28(y, M[r][i]))
<1>1. /\ phase = "solve" /\ i >= 1 /\ phase' = "solve" /\ i' = i - 1 /\ m' = m /\ c' = c
      /\ x' = [x EXCEPT ![i] = y]
      /\ M' = [r \in DOMAIN M |->
                  IF r >= i THEN M[r]
                  ELSE [M[r] EXCEPT ![N + 1] = sub28(@, multiply28(y, M[r][i]))]]
  BY DEF Solve
<1>2. /\ m \in Messages /\ c \in [1..CodeLen -> Symbol \cup {Missing}]
      /\ k \in Nat /\ m \in [1..k -> Symbol] /\ N \in Nat /\ N <= k /\ DOMAIN M = 1..N
      /\ \A r \in 1..N : M[r] \in [1..(k + 1) -> Symbol]
      /\ N = k => Rows(M, k)
  BY <1>1, MatrixFacts DEF IInv
<1>3. k \in Nat /\ N \in Nat /\ N <= k
  BY <1>2
<1>4. i \in 1..N /\ N + 1 \in 1..(k + 1) /\ i \in 1..(k + 1)
  <2>1. i \in 0..N /\ i >= 1
    BY <1>1 DEF IInv, Types
  <2> HIDE DEF N, k
  <2> QED
    BY <1>3, <2>1
<1> HIDE DEF N
<1>5. y \in Symbol /\ y = M[i][N + 1] \otimes inv28(M[i][i])
  <2>1. M[i][N + 1] \in Symbol /\ M[i][i] \in Symbol
    BY <1>2, <1>4
  <2>2. y = M[i][N + 1] \otimes inv28(M[i][i])
    BY DEF \otimes
  <2> HIDE DEF y
  <2> QED
    BY <2>1, <2>2, MulInv, MulType
<1> HIDE DEF y
<1>6. ASSUME NEW r \in 1..N
      PROVE  /\ DOMAIN M'[r] = 1..(k + 1) /\ M'[r] = [j \in 1..(k + 1) |-> M'[r][j]]
             /\ \A j \in 1..(k + 1) : M'[r][j] = Entry(r, j)
  <2>1. M[r] \in [1..(k + 1) -> Symbol] /\ r \in DOMAIN M
    BY <1>2
  <2>2. M'[r] = IF r >= i THEN M[r]
                ELSE [M[r] EXCEPT ![N + 1] = sub28(M[r][N + 1], multiply28(y, M[r][i]))]
    BY <1>1, <2>1
  <2>3. CASE r >= i
    BY <2>1, <2>2, <2>3
  <2>4. CASE ~ (r >= i)
    BY <1>4, <2>1, <2>2, <2>4
  <2> QED
    BY <2>3, <2>4
<1>7. ASSUME NEW r \in 1..N, NEW j \in 1..(k + 1) PROVE Entry(r, j) \in Symbol
  <2>1. M[r][j] \in Symbol /\ M[r][i] \in Symbol
    BY <1>2, <1>4
  <2>2. M[r][j] \oplus (y \otimes M[r][i]) \in Symbol
    BY <1>5, <2>1, MulType, AddType
  <2>3. sub28(M[r][j], multiply28(y, M[r][i])) \in Symbol
    BY <2>2 DEF sub28, add28, \oplus, \otimes
  <2> QED
    BY <2>1, <2>3
<1> HIDE DEF Entry
<1>8. M' \in [1..N -> [1..(k + 1) -> Symbol]]
  <2>1. \A r \in 1..N : M'[r] \in [1..(k + 1) -> Symbol]
    BY <1>6, <1>7
  <2>2. M' = [r \in 1..N |-> M'[r]]
    BY <1>1, <1>2
  <2> QED
    BY <2>1, <2>2
<1>9. M' \in Equations(k) /\ Len(M') = N
  <2> DEFINE X == M'
  <2>1. X \in [1..N -> [1..(k + 1) -> Symbol]]
    BY <1>8
  <2> HIDE DEF X
  <2>2. X \in Equations(k) /\ Len(X) = N
    BY <1>2, <2>1, MatrixSeq
  <2> QED
    BY <2>2 DEF X
<1>10. /\ x' \in Seq(Symbol) /\ Len(x') = N /\ x'[i] = y
       /\ \A j \in 1..N : j # i => x'[j] = x[j]
  <2>1. x \in Seq(Symbol) /\ Len(x) = N
    BY <1>1 DEF IInv, Types, N
  <2>2. x' = [x EXCEPT ![i] = y]
    BY <1>1
  <2>3. i \in 1..Len(x) /\ y \in Symbol
    BY <1>4, <1>5, <2>1
  <2> QED
    BY <2>1, <2>2, <2>3
<1>11. Types'
  <2>1. i - 1 \in 0..N
    <3> HIDE DEF k
    <3> QED
      BY <1>3, <1>4
  <2> QED
    BY <1>1, <1>2, <1>9, <1>10, <2>1 DEF Types
<1>12. ASSUME N = k
       PROVE  /\ Cleared(M', k, k) /\ Reduced(m, M', k, i - 1)
              /\ \A j \in 1..k : j > i - 1 => x'[j] = m[j]
  <2> DEFINE X == M
             XX == M'
             l == i
             v == m
  <2>1. /\ Rows(X, k) /\ Cleared(X, k, k) /\ Reduced(v, X, k, l)
        /\ \A j \in 1..k : j > l => x[j] = v[j]
    BY <1>1, <1>2, <1>12 DEF IInv, System, N
  <2>2. l \in 1..k /\ v \in [1..k -> Symbol] /\ k \in Nat
    BY <1>2, <1>4, <1>12
  <2>3. y = X[l][k + 1] \otimes inv28(X[l][l])
    BY <1>5, <1>12
  <2>4. Rows(XX, k)
    BY <1>8, <1>12 DEF Rows
  <2>5. ASSUME NEW r \in 1..k
        PROVE  /\ \A j \in 1..k : XX[r][j] = X[r][j]
               /\ r < l => XX[r][k + 1] = X[r][k + 1] \oplus (y \otimes X[r][l])
    <3>1. \A j \in 1..(k + 1) : XX[r][j] = Entry(r, j)
      BY <1>6, <1>12
    <3>2. k + 1 \in 1..(k + 1) /\ \A j \in 1..k : j \in 1..(k + 1) /\ j # k + 1
      BY <2>2
    <3>3. \A j \in 1..k : Entry(r, j) = X[r][j]
      BY <1>12, <3>2 DEF Entry
    <3>4. ASSUME r < l PROVE Entry(r, k + 1) = X[r][k + 1] \oplus (y \otimes X[r][l])
      <4>1. ~ (r >= i)
        BY <2>2, <3>4
      <4>2. Entry(r, k + 1) = sub28(M[r][k + 1], multiply28(y, M[r][i]))
        BY <1>12, <4>1 DEF Entry
      <4> QED
        BY <4>2 DEF sub28, add28, \oplus, \otimes
    <3> QED
      BY <3>1, <3>2, <3>3, <3>4
  <2> HIDE DEF X, XX, l, v, k
  <2>6. y = v[l] /\ Cleared(XX, k, k) /\ Reduced(v, XX, k, l - 1)
    BY <2>1, <2>2, <2>3, <2>4, <2>5, Resolved
  <2>7. ASSUME NEW j \in 1..k, j > l - 1 PROVE x'[j] = v[j]
    <3>1. CASE j = l
      BY <1>10, <2>6, <3>1 DEF l
    <3>2. CASE j # l
      <4>1. j > l
        BY <2>2, <2>7, <3>2
      <4>2. x'[j] = x[j]
        BY <1>10, <1>12, <3>2 DEF l
      <4> QED
        BY <2>1, <4>1, <4>2
    <3> QED
      BY <3>1, <3>2
  <2> QED
    BY <2>6, <2>7 DEF XX, l, v
<1>13. System'
  <2>1. m' = m /\ phase' = "solve" /\ Len(M') = N /\ i' = i - 1
    BY <1>1, <1>9
  <2>2. Len(M') = Len(m') =>
          /\ Cleared(M', Len(m'), Len(m')) /\ Reduced(m', M', Len(m'), i')
          /\ \A j \in 1..Len(m') : j > i' => x'[j] = m'[j]
    BY <1>12, <2>1
  <2> QED
    BY <2>1, <2>2 DEF System
<1> QED
  BY <1>11, <1>13 DEF IInv

-----------------------------------------------------------------------------
\* Every step keeps the invariant.
LEMMA StepOK == IInv /\ [Next]_vars => IInv'
<1> SUFFICES ASSUME IInv, [Next]_vars PROVE IInv'
  OBVIOUS
<1>1. CASE \E r \in 1..CodeLen : Lose(r)
  BY <1>1, LoseOK
<1>2. CASE Build
  BY <1>2, BuildOK
<1>3. CASE Pivot
  BY <1>3, PivotOK
<1>4. CASE Eliminate
  BY <1>4, EliminateOK
<1>5. CASE Turn
  BY <1>5, TurnOK
<1>6. CASE Solve
  BY <1>6, SolveOK
<1>7. CASE Return
  BY <1>7, ReturnOK
<1>8. CASE UNCHANGED vars
  BY <1>8 DEF vars, IInv, Types, Arrived, System
<1> QED
  BY <1>1, <1>2, <1>3, <1>4, <1>5, <1>6, <1>7, <1>8 DEF Next

\* The invariant holds.
LEMMA Inductive == Spec => []IInv
<1>1. Init => IInv
  BY InitOK
<1>2. IInv /\ [Next]_vars => IInv'
  BY StepOK
<1> QED
  BY <1>1, <1>2, PTL DEF Spec

\* Every variable of a decoding has its type, for every message and loss: the
\* entries of the matrix stay symbols with one right side a row, the column of
\* gaussElimination (decoder.cpp) stays within it, and the result has as many
\* symbols as there are equations, or as the message has once decoder returns.
THEOREM TypeCorrect == Spec => []TypeOK
<1>1. ASSUME IInv PROVE TypeOK
  <2>1. Types
    BY <1>1 DEF IInv
  <2>2. m \in Messages /\ c \in [1..CodeLen -> Symbol \cup {Missing}]
        /\ phase \in {"sent", "pivot", "eliminate", "solve", "done"}
    BY <2>1 DEF Types
  <2>3. CASE phase = "sent"
    <3>1. M = <<>> /\ i = 0
      BY <2>1, <2>3 DEF Types
    <3> QED
      BY <2>2, <2>3, <3>1 DEF TypeOK
  <2>4. CASE phase # "sent"
    <3>1. /\ Len(M) \in Nat /\ Len(M) <= Len(m) /\ DOMAIN M = 1..Len(M)
          /\ \A r \in 1..Len(M) : M[r] \in [1..(Len(m) + 1) -> Symbol]
      BY <2>1, <2>4, MatrixFacts
    <3>2. x \in Seq(Symbol) /\ Len(x) = IF phase = "done" THEN Len(m) ELSE Len(M)
      BY <2>1, <2>4 DEF Types
    <3>3. i \in 0..(Len(M) + 1)
      <4>1. Len(M) \in Nat
        BY <3>1
      <4>2. i \in 1..(Len(M) + 1) \/ i \in 0..Len(M)
        BY <2>1, <2>2, <2>4 DEF Types
      <4> QED
        BY <4>1, <4>2
    <3>4. \A j \in DOMAIN x : x[j] \in Symbol
      BY <3>2
    <3> QED
      BY <2>2, <3>1, <3>2, <3>3, <3>4 DEF TypeOK
  <2> QED
    BY <2>3, <2>4
<1> QED
  BY <1>1, Inductive, PTL

\* The tables typed into galoisField.cpp are those of the field: multiply28
\* (through the tables of powers and logarithms) is the product of polynomials
\* modulo POLY, for the first symbol of any message and every other symbol, and
\* inv28 inverts.
THEOREM TablesAreRight == Spec => []FieldTables
<1>1. ASSUME IInv PROVE FieldTables
  <2>1. m \in Messages
    BY <1>1 DEF IInv, Types
  <2>2. m[1] \in Symbol
    <3>1. Len(m) \in Nat \ {0} /\ m \in [1..Len(m) -> Symbol]
      BY <2>1, MessageFacts
    <3>2. 1 \in 1..Len(m)
      BY <3>1
    <3> QED
      BY <3>1, <3>2
  <2>3. \A y \in Symbol : multiply28(m[1], y) = Product(m[1], y)
    BY <2>2, Multiplies
  <2>4. m[1] # 0 => multiply28(m[1], inv28(m[1])) = 1
    BY <2>2, MulInv DEF \otimes
  <2> QED
    BY <2>3, <2>4 DEF FieldTables
<1> QED
  BY <1>1, Inductive, PTL

\* While gaussElimination swaps rows and subtracts multiples of them, the message
\* that was sent solves every equation: for every message of up to n symbols,
\* every n up to 255 and every loss that leaves enough symbols.
THEOREM KeepsTheSolution == Spec => []SameSolution
<1>1. ASSUME IInv PROVE SameSolution
  <2> SUFFICES ASSUME phase \in {"pivot", "eliminate"}, Len(M) = Len(m)
               PROVE  \A r \in DOMAIN M : Dot(m, M[r]) = M[r][Len(m) + 1]
    BY DEF SameSolution
  <2>1. Solves(m, M, Len(m))
    BY <1>1 DEF IInv, System
  <2>2. DOMAIN M = 1..Len(m)
    BY <1>1, MatrixFacts DEF IInv
  <2> QED
    BY <2>1, <2>2 DEF Solves
<1> QED
  BY <1>1, Inductive, PTL

\* Whatever is lost, as long as as many symbols arrive as the message has, decoder
\* returns the message: no pivot is zero, and the back substitution finds each
\* symbol.  This is what main.cpp of the ECC code tries on a few losses.
THEOREM MessageDecoded == Spec => []Decoded
<1>1. ASSUME IInv PROVE Decoded
  BY <1>1 DEF IInv, System, Decoded
<1> QED
  BY <1>1, Inductive, PTL
=============================================================================
