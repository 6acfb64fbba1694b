---------------------------- MODULE GaloisField ----------------------------
(***************************************************************************)
(* The arithmetic of GF(2^8) as galoisField.cpp computes it, from tables   *)
(* typed in by hand, and the same arithmetic from its definition: products *)
(* of polynomials over bits, modulo POLY.                                  *)
(***************************************************************************)
EXTENDS Integers, Sequences

Symbol == 0..255

ExpTable == <<
  <<1, 3, 5, 15, 17, 51, 85, 255, 26, 46, 114, 150, 161, 248, 19, 53>>,
  <<95, 225, 56, 72, 216, 115, 149, 164, 247, 2, 6, 10, 30, 34, 102, 170>>,
  <<229, 52, 92, 228, 55, 89, 235, 38, 106, 190, 217, 112, 144, 171, 230, 49>>,
  <<83, 245, 4, 12, 20, 60, 68, 204, 79, 209, 104, 184, 211, 110, 178, 205>>,
  <<76, 212, 103, 169, 224, 59, 77, 215, 98, 166, 241, 8, 24, 40, 120, 136>>,
  <<131, 158, 185, 208, 107, 189, 220, 127, 129, 152, 179, 206, 73, 219, 118, 154>>,
  <<181, 196, 87, 249, 16, 48, 80, 240, 11, 29, 39, 105, 187, 214, 97, 163>>,
  <<254, 25, 43, 125, 135, 146, 173, 236, 47, 113, 147, 174, 233, 32, 96, 160>>,
  <<251, 22, 58, 78, 210, 109, 183, 194, 93, 231, 50, 86, 250, 21, 63, 65>>,
  <<195, 94, 226, 61, 71, 201, 64, 192, 91, 237, 44, 116, 156, 191, 218, 117>>,
  <<159, 186, 213, 100, 172, 239, 42, 126, 130, 157, 188, 223, 122, 142, 137, 128>>,
  <<155, 182, 193, 88, 232, 35, 101, 175, 234, 37, 111, 177, 200, 67, 197, 84>>,
  <<252, 31, 33, 99, 165, 244, 7, 9, 27, 45, 119, 153, 176, 203, 70, 202>>,
  <<69, 207, 74, 222, 121, 139, 134, 145, 168, 227, 62, 66, 198, 81, 243, 14>>,
  <<18, 54, 90, 238, 41, 123, 141, 140, 143, 138, 133, 148, 167, 242, 13, 23>>,
  <<57, 75, 221, 124, 132, 151, 162, 253, 28, 36, 108, 180, 199, 82, 246, 1>>>>

LogTable == <<
  <<0, 0, 25, 1, 50, 2, 26, 198, 75, 199, 27, 104, 51, 238, 223, 3>>,
  <<100, 4, 224, 14, 52, 141, 129, 239, 76, 113, 8, 200, 248, 105, 28, 193>>,
  <<125, 194, 29, 181, 249, 185, 39, 106, 77, 228, 166, 114, 154, 201, 9, 120>>,
  <<101, 47, 138, 5, 33, 15, 225, 36, 18, 240, 130, 69, 53, 147, 218, 142>>,
  <<150, 143, 219, 189, 54, 208, 206, 148, 19, 92, 210, 241, 64, 70, 131, 56>>,
  <<102, 221, 253, 48, 191, 6, 139, 98, 179, 37, 226, 152, 34, 136, 145, 16>>,
  <<126, 110, 72, 195, 163, 182, 30, 66, 58, 107, 40, 84, 250, 133, 61, 186>>,
  <<43, 121, 10, 21, 155, 159, 94, 202, 78, 212, 172, 229, 243, 115, 167, 87>>,
  <<175, 88, 168, 80, 244, 234, 214, 116, 79, 174, 233, 213, 231, 230, 173, 232>>,
  <<44, 215, 117, 122, 235, 22, 11, 245, 89, 203, 95, 176, 156, 169, 81, 160>>,
  <<127, 12, 246, 111, 23, 196, 73, 236, 216, 67, 31, 45, 164, 118, 123, 183>>,
  <<204, 187, 62, 90, 251, 96, 177, 134, 59, 82, 161, 108, 170, 85, 41, 157>>,
  <<151, 178, 135, 144, 97, 190, 220, 252, 188, 149, 207, 205, 55, 63, 91, 209>>,
  <<83, 57, 132, 60, 65, 162, 109, 71, 20, 42, 158, 93, 86, 242, 211, 171>>,
  <<68, 17, 146, 217, 35, 32, 46, 137, 180, 124, 184, 38, 119, 153, 227, 165>>,
  <<103, 74, 237, 222, 197, 49, 254, 24, 13, 99, 140, 128, 192, 247, 112, 7>>>>

InvTable == <<
  <<0, 1, 141, 246, 203, 82, 123, 209, 232, 79, 41, 192, 176, 225, 229, 199>>,
  <<116, 180, 170, 75, 153, 43, 96, 95, 88, 63, 253, 204, 255, 64, 238, 178>>,
  <<58, 110, 90, 241, 85, 77, 168, 201, 193, 10, 152, 21, 48, 68, 162, 194>>,
  <<44, 69, 146, 108, 243, 57, 102, 66, 242, 53, 32, 111, 119, 187, 89, 25>>,
  <<29, 254, 55, 103, 45, 49, 245, 105, 167, 100, 171, 19, 84, 37, 233, 9>>,
  <<237, 92, 5, 202, 76, 36, 135, 191, 24, 62, 34, 240, 81, 236, 97, 23>>,
  <<22, 94, 175, 211, 73, 166, 54, 67, 244, 71, 145, 223, 51, 147, 33, 59>>,
  <<121, 183, 151, 133, 16, 181, 186, 60, 182, 112, 208, 6, 161, 250, 129, 130>>,
  <<131, 126, 127, 128, 150, 115, 190, 86, 155, 158, 149, 217, 247, 2, 185, 164>>,
  <<222, 106, 50, 109, 216, 138, 132, 114, 42, 20, 159, 136, 249, 220, 137, 154>>,
  <<251, 124, 46, 195, 143, 184, 101, 72, 38, 200, 18, 74, 206, 231, 210, 98>>,
  <<12, 224, 31, 239, 17, 117, 120, 113, 165, 142, 118, 61, 189, 188, 134, 87>>,
  <<11, 40, 47, 163, 218, 212, 228, 15, 169, 39, 83, 4, 27, 252, 172, 230>>,
  <<122, 7, 174, 99, 197, 219, 226, 234, 148, 139, 196, 213, 157, 248, 144, 107>>,
  <<177, 13, 214, 235, 198, 14, 207, 173, 8, 78, 215, 227, 93, 80, 30, 179>>,
  <<91, 35, 56, 52, 104, 70, 3, 140, 221, 156, 125, 160, 205, 26, 65, 28>>>>

\* table[x/16][x%16]
In(table, x) == table[(x \div 16) + 1][(x % 16) + 1]

\* Bit by bit the sum modulo 2, which is C's ^ on symbols.
Bit(x, p) == (x \div p) % 2

Xor(x, y) ==
  LET b(p) == p * ((Bit(x, p) + Bit(y, p)) % 2)
  IN b(1) + b(2) + b(4) + b(8) + b(16) + b(32) + b(64) + b(128)

add28(x, y) == Xor(x, y)

sub28(x, y) == Xor(x, y)

\* Mutant: the sum wraps as the index of the table does, by 256.
Wrap_256(t) == IF t > 255 THEN t - 256 ELSE t

\* A sum of two logarithms, taken back below the order of 3.
Wrap(t) == IF t > 255 THEN t - 255 ELSE t

multiply28(x, y) ==
  IF x = 0 \/ y = 0 THEN 0
  ELSE In(ExpTable, Wrap(In(LogTable, x) + In(LogTable, y)))

inv28(x) == In(InvTable, x)

-----------------------------------------------------------------------------
\* What the tables stand for.
POLY == 283

\* The polynomial x times the variable, modulo POLY, whose bit 256 meets that of 2 * x.
Double(x) == IF x < 128 THEN 2 * x ELSE Xor(2 * x, POLY)

\* x times y: the sum of x shifted by i, for each bit i of y.
Product(x, y) ==
  LET Shifted[i \in 0..7] == IF i = 0 THEN x ELSE Double(Shifted[i - 1])
      Sum[i \in 0..8] ==
        IF i = 0 THEN 0
        ELSE IF (y \div 2^(i - 1)) % 2 = 1 THEN Xor(Sum[i - 1], Shifted[i - 1])
        ELSE Sum[i - 1]
  IN Sum[8]
=============================================================================
