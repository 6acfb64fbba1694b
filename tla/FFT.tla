-------------------------------- MODULE FFT --------------------------------
(***************************************************************************)
(* fft_encoder.cpp: the transform of a message over the integers modulo    *)
(* 257.  The arithmetic is that of 32-bit unsigned numbers; 2^32 is 1      *)
(* modulo 257, which is how a product with a negative root is reduced.     *)
(*                                                                         *)
(* findW converts 3^p to an int.  From p = 20 on the power does not fit,   *)
(* the conversion is undefined and real machines give the least int or the *)
(* greatest; IntMin chooses.                                               *)
(***************************************************************************)
EXTENDS Integers, Sequences

add257(a, b) == (a + b) % 257

sub257(a, b) == (a - b) % 257

\* b may be a negative root: as an unsigned it is 2^32 + b, and the product
\* with a positive a is 2^32 + a * b.
mult257(a, b) == IF b < 0 /\ a > 0 THEN (1 + a * b) % 257 ELSE (a * b) % 257

\* Mutant: the step of the root is half of what the size asks for.
findW_Half(n, IntMin) ==
  LET p == 128 \div n
  IN IF p <= 19 THEN 3^p % 257 ELSE IF IntMin THEN -129 ELSE 128

\* -2^31 % 257 is -129 in C, and 2^31 - 1 is 128 modulo 257.
findW(n, IntMin) ==
  LET p == 256 \div n
  IN IF p <= 19 THEN 3^p % 257 ELSE IF IntMin THEN -129 ELSE 128

Half(a, first) == [i \in 1..Len(a) \div 2 |-> a[2 * i - (1 - first)]]

\* w at each turn of the loop over k: 1 multiplied by wn k times, which may be
\* done by halves unless wn is negative (then mult257 adds 1 to each product).
Turns(wn, n) ==
  LET w[k \in 0..(n \div 2 - 1)] ==
        IF k = 0 THEN 1
        ELSE IF wn > 0 /\ k % 2 = 0 THEN mult257(w[k \div 2], w[k \div 2])
        ELSE mult257(w[k - 1], wn)
  IN w

RECURSIVE recursive_FFT(_, _)
recursive_FFT(a, IntMin) ==
  IF Len(a) = 1 THEN a
  ELSE LET n  == Len(a)
           y0 == recursive_FFT(Half(a, 0), IntMin)
           y1 == recursive_FFT(Half(a, 1), IntMin)
           w  == Turns(findW(n, IntMin), n)
       IN [i \in 1..n |->
             LET k == (i - 1) % (n \div 2)
                 t == mult257(w[k], y1[k + 1])
             IN IF i <= n \div 2 THEN add257(y0[k + 1], t) ELSE sub257(y0[k + 1], t)]

\* The message and zeros, up to the size of the transform.
Padded(msg) == [i \in 1..256 |-> IF i <= Len(msg) THEN msg[i] ELSE 0]

fft_encoder(msg, IntMin) == recursive_FFT(Padded(msg), IntMin)
=============================================================================
