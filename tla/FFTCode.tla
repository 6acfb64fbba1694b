------------------------------ MODULE FFTCode ------------------------------
(***************************************************************************)
(* The fast encoder beside the other, as in main.cpp, which gives both the *)
(* same message; and what a transform of 256 places over the integers      *)
(* modulo 257 is: the values of the message's polynomial at the powers of  *)
(* 3.                                                                      *)
(***************************************************************************)
EXTENDS ErasureCode, FFT, FiniteSetsExt

\* The powers of 3 modulo 257, of which the 256th is 1 again.
Power[e \in 0..255] ==
  IF e = 0 THEN 1
  ELSE IF e % 2 = 0 THEN Power[e \div 2] * Power[e \div 2] % 257
  ELSE 3 * Power[e - 1] % 257

\* The places of the coefficients that count.
Support(msg) == {j \in 1..Len(msg) : msg[j] # 0}

IsTransform(msg, code) ==
  LET at == Support(msg)
  IN \A k \in 0..255 :
       code[k + 1] = MapThenSumSet(LAMBDA j : msg[j] * Power[k * (j - 1) % 256], at) % 257

\* findW's root for arrays of 8 elements meets what stands at the odd places of
\* one, and its root for arrays of 4 what stands at the odd places of those.
MeetsWrongRoot(j) == ((j - 1) \div 32) % 4 # 0

\* m behind as many zeros as its first symbol says, so that the messages of a
\* run have coefficients all over the 256 places.
Spread ==
  LET z == IF m[1] + Len(m) <= 256 THEN m[1] ELSE 256 - Len(m)
  IN [j \in 1..z |-> 0] \o m

\* fft_encoder gives the transform of exactly the messages that keep away from
\* findW's roots for 8 and for 4 elements, whose powers of 3 do not fit in an
\* int, whatever their conversion gives: for example of all messages of up to
\* 32 symbols, of which those of main.cpp are.
Transform ==
  phase = "sent" /\ AllThere =>
    \A IntMin \in BOOLEAN :
      IsTransform(Spread, fft_encoder(Spread, IntMin))
        <=> \A j \in Support(Spread) : ~MeetsWrongRoot(j)
=============================================================================
