---------------------------- MODULE MCBigInteger ----------------------------
(***************************************************************************)
(* Base 4 and three digits: every sum, product and quotient of up to three *)
(* digits, the cap, the exponent and the i64 limits among them.            *)
(***************************************************************************)
EXTENDS BigInteger

Mags == {<<a>> : a \in Digits} \cup {<<a, b>> : a, b \in Digits}
          \cup {<<a, b, c>> : a, b, c \in Digits}

Nan == [Number(FALSE, <<0>>) EXCEPT !.special = TRUE]
Metres(mag) == [Number(FALSE, mag) EXCEPT !.unit = "m"]

\* All spellings of all numbers, zero with either sign.
MCStarts == {Number(n, m) : n \in BOOLEAN, m \in Mags} \cup {Nan, Metres(<<1, 2>>)}

MCOperands ==
  {Number(n, m) : n \in BOOLEAN,
     m \in {<<a>> : a \in Digits} \cup {<<a, b>> : a \in Digits, b \in {0, 1, 3}}
           \cup {<<3, 3, 3>>, <<0, 0, 1>>, <<2, 0, 0>>}}
  \cup {Nan, Metres(<<3>>), [Metres(<<3>>) EXCEPT !.unit = "s"]}
=============================================================================
