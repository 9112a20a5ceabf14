----------------------------- MODULE MCMachine ------------------------------
(* The numbers at which conversions change their ways; short strings with a   *)
(* character that is not theirs behind them.                                  *)
EXTENDS Machine

SmallBits == 12
SomeValues == {-2048, -2047, -1000, -999, -10, -1, 0, 7, 8, 9, 10, 15, 16, 1000, 2047}

SomeDirectives ==
    [conv : {"d", "u", "o", "x", "b"}, left : BOOLEAN, zero : BOOLEAN,
     min : {0, 3, 6, 81}, max : {0}]

Texts == UNION {[1 .. n -> {1, 2}] : n \in 0 .. 2}
SomeArrays ==
    {[i \in 0 .. 5 |-> IF i < Len(t) THEN t[i + 1] ELSE IF i = Len(t) THEN 0 ELSE 3] : t \in Texts}
=============================================================================
