---------------------------- MODULE MCLoopFigures ---------------------------
(* Words of two digits.  The increment, the golden ratio of the modulus in   *)
(* the code, is 27 of 64: no small multiple of it is near zero.  Payloads    *)
(* are varied under one vector, and vectors under one payload.               *)
EXTENDS LoopFigures

MCMix == [x \in 0..63 |-> (x * 29 + 11) % 64]

MCStarter == [p \in 0..1 |-> 3 + p]

Layout(t, e) == [tiers |-> t, extra |-> e]

MCConfigs ==
    [seed : {0, 1, 63}, size : {1, 3}, mode : Modes, layout : {Layout(0, 0)}]
    \union [seed : {5}, size : {2}, mode : {"fixed"},
            layout : {Layout(1, 4), Layout(2, 0), Layout(1, -4), Layout(0, -2)}]
=============================================================================
