------------------------- MODULE MCVibratorService --------------------------
EXTENDS VibratorService

(* Every primitive at every edge of its scale and delay on its own, rests  *)
(* and delays before and after a tap, and more than fits.                  *)
Effect(primitive, scale, delayMs) ==
    [primitive |-> primitive, scale |-> scale, delayMs |-> delayMs]

Singles ==
    {<<Effect(p, n, d)>> : p \in Primitives \cup {"THUD"},
        n \in {-1, 0, 1, 2, 3, 4, Scale \div 2, Scale, Scale + 1}, d \in {-1, 0, 1000, 1001}}

Pairs ==
    {<<Effect(p, n, 0), Effect(q, Scale, d)>> : p \in {"NOOP", "CLICK"},
        n \in {0, 1}, q \in {"NOOP", "LOW_TICK", "THUD"}, d \in {0, 1, 1001}}

MCCompositions ==
    Singles \cup Pairs \cup {<<>>, [i \in 1..65 |-> Effect("NOOP", 0, 0)]}

MCAmplitudes == {-1, 0, 1, 2, 3, 4, 255, 256, 257, 509, 510, 511, 512, 513}
=============================================================================
