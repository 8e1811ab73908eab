---------------------------- MODULE MCLoopSetup ----------------------------
(***************************************************************************)
(* LoopSetup on a library whose integers have four bits: numbers on both   *)
(* sides of their maximum (7) and of their range (16), written with and    *)
(* without a suffix.  The runtime's flags are varied under one profile,    *)
(* and the profiles and layers under one runtime.                          *)
(***************************************************************************)
EXTENDS LoopSetup

Sizes == [digits : {0, 1, 3, 7, 8, 16, 19}, mult : {1, 4}]
Knobs == {-1, 0, 5, 12, 21}

Line(m, g, p, f, h, q, named, x, w) ==
    [memlimit |-> m, gogc |-> g, gomaxprocs |-> p, few |-> f, shape |-> h,
     profile |-> q, named |-> named, parallax |-> x, wrapper |-> w]

MCLines ==
    {Line(m, g, p, f, "both", "none", Layers, TRUE, TRUE) :
        m \in Sizes \union {AutoSize}, g \in Knobs, p \in Knobs, f \in BOOLEAN}
    \union {Line(AutoSize, 0, 0, TRUE, h, "none", Layers, TRUE, TRUE) : h \in Shapes}
    \union {Line(AutoSize, 0, 0, TRUE, h, p, named, x, w) :
        h \in Shapes, p \in {"stream", "message", "blob-only", "unknown"},
        named \in {{}, {"segment"}, {"outer"}, {"palette", "segment"}, Layers},
        x \in BOOLEAN, w \in BOOLEAN}
=============================================================================
