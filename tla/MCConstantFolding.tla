-------------------------- MODULE MCConstantFolding --------------------------
(* Three nodes over an input 0 and two weights 1 and 2, listed forwards or
   backwards; the second has two outputs, at most one has no kernel. *)
EXTENDS ConstantFolding

Tables(n, f(_), back) == [i \in 0 .. n - 1 |-> f(IF back THEN n - i ELSE i + 1)]

Build(ins, without, back) ==
    LET outs == <<<<3>>, <<4, 5>>, <<6>>>>
        in(j) == ins[j]
        out(j) == outs[j]
        op(j) == IF j = without THEN "unknown" ELSE <<"f", "g", "f">>[j]
    IN  [kind |-> [t \in 0 .. 6 |-> IF t = 0 THEN "input" ELSE IF t < 3 THEN "weight"
                                    ELSE IF t = 6 THEN "output" ELSE "intermediate"],
         op |-> Tables(3, op, back),
         inputs |-> Tables(3, in, back),
         outputs |-> Tables(3, out, back),
         results |-> <<6>>]

MCGraphs ==
    {Build(<<a, b, c>>, without, back) :
        a \in {<<>>, <<0>>, <<1>>, <<2, 1>>, <<1, 1>>},
        b \in {<<1>>, <<3>>, <<3, 2>>, <<0, 3>>},
        c \in {<<2, 5>>, <<4, 0>>, <<3, 5>>, <<5, 4>>},
        without \in 0 .. 3, back \in BOOLEAN}
=============================================================================
