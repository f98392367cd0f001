----------------------------- MODULE MCKernels ------------------------------
(***************************************************************************)
(* Tiles of two, blocks of one and of two tiles, blocks of three device    *)
(* threads, and products and operators around these sizes: below a tile,   *)
(* whole tiles, one more than whole, more than one block each way.         *)
(***************************************************************************)
EXTENDS Kernels

Size(m, n, k) == [m |-> m, n |-> n, k |-> k]
MCBlock == Size(2, 4, 2)
MCNeonBlocks == <<Size(4, 2, 2), Size(2, 4, 3)>>

Problem(b, m, n, k) == [b |-> b, m |-> m, n |-> n, k |-> k]
MCProblems == {Problem(1, 5, 3, 3), Problem(1, 3, 5, 2), Problem(1, 4, 4, 3),
               Problem(1, 2, 1, 0), Problem(2, 3, 2, 3)}

On(op, m, n, k) == [op |-> op, b |-> 1, m |-> m, n |-> n, k |-> k]
Shaped(op, s) == [op |-> op, shape |-> s]
MCOperations ==
    {On("gemm_naive", 3, 1, 2), On("gemm_naive", 2, 3, 1),
     On("gemm_tiled", 3, 3, 3), On("gemm_tiled", 1, 2, 4), On("gemm_tiled", 3, 1, 0),
     On("wmma", 4, 6, 4), On("matmul", 2, 3, 1),
     [On("matmul", 2, 1, 3) EXCEPT !.b = 2],
     On("matmulq", 2, 3, 2), Shaped("map", <<2, 2>>),
     [op |-> "add", a |-> <<2, 3>>, b |-> <<3>>],
     [op |-> "add", a |-> <<2, 2>>, b |-> <<2, 2>>],
     [op |-> "add", a |-> <<2, 1, 2>>, b |-> <<1, 2>>],
     [op |-> "add", a |-> <<1, 3>>, b |-> <<3>>],
     [op |-> "transpose", shape |-> <<2, 3, 2>>, perm |-> <<1, 0, 2>>],
     [op |-> "transpose", shape |-> <<1, 2, 3>>, perm |-> <<2, 0, 1>>],
     [op |-> "gather", ids |-> <<2, 0>>, d |-> 2],
     Shaped("softmax", <<2, 2, 2>>), Shaped("layernorm", <<4, 2>>),
     Shaped("causal", <<2, 3, 3>>), Shaped("causal", <<4, 1, 1>>),
     [op |-> "flash", h |-> 2, s |-> 2, d |-> 2]}
=============================================================================
