------------------------------ MODULE Kernels -------------------------------
(***************************************************************************)
(* The other kernels, on the CPU (src/ops/kernels_*.cpp) and on the device *)
(* (backends/cuda/{kernels,gemm_cuda,gemm_fp16,flash_attention}.cu).       *)
(*                                                                         *)
(* What can be wrong in them, apart from the arithmetic, is which elements *)
(* they read and write: a cell of the output holds, as in Gemm, pairs of   *)
(* the indices it was computed from.  A CPU kernel is a sequential loop    *)
(* and one action.  A launch runs its blocks in any order; the threads of  *)
(* a block interleave, one action for each stretch between barriers.       *)
(* Blocks share nothing but the output, so one of them at a time is enough.*)
(***************************************************************************)
EXTENDS Gemm

CONSTANTS
    Backends,      \* a subset of {"cpu", "cuda"}
    BlockThreads,  \* kThreads: threads of a block in a flat launch
    DeviceTile,    \* TILE, and the side of the naive kernel's blocks
    WarpTile,      \* WM = WN = WK
    WarpsPerSide,  \* warps of a block in x, and in y
    Operations     \* what may be asked for: see Meaning for their fields

ASSUME KernelsAssumption ==
    BlockThreads \in Positive /\ DeviceTile \in Positive
    /\ WarpTile \in Positive /\ WarpsPerSide \in Positive

VARIABLES
    backend,
    grid,     \* blocks of the launch that have not started
    block,    \* the block that is running
    thread,   \* its threads: where they are, and their registers
    shared    \* its shared memory, As and Bs

launchVars == <<grid, block, thread, shared>>
kernelVars == <<gemmVars, backend, launchVars>>

NoBlock == <<>>
Unset == -2   \* what shared memory holds before
\* What one value of the output is computed from.
From(pairs) == <<pairs>>
One(x) == From(<< <<x, Zero>> >>)

KernelInit ==
    /\ GemmInit /\ backend \in Backends
    /\ grid = {} /\ block = NoBlock /\ thread = <<>> /\ shared = <<>>

\* Row-major shapes: the number of elements from dimension k on.
Numel(s, k) ==
    LET prod[x \in k .. Len(s) + 1] == IF x > Len(s) THEN 1 ELSE s[x] * prod[x + 1]
    IN  prod[k]
Size0(s) == Numel(s, 1)
Last(s) == s[Len(s)]
Coordinate(s, k, x) == (x \div Numel(s, k + 1)) % s[k]
Offset(terms) ==
    LET sum[k \in 0 .. Len(terms)] == IF k = 0 THEN 0 ELSE sum[k - 1] + terms[k]
    IN  sum[Len(terms)]

\* A row of n from cell x on, as far as the first count of it.
Row(x, count) == [j \in 1 .. count |-> <<x + j - 1, Zero>>]
\* Element j of the softmax over the cells of a row; a masked one is zero.
SoftmaxAt(x, count, j) == <<Row(x, count), << <<x + j, Zero>> >> >>
Masked == <<>>
\* Element j of a normalised row, by gamma[j] and beta[j].
LayerNormAt(x, count, j) == <<Row(x, count), << <<x + j, j>> >> >>
\* Element t of the attention of query i of head h over the keys 0 .. i.
AttentionAt(h, i, t, S, d) ==
    <<[j \in 1 .. i + 1 |-> <<(h * S + i) * d, (h * S + j - 1) * d>>],
      [j \in 1 .. i + 1 |-> <<(h * S + j - 1) * d + t, Zero>>]>>
-----------------------------------------------------------------------------
(* The CPU kernels: cell x of the output.                                  *)

Permuted(s, perm) == [k \in DOMAIN s |-> s[perm[k] + 1]]

\* Mutant: the strides are not permuted.
TransposeSourceUnpermuted(o, x) ==
    LET out == Permuted(o.shape, o.perm)
    IN  Offset([k \in DOMAIN out |-> Coordinate(out, k, x) * Numel(o.shape, k + 1)])
\* transpose_f32: the coordinates of x in the output, times the strides of
\* the input.
TransposeSource(o, x) ==
    LET out == Permuted(o.shape, o.perm)
    IN  Offset([k \in DOMAIN out |->
                   Coordinate(out, k, x) * Numel(o.shape, o.perm[k] + 2)])

\* add_f32: the same shape, or a bias for the last dimension.
AddCell(o, x) == From(<< <<x, IF o.a = o.b THEN x ELSE x % Last(o.a)>> >>)

\* gather_f32
GatherCell(o, x) == One(o.ids[(x \div o.d) + 1] * o.d + (x % o.d))

\* softmax_f32
SoftmaxCell(o, x) ==
    LET d == Last(o.shape) IN SoftmaxAt((x \div d) * d, d, x % d)

\* causal_softmax_f32
CausalCell(o, x) ==
    LET S == Last(o.shape)  valid == ((x \div S) % S) + 1
    IN  IF x % S < valid THEN SoftmaxAt((x \div S) * S, valid, x % S) ELSE Masked

\* layernorm_f32
LayerNormCell(o, x) ==
    LET d == Last(o.shape) IN LayerNormAt((x \div d) * d, d, x % d)

\* flash_attention_f32
FlashCell(o, x) ==
    AttentionAt(x \div (o.s * o.d), (x \div o.d) % o.s, x % o.d, o.s, o.d)

\* The products of row i of A and column j of B: all of matmul_q8_f32, whose
\* scale has the index j, and what a thread of the device computes.
DotOf(o, i, j) == [k \in 1 .. o.k |-> <<i * o.k + k - 1, (k - 1) * o.n + j>>]

HostCell(o, x) ==
    CASE o.op = "map"       -> One(x)   \* Relu, Gelu, GeluTanh, Scale, Reshape
      [] o.op = "add"       -> AddCell(o, x)
      [] o.op = "transpose" -> One(TransposeSource(o, x))
      [] o.op = "gather"    -> GatherCell(o, x)
      [] o.op = "softmax"   -> SoftmaxCell(o, x)
      [] o.op = "causal"    -> CausalCell(o, x)
      [] o.op = "layernorm" -> LayerNormCell(o, x)
      [] o.op = "flash"     -> FlashCell(o, x)
      [] o.op = "matmulq"   -> From(DotOf(o, x \div o.n, x % o.n))

OutputSize(o) ==
    CASE o.op \in {"map", "transpose", "softmax", "causal", "layernorm"} -> Size0(o.shape)
      [] o.op = "add"    -> Size0(o.a)
      [] o.op = "gather" -> Len(o.ids) * o.d
      [] o.op = "flash"  -> o.h * o.s * o.d
      [] OTHER           -> o.b * o.m * o.n
-----------------------------------------------------------------------------
(* Launches.  Threads of a flat launch are numbered through, and those     *)
(* from the number of items on return at once.                             *)

Products == {"gemm_naive", "gemm_tiled", "wmma"}
AllProducts == Products \cup {"matmul", "matmulq"}
RowKernels == {"softmax", "causal", "layernorm"}
Elementwise == {"map", "add", "transpose", "gather"}

\* An operator is one of those above, none of the products that Gemm computes
\* on the host (their calls have a variant), and its sizes are sizes.  Only
\* batched_matmul has more than one slice.  What is added is of the same shape,
\* or [D] behind dimensions of one; causal scores are square, and a permutation
\* names each dimension once.
ASSUME OperationsAssumption ==
    \A o \in Operations :
        /\ "v" \notin DOMAIN o
        /\ o.op \in AllProducts \cup RowKernels \cup Elementwise \cup {"flash"}
        /\ o.op \in AllProducts => o.b \in Nat /\ o.m \in Nat /\ o.n \in Nat /\ o.k \in Nat
        /\ o.op \in AllProducts \ {"matmul"} => o.b = 1
        /\ o.op \in RowKernels \cup {"map", "transpose"} => o.shape \in Seq(Nat)
        /\ o.op \in RowKernels => Len(o.shape) > 0
        /\ o.op = "causal" => Len(o.shape) > 1 /\ o.shape[Len(o.shape) - 1] = Last(o.shape)
        /\ o.op = "transpose" =>
              /\ o.perm \in [DOMAIN o.shape -> 0 .. Len(o.shape) - 1]
              /\ \A k \in DOMAIN o.shape : \E l \in DOMAIN o.shape :
                    \A m \in DOMAIN o.shape : o.perm[m] + 1 = k <=> m = l
        /\ o.op = "add" =>
              /\ o.a \in Seq(Nat) /\ o.b \in Seq(Nat)
              /\ \/ o.b = o.a
                 \/ /\ Len(o.a) > 0 /\ Len(o.b) > 0 /\ Last(o.b) = Last(o.a)
                    /\ \A k \in 1 .. Len(o.b) - 1 : o.b[k] = 1
        /\ o.op = "gather" => o.ids \in Seq(Nat) /\ o.d \in Nat
        /\ o.op = "flash" => o.h \in Nat /\ o.s \in Nat /\ o.d \in Nat

\* How many threads have something to do: one per element, or per row, or
\* per query.
Items(o) ==
    CASE o.op \in RowKernels -> Size0(o.shape) \div Last(o.shape)
      [] o.op = "flash"      -> o.h * o.s
      [] OTHER               -> OutputSize(o)

\* The side of C that one block covers.
Side(o) == IF o.op = "wmma" THEN WarpTile * WarpsPerSide ELSE DeviceTile

GridOf(o) ==
    IF o.op \in Products
    THEN (0 .. CeilDiv(o.m, Side(o)) - 1) \X (0 .. CeilDiv(o.n, Side(o)) - 1)
    ELSE {<<b>> : b \in 0 .. CeilDiv(Items(o), BlockThreads) - 1}

ThreadsOf(o) ==
    CASE o.op \in {"gemm_naive", "gemm_tiled"} -> (0 .. DeviceTile - 1) \X (0 .. DeviceTile - 1)
      [] o.op = "wmma" -> (0 .. WarpsPerSide - 1) \X (0 .. WarpsPerSide - 1)
      [] OTHER -> {<<t>> : t \in 0 .. BlockThreads - 1}

\* Mutant: blocks overlap by one thread.
GlobalIdOverlap(b, t) == b[1] * (BlockThreads - 1) + t[1]
\* blockIdx.x * blockDim.x + threadIdx.x
GlobalId(b, t) == b[1] * BlockThreads + t[1]

\* The strides that transpose() computes for the device.
DeviceStride(s, k) ==
    LET str[x \in 1 .. Len(s)] == IF x = Len(s) THEN 1 ELSE str[x + 1] * s[x + 1]
    IN  str[k]
DeviceTransposeSource(o, x) ==
    LET out == Permuted(o.shape, o.perm)
    IN  Offset([k \in DOMAIN out |->
                   Coordinate(out, k, x) * DeviceStride(o.shape, o.perm[k] + 1)])

\* The executor asks for a bias when the second operand has as many elements
\* as a row, and is not as large as the first.
IsBias(o) == Size0(o.b) = Last(o.a) /\ Size0(o.b) # Size0(o.a)
DeviceAdd(o, i) == From(<< <<i, IF IsBias(o) THEN i % Last(o.a) ELSE i>> >>)

\* What thread i of a flat launch writes: <<cell, value>> pairs.
DeviceRow(o, r) ==
    LET n == Last(o.shape)
        valid == IF o.op = "causal" THEN (r % o.shape[Len(o.shape) - 1]) + 1 ELSE n
    IN  {<<r * n + j,
           IF j >= valid THEN Masked
           ELSE IF o.op = "layernorm" THEN LayerNormAt(r * n, n, j)
           ELSE SoftmaxAt(r * n, valid, j)>> : j \in 0 .. n - 1}
DeviceQuery(o, i) ==
    {<<i * o.d + t, AttentionAt(i \div o.s, i % o.s, t, o.s, o.d)>> : t \in 0 .. o.d - 1}
FlatWrites(o, i) ==
    CASE o.op \in RowKernels -> DeviceRow(o, i)
      [] o.op = "flash"      -> DeviceQuery(o, i)
      [] o.op = "map"        -> {<<i, One(i)>>}
      [] o.op = "add"        -> {<<i, DeviceAdd(o, i)>>}
      [] o.op = "transpose"  -> {<<i, One(DeviceTransposeSource(o, i))>>}
      [] o.op = "gather"     -> {<<i, GatherCell(o, i)>>}

\* One element, or the tile of one warp, of the product on the device.
NaiveWrites(o, b, t) ==
    LET row == b[1] * DeviceTile + t[1]  col == b[2] * DeviceTile + t[2]
    IN  IF row >= o.m \/ col >= o.n THEN {}
        ELSE {<<row * o.n + col, From(DotOf(o, row, col))>>}
WarpWrites(o, b, t) ==
    LET aRow == (b[1] * WarpsPerSide + t[1]) * WarpTile
        bCol == (b[2] * WarpsPerSide + t[2]) * WarpTile
    IN  IF aRow >= o.m \/ bCol >= o.n THEN {}
        ELSE {<<(aRow + x) * o.n + bCol + y, From(DotOf(o, aRow + x, bCol + y))>> :
                 x \in 0 .. WarpTile - 1, y \in 0 .. WarpTile - 1}

Writes(o, b, t) ==
    CASE o.op = "gemm_naive" -> NaiveWrites(o, b, t)
      [] o.op = "wmma"       -> WarpWrites(o, b, t)
      [] OTHER -> IF GlobalId(b, t) < Items(o) THEN FlatWrites(o, GlobalId(b, t)) ELSE {}

WithWrites(W) ==
    [c \in DOMAIN C \cup {x[1] : x \in W} |->
        IF \E x \in W : x[1] = c THEN (CHOOSE x \in W : x[1] = c)[2] ELSE C[c]]
-----------------------------------------------------------------------------
(* cuBLAS, which is column-major and external: element (i, j) of the       *)
(* product of X (m by k, leading dimension ldx) and Y, at i + j * ldz.     *)
(* The code passes B for X and A for Y to get a row-major product.         *)

Sgemm(m, n, k, ldx, ldy, ldz) ==
    {<<i + j * ldz, [p \in 1 .. k |-> <<(p - 1) + j * ldy, i + (p - 1) * ldx>>]>> :
        i \in 0 .. m - 1, j \in 0 .. n - 1}
\* matmul and batched_matmul, s * m * n and so on being the strides.
\* Mutant: the leading dimensions belong to the operands as the caller sees them.
CublasWritesUnswapped(o) ==
    UNION {{<<s * o.m * o.n + w[1],
              From([p \in DOMAIN w[2] |-> <<s * o.m * o.k + w[2][p][1],
                                            s * o.k * o.n + w[2][p][2]>>])>> :
               w \in Sgemm(o.n, o.m, o.k, o.k, o.n, o.n)} : s \in 0 .. o.b - 1}
CublasWrites(o) ==
    UNION {{<<s * o.m * o.n + w[1],
              From([p \in DOMAIN w[2] |-> <<s * o.m * o.k + w[2][p][1],
                                            s * o.k * o.n + w[2][p][2]>>])>> :
               w \in Sgemm(o.n, o.m, o.k, o.n, o.k, o.n)} : s \in 0 .. o.b - 1}
-----------------------------------------------------------------------------
OnHost == backend = "cpu"
HostUnchanged == UNCHANGED <<neon, mode, slice, todo, job, buf, backend>>

Ask(o) ==
    /\ phase \in {"outside", "returned"} /\ calls < MaxCalls
    /\ calls' = calls + 1
    /\ call' = o
    /\ C' = [c \in 0 .. OutputSize(o) - 1 |-> Garbage]

\* A CPU kernel, from beginning to end.
RunHost(o) ==
    /\ OnHost /\ o.op \notin Products \cup {"matmul"}
    /\ phase \in {"outside", "returned"} /\ calls < MaxCalls
    /\ calls' = calls + 1 /\ call' = o
    /\ C' = [c \in 0 .. OutputSize(o) - 1 |-> HostCell(o, c)]
    /\ phase' = "returned"
    /\ HostUnchanged /\ UNCHANGED launchVars

\* A launch; tensor cores take whole tiles only, and the code aborts otherwise.
Launch(o) ==
    /\ ~OnHost /\ o.op \notin {"matmul", "matmulq"}
    /\ o.op = "wmma" => o.m % WarpTile = 0 /\ o.n % WarpTile = 0 /\ o.k % WarpTile = 0
    /\ Ask(o)
    /\ grid' = GridOf(o) /\ block' = NoBlock /\ thread' = <<>> /\ shared' = <<>>
    /\ phase' = "running"
    /\ HostUnchanged

CallCublas(o) ==
    /\ ~OnHost /\ o.op = "matmul"
    /\ phase \in {"outside", "returned"} /\ calls < MaxCalls
    /\ calls' = calls + 1 /\ call' = o
    /\ LET W == CublasWrites(o)
       IN  C' = [c \in {w[1] : w \in W} |-> (CHOOSE w \in W : w[1] = c)[2]]
    /\ phase' = "returned"
    /\ HostUnchanged /\ UNCHANGED launchVars

Launched == ~OnHost /\ phase = "running"
BlockEnded == \A t \in DOMAIN thread : thread[t].at = "done"

\* Each thread starts at the top of its kernel with an empty sum.
StartBlock ==
    /\ Launched /\ BlockEnded
    /\ \E b \in grid :
          /\ block' = b /\ grid' = grid \ {b}
          /\ thread' = [t \in ThreadsOf(call) |->
                           [at |-> IF call.op = "gemm_tiled" /\ call.k = 0
                                   THEN "store" ELSE "start", k0 |-> 0, acc |-> <<>>]]
          /\ shared' = [x \in {"a", "b"} |-> [t \in ThreadsOf(call) |-> Unset]]
    /\ UNCHANGED <<C, phase, calls, call>> /\ HostUnchanged

EndLaunch ==
    /\ Launched /\ BlockEnded /\ grid = {}
    /\ phase' = "returned"
    /\ block' = NoBlock /\ thread' = <<>> /\ shared' = <<>>
    /\ UNCHANGED <<C, grid, calls, call>> /\ HostUnchanged

\* A thread without barriers runs through.
RunThread(t) ==
    /\ Launched /\ call.op # "gemm_tiled" /\ thread[t].at = "start"
    /\ C' = WithWrites(Writes(call, block, t))
    /\ thread' = [thread EXCEPT ![t].at = "done"]
    /\ UNCHANGED <<grid, block, shared, phase, calls, call>> /\ HostUnchanged
-----------------------------------------------------------------------------
(* gemm_tiled_k: thread <<ty, tx>> stages one element of a tile of A and   *)
(* one of B, waits, adds up a row by a column of the tiles, waits.         *)

RowOf(t) == block[1] * DeviceTile + t[1]
ColOf(t) == block[2] * DeviceTile + t[2]

\* __syncthreads: nobody goes on until all of the block are there.
Sync(from, to(_)) ==
    /\ Launched /\ thread # <<>> /\ \A t \in DOMAIN thread : thread[t].at = from
    /\ thread' = [t \in DOMAIN thread |-> to(thread[t])]
    /\ UNCHANGED <<C, grid, block, shared, phase, calls, call>> /\ HostUnchanged

\* Mutant: the test that guards the other kernels, where a barrier follows.
StageInside(t) ==
    /\ Launched /\ call.op = "gemm_tiled" /\ thread[t].at = "start"
    /\ LET aCol == thread[t].k0 + t[2]  bRow == thread[t].k0 + t[1]
           inside == RowOf(t) < call.m /\ ColOf(t) < call.n
       IN  /\ shared' =
                IF ~inside THEN shared
                ELSE [a |-> [shared.a EXCEPT ![t] =
                                IF aCol < call.k THEN RowOf(t) * call.k + aCol ELSE Zero],
                      b |-> [shared.b EXCEPT ![t] =
                                IF bRow < call.k THEN bRow * call.n + ColOf(t) ELSE Zero]]
           /\ thread' = [thread EXCEPT ![t].at = IF inside THEN "staged" ELSE "done"]
    /\ UNCHANGED <<C, grid, block, phase, calls, call>> /\ HostUnchanged
Stage(t) ==
    /\ Launched /\ call.op = "gemm_tiled" /\ thread[t].at = "start"
    /\ LET aCol == thread[t].k0 + t[2]  bRow == thread[t].k0 + t[1]
       IN  shared' =
             [a |-> [shared.a EXCEPT ![t] =
                        IF RowOf(t) < call.m /\ aCol < call.k
                        THEN RowOf(t) * call.k + aCol ELSE Zero],
              b |-> [shared.b EXCEPT ![t] =
                        IF bRow < call.k /\ ColOf(t) < call.n
                        THEN bRow * call.n + ColOf(t) ELSE Zero]]
    /\ thread' = [thread EXCEPT ![t].at = "staged"]
    /\ UNCHANGED <<C, grid, block, phase, calls, call>> /\ HostUnchanged

\* The products of a row of As and a column of Bs, one after the other; zero
\* times zero is nothing.
TileDot(t) ==
    LET product(k) == <<shared.a[t[1], k - 1], shared.b[k - 1, t[2]]>>
        sum[k \in 0 .. DeviceTile] ==
            IF k = 0 THEN <<>>
            ELSE IF product(k) = <<Zero, Zero>> THEN sum[k - 1]
            ELSE Append(sum[k - 1], product(k))
    IN  sum[DeviceTile]

\* Mutant: no barrier behind the products.
MultiplyAndGoOn(t) ==
    /\ Launched /\ call.op = "gemm_tiled" /\ thread[t].at = "multiply"
    /\ thread' = [thread EXCEPT ![t] =
          [at |-> IF @.k0 + DeviceTile < call.k THEN "start" ELSE "store",
           k0 |-> @.k0 + DeviceTile, acc |-> @.acc \o TileDot(t)]]
    /\ UNCHANGED <<C, grid, block, shared, phase, calls, call>> /\ HostUnchanged
Multiply(t) ==
    /\ Launched /\ call.op = "gemm_tiled" /\ thread[t].at = "multiply"
    /\ thread' = [thread EXCEPT ![t].at = "multiplied", ![t].acc = @ \o TileDot(t)]
    /\ UNCHANGED <<C, grid, block, shared, phase, calls, call>> /\ HostUnchanged

SyncStaged == Sync("staged", LAMBDA r : [r EXCEPT !.at = "multiply"])
SyncMultiplied ==
    Sync("multiplied", LAMBDA r :
        [r EXCEPT !.k0 = @ + DeviceTile,
                  !.at = IF r.k0 + DeviceTile < call.k THEN "start" ELSE "store"])

Store(t) ==
    /\ Launched /\ call.op = "gemm_tiled" /\ thread[t].at = "store"
    /\ C' = IF RowOf(t) < call.m /\ ColOf(t) < call.n
            THEN WithWrites({<<RowOf(t) * call.n + ColOf(t), From(thread[t].acc)>>})
            ELSE C
    /\ thread' = [thread EXCEPT ![t].at = "done"]
    /\ UNCHANGED <<grid, block, shared, phase, calls, call>> /\ HostUnchanged
-----------------------------------------------------------------------------
DeviceStep ==
    \/ StartBlock \/ EndLaunch
    \/ \E t \in DOMAIN thread : RunThread(t) \/ Stage(t) \/ Multiply(t) \/ Store(t)
    \/ SyncStaged \/ SyncMultiplied

KernelCall == \E o \in Operations : RunHost(o) \/ Launch(o) \/ CallCublas(o)

KernelNext ==
    \/ OnHost /\ (GemmNext /\ UNCHANGED <<backend, launchVars>>)
    \/ KernelCall \/ DeviceStep
    \/ ~OnHost /\ calls = MaxCalls /\ phase = "returned" /\ UNCHANGED kernelVars

KernelSpec == KernelInit /\ [][KernelNext]_kernelVars
-----------------------------------------------------------------------------
(* Properties.                                                             *)

CoordinateIn(s, x) == [k \in DOMAIN s |-> Coordinate(s, k, x)]

\* The element of b that is broadcast to cell x over the leading dimensions.
Broadcast(o, x) ==
    CHOOSE y \in 0 .. Size0(o.b) - 1 :
        \A k \in DOMAIN o.b :
            \/ o.b[k] = 1
            \/ Coordinate(o.b, k, y) = Coordinate(o.a, k + Len(o.a) - Len(o.b), x)
\* The element with the coordinates of x in another order.
Transposed(o, x) ==
    CHOOSE y \in 0 .. OutputSize(o) - 1 :
        \A k \in DOMAIN o.shape :
            Coordinate(o.shape, o.perm[k] + 1, y)
              = Coordinate(Permuted(o.shape, o.perm), k, x)

\* What cell x of the output should be, by the coordinates of x: the
\* definitions of the operators, with no loops, threads or strides.
Meaning(o, x) ==
    CASE o.op = "map"       -> One(x)
      [] o.op = "add"       -> From(<< <<x, Broadcast(o, x)>> >>)
      [] o.op = "transpose" -> One(Transposed(o, x))
      [] o.op = "gather" ->
            LET c == CoordinateIn(<<Len(o.ids), o.d>>, x) IN One(o.ids[c[1] + 1] * o.d + c[2])
      [] o.op \in RowKernels ->
            LET n == Len(o.shape)  j == Coordinate(o.shape, n, x)
                seen == IF o.op = "causal" THEN Coordinate(o.shape, n - 1, x) + 1 ELSE o.shape[n]
            IN  IF j >= seen THEN Masked
                ELSE IF o.op = "layernorm" THEN LayerNormAt(x - j, seen, j)
                ELSE SoftmaxAt(x - j, seen, j)
      [] o.op = "flash" ->
            LET c == CoordinateIn(<<o.h, o.s, o.d>>, x)
            IN  AttentionAt(c[1], c[2], c[3], o.s, o.d)

\* On either backend, when an operator has been computed, each cell of its
\* output comes from the elements the operator's definition names, and
\* nothing outside the output has been written (cuda_test.cu and
\* golden_kernel_test.cpp, on one shape per operator).
OutputsAreMeaning ==
    phase = "returned" /\ ~IsGemm /\ call.op \notin AllProducts =>
        /\ DOMAIN C = 0 .. OutputSize(call) - 1
        /\ \A x \in DOMAIN C : C[x] = Meaning(call, x)

\* The same for the products on the device and for the int8 product: each
\* cell holds the full dot product, whatever the order of the blocks and the
\* interleaving of the threads of a block (bench_gemm_cuda.cu compares square ones).
DeviceIsProduct ==
    phase = "returned" /\ ~IsGemm /\ call.op \in AllProducts =>
        /\ DOMAIN C = 0 .. call.b * call.m * call.n - 1
        /\ \A c \in DOMAIN C : Summands(C[c]) = Product(c)

\* No two threads of a launch write one cell: their order cannot matter, and
\* a thread may use its part of the output as scratch, as softmax_k does.
OneThreadPerCell ==
    Launched /\ block = NoBlock /\ call.op # "gemm_tiled" =>
        \A b, e \in GridOf(call), t, u \in ThreadsOf(call) :
            <<b, t>> # <<e, u>> =>
                {w[1] : w \in Writes(call, b, t)} \cap {w[1] : w \in Writes(call, e, u)} = {}

\* No thread of gemm_tiled_k waits at a barrier that another thread of its
\* block has left the kernel without reaching: threads outside the matrix
\* must stay in the loop.
BarriersMeet ==
    \A t, u \in DOMAIN thread :
        ~(thread[t].at \in {"staged", "multiplied"} /\ thread[u].at \in {"store", "done"})
=============================================================================
