-------------------------------- MODULE Gemm --------------------------------
(***************************************************************************)
(* The CPU matrix product C = A B (backends/cpu/gemm.cpp): the ladder of   *)
(* variants, the choice gemm_auto makes between them, and the batched      *)
(* product of kernels_transformer.cpp, which is one gemm_auto per slice.   *)
(*                                                                         *)
(* Numbers are abstracted to where they come from.  A and B are read only, *)
(* so an element is its index.  A cell of C is the sequence of partial     *)
(* sums added up in it, a partial sum is the sequence of products          *)
(* <<a, b>> in the order they are accumulated: two cells with the same     *)
(* value hold the same float, bit for bit.                                 *)
(*                                                                         *)
(* One action is one call of pack_a or pack_b, or the micro-tiles of one   *)
(* block; the variants that need no scratch are one action each.  In       *)
(* gemm_threaded the workers of the pool interleave.  What ThreadPool.tla  *)
(* shows of parallel_for is used here: each range is run by one worker,    *)
(* and the caller returns after the last.                                  *)
(***************************************************************************)
EXTENDS Integers, FiniteSets, Sequences

CONSTANTS
    Tile,         \* MR = NR, the scalar micro-tile
    NeonTile,     \* NMR = NNR
    Block,        \* [m, n, k]: MC, NC, KC of the scalar variants
    NeonBlocks,   \* block sizes gemm_neon_blocked is called with; the first
                  \* of the sequence is what gemm_neon passes
    Builds,       \* a subset of BOOLEAN: is __ARM_NEON defined?
    PoolThreads,  \* threads of the pool
    MinRows,      \* gemm_auto: rows from which it may use threads
    MinFlops,     \* gemm_auto: 2MNK from which it may use threads
    Problems,     \* [b, m, n, k]: products that may be asked for
    MaxCalls      \* bound: how many products are computed

Positive == Nat \ {0}
IsBlock(blk, tile) ==
    /\ blk \in [m : Positive, n : Positive, k : Positive]
    /\ blk.m % tile = 0 /\ blk.n % tile = 0

\* Every block size in the repository is a multiple of the tile: 128/128/256,
\* 128/512/512, and what bench_autotune.cpp sweeps over.
ASSUME GemmAssumption ==
    /\ Tile \in Positive /\ NeonTile \in Positive
    /\ IsBlock(Block, Tile)
    /\ \A x \in DOMAIN NeonBlocks : IsBlock(NeonBlocks[x], NeonTile)
    /\ PoolThreads \in Positive /\ MinRows \in Nat /\ MinFlops \in Nat
    /\ Problems \subseteq [b : Positive, m : Positive, n : Positive, k : Nat]

VARIABLES
    neon,    \* the build
    mode,    \* matmul_mode(): "unread" until the first gemm_auto
    phase,   \* "outside" a call, "dispatch", "running", "returned"
    calls,   \* how many calls have begun
    call,    \* the call: variant, problem, block sizes
    slice,   \* the loop variable bi of the batched product
    todo,    \* row ranges that no worker has claimed
    job,     \* what each thread is doing; thread 0 is the caller
    buf,     \* the thread-local packing buffers, one pair per kernel
    C        \* the output

gemmVars == <<neon, mode, phase, calls, call, slice, todo, job, buf, C>>

Modes == {"naive", "neon", "auto", "threaded"}
Variants == {"naive", "reorder", "register", "tiled", "packed", "neon",
             "threaded", "auto"}
Threads == 0 .. PoolThreads
Packers == {"packed", "neon"}
Idle == [at |-> "idle"]
Zero == -1                        \* the padding, and what resize() fills in
Garbage == << << <<-1, -1>> >> >> \* what C holds before

Least(x, y) == IF x < y THEN x ELSE y
CeilDiv(x, y) == (x + y - 1) \div y
Whole(x, tile) == (x \div tile) * tile   \* Mm, Nm

GemmInit ==
    /\ neon \in Builds /\ mode = "unread"
    /\ phase = "outside" /\ calls = 0 /\ slice = 0 /\ todo = <<>>
    /\ call = [v |-> "none"]
    /\ job = [w \in Threads |-> Idle]
    /\ buf = [w \in Threads |-> [kn \in Packers |->
                 [a |-> <<>>, b |-> <<>>, na |-> 0, nb |-> 0]]]
    /\ C = <<>>
-----------------------------------------------------------------------------
(* Calls.  Elements of the operands, seen by thread w: its rows start at   *)
(* job[w].r0, its slice at slice.                                          *)

AAt(w, i, k) == slice * call.m * call.k + (job[w].r0 + i) * call.k + k
BAt(k, j) == slice * call.k * call.n + k * call.n + j
CAt(w, i, j) == slice * call.m * call.n + (job[w].r0 + i) * call.n + j

Begin(v, p, blk) ==
    /\ phase \in {"outside", "returned"} /\ calls < MaxCalls
    /\ p.b > 1 => v = "auto"
    /\ v # "neon" => blk = NeonBlocks[1]
    /\ calls' = calls + 1
    /\ call' = [v |-> v, b |-> p.b, m |-> p.m, n |-> p.n, k |-> p.k, blk |-> blk]
    /\ slice' = 0 /\ phase' = "dispatch"
    /\ C' = [c \in 0 .. p.b * p.m * p.n - 1 |-> Garbage]
    /\ UNCHANGED <<neon, mode, todo, job, buf>>

\* MTRT_MATMUL is read once, by the first gemm_auto.
ReadMode == IF call.v = "auto" /\ mode = "unread" THEN Modes ELSE {mode}

\* The variant that a call comes down to under mode md.
Route(md) ==
    IF call.v # "auto" THEN call.v
    ELSE IF md \in {"naive", "neon"} THEN md
    ELSE IF \/ md = "threaded"
            \/ call.m >= MinRows /\ 2 * call.m * call.n * call.k >= MinFlops
         THEN "threaded" ELSE "neon"

\* The kernel that runs for it: gemm_threaded calls gemm_neon, and that is
\* gemm_packed in a build without NEON.
KernelOf(v) ==
    IF v \notin {"threaded", "neon"} THEN v ELSE IF neon THEN "neon" ELSE "packed"

NewJob(v, rows) == [at |-> "start", kernel |-> KernelOf(v), r0 |-> rows[1],
                    rows |-> rows[2] - rows[1], jc |-> 0, pc |-> 0, ic |-> 0]

\* Mutant: a range ends where it should, and starts a row early.
RowRangesOverlap(m) ==
    LET chunk == CeilDiv(m, PoolThreads)
    IN  [x \in 1 .. (m - 1) \div chunk + 1 |->
            <<IF x = 1 THEN 0 ELSE (x - 1) * chunk - 1, Least(x * chunk, m)>>]
\* How parallel_for splits the rows, see ThreadPool!Split.
RowRanges(m) ==
    LET chunk == CeilDiv(m, PoolThreads)
    IN  [x \in 1 .. (m - 1) \div chunk + 1 |->
            <<(x - 1) * chunk, Least(x * chunk, m)>>]

Dispatch ==
    /\ phase = "dispatch"
    /\ mode' \in ReadMode
    /\ phase' = "running"
    /\ IF Route(mode') = "threaded"
       THEN todo' = RowRanges(call.m) /\ UNCHANGED job
       ELSE /\ job' = [job EXCEPT ![0] = NewJob(Route(mode'), <<0, call.m>>)]
            /\ UNCHANGED todo
    /\ UNCHANGED <<neon, calls, call, slice, buf, C>>

Claim(w) ==
    /\ w # 0 /\ job[w] = Idle /\ todo # <<>>
    /\ job' = [job EXCEPT ![w] = NewJob("threaded", Head(todo))]
    /\ todo' = Tail(todo)
    /\ UNCHANGED <<neon, mode, phase, calls, call, slice, buf, C>>

EndSlice ==
    /\ phase = "running" /\ todo = <<>> /\ \A w \in Threads : job[w] = Idle
    /\ slice' = slice + 1
    /\ phase' = IF slice + 1 = call.b THEN "returned" ELSE "dispatch"
    /\ UNCHANGED <<neon, mode, calls, call, todo, job, buf, C>>
-----------------------------------------------------------------------------
(* What a kernel does to C.                                                *)

\* C after sums[<<i, j>>] is added to (or, with fresh, stored in) element
\* <<i, j>>, rows counted from the first of thread w.
Stored(w, fresh, sums) ==
    LET at == {<<CAt(w, e[1], e[2]), sums[e]>> : e \in DOMAIN sums}
    IN  [c \in DOMAIN C \cup {x[1] : x \in at} |->
            IF \E x \in at : x[1] = c
            THEN LET x == CHOOSE x \in at : x[1] = c
                 IN  IF fresh THEN <<x[2]>> ELSE Append(C[c], x[2])
            ELSE C[c]]

\* The products of row i and column j for lo <= k < hi.
Dot(w, i, j, lo, hi) ==
    [q \in 1 .. hi - lo |-> <<AAt(w, i, lo + q - 1), BAt(lo + q - 1, j)>>]
FullDots(w, S) == [e \in S |-> Dot(w, e[1], e[2], 0, call.k)]

\* std::fill with zeros: no partial sum at all.
Cleared(w) ==
    [c \in DOMAIN C |->
        IF c \in CAt(w, 0, 0) .. CAt(w, job[w].rows, 0) - 1 THEN <<>> ELSE C[c]]

Rows(w) == 0 .. job[w].rows - 1
Cols == 0 .. call.n - 1
Finish(w) == job' = [job EXCEPT ![w] = Idle]

At(w, place, kernels) == job[w].at = place /\ job[w].kernel \in kernels

\* Naive: each element in a register, then stored.  Register blocking: the
\* same in tiles, and the edge strips after it.
RunInRegisters(w) ==
    /\ At(w, "start", {"naive", "register"})
    /\ C' = Stored(w, TRUE, FullDots(w, Rows(w) \X Cols))
    /\ Finish(w)
    /\ UNCHANGED <<neon, mode, phase, calls, call, slice, todo, buf>>

\* Reordered: cleared, then one product at a time is added.
RunReordered(w) ==
    /\ At(w, "start", {"reorder"})
    /\ C' = [c \in DOMAIN C |->
                LET i == c \div call.n  j == c % call.n
                IN  [k \in 1 .. call.k |-> Dot(w, i, j, k - 1, k)]]
    /\ Finish(w)
    /\ UNCHANGED <<neon, mode, phase, calls, call, slice, todo, buf>>
-----------------------------------------------------------------------------
(* Blocked kernels: for jc, for pc, for ic.                                *)

TileOf(w) == IF job[w].kernel = "neon" THEN NeonTile ELSE Tile
\* Mutant: the depth is halved when a worker has only part of the rows.
BlockOfAdaptive(w) ==
    LET B == IF job[w].kernel = "neon" THEN call.blk ELSE Block
    IN  IF job[w].rows < call.m THEN [B EXCEPT !.k = CeilDiv(@, 2)] ELSE B
BlockOf(w) == IF job[w].kernel = "neon" THEN call.blk ELSE Block

\* The tiled kernel blocks the part that whole tiles cover, the packing ones
\* all of it.
RowsIn(w) == IF job[w].kernel = "tiled" THEN Whole(job[w].rows, Tile) ELSE job[w].rows
ColsIn(w) == IF job[w].kernel = "tiled" THEN Whole(call.n, Tile) ELSE call.n

\* mc, nc, kc: the size of the block at hand.
Mc(w) == Least(BlockOf(w).m, RowsIn(w) - job[w].ic)
Nc(w) == Least(BlockOf(w).n, ColsIn(w) - job[w].jc)
Kc(w) == Least(BlockOf(w).k, call.k - job[w].pc)

\* Where the loops begin, and where they go on after the block at hand.
InLoops(w) == IF job[w].kernel = "tiled" THEN "tiles" ELSE "packB"
AfterLoops(w) ==
    [job EXCEPT ![w] = IF job[w].kernel = "tiled" THEN [@ EXCEPT !.at = "edges"] ELSE Idle]
LoopsBegin(w) ==
    IF RowsIn(w) = 0 \/ ColsIn(w) = 0 \/ call.k = 0 THEN AfterLoops(w)
    ELSE [job EXCEPT ![w].at = InLoops(w)]
NextBlock(w) ==
    LET J == job[w]  B == BlockOf(w)
    IN  IF J.ic + B.m < RowsIn(w)
        THEN [job EXCEPT ![w].ic = J.ic + B.m,
                         ![w].at = IF J.kernel = "tiled" THEN "tiles" ELSE "packA"]
        ELSE IF J.pc + B.k < call.k
        THEN [job EXCEPT ![w] = [J EXCEPT !.ic = 0, !.pc = J.pc + B.k, !.at = InLoops(w)]]
        ELSE IF J.jc + B.n < ColsIn(w)
        THEN [job EXCEPT ![w] = [J EXCEPT !.ic = 0, !.pc = 0, !.jc = J.jc + B.n,
                                          !.at = InLoops(w)]]
        ELSE AfterLoops(w)

\* ensure(): a buffer grows, with zeros, and never shrinks.
Grown(f, len, n) ==
    [x \in 0 .. (IF len < n THEN n ELSE len) - 1 |-> IF x < len THEN f[x] ELSE Zero]
\* Mutant: sized for the first block of this call, not for whole tiles of it.
EnsuredForCall(w) ==
    LET kn == job[w].kernel
        f == buf[w][kn]
        na == Mc(w) * Kc(w)  nb == Kc(w) * Nc(w)
    IN  [buf EXCEPT ![w][kn] =
            [a |-> Grown(f.a, f.na, na), b |-> Grown(f.b, f.nb, nb),
             na |-> IF f.na < na THEN na ELSE f.na, nb |-> IF f.nb < nb THEN nb ELSE f.nb]]
Ensured(w) ==
    LET kn == job[w].kernel
        f == buf[w][kn]
        na == BlockOf(w).m * BlockOf(w).k  nb == BlockOf(w).k * BlockOf(w).n
    IN  [buf EXCEPT ![w][kn] =
            [a |-> Grown(f.a, f.na, na), b |-> Grown(f.b, f.nb, nb),
             na |-> IF f.na < na THEN na ELSE f.na, nb |-> IF f.nb < nb THEN nb ELSE f.nb]]

Clear(w) ==
    /\ At(w, "start", {"tiled", "packed", "neon"})
    /\ C' = Cleared(w)
    /\ buf' = IF job[w].kernel = "tiled" THEN buf ELSE Ensured(w)
    /\ job' = LoopsBegin(w)
    /\ UNCHANGED <<neon, mode, phase, calls, call, slice, todo>>

\* Tiles of the block at hand, straight from A and B.  A tile is whole even
\* where it sticks out of the block.
TileRows(w) ==
    LET J == job[w] IN J.ic .. J.ic + CeilDiv(Mc(w), Tile) * Tile - 1
TileCols(w) ==
    LET J == job[w] IN J.jc .. J.jc + CeilDiv(Nc(w), Tile) * Tile - 1
RunTiles(w) ==
    /\ At(w, "tiles", {"tiled"})
    /\ C' = Stored(w, FALSE, [e \in TileRows(w) \X TileCols(w) |->
                                Dot(w, e[1], e[2], job[w].pc, job[w].pc + Kc(w))])
    /\ job' = NextBlock(w)
    /\ UNCHANGED <<neon, mode, phase, calls, call, slice, todo, buf>>

\* The rows and the columns no whole tile covers, over the full depth.
EdgeStrips(w) ==
    /\ At(w, "edges", {"tiled"})
    /\ LET bottom == (RowsIn(w) .. job[w].rows - 1) \X Cols
           right == (0 .. RowsIn(w) - 1) \X (ColsIn(w) .. call.n - 1)
       IN  C' = Stored(w, TRUE, FullDots(w, bottom \cup right))
    /\ Finish(w)
    /\ UNCHANGED <<neon, mode, phase, calls, call, slice, todo, buf>>

\* A panel of packed elements: tile of them for each k, tile after tile,
\* padded with zeros to whole tiles.  old is what the buffer held.
Packed(old, extent, kc, tile, elem(_, _)) ==
    LET len == CeilDiv(extent, tile) * tile * kc
    IN  [x \in DOMAIN old \cup 0 .. len - 1 |->
            IF x >= len THEN old[x]
            ELSE LET first == (x \div (kc * tile)) * tile
                     k == (x % (kc * tile)) \div tile
                     off == first + (x % tile)
                 IN  IF off < extent THEN elem(off, k) ELSE Zero]

PackedA(w) ==
    LET elem(i, k) == AAt(w, job[w].ic + i, job[w].pc + k)
    IN  Packed(buf[w][job[w].kernel].a, Mc(w), Kc(w), TileOf(w), elem)
PackedB(w) ==
    LET elem(j, k) == BAt(job[w].pc + k, job[w].jc + j)
    IN  Packed(buf[w][job[w].kernel].b, Nc(w), Kc(w), TileOf(w), elem)

PackB(w) ==
    /\ At(w, "packB", Packers)
    /\ buf' = [buf EXCEPT ![w][job[w].kernel].b = PackedB(w)]
    /\ job' = [job EXCEPT ![w].at = "packA"]
    /\ UNCHANGED <<neon, mode, phase, calls, call, slice, todo, C>>

PackA(w) ==
    /\ At(w, "packA", Packers)
    /\ buf' = [buf EXCEPT ![w][job[w].kernel].a = PackedA(w)]
    /\ job' = [job EXCEPT ![w].at = "micro"]
    /\ UNCHANGED <<neon, mode, phase, calls, call, slice, todo, C>>

\* Mutant: the panels are found with the block's depth, not with this one's.
MicroSumFullDepth(w, i, j) ==
    LET f == buf[w][job[w].kernel]  t == TileOf(w)  kc == Kc(w)
        pa == (i \div t) * BlockOf(w).k * t  pb == (j \div t) * BlockOf(w).k * t
    IN  [k \in 1 .. kc |-> <<f.a[pa + (k - 1) * t + (i % t)],
                             f.b[pb + (k - 1) * t + (j % t)]>>]
\* Element (i, j) of the block, accumulated in the register tile it is in.
MicroSum(w, i, j) ==
    LET f == buf[w][job[w].kernel]  t == TileOf(w)  kc == Kc(w)
        pa == (i \div t) * kc * t   pb == (j \div t) * kc * t
    IN  [k \in 1 .. kc |-> <<f.a[pa + (k - 1) * t + (i % t)],
                             f.b[pb + (k - 1) * t + (j % t)]>>]

RunMicroTiles(w) ==
    /\ At(w, "micro", Packers)
    /\ LET block == (job[w].ic .. job[w].ic + Mc(w) - 1)
                     \X (job[w].jc .. job[w].jc + Nc(w) - 1)
       IN  C' = Stored(w, FALSE, [e \in block |->
                    MicroSum(w, e[1] - job[w].ic, e[2] - job[w].jc)])
    /\ job' = NextBlock(w)
    /\ UNCHANGED <<neon, mode, phase, calls, call, slice, todo, buf>>
-----------------------------------------------------------------------------
KernelStep(w) ==
    \/ RunInRegisters(w) \/ RunReordered(w)
    \/ Clear(w) \/ RunTiles(w) \/ EdgeStrips(w)
    \/ PackB(w) \/ PackA(w) \/ RunMicroTiles(w)

GemmStep == Dispatch \/ EndSlice \/ \E w \in Threads : Claim(w) \/ KernelStep(w)

GemmCall ==
    \E v \in Variants, p \in Problems, x \in DOMAIN NeonBlocks : Begin(v, p, NeonBlocks[x])

GemmDone == calls = MaxCalls /\ phase = "returned" /\ UNCHANGED gemmVars

GemmNext == GemmStep \/ GemmCall \/ GemmDone

GemmSpec == GemmInit /\ [][GemmNext]_gemmVars
-----------------------------------------------------------------------------
(* Properties.                                                             *)

\* The partial sums of a cell one after the other.
Summands(sums) ==
    LET flat[x \in 0 .. Len(sums)] == IF x = 0 THEN <<>> ELSE flat[x - 1] \o sums[x]
    IN  flat[Len(sums)]

\* Row i of A by column j of B, of the slice that cell c lies in.
Product(c) ==
    LET s == c \div (call.m * call.n)
        i == (c % (call.m * call.n)) \div call.n
        j == c % call.n
    IN  [k \in 1 .. call.k |-> <<(s * call.m + i) * call.k + k - 1,
                                 (s * call.k + k - 1) * call.n + j>>]

\* When a product returns, every cell of C holds the full dot product, each
\* term once and in order, and nothing of what C or the packing buffers held
\* before; no cell outside C has been written (gemm_test.cpp,
\* VariantsMatchReference and ThreadedMatchesReference, on three shapes).
IsGemm == "v" \in DOMAIN call
CIsProduct ==
    phase = "returned" /\ IsGemm =>
        /\ DOMAIN C = 0 .. call.b * call.m * call.n - 1
        /\ \A c \in DOMAIN C : Summands(C[c]) = Product(c)

\* A pack never writes behind the buffer that ensure() sized, and so a
\* micro-tile, which reads what was packed, does not read behind it: the
\* padded last tile of a panel fits, whatever the shape, the block sizes and
\* the calls before (gemm.cpp, pack_a, pack_b and ensure: raw arrays).
PackingStaysInside ==
    \A w \in Threads : \A kn \in Packers :
        LET f == buf[w][kn]
        IN  DOMAIN f.a = 0 .. f.na - 1 /\ DOMAIN f.b = 0 .. f.nb - 1

\* Which floats gemm_auto and gemm_threaded give does not depend on the
\* number of threads, on how the rows were split or on what else was
\* computed before: the sums are grouped by the depth of a block only.
InBlocks(c, depth) ==
    [q \in 1 .. CeilDiv(call.k, depth) |->
        SubSeq(Product(c), (q - 1) * depth + 1, Least(q * depth, call.k))]
SameBitsForAnySplit ==
    phase = "returned" /\ IsGemm
      /\ (call.v \in {"neon", "threaded"} \/ (call.v = "auto" /\ mode # "naive")) =>
        \A c \in DOMAIN C : C[c] = InBlocks(c, IF neon THEN call.blk.k ELSE Block.k)
=============================================================================
