--------------------------- MODULE KernelsProofs ----------------------------
(***************************************************************************)
(* Proofs about the kernels.                                               *)
(*                                                                         *)
(* First the matrix product of the CPU, for every shape, tile, block size, *)
(* number of threads and build, and with the other kernels running between *)
(* its calls: packing stays inside the thread-local buffers (PackingFits), *)
(* a product that returns is the product (ProductsAreRight), and its       *)
(* floats do not depend on how the rows were split (SameBitsAlways).  The  *)
(* last two come from one inductive invariant, GemmInv.  It says, at every *)
(* step of every worker, how many blocks of products each cell of the      *)
(* worker's rows holds (Count, from the three loop variables), what the    *)
(* panels hold, that no two workers and no waiting range share a row, and  *)
(* that the rows nobody waits for or works at are final.                   *)
(*                                                                         *)
(* Then the kernels of the device, for every size, tile, block size and    *)
(* set of operations: the barriers of gemm_tiled_k meet                    *)
(* (BarriersAlwaysMeet), no two threads of a launch without barriers write *)
(* one cell (NoCellIsShared), and every product of the device is the       *)
(* product (DeviceProductsAreRight).  The last comes from ProductInv, which*)
(* says what a thread of gemm_tiled_k has staged and summed up at each of  *)
(* its steps, and that the elements of the blocks and threads that have    *)
(* ended are complete.                                                     *)
(*                                                                         *)
(* Last the other operators, on the CPU and on the device: each cell comes *)
(* from the elements that the operator's definition names                  *)
(* (OperatorsAreRight).  The definitions speak of coordinates and the      *)
(* kernels of offsets and strides, so the proof rests on mixed-radix       *)
(* numbers: Numel is the weight of a digit, Coordinate the digit, a cell   *)
(* is known by its digits (SameCoordinates) and is their weighted sum      *)
(* (CellAt), in whatever order it is summed up (OffsetPermuted).           *)
(***************************************************************************)
EXTENDS Kernels, WellFoundedInduction, TLAPS
-----------------------------------------------------------------------------
(* Arithmetic, and induction for sets of numbers.                          *)

\* Multiples of a number that lie apart stay apart by less than that number.
LEMMA Apart ==
  ASSUME NEW n \in Nat, NEW x \in Int, NEW y \in Int, NEW i \in 0 .. n - 1,
         NEW j \in 0 .. n - 1, x * n + i = y * n + j
  PROVE  x = y /\ i = j
<1>1. ASSUME NEW a \in Int, NEW b \in Int, NEW k \in 0 .. n - 1, NEW l \in 0 .. n - 1,
             a < b, a * n + k = b * n + l
      PROVE  FALSE
  <2>1. PICK d \in Nat : b = a + 1 + d
    <3>1. b - a - 1 \in Nat /\ b = a + 1 + (b - a - 1) BY <1>1
    <3> QED BY <3>1
  <2>2. b * n = a * n + n + d * n BY <2>1, SMTT(30)
  <2>3. d * n \in Nat BY SMTT(30)
  <2>4. a * n \in Int BY SMTT(30)
  <2> DEFINE u == a * n  v == d * n
  <2>5. u \in Int /\ v \in Nat /\ u + k = u + n + v + l BY <1>1, <2>2, <2>3, <2>4
  <2> HIDE DEF u, v
  <2> QED BY <2>5
<1>2. ~(x < y) BY <1>1
<1>3. ~(y < x) BY <1>1
<1> QED BY <1>2, <1>3

LEMMA Division ==
  ASSUME NEW x \in Int, NEW d \in Positive
  PROVE  /\ x \div d \in Int /\ x % d \in 0 .. d - 1
         /\ x = (x \div d) * d + (x % d)
         /\ x \in Nat => x \div d \in Nat
<1>1. d \in Nat /\ d >= 1 BY DEF Positive
<1>2. x \div d \in Int /\ x % d \in 0 .. d - 1 BY <1>1, SMTT(30)
<1>3. x = d * (x \div d) + (x % d) BY <1>1, SMTT(30)
<1>4. d * (x \div d) = (x \div d) * d BY <1>1, <1>2, SMTT(30)
<1>5. x \in Nat => x \div d \in Nat BY <1>1, SMTT(30)
<1> QED BY <1>2, <1>3, <1>4, <1>5

LEMMA DivisionIs ==
  ASSUME NEW d \in Positive, NEW q \in Int, NEW r \in 0 .. d - 1
  PROVE  (q * d + r) \div d = q /\ (q * d + r) % d = r
<1> DEFINE x == q * d + r
<1>1. d \in Nat /\ x \in Int
  <2>1. d \in Nat BY DEF Positive
  <2>2. q * d \in Int BY <2>1, SMTT(30)
  <2> QED BY <2>1, <2>2
<1>2. x = q * d + r OBVIOUS
<1> HIDE DEF x
<1>3. PICK p \in Int, z \in 0 .. d - 1 : p = x \div d /\ z = x % d
  BY <1>1, Division
<1>4. p * d + z = q * d + r BY <1>1, <1>2, <1>3, Division
<1>5. p = q /\ z = r BY <1>1, <1>4, Apart
<1> QED BY <1>3, <1>5 DEF x

\* A multiple of n reaches x * n + j when its factor does x.
LEMMA Multiples ==
  ASSUME NEW n \in Positive, NEW x \in Int, NEW y \in Int, NEW j \in 0 .. n - 1
  PROVE  /\ x * n \in Int /\ y * n \in Int
         /\ y * n <= x * n + j <=> y <= x
         /\ x * n + j < y * n <=> x < y
<1>1. n \in Nat /\ n >= 1 BY DEF Positive
<1>2. x * n \in Int /\ y * n \in Int BY <1>1, SMTT(30)
<1>3. ASSUME y <= x PROVE y * n <= x * n
  <2>1. PICK d \in Nat : x = y + d
    <3>1. x - y \in Nat /\ x = y + (x - y) BY <1>3
    <3> QED BY <3>1
  <2>2. x * n = y * n + d * n BY <2>1, <1>1, SMTT(30)
  <2>3. d * n \in Nat BY <1>1, SMTT(30)
  <2> QED BY <1>2, <2>2, <2>3
<1>4. ASSUME x < y PROVE x * n + n <= y * n
  <2>1. PICK d \in Nat : y = x + 1 + d
    <3>1. y - x - 1 \in Nat /\ y = x + 1 + (y - x - 1) BY <1>4
    <3> QED BY <3>1
  <2>2. y * n = x * n + n + d * n BY <2>1, <1>1, SMTT(30)
  <2>3. d * n \in Nat BY <1>1, SMTT(30)
  <2> QED BY <1>1, <1>2, <2>2, <2>3
<1> DEFINE a == x * n  b == y * n
<1>5. /\ a \in Int /\ b \in Int
      /\ y <= x => b <= a
      /\ x < y => a + n <= b
  BY <1>2, <1>3, <1>4
<1> HIDE DEF a, b
<1>6. (b <= a + j <=> y <= x) /\ (a + j < b <=> x < y)
  BY <1>1, <1>5
<1> QED BY <1>2, <1>6 DEF a, b

\* How many blocks of depth d there are.
LEMMA BlockCount ==
  ASSUME NEW x \in Nat, NEW d \in Positive, NEW q \in Nat, q * d < x, ~(q * d + d < x)
  PROVE  CeilDiv(x, d) = q + 1
<1>1. d \in Nat /\ d >= 1 /\ q * d \in Nat
  <2>1. d \in Nat /\ d >= 1 BY DEF Positive
  <2> QED BY <2>1, SMTT(30)
<1> DEFINE r == x - q * d - 1
<1>2. r \in 0 .. d - 1
  <2> DEFINE a == q * d
  <2>1. a \in Nat /\ a < x /\ ~(a + d < x) BY <1>1
  <2> HIDE DEF a
  <2>2. x - a - 1 \in 0 .. d - 1 BY <2>1, <1>1
  <2> QED BY <2>2 DEF a
<1>3. x + d - 1 = (q + 1) * d + r
  <2>1. (q + 1) * d = q * d + d BY <1>1, SMTT(30)
  <2> DEFINE a == q * d  b == (q + 1) * d
  <2>2. a \in Nat /\ b = a + d /\ r = x - a - 1 BY <2>1, <1>1
  <2> HIDE DEF a, b, r
  <2>3. x + d - 1 = b + r BY <2>2, <1>1
  <2> QED BY <2>3 DEF b
<1> HIDE DEF r
<1> QED BY <1>2, <1>3, DivisionIs DEF CeilDiv

LEMMA NoBlocks ==
  ASSUME NEW d \in Positive
  PROVE  CeilDiv(0, d) = 0
<1>1. d \in Nat /\ d >= 1 BY DEF Positive
<1>2. d - 1 \in 0 .. d - 1 /\ 0 * d + (d - 1) = 0 + d - 1 BY <1>1, SMTT(30)
<1> QED BY <1>2, DivisionIs DEF CeilDiv

LEMMA BlocksCover ==
  ASSUME NEW x \in Nat, NEW d \in Positive
  PROVE  /\ CeilDiv(x, d) \in Nat
         /\ CeilDiv(x, d) * d \in Nat
         /\ x <= CeilDiv(x, d) * d /\ CeilDiv(x, d) * d < x + d
<1>1. d \in Nat /\ d >= 1
  BY DEF Positive
<1>2. PICK y \in Nat : y = x + d - 1
  <2>1. x + d - 1 \in Nat BY <1>1
  <2> QED BY <2>1
<1>3. PICK p \in Nat, z \in 0 .. d - 1 : p = y \div d /\ z = y % d /\ y = p * d + z
  <2>1. y \in Int OBVIOUS
  <2>2. /\ y \div d \in Nat /\ y % d \in 0 .. d - 1
        /\ y = (y \div d) * d + (y % d)
    BY <2>1, Division, Zenon
  <2> QED BY <2>2, Zenon
<1>4. y = p * d + z BY <1>3
<1>5. p * d \in Nat BY <1>1, SMTT(30)
<1> DEFINE a == p * d
<1>6. a \in Nat /\ y = a + z BY <1>4, <1>5
<1>7. CeilDiv(x, d) = p BY <1>2, <1>3 DEF CeilDiv
<1> HIDE DEF a
<1>8. x <= a /\ a < x + d BY <1>1, <1>2, <1>6
<1> QED BY <1>6, <1>7, <1>8 DEF a

\* A multiple of a tile is the number of its tiles.
LEMMA WholeIsWhole ==
  ASSUME NEW x \in Nat, NEW t \in Positive, x % t = 0
  PROVE  CeilDiv(x, t) * t = x
<1>1. t \in Nat /\ t >= 1 BY DEF Positive
<1>2. PICK p \in Nat : p = x \div t BY Division
<1>3. x = p * t + 0 BY <1>2, Division
<1>4. x = p * t
  <2>1. p * t \in Int BY <1>1, SMTT(30)
  <2> QED BY <2>1, <1>3
<1>5. x + t - 1 = p * t + (t - 1) /\ t - 1 \in 0 .. t - 1
  <2> DEFINE a == p * t
  <2>1. a \in Int /\ x = a
    <3>1. p * t \in Int BY <1>1, SMTT(30)
    <3> QED BY <3>1, <1>4
  <2> HIDE DEF a
  <2>2. x + t - 1 = a + (t - 1) BY <2>1, <1>1
  <2> QED BY <2>2, <1>1 DEF a
<1>6. CeilDiv(x, t) = p BY <1>5, DivisionIs DEF CeilDiv
<1> QED BY <1>4, <1>6

LEMMA NoMultiple ==
  ASSUME NEW t \in Positive
  PROVE  0 % t = 0 /\ 0 \div t = 0
<1>1. t \in Nat /\ 0 \in 0 .. t - 1 /\ 0 * t + 0 = 0
  <2>1. t \in Nat /\ t >= 1 BY DEF Positive
  <2> QED BY <2>1, SMTT(30)
<1>2. 0 \in Int OBVIOUS
<1> QED BY <1>1, <1>2, DivisionIs

LEMMA Induction ==
  ASSUME NEW S \in SUBSET Nat, 0 \in S, \A n \in S : n + 1 \in S
  PROVE  S = Nat
<1> SUFFICES ASSUME Nat \ S # {} PROVE FALSE OBVIOUS
<1>1. PICK n \in Nat \ S : \A m \in Nat \ S : <<m, n>> \notin OpToRel(<, Nat)
  BY WFMin, NatLessThanWellFounded
<1>2. \A m \in Nat \ S : ~(m < n) BY <1>1 DEF OpToRel
<1>3. n # 0 /\ n \in Nat BY <1>1
<1>4. n - 1 \in Nat /\ n - 1 < n /\ (n - 1) + 1 = n BY <1>3
<1>5. n - 1 \in S BY <1>2, <1>4
<1> QED BY <1>1, <1>4, <1>5
-----------------------------------------------------------------------------
(* Packing.  gemm.cpp relies on its panels to fit without a check: the     *)
(* buffers are raw arrays, sized once for whole blocks, and a pack pads    *)
(* its last tile.                                                          *)

\* Rounding x up to whole tiles does not pass a multiple of the tile that x
\* does not pass, and so a panel of depth kc fits a block of depth d.
LEMMA PanelFits ==
  ASSUME NEW x \in Nat, NEW t \in Positive, NEW n \in Nat, x <= n, n % t = 0,
         NEW kc \in Nat, NEW d \in Nat, kc <= d
  PROVE  CeilDiv(x, t) * t * kc \in Nat /\ CeilDiv(x, t) * t * kc <= n * d
<1> DEFINE q == n \div t
           c == (x + t - 1) \div t
<1>1. t \in Nat /\ t >= 1 BY DEF Positive
<1>2. CeilDiv(x, t) = c BY DEF CeilDiv
<1>3. q \in Nat /\ n = t * q BY <1>1, SMTT(30)
<1>4. c \in Nat /\ t * c <= x + t - 1 BY <1>1, SMTT(30)
<1> HIDE DEF q, c
<1>5. c <= q
  <2>1. SUFFICES ASSUME c >= q + 1 PROVE FALSE BY <1>3, <1>4
  <2>2. t * c >= t * (q + 1) BY <2>1, <1>1, <1>3, <1>4, SMTT(30)
  <2>3. t * (q + 1) = t * q + t BY <1>1, <1>3, SMTT(30)
  <2> QED BY <2>2, <2>3, <1>1, <1>3, <1>4, SMTT(30)
<1> DEFINE p == c * t
<1>6. p \in Nat /\ p <= n BY <1>1, <1>3, <1>4, <1>5, SMTT(30)
<1> HIDE DEF p
<1>7. p * kc \in Nat /\ p * kc <= n * d
  <2>1. p * kc \in Nat /\ p * kc <= n * kc BY <1>6, SMTT(30)
  <2>2. n * kc <= n * d BY SMTT(30)
  <2> QED BY <2>1, <2>2, SMTT(30)
<1> QED BY <1>2, <1>7 DEF p

\* The row ranges of parallel_for are ranges.
RowRange == {r \in Int \X Int : r[1] <= r[2]}

LEMMA RowRangesAreRanges ==
  ASSUME NEW m \in Positive
  PROVE  RowRanges(m) \in Seq(RowRange)
<1> DEFINE chunk == (m + PoolThreads - 1) \div PoolThreads
           q == (m - 1) \div chunk
<1>1. m \in Nat /\ m >= 1 /\ PoolThreads \in Nat /\ PoolThreads >= 1
  BY GemmAssumption DEF Positive
<1>2. chunk \in Nat /\ chunk >= 1
  <2> DEFINE s == m + PoolThreads - 1
  <2>1. s \in Nat /\ s >= PoolThreads BY <1>1
  <2> HIDE DEF s
  <2>2. s \div PoolThreads \in Nat /\ s < PoolThreads * (s \div PoolThreads) + PoolThreads
    BY <2>1, <1>1, SMTT(30)
  <2>3. s \div PoolThreads # 0 BY <2>1, <2>2, <1>1
  <2> QED BY <2>2, <2>3 DEF s
<1>3. CeilDiv(m, PoolThreads) = chunk BY DEF CeilDiv
<1> HIDE DEF chunk
<1>4. q \in Nat /\ chunk * q <= m - 1 BY <1>1, <1>2, SMTT(30)
<1>5. RowRanges(m) = [x \in 1 .. q + 1 |-> <<(x - 1) * chunk, Least(x * chunk, m)>>]
  BY <1>3 DEF RowRanges
<1> HIDE DEF q
<1>6. ASSUME NEW x \in 1 .. q + 1
      PROVE  <<(x - 1) * chunk, Least(x * chunk, m)>> \in RowRange
  <2> DEFINE y == x - 1
  <2>1. y \in Nat /\ y <= q /\ x = y + 1 BY <1>4
  <2> HIDE DEF y
  <2>2. y * chunk \in Nat /\ y * chunk <= chunk * q BY <2>1, <1>2, <1>4, SMTT(30)
  <2>3. x * chunk = y * chunk + chunk BY <2>1, <1>2, SMTT(30)
  <2> QED BY <2>2, <2>3, <1>1, <1>2, <1>4 DEF Least, RowRange, y
<1> QED BY <1>4, <1>5, <1>6
-----------------------------------------------------------------------------
(* The invariant.                                                          *)

Places == {"start", "tiles", "edges", "packB", "packA", "micro"}
JobType == [at : Places, kernel : Variants, r0 : Int, rows : Nat,
            jc : Nat, pc : Nat, ic : Nat]
Packing == {"packB", "packA", "micro"}

CallTyped ==
    /\ call.v \in Variants
    /\ call.m \in Positive /\ call.n \in Positive /\ call.k \in Nat
    /\ IsBlock(call.blk, NeonTile)

\* Outside of a running slice nobody works, and no range waits.
Typed ==
    /\ phase \in {"outside", "dispatch", "running", "returned"}
    /\ phase \in {"dispatch", "running"} => CallTyped
    /\ phase # "running" => todo = <<>> /\ \A w \in Threads : job[w] = Idle
    /\ todo \in Seq(RowRange)
    /\ DOMAIN job = Threads /\ DOMAIN buf = Threads
    /\ \A w \in Threads : job[w] = Idle \/ job[w] \in JobType

\* The buffers of thread w are arrays of the size they are said to have.
Inside(w) ==
    /\ DOMAIN buf[w] = Packers
    /\ \A kn \in Packers :
          /\ buf[w][kn] = [a |-> buf[w][kn].a, b |-> buf[w][kn].b,
                           na |-> buf[w][kn].na, nb |-> buf[w][kn].nb]
          /\ buf[w][kn].na \in Nat /\ buf[w][kn].nb \in Nat
          /\ DOMAIN buf[w][kn].a = 0 .. buf[w][kn].na - 1
          /\ DOMAIN buf[w][kn].b = 0 .. buf[w][kn].nb - 1

\* A thread that packs is inside the product, and its buffers are at least
\* as large as a whole block: ensure() came first, and no buffer shrinks.
InBlock(w) ==
    /\ job[w].at = "start" => job[w].ic = 0 /\ job[w].jc = 0 /\ job[w].pc = 0
    /\ job[w].at \in Packing /\ job[w].kernel \in Packers =>
          /\ job[w].ic < job[w].rows /\ job[w].jc < call.n /\ job[w].pc < call.k
          /\ buf[w][job[w].kernel].na >= BlockOf(w).m * BlockOf(w).k
          /\ buf[w][job[w].kernel].nb >= BlockOf(w).n * BlockOf(w).k

PackInv == Typed /\ \A w \in Threads : Inside(w) /\ InBlock(w)

LEMMA PackInit == GemmInit => PackInv
<1> SUFFICES ASSUME GemmInit PROVE PackInv OBVIOUS
<1>1. Typed BY DEF GemmInit, Typed, Idle
<1>2. ASSUME NEW w \in Threads PROVE Inside(w)
  BY DEF GemmInit, Inside
<1>3. ASSUME NEW w \in Threads PROVE InBlock(w)
  BY DEF GemmInit, InBlock, Idle, Packing
<1> QED BY <1>1, <1>2, <1>3 DEF PackInv

LEMMA PackInvImplies == PackInv => PackingStaysInside
BY DEF PackInv, Inside, PackingStaysInside

\* The block of a busy thread is whole tiles of its kernel.
LEMMA BlockTyped ==
  ASSUME CallTyped, NEW w \in Threads
  PROVE  IsBlock(BlockOf(w), TileOf(w)) /\ TileOf(w) \in Positive
BY GemmAssumption DEF CallTyped, BlockOf, TileOf

\* A step of one thread leaves what is said of the others alone.
LEMMA OneThread ==
  ASSUME PackInv, phase = "running", NEW w \in Threads, NEW J,
         J = Idle \/ J \in JobType, job' = [job EXCEPT ![w] = J],
         DOMAIN buf' = Threads, \A u \in Threads : u # w => buf'[u] = buf[u],
         UNCHANGED <<phase, call>>, todo' \in Seq(RowRange),
         Inside(w)', InBlock(w)'
  PROVE  PackInv'
<1>1. Typed' BY DEF PackInv, Typed, CallTyped
<1>2. ASSUME NEW u \in Threads, u # w PROVE Inside(u)' /\ InBlock(u)'
  <2>1. job'[u] = job[u] /\ buf'[u] = buf[u] BY <1>2 DEF PackInv, Typed
  <2>2. Inside(u) /\ InBlock(u) BY DEF PackInv
  <2>3. Inside(u)' BY <2>1, <2>2 DEF Inside
  <2>4. InBlock(u)' BY <2>1, <2>2 DEF InBlock, BlockOf
  <2> QED BY <2>3, <2>4
<1> QED BY <1>1, <1>2 DEF PackInv

\* ensure(): afterwards a whole block fits.
LEMMA EnsureFits ==
  ASSUME CallTyped, NEW w \in Threads, Inside(w), DOMAIN buf = Threads,
         job[w].kernel \in Packers
  PROVE  /\ Ensured(w) = [buf EXCEPT ![w] = Ensured(w)[w]]
         /\ buf' = Ensured(w) => Inside(w)'
         /\ Ensured(w)[w][job[w].kernel].na >= BlockOf(w).m * BlockOf(w).k
         /\ Ensured(w)[w][job[w].kernel].nb >= BlockOf(w).n * BlockOf(w).k
<1> DEFINE kn == job[w].kernel
           f == buf[w][kn]
           na == BlockOf(w).m * BlockOf(w).k
           nb == BlockOf(w).k * BlockOf(w).n
           g == [a |-> Grown(f.a, f.na, na), b |-> Grown(f.b, f.nb, nb),
                 na |-> IF f.na < na THEN na ELSE f.na,
                 nb |-> IF f.nb < nb THEN nb ELSE f.nb]
<1>1. /\ BlockOf(w).m \in Nat /\ BlockOf(w).n \in Nat /\ BlockOf(w).k \in Nat
  BY BlockTyped DEF IsBlock, Positive
<1>2. na \in Nat /\ nb \in Nat /\ nb = BlockOf(w).n * BlockOf(w).k
  BY <1>1, SMTT(30)
<1>3. f.na \in Nat /\ f.nb \in Nat BY DEF Inside
<1>4. Ensured(w) = [buf EXCEPT ![w][kn] = g] BY DEF Ensured
<1> HIDE DEF na, nb
<1>5. /\ DOMAIN g.a = 0 .. g.na - 1 /\ DOMAIN g.b = 0 .. g.nb - 1
      /\ g.na \in Nat /\ g.nb \in Nat /\ g.na >= na /\ g.nb >= nb
  BY <1>2, <1>3 DEF Grown
<1>6. g = [a |-> g.a, b |-> g.b, na |-> g.na, nb |-> g.nb] OBVIOUS
<1> HIDE DEF g
<1>7. Ensured(w)[w] = [buf[w] EXCEPT ![kn] = g]
  BY <1>4
<1>8. Ensured(w)[w][kn] = g BY <1>7 DEF Inside
<1>9. Ensured(w) = [buf EXCEPT ![w] = Ensured(w)[w]] BY <1>4
<1>10. buf' = Ensured(w) => Inside(w)'
  <2> SUFFICES ASSUME buf' = Ensured(w) PROVE Inside(w)' OBVIOUS
  <2>1. DOMAIN buf'[w] = Packers BY <1>7 DEF Inside
  <2>2. buf'[w][kn] = g BY <1>8
  <2>3. \A x \in Packers : x # kn => buf'[w][x] = buf[w][x] BY <1>7 DEF Inside
  <2> QED BY <2>1, <2>2, <2>3, <1>5, <1>6 DEF Inside
<1> QED BY <1>2, <1>5, <1>8, <1>9, <1>10 DEF na
-----------------------------------------------------------------------------
(* The steps.                                                              *)

LEMMA JobMoves ==
  ASSUME NEW J \in JobType, NEW p \in Places, NEW i \in Nat, NEW n \in Nat
  PROVE  /\ [J EXCEPT !.at = p] \in JobType
         /\ [J EXCEPT !.ic = i, !.at = p] \in JobType
         /\ [J EXCEPT !.ic = 0, !.pc = n, !.at = p] \in JobType
         /\ [J EXCEPT !.ic = 0, !.pc = 0, !.jc = n, !.at = p] \in JobType
<1>1. [J EXCEPT !.at = p] \in JobType BY DEF JobType
<1>2. [J EXCEPT !.ic = i, !.at = p] \in JobType BY DEF JobType
<1>3. [J EXCEPT !.ic = 0, !.pc = n, !.at = p] \in JobType BY DEF JobType
<1>4. [J EXCEPT !.ic = 0, !.pc = 0, !.jc = n, !.at = p] \in JobType BY DEF JobType
<1> QED BY <1>1, <1>2, <1>3, <1>4

\* What the invariant says of a thread that packs.
LEMMA InLoop ==
  ASSUME PackInv, NEW w \in Threads, job[w].kernel \in Packers, job[w].at # "idle"
  PROVE  /\ CallTyped /\ phase = "running" /\ job[w] \in JobType /\ Inside(w)
         /\ DOMAIN job = Threads /\ DOMAIN buf = Threads /\ todo \in Seq(RowRange)
         /\ RowsIn(w) = job[w].rows /\ ColsIn(w) = call.n
         /\ IsBlock(BlockOf(w), TileOf(w)) /\ TileOf(w) \in Positive
<1>1. job[w] # Idle BY DEF Idle
<1>2. phase = "running" /\ CallTyped BY <1>1 DEF PackInv, Typed
<1>3. job[w].kernel # "tiled" BY DEF Packers
<1> QED BY <1>1, <1>2, <1>3, BlockTyped DEF PackInv, Typed, RowsIn, ColsIn

\* The block at hand is a part of a block: what is packed of it fits.
LEMMA BlockAtHand ==
  ASSUME PackInv, NEW w \in Threads, job[w].kernel \in Packers, job[w].at \in Packing
  PROVE  /\ CeilDiv(Mc(w), TileOf(w)) * TileOf(w) * Kc(w) \in Nat
         /\ CeilDiv(Nc(w), TileOf(w)) * TileOf(w) * Kc(w) \in Nat
         /\ CeilDiv(Mc(w), TileOf(w)) * TileOf(w) * Kc(w) <= buf[w][job[w].kernel].na
         /\ CeilDiv(Nc(w), TileOf(w)) * TileOf(w) * Kc(w) <= buf[w][job[w].kernel].nb
<1> DEFINE B == BlockOf(w)
           t == TileOf(w)
<1>1. job[w].at # "idle" BY DEF Packing
<1>2. /\ job[w] \in JobType /\ CallTyped /\ Inside(w)
      /\ RowsIn(w) = job[w].rows /\ ColsIn(w) = call.n
      /\ IsBlock(B, t) /\ t \in Positive
  BY <1>1, InLoop
<1>3. InBlock(w) BY DEF PackInv
<1>4. /\ B.m \in Nat /\ B.n \in Nat /\ B.k \in Nat
      /\ B.m % t = 0 /\ B.n % t = 0
  BY <1>2 DEF IsBlock, Positive
<1>5. /\ job[w].ic < job[w].rows /\ job[w].jc < call.n /\ job[w].pc < call.k
      /\ buf[w][job[w].kernel].na >= B.m * B.k
      /\ buf[w][job[w].kernel].nb >= B.n * B.k
  BY <1>3 DEF InBlock
<1> HIDE DEF B, t
<1>6. /\ Mc(w) = Least(B.m, job[w].rows - job[w].ic)
      /\ Nc(w) = Least(B.n, call.n - job[w].jc)
      /\ Kc(w) = Least(B.k, call.k - job[w].pc)
  BY <1>2 DEF Mc, Nc, Kc, B
<1>7. /\ job[w].rows \in Nat /\ job[w].ic \in Nat /\ job[w].jc \in Nat /\ job[w].pc \in Nat
      /\ call.n \in Nat /\ call.k \in Nat
  BY <1>2 DEF JobType, CallTyped, Positive
<1>8. /\ Mc(w) \in Nat /\ Mc(w) <= B.m
      /\ Nc(w) \in Nat /\ Nc(w) <= B.n
      /\ Kc(w) \in Nat /\ Kc(w) <= B.k
  BY <1>4, <1>5, <1>6, <1>7 DEF Least
<1>9. CeilDiv(Mc(w), t) * t * Kc(w) \in Nat /\ CeilDiv(Mc(w), t) * t * Kc(w) <= B.m * B.k
  BY <1>2, <1>4, <1>8, PanelFits
<1>10. CeilDiv(Nc(w), t) * t * Kc(w) \in Nat /\ CeilDiv(Nc(w), t) * t * Kc(w) <= B.n * B.k
  BY <1>2, <1>4, <1>8, PanelFits
<1>11. buf[w][job[w].kernel].na \in Nat /\ buf[w][job[w].kernel].nb \in Nat
  BY <1>2 DEF Inside
<1>12. B.m * B.k \in Nat /\ B.n * B.k \in Nat BY <1>4, SMTT(30)
<1> QED BY <1>5, <1>9, <1>10, <1>11, <1>12 DEF t

LEMMA PackAStep ==
  ASSUME PackInv, NEW w \in Threads, PackA(w)
  PROVE  PackInv'
<1> DEFINE kn == job[w].kernel
           len == CeilDiv(Mc(w), TileOf(w)) * TileOf(w) * Kc(w)
           J == [job[w] EXCEPT !.at = "micro"]
           f == buf'[w]
<1>1. kn \in Packers /\ job[w].at = "packA" BY DEF PackA, At
<1>2. /\ CallTyped /\ phase = "running" /\ job[w] \in JobType /\ Inside(w)
      /\ DOMAIN job = Threads /\ DOMAIN buf = Threads /\ todo \in Seq(RowRange)
  BY <1>1, InLoop
<1>3. len \in Nat /\ len <= buf[w][kn].na
  BY <1>1, BlockAtHand DEF Packing
<1>4. DOMAIN PackedA(w) = 0 .. buf[w][kn].na - 1
  <2>1. DOMAIN PackedA(w) = DOMAIN buf[w][kn].a \cup 0 .. len - 1 BY DEF PackedA, Packed
  <2> HIDE DEF len
  <2>2. DOMAIN buf[w][kn].a = 0 .. buf[w][kn].na - 1 /\ buf[w][kn].na \in Nat
    BY <1>1, <1>2 DEF Inside
  <2> QED BY <2>1, <2>2, <1>3
<1>5. job' = [job EXCEPT ![w] = J] /\ J \in JobType /\ J.kernel = kn
  <2>1. job' = [job EXCEPT ![w] = J] BY DEF PackA
  <2>2. J \in JobType BY <1>2, JobMoves DEF Places
  <2>3. J.kernel = kn BY <1>2 DEF JobType
  <2> QED BY <2>1, <2>2, <2>3
<1>6. UNCHANGED <<phase, call, todo>> BY DEF PackA
<1>7. buf' = [buf EXCEPT ![w] = f] /\ f = [buf[w] EXCEPT ![kn].a = PackedA(w)]
  BY <1>2 DEF PackA
<1>8. f = [buf[w] EXCEPT ![kn].a = PackedA(w)] BY <1>7
<1>9. Inside(w)'
  BY <1>8, <1>1, <1>2, <1>4 DEF Inside
<1>10. InBlock(w)'
  <2>1. InBlock(w) BY DEF PackInv
  <2>2. job'[w] = J BY <1>5, <1>2
  <2>3. f[kn].na = buf[w][kn].na /\ f[kn].nb = buf[w][kn].nb
    BY <1>8, <1>1, <1>2 DEF Inside
  <2>4. J.ic = job[w].ic /\ J.jc = job[w].jc /\ J.pc = job[w].pc /\ J.rows = job[w].rows
        /\ J.at = "micro"
    BY <1>2 DEF JobType
  <2> HIDE DEF f, J
  <2> QED BY <2>1, <2>2, <2>3, <2>4, <1>1, <1>5, <1>6 DEF InBlock, BlockOf, Packing, f
<1> QED BY <1>2, <1>5, <1>6, <1>7, <1>9, <1>10, OneThread

LEMMA PackBStep ==
  ASSUME PackInv, NEW w \in Threads, PackB(w)
  PROVE  PackInv'
<1> DEFINE kn == job[w].kernel
           len == CeilDiv(Nc(w), TileOf(w)) * TileOf(w) * Kc(w)
           J == [job[w] EXCEPT !.at = "packA"]
           f == buf'[w]
<1>1. kn \in Packers /\ job[w].at = "packB" BY DEF PackB, At
<1>2. /\ CallTyped /\ phase = "running" /\ job[w] \in JobType /\ Inside(w)
      /\ DOMAIN job = Threads /\ DOMAIN buf = Threads /\ todo \in Seq(RowRange)
  BY <1>1, InLoop
<1>3. len \in Nat /\ len <= buf[w][kn].nb
  BY <1>1, BlockAtHand DEF Packing
<1>4. DOMAIN PackedB(w) = 0 .. buf[w][kn].nb - 1
  <2>1. DOMAIN PackedB(w) = DOMAIN buf[w][kn].b \cup 0 .. len - 1 BY DEF PackedB, Packed
  <2> HIDE DEF len
  <2>2. DOMAIN buf[w][kn].b = 0 .. buf[w][kn].nb - 1 /\ buf[w][kn].nb \in Nat
    BY <1>1, <1>2 DEF Inside
  <2> QED BY <2>1, <2>2, <1>3
<1>5. job' = [job EXCEPT ![w] = J] /\ J \in JobType /\ J.kernel = kn
  <2>1. job' = [job EXCEPT ![w] = J] BY DEF PackB
  <2>2. J \in JobType BY <1>2, JobMoves DEF Places
  <2>3. J.kernel = kn BY <1>2 DEF JobType
  <2> QED BY <2>1, <2>2, <2>3
<1>6. UNCHANGED <<phase, call, todo>> BY DEF PackB
<1>7. buf' = [buf EXCEPT ![w] = f] /\ f = [buf[w] EXCEPT ![kn].b = PackedB(w)]
  BY <1>2 DEF PackB
<1>8. f = [buf[w] EXCEPT ![kn].b = PackedB(w)] BY <1>7
<1>9. Inside(w)'
  BY <1>8, <1>1, <1>2, <1>4 DEF Inside
<1>10. InBlock(w)'
  <2>1. InBlock(w) BY DEF PackInv
  <2>2. job'[w] = J BY <1>5, <1>2
  <2>3. f[kn].nb = buf[w][kn].nb /\ f[kn].na = buf[w][kn].na
    BY <1>8, <1>1, <1>2 DEF Inside
  <2>4. J.ic = job[w].ic /\ J.jc = job[w].jc /\ J.pc = job[w].pc /\ J.rows = job[w].rows
        /\ J.at = "packA"
    BY <1>2 DEF JobType
  <2> HIDE DEF f, J
  <2> QED BY <2>1, <2>2, <2>3, <2>4, <1>1, <1>5, <1>6 DEF InBlock, BlockOf, Packing, f
<1> QED BY <1>2, <1>5, <1>6, <1>7, <1>9, <1>10, OneThread

\* What the loops do to the job of thread w, whose kernel is kn: it ends, or
\* it moves to another block of the same product.
Moves(w, J) ==
    \/ J = Idle
    \/ /\ J \in JobType /\ J.kernel = job[w].kernel /\ J.at # "start"
       /\ J.kernel \in Packers =>
             J.ic < J.rows /\ J.jc < call.n /\ J.pc < call.k

\* What a busy thread may be, whatever its kernel.
LEMMA Busy ==
  ASSUME PackInv, NEW w \in Threads, job[w].at # "idle"
  PROVE  /\ CallTyped /\ phase = "running" /\ job[w] \in JobType /\ Inside(w)
         /\ DOMAIN job = Threads /\ DOMAIN buf = Threads /\ todo \in Seq(RowRange)
         /\ BlockOf(w).m \in Nat /\ BlockOf(w).n \in Nat /\ BlockOf(w).k \in Nat
         /\ InBlock(w)
<1>1. job[w] # Idle BY DEF Idle
<1>2. phase = "running" /\ CallTyped BY <1>1 DEF PackInv, Typed
<1>3. BlockOf(w).m \in Nat /\ BlockOf(w).n \in Nat /\ BlockOf(w).k \in Nat
  BY <1>2, BlockTyped DEF IsBlock, Positive
<1> QED BY <1>1, <1>2, <1>3 DEF PackInv, Typed

LEMMA AfterLoopsMoves ==
  ASSUME NEW w \in Threads, job[w] \in JobType
  PROVE  \E J : AfterLoops(w) = [job EXCEPT ![w] = J] /\ Moves(w, J)
<1> DEFINE J == [job[w] EXCEPT !.at = "edges"]
<1>1. CASE job[w].kernel = "tiled"
  <2>1. AfterLoops(w) = [job EXCEPT ![w] = J] BY <1>1 DEF AfterLoops
  <2>2. J \in JobType BY JobMoves DEF Places
  <2>3. J.kernel = "tiled" /\ J.at = "edges" BY <1>1 DEF JobType
  <2>4. Moves(w, J) BY <1>1, <2>2, <2>3 DEF Moves, Packers
  <2> QED BY <2>1, <2>4
<1>2. CASE job[w].kernel # "tiled"
  BY <1>2 DEF AfterLoops, Moves
<1> QED BY <1>1, <1>2

LEMMA NextBlockMoves ==
  ASSUME PackInv, NEW w \in Threads, job[w].at \in {"tiles", "micro"},
         job[w].kernel \in Packers => job[w].at = "micro"
  PROVE  \E J : NextBlock(w) = [job EXCEPT ![w] = J] /\ Moves(w, J)
<1> DEFINE j == job[w]
           b == BlockOf(w)
           rest == IF j.kernel = "tiled" THEN "tiles" ELSE "packA"
           J1 == [j EXCEPT !.ic = j.ic + b.m, !.at = rest]
           J2 == [j EXCEPT !.ic = 0, !.pc = j.pc + b.k, !.at = InLoops(w)]
           J3 == [j EXCEPT !.ic = 0, !.pc = 0, !.jc = j.jc + b.n, !.at = InLoops(w)]
<1>1. /\ CallTyped /\ j \in JobType /\ InBlock(w) /\ DOMAIN job = Threads
      /\ b.m \in Nat /\ b.n \in Nat /\ b.k \in Nat
  BY Busy
<1>2. j.kernel \in Packers =>
        /\ j.ic < j.rows /\ j.jc < call.n /\ j.pc < call.k
        /\ RowsIn(w) = j.rows /\ ColsIn(w) = call.n
  BY <1>1 DEF InBlock, Packing, RowsIn, ColsIn, Packers
<1>3. rest \in Places \ {"start"} /\ InLoops(w) \in Places \ {"start"}
  BY DEF InLoops, Places
<1>4. /\ j.ic \in Nat /\ j.jc \in Nat /\ j.pc \in Nat /\ j.rows \in Nat
      /\ call.n \in Nat /\ call.k \in Nat
  BY <1>1 DEF JobType, CallTyped, Positive
<1> HIDE DEF rest
<1>5. CASE j.ic + b.m < RowsIn(w)
  <2>1. NextBlock(w) = [job EXCEPT ![w] = J1] BY <1>1, <1>5 DEF NextBlock, rest
  <2>2. J1 \in JobType
    <3>1. j.ic + b.m \in Nat BY <1>1, <1>4
    <3> QED BY <3>1, <1>1, <1>3, JobMoves
  <2>3. /\ J1.kernel = j.kernel /\ J1.at = rest /\ J1.ic = j.ic + b.m
        /\ J1.jc = j.jc /\ J1.pc = j.pc /\ J1.rows = j.rows
    BY <1>1 DEF JobType
  <2> HIDE DEF J1
  <2>4. Moves(w, J1) BY <2>2, <2>3, <1>2, <1>3, <1>4, <1>5 DEF Moves
  <2> QED BY <2>1, <2>4
<1>6. CASE ~(j.ic + b.m < RowsIn(w)) /\ j.pc + b.k < call.k
  <2>1. NextBlock(w) = [job EXCEPT ![w] = J2] BY <1>6 DEF NextBlock
  <2>2. J2 \in JobType
    <3>1. j.pc + b.k \in Nat BY <1>1, <1>4
    <3> QED BY <3>1, <1>1, <1>3, JobMoves
  <2>3. /\ J2.kernel = j.kernel /\ J2.at = InLoops(w) /\ J2.ic = 0
        /\ J2.jc = j.jc /\ J2.pc = j.pc + b.k /\ J2.rows = j.rows
    BY <1>1 DEF JobType
  <2> HIDE DEF J2
  <2>4. Moves(w, J2) BY <2>2, <2>3, <1>2, <1>3, <1>4, <1>6 DEF Moves
  <2> QED BY <2>1, <2>4
<1>7. CASE /\ ~(j.ic + b.m < RowsIn(w)) /\ ~(j.pc + b.k < call.k)
           /\ j.jc + b.n < ColsIn(w)
  <2>1. NextBlock(w) = [job EXCEPT ![w] = J3] BY <1>7 DEF NextBlock
  <2>2. J3 \in JobType
    <3>1. j.jc + b.n \in Nat BY <1>1, <1>4
    <3> QED BY <3>1, <1>1, <1>3, JobMoves
  <2>3. /\ J3.kernel = j.kernel /\ J3.at = InLoops(w) /\ J3.ic = 0
        /\ J3.jc = j.jc + b.n /\ J3.pc = 0 /\ J3.rows = j.rows
    BY <1>1 DEF JobType
  <2> HIDE DEF J3
  <2>4. Moves(w, J3) BY <2>2, <2>3, <1>2, <1>3, <1>4, <1>7 DEF Moves
  <2> QED BY <2>1, <2>4
<1>8. CASE /\ ~(j.ic + b.m < RowsIn(w)) /\ ~(j.pc + b.k < call.k)
           /\ ~(j.jc + b.n < ColsIn(w))
  <2>1. NextBlock(w) = AfterLoops(w) BY <1>8 DEF NextBlock
  <2> QED BY <2>1, <1>1, AfterLoopsMoves
<1> QED BY <1>5, <1>6, <1>7, <1>8

LEMMA LoopsBeginMoves ==
  ASSUME PackInv, NEW w \in Threads, job[w].at = "start"
  PROVE  \E J : LoopsBegin(w) = [job EXCEPT ![w] = J] /\ Moves(w, J)
<1> DEFINE j == job[w]
           J1 == [j EXCEPT !.at = InLoops(w)]
<1>1. CallTyped /\ j \in JobType /\ InBlock(w) /\ DOMAIN job = Threads
  BY Busy
<1>2. CASE RowsIn(w) = 0 \/ ColsIn(w) = 0 \/ call.k = 0
  <2>1. LoopsBegin(w) = AfterLoops(w) BY <1>2 DEF LoopsBegin
  <2> QED BY <2>1, <1>1, AfterLoopsMoves
<1>3. CASE ~(RowsIn(w) = 0 \/ ColsIn(w) = 0 \/ call.k = 0)
  <2>1. LoopsBegin(w) = [job EXCEPT ![w] = J1] BY <1>3, <1>1 DEF LoopsBegin
  <2>2. InLoops(w) \in Places \ {"start"} BY DEF InLoops, Places
  <2>3. J1 \in JobType BY <2>2, <1>1, JobMoves
  <2>4. /\ J1.kernel = j.kernel /\ J1.at = InLoops(w) /\ J1.ic = j.ic
        /\ J1.jc = j.jc /\ J1.pc = j.pc /\ J1.rows = j.rows
    BY <1>1 DEF JobType
  <2>5. j.ic = 0 /\ j.jc = 0 /\ j.pc = 0 BY <1>1 DEF InBlock
  <2>6. j.kernel \in Packers => RowsIn(w) = j.rows /\ ColsIn(w) = call.n
    BY DEF RowsIn, ColsIn, Packers
  <2>7. j.rows \in Nat /\ call.n \in Nat /\ call.k \in Nat
    BY <1>1 DEF JobType, CallTyped, Positive
  <2> HIDE DEF J1
  <2>8. Moves(w, J1) BY <2>2, <2>3, <2>4, <2>5, <2>6, <2>7, <1>3 DEF Moves
  <2> QED BY <2>1, <2>8
<1> QED BY <1>2, <1>3

\* A step that moves the job of w and leaves the buffers alone.
LEMMA MoveStep ==
  ASSUME PackInv, NEW w \in Threads, job[w].at \notin {"idle", "start"}, NEW J,
         Moves(w, J), job' = [job EXCEPT ![w] = J],
         job[w].kernel \in Packers => job[w].at \in Packing,
         UNCHANGED <<phase, call, todo, buf>>
  PROVE  PackInv'
<1>1. /\ phase = "running" /\ job[w] \in JobType /\ Inside(w) /\ InBlock(w)
      /\ DOMAIN job = Threads /\ DOMAIN buf = Threads /\ todo \in Seq(RowRange)
  BY Busy
<1>2. J = Idle \/ J \in JobType BY DEF Moves
<1>3. Inside(w)' BY <1>1 DEF Inside
<1>4. InBlock(w)'
  <2>1. job'[w] = J BY <1>1
  <2>2. CASE J = Idle BY <2>1, <2>2 DEF InBlock, Idle, Packing
  <2>3. CASE J # Idle
    <3>1. J.kernel = job[w].kernel /\ J.at # "start" BY <2>3 DEF Moves
    <3>2. J.kernel \in Packers => J.ic < J.rows /\ J.jc < call.n /\ J.pc < call.k
      BY <2>3 DEF Moves
    <3> QED BY <1>1, <2>1, <3>1, <3>2 DEF InBlock, BlockOf
  <2> QED BY <2>2, <2>3
<1> QED BY <1>1, <1>2, <1>3, <1>4, OneThread

\* A kernel that needs no buffers.
LEMMA NoBufferStep ==
  ASSUME PackInv, NEW w \in Threads, job[w].at # "idle", NEW J,
         J = Idle \/ (J \in JobType /\ J.at # "start" /\ J.kernel \notin Packers),
         job' = [job EXCEPT ![w] = J], UNCHANGED <<phase, call, todo, buf>>
  PROVE  PackInv'
<1>1. /\ phase = "running" /\ job[w] \in JobType /\ Inside(w)
      /\ DOMAIN job = Threads /\ DOMAIN buf = Threads /\ todo \in Seq(RowRange)
  BY Busy
<1>2. Inside(w)' BY <1>1 DEF Inside
<1>3. job'[w] = J BY <1>1
<1>4. InBlock(w)' BY <1>3 DEF InBlock, Idle, Packing
<1> QED BY <1>1, <1>2, <1>4, OneThread

LEMMA ClearStep ==
  ASSUME PackInv, NEW w \in Threads, Clear(w)
  PROVE  PackInv'
<1>1. job[w].at = "start" /\ job[w].kernel \in {"tiled"} \cup Packers
  BY DEF Clear, At, Packers
<1>2. /\ CallTyped /\ phase = "running" /\ job[w] \in JobType /\ Inside(w)
      /\ DOMAIN job = Threads /\ DOMAIN buf = Threads /\ todo \in Seq(RowRange)
  BY <1>1, Busy
<1>3. PICK J : job' = [job EXCEPT ![w] = J] /\ Moves(w, J)
  BY <1>1, LoopsBeginMoves DEF Clear
<1>4. UNCHANGED <<phase, call, todo>> BY DEF Clear
<1>5. CASE job[w].kernel = "tiled"
  <2>1. J = Idle \/ (J \in JobType /\ J.at # "start" /\ J.kernel \notin Packers)
    BY <1>3, <1>5 DEF Moves, Packers
  <2>2. buf' = buf BY <1>5 DEF Clear
  <2> QED BY <1>1, <1>3, <1>4, <2>1, <2>2, NoBufferStep
<1>6. CASE job[w].kernel # "tiled"
  <2>1. job[w].kernel \in Packers /\ buf' = Ensured(w) BY <1>1, <1>6 DEF Clear
  <2>2. /\ buf' = [buf EXCEPT ![w] = buf'[w]] /\ Inside(w)'
        /\ buf'[w][job[w].kernel].na >= BlockOf(w).m * BlockOf(w).k
        /\ buf'[w][job[w].kernel].nb >= BlockOf(w).n * BlockOf(w).k
    BY <2>1, <1>2, EnsureFits
  <2>3. DOMAIN buf' = Threads /\ \A u \in Threads : u # w => buf'[u] = buf[u]
    BY <2>2, <1>2
  <2>4. J = Idle \/ J \in JobType BY <1>3 DEF Moves
  <2>5. job'[w] = J BY <1>2, <1>3
  <2>6. InBlock(w)'
    <3>1. CASE J = Idle BY <2>5, <3>1 DEF InBlock, Idle, Packing
    <3>2. CASE J # Idle
      <4>1. J.kernel = job[w].kernel /\ J.at # "start" BY <1>3, <3>2 DEF Moves
      <4>2. J.ic < J.rows /\ J.jc < call.n /\ J.pc < call.k
        BY <1>3, <3>2, <2>1 DEF Moves
      <4>3. BlockOf(w)' = BlockOf(w) BY <2>5, <4>1, <1>4 DEF BlockOf
      <4> QED BY <2>2, <2>5, <4>1, <4>2, <4>3, <1>4 DEF InBlock
    <3> QED BY <3>1, <3>2
  <2> QED BY <1>2, <1>3, <1>4, <2>2, <2>3, <2>4, <2>6, OneThread
<1> QED BY <1>5, <1>6

LEMMA KernelSteps ==
  ASSUME PackInv, NEW w \in Threads, KernelStep(w)
  PROVE  PackInv'
<1>1. CASE RunInRegisters(w)
  BY <1>1, NoBufferStep DEF RunInRegisters, Finish, At
<1>2. CASE RunReordered(w)
  BY <1>2, NoBufferStep DEF RunReordered, Finish, At
<1>3. CASE Clear(w) BY <1>3, ClearStep
<1>4. CASE RunTiles(w)
  <2>1. /\ job[w].at = "tiles" /\ job[w].kernel \notin Packers
        /\ job' = NextBlock(w) /\ UNCHANGED <<phase, call, todo, buf>>
    BY <1>4 DEF RunTiles, At, Packers
  <2>2. PICK J : job' = [job EXCEPT ![w] = J] /\ Moves(w, J)
    BY <2>1, NextBlockMoves
  <2> QED BY <2>1, <2>2, MoveStep
<1>5. CASE EdgeStrips(w)
  BY <1>5, NoBufferStep DEF EdgeStrips, Finish, At
<1>6. CASE PackB(w) BY <1>6, PackBStep
<1>7. CASE PackA(w) BY <1>7, PackAStep
<1>8. CASE RunMicroTiles(w)
  <2>1. /\ job[w].at = "micro" /\ job[w].at \in Packing
        /\ job' = NextBlock(w) /\ UNCHANGED <<phase, call, todo, buf>>
    BY <1>8 DEF RunMicroTiles, At, Packing
  <2>2. PICK J : job' = [job EXCEPT ![w] = J] /\ Moves(w, J)
    BY <2>1, NextBlockMoves
  <2> QED BY <2>1, <2>2, MoveStep
<1> QED BY <1>1, <1>2, <1>3, <1>4, <1>5, <1>6, <1>7, <1>8 DEF KernelStep

\* A job that begins is of the right form, for rows of a range.
LEMMA NewJobTyped ==
  ASSUME NEW v \in Variants, NEW rows \in RowRange
  PROVE  /\ NewJob(v, rows) \in JobType
         /\ NewJob(v, rows).at = "start" /\ NewJob(v, rows).ic = 0
         /\ NewJob(v, rows).jc = 0 /\ NewJob(v, rows).pc = 0
<1>1. KernelOf(v) \in Variants BY DEF KernelOf, Variants
<1>2. rows[1] \in Int /\ rows[2] - rows[1] \in Nat BY DEF RowRange
<1> QED BY <1>1, <1>2 DEF NewJob, JobType, Places

LEMMA ClaimStep ==
  ASSUME PackInv, NEW w \in Threads, Claim(w)
  PROVE  PackInv'
<1> DEFINE J == NewJob("threaded", Head(todo))
<1>1. /\ todo \in Seq(RowRange) /\ todo # <<>> /\ DOMAIN job = Threads
      /\ DOMAIN buf = Threads /\ Inside(w)
  BY DEF PackInv, Typed, Claim
<1>2. Head(todo) \in RowRange /\ todo' \in Seq(RowRange) BY <1>1 DEF Claim
<1>3. /\ J \in JobType /\ J.at = "start" /\ J.ic = 0 /\ J.jc = 0 /\ J.pc = 0
  BY <1>2, NewJobTyped DEF Variants
<1>4. job' = [job EXCEPT ![w] = J] /\ UNCHANGED <<phase, call, buf>> BY DEF Claim
<1> HIDE DEF J
<1>5. Inside(w)' BY <1>1, <1>4 DEF Inside
<1>6. InBlock(w)' BY <1>1, <1>3, <1>4 DEF InBlock, Packing
<1>7. phase = "running" BY <1>1 DEF PackInv, Typed
<1> QED BY <1>1, <1>2, <1>3, <1>4, <1>5, <1>6, <1>7, OneThread

\* The steps that leave the buffers alone and after which no thread packs.
LEMMA Undisturbed ==
  ASSUME PackInv, Typed', buf' = buf,
         \A w \in Threads :
            /\ job'[w].at \notin Packing
            /\ job'[w].at = "start" =>
                  job'[w].ic = 0 /\ job'[w].jc = 0 /\ job'[w].pc = 0
  PROVE  PackInv'
<1>1. \A w \in Threads : Inside(w)' BY DEF PackInv, Inside
<1>2. \A w \in Threads : InBlock(w)' BY DEF InBlock
<1> QED BY <1>1, <1>2 DEF PackInv

LEMMA BeginStep ==
  ASSUME PackInv, NEW v \in Variants, NEW p \in Problems, NEW x \in DOMAIN NeonBlocks,
         Begin(v, p, NeonBlocks[x])
  PROVE  PackInv'
<1>1. /\ p.m \in Positive /\ p.n \in Positive /\ p.k \in Nat
      /\ IsBlock(NeonBlocks[x], NeonTile)
  BY GemmAssumption
<1>2. /\ call' = [v |-> v, b |-> p.b, m |-> p.m, n |-> p.n, k |-> p.k,
                  blk |-> NeonBlocks[x]]
      /\ phase' = "dispatch" /\ phase # "running"
      /\ UNCHANGED <<todo, job, buf>>
  BY DEF Begin
<1>3. CallTyped' BY <1>1, <1>2 DEF CallTyped, IsBlock, Positive
<1>4. Typed /\ todo = <<>> /\ \A w \in Threads : job[w] = Idle
  BY <1>2 DEF PackInv, Typed
<1>5. Typed' BY <1>2, <1>3, <1>4 DEF Typed
<1> QED BY <1>2, <1>4, <1>5, Undisturbed DEF Idle, Packing

LEMMA DispatchStep ==
  ASSUME PackInv, Dispatch
  PROVE  PackInv'
<1> DEFINE v == Route(mode')
           J == NewJob(v, <<0, call.m>>)
<1>1. /\ Typed /\ CallTyped /\ DOMAIN job = Threads /\ DOMAIN buf = Threads
      /\ \A w \in Threads : job[w] = Idle
  BY DEF PackInv, Typed, Dispatch
<1>2. v \in Variants BY <1>1 DEF CallTyped, Route, Variants
<1>3. phase' = "running" /\ UNCHANGED <<call, buf>> BY DEF Dispatch
<1>4. CallTyped' BY <1>1, <1>3 DEF CallTyped
<1> HIDE DEF v
<1>5. CASE v = "threaded"
  <2>1. todo' = RowRanges(call.m) /\ job' = job BY <1>5 DEF Dispatch, v
  <2>2. todo' \in Seq(RowRange) BY <2>1, <1>1, RowRangesAreRanges DEF CallTyped
  <2>3. Typed' BY <1>1, <1>3, <1>4, <2>1, <2>2 DEF Typed
  <2> QED BY <1>1, <1>3, <2>1, <2>3, Undisturbed DEF Idle, Packing
<1>6. CASE v # "threaded"
  <2>1. todo' = todo /\ job' = [job EXCEPT ![0] = J] BY <1>6 DEF Dispatch, v
  <2>2. <<0, call.m>> \in RowRange BY <1>1 DEF CallTyped, RowRange, Positive
  <2>3. J \in JobType /\ J.at = "start" /\ J.ic = 0 /\ J.jc = 0 /\ J.pc = 0
    BY <1>2, <2>2, NewJobTyped
  <2> HIDE DEF J
  <2>4. \A w \in Threads : job'[w] = Idle \/ job'[w] = J BY <1>1, <2>1
  <2>5. Typed' BY <1>1, <1>3, <1>4, <2>1, <2>3, <2>4 DEF Typed
  <2> QED BY <1>3, <2>3, <2>4, <2>5, Undisturbed DEF Idle, Packing
<1> QED BY <1>5, <1>6

LEMMA EndSliceStep ==
  ASSUME PackInv, EndSlice
  PROVE  PackInv'
<1>1. /\ phase = "running" /\ phase' \in {"returned", "dispatch"} /\ todo = <<>>
      /\ (\A w \in Threads : job[w] = Idle) /\ UNCHANGED <<call, todo, job, buf>>
  BY DEF EndSlice
<1>2. Typed' BY <1>1 DEF PackInv, Typed, CallTyped
<1> QED BY <1>1, <1>2, Undisturbed DEF Idle, Packing

LEMMA PackStep == PackInv /\ [GemmNext]_gemmVars => PackInv'
<1> SUFFICES ASSUME PackInv, [GemmNext]_gemmVars PROVE PackInv' OBVIOUS
<1>1. CASE Dispatch BY <1>1, DispatchStep
<1>2. CASE EndSlice BY <1>2, EndSliceStep
<1>3. ASSUME NEW w \in Threads, Claim(w) PROVE PackInv' BY <1>3, ClaimStep
<1>4. ASSUME NEW w \in Threads, KernelStep(w) PROVE PackInv' BY <1>4, KernelSteps
<1>5. CASE GemmCall BY <1>5, BeginStep DEF GemmCall
<1>6. CASE UNCHANGED gemmVars
  <2>1. UNCHANGED <<phase, call, todo, job, buf>> BY <1>6 DEF gemmVars
  <2>2. Typed' BY <2>1 DEF PackInv, Typed, CallTyped
  <2>3. \A w \in Threads : Inside(w)' BY <2>1 DEF PackInv, Inside
  <2>4. \A w \in Threads : InBlock(w)' BY <2>1 DEF PackInv, InBlock, BlockOf
  <2> QED BY <2>2, <2>3, <2>4 DEF PackInv
<1> QED BY <1>1, <1>2, <1>3, <1>4, <1>5, <1>6 DEF GemmNext, GemmStep, GemmDone

\* On the device nothing is packed, and other kernels of the host pack nothing.
BufferInv == IF OnHost THEN PackInv ELSE \A w \in Threads : Inside(w)

LEMMA BufferInit == KernelInit => BufferInv
BY PackInit DEF KernelInit, BufferInv, PackInv

LEMMA BufferStep == BufferInv /\ [KernelNext]_kernelVars => BufferInv'
<1> SUFFICES ASSUME BufferInv, [KernelNext]_kernelVars PROVE BufferInv' OBVIOUS
<1>1. CASE OnHost /\ (GemmNext /\ UNCHANGED <<backend, launchVars>>)
  BY <1>1, PackStep DEF BufferInv, OnHost
<1>2. ASSUME NEW o \in Operations, RunHost(o) PROVE BufferInv'
  <2>1. /\ OnHost /\ backend' = backend
        /\ phase \in {"outside", "returned"} /\ phase' = "returned"
        /\ UNCHANGED <<todo, job, buf>>
    BY <1>2 DEF RunHost, HostUnchanged
  <2>2. PackInv BY <2>1 DEF BufferInv
  <2>3. Typed' /\ \A w \in Threads : job'[w] = Idle BY <2>1, <2>2 DEF PackInv, Typed
  <2>4. PackInv' BY <2>1, <2>2, <2>3, Undisturbed DEF Idle, Packing
  <2> QED BY <2>1, <2>4 DEF BufferInv, OnHost
<1>3. ASSUME ~OnHost, UNCHANGED <<backend, buf>> PROVE BufferInv'
  BY <1>3 DEF BufferInv, OnHost, Inside
<1>4. ASSUME NEW o \in Operations, Launch(o) \/ CallCublas(o) PROVE BufferInv'
  BY <1>3, <1>4 DEF Launch, CallCublas, HostUnchanged
<1>5. CASE DeviceStep
  BY <1>3, <1>5 DEF DeviceStep, StartBlock, EndLaunch, RunThread, Stage, Multiply, Store,
                    SyncStaged, SyncMultiplied, Sync, HostUnchanged, Launched
<1>6. CASE UNCHANGED kernelVars
  <2>1. CASE OnHost BY <1>6, <2>1, PackStep DEF BufferInv, OnHost, kernelVars
  <2>2. CASE ~OnHost BY <1>3, <1>6, <2>2 DEF kernelVars, gemmVars
  <2> QED BY <2>1, <2>2
<1> QED BY <1>1, <1>2, <1>4, <1>5, <1>6 DEF KernelNext, KernelCall

\* Whatever the shapes, the block and tile sizes, the number of threads and
\* the calls before, of this kernel and others, no pack writes outside the
\* thread's packing buffers (pack_a, pack_b and ensure in gemm.cpp).
THEOREM PackingFits == KernelSpec => []PackingStaysInside
<1>1. BufferInv => PackingStaysInside
  BY PackInvImplies DEF BufferInv, Inside, PackingStaysInside
<1> QED BY <1>1, BufferInit, BufferStep, PTL DEF KernelSpec
-----------------------------------------------------------------------------
(* The invariant of the values.                                            *)

\* Cell <<i, j>> of slice s, and the products lo .. hi - 1 of its row and
\* column, which is what a kernel adds up in one go.
Cell(s, i, j) == s * call.m * call.n + i * call.n + j
Part(s, i, j, lo, hi) ==
    [q \in 1 .. hi - lo |-> <<s * call.m * call.k + i * call.k + (lo + q - 1),
                              s * call.k * call.n + (lo + q - 1) * call.n + j>>]

\* The first x blocks of depth d of them.
Blocks(s, i, j, d, x) ==
    [q \in 1 .. x |-> Part(s, i, j, (q - 1) * d, Least(q * d, call.k))]

\* The kernel that the call comes down to.
TheKernel == KernelOf(Route(mode))
Depth == IF TheKernel = "neon" THEN call.blk.k ELSE Block.k
Depths == IF TheKernel \in Packers THEN {Depth} ELSE {1, Block.k}

\* The cell is computed: all of its products, in one sum or in blocks; in
\* blocks of the kernel's depth if the kernel packs.
Final(s, i, j) ==
    \/ TheKernel \notin Packers /\ C[Cell(s, i, j)] = <<Part(s, i, j, 0, call.k)>>
    \/ \E d \in Depths : C[Cell(s, i, j)] = Blocks(s, i, j, d, CeilDiv(call.k, d))

AllRows == 0 .. call.m - 1
SliceFinal(s) == \A i \in AllRows, j \in Cols : Final(s, i, j)

IsProduct ==
    /\ IsGemm /\ call.v \in Variants
    /\ call.b \in Positive /\ (call.b > 1 => call.v = "auto")
    /\ DOMAIN C = 0 .. call.b * call.m * call.n - 1
Settled == call.v = "auto" => mode # "unread"

Works(w) == job[w].at # "idle"
End(w) == job[w].r0 + job[w].rows
InRange(i, lo, hi) == lo <= i /\ i < hi

\* The rows that are still to be computed.
Waits(i) ==
    \/ \E x \in DOMAIN todo : InRange(i, todo[x][1], todo[x][2])
    \/ \E w \in Threads : Works(w) /\ InRange(i, job[w].r0, End(w))

\* How many blocks of element <<i, j>> are in C.
Count(w, i, j) ==
    LET J == job[w]  B == BlockOf(w)
    IN  IF j < J.jc THEN CeilDiv(call.k, B.k)
        ELSE IF j < J.jc + B.n THEN (J.pc \div B.k) + (IF i < J.ic THEN 1 ELSE 0)
        ELSE 0

\* Where a panel of depth kc holds element k of row i (of column i).
PanelAt(w, i, k) == (i \div TileOf(w)) * Kc(w) * TileOf(w) + k * TileOf(w) + (i % TileOf(w))

InTheLoops(w) ==
    /\ job[w].ic < RowsIn(w) /\ job[w].jc < ColsIn(w) /\ job[w].pc < call.k
    /\ job[w].kernel = "tiled" => job[w].ic % Tile = 0 /\ job[w].jc % Tile = 0
    /\ job[w].pc % BlockOf(w).k = 0
    /\ \A i \in 0 .. RowsIn(w) - 1, j \in 0 .. ColsIn(w) - 1 :
          C[CAt(w, i, j)] = Blocks(slice, job[w].r0 + i, j, BlockOf(w).k, Count(w, i, j))
PanelBHolds(w) ==
    \A j \in 0 .. Nc(w) - 1, k \in 0 .. Kc(w) - 1 :
        buf[w][job[w].kernel].b[PanelAt(w, j, k)] = BAt(job[w].pc + k, job[w].jc + j)
PanelAHolds(w) ==
    \A i \in 0 .. Mc(w) - 1, k \in 0 .. Kc(w) - 1 :
        buf[w][job[w].kernel].a[PanelAt(w, i, k)] = AAt(w, job[w].ic + i, job[w].pc + k)
WholeTilesDone(w) ==
    \A i \in 0 .. RowsIn(w) - 1, j \in 0 .. ColsIn(w) - 1 :
        C[CAt(w, i, j)]
          = Blocks(slice, job[w].r0 + i, j, BlockOf(w).k, CeilDiv(call.k, BlockOf(w).k))

Progress(w) ==
    /\ \/ job[w].at = "start"
       \/ job[w].kernel = "tiled" /\ job[w].at \in {"tiles", "edges"}
       \/ job[w].kernel \in Packers /\ job[w].at \in {"packB", "packA", "micro"}
    /\ job[w].at \in {"tiles", "packB", "packA", "micro"} => InTheLoops(w)
    /\ job[w].at \in {"packA", "micro"} => PanelBHolds(w)
    /\ job[w].at = "micro" => PanelAHolds(w)
    /\ job[w].at = "edges" => WholeTilesDone(w)

\* The ranges do not meet.
RangesApart ==
    /\ \A x \in DOMAIN todo : 0 <= todo[x][1] /\ todo[x][2] <= call.m
    /\ \A x, y \in DOMAIN todo : x < y => todo[x][2] <= todo[y][1]
    /\ \A w \in Threads : Works(w) =>
          /\ 0 <= job[w].r0 /\ End(w) <= call.m
          /\ \A x \in DOMAIN todo : End(w) <= todo[x][1]
          /\ \A u \in Threads : Works(u) /\ u # w =>
                End(w) <= job[u].r0 \/ End(u) <= job[w].r0

SliceInv ==
    /\ RangesApart
    /\ todo # <<>> => Route(mode) = "threaded"
    /\ \A w \in Threads : Works(w) =>
          /\ job[w].kernel = TheKernel
          /\ job[w].kernel = "reorder" => job[w].r0 = 0 /\ job[w].rows = call.m
          /\ Progress(w)
    /\ \A i \in AllRows : Waits(i) \/ \A j \in Cols : Final(slice, i, j)

GemmInv ==
    /\ OnHost /\ phase \in {"dispatch", "running"} =>
          /\ IsProduct /\ slice \in 0 .. call.b - 1
          /\ phase = "running" \/ slice > 0 => Settled
          /\ \A s \in 0 .. slice - 1 : SliceFinal(s)
    /\ OnHost /\ phase = "running" => SliceInv
    /\ phase = "returned" /\ IsGemm =>
          /\ IsProduct /\ Settled /\ CallTyped
          /\ \A s \in 0 .. call.b - 1 : SliceFinal(s)
    /\ ~OnHost /\ phase # "outside" => ~IsGemm
-----------------------------------------------------------------------------
(* Cells.                                                                  *)

Sizes ==
    call.b \in Positive /\ call.m \in Positive /\ call.n \in Positive /\ call.k \in Nat

LEMMA CellArithmetic ==
  ASSUME NEW m \in Positive, NEW n \in Positive, NEW s \in Int, NEW i \in Int, NEW j \in Int
  PROVE  /\ s * m \in Int /\ s * m + i \in Int /\ (s * m + i) * n \in Int
         /\ s * m * n + i * n + j = (s * m + i) * n + j
<1>1. m \in Int /\ n \in Int BY DEF Positive
<1>2. s * m \in Int BY <1>1, SMTT(30)
<1>3. s * m + i \in Int BY <1>2
<1>4. (s * m + i) * n = s * m * n + i * n
  <2> DEFINE a == s * m
  <2>1. a \in Int BY <1>2
  <2> HIDE DEF a
  <2>2. (a + i) * n = a * n + i * n BY <1>1, <2>1, SMTT(30)
  <2> QED BY <2>2 DEF a
<1>5. (s * m + i) * n \in Int
  <2> DEFINE a == s * m + i
  <2>1. a \in Int BY <1>3
  <2> HIDE DEF a
  <2>2. a * n \in Int BY <1>1, <2>1, SMTT(30)
  <2> QED BY <2>2 DEF a
<1> QED BY <1>2, <1>3, <1>4, <1>5

LEMMA CellIs ==
  ASSUME Sizes, NEW s \in Int, NEW i \in Int, NEW j \in Int
  PROVE  /\ s * call.m \in Int /\ s * call.m + i \in Int /\ (s * call.m + i) * call.n \in Int
         /\ Cell(s, i, j) = (s * call.m + i) * call.n + j
         /\ Cell(s, i, j) \in Int
<1>1. PICK m, n \in Positive : m = call.m /\ n = call.n BY Zenon DEF Sizes
<1>2. /\ s * m \in Int /\ s * m + i \in Int /\ (s * m + i) * n \in Int
      /\ s * m * n + i * n + j = (s * m + i) * n + j
  BY CellArithmetic
<1>3. (s * m + i) * n + j \in Int BY <1>2
<1> QED BY <1>1, <1>2, <1>3, Zenon DEF Cell

LEMMA CellsDiffer ==
  ASSUME Sizes, NEW s \in Int, NEW t \in Int, NEW i \in AllRows, NEW k \in AllRows,
         NEW j \in Cols, NEW l \in Cols, Cell(s, i, j) = Cell(t, k, l)
  PROVE  s = t /\ i = k /\ j = l
<1>1. PICK m, n \in Nat : m = call.m /\ n = call.n BY DEF Sizes, Positive
<1>2. /\ i \in 0 .. m - 1 /\ k \in 0 .. m - 1 /\ j \in 0 .. n - 1 /\ l \in 0 .. n - 1
      /\ i \in Int /\ k \in Int /\ j \in Int /\ l \in Int
  BY <1>1 DEF AllRows, Cols
<1>3. PICK x, y \in Int : x = s * m + i /\ y = t * m + k
  BY <1>1, <1>2, CellIs
<1>4. x * n + j = y * n + l
  BY <1>1, <1>2, <1>3, CellIs
<1>5. x = y /\ j = l BY <1>1, <1>2, <1>4, Apart
<1>6. s * m + i = t * m + k BY <1>3, <1>5
<1>7. s = t /\ i = k
  <2>1. i \in 0 .. m - 1 /\ k \in 0 .. m - 1 BY <1>2
  <2>2. s \in Int /\ t \in Int /\ m \in Nat OBVIOUS
  <2> QED BY <1>6, <2>1, <2>2, Apart, Zenon
<1> QED BY <1>5, <1>7

LEMMA CellInside ==
  ASSUME Sizes, NEW s \in 0 .. call.b - 1, NEW i \in AllRows, NEW j \in Cols
  PROVE  Cell(s, i, j) \in 0 .. call.b * call.m * call.n - 1
<1>1. PICK b, m, n \in Positive : b = call.b /\ m = call.m /\ n = call.n BY DEF Sizes
<1>2. b \in Nat /\ m \in Nat /\ n \in Nat BY DEF Positive
<1>3. /\ s \in Int /\ i \in 0 .. m - 1 /\ j \in 0 .. n - 1 /\ i \in Int /\ j \in Int
      /\ 0 <= s /\ s < b
  BY <1>1, <1>2 DEF AllRows, Cols
<1>4. PICK x \in Int : x = s * m + i BY <1>2, <1>3, CellIs, <1>1
<1>5. Cell(s, i, j) = x * n + j BY <1>1, <1>3, <1>4, CellIs
<1>6. 0 <= x /\ x < b * m /\ b * m \in Int
  <2>1. 0 * m <= s * m + i /\ s * m + i < b * m /\ b * m \in Int
    BY <1>2, <1>3, Multiples
  <2>2. 0 * m = 0 BY <1>2, SMTT(30)
  <2> QED BY <2>1, <2>2, <1>4
<1>7. PICK y \in Int : y = b * m BY <1>6
<1>8. 0 * n <= x * n + j /\ x * n + j < y * n /\ y * n \in Int /\ x * n \in Int
  BY <1>2, <1>3, <1>6, <1>7, Multiples
<1>9. 0 * n = 0 BY <1>2, SMTT(30)
<1>10. y * n = call.b * call.m * call.n BY <1>1, <1>7
<1> DEFINE c == x * n  d == y * n
<1>11. c \in Int /\ d \in Int /\ 0 <= c + j /\ c + j < d BY <1>8, <1>9
<1> HIDE DEF c, d
<1>12. c + j \in 0 .. d - 1 BY <1>3, <1>11
<1> QED BY <1>5, <1>10, <1>12 DEF c, d

LEMMA EveryCell ==
  ASSUME Sizes, NEW c \in 0 .. call.b * call.m * call.n - 1
  PROVE  \E s \in 0 .. call.b - 1, i \in AllRows, j \in Cols : c = Cell(s, i, j)
<1>1. PICK b, m, n \in Positive : b = call.b /\ m = call.m /\ n = call.n BY DEF Sizes
<1>2. b \in Nat /\ m \in Nat /\ n \in Nat /\ b * m \in Int
  <2>1. b \in Nat /\ m \in Nat /\ n \in Nat BY DEF Positive
  <2> QED BY <2>1, SMTT(30)
<1>3. PICK y \in Int : y = b * m BY <1>2
<1>4. y * n \in Int BY <1>2, SMTT(30)
<1>5. c \in Nat /\ c < y * n
  <2> DEFINE d == y * n
  <2>1. d \in Int /\ c \in 0 .. d - 1 BY <1>1, <1>3, <1>4
  <2> HIDE DEF d
  <2>2. c \in Nat /\ c < d BY <2>1
  <2> QED BY <2>2 DEF d
<1>6. PICK x \in Nat, j \in 0 .. n - 1 : c = x * n + j
  <2>1. /\ c \div n \in Nat /\ c % n \in 0 .. n - 1 /\ c = (c \div n) * n + (c % n)
    BY <1>5, Division
  <2> QED BY <2>1, Zenon
<1>7. x < b * m BY <1>2, <1>3, <1>5, <1>6, Multiples
<1>8. PICK s \in Nat, i \in 0 .. m - 1 : x = s * m + i
  <2>1. /\ x \div m \in Nat /\ x % m \in 0 .. m - 1 /\ x = (x \div m) * m + (x % m)
    BY Division
  <2> QED BY <2>1, Zenon
<1>9. s < b BY <1>2, <1>7, <1>8, Multiples
<1>10. s \in 0 .. call.b - 1 /\ i \in AllRows /\ j \in Cols
  BY <1>1, <1>2, <1>9 DEF AllRows, Cols
<1>11. Cell(s, i, j) = c
  <2>1. s \in Int /\ i \in Int /\ j \in Int BY <1>2
  <2> QED BY <2>1, <1>1, <1>6, <1>8, CellIs
<1> QED BY <1>10, <1>11

\* Rows lo .. hi - 1 of a slice are cells in a row.
LEMMA RowsOfCells ==
  ASSUME Sizes, NEW t \in Int, NEW lo \in Nat, NEW hi \in Nat, hi <= call.m,
         NEW s \in Int, NEW i \in AllRows, NEW j \in Cols
  PROVE  Cell(s, i, j) \in Cell(t, lo, 0) .. Cell(t, hi, 0) - 1
           <=> s = t /\ lo <= i /\ i < hi
<1>1. PICK m, n \in Positive : m = call.m /\ n = call.n BY DEF Sizes
<1>2. m \in Nat /\ n \in Nat BY DEF Positive
<1>3. i \in 0 .. m - 1 /\ j \in 0 .. n - 1 /\ i \in Int /\ j \in Int
  BY <1>1, <1>2 DEF AllRows, Cols
<1>4. PICK x, y, z \in Int : x = s * m + i /\ y = t * m + lo /\ z = t * m + hi
  <2>1. lo \in Int /\ hi \in Int OBVIOUS
  <2>2. s * m + i \in Int /\ t * m + lo \in Int /\ t * m + hi \in Int
    BY <1>3, <2>1, CellArithmetic
  <2> QED BY <2>2, Zenon
<1>5. /\ x * n \in Int /\ y * n \in Int /\ z * n \in Int
      /\ y * n <= x * n + j <=> y <= x
      /\ x * n + j < z * n <=> x < z
  BY <1>3, Multiples
<1>6. /\ Cell(s, i, j) = x * n + j /\ Cell(t, lo, 0) = y * n /\ Cell(t, hi, 0) = z * n
  <2>1. Cell(s, i, j) = x * n + j BY <1>1, <1>3, <1>4, CellIs
  <2>2. Cell(t, lo, 0) = y * n + 0 BY <1>1, <1>4, CellIs
  <2>3. Cell(t, hi, 0) = z * n + 0 BY <1>1, <1>4, CellIs
  <2> QED BY <2>1, <2>2, <2>3, <1>5
<1>7. Cell(s, i, j) \in Cell(t, lo, 0) .. Cell(t, hi, 0) - 1 <=> y <= x /\ x < z
  <2> DEFINE a == x * n  b == y * n  c == z * n
  <2>1. /\ a \in Int /\ b \in Int /\ c \in Int
        /\ b <= a + j <=> y <= x
        /\ a + j < c <=> x < z
    BY <1>5
  <2> HIDE DEF a, b, c
  <2>2. a + j \in b .. c - 1 <=> y <= x /\ x < z BY <1>3, <2>1
  <2> QED BY <1>6, <2>2 DEF a, b, c
<1>8. ASSUME y <= x, x < z PROVE s = t /\ lo <= i /\ i < hi
  <2>1. s * m \in Int /\ t * m \in Int BY <1>2, SMTT(30)
  <2> DEFINE a == s * m  b == t * m
  <2>2. a \in Int /\ b \in Int /\ x = a + i /\ y = b + lo /\ z = b + hi /\ hi <= m
    BY <1>1, <1>4, <2>1
  <2> HIDE DEF a, b
  <2>3. b <= a + i /\ a + i < b + m BY <1>2, <1>3, <1>8, <2>2
  <2>4. t * m <= s * m + i /\ s * m + i < (t + 1) * m
    <3>1. (t + 1) * m = t * m + m BY <1>2, SMTT(30)
    <3> QED BY <2>3, <3>1 DEF a, b
  <2>5. t <= s /\ s < t + 1 BY <1>3, <2>4, Multiples
  <2>6. s = t BY <2>5
  <2> QED BY <1>3, <1>8, <2>2, <2>6 DEF a, b
<1>9. ASSUME s = t, lo <= i, i < hi PROVE y <= x /\ x < z
  <2>1. t * m \in Int BY <1>2, SMTT(30)
  <2> DEFINE b == t * m
  <2>2. b \in Int /\ x = b + i /\ y = b + lo /\ z = b + hi BY <1>4, <1>9, <2>1
  <2> HIDE DEF b
  <2> QED BY <1>3, <1>9, <2>2
<1> QED BY <1>7, <1>8, <1>9

\* The products of a cell.
LEMMA ProductOfCell ==
  ASSUME Sizes, NEW s \in Nat, NEW i \in AllRows, NEW j \in Cols
  PROVE  Product(Cell(s, i, j)) = Part(s, i, j, 0, call.k)
<1>1. PICK m, n \in Positive : m = call.m /\ n = call.n BY DEF Sizes
<1>2. m \in Nat /\ n \in Nat /\ call.k \in Nat /\ m >= 1 /\ n >= 1 BY DEF Positive, Sizes
<1>3. i \in 0 .. m - 1 /\ j \in 0 .. n - 1 /\ i \in Int /\ j \in Int
  BY <1>1, <1>2 DEF AllRows, Cols
<1>4. PICK c \in Int : c = Cell(s, i, j)
  <2>1. Cell(s, i, j) \in Int
    <3>1. s \in Int OBVIOUS
    <3> QED BY <3>1, <1>3, CellIs
  <2> QED BY <2>1, Zenon
<1>5. PICK x \in Int : x = s * m + i
  <2>1. s * m + i \in Int
    <3>1. s \in Int OBVIOUS
    <3> QED BY <3>1, <1>3, CellArithmetic
  <2> QED BY <2>1, Zenon
<1>6. c = x * n + j BY <1>1, <1>3, <1>4, <1>5, CellIs
<1>7. c % n = j BY <1>6, <1>3, DivisionIs
<1>8. c \div (m * n) = s /\ c % (m * n) = i * n + j
  <2>1. PICK d \in Positive : d = m * n
    <3>1. m * n \in Nat /\ m * n >= 1 BY <1>2, SMTT(30)
    <3>2. m * n # 0 BY <3>1
    <3> QED BY <3>1, <3>2 DEF Positive
  <2>2. PICK r \in Int : r = i * n + j
    <3>1. i * n \in Int BY <1>2, <1>3, SMTT(30)
    <3> QED BY <3>1, <1>3
  <2>3. r \in 0 .. d - 1
    <3>1. 0 * n <= i * n + j /\ i * n + j < m * n
      BY <1>2, <1>3, Multiples
    <3>2. 0 * n = 0 BY <1>2, SMTT(30)
    <3>3. d \in Nat BY DEF Positive
    <3> QED BY <2>1, <2>2, <3>1, <3>2, <3>3
  <2>4. c = s * d + r
    <3>1. s * m * n = s * (m * n) BY <1>2, SMTT(30)
    <3>2. c = s * m * n + i * n + j BY <1>1, <1>4 DEF Cell
    <3>3. s * d \in Int
      <4>1. d \in Int BY DEF Positive
      <4> QED BY <4>1, SMTT(30)
    <3> DEFINE a == s * d  e == i * n
    <3>4. a \in Int /\ e \in Int /\ c = a + e + j /\ r = e + j
      <4>1. i * n \in Int BY <1>2, <1>3, SMTT(30)
      <4> QED BY <2>1, <2>2, <3>1, <3>2, <3>3, <4>1
    <3> HIDE DEF a, e
    <3>5. c = a + r BY <3>4, <1>3
    <3> QED BY <3>5 DEF a
  <2>5. c \div d = s /\ c % d = r BY <2>3, <2>4, DivisionIs
  <2> QED BY <2>1, <2>2, <2>5
<1>9. (i * n + j) \div n = i BY <1>3, DivisionIs
<1>10. Product(c) = [q \in 1 .. call.k |-> <<(s * m + i) * call.k + q - 1,
                                           (s * call.k + q - 1) * n + j>>]
  BY <1>1, <1>7, <1>8, <1>9 DEF Product
<1>11. ASSUME NEW q \in 1 .. call.k
       PROVE  /\ (s * m + i) * call.k + q - 1
                   = s * m * call.k + i * call.k + (0 + q - 1)
              /\ (s * call.k + q - 1) * n + j
                   = s * call.k * n + (0 + q - 1) * n + j
  <2>1. PICK k \in Nat : k = call.k BY <1>2
  <2>2. PICK a \in Int : a = s * m BY <1>2, SMTT(30)
  <2>3. PICK e \in Int : e = s * k BY SMTT(30)
  <2>4. q \in Int BY <1>2
  <2>5. (a + i) * k = a * k + i * k BY <1>3, SMTT(30)
  <2>6. a * k \in Int /\ i * k \in Int BY <1>3, SMTT(30)
  <2>7. (a + i) * k + q - 1 = a * k + i * k + (0 + q - 1)
    <3> DEFINE f == (a + i) * k  g == a * k  h == i * k
    <3>1. f = g + h /\ g \in Int /\ h \in Int BY <2>5, <2>6
    <3> HIDE DEF f, g, h
    <3>2. f + q - 1 = g + h + (0 + q - 1) BY <3>1, <2>4
    <3> QED BY <3>2 DEF f, g, h
  <2>8. (e + q - 1) * n + j = e * n + (0 + q - 1) * n + j
    <3>1. PICK p \in Int : p = q - 1 /\ p = 0 + q - 1 BY <2>4
    <3>2. e + q - 1 = e + p BY <3>1, <2>4
    <3>3. (e + p) * n = e * n + p * n BY <1>2, SMTT(30)
    <3> QED BY <3>1, <3>2, <3>3
  <2> QED BY <2>1, <2>2, <2>3, <2>7, <2>8
<1>12. Part(s, i, j, 0, call.k)
         = [q \in 1 .. call.k |-> <<s * m * call.k + i * call.k + (0 + q - 1),
                                  s * call.k * n + (0 + q - 1) * n + j>>]
  <2>1. call.k - 0 = call.k BY <1>2
  <2> QED BY <1>1, <2>1 DEF Part
<1> QED BY <1>4, <1>10, <1>11, <1>12
-----------------------------------------------------------------------------
(* Who writes what.                                                        *)

\* D differs from C in the rows of thread w only.
OnlyRowsOf(w, D) ==
    /\ DOMAIN D = DOMAIN C
    /\ \A s \in 0 .. call.b - 1, i \in AllRows, j \in Cols :
          s # slice \/ ~InRange(i, job[w].r0, End(w)) => D[Cell(s, i, j)] = C[Cell(s, i, j)]

\* A thread that works on rows of a product.
HasRows(w) ==
    /\ Sizes /\ DOMAIN C = 0 .. call.b * call.m * call.n - 1
    /\ slice \in 0 .. call.b - 1
    /\ job[w].r0 \in Nat /\ job[w].rows \in Nat /\ End(w) <= call.m

LEMMA CellsOfThread ==
  ASSUME NEW w \in Threads, HasRows(w), NEW i \in Rows(w), NEW j \in Cols
  PROVE  /\ job[w].r0 + i \in AllRows /\ InRange(job[w].r0 + i, job[w].r0, End(w))
         /\ CAt(w, i, j) = Cell(slice, job[w].r0 + i, j)
         /\ CAt(w, i, j) \in DOMAIN C
<1>1. job[w].r0 \in Nat /\ job[w].rows \in Nat /\ call.m \in Nat /\ End(w) <= call.m
  BY DEF HasRows, Sizes, Positive
<1>2. job[w].r0 + i \in AllRows /\ InRange(job[w].r0 + i, job[w].r0, End(w))
  BY <1>1 DEF Rows, AllRows, InRange, End
<1>3. CAt(w, i, j) = Cell(slice, job[w].r0 + i, j) BY DEF CAt, Cell
<1> QED BY <1>2, <1>3, CellInside DEF HasRows

\* The cells that Stored finds sums for, with the sums.
Stores(w, sums) == {<<CAt(w, e[1], e[2]), sums[e]>> : e \in DOMAIN sums}
FoundFor(w, sums, c) == CHOOSE x \in Stores(w, sums) : x[1] = c

LEMMA StoresAre ==
  ASSUME NEW w \in Threads, HasRows(w), NEW sums, DOMAIN sums \subseteq Rows(w) \X Cols
  PROVE  /\ \A x \in Stores(w, sums) : x[1] \in DOMAIN C
         /\ \A s \in 0 .. call.b - 1, i \in AllRows, j \in Cols :
               s # slice \/ ~InRange(i, job[w].r0, End(w)) =>
                  ~\E x \in Stores(w, sums) : x[1] = Cell(s, i, j)
         /\ \A i \in Rows(w), j \in Cols :
               /\ (\E x \in Stores(w, sums) : x[1] = CAt(w, i, j)) <=> <<i, j>> \in DOMAIN sums
               /\ <<i, j>> \in DOMAIN sums =>
                     FoundFor(w, sums, CAt(w, i, j))[2] = sums[<<i, j>>]
<1> DEFINE at == Stores(w, sums)
<1>2. ASSUME NEW x \in at
      PROVE  \E i \in Rows(w), j \in Cols :
                <<i, j>> \in DOMAIN sums /\ x[1] = CAt(w, i, j) /\ x[2] = sums[<<i, j>>]
  <2>1. PICK e \in DOMAIN sums : x = <<CAt(w, e[1], e[2]), sums[e]>> BY DEF Stores
  <2>2. PICK i \in Rows(w), j \in Cols : e = <<i, j>> OBVIOUS
  <2> QED BY <2>1, <2>2
<1>3. ASSUME NEW i \in Rows(w), NEW j \in Cols, <<i, j>> \in DOMAIN sums
      PROVE  <<CAt(w, i, j), sums[<<i, j>>]>> \in at
  <2>1. <<i, j>>[1] = i /\ <<i, j>>[2] = j OBVIOUS
  <2> QED BY <1>3, <2>1 DEF Stores
<1> HIDE DEF at
<1>4. \A x \in at : x[1] \in DOMAIN C BY <1>2, CellsOfThread
<1>6. Sizes /\ slice \in Int /\ slice \in 0 .. call.b - 1 BY DEF HasRows
<1>7. ASSUME NEW s \in 0 .. call.b - 1, NEW i \in AllRows, NEW j \in Cols,
             NEW x \in at, x[1] = Cell(s, i, j)
      PROVE  /\ s = slice /\ InRange(i, job[w].r0, End(w))
             /\ \E k \in Rows(w) :
                   i = job[w].r0 + k /\ <<k, j>> \in DOMAIN sums /\ x[2] = sums[<<k, j>>]
  <2>1. PICK k \in Rows(w), l \in Cols :
          <<k, l>> \in DOMAIN sums /\ x[1] = CAt(w, k, l) /\ x[2] = sums[<<k, l>>]
    BY <1>2
  <2>2. /\ job[w].r0 + k \in AllRows /\ InRange(job[w].r0 + k, job[w].r0, End(w))
        /\ CAt(w, k, l) = Cell(slice, job[w].r0 + k, l)
    BY CellsOfThread
  <2>3. Cell(slice, job[w].r0 + k, l) = Cell(s, i, j) BY <1>7, <2>1, <2>2
  <2>4. s \in Int OBVIOUS
  <2>5. slice = s /\ job[w].r0 + k = i /\ l = j BY <1>6, <2>2, <2>3, <2>4, CellsDiffer
  <2> QED BY <2>1, <2>2, <2>5
<1>8. ASSUME NEW s \in 0 .. call.b - 1, NEW i \in AllRows, NEW j \in Cols,
             s # slice \/ ~InRange(i, job[w].r0, End(w))
      PROVE  ~\E x \in at : x[1] = Cell(s, i, j)
  BY <1>7, <1>8
<1>9. ASSUME NEW i \in Rows(w), NEW j \in Cols
      PROVE  /\ (\E x \in at : x[1] = CAt(w, i, j)) <=> <<i, j>> \in DOMAIN sums
             /\ <<i, j>> \in DOMAIN sums =>
                  (CHOOSE x \in at : x[1] = CAt(w, i, j))[2] = sums[<<i, j>>]
  <2> DEFINE c == CAt(w, i, j)
  <2>1. /\ job[w].r0 + i \in AllRows /\ c = Cell(slice, job[w].r0 + i, j)
    BY CellsOfThread
  <2>2. ASSUME NEW x \in at, x[1] = c
        PROVE  <<i, j>> \in DOMAIN sums /\ x[2] = sums[<<i, j>>]
    <3>1. x[1] = Cell(slice, job[w].r0 + i, j) BY <2>1, <2>2
    <3>2. PICK k \in Rows(w) : /\ job[w].r0 + i = job[w].r0 + k
                               /\ <<k, j>> \in DOMAIN sums /\ x[2] = sums[<<k, j>>]
      BY <1>6, <1>7, <2>1, <3>1
    <3>3. job[w].r0 \in Nat /\ job[w].rows \in Nat BY DEF HasRows
    <3>4. i = k BY <3>2, <3>3 DEF Rows
    <3> QED BY <3>2, <3>4
  <2> HIDE DEF c
  <2>3. <<i, j>> \in DOMAIN sums => <<c, sums[<<i, j>>]>> \in at BY <1>3 DEF c
  <2>4. (\E x \in at : x[1] = c) <=> <<i, j>> \in DOMAIN sums BY <2>2, <2>3
  <2>5. (\E x \in at : x[1] = c) => (CHOOSE x \in at : x[1] = c) \in at
                                  /\ (CHOOSE x \in at : x[1] = c)[1] = c
    OBVIOUS
  <2>6. <<i, j>> \in DOMAIN sums => (CHOOSE x \in at : x[1] = c)[2] = sums[<<i, j>>]
    BY <2>2, <2>4, <2>5
  <2> QED BY <2>4, <2>6 DEF c
<1> QED BY <1>4, <1>8, <1>9 DEF FoundFor, at

LEMMA StoredElsewhere ==
  ASSUME NEW w \in Threads, HasRows(w), NEW fresh, NEW sums,
         DOMAIN sums \subseteq Rows(w) \X Cols
  PROVE  OnlyRowsOf(w, Stored(w, fresh, sums))
<1>1. DOMAIN C \cup {x[1] : x \in Stores(w, sums)} = DOMAIN C BY StoresAre
<1>2. /\ DOMAIN Stored(w, fresh, sums) = DOMAIN C
      /\ \A c \in DOMAIN C : ~(\E x \in Stores(w, sums) : x[1] = c) =>
            Stored(w, fresh, sums)[c] = C[c]
  BY <1>1 DEF Stored, Stores
<1> SUFFICES ASSUME NEW s \in 0 .. call.b - 1, NEW i \in AllRows, NEW j \in Cols,
                    s # slice \/ ~InRange(i, job[w].r0, End(w))
             PROVE  Stored(w, fresh, sums)[Cell(s, i, j)] = C[Cell(s, i, j)]
  BY <1>2 DEF OnlyRowsOf
<1>3. ~\E x \in Stores(w, sums) : x[1] = Cell(s, i, j) BY StoresAre
<1>4. Cell(s, i, j) \in DOMAIN C BY CellInside DEF HasRows
<1> QED BY <1>2, <1>3, <1>4

LEMMA NotStored ==
  ASSUME NEW w \in Threads, HasRows(w), NEW sums, NEW i \in Rows(w), NEW j \in Cols,
         DOMAIN sums \subseteq Rows(w) \X Cols, <<i, j>> \notin DOMAIN sums
  PROVE  /\ Stored(w, TRUE, sums)[CAt(w, i, j)] = C[CAt(w, i, j)]
         /\ Stored(w, FALSE, sums)[CAt(w, i, j)] = C[CAt(w, i, j)]
<1> DEFINE c == CAt(w, i, j)
<1>1. c \in DOMAIN C BY CellsOfThread
<1>2. ~\E x \in Stores(w, sums) : x[1] = c BY StoresAre
<1> HIDE DEF c
<1>3. Stored(w, TRUE, sums)[c] = C[c] BY <1>1, <1>2 DEF Stored, Stores
<1>4. Stored(w, FALSE, sums)[c] = C[c] BY <1>1, <1>2 DEF Stored, Stores
<1> QED BY <1>3, <1>4 DEF c

LEMMA StoredAfresh ==
  ASSUME NEW w \in Threads, HasRows(w), NEW sums, NEW i \in Rows(w), NEW j \in Cols,
         DOMAIN sums \subseteq Rows(w) \X Cols, <<i, j>> \in DOMAIN sums
  PROVE  Stored(w, TRUE, sums)[CAt(w, i, j)] = <<sums[<<i, j>>]>>
<1> DEFINE c == CAt(w, i, j)
<1>1. c \in DOMAIN C BY CellsOfThread
<1>2. (\E x \in Stores(w, sums) : x[1] = c) /\ FoundFor(w, sums, c)[2] = sums[<<i, j>>]
  BY StoresAre
<1> HIDE DEF c
<1>3. Stored(w, TRUE, sums)[c] = <<FoundFor(w, sums, c)[2]>>
  BY <1>1, <1>2 DEF Stored, Stores, FoundFor
<1> QED BY <1>2, <1>3 DEF c

LEMMA StoredAdded ==
  ASSUME NEW w \in Threads, HasRows(w), NEW sums, NEW i \in Rows(w), NEW j \in Cols,
         DOMAIN sums \subseteq Rows(w) \X Cols, <<i, j>> \in DOMAIN sums
  PROVE  Stored(w, FALSE, sums)[CAt(w, i, j)] = Append(C[CAt(w, i, j)], sums[<<i, j>>])
<1> DEFINE c == CAt(w, i, j)
<1>1. c \in DOMAIN C BY CellsOfThread
<1>2. (\E x \in Stores(w, sums) : x[1] = c) /\ FoundFor(w, sums, c)[2] = sums[<<i, j>>]
  BY StoresAre
<1> HIDE DEF c
<1>3. Stored(w, FALSE, sums)[c] = Append(C[c], FoundFor(w, sums, c)[2])
  BY <1>1, <1>2 DEF Stored, Stores, FoundFor
<1> QED BY <1>2, <1>3 DEF c

\* The tiled part of the rows is a part of them.
LEMMA WholePart ==
  ASSUME NEW x \in Nat
  PROVE  Whole(x, Tile) \in Nat /\ Whole(x, Tile) <= x /\ Whole(x, Tile) % Tile = 0
<1>1. Tile \in Positive /\ Tile \in Nat BY GemmAssumption DEF Positive
<1>2. PICK p \in Nat, r \in 0 .. Tile - 1 : p = x \div Tile /\ x = p * Tile + r
  <2>1. x \in Int OBVIOUS
  <2>2. /\ x \div Tile \in Nat /\ x % Tile \in 0 .. Tile - 1
        /\ x = (x \div Tile) * Tile + (x % Tile)
    BY <1>1, <2>1, Division, Zenon
  <2> QED BY <2>2, Zenon
<1>3. p * Tile \in Nat BY <1>1, SMTT(30)
<1>4. (p * Tile) % Tile = 0
  <2>1. 0 \in 0 .. Tile - 1 BY <1>1 DEF Positive
  <2>2. (p * Tile + 0) % Tile = 0 BY <1>1, <2>1, DivisionIs
  <2>3. p * Tile + 0 = p * Tile BY <1>3
  <2> QED BY <2>2, <2>3
<1> DEFINE a == p * Tile
<1>5. a \in Nat /\ x = a + r /\ a % Tile = 0 BY <1>2, <1>3, <1>4
<1>6. Whole(x, Tile) = a BY <1>2 DEF Whole
<1> HIDE DEF a
<1>7. a <= x BY <1>1, <1>5
<1> QED BY <1>5, <1>6, <1>7

LEMMA PartOfRows ==
  ASSUME NEW w \in Threads, job[w].rows \in Nat, call.n \in Nat
  PROVE  /\ RowsIn(w) \in Nat /\ RowsIn(w) <= job[w].rows
         /\ ColsIn(w) \in Nat /\ ColsIn(w) <= call.n
BY WholePart DEF RowsIn, ColsIn
-----------------------------------------------------------------------------
(* What a step of one thread leaves alone.                                 *)

LEMMA FinalKept ==
  ASSUME UNCHANGED <<neon, mode, call>>, NEW s, NEW i, NEW j,
         C'[Cell(s, i, j)] = C[Cell(s, i, j)], Final(s, i, j)
  PROVE  Final(s, i, j)'
<1>1. Cell(s, i, j)' = Cell(s, i, j) BY DEF Cell
<1>2. TheKernel' = TheKernel BY DEF TheKernel, KernelOf, Route
<1>3. Depths' = Depths BY <1>2 DEF Depths, Depth
<1>4. \A lo, hi : Part(s, i, j, lo, hi)' = Part(s, i, j, lo, hi) BY DEF Part
<1>5. \A d, x : Blocks(s, i, j, d, x)' = Blocks(s, i, j, d, x) BY DEF Blocks, Part
<1> QED BY <1>1, <1>2, <1>3, <1>4, <1>5 DEF Final

LEMMA ProgressKept ==
  ASSUME UNCHANGED <<neon, mode, call, slice>>, NEW u \in Threads,
         job'[u] = job[u], buf'[u] = buf[u], Sizes, job[u].rows \in Nat,
         \A i \in Rows(u), j \in Cols : C'[CAt(u, i, j)] = C[CAt(u, i, j)],
         Progress(u)
  PROVE  Progress(u)'
<1>1. /\ RowsIn(u)' = RowsIn(u) /\ ColsIn(u)' = ColsIn(u) /\ BlockOf(u)' = BlockOf(u)
      /\ TileOf(u)' = TileOf(u)
  BY DEF RowsIn, ColsIn, BlockOf, TileOf
<1>2. Mc(u)' = Mc(u) /\ Nc(u)' = Nc(u) /\ Kc(u)' = Kc(u) BY <1>1 DEF Mc, Nc, Kc
<1>3. \A i, k : PanelAt(u, i, k)' = PanelAt(u, i, k) BY <1>1, <1>2 DEF PanelAt
<1>4. \A i, j : Count(u, i, j)' = Count(u, i, j) BY <1>1 DEF Count
<1>5. \A i, j : /\ CAt(u, i, j)' = CAt(u, i, j) /\ AAt(u, i, j)' = AAt(u, i, j)
                /\ BAt(i, j)' = BAt(i, j)
  BY DEF CAt, AAt, BAt
<1>6. \A s, i, j, d, x : Blocks(s, i, j, d, x)' = Blocks(s, i, j, d, x) BY DEF Blocks, Part
<1>7. \A i \in 0 .. RowsIn(u) - 1, j \in 0 .. ColsIn(u) - 1 :
         C'[CAt(u, i, j)] = C[CAt(u, i, j)]
  <2>1. call.n \in Nat BY DEF Sizes, Positive
  <2>2. \A i \in 0 .. RowsIn(u) - 1 : i \in Rows(u) BY <2>1, PartOfRows DEF Rows
  <2>3. \A j \in 0 .. ColsIn(u) - 1 : j \in Cols BY <2>1, PartOfRows DEF Cols
  <2> QED BY <2>2, <2>3
<1>8. InTheLoops(u) => InTheLoops(u)'
  <2> SUFFICES ASSUME InTheLoops(u) PROVE InTheLoops(u)' OBVIOUS
  <2>1. \A i \in 0 .. RowsIn(u) - 1, j \in 0 .. ColsIn(u) - 1 :
          C'[CAt(u, i, j)] = Blocks(slice, job[u].r0 + i, j, BlockOf(u).k, Count(u, i, j))
    BY <1>7 DEF InTheLoops
  <2>2. \A i \in (0 .. RowsIn(u) - 1)', j \in (0 .. ColsIn(u) - 1)' :
          C'[CAt(u, i, j)'] = Blocks(slice, job[u].r0 + i, j, BlockOf(u).k, Count(u, i, j))'
    BY <2>1, <1>1, <1>4, <1>5, <1>6
  <2> QED BY <2>2, <1>1 DEF InTheLoops
<1>9. WholeTilesDone(u) => WholeTilesDone(u)'
  <2> SUFFICES ASSUME WholeTilesDone(u) PROVE WholeTilesDone(u)' OBVIOUS
  <2>1. \A i \in 0 .. RowsIn(u) - 1, j \in 0 .. ColsIn(u) - 1 :
          C'[CAt(u, i, j)] = Blocks(slice, job[u].r0 + i, j, BlockOf(u).k,
                                    CeilDiv(call.k, BlockOf(u).k))
    BY <1>7 DEF WholeTilesDone
  <2>2. \A i \in (0 .. RowsIn(u) - 1)', j \in (0 .. ColsIn(u) - 1)' :
          C'[CAt(u, i, j)'] = Blocks(slice, job[u].r0 + i, j, BlockOf(u).k,
                                    CeilDiv(call.k, BlockOf(u).k))'
    BY <2>1, <1>1, <1>5, <1>6
  <2> QED BY <2>2 DEF WholeTilesDone
<1>10. PanelBHolds(u) => PanelBHolds(u)' BY <1>2, <1>3, <1>5 DEF PanelBHolds
<1>11. PanelAHolds(u) => PanelAHolds(u)' BY <1>2, <1>3, <1>5 DEF PanelAHolds
<1> QED BY <1>8, <1>9, <1>10, <1>11 DEF Progress
\* What the invariants say of a thread that works.
LEMMA Worker ==
  ASSUME PackInv, GemmInv, OnHost, NEW w \in Threads, Works(w)
  PROVE  /\ phase = "running" /\ CallTyped /\ IsProduct /\ Settled /\ SliceInv
         /\ job[w] \in JobType /\ DOMAIN job = Threads /\ DOMAIN buf = Threads
         /\ slice \in 0 .. call.b - 1 /\ \A s \in 0 .. slice - 1 : SliceFinal(s)
         /\ HasRows(w) /\ job[w].kernel = TheKernel /\ Progress(w)
<1>1. job[w] # Idle BY DEF Works, Idle
<1>2. phase = "running" /\ CallTyped BY <1>1 DEF PackInv, Typed
<1>3. /\ IsProduct /\ Settled /\ SliceInv
      /\ slice \in 0 .. call.b - 1 /\ \A s \in 0 .. slice - 1 : SliceFinal(s)
  BY <1>2 DEF GemmInv
<1>4. job[w] \in JobType /\ DOMAIN job = Threads /\ DOMAIN buf = Threads
  BY <1>1 DEF PackInv, Typed
<1>5. 0 <= job[w].r0 /\ End(w) <= call.m BY <1>3 DEF SliceInv, RangesApart
<1>6. HasRows(w)
  <2>1. job[w].r0 \in Int /\ job[w].rows \in Nat BY <1>4 DEF JobType
  <2>2. Sizes BY <1>2, <1>3 DEF CallTyped, IsProduct, Sizes
  <2>3. job[w].r0 \in Nat BY <2>1, <1>5
  <2> QED BY <1>3, <1>5, <2>1, <2>2, <2>3 DEF HasRows, IsProduct
<1>7. job[w].kernel = TheKernel /\ Progress(w) BY <1>3 DEF SliceInv
<1> QED BY <1>2, <1>3, <1>4, <1>6, <1>7

\* A step of one thread that writes its own rows only, and leaves them right.
LEMMA WorkStep ==
  ASSUME PackInv, GemmInv, OnHost, NEW w \in Threads, Works(w),
         UNCHANGED <<backend, neon, mode, phase, call, slice, todo>>,
         NEW J, job' = [job EXCEPT ![w] = J],
         \/ J = Idle
         \/ /\ J.at # "idle" /\ J.kernel = job[w].kernel
            /\ J.r0 = job[w].r0 /\ J.rows = job[w].rows,
         OnlyRowsOf(w, C'),
         \A u \in Threads : u # w => buf'[u] = buf[u],
         J = Idle => \A i \in AllRows, j \in Cols :
                        InRange(i, job[w].r0, End(w)) => Final(slice, i, j)',
         J # Idle => Progress(w)' /\ J.kernel # "reorder"
  PROVE  GemmInv'
<1>1. /\ phase = "running" /\ CallTyped /\ IsProduct /\ Settled /\ SliceInv
      /\ job[w] \in JobType /\ DOMAIN job = Threads /\ DOMAIN buf = Threads
      /\ slice \in 0 .. call.b - 1 /\ \A s \in 0 .. slice - 1 : SliceFinal(s)
      /\ HasRows(w) /\ job[w].kernel = TheKernel
  BY Worker
<1>2. Sizes /\ DOMAIN C' = DOMAIN C BY <1>1 DEF HasRows, OnlyRowsOf
<1>3. OnHost' /\ phase' = "running" BY <1>1 DEF OnHost
<1>4. IsProduct' /\ Settled' BY <1>1, <1>2 DEF IsProduct, Settled, IsGemm
<1>5. ASSUME NEW s \in 0 .. call.b - 1, NEW i \in AllRows, NEW j \in Cols,
             s # slice \/ ~InRange(i, job[w].r0, End(w)), Final(s, i, j)
      PROVE  Final(s, i, j)'
  <2>1. C'[Cell(s, i, j)] = C[Cell(s, i, j)] BY <1>5 DEF OnlyRowsOf
  <2> QED BY <1>5, <2>1, FinalKept
<1>6. AllRows' = AllRows /\ Cols' = Cols BY DEF AllRows, Cols
<1>7. \A s \in 0 .. slice - 1 : SliceFinal(s)'
  <2> SUFFICES ASSUME NEW s \in 0 .. slice - 1, NEW i \in AllRows, NEW j \in Cols
               PROVE  Final(s, i, j)'
    BY <1>6 DEF SliceFinal
  <2>1. Final(s, i, j) BY <1>1 DEF SliceFinal
  <2>2. call.b \in Nat /\ slice \in Nat /\ slice < call.b
    BY <1>1, <1>2 DEF Sizes, Positive
  <2>3. s \in 0 .. call.b - 1 /\ s # slice BY <2>2
  <2> QED BY <1>5, <2>1, <2>3
<1>8. \A u \in Threads : u # w => job'[u] = job[u] BY <1>1
<1>9. job'[w] = J BY <1>1
<1>10. \A u \in Threads :
          /\ Works(u)' => Works(u)
          /\ Works(u)' => job'[u].r0 = job[u].r0 /\ End(u)' = End(u)
                          /\ job'[u].kernel = job[u].kernel /\ job'[u].rows = job[u].rows
  BY <1>8, <1>9 DEF Works, Idle, End
<1>11. RangesApart' BY <1>1, <1>10 DEF RangesApart, SliceInv
<1>12. (todo # <<>> => Route(mode) = "threaded")' BY <1>1 DEF SliceInv, Route
<1>13. TheKernel' = TheKernel BY DEF TheKernel, KernelOf, Route
<1>14. ASSUME NEW u \in Threads, Works(u)'
       PROVE  /\ job'[u].kernel = TheKernel'
              /\ job'[u].kernel = "reorder" => job'[u].r0 = 0 /\ job'[u].rows = call'.m
              /\ Progress(u)'
  <2>1. Works(u) BY <1>10, <1>14
  <2>2. /\ job[u].kernel = TheKernel /\ job[u] \in JobType /\ HasRows(u) /\ Progress(u)
        /\ job[u].kernel = "reorder" => job[u].r0 = 0 /\ job[u].rows = call.m
    BY <2>1, <1>1, Worker DEF SliceInv
  <2>3. CASE u = w
    <3>1. J # Idle BY <1>9, <1>14, <2>3 DEF Works, Idle
    <3> QED BY <1>9, <1>10, <1>13, <1>14, <2>2, <2>3, <3>1
  <2>4. CASE u # w
    <3>1. End(u) <= job[w].r0 \/ End(w) <= job[u].r0
      BY <1>1, <2>1, <2>4 DEF SliceInv, RangesApart
    <3>2. \A i \in Rows(u), j \in Cols : C'[CAt(u, i, j)] = C[CAt(u, i, j)]
      <4> SUFFICES ASSUME NEW i \in Rows(u), NEW j \in Cols
                   PROVE  C'[CAt(u, i, j)] = C[CAt(u, i, j)]
        OBVIOUS
      <4>1. /\ job[u].r0 + i \in AllRows /\ InRange(job[u].r0 + i, job[u].r0, End(u))
            /\ CAt(u, i, j) = Cell(slice, job[u].r0 + i, j)
        BY <2>2, CellsOfThread
      <4>2. /\ job[u].r0 \in Nat /\ job[w].r0 \in Nat /\ job[u].rows \in Nat
            /\ job[w].rows \in Nat
        BY <1>1, <2>2 DEF HasRows
      <4>3. ~InRange(job[u].r0 + i, job[w].r0, End(w))
        BY <3>1, <4>1, <4>2 DEF InRange, End, Rows
      <4> QED BY <1>1, <4>1, <4>3 DEF OnlyRowsOf
    <3>3. job[u].rows \in Nat BY <2>2 DEF HasRows
    <3>4. Progress(u)' BY <1>2, <1>8, <2>2, <2>4, <3>2, <3>3, ProgressKept
    <3> QED BY <1>8, <1>13, <2>2, <2>4, <3>4
  <2> QED BY <2>3, <2>4
<1>15. \A i \in AllRows : Waits(i)' \/ \A j \in Cols : Final(slice, i, j)'
  <2> SUFFICES ASSUME NEW i \in AllRows, ~Waits(i)', NEW j \in Cols
               PROVE  Final(slice, i, j)'
    OBVIOUS
  <2>1. CASE InRange(i, job[w].r0, End(w))
    <3>1. J = Idle
      <4>1. SUFFICES ASSUME J # Idle PROVE Waits(i)' OBVIOUS
      <4>2. Works(w)' BY <1>9, <4>1 DEF Works
      <4>3. InRange(i, job'[w].r0, End(w)') BY <1>10, <2>1, <4>2
      <4> QED BY <4>2, <4>3 DEF Waits, InRange
    <3> QED BY <2>1, <3>1
  <2>2. CASE ~InRange(i, job[w].r0, End(w))
    <3>1. ~Waits(i)
      <4>1. \A x \in DOMAIN todo : ~InRange(i, todo[x][1], todo[x][2])
        BY DEF Waits, InRange
      <4>2. ASSUME NEW u \in Threads, Works(u), InRange(i, job[u].r0, End(u)) PROVE FALSE
        <5>1. u # w BY <2>2, <4>2
        <5>2. job'[u] = job[u] BY <5>1, <1>8
        <5> QED BY <4>2, <5>2 DEF Waits, Works, InRange, End
      <4> QED BY <4>1, <4>2 DEF Waits
    <3>2. Final(slice, i, j) BY <1>1, <3>1 DEF SliceInv
    <3> QED BY <1>1, <1>5, <2>2, <3>2
  <2> QED BY <2>1, <2>2
<1>16. SliceInv'
  <2>1. \A i \in AllRows' : Waits(i)' \/ \A j \in Cols' : Final(slice, i, j)'
    BY <1>6, <1>15
  <2> QED BY <1>11, <1>12, <1>14, <2>1 DEF SliceInv
<1> QED BY <1>1, <1>3, <1>4, <1>7, <1>16 DEF GemmInv
-----------------------------------------------------------------------------
(* The kernels without blocks.                                             *)

LEMMA DotIsPart ==
  ASSUME NEW w, NEW i, NEW j, NEW lo, NEW hi
  PROVE  Dot(w, i, j, lo, hi) = Part(slice, job[w].r0 + i, j, lo, hi)
BY DEF Dot, Part, AAt, BAt

LEMMA RowOfThread ==
  ASSUME NEW w \in Threads, HasRows(w), NEW i \in AllRows, InRange(i, job[w].r0, End(w))
  PROVE  \E k \in Rows(w) : i = job[w].r0 + k
<1>1. job[w].r0 \in Nat /\ job[w].rows \in Nat /\ i \in Int
  BY DEF HasRows, AllRows
<1>2. i - job[w].r0 \in Rows(w) /\ i = job[w].r0 + (i - job[w].r0)
  BY <1>1 DEF InRange, End, Rows
<1> QED BY <1>2

\* A row that a kernel has finished is final, if each of its cells is.
LEMMA FinishedRows ==
  ASSUME NEW w \in Threads, HasRows(w), UNCHANGED <<call, slice, neon, mode>>,
         \A k \in Rows(w), j \in Cols :
            \/ TheKernel \notin Packers
               /\ C'[CAt(w, k, j)] = <<Part(slice, job[w].r0 + k, j, 0, call.k)>>
            \/ \E d \in Depths :
                  C'[CAt(w, k, j)] = Blocks(slice, job[w].r0 + k, j, d, CeilDiv(call.k, d))
  PROVE  \A i \in AllRows, j \in Cols :
            InRange(i, job[w].r0, End(w)) => Final(slice, i, j)'
<1> SUFFICES ASSUME NEW i \in AllRows, NEW j \in Cols, InRange(i, job[w].r0, End(w))
             PROVE  Final(slice, i, j)'
  OBVIOUS
<1>1. PICK k \in Rows(w) : i = job[w].r0 + k BY RowOfThread
<1>2. CAt(w, k, j) = Cell(slice, i, j) BY <1>1, CellsOfThread
<1>3. Cell(slice, i, j)' = Cell(slice, i, j) BY DEF Cell
<1>4. TheKernel' = TheKernel BY DEF TheKernel, KernelOf, Route
<1>5. Depths' = Depths BY <1>4 DEF Depths, Depth
<1>6. \A lo, hi : Part(slice, i, j, lo, hi)' = Part(slice, i, j, lo, hi) BY DEF Part
<1>7. \A d, x : Blocks(slice, i, j, d, x)' = Blocks(slice, i, j, d, x) BY DEF Blocks, Part
<1>8. \/ TheKernel \notin Packers /\ C'[Cell(slice, i, j)] = <<Part(slice, i, j, 0, call.k)>>
      \/ \E d \in Depths : C'[Cell(slice, i, j)] = Blocks(slice, i, j, d, CeilDiv(call.k, d))
  BY <1>1, <1>2
<1> QED BY <1>3, <1>4, <1>5, <1>6, <1>7, <1>8 DEF Final

LEMMA RegisterStep ==
  ASSUME PackInv, GemmInv, OnHost, backend' = backend, NEW w \in Threads, RunInRegisters(w)
  PROVE  GemmInv'
<1>1. /\ job[w].at = "start" /\ job[w].kernel \in {"naive", "register"} /\ Works(w)
      /\ C' = Stored(w, TRUE, FullDots(w, Rows(w) \X Cols))
      /\ job' = [job EXCEPT ![w] = Idle]
      /\ UNCHANGED <<neon, mode, phase, call, slice, todo, buf>>
  BY DEF RunInRegisters, At, Finish, Works
<1>2. HasRows(w) /\ job[w].kernel = TheKernel BY <1>1, Worker
<1>3. DOMAIN FullDots(w, Rows(w) \X Cols) = Rows(w) \X Cols BY DEF FullDots
<1>4. OnlyRowsOf(w, C')
  <2>1. OnlyRowsOf(w, Stored(w, TRUE, FullDots(w, Rows(w) \X Cols)))
    BY <1>2, <1>3, StoredElsewhere
  <2> QED BY <1>1, <2>1, Zenon
<1>5. \A i \in Rows(w), j \in Cols : C'[CAt(w, i, j)] = <<FullDots(w, Rows(w) \X Cols)[<<i, j>>]>>
  <2>1. ASSUME NEW i \in Rows(w), NEW j \in Cols
        PROVE  Stored(w, TRUE, FullDots(w, Rows(w) \X Cols))[CAt(w, i, j)]
                 = <<FullDots(w, Rows(w) \X Cols)[<<i, j>>]>>
    BY <1>2, <1>3, StoredAfresh
  <2> QED BY <1>1, <2>1
<1>6. ASSUME NEW i \in Rows(w), NEW j \in Cols
      PROVE  C'[CAt(w, i, j)] = <<Part(slice, job[w].r0 + i, j, 0, call.k)>>
  <2>1. FullDots(w, Rows(w) \X Cols)[<<i, j>>] = Dot(w, i, j, 0, call.k) BY DEF FullDots
  <2> QED BY <1>5, <2>1, DotIsPart
<1>7. TheKernel \notin Packers BY <1>1, <1>2 DEF Packers
<1>8. \A i \in AllRows, j \in Cols : InRange(i, job[w].r0, End(w)) => Final(slice, i, j)'
  BY <1>1, <1>2, <1>6, <1>7, FinishedRows
<1> QED BY <1>1, <1>4, <1>8, WorkStep

LEMMA ReorderedStep ==
  ASSUME PackInv, GemmInv, OnHost, backend' = backend, NEW w \in Threads, RunReordered(w)
  PROVE  GemmInv'
<1>1. /\ job[w].at = "start" /\ job[w].kernel = "reorder" /\ Works(w)
      /\ job' = [job EXCEPT ![w] = Idle]
      /\ UNCHANGED <<neon, mode, phase, call, slice, todo, buf>>
  BY DEF RunReordered, At, Finish, Works
<1>2. C' = [c \in DOMAIN C |->
              [k \in 1 .. call.k |-> Dot(w, c \div call.n, c % call.n, k - 1, k)]]
  BY DEF RunReordered
<1>3. HasRows(w) /\ job[w].kernel = TheKernel /\ IsProduct /\ slice \in 0 .. call.b - 1
      /\ SliceInv
  BY <1>1, Worker
<1>4. Sizes /\ call.k \in Nat /\ call.n \in Positive BY <1>3 DEF HasRows, Sizes
<1>5. job[w].r0 = 0 /\ job[w].rows = call.m BY <1>1, <1>3 DEF SliceInv
<1>6. slice = 0 /\ call.b = 1
  <2>1. TheKernel = "reorder" BY <1>1, <1>3
  <2>2. call.v = "reorder" BY <2>1 DEF TheKernel, KernelOf, Route
  <2>3. ~(call.b > 1) BY <1>3, <2>2 DEF IsProduct
  <2> QED BY <1>3, <1>4, <2>3 DEF Sizes, Positive
<1>7. ASSUME NEW i \in Rows(w), NEW j \in Cols
      PROVE  C'[CAt(w, i, j)] = Blocks(slice, job[w].r0 + i, j, 1, CeilDiv(call.k, 1))
  <2>1. CAt(w, i, j) \in DOMAIN C /\ CAt(w, i, j) = Cell(slice, 0 + i, j)
    BY <1>3, <1>5, CellsOfThread
  <2>2. /\ call.n \in Nat /\ call.m \in Nat /\ i \in Int /\ j \in 0 .. call.n - 1
        /\ j \in Int
    BY <1>4, <1>5 DEF Sizes, Positive, Rows, Cols
  <2>3. CAt(w, i, j) = i * call.n + j
    <3>1. Cell(0, i, j) = (0 * call.m + i) * call.n + j BY <1>4, <2>2, CellIs
    <3>2. 0 * call.m + i = i BY <2>2, SMTT(30)
    <3>3. 0 + i = i BY <2>2
    <3> QED BY <1>6, <2>1, <3>1, <3>2, <3>3
  <2>4. CAt(w, i, j) \div call.n = i /\ CAt(w, i, j) % call.n = j
    BY <1>4, <2>2, <2>3, DivisionIs
  <2>5. C'[CAt(w, i, j)] = [k \in 1 .. call.k |-> Dot(w, i, j, k - 1, k)]
    BY <1>2, <2>1, <2>4
  <2>6. CeilDiv(call.k, 1) = call.k
    <3>1. 1 \in Positive /\ call.k \in Int /\ 0 \in 0 .. 1 - 1 BY <1>4 DEF Positive
    <3>2. (call.k * 1 + 0) \div 1 = call.k BY <3>1, DivisionIs
    <3>3. call.k * 1 + 0 = call.k + 1 - 1 BY <1>4, SMTT(30)
    <3> QED BY <3>2, <3>3 DEF CeilDiv
  <2>7. ASSUME NEW q \in 1 .. call.k
        PROVE  Dot(w, i, j, q - 1, q)
                 = Part(slice, job[w].r0 + i, j, (q - 1) * 1, Least(q * 1, call.k))
    <3>1. q \in Int /\ q <= call.k BY <1>4
    <3>2. (q - 1) * 1 = q - 1 /\ q * 1 = q BY <3>1, SMTT(30)
    <3>3. Least(q, call.k) = q BY <1>4, <3>1 DEF Least
    <3> QED BY <3>2, <3>3, DotIsPart
  <2> QED BY <2>5, <2>6, <2>7 DEF Blocks
<1>8. 1 \in Depths
  <2>1. TheKernel = "reorder" BY <1>1, <1>3
  <2> QED BY <2>1 DEF Depths, Packers
<1>9. \A i \in AllRows, j \in Cols : InRange(i, job[w].r0, End(w)) => Final(slice, i, j)'
  BY <1>1, <1>3, <1>7, <1>8, FinishedRows
<1>10. OnlyRowsOf(w, C')
  <2>1. DOMAIN C' = DOMAIN C BY <1>2
  <2>2. ASSUME NEW s \in 0 .. call.b - 1, NEW i \in AllRows,
               s # slice \/ ~InRange(i, job[w].r0, End(w))
        PROVE  FALSE
    <3>1. s = 0 BY <1>6
    <3>2. InRange(i, 0, 0 + call.m) BY <1>4 DEF AllRows, InRange, Sizes, Positive
    <3> QED BY <1>5, <1>6, <2>2, <3>1, <3>2 DEF End
  <2> QED BY <2>1, <2>2 DEF OnlyRowsOf
<1> QED BY <1>1, <1>9, <1>10, WorkStep
-----------------------------------------------------------------------------
(* Packing.                                                                *)

\* Element k of row i of a panel of depth kc is at one place of the panel, and
\* what is at that place belongs to no other.
LEMMA PanelIndex ==
  ASSUME NEW t \in Positive, NEW kc \in Positive, NEW extent \in Nat,
         NEW i \in 0 .. extent - 1, NEW k \in 0 .. kc - 1,
         NEW x, x = (i \div t) * kc * t + k * t + (i % t)
  PROVE  /\ x \in 0 .. CeilDiv(extent, t) * t * kc - 1
         /\ ~(x >= CeilDiv(extent, t) * t * kc)
         /\ (x \div (kc * t)) * t + (x % t) = i
         /\ (x % (kc * t)) \div t = k
<1>1. t \in Nat /\ t >= 1 /\ kc \in Nat /\ kc >= 1 BY DEF Positive
<1>2. PICK p \in Nat, r \in 0 .. t - 1 : p = i \div t /\ r = i % t /\ i = p * t + r
  <2>1. i \in Int /\ i \in Nat OBVIOUS
  <2>2. i \div t \in Nat /\ i % t \in 0 .. t - 1 /\ i = (i \div t) * t + (i % t)
    BY <2>1, Division, Zenon
  <2> QED BY <2>2, Zenon
<1>3. PICK d \in Positive : d = kc * t
  <2>1. kc * t \in Nat /\ kc * t # 0
    <3>1. kc * t \in Nat /\ kc * t >= 1 BY <1>1, SMTT(30)
    <3>2. kc * t # 0 BY <3>1
    <3> QED BY <3>1, <3>2
  <2> QED BY <2>1 DEF Positive
<1>4. d \in Nat BY DEF Positive
<1>5. k \in Int /\ r \in Int /\ k * t \in Int BY <1>1, SMTT(30)
<1>6. PICK y \in Int : y = k * t + r BY <1>5
<1>7. y \in 0 .. d - 1
  <2>1. 0 * t <= k * t + r /\ k * t + r < kc * t
    <3>1. 0 <= k /\ k < kc BY <1>1
    <3>2. kc \in Int /\ 0 \in Int BY <1>1
    <3> QED BY <1>5, <3>1, <3>2, Multiples
  <2>2. 0 * t = 0 BY <1>1, SMTT(30)
  <2> QED BY <1>3, <1>4, <1>6, <2>1, <2>2
<1>8. x = p * d + y
  <2>1. p * kc * t = p * (kc * t) BY <1>1, SMTT(30)
  <2>2. x = p * kc * t + k * t + r BY <1>2
  <2>3. p * d \in Int BY <1>4, SMTT(30)
  <2> DEFINE a == p * d  b == k * t
  <2>4. a \in Int /\ b \in Int /\ x = a + b + r /\ y = b + r
    BY <1>3, <1>5, <1>6, <2>1, <2>2, <2>3
  <2> HIDE DEF a, b
  <2>5. x = a + y BY <2>4, <1>5
  <2> QED BY <2>5 DEF a
<1>9. x \div d = p /\ x % d = y BY <1>7, <1>8, DivisionIs
<1>10. y \div t = k BY <1>5, <1>6, DivisionIs
<1>11. x % t = r
  <2>1. PICK e \in Int : e = p * kc + k
    <3>1. p * kc \in Int BY <1>1, SMTT(30)
    <3> QED BY <3>1, <1>5
  <2>2. x = e * t + r
    <3>1. (p * kc + k) * t = p * kc * t + k * t
      <4> DEFINE a == p * kc
      <4>1. a \in Int BY <1>1, SMTT(30)
      <4> HIDE DEF a
      <4>2. (a + k) * t = a * t + k * t BY <1>1, <1>5, <4>1, SMTT(30)
      <4> QED BY <4>2 DEF a
    <3>2. x = p * kc * t + k * t + r BY <1>2
    <3> QED BY <2>1, <3>1, <3>2
  <2> QED BY <2>2, DivisionIs
<1>12. x \in 0 .. CeilDiv(extent, t) * t * kc - 1 /\ ~(x >= CeilDiv(extent, t) * t * kc)
  <2>1. PICK e \in Nat : e = CeilDiv(extent, t) BY BlocksCover
  <2>2. extent <= e * t /\ e * t \in Int BY <2>1, BlocksCover
  <2>3. p * t + r < e * t
    <3> DEFINE a == e * t
    <3>1. a \in Int /\ extent <= a BY <2>2
    <3> HIDE DEF a
    <3>2. i < a BY <3>1
    <3> QED BY <1>2, <3>2 DEF a
  <2>4. p < e BY <2>3, Multiples
  <2>5. p * d + y < e * d /\ p * d \in Int /\ e * d \in Int /\ 0 * d <= p * d + y
    <3>1. p \in Int /\ e \in Int /\ 0 \in Int /\ 0 <= p OBVIOUS
    <3> QED BY <1>7, <2>4, <3>1, Multiples
  <2>6. 0 * d = 0 BY <1>4, SMTT(30)
  <2>7. e * t * kc = e * d
    <3>1. e * t * kc = e * (kc * t) BY <1>1, SMTT(30)
    <3> QED BY <3>1, <1>3
  <2> DEFINE a == p * d  b == e * d
  <2>8. a \in Int /\ b \in Int /\ x = a + y /\ a + y < b /\ 0 <= a + y
    BY <1>8, <2>5, <2>6
  <2> HIDE DEF a, b
  <2>9. y \in Int BY <1>7
  <2>10. x \in 0 .. b - 1 /\ ~(x >= b) BY <2>8, <2>9
  <2>11. b = CeilDiv(extent, t) * t * kc BY <2>1, <2>7 DEF b
  <2> QED BY <2>10, <2>11
<1>13. (x \div (kc * t)) * t + (x % t) = i BY <1>2, <1>3, <1>9, <1>11
<1>14. (x % (kc * t)) \div t = k BY <1>3, <1>9, <1>10
<1> QED BY <1>12, <1>13, <1>14

\* A thread that has only gone on to another place.
LEMMA PlaceOnly ==
  ASSUME UNCHANGED <<neon, mode, call, slice, C>>, NEW w \in Threads, NEW p,
         job[w] \in JobType, job'[w] = [job[w] EXCEPT !.at = p]
  PROVE  /\ job'[w].at = p /\ job'[w].kernel = job[w].kernel
         /\ job'[w].r0 = job[w].r0 /\ job'[w].rows = job[w].rows
         /\ job'[w].ic = job[w].ic /\ job'[w].jc = job[w].jc /\ job'[w].pc = job[w].pc
         /\ Mc(w)' = Mc(w) /\ Nc(w)' = Nc(w) /\ Kc(w)' = Kc(w) /\ TileOf(w)' = TileOf(w)
         /\ InTheLoops(w) => InTheLoops(w)'
         /\ PanelBHolds(w) /\ buf'[w][job[w].kernel].b = buf[w][job[w].kernel].b
              => PanelBHolds(w)'
<1>1. /\ job'[w].at = p /\ job'[w].kernel = job[w].kernel
      /\ job'[w].r0 = job[w].r0 /\ job'[w].rows = job[w].rows
      /\ job'[w].ic = job[w].ic /\ job'[w].jc = job[w].jc /\ job'[w].pc = job[w].pc
  BY DEF JobType
<1>2. /\ RowsIn(w)' = RowsIn(w) /\ ColsIn(w)' = ColsIn(w) /\ BlockOf(w)' = BlockOf(w)
      /\ TileOf(w)' = TileOf(w)
  BY <1>1 DEF RowsIn, ColsIn, BlockOf, TileOf
<1>3. Mc(w)' = Mc(w) /\ Nc(w)' = Nc(w) /\ Kc(w)' = Kc(w) BY <1>1, <1>2 DEF Mc, Nc, Kc
<1>4. \A i, k : PanelAt(w, i, k)' = PanelAt(w, i, k) BY <1>2, <1>3 DEF PanelAt
<1>5. \A i, j : Count(w, i, j)' = Count(w, i, j) BY <1>1, <1>2 DEF Count
<1>6. \A i, j : /\ CAt(w, i, j)' = CAt(w, i, j) /\ AAt(w, i, j)' = AAt(w, i, j)
                /\ BAt(i, j)' = BAt(i, j)
  BY <1>1 DEF CAt, AAt, BAt
<1>7. \A s, i, j, d, x : Blocks(s, i, j, d, x)' = Blocks(s, i, j, d, x) BY DEF Blocks, Part
<1>8. InTheLoops(w) => InTheLoops(w)' BY <1>1, <1>2, <1>5, <1>6, <1>7 DEF InTheLoops
<1>9. PanelBHolds(w) /\ buf'[w][job[w].kernel].b = buf[w][job[w].kernel].b => PanelBHolds(w)'
  BY <1>1, <1>3, <1>4, <1>6 DEF PanelBHolds
<1> QED BY <1>1, <1>2, <1>3, <1>8, <1>9

\* The sizes of the block at hand.
LEMMA BlockSizes ==
  ASSUME NEW w \in Threads, HasRows(w), CallTyped, job[w] \in JobType, InTheLoops(w)
  PROVE  /\ Mc(w) \in Positive /\ Nc(w) \in Positive /\ Kc(w) \in Positive
         /\ TileOf(w) \in Positive
         /\ BlockOf(w).m \in Positive /\ BlockOf(w).n \in Positive /\ BlockOf(w).k \in Positive
         /\ BlockOf(w).m % TileOf(w) = 0 /\ BlockOf(w).n % TileOf(w) = 0
         /\ RowsIn(w) \in Nat /\ RowsIn(w) <= job[w].rows
         /\ ColsIn(w) \in Nat /\ ColsIn(w) <= call.n
<1>1. IsBlock(BlockOf(w), TileOf(w)) /\ TileOf(w) \in Positive BY BlockTyped
<1>2. /\ BlockOf(w).m \in Positive /\ BlockOf(w).n \in Positive /\ BlockOf(w).k \in Positive
      /\ BlockOf(w).m % TileOf(w) = 0 /\ BlockOf(w).n % TileOf(w) = 0
  BY <1>1 DEF IsBlock
<1>3. /\ job[w].rows \in Nat /\ call.n \in Nat /\ call.k \in Nat
      /\ job[w].ic \in Nat /\ job[w].jc \in Nat /\ job[w].pc \in Nat
  BY DEF HasRows, Sizes, Positive, JobType
<1>4. /\ RowsIn(w) \in Nat /\ RowsIn(w) <= job[w].rows
      /\ ColsIn(w) \in Nat /\ ColsIn(w) <= call.n
  BY <1>3, PartOfRows
<1>5. job[w].ic < RowsIn(w) /\ job[w].jc < ColsIn(w) /\ job[w].pc < call.k
  BY DEF InTheLoops
<1>6. Mc(w) \in Positive /\ Nc(w) \in Positive /\ Kc(w) \in Positive
  BY <1>2, <1>3, <1>4, <1>5 DEF Mc, Nc, Kc, Least, Positive
<1> QED BY <1>1, <1>2, <1>4, <1>6

LEMMA PackBValues ==
  ASSUME PackInv, GemmInv, OnHost, backend' = backend, NEW w \in Threads, PackB(w)
  PROVE  GemmInv'
<1> DEFINE kn == job[w].kernel
           J == [job[w] EXCEPT !.at = "packA"]
<1>1. /\ job[w].at = "packB" /\ kn \in Packers /\ Works(w)
      /\ buf' = [buf EXCEPT ![w][kn].b = PackedB(w)]
      /\ job' = [job EXCEPT ![w] = J]
      /\ UNCHANGED <<neon, mode, phase, call, slice, todo, C>>
  BY DEF PackB, At, Works
<1>2. /\ HasRows(w) /\ CallTyped /\ job[w] \in JobType /\ Progress(w)
      /\ DOMAIN job = Threads /\ DOMAIN buf = Threads
  BY <1>1, Worker
<1>3. job'[w] = J BY <1>1, <1>2
<1>4. Inside(w) BY DEF PackInv
<1>5. buf'[w][kn].b = PackedB(w) BY <1>1, <1>2, <1>4 DEF Inside
<1>6. /\ J.at = "packA" /\ J.kernel = kn /\ J.r0 = job[w].r0 /\ J.rows = job[w].rows
      /\ job'[w].jc = job[w].jc /\ job'[w].pc = job[w].pc
      /\ Nc(w)' = Nc(w) /\ Kc(w)' = Kc(w) /\ TileOf(w)' = TileOf(w)
      /\ InTheLoops(w) => InTheLoops(w)'
  BY <1>1, <1>2, <1>3, PlaceOnly
<1>7. InTheLoops(w) BY <1>1, <1>2 DEF Progress
<1>8. /\ Nc(w) \in Positive /\ Kc(w) \in Positive /\ TileOf(w) \in Positive
  BY <1>2, <1>7, BlockSizes
<1>9. ASSUME NEW j \in 0 .. Nc(w) - 1, NEW k \in 0 .. Kc(w) - 1
      PROVE  PackedB(w)[PanelAt(w, j, k)] = BAt(job[w].pc + k, job[w].jc + j)
  <2> DEFINE x == PanelAt(w, j, k)  t == TileOf(w)  kc == Kc(w)
             len == CeilDiv(Nc(w), t) * t * kc
  <2>1. x = (j \div t) * kc * t + k * t + (j % t) BY DEF PanelAt
  <2>2. Nc(w) \in Nat BY <1>8 DEF Positive
  <2> HIDE DEF x
  <2>3. /\ x \in 0 .. len - 1 /\ ~(x >= len)
        /\ (x \div (kc * t)) * t + (x % t) = j
        /\ (x % (kc * t)) \div t = k
    BY <1>8, <2>1, <2>2, PanelIndex
  <2>4. j < Nc(w) BY <2>2
  <2>5. PackedB(w)[x] = IF (x \div (kc * t)) * t + (x % t) < Nc(w)
                        THEN BAt(job[w].pc + ((x % (kc * t)) \div t),
                                 job[w].jc + ((x \div (kc * t)) * t + (x % t)))
                        ELSE Zero
    BY <2>3 DEF PackedB, Packed
  <2> QED BY <2>3, <2>4, <2>5 DEF x
<1>10. PanelBHolds(w)'
  <2>1. \A j, k : PanelAt(w, j, k)' = PanelAt(w, j, k) BY <1>6 DEF PanelAt
  <2>2. \A i, j : BAt(i, j)' = BAt(i, j) BY <1>1 DEF BAt
  <2> QED BY <1>3, <1>5, <1>6, <1>9, <2>1, <2>2 DEF PanelBHolds
<1>11. Progress(w)' BY <1>1, <1>3, <1>6, <1>7, <1>10 DEF Progress
<1>12. OnlyRowsOf(w, C') BY <1>1 DEF OnlyRowsOf
<1>13. \A u \in Threads : u # w => buf'[u] = buf[u] BY <1>1, <1>2
<1>14. J # Idle /\ J.at # "idle" /\ J.kernel # "reorder" BY <1>1, <1>6 DEF Idle, Packers
<1> HIDE DEF J
<1> QED BY <1>1, <1>6, <1>11, <1>12, <1>13, <1>14, WorkStep

LEMMA PackAValues ==
  ASSUME PackInv, GemmInv, OnHost, backend' = backend, NEW w \in Threads, PackA(w)
  PROVE  GemmInv'
<1> DEFINE kn == job[w].kernel
           J == [job[w] EXCEPT !.at = "micro"]
<1>1. /\ job[w].at = "packA" /\ kn \in Packers /\ Works(w)
      /\ buf' = [buf EXCEPT ![w][kn].a = PackedA(w)]
      /\ job' = [job EXCEPT ![w] = J]
      /\ UNCHANGED <<neon, mode, phase, call, slice, todo, C>>
  BY DEF PackA, At, Works
<1>2. /\ HasRows(w) /\ CallTyped /\ job[w] \in JobType /\ Progress(w)
      /\ DOMAIN job = Threads /\ DOMAIN buf = Threads
  BY <1>1, Worker
<1>3. job'[w] = J BY <1>1, <1>2
<1>4. Inside(w) BY DEF PackInv
<1>5. buf'[w][kn].a = PackedA(w) /\ buf'[w][kn].b = buf[w][kn].b
  BY <1>1, <1>2, <1>4 DEF Inside
<1>6. /\ J.at = "micro" /\ J.kernel = kn /\ J.r0 = job[w].r0 /\ J.rows = job[w].rows
      /\ job'[w].r0 = job[w].r0
      /\ job'[w].ic = job[w].ic /\ job'[w].pc = job[w].pc
      /\ Mc(w)' = Mc(w) /\ Kc(w)' = Kc(w) /\ TileOf(w)' = TileOf(w)
      /\ InTheLoops(w) => InTheLoops(w)'
      /\ PanelBHolds(w) /\ buf'[w][kn].b = buf[w][kn].b => PanelBHolds(w)'
  BY <1>1, <1>2, <1>3, PlaceOnly
<1>7. InTheLoops(w) /\ PanelBHolds(w) BY <1>1, <1>2 DEF Progress
<1>8. /\ Mc(w) \in Positive /\ Kc(w) \in Positive /\ TileOf(w) \in Positive
  BY <1>2, <1>7, BlockSizes
<1>9. ASSUME NEW i \in 0 .. Mc(w) - 1, NEW k \in 0 .. Kc(w) - 1
      PROVE  PackedA(w)[PanelAt(w, i, k)] = AAt(w, job[w].ic + i, job[w].pc + k)
  <2> DEFINE x == PanelAt(w, i, k)  t == TileOf(w)  kc == Kc(w)
             len == CeilDiv(Mc(w), t) * t * kc
  <2>1. x = (i \div t) * kc * t + k * t + (i % t) BY DEF PanelAt
  <2>2. Mc(w) \in Nat BY <1>8 DEF Positive
  <2> HIDE DEF x
  <2>3. /\ x \in 0 .. len - 1 /\ ~(x >= len)
        /\ (x \div (kc * t)) * t + (x % t) = i
        /\ (x % (kc * t)) \div t = k
    BY <1>8, <2>1, <2>2, PanelIndex
  <2>4. i < Mc(w) BY <2>2
  <2>5. PackedA(w)[x] = IF (x \div (kc * t)) * t + (x % t) < Mc(w)
                        THEN AAt(w, job[w].ic + ((x \div (kc * t)) * t + (x % t)),
                                 job[w].pc + ((x % (kc * t)) \div t))
                        ELSE Zero
    BY <2>3 DEF PackedA, Packed
  <2> QED BY <2>3, <2>4, <2>5 DEF x
<1>10. PanelAHolds(w)'
  <2>1. \A j, k : PanelAt(w, j, k)' = PanelAt(w, j, k) BY <1>6 DEF PanelAt
  <2>2. \A i, j : AAt(w, i, j)' = AAt(w, i, j) BY <1>1, <1>6 DEF AAt
  <2> QED BY <1>3, <1>5, <1>6, <1>9, <2>1, <2>2 DEF PanelAHolds
<1>11. Progress(w)' BY <1>1, <1>3, <1>5, <1>6, <1>7, <1>10 DEF Progress
<1>12. OnlyRowsOf(w, C') BY <1>1 DEF OnlyRowsOf
<1>13. \A u \in Threads : u # w => buf'[u] = buf[u] BY <1>1, <1>2
<1>14. J # Idle /\ J.at # "idle" /\ J.kernel # "reorder" BY <1>1, <1>6 DEF Idle, Packers
<1> HIDE DEF J
<1> QED BY <1>1, <1>6, <1>11, <1>12, <1>13, <1>14, WorkStep
-----------------------------------------------------------------------------
(* Blocks.                                                                 *)

\* One more block of products.
LEMMA OneMoreBlock ==
  ASSUME NEW s, NEW i, NEW j, NEW d \in Positive, NEW q \in Nat, call.k \in Nat,
         NEW lo, NEW hi, lo = q * d, hi = lo + Least(d, call.k - lo)
  PROVE  Append(Blocks(s, i, j, d, q), Part(s, i, j, lo, hi)) = Blocks(s, i, j, d, q + 1)
<1>1. d \in Int /\ q * d \in Int /\ (q + 1) * d = q * d + d
  <2>1. d \in Int BY DEF Positive
  <2> QED BY <2>1, SMTT(30)
<1>2. ((q + 1) - 1) * d = lo
  <2>1. (q + 1) - 1 = q OBVIOUS
  <2> QED BY <2>1
<1>3. Least((q + 1) * d, call.k) = hi
  <2> DEFINE a == q * d  b == (q + 1) * d
  <2>1. a \in Int /\ b = a + d /\ hi = a + Least(d, call.k - a) BY <1>1
  <2> HIDE DEF a, b
  <2>2. Least(b, call.k) = hi BY <1>1, <2>1 DEF Least
  <2> QED BY <2>2 DEF b
<1> DEFINE f(x) == Part(s, i, j, (x - 1) * d, Least(x * d, call.k))
<1>4. Blocks(s, i, j, d, q) = [x \in 1 .. q |-> f(x)]
      /\ Blocks(s, i, j, d, q + 1) = [x \in 1 .. q + 1 |-> f(x)]
  BY DEF Blocks
<1>5. Part(s, i, j, lo, hi) = f(q + 1) BY <1>2, <1>3
<1> HIDE DEF f
<1>6. Append([x \in 1 .. q |-> f(x)], f(q + 1)) = [x \in 1 .. q + 1 |-> f(x)]
  <2>1. Len([x \in 1 .. q |-> f(x)]) = q OBVIOUS
  <2>2. Append([x \in 1 .. q |-> f(x)], f(q + 1))
          = [x \in 1 .. q + 1 |-> IF x = q + 1 THEN f(q + 1) ELSE [y \in 1 .. q |-> f(y)][x]]
    BY <2>1
  <2>3. \A x \in 1 .. q + 1 : x # q + 1 => x \in 1 .. q OBVIOUS
  <2> QED BY <2>2, <2>3
<1> QED BY <1>4, <1>5, <1>6

LEMMA TileSums ==
  ASSUME NEW t \in Positive, NEW x \in Nat, NEW y \in Nat, x % t = 0, y % t = 0
  PROVE  (x + y) % t = 0 /\ (x >= y => (x - y) % t = 0)
<1>1. t \in Nat /\ 0 \in 0 .. t - 1 BY DEF Positive
<1>2. PICK p, q \in Nat : x = p * t /\ y = q * t
  <2>1. x \in Int /\ y \in Int OBVIOUS
  <2>2. /\ x \div t \in Nat /\ x = (x \div t) * t + (x % t)
        /\ y \div t \in Nat /\ y = (y \div t) * t + (y % t)
    BY <2>1, Division, Zenon
  <2>3. PICK p, q \in Nat : x = p * t + 0 /\ y = q * t + 0 BY <2>2, Zenon
  <2>4. p * t \in Int /\ q * t \in Int BY <1>1, SMTT(30)
  <2>5. x = p * t /\ y = q * t BY <2>3, <2>4
  <2> QED BY <2>5
<1>3. p * t \in Int /\ q * t \in Int BY <1>1, SMTT(30)
<1>4. (p + q) * t = p * t + q * t /\ (p - q) * t = p * t - q * t BY <1>1, SMTT(30)
<1>5. ((p + q) * t + 0) % t = 0 /\ ((p - q) * t + 0) % t = 0 BY <1>1, DivisionIs
<1>6. x + y = (p + q) * t + 0 /\ x - y = (p - q) * t + 0
  <2> DEFINE a == p * t  b == q * t  c == (p + q) * t  e == (p - q) * t
  <2>1. a \in Int /\ b \in Int /\ c = a + b /\ e = a - b /\ x = a /\ y = b
    BY <1>2, <1>3, <1>4
  <2> HIDE DEF a, b, c, e
  <2>2. x + y = c + 0 /\ x - y = e + 0 BY <2>1
  <2> QED BY <2>2 DEF c, e
<1> QED BY <1>5, <1>6

\* C after the products of the block at hand have been added.
BlockAdded(w, D) ==
    /\ OnlyRowsOf(w, D)
    /\ \A i \in Rows(w), j \in Cols :
          D[CAt(w, i, j)] =
            IF InRange(i, job[w].ic, job[w].ic + Mc(w)) /\ InRange(j, job[w].jc, job[w].jc + Nc(w))
            THEN Append(C[CAt(w, i, j)],
                        Part(slice, job[w].r0 + i, j, job[w].pc, job[w].pc + Kc(w)))
            ELSE C[CAt(w, i, j)]

\* How many blocks an element has then.
CountAfter(w, i, j) ==
    LET J == job[w]  B == BlockOf(w)
    IN  IF j < J.jc THEN CeilDiv(call.k, B.k)
        ELSE IF j < J.jc + B.n THEN (J.pc \div B.k) + (IF i < J.ic + B.m THEN 1 ELSE 0)
        ELSE 0

LEMMA BlocksAfter ==
  ASSUME NEW w \in Threads, HasRows(w), CallTyped, job[w] \in JobType, InTheLoops(w),
         NEW D, BlockAdded(w, D), NEW i \in 0 .. RowsIn(w) - 1, NEW j \in 0 .. ColsIn(w) - 1
  PROVE  D[CAt(w, i, j)]
           = Blocks(slice, job[w].r0 + i, j, BlockOf(w).k, CountAfter(w, i, j))
<1> DEFINE J == job[w]  B == BlockOf(w)
<1>1. /\ Mc(w) \in Positive /\ Nc(w) \in Positive /\ Kc(w) \in Positive
      /\ B.m \in Positive /\ B.n \in Positive /\ B.k \in Positive
      /\ RowsIn(w) \in Nat /\ RowsIn(w) <= job[w].rows
      /\ ColsIn(w) \in Nat /\ ColsIn(w) <= call.n
  BY BlockSizes
<1>2. /\ J.ic \in Nat /\ J.jc \in Nat /\ J.pc \in Nat /\ J.rows \in Nat
      /\ call.k \in Nat /\ call.n \in Nat
      /\ B.m \in Nat /\ B.n \in Nat /\ B.k \in Nat /\ i \in Int /\ j \in Int
  <2>1. J.ic \in Nat /\ J.jc \in Nat /\ J.pc \in Nat /\ J.rows \in Nat BY DEF JobType
  <2>2. call.k \in Nat /\ call.n \in Nat BY DEF HasRows, Sizes, Positive
  <2>3. B.m \in Nat /\ B.n \in Nat /\ B.k \in Nat
    <3> HIDE DEF B
    <3> QED BY <1>1 DEF Positive
  <2>4. i \in Int /\ j \in Int BY <1>1
  <2> QED BY <2>1, <2>2, <2>3, <2>4
<1>3. i \in Rows(w) /\ j \in Cols BY <1>1, <1>2 DEF Rows, Cols
<1>4. C[CAt(w, i, j)] = Blocks(slice, J.r0 + i, j, B.k, Count(w, i, j)) BY DEF InTheLoops
<1>5. PICK q \in Nat : J.pc = q * B.k /\ J.pc \div B.k = q
  <2>1. /\ J.pc \div B.k \in Nat /\ J.pc = (J.pc \div B.k) * B.k + (J.pc % B.k)
    <3>1. J.pc \in Int BY <1>2
    <3> QED BY <1>1, <1>2, <3>1, Division
  <2>2. J.pc % B.k = 0 BY DEF InTheLoops
  <2>3. PICK q \in Nat, d \in Nat : q = J.pc \div B.k /\ d = B.k /\ J.pc = q * d + 0
    BY <1>2, <2>1, <2>2, Zenon
  <2>4. q * d \in Int BY SMTT(30)
  <2>5. J.pc = q * d BY <2>3, <2>4
  <2> QED BY <2>3, <2>5
<1>6. CASE InRange(i, J.ic, J.ic + Mc(w)) /\ InRange(j, J.jc, J.jc + Nc(w))
  <2>1. Count(w, i, j) = q /\ CountAfter(w, i, j) = q + 1
    <3>1. /\ Mc(w) \in Nat /\ Mc(w) <= B.m /\ Nc(w) \in Nat /\ Nc(w) <= B.n
      BY <1>1, <1>2 DEF Mc, Nc, Least, Positive
    <3>2. ~(j < J.jc) /\ j < J.jc + B.n /\ ~(i < J.ic) /\ i < J.ic + B.m
      BY <1>2, <1>6, <3>1 DEF InRange
    <3>3. J.pc \div B.k = q BY <1>5
    <3>4. Count(w, i, j) = q + 0 BY <3>2, <3>3 DEF Count
    <3>5. CountAfter(w, i, j) = q + 1 BY <3>2, <3>3 DEF CountAfter
    <3> QED BY <3>4, <3>5
  <2>2. D[CAt(w, i, j)] = Append(Blocks(slice, J.r0 + i, j, B.k, q),
                                 Part(slice, J.r0 + i, j, J.pc, J.pc + Kc(w)))
    BY <1>3, <1>4, <1>6, <2>1 DEF BlockAdded
  <2>3. Kc(w) = Least(B.k, call.k - J.pc) BY DEF Kc
  <2>4. Append(Blocks(slice, J.r0 + i, j, B.k, q), Part(slice, J.r0 + i, j, J.pc, J.pc + Kc(w)))
          = Blocks(slice, J.r0 + i, j, B.k, q + 1)
    <3>1. PICK d \in Positive : d = B.k BY <1>1, Zenon
    <3>2. PICK lo, hi : lo = J.pc /\ hi = J.pc + Kc(w) BY Zenon
    <3>3. lo = q * d /\ hi = lo + Least(d, call.k - lo)
      BY <1>5, <2>3, <3>1, <3>2, Zenon
    <3>4. PICK r : r = J.r0 + i BY Zenon
    <3>5. Append(Blocks(slice, r, j, d, q), Part(slice, r, j, lo, hi))
            = Blocks(slice, r, j, d, q + 1)
      BY <1>2, <3>3, OneMoreBlock
    <3> QED BY <3>1, <3>2, <3>4, <3>5, Zenon
  <2> QED BY <2>1, <2>2, <2>4
<1>7. CASE ~(InRange(i, J.ic, J.ic + Mc(w)) /\ InRange(j, J.jc, J.jc + Nc(w)))
  <2>1. Count(w, i, j) = CountAfter(w, i, j)
    <3>1. /\ Mc(w) = Least(B.m, RowsIn(w) - J.ic) /\ Nc(w) = Least(B.n, ColsIn(w) - J.jc)
      BY DEF Mc, Nc
    <3>2. i < RowsIn(w) /\ j < ColsIn(w) BY <1>1
    <3>3. \/ j < J.jc \/ ~(j < J.jc + B.n) \/ (i < J.ic /\ i < J.ic + B.m)
          \/ (~(i < J.ic) /\ ~(i < J.ic + B.m))
      BY <1>1, <1>2, <1>7, <3>1, <3>2 DEF InRange, Least
    <3> QED BY <3>3 DEF Count, CountAfter
  <2>2. D[CAt(w, i, j)] = C[CAt(w, i, j)] BY <1>3, <1>7 DEF BlockAdded
  <2> QED BY <1>4, <2>1, <2>2
<1> QED BY <1>6, <1>7
\* The loops go on with the job J.
LEMMA LoopsGoOn ==
  ASSUME PackInv, GemmInv, OnHost, NEW w \in Threads, Works(w),
         UNCHANGED <<backend, neon, mode, phase, call, slice, todo>>,
         job[w].kernel \in {"tiled"} \cup Packers,
         OnlyRowsOf(w, C'), \A u \in Threads : u # w => buf'[u] = buf[u],
         NEW J, job' = [job EXCEPT ![w] = J],
         J.kernel = job[w].kernel, J.r0 = job[w].r0, J.rows = job[w].rows,
         \/ J.kernel = "tiled" /\ J.at = "tiles"
         \/ J.kernel \in Packers /\ J.at = "packB"
         \/ J.kernel \in Packers /\ J.at = "packA" /\ PanelBHolds(w)',
         J.ic < RowsIn(w), J.jc < ColsIn(w), J.pc < call.k,
         J.kernel = "tiled" => J.ic % Tile = 0 /\ J.jc % Tile = 0,
         J.pc % BlockOf(w).k = 0,
         \A i \in 0 .. RowsIn(w) - 1, j \in 0 .. ColsIn(w) - 1 :
            C'[CAt(w, i, j)] = Blocks(slice, job[w].r0 + i, j, BlockOf(w).k,
              IF j < J.jc THEN CeilDiv(call.k, BlockOf(w).k)
              ELSE IF j < J.jc + BlockOf(w).n
                   THEN (J.pc \div BlockOf(w).k) + (IF i < J.ic THEN 1 ELSE 0) ELSE 0)
  PROVE  GemmInv'
<1>1. job'[w] = J BY Worker
<1>2. RowsIn(w)' = RowsIn(w) /\ ColsIn(w)' = ColsIn(w) /\ BlockOf(w)' = BlockOf(w)
  BY <1>1 DEF RowsIn, ColsIn, BlockOf
<1>3. \A i, j : CAt(w, i, j)' = CAt(w, i, j) BY <1>1 DEF CAt
<1>4. \A s, i, j, d, x : Blocks(s, i, j, d, x)' = Blocks(s, i, j, d, x) BY DEF Blocks, Part
<1>5. ASSUME NEW i \in 0 .. RowsIn(w) - 1, NEW j \in 0 .. ColsIn(w) - 1
      PROVE  C'[CAt(w, i, j)] = Blocks(slice, job[w].r0 + i, j, BlockOf(w).k, Count(w, i, j)')
  <2>1. Count(w, i, j)'
          = IF j < J.jc THEN CeilDiv(call.k, BlockOf(w).k)
            ELSE IF j < J.jc + BlockOf(w).n
                 THEN (J.pc \div BlockOf(w).k) + (IF i < J.ic THEN 1 ELSE 0) ELSE 0
    BY <1>1, <1>2 DEF Count
  <2>2. C'[CAt(w, i, j)] = Blocks(slice, job[w].r0 + i, j, BlockOf(w).k,
              IF j < J.jc THEN CeilDiv(call.k, BlockOf(w).k)
              ELSE IF j < J.jc + BlockOf(w).n
                   THEN (J.pc \div BlockOf(w).k) + (IF i < J.ic THEN 1 ELSE 0) ELSE 0)
    OBVIOUS
  <2> QED BY <2>1, <2>2, Zenon
<1>6. InTheLoops(w)'
  <2>2. /\ job'[w].ic < RowsIn(w)' /\ job'[w].jc < ColsIn(w)' /\ job'[w].pc < call'.k
        /\ job'[w].kernel = "tiled" => job'[w].ic % Tile = 0 /\ job'[w].jc % Tile = 0
        /\ job'[w].pc % BlockOf(w)'.k = 0
    BY <1>1, <1>2
  <2> QED BY <1>1, <1>2, <1>3, <1>4, <1>5, <2>2 DEF InTheLoops
<1>7. Progress(w)' BY <1>1, <1>6 DEF Progress
<1>8. J # Idle /\ J.at # "idle" /\ J.kernel # "reorder" BY DEF Idle, Packers
<1> QED BY <1>7, <1>8, WorkStep

\* The loops are over, and all of their blocks have been added.
LEMMA LoopsEnd ==
  ASSUME PackInv, GemmInv, OnHost, NEW w \in Threads, Works(w),
         UNCHANGED <<backend, neon, mode, phase, call, slice, todo>>,
         job[w].kernel \in {"tiled"} \cup Packers,
         OnlyRowsOf(w, C'), \A u \in Threads : u # w => buf'[u] = buf[u],
         job' = AfterLoops(w),
         \A i \in 0 .. RowsIn(w) - 1, j \in 0 .. ColsIn(w) - 1 :
            C'[CAt(w, i, j)]
              = Blocks(slice, job[w].r0 + i, j, BlockOf(w).k, CeilDiv(call.k, BlockOf(w).k))
  PROVE  GemmInv'
<1>1. /\ DOMAIN job = Threads /\ job[w] \in JobType /\ HasRows(w)
      /\ job[w].kernel = TheKernel
  BY Worker
<1>2. CASE job[w].kernel = "tiled"
  <2> DEFINE J == [job[w] EXCEPT !.at = "edges"]
  <2>1. job' = [job EXCEPT ![w] = J] BY <1>2 DEF AfterLoops
  <2>2. /\ J.at = "edges" /\ J.kernel = "tiled" /\ J.r0 = job[w].r0 /\ J.rows = job[w].rows
    BY <1>1, <1>2 DEF JobType
  <2>3. job'[w] = J BY <1>1, <2>1
  <2> HIDE DEF J
  <2>4. RowsIn(w)' = RowsIn(w) /\ ColsIn(w)' = ColsIn(w) /\ BlockOf(w)' = BlockOf(w)
    BY <1>2, <2>2, <2>3 DEF RowsIn, ColsIn, BlockOf
  <2>5. \A i, j : CAt(w, i, j)' = CAt(w, i, j) BY <2>2, <2>3 DEF CAt
  <2>6. \A s, i, j, d, x : Blocks(s, i, j, d, x)' = Blocks(s, i, j, d, x) BY DEF Blocks, Part
  <2>7. WholeTilesDone(w)' BY <2>2, <2>3, <2>4, <2>5, <2>6 DEF WholeTilesDone
  <2>8. Progress(w)' BY <2>2, <2>3, <2>7 DEF Progress
  <2>9. J # Idle BY <2>2 DEF Idle
  <2> QED BY <1>2, <2>1, <2>2, <2>8, <2>9, WorkStep
<1>3. CASE job[w].kernel # "tiled"
  <2>1. job' = [job EXCEPT ![w] = Idle] BY <1>3 DEF AfterLoops
  <2>2. TheKernel \in Packers BY <1>1, <1>3
  <2>3. RowsIn(w) = job[w].rows /\ ColsIn(w) = call.n BY <1>3 DEF RowsIn, ColsIn
  <2>4. BlockOf(w).k \in Depths BY <1>1, <2>2 DEF BlockOf, Depths, Depth
  <2>5. \A k \in Rows(w), j \in Cols : \E d \in Depths :
           C'[CAt(w, k, j)] = Blocks(slice, job[w].r0 + k, j, d, CeilDiv(call.k, d))
    BY <2>3, <2>4 DEF Rows, Cols
  <2>6. \A i \in AllRows, j \in Cols : InRange(i, job[w].r0, End(w)) => Final(slice, i, j)'
    BY <1>1, <2>5, FinishedRows
  <2> QED BY <2>1, <2>6, WorkStep
<1> QED BY <1>2, <1>3

\* The block at hand is done.
LEMMA BlockDone ==
  ASSUME PackInv, GemmInv, OnHost, backend' = backend, NEW w \in Threads,
         \/ job[w].kernel = "tiled" /\ job[w].at = "tiles"
         \/ job[w].kernel \in Packers /\ job[w].at = "micro",
         BlockAdded(w, C'), job' = NextBlock(w),
         UNCHANGED <<neon, mode, phase, call, slice, todo, buf>>
  PROVE  GemmInv'
<1> DEFINE j == job[w]
           b == BlockOf(w)
           rest == IF j.kernel = "tiled" THEN "tiles" ELSE "packA"
           J1 == [j EXCEPT !.ic = j.ic + b.m, !.at = rest]
           J2 == [j EXCEPT !.ic = 0, !.pc = j.pc + b.k, !.at = InLoops(w)]
           J3 == [j EXCEPT !.ic = 0, !.pc = 0, !.jc = j.jc + b.n, !.at = InLoops(w)]
<1>1. Works(w) /\ j.kernel \in {"tiled"} \cup Packers BY DEF Works
<1>2. /\ HasRows(w) /\ CallTyped /\ j \in JobType /\ DOMAIN job = Threads
      /\ Progress(w)
  BY <1>1, Worker
<1>3. InTheLoops(w) /\ (j.kernel \in Packers => PanelBHolds(w))
  BY <1>2 DEF Progress, Packers
<1>4. /\ b.m \in Positive /\ b.n \in Positive /\ b.k \in Positive
      /\ b.m % TileOf(w) = 0 /\ b.n % TileOf(w) = 0 /\ TileOf(w) \in Positive
      /\ RowsIn(w) \in Nat /\ ColsIn(w) \in Nat
  BY <1>2, <1>3, BlockSizes
<1>5. /\ j.ic < RowsIn(w) /\ j.jc < ColsIn(w) /\ j.pc < call.k /\ j.pc % b.k = 0
      /\ j.kernel = "tiled" => j.ic % Tile = 0 /\ j.jc % Tile = 0
  BY <1>3 DEF InTheLoops
<1>6. \A x \in 0 .. RowsIn(w) - 1, y \in 0 .. ColsIn(w) - 1 :
         C'[CAt(w, x, y)] = Blocks(slice, j.r0 + x, y, b.k, CountAfter(w, x, y))
  BY <1>2, <1>3, BlocksAfter
<1>7. \A x, y : CountAfter(w, x, y)
                 = IF y < j.jc THEN CeilDiv(call.k, b.k)
                   ELSE IF y < j.jc + b.n
                        THEN (j.pc \div b.k) + (IF x < j.ic + b.m THEN 1 ELSE 0) ELSE 0
  BY DEF CountAfter
<1>8. j.kernel = "tiled" => TileOf(w) = Tile BY DEF TileOf
<1>9. OnlyRowsOf(w, C') BY DEF BlockAdded
<1>10. \A u \in Threads : u # w => buf'[u] = buf[u] OBVIOUS
<1>11. /\ j.ic \in Nat /\ j.jc \in Nat /\ j.pc \in Nat /\ call.k \in Nat
  BY <1>2 DEF JobType, HasRows, Sizes
<1> HIDE DEF b
<1>12. /\ b.m \in Nat /\ b.n \in Nat /\ b.k \in Nat /\ b.m >= 1 /\ b.n >= 1 /\ b.k >= 1
  BY <1>4 DEF Positive
<1>13. PICK d \in Positive, q \in Nat :
          d = b.k /\ j.pc = q * d /\ j.pc \div b.k = q /\ (j.pc + b.k) \div b.k = q + 1
          /\ (j.pc + b.k) % b.k = 0
          /\ (~(j.pc + b.k < call.k) => CeilDiv(call.k, b.k) = q + 1)
  <2>1. PICK d \in Positive, p \in Nat, k \in Nat : d = b.k /\ p = j.pc /\ k = call.k
    BY <1>4, <1>11, Zenon
  <2>2. PICK q \in Nat : q = p \div d /\ p = q * d
    <3>1. p \in Int OBVIOUS
    <3>2. p \div d \in Nat /\ p = (p \div d) * d + (p % d) BY <3>1, Division, Zenon
    <3>3. p % d = 0 BY <1>5, <2>1
    <3>4. PICK q \in Nat : q = p \div d /\ p = q * d + 0 BY <3>2, <3>3, Zenon
    <3>5. q * d \in Int
      <4>1. d \in Int BY DEF Positive
      <4> QED BY <4>1, SMTT(30)
    <3>6. p = q * d BY <3>4, <3>5
    <3> QED BY <3>4, <3>6
  <2>3. p + d = (q + 1) * d + 0 /\ 0 \in 0 .. d - 1
    <3>1. d \in Nat /\ d >= 1 BY DEF Positive
    <3>2. (q + 1) * d = q * d + d /\ q * d \in Int BY <3>1, SMTT(30)
    <3> DEFINE a == q * d  c == (q + 1) * d
    <3>3. a \in Int /\ c = a + d /\ p = a BY <2>2, <3>2
    <3> HIDE DEF a, c
    <3>4. p + d = c + 0 BY <3>1, <3>3
    <3> QED BY <3>1, <3>4 DEF c
  <2>4. (p + d) \div d = q + 1 /\ (p + d) % d = 0 BY <2>3, DivisionIs
  <2>5. ~(p + d < k) => CeilDiv(k, d) = q + 1
    <3>1. p < k BY <1>5, <2>1
    <3> QED BY <2>2, <3>1, BlockCount
  <2> QED BY <2>1, <2>2, <2>4, <2>5
<1> HIDE DEF rest
<1>14. CASE j.ic + b.m < RowsIn(w)
  <2>1. job' = [job EXCEPT ![w] = J1] BY <1>2, <1>14 DEF NextBlock, rest, b
  <2>2. /\ J1.kernel = j.kernel /\ J1.at = rest /\ J1.ic = j.ic + b.m
        /\ J1.jc = j.jc /\ J1.pc = j.pc /\ J1.rows = j.rows /\ J1.r0 = j.r0
    BY <1>2 DEF JobType
  <2> HIDE DEF J1
  <2>3. j.kernel = "tiled" => J1.ic % Tile = 0 /\ J1.jc % Tile = 0
    <3>1. ASSUME j.kernel = "tiled" PROVE (j.ic + b.m) % Tile = 0
      <4>1. PICK t \in Positive, x \in Nat, y \in Nat : t = Tile /\ x = j.ic /\ y = b.m
        BY <1>11, <1>12, GemmAssumption, Zenon
      <4>2. x % t = 0 /\ y % t = 0 BY <3>1, <4>1, <1>4, <1>5, <1>8 DEF b
      <4>3. (x + y) % t = 0 BY <4>2, TileSums
      <4> QED BY <4>1, <4>3
    <3> QED BY <1>5, <2>2, <3>1
  <2>4. j.kernel \in Packers => PanelBHolds(w)'
    <3>1. ASSUME j.kernel \in Packers PROVE PanelBHolds(w)'
      <4>1. job'[w] = J1 BY <1>2, <2>1
      <4>2. /\ ColsIn(w)' = ColsIn(w) /\ BlockOf(w)' = BlockOf(w) /\ TileOf(w)' = TileOf(w)
        BY <2>2, <4>1 DEF ColsIn, BlockOf, TileOf
      <4>3. Nc(w)' = Nc(w) /\ Kc(w)' = Kc(w) BY <2>2, <4>1, <4>2 DEF Nc, Kc
      <4>4. \A x, y : PanelAt(w, x, y)' = PanelAt(w, x, y) BY <4>2, <4>3 DEF PanelAt
      <4>5. \A x, y : BAt(x, y)' = BAt(x, y) BY DEF BAt
      <4>6. PanelBHolds(w) BY <1>3, <3>1
      <4> QED BY <2>2, <4>1, <4>3, <4>4, <4>5, <4>6 DEF PanelBHolds
    <3> QED BY <3>1
  <2>5. \/ J1.kernel = "tiled" /\ J1.at = "tiles"
        \/ J1.kernel \in Packers /\ J1.at = "packA" /\ PanelBHolds(w)'
    BY <1>1, <2>2, <2>4 DEF rest, Packers
  <2>6. J1.ic < RowsIn(w) /\ J1.jc < ColsIn(w) /\ J1.pc < call.k /\ J1.pc % b.k = 0
    BY <1>5, <1>14, <2>2
  <2>7. \A x \in 0 .. RowsIn(w) - 1, y \in 0 .. ColsIn(w) - 1 :
            C'[CAt(w, x, y)] = Blocks(slice, j.r0 + x, y, b.k,
              IF y < J1.jc THEN CeilDiv(call.k, b.k)
              ELSE IF y < J1.jc + b.n
                   THEN (J1.pc \div b.k) + (IF x < J1.ic THEN 1 ELSE 0) ELSE 0)
    BY <1>6, <1>7, <2>2
  <2> QED BY <1>1, <1>9, <1>10, <2>1, <2>2, <2>3, <2>5, <2>6, <2>7, LoopsGoOn DEF b
<1>15. CASE ~(j.ic + b.m < RowsIn(w)) /\ j.pc + b.k < call.k
  <2>1. job' = [job EXCEPT ![w] = J2] BY <1>15 DEF NextBlock, b
  <2>2. /\ J2.kernel = j.kernel /\ J2.at = InLoops(w) /\ J2.ic = 0
        /\ J2.jc = j.jc /\ J2.pc = j.pc + b.k /\ J2.rows = j.rows /\ J2.r0 = j.r0
    BY <1>2 DEF JobType
  <2> HIDE DEF J2
  <2>3. j.kernel = "tiled" => J2.ic % Tile = 0 /\ J2.jc % Tile = 0
    <3>1. 0 % Tile = 0 BY NoMultiple, GemmAssumption
    <3> QED BY <1>5, <2>2, <3>1
  <2>4. \/ J2.kernel = "tiled" /\ J2.at = "tiles"
        \/ J2.kernel \in Packers /\ J2.at = "packB"
    BY <1>1, <2>2 DEF InLoops, Packers
  <2>5. J2.ic < RowsIn(w) /\ J2.jc < ColsIn(w) /\ J2.pc < call.k /\ J2.pc % b.k = 0
    BY <1>4, <1>5, <1>11, <1>13, <1>15, <2>2
  <2>6. ASSUME NEW x \in 0 .. RowsIn(w) - 1, NEW y \in 0 .. ColsIn(w) - 1
        PROVE  CountAfter(w, x, y)
                 = IF y < J2.jc THEN CeilDiv(call.k, b.k)
                   ELSE IF y < J2.jc + b.n
                        THEN (J2.pc \div b.k) + (IF x < J2.ic THEN 1 ELSE 0) ELSE 0
    <3>1. x < j.ic + b.m /\ ~(x < 0) BY <1>4, <1>11, <1>12, <1>15
    <3>2. (J2.pc \div b.k) + (IF x < J2.ic THEN 1 ELSE 0) = q + 1
      BY <1>13, <2>2, <3>1
    <3>3. (j.pc \div b.k) + (IF x < j.ic + b.m THEN 1 ELSE 0) = q + 1
      BY <1>13, <3>1
    <3> QED BY <1>7, <2>2, <3>2, <3>3
  <2>7. \A x \in 0 .. RowsIn(w) - 1, y \in 0 .. ColsIn(w) - 1 :
            C'[CAt(w, x, y)] = Blocks(slice, j.r0 + x, y, b.k,
              IF y < J2.jc THEN CeilDiv(call.k, b.k)
              ELSE IF y < J2.jc + b.n
                   THEN (J2.pc \div b.k) + (IF x < J2.ic THEN 1 ELSE 0) ELSE 0)
    BY <1>6, <2>6
  <2> QED BY <1>1, <1>9, <1>10, <2>1, <2>2, <2>3, <2>4, <2>5, <2>7, LoopsGoOn DEF b
<1>16. CASE /\ ~(j.ic + b.m < RowsIn(w)) /\ ~(j.pc + b.k < call.k)
            /\ j.jc + b.n < ColsIn(w)
  <2>1. job' = [job EXCEPT ![w] = J3] BY <1>16 DEF NextBlock, b
  <2>2. /\ J3.kernel = j.kernel /\ J3.at = InLoops(w) /\ J3.ic = 0
        /\ J3.jc = j.jc + b.n /\ J3.pc = 0 /\ J3.rows = j.rows /\ J3.r0 = j.r0
    BY <1>2 DEF JobType
  <2> HIDE DEF J3
  <2>3. 0 % Tile = 0 /\ 0 % b.k = 0 /\ 0 \div b.k = 0 BY <1>4, NoMultiple, GemmAssumption
  <2>4. j.kernel = "tiled" => J3.ic % Tile = 0 /\ J3.jc % Tile = 0
    <3>1. ASSUME j.kernel = "tiled" PROVE (j.jc + b.n) % Tile = 0
      <4>1. PICK t \in Positive, x \in Nat, y \in Nat : t = Tile /\ x = j.jc /\ y = b.n
        BY <1>11, <1>12, GemmAssumption, Zenon
      <4>2. x % t = 0 /\ y % t = 0 BY <3>1, <4>1, <1>4, <1>5, <1>8 DEF b
      <4>3. (x + y) % t = 0 BY <4>2, TileSums
      <4> QED BY <4>1, <4>3
    <3> QED BY <2>2, <2>3, <3>1
  <2>5. \/ J3.kernel = "tiled" /\ J3.at = "tiles"
        \/ J3.kernel \in Packers /\ J3.at = "packB"
    BY <1>1, <2>2 DEF InLoops, Packers
  <2>6. J3.ic < RowsIn(w) /\ J3.jc < ColsIn(w) /\ J3.pc < call.k /\ J3.pc % b.k = 0
    BY <1>4, <1>5, <1>11, <1>16, <2>2, <2>3
  <2>7. ASSUME NEW x \in 0 .. RowsIn(w) - 1, NEW y \in 0 .. ColsIn(w) - 1
        PROVE  CountAfter(w, x, y)
                 = IF y < J3.jc THEN CeilDiv(call.k, b.k)
                   ELSE IF y < J3.jc + b.n
                        THEN (J3.pc \div b.k) + (IF x < J3.ic THEN 1 ELSE 0) ELSE 0
    <3>1. x < j.ic + b.m /\ ~(x < 0) BY <1>4, <1>11, <1>12, <1>16
    <3>2. (j.pc \div b.k) + (IF x < j.ic + b.m THEN 1 ELSE 0) = CeilDiv(call.k, b.k)
      BY <1>13, <1>16, <3>1
    <3>3. (J3.pc \div b.k) + (IF x < J3.ic THEN 1 ELSE 0) = 0
      BY <2>2, <2>3, <3>1
    <3>4. CountAfter(w, x, y) = IF y < j.jc + b.n THEN CeilDiv(call.k, b.k) ELSE 0
      <4>1. y \in Int BY <1>4
      <4> QED BY <1>7, <1>11, <1>12, <3>2, <4>1
    <3> QED BY <2>2, <3>3, <3>4
  <2>8. \A x \in 0 .. RowsIn(w) - 1, y \in 0 .. ColsIn(w) - 1 :
            C'[CAt(w, x, y)] = Blocks(slice, j.r0 + x, y, b.k,
              IF y < J3.jc THEN CeilDiv(call.k, b.k)
              ELSE IF y < J3.jc + b.n
                   THEN (J3.pc \div b.k) + (IF x < J3.ic THEN 1 ELSE 0) ELSE 0)
    BY <1>6, <2>7
  <2> QED BY <1>1, <1>9, <1>10, <2>1, <2>2, <2>4, <2>5, <2>6, <2>8, LoopsGoOn DEF b
<1>17. CASE /\ ~(j.ic + b.m < RowsIn(w)) /\ ~(j.pc + b.k < call.k)
            /\ ~(j.jc + b.n < ColsIn(w))
  <2>1. job' = AfterLoops(w) BY <1>17 DEF NextBlock, b
  <2>2. ASSUME NEW x \in 0 .. RowsIn(w) - 1, NEW y \in 0 .. ColsIn(w) - 1
        PROVE  CountAfter(w, x, y) = CeilDiv(call.k, b.k)
    <3>1. x < j.ic + b.m /\ y < j.jc + b.n BY <1>4, <1>11, <1>12, <1>17
    <3>2. (j.pc \div b.k) + (IF x < j.ic + b.m THEN 1 ELSE 0) = CeilDiv(call.k, b.k)
      BY <1>13, <1>17, <3>1
    <3> QED BY <1>7, <3>1, <3>2
  <2>3. \A x \in 0 .. RowsIn(w) - 1, y \in 0 .. ColsIn(w) - 1 :
           C'[CAt(w, x, y)] = Blocks(slice, j.r0 + x, y, b.k, CeilDiv(call.k, b.k))
    BY <1>6, <2>2
  <2> QED BY <1>1, <1>9, <1>10, <2>1, <2>3, LoopsEnd DEF b
<1> QED BY <1>14, <1>15, <1>16, <1>17
-----------------------------------------------------------------------------
(* The steps that add up a block.                                          *)

\* The sums of the block at hand.
SumsOfBlock(w, sums) ==
    LET R == job[w].ic .. job[w].ic + Mc(w) - 1
        S == job[w].jc .. job[w].jc + Nc(w) - 1
    IN  /\ DOMAIN sums = R \X S
        /\ \A i \in R, j \in S :
              sums[<<i, j>>] = Part(slice, job[w].r0 + i, j, job[w].pc, job[w].pc + Kc(w))

LEMMA BlockStored ==
  ASSUME NEW w \in Threads, HasRows(w), CallTyped, job[w] \in JobType, InTheLoops(w),
         NEW sums, SumsOfBlock(w, sums)
  PROVE  BlockAdded(w, Stored(w, FALSE, sums))
<1>1. /\ Mc(w) \in Positive /\ Nc(w) \in Positive
      /\ RowsIn(w) \in Nat /\ RowsIn(w) <= job[w].rows
      /\ ColsIn(w) \in Nat /\ ColsIn(w) <= call.n
      /\ BlockOf(w).m \in Positive /\ BlockOf(w).n \in Positive
  BY BlockSizes
<1>2. /\ job[w].ic \in Nat /\ job[w].jc \in Nat /\ job[w].rows \in Nat /\ call.n \in Nat
      /\ Mc(w) \in Nat /\ Nc(w) \in Nat
  BY <1>1 DEF JobType, HasRows, Sizes, Positive
<1>3. job[w].ic + Mc(w) <= RowsIn(w) /\ job[w].jc + Nc(w) <= ColsIn(w)
  <2>1. BlockOf(w).m \in Nat /\ BlockOf(w).n \in Nat BY <1>1 DEF Positive
  <2> QED BY <1>1, <1>2, <2>1 DEF Mc, Nc, Least
<1> DEFINE R == job[w].ic .. job[w].ic + Mc(w) - 1
           S == job[w].jc .. job[w].jc + Nc(w) - 1
<1>4. R \subseteq Rows(w) /\ S \subseteq Cols BY <1>1, <1>2, <1>3 DEF Rows, Cols
<1>5. /\ \A i \in Rows(w) : i \in R <=> InRange(i, job[w].ic, job[w].ic + Mc(w))
      /\ \A j \in Cols : j \in S <=> InRange(j, job[w].jc, job[w].jc + Nc(w))
  BY <1>2 DEF Rows, Cols, InRange
<1>6. /\ DOMAIN sums = R \X S
      /\ \A i \in R, j \in S :
           sums[<<i, j>>] = Part(slice, job[w].r0 + i, j, job[w].pc, job[w].pc + Kc(w))
  BY DEF SumsOfBlock
<1> HIDE DEF R, S
<1>7. DOMAIN sums \subseteq Rows(w) \X Cols BY <1>4, <1>6
<1>8. OnlyRowsOf(w, Stored(w, FALSE, sums)) BY <1>7, StoredElsewhere
<1>9. ASSUME NEW i \in Rows(w), NEW j \in Cols
      PROVE  Stored(w, FALSE, sums)[CAt(w, i, j)] =
               IF InRange(i, job[w].ic, job[w].ic + Mc(w))
                    /\ InRange(j, job[w].jc, job[w].jc + Nc(w))
               THEN Append(C[CAt(w, i, j)],
                           Part(slice, job[w].r0 + i, j, job[w].pc, job[w].pc + Kc(w)))
               ELSE C[CAt(w, i, j)]
  <2>1. CASE i \in R /\ j \in S
    <3>1. <<i, j>> \in DOMAIN sums BY <1>6, <2>1
    <3>2. Stored(w, FALSE, sums)[CAt(w, i, j)] = Append(C[CAt(w, i, j)], sums[<<i, j>>])
      BY <1>7, <3>1, StoredAdded
    <3> QED BY <1>5, <1>6, <2>1, <3>2
  <2>2. CASE ~(i \in R /\ j \in S)
    <3>1. <<i, j>> \notin DOMAIN sums BY <1>6, <2>2
    <3>2. Stored(w, FALSE, sums)[CAt(w, i, j)] = C[CAt(w, i, j)]
      BY <1>7, <3>1, NotStored
    <3> QED BY <1>5, <2>2, <3>2
  <2> QED BY <2>1, <2>2
<1> QED BY <1>8, <1>9 DEF BlockAdded

LEMMA TilesStep ==
  ASSUME PackInv, GemmInv, OnHost, backend' = backend, NEW w \in Threads, RunTiles(w)
  PROVE  GemmInv'
<1> DEFINE sums == [e \in TileRows(w) \X TileCols(w) |->
                      Dot(w, e[1], e[2], job[w].pc, job[w].pc + Kc(w))]
<1>1. /\ job[w].at = "tiles" /\ job[w].kernel = "tiled" /\ Works(w)
      /\ C' = Stored(w, FALSE, sums) /\ job' = NextBlock(w)
      /\ UNCHANGED <<neon, mode, phase, call, slice, todo, buf>>
  BY DEF RunTiles, At, Works
<1>2. HasRows(w) /\ CallTyped /\ job[w] \in JobType /\ Progress(w) BY <1>1, Worker
<1>3. InTheLoops(w) BY <1>1, <1>2 DEF Progress
<1>4. /\ Mc(w) \in Positive /\ Nc(w) \in Positive
      /\ BlockOf(w).m \in Positive /\ BlockOf(w).n \in Positive
      /\ BlockOf(w).m % Tile = 0 /\ BlockOf(w).n % Tile = 0
  <2>1. TileOf(w) = Tile BY <1>1 DEF TileOf
  <2> QED BY <1>2, <1>3, <2>1, BlockSizes
<1>5. /\ job[w].ic \in Nat /\ job[w].jc \in Nat /\ job[w].rows \in Nat /\ call.n \in Nat
      /\ job[w].ic < RowsIn(w) /\ job[w].jc < ColsIn(w)
      /\ job[w].ic % Tile = 0 /\ job[w].jc % Tile = 0
  BY <1>1, <1>2, <1>3 DEF JobType, HasRows, Sizes, Positive, InTheLoops
<1>6. /\ RowsIn(w) \in Nat /\ RowsIn(w) % Tile = 0
      /\ ColsIn(w) \in Nat /\ ColsIn(w) % Tile = 0
  BY <1>1, <1>5, WholePart DEF RowsIn, ColsIn
<1>7. ASSUME NEW b \in Positive, NEW x \in Nat, NEW r \in Nat, x < r,
             b % Tile = 0, x % Tile = 0, r % Tile = 0
      PROVE  CeilDiv(Least(b, r - x), Tile) * Tile = Least(b, r - x)
  <2>1. Tile \in Positive BY GemmAssumption
  <2>2. (r - x) % Tile = 0 /\ r - x \in Nat BY <1>7, <2>1, TileSums
  <2>3. PICK l \in Nat : l = Least(b, r - x) /\ l % Tile = 0
    <3>1. b \in Nat BY DEF Positive
    <3> QED BY <1>7, <2>2, <3>1 DEF Least
  <2>4. CeilDiv(l, Tile) * Tile = l BY <2>1, <2>3, WholeIsWhole
  <2> QED BY <2>3, <2>4
<1>8. CeilDiv(Mc(w), Tile) * Tile = Mc(w)
  <2>1. PICK b \in Positive, x \in Nat, r \in Nat :
           b = BlockOf(w).m /\ x = job[w].ic /\ r = RowsIn(w)
    BY <1>4, <1>5, <1>6, Zenon
  <2> QED BY <1>4, <1>5, <1>6, <1>7, <2>1 DEF Mc
<1>9. CeilDiv(Nc(w), Tile) * Tile = Nc(w)
  <2>1. PICK b \in Positive, x \in Nat, r \in Nat :
           b = BlockOf(w).n /\ x = job[w].jc /\ r = ColsIn(w)
    BY <1>4, <1>5, <1>6, Zenon
  <2> QED BY <1>4, <1>5, <1>6, <1>7, <2>1 DEF Nc
<1>10. /\ TileRows(w) = job[w].ic .. job[w].ic + Mc(w) - 1
       /\ TileCols(w) = job[w].jc .. job[w].jc + Nc(w) - 1
  BY <1>8, <1>9 DEF TileRows, TileCols
<1>11. BlockAdded(w, Stored(w, FALSE, sums))
  <2>1. DOMAIN sums = (job[w].ic .. job[w].ic + Mc(w) - 1)
                        \X (job[w].jc .. job[w].jc + Nc(w) - 1)
    BY <1>10
  <2>2. ASSUME NEW i \in job[w].ic .. job[w].ic + Mc(w) - 1,
               NEW j \in job[w].jc .. job[w].jc + Nc(w) - 1
        PROVE  sums[<<i, j>>] = Part(slice, job[w].r0 + i, j, job[w].pc, job[w].pc + Kc(w))
    <3>1. sums[<<i, j>>] = Dot(w, i, j, job[w].pc, job[w].pc + Kc(w)) BY <1>10
    <3> QED BY <3>1, DotIsPart
  <2>3. SumsOfBlock(w, sums)
    <3> HIDE DEF sums
    <3> QED BY <2>1, <2>2 DEF SumsOfBlock
  <2> HIDE DEF sums
  <2> QED BY <1>2, <1>3, <2>3, BlockStored
<1> HIDE DEF sums
<1> QED BY <1>1, <1>11, BlockDone

LEMMA MicroStep ==
  ASSUME PackInv, GemmInv, OnHost, backend' = backend, NEW w \in Threads, RunMicroTiles(w)
  PROVE  GemmInv'
<1> DEFINE R == job[w].ic .. job[w].ic + Mc(w) - 1
           S == job[w].jc .. job[w].jc + Nc(w) - 1
           sums == [e \in R \X S |-> MicroSum(w, e[1] - job[w].ic, e[2] - job[w].jc)]
<1>1. /\ job[w].at = "micro" /\ job[w].kernel \in Packers /\ Works(w)
      /\ C' = Stored(w, FALSE, sums) /\ job' = NextBlock(w)
      /\ UNCHANGED <<neon, mode, phase, call, slice, todo, buf>>
  BY DEF RunMicroTiles, At, Works
<1>2. HasRows(w) /\ CallTyped /\ job[w] \in JobType /\ Progress(w) BY <1>1, Worker
<1>3. InTheLoops(w) /\ PanelAHolds(w) /\ PanelBHolds(w)
  BY <1>1, <1>2 DEF Progress, Packers
<1>4. Mc(w) \in Nat /\ Nc(w) \in Nat /\ Kc(w) \in Nat
  BY <1>2, <1>3, BlockSizes DEF Positive
<1>5. job[w].ic \in Nat /\ job[w].jc \in Nat /\ job[w].pc \in Nat /\ job[w].r0 \in Nat
  BY <1>2 DEF JobType, HasRows
<1>6. ASSUME NEW i \in R, NEW j \in S
      PROVE  MicroSum(w, i - job[w].ic, j - job[w].jc)
               = Part(slice, job[w].r0 + i, j, job[w].pc, job[w].pc + Kc(w))
  <2> DEFINE x == i - job[w].ic  y == j - job[w].jc  f == buf[w][job[w].kernel]
  <2>1. /\ x \in 0 .. Mc(w) - 1 /\ job[w].ic + x = i
        /\ y \in 0 .. Nc(w) - 1 /\ job[w].jc + y = j
    BY <1>4, <1>5
  <2> HIDE DEF x, y
  <2>2. (job[w].pc + Kc(w)) - job[w].pc = Kc(w) BY <1>4, <1>5
  <2>3. ASSUME NEW q \in 1 .. Kc(w)
        PROVE  /\ f.a[PanelAt(w, x, q - 1)] = AAt(w, i, job[w].pc + q - 1)
               /\ f.b[PanelAt(w, y, q - 1)] = BAt(job[w].pc + q - 1, j)
    <3>1. q - 1 \in 0 .. Kc(w) - 1 /\ job[w].pc + (q - 1) = job[w].pc + q - 1
      BY <1>4, <1>5
    <3>2. f.a[PanelAt(w, x, q - 1)] = AAt(w, job[w].ic + x, job[w].pc + (q - 1))
      BY <1>3, <2>1, <3>1 DEF PanelAHolds
    <3>3. f.b[PanelAt(w, y, q - 1)] = BAt(job[w].pc + (q - 1), job[w].jc + y)
      BY <1>3, <2>1, <3>1 DEF PanelBHolds
    <3> QED BY <2>1, <3>1, <3>2, <3>3
  <2>4. MicroSum(w, x, y)
          = [q \in 1 .. Kc(w) |-> <<f.a[PanelAt(w, x, q - 1)], f.b[PanelAt(w, y, q - 1)]>>]
    BY DEF MicroSum, PanelAt
  <2>5. MicroSum(w, x, y)
          = [q \in 1 .. Kc(w) |-> <<AAt(w, i, job[w].pc + q - 1), BAt(job[w].pc + q - 1, j)>>]
    BY <2>3, <2>4
  <2>6. Part(slice, job[w].r0 + i, j, job[w].pc, job[w].pc + Kc(w))
          = [q \in 1 .. Kc(w) |-> <<AAt(w, i, job[w].pc + q - 1), BAt(job[w].pc + q - 1, j)>>]
    BY <2>2 DEF Part, AAt, BAt
  <2> QED BY <2>5, <2>6 DEF x, y
<1>7. BlockAdded(w, Stored(w, FALSE, sums))
  <2>1. DOMAIN sums = R \X S OBVIOUS
  <2>2. ASSUME NEW i \in R, NEW j \in S
        PROVE  sums[<<i, j>>] = Part(slice, job[w].r0 + i, j, job[w].pc, job[w].pc + Kc(w))
    <3>1. sums[<<i, j>>] = MicroSum(w, i - job[w].ic, j - job[w].jc) OBVIOUS
    <3> QED BY <1>6, <3>1
  <2>3. SumsOfBlock(w, sums)
    <3> HIDE DEF sums
    <3> QED BY <2>1, <2>2 DEF SumsOfBlock
  <2> HIDE DEF sums
  <2> QED BY <1>2, <1>3, <2>3, BlockStored
<1> HIDE DEF sums
<1> QED BY <1>1, <1>7, BlockDone

LEMMA EdgesStep ==
  ASSUME PackInv, GemmInv, OnHost, backend' = backend, NEW w \in Threads, EdgeStrips(w)
  PROVE  GemmInv'
<1> DEFINE S == ((RowsIn(w) .. job[w].rows - 1) \X Cols)
                  \cup ((0 .. RowsIn(w) - 1) \X (ColsIn(w) .. call.n - 1))
<1>1. /\ job[w].at = "edges" /\ job[w].kernel = "tiled" /\ Works(w)
      /\ C' = Stored(w, TRUE, FullDots(w, S)) /\ job' = [job EXCEPT ![w] = Idle]
      /\ UNCHANGED <<neon, mode, phase, call, slice, todo, buf>>
  BY DEF EdgeStrips, At, Works, Finish
<1>2. /\ HasRows(w) /\ job[w] \in JobType /\ Progress(w)
      /\ job[w].kernel = TheKernel
  BY <1>1, Worker
<1>3. WholeTilesDone(w) BY <1>1, <1>2 DEF Progress
<1>4. /\ job[w].rows \in Nat /\ call.n \in Nat
      /\ RowsIn(w) \in Nat /\ RowsIn(w) <= job[w].rows
      /\ ColsIn(w) \in Nat /\ ColsIn(w) <= call.n
  <2>1. job[w].rows \in Nat /\ call.n \in Nat BY <1>2 DEF HasRows, Sizes, Positive
  <2> QED BY <2>1, PartOfRows
<1>5. S \subseteq Rows(w) \X Cols BY <1>4 DEF Rows, Cols
<1>6. ASSUME NEW i \in Rows(w), NEW j \in Cols, <<i, j>> \notin S
      PROVE  i \in 0 .. RowsIn(w) - 1 /\ j \in 0 .. ColsIn(w) - 1
  BY <1>4, <1>6 DEF Rows, Cols
<1> HIDE DEF S
<1>7. DOMAIN FullDots(w, S) = S BY DEF FullDots
<1>8. OnlyRowsOf(w, Stored(w, TRUE, FullDots(w, S))) BY <1>2, <1>5, <1>7, StoredElsewhere
<1>9. OnlyRowsOf(w, C') BY <1>1, <1>8, Zenon
<1>10. TheKernel = "tiled" /\ TheKernel \notin Packers BY <1>1, <1>2 DEF Packers
<1>11. Block.k \in Depths BY <1>10 DEF Depths
<1>12. ASSUME NEW k \in Rows(w), NEW j \in Cols
       PROVE  \/ TheKernel \notin Packers
                 /\ C'[CAt(w, k, j)] = <<Part(slice, job[w].r0 + k, j, 0, call.k)>>
              \/ \E d \in Depths :
                    C'[CAt(w, k, j)] = Blocks(slice, job[w].r0 + k, j, d, CeilDiv(call.k, d))
  <2>1. CASE <<k, j>> \in S
    <3>1. Stored(w, TRUE, FullDots(w, S))[CAt(w, k, j)] = <<FullDots(w, S)[<<k, j>>]>>
      BY <1>2, <1>5, <1>7, <2>1, StoredAfresh
    <3>2. FullDots(w, S)[<<k, j>>] = Dot(w, k, j, 0, call.k) BY <2>1 DEF FullDots
    <3> QED BY <1>1, <1>10, <3>1, <3>2, DotIsPart
  <2>2. CASE <<k, j>> \notin S
    <3>1. Stored(w, TRUE, FullDots(w, S))[CAt(w, k, j)] = C[CAt(w, k, j)]
      BY <1>2, <1>5, <1>7, <2>2, NotStored
    <3>2. C[CAt(w, k, j)] = Blocks(slice, job[w].r0 + k, j, BlockOf(w).k,
                                   CeilDiv(call.k, BlockOf(w).k))
      BY <1>3, <1>6, <2>2 DEF WholeTilesDone
    <3>3. BlockOf(w).k = Block.k BY <1>1 DEF BlockOf
    <3> QED BY <1>1, <1>11, <3>1, <3>2, <3>3
  <2> QED BY <2>1, <2>2
<1>13. \A i \in AllRows, j \in Cols : InRange(i, job[w].r0, End(w)) => Final(slice, i, j)'
  BY <1>1, <1>2, <1>12, FinishedRows
<1> QED BY <1>1, <1>9, <1>13, WorkStep
-----------------------------------------------------------------------------
(* The loops begin with nothing added up.                                  *)

LEMMA NothingAdded ==
  ASSUME NEW w \in Threads, HasRows(w)
  PROVE  /\ OnlyRowsOf(w, Cleared(w))
         /\ \A i \in Rows(w), j \in Cols : Cleared(w)[CAt(w, i, j)] = <<>>
<1>1. /\ Sizes /\ slice \in Int /\ job[w].r0 \in Nat /\ job[w].rows \in Nat
      /\ End(w) \in Nat /\ End(w) <= call.m
  BY DEF HasRows, End
<1>2. CAt(w, 0, 0) = Cell(slice, job[w].r0, 0) /\ CAt(w, job[w].rows, 0) = Cell(slice, End(w), 0)
  <2>1. job[w].r0 + 0 = job[w].r0 BY <1>1
  <2> QED BY <2>1 DEF CAt, Cell, End
<1> DEFINE R == Cell(slice, job[w].r0, 0) .. Cell(slice, End(w), 0) - 1
<1>3. Cleared(w) = [c \in DOMAIN C |-> IF c \in R THEN <<>> ELSE C[c]]
  BY <1>2 DEF Cleared
<1>4. ASSUME NEW s \in Int, NEW i \in AllRows, NEW j \in Cols
      PROVE  Cell(s, i, j) \in R <=> s = slice /\ job[w].r0 <= i /\ i < End(w)
  <2>1. PICK lo \in Nat, hi \in Nat : lo = job[w].r0 /\ hi = End(w) BY <1>1, Zenon
  <2>2. hi <= call.m BY <1>1, <2>1
  <2>3. Cell(s, i, j) \in Cell(slice, lo, 0) .. Cell(slice, hi, 0) - 1
          <=> s = slice /\ lo <= i /\ i < hi
    BY <1>1, <2>2, RowsOfCells
  <2> QED BY <2>1, <2>3
<1> HIDE DEF R
<1>5. OnlyRowsOf(w, Cleared(w))
  <2> SUFFICES ASSUME NEW s \in 0 .. call.b - 1, NEW i \in AllRows, NEW j \in Cols,
                      s # slice \/ ~InRange(i, job[w].r0, End(w))
               PROVE  Cleared(w)[Cell(s, i, j)] = C[Cell(s, i, j)]
    BY <1>3 DEF OnlyRowsOf
  <2>1. s \in Int OBVIOUS
  <2>2. Cell(s, i, j) \notin R BY <1>4, <2>1 DEF InRange
  <2>3. Cell(s, i, j) \in DOMAIN C BY CellInside DEF HasRows
  <2> QED BY <1>3, <2>2, <2>3
<1>6. ASSUME NEW i \in Rows(w), NEW j \in Cols
      PROVE  Cleared(w)[CAt(w, i, j)] = <<>>
  <2>1. /\ job[w].r0 + i \in AllRows /\ InRange(job[w].r0 + i, job[w].r0, End(w))
        /\ CAt(w, i, j) = Cell(slice, job[w].r0 + i, j) /\ CAt(w, i, j) \in DOMAIN C
    BY CellsOfThread
  <2>2. PICK k \in AllRows : k = job[w].r0 + i BY <2>1, Zenon
  <2>3. Cell(slice, k, j) \in R BY <1>1, <1>4, <2>1, <2>2 DEF InRange
  <2> QED BY <1>3, <2>1, <2>2, <2>3
<1> QED BY <1>5, <1>6

LEMMA BlocklessIsEmpty ==
  ASSUME NEW s, NEW i, NEW j, NEW d
  PROVE  Blocks(s, i, j, d, 0) = <<>>
BY DEF Blocks

LEMMA ClearedStep ==
  ASSUME PackInv, GemmInv, OnHost, backend' = backend, NEW w \in Threads, Clear(w)
  PROVE  GemmInv'
<1>1. /\ job[w].at = "start" /\ job[w].kernel \in {"tiled"} \cup Packers /\ Works(w)
      /\ C' = Cleared(w) /\ job' = LoopsBegin(w)
      /\ UNCHANGED <<neon, mode, phase, call, slice, todo>>
  BY DEF Clear, At, Works, Packers
<1>2. /\ HasRows(w) /\ CallTyped /\ job[w] \in JobType
      /\ DOMAIN job = Threads /\ DOMAIN buf = Threads
  BY <1>1, Worker
<1>3. \A u \in Threads : u # w => buf'[u] = buf[u]
  <2>1. buf' = buf \/ buf' = Ensured(w) BY DEF Clear
  <2> QED BY <1>2, <2>1 DEF Ensured
<1>4. OnlyRowsOf(w, C') /\ \A i \in Rows(w), j \in Cols : C'[CAt(w, i, j)] = <<>>
  BY <1>1, <1>2, NothingAdded
<1>5. /\ job[w].rows \in Nat /\ call.n \in Nat /\ call.k \in Nat
      /\ RowsIn(w) \in Nat /\ RowsIn(w) <= job[w].rows
      /\ ColsIn(w) \in Nat /\ ColsIn(w) <= call.n
  <2>1. job[w].rows \in Nat /\ call.n \in Nat /\ call.k \in Nat
    BY <1>2 DEF HasRows, Sizes, Positive
  <2> QED BY <2>1, PartOfRows
<1>6. ASSUME NEW i \in 0 .. RowsIn(w) - 1, NEW j \in 0 .. ColsIn(w) - 1
      PROVE  C'[CAt(w, i, j)] = <<>>
  <2>1. i \in Rows(w) /\ j \in Cols BY <1>5 DEF Rows, Cols
  <2> QED BY <1>4, <2>1
<1>7. BlockOf(w).k \in Positive /\ BlockOf(w).n \in Positive
  BY <1>2, BlockTyped DEF IsBlock
<1>8. CASE RowsIn(w) = 0 \/ ColsIn(w) = 0 \/ call.k = 0
  <2>1. job' = AfterLoops(w) BY <1>1, <1>8 DEF LoopsBegin
  <2>2. ASSUME NEW i \in 0 .. RowsIn(w) - 1, NEW j \in 0 .. ColsIn(w) - 1
        PROVE  C'[CAt(w, i, j)]
                 = Blocks(slice, job[w].r0 + i, j, BlockOf(w).k, CeilDiv(call.k, BlockOf(w).k))
    <3>1. call.k = 0 BY <1>5, <1>8
    <3>2. CeilDiv(call.k, BlockOf(w).k) = 0 BY <1>7, <3>1, NoBlocks
    <3> QED BY <1>6, <3>2, BlocklessIsEmpty
  <2> QED BY <1>1, <1>3, <1>4, <2>1, <2>2, LoopsEnd
<1>9. CASE ~(RowsIn(w) = 0 \/ ColsIn(w) = 0 \/ call.k = 0)
  <2> DEFINE J == [job[w] EXCEPT !.at = InLoops(w)]
  <2>1. job' = [job EXCEPT ![w] = J] BY <1>1, <1>9 DEF LoopsBegin
  <2>2. job[w].ic = 0 /\ job[w].jc = 0 /\ job[w].pc = 0 BY <1>1 DEF PackInv, InBlock
  <2>3. /\ J.kernel = job[w].kernel /\ J.r0 = job[w].r0 /\ J.rows = job[w].rows
        /\ J.ic = 0 /\ J.jc = 0 /\ J.pc = 0 /\ J.at = InLoops(w)
    BY <1>2, <2>2 DEF JobType
  <2> HIDE DEF J
  <2>4. \/ J.kernel = "tiled" /\ J.at = "tiles"
        \/ J.kernel \in Packers /\ J.at = "packB"
    BY <1>1, <2>3 DEF InLoops, Packers
  <2>5. J.ic < RowsIn(w) /\ J.jc < ColsIn(w) /\ J.pc < call.k BY <1>5, <1>9, <2>3
  <2>6. 0 % Tile = 0 /\ 0 % BlockOf(w).k = 0 /\ 0 \div BlockOf(w).k = 0
    BY <1>7, NoMultiple, GemmAssumption
  <2>7. J.kernel = "tiled" => J.ic % Tile = 0 /\ J.jc % Tile = 0 BY <2>3, <2>6
  <2>8. J.pc % BlockOf(w).k = 0 BY <2>3, <2>6
  <2>9. ASSUME NEW i \in 0 .. RowsIn(w) - 1, NEW j \in 0 .. ColsIn(w) - 1
        PROVE  C'[CAt(w, i, j)] = Blocks(slice, job[w].r0 + i, j, BlockOf(w).k,
                  IF j < J.jc THEN CeilDiv(call.k, BlockOf(w).k)
                  ELSE IF j < J.jc + BlockOf(w).n
                       THEN (J.pc \div BlockOf(w).k) + (IF i < J.ic THEN 1 ELSE 0) ELSE 0)
    <3>1. ~(j < J.jc) /\ ~(i < J.ic) BY <1>5, <2>3
    <3>2. (J.pc \div BlockOf(w).k) + (IF i < J.ic THEN 1 ELSE 0) = 0 BY <2>3, <2>6, <3>1
    <3> QED BY <1>6, <3>1, <3>2, BlocklessIsEmpty
  <2> QED BY <1>1, <1>3, <1>4, <2>1, <2>3, <2>4, <2>5, <2>7, <2>8, <2>9, LoopsGoOn
<1> QED BY <1>8, <1>9
-----------------------------------------------------------------------------
LEMMA KernelStepsKeep ==
  ASSUME PackInv, GemmInv, OnHost, backend' = backend, NEW w \in Threads, KernelStep(w)
  PROVE  GemmInv'
BY RegisterStep, ReorderedStep, ClearedStep, TilesStep, EdgesStep, PackBValues, PackAValues,
   MicroStep DEF KernelStep
-----------------------------------------------------------------------------
(* Who gets which rows.                                                    *)

LEMMA RowRangesSplit ==
  ASSUME NEW m \in Positive
  PROVE  /\ \A x \in DOMAIN RowRanges(m) :
              0 <= RowRanges(m)[x][1] /\ RowRanges(m)[x][2] <= m
         /\ \A x, y \in DOMAIN RowRanges(m) :
              x < y => RowRanges(m)[x][2] <= RowRanges(m)[y][1]
         /\ \A i \in 0 .. m - 1 : \E x \in DOMAIN RowRanges(m) :
              InRange(i, RowRanges(m)[x][1], RowRanges(m)[x][2])
<1>1. m \in Nat /\ m >= 1 /\ PoolThreads \in Positive BY GemmAssumption DEF Positive
<1>2. PICK d \in Positive : d = CeilDiv(m, PoolThreads)
  <2>1. PICK d \in Nat : d = CeilDiv(m, PoolThreads) /\ m <= d * PoolThreads
    BY <1>1, BlocksCover
  <2>2. d # 0
    <3>1. 0 * PoolThreads = 0 BY <1>1, SMTT(30) DEF Positive
    <3> QED BY <1>1, <2>1, <3>1
  <2> QED BY <2>1, <2>2 DEF Positive
<1>3. d \in Nat /\ d >= 1 /\ 0 \in 0 .. d - 1 BY DEF Positive
<1>4. PICK p \in Nat, r \in 0 .. d - 1 : p = (m - 1) \div d /\ m - 1 = p * d + r
  <2>1. m - 1 \in Int /\ m - 1 \in Nat BY <1>1
  <2>2. /\ (m - 1) \div d \in Nat /\ (m - 1) % d \in 0 .. d - 1
        /\ m - 1 = ((m - 1) \div d) * d + ((m - 1) % d)
    BY <2>1, Division, Zenon
  <2> QED BY <2>2, Zenon
<1>5. RowRanges(m) = [x \in 1 .. p + 1 |-> <<(x - 1) * d, Least(x * d, m)>>]
  BY <1>2, <1>4 DEF RowRanges
<1>6. \A x \in 1 .. p + 1 :
         RowRanges(m)[x][1] = (x - 1) * d /\ RowRanges(m)[x][2] = Least(x * d, m)
  BY <1>5
<1>7. DOMAIN RowRanges(m) = 1 .. p + 1 BY <1>5
<1>8. ASSUME NEW x \in 1 .. p + 1 PROVE 0 <= (x - 1) * d /\ Least(x * d, m) <= m
  <2>1. PICK y \in Nat : y = x - 1 OBVIOUS
  <2>2. y * d \in Nat /\ x * d \in Nat BY <1>3, SMTT(30)
  <2>3. 0 <= (x - 1) * d BY <2>1, <2>2
  <2> QED BY <1>1, <2>2, <2>3 DEF Least
<1>9. ASSUME NEW x \in 1 .. p + 1, NEW y \in 1 .. p + 1, x < y
      PROVE  Least(x * d, m) <= (y - 1) * d
  <2>1. PICK z \in Int : z = y - 1 /\ x <= z BY <1>9
  <2>2. x \in Int OBVIOUS
  <2>3. x * d \in Int /\ z * d \in Int /\ x * d <= z * d + 0 BY <1>3, <2>1, <2>2, Multiples
  <2> DEFINE a == x * d  b == z * d
  <2>4. a \in Int /\ b \in Int /\ a <= b BY <2>3
  <2> HIDE DEF a, b
  <2>5. Least(a, m) <= b BY <1>1, <2>4 DEF Least
  <2> QED BY <2>1, <2>5 DEF a, b
<1>10. ASSUME NEW i \in 0 .. m - 1
       PROVE  \E x \in 1 .. p + 1 : InRange(i, (x - 1) * d, Least(x * d, m))
  <2>1. PICK q \in Nat, e \in 0 .. d - 1 : i = q * d + e
    <3>1. i \in Int /\ i \in Nat BY <1>1
    <3>2. i \div d \in Nat /\ i % d \in 0 .. d - 1 /\ i = (i \div d) * d + (i % d)
      BY <3>1, Division, Zenon
    <3> QED BY <3>2, Zenon
  <2>2. q * d \in Nat /\ p * d \in Nat BY <1>3, SMTT(30)
  <2>3. q <= p
    <3>1. q * d <= p * d + r
      <4> DEFINE a == q * d  b == p * d
      <4>1. a \in Nat /\ b \in Nat /\ i = a + e /\ m - 1 = b + r BY <1>4, <2>1, <2>2
      <4> HIDE DEF a, b
      <4>2. a <= b + r BY <1>1, <1>3, <4>1
      <4> QED BY <4>2 DEF a, b
    <3> QED BY <3>1, Multiples
  <2> DEFINE x == q + 1
  <2>4. x \in 1 .. p + 1 /\ x - 1 = q BY <2>3
  <2>5. x * d = q * d + d BY <1>3, SMTT(30)
  <2>6. InRange(i, (x - 1) * d, Least(x * d, m))
    <3>1. (x - 1) * d = q * d BY <2>4
    <3> DEFINE a == q * d  b == x * d
    <3>2. a \in Nat /\ b = a + d /\ i = a + e BY <2>1, <2>2, <2>5
    <3> HIDE DEF a, b, x
    <3>3. a <= i /\ i < Least(b, m) BY <1>1, <1>3, <3>2 DEF Least
    <3> QED BY <3>1, <3>3 DEF InRange, a, b
  <2> QED BY <2>4, <2>6
<1> QED BY <1>6, <1>7, <1>8, <1>9, <1>10

\* Nothing that is said of the cells changes.
LEMMA FinalStays ==
  ASSUME UNCHANGED <<neon, mode, call, C>>, NEW s, NEW i, NEW j, Final(s, i, j)
  PROVE  Final(s, i, j)'
BY FinalKept

LEMMA SlicesStay ==
  ASSUME UNCHANGED <<neon, mode, call, C>>, NEW s, SliceFinal(s)
  PROVE  SliceFinal(s)'
<1>1. AllRows' = AllRows /\ Cols' = Cols BY DEF AllRows, Cols
<1>2. ASSUME NEW i \in AllRows, NEW j \in Cols PROVE Final(s, i, j)'
  BY FinalStays DEF SliceFinal
<1> QED BY <1>1, <1>2 DEF SliceFinal

\* A thread that nothing has happened to.
LEMMA StillAtIt ==
  ASSUME PackInv, GemmInv, OnHost, UNCHANGED <<neon, mode, call, slice, C>>,
         NEW u \in Threads, Works(u), job'[u] = job[u], buf'[u] = buf[u]
  PROVE  Progress(u)'
<1>1. HasRows(u) /\ Progress(u) BY Worker
<1>2. Sizes /\ job[u].rows \in Nat BY <1>1 DEF HasRows
<1>3. \A i \in Rows(u), j \in Cols : C'[CAt(u, i, j)] = C[CAt(u, i, j)] OBVIOUS
<1> QED BY <1>1, <1>2, <1>3, ProgressKept

LEMMA ClaimKeeps ==
  ASSUME PackInv, GemmInv, OnHost, backend' = backend, NEW w \in Threads, Claim(w)
  PROVE  GemmInv'
<1> DEFINE h == Head(todo)  J == NewJob("threaded", h)
<1>1. /\ todo # <<>> /\ todo \in Seq(RowRange) /\ ~Works(w) /\ DOMAIN job = Threads
      /\ phase = "running"
  BY DEF Claim, PackInv, Typed, Works, Idle
<1>2. /\ job' = [job EXCEPT ![w] = J] /\ todo' = Tail(todo)
      /\ UNCHANGED <<neon, mode, phase, call, slice, buf, C>>
  BY DEF Claim
<1>3. /\ IsProduct /\ Settled /\ SliceInv /\ slice \in 0 .. call.b - 1
      /\ \A s \in 0 .. slice - 1 : SliceFinal(s)
  BY <1>1 DEF GemmInv
<1>4. /\ 1 \in DOMAIN todo /\ h = todo[1] /\ h \in RowRange
      /\ \A x \in DOMAIN todo' : x \in Nat /\ x + 1 \in DOMAIN todo /\ todo'[x] = todo[x + 1]
                                 /\ 1 < x + 1
      /\ \A x \in DOMAIN todo : x = 1 \/ (x - 1 \in DOMAIN todo' /\ todo'[x - 1] = todo[x])
  BY <1>1, <1>2
<1>5. /\ J.at = "start" /\ J.kernel = KernelOf("threaded") /\ J.r0 = h[1]
      /\ J.rows = h[2] - h[1]
  BY DEF NewJob
<1>6. h[1] \in Int /\ h[2] \in Int /\ h[1] + (h[2] - h[1]) = h[2] BY <1>4 DEF RowRange
<1> HIDE DEF J, h
<1>7. /\ job'[w] = J /\ Works(w)' /\ End(w)' = h[2] /\ job'[w].r0 = h[1]
  BY <1>1, <1>2, <1>5, <1>6 DEF Works, End
<1>8. ASSUME NEW u \in Threads, u # w
      PROVE  job'[u] = job[u] /\ Works(u)' = Works(u) /\ End(u)' = End(u)
  <2>1. job'[u] = job[u] BY <1>2, <1>8
  <2> QED BY <2>1 DEF Works, End
<1>9. RangesApart /\ (todo # <<>> => Route(mode) = "threaded") BY <1>3 DEF SliceInv
<1>10. RangesApart'
  <2>1. \A x \in DOMAIN todo' : 0 <= todo'[x][1] /\ todo'[x][2] <= call'.m
    BY <1>2, <1>4, <1>9 DEF RangesApart
  <2>2. \A x, y \in DOMAIN todo' : x < y => todo'[x][2] <= todo'[y][1]
    <3> SUFFICES ASSUME NEW x \in DOMAIN todo', NEW y \in DOMAIN todo', x < y
                 PROVE  todo'[x][2] <= todo'[y][1]
      OBVIOUS
    <3>1. /\ x + 1 \in DOMAIN todo /\ todo'[x] = todo[x + 1]
          /\ y + 1 \in DOMAIN todo /\ todo'[y] = todo[y + 1] /\ x + 1 < y + 1
      BY <1>4
    <3> QED BY <3>1, <1>9 DEF RangesApart
  <2>3. 0 <= h[1] /\ h[2] <= call'.m BY <1>2, <1>4, <1>9 DEF RangesApart
  <2>4. \A x \in DOMAIN todo' : h[2] <= todo'[x][1]
    <3> SUFFICES ASSUME NEW x \in DOMAIN todo' PROVE h[2] <= todo'[x][1] OBVIOUS
    <3>1. x + 1 \in DOMAIN todo /\ todo'[x] = todo[x + 1] /\ 1 < x + 1 BY <1>4
    <3>2. todo[1][2] <= todo[x + 1][1] BY <1>4, <1>9, <3>1 DEF RangesApart
    <3> QED BY <1>4, <3>1, <3>2
  <2>5. ASSUME NEW u \in Threads, u # w, Works(u)
        PROVE  /\ 0 <= job'[u].r0 /\ End(u)' <= call'.m
               /\ \A x \in DOMAIN todo' : End(u)' <= todo'[x][1]
               /\ End(u)' <= h[1]
    <3>1. /\ 0 <= job[u].r0 /\ End(u) <= call.m
          /\ \A x \in DOMAIN todo : End(u) <= todo[x][1]
      BY <1>9, <2>5 DEF RangesApart
    <3> QED BY <3>1, <1>2, <1>4, <1>8, <2>5
  <2>6. ASSUME NEW u \in Threads, NEW v \in Threads, u # v, Works(u)', Works(v)'
        PROVE  End(u)' <= job'[v].r0 \/ End(v)' <= job'[u].r0
    <3>1. CASE u # w /\ v # w
      <4>1. Works(u) /\ Works(v) BY <1>8, <2>6, <3>1
      <4>2. End(u) <= job[v].r0 \/ End(v) <= job[u].r0
        BY <1>9, <2>6, <4>1 DEF RangesApart
      <4> QED BY <1>8, <3>1, <4>2
    <3>2. CASE u = w
      <4>1. v # w /\ Works(v) BY <1>8, <2>6, <3>2
      <4> QED BY <1>7, <2>5, <3>2, <4>1
    <3>3. CASE v = w
      <4>1. u # w /\ Works(u) BY <1>8, <2>6, <3>3
      <4> QED BY <1>7, <2>5, <3>3, <4>1
    <3> QED BY <3>1, <3>2, <3>3
  <2>7. ASSUME NEW u \in Threads, Works(u)'
        PROVE  /\ 0 <= job'[u].r0 /\ End(u)' <= call'.m
               /\ \A x \in DOMAIN todo' : End(u)' <= todo'[x][1]
    BY <1>7, <1>8, <2>3, <2>4, <2>5, <2>7
  <2> QED BY <2>1, <2>2, <2>6, <2>7 DEF RangesApart
<1>11. TheKernel' = TheKernel /\ Route(mode)' = Route(mode)
  BY <1>2 DEF TheKernel, KernelOf, Route
<1>12. ASSUME NEW u \in Threads, Works(u)'
       PROVE  /\ job'[u].kernel = TheKernel'
              /\ job'[u].kernel = "reorder" => job'[u].r0 = 0 /\ job'[u].rows = call'.m
              /\ Progress(u)'
  <2>1. CASE u = w
    <3>1. TheKernel = KernelOf("threaded") BY <1>1, <1>9 DEF TheKernel
    <3>2. KernelOf("threaded") # "reorder" BY DEF KernelOf
    <3>3. job'[w].at = "start" BY <1>5, <1>7
    <3>4. Progress(w)' BY <3>3 DEF Progress
    <3> QED BY <1>5, <1>7, <1>11, <2>1, <3>1, <3>2, <3>4
  <2>2. CASE u # w
    <3>1. Works(u) /\ job'[u] = job[u] BY <1>8, <1>12, <2>2
    <3>2. Progress(u)' BY <1>2, <3>1, StillAtIt
    <3> QED BY <1>2, <1>3, <1>11, <3>1, <3>2 DEF SliceInv
  <2> QED BY <2>1, <2>2
<1>13. ASSUME NEW i \in AllRows PROVE Waits(i)' \/ \A j \in Cols : Final(slice, i, j)'
  <2>1. CASE Waits(i)
    <3>1. ASSUME NEW x \in DOMAIN todo, InRange(i, todo[x][1], todo[x][2]) PROVE Waits(i)'
      <4>1. CASE x = 1
        <5>1. InRange(i, job'[w].r0, End(w)') BY <1>4, <1>7, <3>1, <4>1
        <5> QED BY <1>7, <5>1 DEF Waits, InRange
      <4>2. CASE x # 1
        <5>1. x - 1 \in DOMAIN todo' /\ todo'[x - 1] = todo[x] BY <1>4, <4>2
        <5> QED BY <3>1, <5>1 DEF Waits, InRange
      <4> QED BY <4>1, <4>2
    <3>2. ASSUME NEW u \in Threads, Works(u), InRange(i, job[u].r0, End(u)) PROVE Waits(i)'
      <4>1. u # w BY <1>1, <3>2
      <4>2. Works(u)' /\ job'[u] = job[u] /\ End(u)' = End(u) BY <1>8, <3>2, <4>1
      <4> QED BY <3>2, <4>2 DEF Waits, InRange
    <3> QED BY <2>1, <3>1, <3>2 DEF Waits
  <2>2. CASE ~Waits(i)
    <3>1. \A j \in Cols : Final(slice, i, j) BY <1>3, <2>2 DEF SliceInv
    <3> QED BY <1>2, <3>1, FinalStays
  <2> QED BY <2>1, <2>2
<1>14. SliceInv'
  <2>1. AllRows' = AllRows /\ Cols' = Cols BY <1>2 DEF AllRows, Cols
  <2>2. \A i \in AllRows' : Waits(i)' \/ \A j \in Cols' : Final(slice, i, j)'
    BY <1>13, <2>1
  <2>3. Route(mode)' = "threaded" BY <1>1, <1>9, <1>11
  <2> QED BY <1>10, <1>12, <2>2, <2>3 DEF SliceInv
<1>15. \A s \in 0 .. slice - 1 : SliceFinal(s)' BY <1>2, <1>3, SlicesStay
<1>16. OnHost' /\ IsProduct' /\ Settled'
  BY <1>2, <1>3 DEF OnHost, IsProduct, IsGemm, Settled
<1> QED BY <1>1, <1>2, <1>3, <1>14, <1>15, <1>16 DEF GemmInv

LEMMA DispatchKeeps ==
  ASSUME PackInv, GemmInv, OnHost, backend' = backend, Dispatch
  PROVE  GemmInv'
<1>1. /\ phase = "dispatch" /\ phase' = "running" /\ mode' \in ReadMode
      /\ todo = <<>> /\ \A w \in Threads : ~Works(w)
      /\ DOMAIN job = Threads /\ CallTyped
      /\ UNCHANGED <<neon, call, slice, buf, C>>
  BY DEF Dispatch, PackInv, Typed, Works, Idle
<1>2. /\ IsProduct /\ slice \in 0 .. call.b - 1 /\ (slice > 0 => Settled)
      /\ \A s \in 0 .. slice - 1 : SliceFinal(s)
  BY <1>1 DEF GemmInv
<1>3. IsProduct' /\ OnHost' BY <1>1, <1>2 DEF IsProduct, IsGemm, OnHost
<1>4. Settled' BY <1>1 DEF Settled, ReadMode, Modes
<1>5. \A s \in 0 .. slice - 1 : SliceFinal(s)'
  <2>1. CASE slice = 0 BY <2>1
  <2>2. CASE slice # 0
    <3>1. slice > 0 BY <1>2, <2>2 DEF IsProduct, Positive
    <3>2. mode' = mode BY <1>1, <1>2, <3>1 DEF Settled, ReadMode
    <3> QED BY <1>1, <1>2, <3>2, SlicesStay
  <2> QED BY <2>1, <2>2
<1>6. call.m \in Positive /\ call.m \in Nat /\ call'.m = call.m
  BY <1>1 DEF CallTyped, Positive
<1>7. SliceInv'
  <2>1. CASE Route(mode') = "threaded"
    <3>1. todo' = RowRanges(call.m) /\ job' = job BY <2>1 DEF Dispatch
    <3>2. \A w \in Threads : ~Works(w)' BY <1>1, <3>1 DEF Works
    <3>3. RangesApart' BY <1>6, <3>1, <3>2, RowRangesSplit DEF RangesApart
    <3>4. \A i \in 0 .. call.m - 1 : Waits(i)'
      BY <1>6, <3>1, RowRangesSplit DEF Waits, InRange
    <3>5. Route(mode)' = "threaded" BY <1>1, <2>1 DEF Route
    <3>6. AllRows' = 0 .. call.m - 1 BY <1>6 DEF AllRows
    <3> QED BY <3>2, <3>3, <3>4, <3>5, <3>6 DEF SliceInv
  <2>2. CASE Route(mode') # "threaded"
    <3> DEFINE J == NewJob(Route(mode'), <<0, call.m>>)
    <3>1. todo' = todo /\ job' = [job EXCEPT ![0] = J] BY <2>2 DEF Dispatch
    <3>2. 0 \in Threads BY GemmAssumption DEF Threads, Positive
    <3>3. /\ J.at = "start" /\ J.kernel = KernelOf(Route(mode')) /\ J.r0 = 0
          /\ J.rows = call.m - 0
      BY DEF NewJob
    <3> HIDE DEF J
    <3>4. J.rows = call.m /\ 0 + J.rows = call.m BY <1>6, <3>3
    <3>5. /\ job'[0] = J /\ Works(0)' /\ End(0)' = call.m /\ job'[0].r0 = 0
          /\ \A w \in Threads : w # 0 => ~Works(w)'
      BY <1>1, <3>1, <3>2, <3>3, <3>4 DEF Works, End
    <3>6. RangesApart' BY <1>1, <1>6, <3>1, <3>5 DEF RangesApart
    <3>7. \A i \in 0 .. call.m - 1 : Waits(i)'
      BY <1>6, <3>2, <3>5 DEF Waits, InRange
    <3>8. TheKernel' = KernelOf(Route(mode')) BY <1>1 DEF TheKernel, KernelOf, Route
    <3>9. Progress(0)' BY <3>3, <3>5 DEF Progress
    <3>10. AllRows' = 0 .. call.m - 1 BY <1>6 DEF AllRows
    <3>11. todo' = <<>> BY <1>1, <3>1
    <3> QED BY <1>6, <3>3, <3>4, <3>5, <3>6, <3>7, <3>8, <3>9, <3>10, <3>11 DEF SliceInv
  <2> QED BY <2>1, <2>2
<1> QED BY <1>1, <1>2, <1>3, <1>4, <1>5, <1>7 DEF GemmInv

LEMMA EndSliceKeeps ==
  ASSUME PackInv, GemmInv, OnHost, backend' = backend, EndSlice
  PROVE  GemmInv'
<1>1. /\ phase = "running" /\ todo = <<>> /\ (\A w \in Threads : ~Works(w))
      /\ CallTyped /\ slice' = slice + 1
      /\ phase' = IF slice + 1 = call.b THEN "returned" ELSE "dispatch"
      /\ UNCHANGED <<neon, mode, call, C>>
  BY DEF EndSlice, PackInv, Typed, Works, Idle
<1>2. /\ IsProduct /\ Settled /\ SliceInv /\ slice \in 0 .. call.b - 1
      /\ \A s \in 0 .. slice - 1 : SliceFinal(s)
  BY <1>1 DEF GemmInv
<1>3. SliceFinal(slice)
  <2>1. \A i \in AllRows : ~Waits(i) BY <1>1 DEF Waits
  <2> QED BY <1>2, <2>1 DEF SliceInv, SliceFinal
<1>4. call.b \in Nat BY <1>2 DEF IsProduct, Positive
<1>5. \A s \in 0 .. slice : SliceFinal(s)'
  <2>1. \A s \in 0 .. slice : SliceFinal(s) BY <1>2, <1>3, <1>4
  <2> QED BY <1>1, <2>1, SlicesStay
<1>6. IsProduct' /\ Settled' /\ CallTyped' /\ OnHost' /\ IsGemm'
  BY <1>1, <1>2 DEF IsProduct, IsGemm, OnHost, Settled, CallTyped
<1>7. CASE slice + 1 = call.b
  <2>1. phase' = "returned" /\ 0 .. call'.b - 1 = 0 .. slice BY <1>1, <1>2, <1>4, <1>7
  <2> QED BY <1>5, <1>6, <2>1 DEF GemmInv
<1>8. CASE slice + 1 # call.b
  <2>1. /\ phase' = "dispatch" /\ slice' \in 0 .. call'.b - 1 /\ 0 .. slice' - 1 = 0 .. slice
    BY <1>1, <1>2, <1>4, <1>8
  <2> QED BY <1>5, <1>6, <2>1 DEF GemmInv
<1> QED BY <1>7, <1>8

LEMMA BeginKeeps ==
  ASSUME PackInv, GemmInv, OnHost, backend' = backend, GemmCall
  PROVE  GemmInv'
<1>1. PICK v \in Variants, p \in Problems, x \in DOMAIN NeonBlocks : Begin(v, p, NeonBlocks[x])
  BY DEF GemmCall
<1>2. p \in [b : Positive, m : Positive, n : Positive, k : Nat] BY GemmAssumption
<1>3. /\ call' = [v |-> v, b |-> p.b, m |-> p.m, n |-> p.n, k |-> p.k, blk |-> NeonBlocks[x]]
      /\ slice' = 0 /\ phase' = "dispatch" /\ (p.b > 1 => v = "auto")
      /\ DOMAIN C' = 0 .. p.b * p.m * p.n - 1
  BY <1>1 DEF Begin
<1>4. /\ call'.v = v /\ call'.b = p.b /\ call'.m = p.m /\ call'.n = p.n /\ "v" \in DOMAIN call'
  BY <1>3
<1>5. IsProduct' /\ OnHost' BY <1>2, <1>3, <1>4 DEF IsProduct, IsGemm, OnHost
<1>6. slice' \in 0 .. call'.b - 1 /\ 0 .. slice' - 1 = {}
  BY <1>2, <1>3, <1>4 DEF Positive
<1> QED BY <1>3, <1>5, <1>6 DEF GemmInv

LEMMA StutterKeeps ==
  ASSUME PackInv, GemmInv, OnHost, UNCHANGED <<backend, gemmVars>>
  PROVE  GemmInv'
<1>1. UNCHANGED <<neon, mode, phase, call, slice, todo, job, buf, C, backend>>
  BY DEF gemmVars
<1>2. \A s : SliceFinal(s) => SliceFinal(s)' BY <1>1, SlicesStay
<1>3. /\ OnHost' /\ (IsProduct => IsProduct') /\ (Settled => Settled')
      /\ (CallTyped => CallTyped') /\ IsGemm' = IsGemm
  BY <1>1 DEF OnHost, IsProduct, IsGemm, Settled, CallTyped
<1>4. ASSUME SliceInv PROVE SliceInv'
  <2>1. RangesApart' BY <1>1, <1>4 DEF SliceInv, RangesApart, Works, End
  <2>2. (todo # <<>> => Route(mode) = "threaded")' BY <1>1, <1>4 DEF SliceInv, Route
  <2>3. TheKernel' = TheKernel BY <1>1 DEF TheKernel, KernelOf, Route
  <2>4. ASSUME NEW w \in Threads, Works(w)'
        PROVE  /\ job'[w].kernel = TheKernel'
               /\ job'[w].kernel = "reorder" => job'[w].r0 = 0 /\ job'[w].rows = call'.m
               /\ Progress(w)'
    <3>1. Works(w) BY <1>1, <2>4 DEF Works
    <3>2. Progress(w)' BY <1>1, <3>1, StillAtIt
    <3> QED BY <1>1, <1>4, <2>3, <3>1, <3>2 DEF SliceInv
  <2>5. \A i \in AllRows' : Waits(i)' \/ \A j \in Cols' : Final(slice, i, j)'
    <3>1. AllRows' = AllRows /\ Cols' = Cols BY <1>1 DEF AllRows, Cols
    <3>2. \A i : Waits(i) => Waits(i)' BY <1>1 DEF Waits, InRange, Works, End
    <3>3. \A i \in AllRows, j \in Cols : Final(slice, i, j) => Final(slice, i, j)'
      BY <1>1, FinalStays
    <3> QED BY <1>4, <3>1, <3>2, <3>3 DEF SliceInv
  <2> QED BY <2>1, <2>2, <2>4, <2>5 DEF SliceInv
<1> QED BY <1>1, <1>2, <1>3, <1>4 DEF GemmInv

LEMMA GemmNextKeeps ==
  ASSUME PackInv, GemmInv, OnHost, backend' = backend, [GemmNext]_gemmVars
  PROVE  GemmInv'
<1>1. ASSUME NEW w \in Threads, Claim(w) \/ KernelStep(w) PROVE GemmInv'
  BY <1>1, ClaimKeeps, KernelStepsKeep
<1>2. CASE Dispatch BY <1>2, DispatchKeeps
<1>3. CASE EndSlice BY <1>3, EndSliceKeeps
<1>4. CASE GemmCall BY <1>4, BeginKeeps
<1>5. CASE UNCHANGED gemmVars BY <1>5, StutterKeeps
<1> QED BY <1>1, <1>2, <1>3, <1>4, <1>5 DEF GemmNext, GemmStep, GemmDone

LEMMA GemmInvInit == KernelInit => GemmInv
BY DEF KernelInit, GemmInit, GemmInv

LEMMA GemmInvNext == BufferInv /\ GemmInv /\ [KernelNext]_kernelVars => GemmInv'
<1> SUFFICES ASSUME BufferInv, GemmInv, [KernelNext]_kernelVars PROVE GemmInv' OBVIOUS
<1>1. CASE OnHost /\ (GemmNext /\ UNCHANGED <<backend, launchVars>>)
  BY <1>1, GemmNextKeeps DEF BufferInv
<1>2. ASSUME NEW o \in Operations, call' = o, phase' = "returned" \/ (phase' = "running" /\ ~OnHost')
      PROVE  GemmInv'
  <2>1. ~IsGemm' BY <1>2, OperationsAssumption DEF IsGemm
  <2> QED BY <1>2, <2>1 DEF GemmInv
<1>3. ASSUME NEW o \in Operations, RunHost(o) \/ CallCublas(o) PROVE GemmInv'
  BY <1>2, <1>3 DEF RunHost, CallCublas
<1>4. ASSUME NEW o \in Operations, Launch(o) PROVE GemmInv'
  BY <1>2, <1>4 DEF Launch, Ask, HostUnchanged, OnHost
<1>5. ASSUME ~OnHost, phase # "outside" \/ phase' = "outside", UNCHANGED <<call, backend>>
      PROVE  GemmInv'
  BY <1>5 DEF GemmInv, OnHost, IsGemm
<1>6. CASE DeviceStep
  BY <1>5, <1>6 DEF DeviceStep, StartBlock, EndLaunch, RunThread, Stage, Multiply, Store,
                    SyncStaged, SyncMultiplied, Sync, HostUnchanged, Launched
<1>7. CASE UNCHANGED kernelVars
  <2>1. CASE OnHost BY <1>7, <2>1, GemmNextKeeps DEF BufferInv, kernelVars
  <2>2. CASE ~OnHost BY <1>5, <1>7, <2>2 DEF kernelVars, gemmVars
  <2> QED BY <2>1, <2>2
<1> QED BY <1>1, <1>3, <1>4, <1>6, <1>7 DEF KernelNext, KernelCall
-----------------------------------------------------------------------------
(* What is said of the cells gives the product.                            *)

\* Product p of a row and a column.
Term(s, i, j, p) ==
    <<s * call.m * call.k + i * call.k + p, s * call.k * call.n + p * call.n + j>>

Terms(s, i, j) == {Term(s, i, j, p) : p \in Nat}
AreTerms(v, s, i, j, lo, hi) ==
    /\ v \in Seq(Terms(s, i, j)) /\ Len(v) = hi - lo
    /\ \A q \in 1 .. hi - lo : v[q] = Term(s, i, j, lo + q - 1)

LEMMA PartIs ==
  ASSUME NEW s, NEW i, NEW j, NEW lo \in Nat, NEW hi \in Nat, lo <= hi
  PROVE  AreTerms(Part(s, i, j, lo, hi), s, i, j, lo, hi)
<1>1. Part(s, i, j, lo, hi) = [q \in 1 .. hi - lo |-> Term(s, i, j, lo + q - 1)]
  <2>1. ASSUME NEW q \in 1 .. hi - lo
        PROVE  Term(s, i, j, lo + q - 1)
                 = <<s * call.m * call.k + i * call.k + (lo + q - 1),
                     s * call.k * call.n + (lo + q - 1) * call.n + j>>
    BY DEF Term
  <2> QED BY <2>1 DEF Part
<1>2. hi - lo \in Nat OBVIOUS
<1>3. \A q \in 1 .. hi - lo : lo + q - 1 \in Nat OBVIOUS
<1>4. \A q \in 1 .. hi - lo : Term(s, i, j, lo + q - 1) \in Terms(s, i, j)
  BY <1>3 DEF Terms
<1>5. /\ Part(s, i, j, lo, hi) \in Seq(Terms(s, i, j))
      /\ Len(Part(s, i, j, lo, hi)) = hi - lo
      /\ \A q \in 1 .. hi - lo : Part(s, i, j, lo, hi)[q] = Term(s, i, j, lo + q - 1)
  BY <1>1, <1>2, <1>4
<1> QED BY <1>5 DEF AreTerms

LEMMA SameTerms ==
  ASSUME NEW s, NEW i, NEW j, NEW lo \in Nat, NEW hi \in Nat, lo <= hi, NEW u, NEW v,
         AreTerms(u, s, i, j, lo, hi), AreTerms(v, s, i, j, lo, hi)
  PROVE  u = v
<1>1. /\ u \in Seq(Terms(s, i, j)) /\ v \in Seq(Terms(s, i, j)) /\ Len(u) = Len(v)
      /\ \A q \in 1 .. Len(u) : u[q] = v[q]
  BY DEF AreTerms
<1> QED BY <1>1

LEMMA PartsJoin ==
  ASSUME NEW s, NEW i, NEW j, NEW lo \in Nat, NEW hi \in Nat, lo <= hi
  PROVE  Part(s, i, j, 0, lo) \o Part(s, i, j, lo, hi) = Part(s, i, j, 0, hi)
<1> DEFINE u == Part(s, i, j, 0, lo)  v == Part(s, i, j, lo, hi)  w == Part(s, i, j, 0, hi)
<1>1. 0 \in Nat /\ 0 <= lo /\ 0 <= hi OBVIOUS
<1>2. /\ AreTerms(u, s, i, j, 0, lo) /\ AreTerms(v, s, i, j, lo, hi)
      /\ AreTerms(w, s, i, j, 0, hi)
  BY <1>1, PartIs
<1> HIDE DEF u, v, w
<1>3. /\ u \in Seq(Terms(s, i, j)) /\ v \in Seq(Terms(s, i, j))
      /\ Len(u) = lo - 0 /\ Len(v) = hi - lo
  BY <1>2 DEF AreTerms
<1>4. u \o v \in Seq(Terms(s, i, j)) /\ Len(u \o v) = hi - 0 BY <1>3
<1>5. ASSUME NEW q \in 1 .. hi - 0 PROVE (u \o v)[q] = Term(s, i, j, 0 + q - 1)
  <2>1. CASE q <= lo
    <3>1. (u \o v)[q] = u[q] BY <1>3, <2>1
    <3>2. q \in 1 .. lo - 0 BY <2>1
    <3>3. u[q] = Term(s, i, j, 0 + q - 1) BY <1>2, <3>2 DEF AreTerms
    <3> QED BY <3>1, <3>3
  <2>2. CASE q > lo
    <3>1. (u \o v)[q] = v[q - lo] BY <1>3, <2>2
    <3>2. q - lo \in 1 .. hi - lo BY <2>2
    <3>3. v[q - lo] = Term(s, i, j, lo + (q - lo) - 1) BY <1>2, <3>2 DEF AreTerms
    <3>4. lo + (q - lo) - 1 = 0 + q - 1 OBVIOUS
    <3> QED BY <3>1, <3>3, <3>4
  <2>3. q <= lo \/ q > lo OBVIOUS
  <2> QED BY <2>1, <2>2, <2>3, Zenon
<1>6. AreTerms(u \o v, s, i, j, 0, hi) BY <1>4, <1>5 DEF AreTerms
<1>7. u \o v = w BY <1>1, <1>2, <1>6, SameTerms
<1> QED BY <1>7 DEF u, v, w

LEMMA PartOfAll ==
  ASSUME NEW s, NEW i, NEW j, call.k \in Nat, NEW lo \in Nat, NEW hi \in Nat,
         lo <= hi, hi <= call.k
  PROVE  SubSeq(Part(s, i, j, 0, call.k), lo + 1, hi) = Part(s, i, j, lo, hi)
<1>1. PICK k \in Nat : k = call.k OBVIOUS
<1> DEFINE w == Part(s, i, j, 0, k)  v == Part(s, i, j, lo, hi)
<1>2. 0 \in Nat /\ 0 <= k /\ hi <= k BY <1>1
<1>3. AreTerms(w, s, i, j, 0, k) /\ AreTerms(v, s, i, j, lo, hi) BY <1>2, PartIs
<1> HIDE DEF v, w
<1>4. w \in Seq(Terms(s, i, j)) /\ Len(w) = k - 0 BY <1>3 DEF AreTerms
<1> DEFINE u == SubSeq(w, lo + 1, hi)
<1>5. /\ u \in Seq(Terms(s, i, j)) /\ Len(u) = hi - lo
      /\ \A q \in 1 .. hi - lo : u[q] = w[lo + q]
  BY <1>2, <1>4
<1> HIDE DEF u
<1>6. ASSUME NEW q \in 1 .. hi - lo PROVE w[lo + q] = Term(s, i, j, lo + q - 1)
  <2>1. lo + q \in 1 .. k - 0 /\ 0 + (lo + q) - 1 = lo + q - 1 BY <1>2
  <2>2. w[lo + q] = Term(s, i, j, 0 + (lo + q) - 1) BY <1>3, <2>1 DEF AreTerms
  <2> QED BY <2>1, <2>2
<1>7. AreTerms(u, s, i, j, lo, hi) BY <1>5, <1>6 DEF AreTerms
<1>8. u = v BY <1>3, <1>7, SameTerms
<1> QED BY <1>1, <1>8 DEF u, v, w

\* The blocks lie inside of the depth.
LEMMA BlockBounds ==
  ASSUME NEW k \in Nat, NEW d \in Positive, NEW q \in 1 .. CeilDiv(k, d)
  PROVE  /\ (q - 1) * d \in Nat /\ q * d \in Int
         /\ (q - 1) * d < k
         /\ Least(q * d, k) \in Nat /\ Least(q * d, k) <= k
         /\ (q - 1) * d <= Least(q * d, k)
<1>1. PICK x \in Nat : x = CeilDiv(k, d) BY BlocksCover
<1>2. x * d < k + d /\ d \in Nat /\ d >= 1 BY <1>1, BlocksCover DEF Positive
<1>3. PICK p \in Nat : p = q - 1 /\ q = p + 1 /\ q <= x BY <1>1
<1>4. p * d \in Nat /\ q * d \in Int /\ q * d = p * d + d /\ x * d \in Int
  BY <1>2, <1>3, SMTT(30)
<1>5. q * d <= x * d + 0
  <2>1. 0 \in 0 .. d - 1 /\ q \in Int BY <1>2, <1>3
  <2> QED BY <1>3, <2>1, Multiples
<1> DEFINE a == p * d  b == q * d  c == x * d
<1>6. a \in Nat /\ b = a + d /\ c \in Int /\ b <= c /\ c < k + d BY <1>2, <1>4, <1>5
<1> HIDE DEF a, b, c
<1>7. a < k /\ Least(b, k) \in Nat /\ Least(b, k) <= k /\ a <= Least(b, k)
  BY <1>2, <1>6 DEF Least
<1> QED BY <1>3, <1>4, <1>7 DEF a, b

\* Summands is what its recursion says.
IsFlat(f, sums, N) ==
    f = [x \in 0 .. N |-> IF x = 0 THEN <<>> ELSE f[x - 1] \o sums[x]]

LEMMA SummandsAre ==
  ASSUME NEW sums, NEW N \in Nat, Len(sums) = N, NEW G, IsFlat(G, sums, N)
  PROVE  Summands(sums) = G[N]
<1> DEFINE f == CHOOSE g : IsFlat(g, sums, N)
<1>1. Summands(sums) = f[N] BY DEF Summands, IsFlat
<1>2. IsFlat(f, sums, N) OBVIOUS
<1> HIDE DEF f
<1> DEFINE S == {n \in Nat : n <= N => f[n] = G[n]}
<1>3. 0 \in S BY <1>2 DEF IsFlat
<1>4. ASSUME NEW n \in S PROVE n + 1 \in S
  <2>1. CASE n + 1 <= N
    <3>1. f[n] = G[n] /\ n \in Nat BY <2>1
    <3>2. n + 1 \in 0 .. N /\ n + 1 # 0 /\ (n + 1) - 1 = n BY <2>1, <3>1
    <3>3. f[n + 1] = f[n] \o sums[n + 1] BY <1>2, <3>2 DEF IsFlat
    <3>4. G[n + 1] = G[n] \o sums[n + 1] BY <3>2 DEF IsFlat
    <3>5. f[n + 1] = G[n + 1] BY <3>1, <3>3, <3>4
    <3>6. n + 1 \in Nat BY <3>1
    <3> QED BY <3>5, <3>6
  <2>2. CASE ~(n + 1 <= N) BY <2>2
  <2> QED BY <2>1, <2>2
<1>5. S \in SUBSET Nat OBVIOUS
<1> HIDE DEF S
<1>6. S = Nat BY <1>3, <1>4, <1>5, Induction
<1>7. f[N] = G[N] BY <1>6 DEF S
<1> QED BY <1>1, <1>7

\* A cell that is final adds up to the product.
LEMMA OneSum ==
  ASSUME NEW s, NEW i, NEW j, NEW k \in Nat
  PROVE  Summands(<<Part(s, i, j, 0, k)>>) = Part(s, i, j, 0, k)
<1> DEFINE v == Part(s, i, j, 0, k)
           G == [x \in 0 .. 1 |-> IF x = 0 THEN <<>> ELSE v]
<1>1. v \in Seq(Terms(s, i, j))
  <2>1. 0 \in Nat /\ 0 <= k OBVIOUS
  <2>2. AreTerms(v, s, i, j, 0, k) BY <2>1, PartIs
  <2> QED BY <2>2 DEF AreTerms
<1> HIDE DEF v
<1>2. <<>> \o v = v BY <1>1
<1>3. Len(<<v>>) = 1 /\ <<v>>[1] = v OBVIOUS
<1>4. IsFlat(G, <<v>>, 1)
  <2>1. ASSUME NEW x \in 0 .. 1
        PROVE  (IF x = 0 THEN <<>> ELSE v)
                 = IF x = 0 THEN <<>> ELSE G[x - 1] \o <<v>>[x]
    <3>1. CASE x = 0 BY <3>1
    <3>2. CASE x = 1
      <4>1. G[1 - 1] = <<>> OBVIOUS
      <4> HIDE DEF G
      <4>2. G[x - 1] \o <<v>>[x] = v BY <1>2, <1>3, <3>2, <4>1
      <4> QED BY <3>2, <4>2
    <3> QED BY <3>1, <3>2
  <2> QED BY <2>1 DEF IsFlat
<1>5. G[1] = v OBVIOUS
<1>6. 1 \in Nat OBVIOUS
<1> HIDE DEF G
<1>7. Summands(<<v>>) = G[1] BY <1>3, <1>4, <1>6, SummandsAre
<1> QED BY <1>5, <1>7 DEF v

LEMMA SumOfBlocks ==
  ASSUME NEW s, NEW i, NEW j, call.k \in Nat, NEW d \in Positive
  PROVE  Summands(Blocks(s, i, j, d, CeilDiv(call.k, d))) = Part(s, i, j, 0, call.k)
<1>1. PICK k \in Nat : k = call.k OBVIOUS
<1>2. PICK N \in Nat : N = CeilDiv(k, d) /\ k <= N * d
  BY BlocksCover
<1> DEFINE sums == Blocks(s, i, j, d, N)
           G == [x \in 0 .. N |-> Part(s, i, j, 0, Least(x * d, k))]
<1>3. /\ Len(sums) = N
      /\ \A q \in 1 .. N : sums[q] = Part(s, i, j, (q - 1) * d, Least(q * d, k))
  BY <1>1 DEF Blocks
<1>4. d \in Nat /\ 0 * d = 0 BY SMTT(30) DEF Positive
<1>5. G[0] = <<>>
  <2>1. Least(0 * d, k) = 0 BY <1>4 DEF Least
  <2>2. G[0] = Part(s, i, j, 0, 0) BY <2>1
  <2> QED BY <2>2 DEF Part
<1>6. ASSUME NEW x \in 1 .. N PROVE G[x] = G[x - 1] \o sums[x]
  <2> DEFINE lo == (x - 1) * d  hi == Least(x * d, k)
  <2>1. lo \in Nat /\ lo < k /\ hi \in Nat /\ lo <= hi BY <1>2, BlockBounds
  <2>2. x - 1 \in 0 .. N /\ x \in 0 .. N OBVIOUS
  <2>3. sums[x] = Part(s, i, j, lo, hi) BY <1>3
  <2>4. G[x] = Part(s, i, j, 0, hi) BY <2>2
  <2>5. Least(lo, k) = lo BY <2>1 DEF Least
  <2>6. G[x - 1] = Part(s, i, j, 0, lo) BY <2>2, <2>5
  <2> HIDE DEF lo, hi, G, sums
  <2>7. Part(s, i, j, 0, lo) \o Part(s, i, j, lo, hi) = Part(s, i, j, 0, hi)
    BY <2>1, PartsJoin
  <2> QED BY <2>3, <2>4, <2>6, <2>7
<1>7. G[N] = Part(s, i, j, 0, k)
  <2>1. N * d \in Int BY <1>4, SMTT(30)
  <2> DEFINE c == N * d
  <2>2. c \in Int /\ k <= c BY <1>2, <2>1
  <2> HIDE DEF c
  <2>3. Least(c, k) = k BY <2>2 DEF Least
  <2> QED BY <2>3 DEF c
<1>8. DOMAIN G = 0 .. N /\ G = [x \in 0 .. N |-> G[x]] OBVIOUS
<1> HIDE DEF G, sums
<1>9. IsFlat(G, sums, N)
  <2>1. ASSUME NEW x \in 0 .. N
        PROVE  G[x] = IF x = 0 THEN <<>> ELSE G[x - 1] \o sums[x]
    <3>1. CASE x = 0 BY <1>5, <3>1
    <3>2. CASE x # 0
      <4>1. x \in 1 .. N BY <3>2
      <4> QED BY <1>6, <3>2, <4>1
    <3> QED BY <3>1, <3>2
  <2> QED BY <1>8, <2>1 DEF IsFlat
<1>10. Summands(sums) = G[N] BY <1>3, <1>9, SummandsAre
<1> QED BY <1>1, <1>2, <1>7, <1>10 DEF sums

LEMMA InvGivesProduct ==
  ASSUME GemmInv
  PROVE  CIsProduct
<1> SUFFICES ASSUME phase = "returned", IsGemm
             PROVE  /\ DOMAIN C = 0 .. call.b * call.m * call.n - 1
                    /\ \A c \in DOMAIN C : Summands(C[c]) = Product(c)
  BY DEF CIsProduct
<1>1. /\ IsProduct /\ CallTyped /\ \A s \in 0 .. call.b - 1 : SliceFinal(s)
  BY DEF GemmInv
<1>2. Sizes /\ DOMAIN C = 0 .. call.b * call.m * call.n - 1 /\ call.b \in Nat /\ call.k \in Nat
  BY <1>1 DEF IsProduct, CallTyped, Sizes, Positive
<1>3. ASSUME NEW d \in Depths PROVE d \in Positive
  <2>1. Block.k \in Positive /\ call.blk.k \in Positive /\ 1 \in Positive
    BY <1>1, GemmAssumption DEF CallTyped, IsBlock, Positive
  <2> QED BY <2>1 DEF Depths, Depth
<1>4. ASSUME NEW c \in DOMAIN C PROVE Summands(C[c]) = Product(c)
  <2>1. PICK s \in 0 .. call.b - 1, i \in AllRows, j \in Cols : c = Cell(s, i, j)
    BY <1>2, EveryCell
  <2>2. s \in Nat BY <1>2
  <2>3. Product(c) = Part(s, i, j, 0, call.k) BY <1>2, <2>1, <2>2, ProductOfCell
  <2>4. Final(s, i, j) BY <1>1 DEF SliceFinal
  <2>5. CASE C[c] = <<Part(s, i, j, 0, call.k)>>
    BY <1>2, <2>3, <2>5, OneSum
  <2>6. ASSUME NEW d \in Depths, C[c] = Blocks(s, i, j, d, CeilDiv(call.k, d))
        PROVE  Summands(C[c]) = Product(c)
    BY <1>2, <1>3, <2>3, <2>6, SumOfBlocks
  <2> QED BY <2>1, <2>4, <2>5, <2>6 DEF Final
<1> QED BY <1>2, <1>4

LEMMA InvGivesSameBits ==
  ASSUME GemmInv
  PROVE  SameBitsForAnySplit
<1> SUFFICES ASSUME phase = "returned", IsGemm,
                    \/ call.v \in {"neon", "threaded"}
                    \/ call.v = "auto" /\ mode # "naive",
                    NEW c \in DOMAIN C
             PROVE  C[c] = InBlocks(c, IF neon THEN call.blk.k ELSE Block.k)
  BY DEF SameBitsForAnySplit
<1>1. /\ IsProduct /\ CallTyped /\ \A s \in 0 .. call.b - 1 : SliceFinal(s)
  BY DEF GemmInv
<1>2. Sizes /\ DOMAIN C = 0 .. call.b * call.m * call.n - 1 /\ call.b \in Nat /\ call.k \in Nat
  BY <1>1 DEF IsProduct, CallTyped, Sizes, Positive
<1>3. Route(mode) \in {"neon", "threaded"} BY DEF Route
<1>4. TheKernel = IF neon THEN "neon" ELSE "packed" BY <1>3 DEF TheKernel, KernelOf
<1>5. PICK d \in Positive : d = IF neon THEN call.blk.k ELSE Block.k
  BY <1>1, GemmAssumption DEF CallTyped, IsBlock
<1>6. TheKernel \in Packers /\ Depths = {d} BY <1>4, <1>5 DEF Depths, Depth, Packers
<1>7. PICK s \in 0 .. call.b - 1, i \in AllRows, j \in Cols : c = Cell(s, i, j)
  BY <1>2, EveryCell
<1>8. C[c] = Blocks(s, i, j, d, CeilDiv(call.k, d))
  BY <1>1, <1>6, <1>7 DEF SliceFinal, Final
<1>9. s \in Nat BY <1>2
<1>10. Product(c) = Part(s, i, j, 0, call.k) BY <1>2, <1>7, <1>9, ProductOfCell
<1>11. ASSUME NEW q \in 1 .. CeilDiv(call.k, d)
       PROVE  SubSeq(Product(c), (q - 1) * d + 1, Least(q * d, call.k))
                = Part(s, i, j, (q - 1) * d, Least(q * d, call.k))
  <2>1. PICK k \in Nat : k = call.k BY <1>2
  <2>2. /\ (q - 1) * d \in Nat /\ Least(q * d, k) \in Nat /\ Least(q * d, k) <= k
        /\ (q - 1) * d <= Least(q * d, k)
    BY <2>1, BlockBounds
  <2>3. PICK lo \in Nat, hi \in Nat : lo = (q - 1) * d /\ hi = Least(q * d, k)
    BY <2>2, Zenon
  <2>4. lo <= hi /\ hi <= call.k BY <2>1, <2>2, <2>3
  <2>5. SubSeq(Part(s, i, j, 0, call.k), lo + 1, hi) = Part(s, i, j, lo, hi)
    BY <1>2, <2>4, PartOfAll
  <2> QED BY <1>10, <2>1, <2>3, <2>5
<1>12. InBlocks(c, d) = Blocks(s, i, j, d, CeilDiv(call.k, d))
  BY <1>11 DEF InBlocks, Blocks
<1> QED BY <1>5, <1>8, <1>12

\* Whatever the shape, the block and tile sizes, the build, the number of
\* threads, the routing of gemm_auto and the interleaving of the workers:
\* each cell of C holds its full dot product, term by term and in order, with
\* nothing of what C or the buffers held before (gemm.cpp, all variants; the
\* batched product of kernels_transformer.cpp).
THEOREM ProductsAreRight == KernelSpec => []CIsProduct
<1>1. BufferInv /\ GemmInv => CIsProduct BY InvGivesProduct
<1>2. KernelInit => BufferInv /\ GemmInv BY BufferInit, GemmInvInit
<1>3. BufferInv /\ GemmInv /\ [KernelNext]_kernelVars => (BufferInv /\ GemmInv)'
  BY BufferStep, GemmInvNext
<1> QED BY <1>1, <1>2, <1>3, PTL DEF KernelSpec

\* The floats of gemm_neon, gemm_threaded and gemm_auto depend on the depth of
\* a block only: not on the number of threads, on how parallel_for split the
\* rows, on who ran which range, or on the calls before.
THEOREM SameBitsAlways == KernelSpec => []SameBitsForAnySplit
<1>1. BufferInv /\ GemmInv => SameBitsForAnySplit BY InvGivesSameBits
<1>2. KernelInit => BufferInv /\ GemmInv BY BufferInit, GemmInvInit
<1>3. BufferInv /\ GemmInv /\ [KernelNext]_kernelVars => (BufferInv /\ GemmInv)'
  BY BufferStep, GemmInvNext
<1> QED BY <1>1, <1>2, <1>3, PTL DEF KernelSpec
-----------------------------------------------------------------------------
(* Barriers.  BarriersMeet is not inductive: that all threads leave the    *)
(* loop in the same round holds because they are all in the same round.    *)

\* The stretch of gemm_tiled_k, between barriers, that a place lies in.
Stretch(at) ==
    IF at \in {"start", "staged"} THEN "staging"
    ELSE IF at \in {"multiply", "multiplied"} THEN "multiplying" ELSE "storing"

IsThread(r) == r = [at |-> r.at, k0 |-> r.k0, acc |-> r.acc]

\* The threads of a block are in one stretch, and in one round of the loop;
\* those of a kernel without barriers are at its beginning or at its end.
InStep ==
    \A t, u \in DOMAIN thread :
        /\ IsThread(thread[t])
        /\ call.op = "gemm_tiled" =>
              Stretch(thread[t].at) = Stretch(thread[u].at) /\ thread[t].k0 = thread[u].k0
        /\ call.op # "gemm_tiled" => thread[t].at \in {"start", "done"}

\* Threads exist only while a launch is running.
NoThreads == thread = <<>>
BarrierInv ==
    /\ backend = "cpu" \/ phase \in {"outside", "returned"} => NoThreads
    /\ InStep

LEMMA NoThreadsInStep == ASSUME NoThreads PROVE InStep
BY DEF NoThreads, InStep

\* Only the threads and what they run matter.
LEMMA SameThreads ==
  ASSUME BarrierInv, thread' = thread, call' = call \/ NoThreads, backend' = backend,
         phase' = phase \/ NoThreads
  PROVE  BarrierInv'
<1>1. CASE NoThreads BY <1>1 DEF NoThreads, BarrierInv, InStep
<1>2. CASE ~NoThreads BY <1>2 DEF NoThreads, BarrierInv, InStep
<1> QED BY <1>1, <1>2

\* A thread of a running block moves on inside its stretch.
LEMMA OneMoves ==
  ASSUME BarrierInv, Launched, backend' = backend, phase' = phase, call' = call,
         NEW t \in DOMAIN thread, NEW r, IsThread(r),
         thread' = [thread EXCEPT ![t] = r],
         call.op = "gemm_tiled" => Stretch(r.at) = Stretch(thread[t].at) /\ r.k0 = thread[t].k0,
         call.op # "gemm_tiled" => r.at \in {"start", "done"}
  PROVE  BarrierInv'
<1>1. DOMAIN thread' = DOMAIN thread OBVIOUS
<1>2. \A u \in DOMAIN thread : thread'[u] = IF u = t THEN r ELSE thread[u] OBVIOUS
<1> HIDE DEF Stretch, IsThread
<1>3. InStep'
  <2>1. \A u \in DOMAIN thread' : IsThread(thread'[u])
    BY <1>1, <1>2 DEF BarrierInv, InStep
  <2>2. ASSUME call.op = "gemm_tiled", NEW u \in DOMAIN thread, NEW v \in DOMAIN thread
        PROVE  Stretch(thread'[u].at) = Stretch(thread'[v].at) /\ thread'[u].k0 = thread'[v].k0
    BY <1>1, <1>2, <2>2 DEF BarrierInv, InStep
  <2>3. ASSUME call.op # "gemm_tiled", NEW u \in DOMAIN thread
        PROVE  thread'[u].at \in {"start", "done"}
    BY <1>1, <1>2, <2>3 DEF BarrierInv, InStep
  <2> QED BY <1>1, <2>1, <2>2, <2>3 DEF InStep, Stretch, IsThread
<1> QED BY <1>3 DEF BarrierInv, Launched, OnHost

\* All threads of a block go on together, each with the record next gives it.
LEMMA AllMove ==
  ASSUME BarrierInv, Launched, backend' = backend, phase' = phase, call' = call,
         call.op # "gemm_tiled" => DOMAIN thread = {},
         DOMAIN thread' = DOMAIN thread,
         \A t \in DOMAIN thread : IsThread(thread'[t]),
         \A t, u \in DOMAIN thread : thread'[t].at = thread'[u].at /\ thread'[t].k0 = thread'[u].k0
  PROVE  BarrierInv'
BY DEF BarrierInv, InStep, Launched, OnHost

\* Changing fields of a thread's record.
LEMMA Fields ==
  ASSUME NEW r, IsThread(r), NEW x, NEW y
  PROVE  /\ [r EXCEPT !.at = x] = [at |-> x, k0 |-> r.k0, acc |-> r.acc]
         /\ [r EXCEPT !.at = x, !.acc = y] = [at |-> x, k0 |-> r.k0, acc |-> y]
<1> DEFINE a == r.at  b == r.k0  c == r.acc
<1>1. r = [at |-> a, k0 |-> b, acc |-> c] BY DEF IsThread
<1> HIDE DEF a, b, c
<1>2. [[at |-> a, k0 |-> b, acc |-> c] EXCEPT !.at = x] = [at |-> x, k0 |-> b, acc |-> c]
  OBVIOUS
<1>3. [[at |-> x, k0 |-> b, acc |-> c] EXCEPT !.acc = y] = [at |-> x, k0 |-> b, acc |-> y]
  OBVIOUS
<1>4. r.k0 = b /\ r.acc = c BY DEF b, c
<1> QED BY <1>1, <1>2, <1>3, <1>4, Zenon

LEMMA NextRound ==
  ASSUME NEW r, IsThread(r), NEW x, NEW y
  PROVE  [r EXCEPT !.k0 = y, !.at = x] = [at |-> x, k0 |-> y, acc |-> r.acc]
<1> DEFINE a == r.at  b == r.k0  c == r.acc
<1>1. r = [at |-> a, k0 |-> b, acc |-> c] BY DEF IsThread
<1> HIDE DEF a, b, c
<1>2. [[at |-> a, k0 |-> b, acc |-> c] EXCEPT !.k0 = y] = [at |-> a, k0 |-> y, acc |-> c]
  OBVIOUS
<1>3. [[at |-> a, k0 |-> y, acc |-> c] EXCEPT !.at = x] = [at |-> x, k0 |-> y, acc |-> c]
  OBVIOUS
<1>4. r.acc = c BY DEF c
<1> QED BY <1>1, <1>2, <1>3, <1>4, Zenon

LEMMA RecordIsThread ==
  ASSUME NEW a, NEW b, NEW c
  PROVE  IsThread([at |-> a, k0 |-> b, acc |-> c])
BY DEF IsThread

LEMMA BarrierInit == KernelInit => BarrierInv
BY DEF KernelInit, BarrierInv, InStep, NoThreads

\* The CPU has no launches.
LEMMA HostStep ==
  ASSUME BarrierInv, OnHost, UNCHANGED <<backend, launchVars>>
  PROVE  BarrierInv'
BY SameThreads DEF BarrierInv, OnHost, launchVars

\* A new operation begins when the last has returned.
LEMMA CallStep == BarrierInv /\ KernelCall => BarrierInv'
<1> SUFFICES ASSUME BarrierInv, NEW o \in Operations, RunHost(o) \/ Launch(o) \/ CallCublas(o)
             PROVE  BarrierInv'
  BY DEF KernelCall
<1>1. CASE RunHost(o) \/ CallCublas(o)
  <2>1. phase \in {"outside", "returned"} /\ backend' = backend /\ thread' = thread
    BY <1>1 DEF RunHost, CallCublas, HostUnchanged, launchVars
  <2> QED BY <2>1, SameThreads DEF BarrierInv
<1>2. CASE Launch(o)
  <2>1. thread' = <<>> BY <1>2 DEF Launch
  <2> QED BY <2>1 DEF BarrierInv, InStep, NoThreads
<1> QED BY <1>1, <1>2

LEMMA StartBlockStep == BarrierInv /\ StartBlock => BarrierInv'
<1> SUFFICES ASSUME BarrierInv, StartBlock PROVE BarrierInv' OBVIOUS
<1> DEFINE r == [at |-> IF call.op = "gemm_tiled" /\ call.k = 0 THEN "store" ELSE "start",
                 k0 |-> 0, acc |-> <<>>]
<1>1. thread' = [t \in ThreadsOf(call) |-> r] /\ call' = call /\ phase' = phase
  BY DEF StartBlock
<1>2. backend' = backend BY DEF StartBlock, HostUnchanged
<1>3. ~(backend = "cpu" \/ phase \in {"outside", "returned"})
  BY DEF StartBlock, Launched, OnHost
<1>4. DOMAIN thread' = ThreadsOf(call) /\ \A t \in ThreadsOf(call) : thread'[t] = r BY <1>1
<1>5. IsThread(r) BY DEF IsThread
<1>6. call.op # "gemm_tiled" => r.at = "start" OBVIOUS
<1> HIDE DEF r
<1> QED BY <1>1, <1>2, <1>3, <1>4, <1>5, <1>6 DEF BarrierInv, InStep

LEMMA SyncSteps == BarrierInv /\ (SyncStaged \/ SyncMultiplied) => BarrierInv'
<1>1. ASSUME BarrierInv, SyncStaged PROVE BarrierInv'
  <2>1. /\ \A t \in DOMAIN thread : thread[t].at = "staged"
        /\ thread' = [t \in DOMAIN thread |-> [thread[t] EXCEPT !.at = "multiply"]]
        /\ Launched
        /\ backend' = backend /\ phase' = phase /\ call' = call
    BY <1>1 DEF SyncStaged, Sync, HostUnchanged
  <2>2. call.op # "gemm_tiled" => DOMAIN thread = {} BY <1>1, <2>1 DEF BarrierInv, InStep
  <2>3. ASSUME NEW t \in DOMAIN thread
        PROVE  /\ IsThread(thread'[t])
               /\ thread'[t].at = "multiply" /\ thread'[t].k0 = thread[t].k0
    <3>1. IsThread(thread[t]) BY <1>1 DEF BarrierInv, InStep
    <3>2. thread'[t] = [thread[t] EXCEPT !.at = "multiply"] BY <2>1, Zenon
    <3>3. thread'[t] = [at |-> "multiply", k0 |-> thread[t].k0, acc |-> thread[t].acc]
      BY <3>1, <3>2, Fields, Zenon
    <3> QED BY <3>3, RecordIsThread
  <2>4. \A t, u \in DOMAIN thread : thread[t].k0 = thread[u].k0
    BY <1>1, <2>2 DEF BarrierInv, InStep
  <2>5. DOMAIN thread' = DOMAIN thread BY <2>1
  <2> QED BY <1>1, <2>1, <2>2, <2>3, <2>4, <2>5, AllMove
<1>2. ASSUME BarrierInv, SyncMultiplied PROVE BarrierInv'
  <2> DEFINE place(k) == IF k + DeviceTile < call.k THEN "start" ELSE "store"
  <2>1. /\ \A t \in DOMAIN thread : thread[t].at = "multiplied"
        /\ thread' = [t \in DOMAIN thread |->
                         [thread[t] EXCEPT !.k0 = thread[t].k0 + DeviceTile,
                                           !.at = place(thread[t].k0)]]
        /\ Launched
        /\ backend' = backend /\ phase' = phase /\ call' = call
    BY <1>2 DEF SyncMultiplied, Sync, HostUnchanged
  <2> HIDE DEF place
  <2>2. call.op # "gemm_tiled" => DOMAIN thread = {} BY <1>2, <2>1 DEF BarrierInv, InStep
  <2>3. ASSUME NEW t \in DOMAIN thread
        PROVE  /\ IsThread(thread'[t])
               /\ thread'[t].at = place(thread[t].k0)
               /\ thread'[t].k0 = thread[t].k0 + DeviceTile
    <3>1. IsThread(thread[t]) BY <1>2 DEF BarrierInv, InStep
    <3>2. PICK x, y : x = place(thread[t].k0) /\ y = thread[t].k0 + DeviceTile OBVIOUS
    <3>3. thread'[t] = [thread[t] EXCEPT !.k0 = y, !.at = x] BY <2>1, <3>2, Zenon
    <3>4. PICK r : r = thread[t] OBVIOUS
    <3>5. IsThread(r) BY <3>1, <3>4
    <3>6. [r EXCEPT !.k0 = y, !.at = x] = [at |-> x, k0 |-> y, acc |-> r.acc]
      BY <3>5, NextRound
    <3>7. thread'[t] = [at |-> x, k0 |-> y, acc |-> r.acc] BY <3>3, <3>4, <3>6, Zenon
    <3> QED BY <3>2, <3>7, RecordIsThread
  <2>4. \A t, u \in DOMAIN thread : thread[t].k0 = thread[u].k0
    BY <1>2, <2>2 DEF BarrierInv, InStep
  <2>5. DOMAIN thread' = DOMAIN thread BY <2>1
  <2>6. \A t, u \in DOMAIN thread :
           thread'[t].at = thread'[u].at /\ thread'[t].k0 = thread'[u].k0
    BY <2>3, <2>4, Zenon
  <2> QED BY <1>2, <2>1, <2>2, <2>3, <2>5, <2>6, AllMove
<1> QED BY <1>1, <1>2

\* One thread's step, between barriers.
LEMMA ThreadStep ==
  ASSUME BarrierInv, NEW t \in DOMAIN thread, RunThread(t) \/ Stage(t) \/ Multiply(t) \/ Store(t)
  PROVE  BarrierInv'
<1> DEFINE r == thread'[t]
<1>1. IsThread(thread[t]) BY DEF BarrierInv, InStep
<1>2. CASE RunThread(t)
  <2>1. /\ thread' = [thread EXCEPT ![t] = [thread[t] EXCEPT !.at = "done"]]
        /\ Launched /\ call.op # "gemm_tiled"
        /\ backend' = backend /\ phase' = phase /\ call' = call
    BY <1>2 DEF RunThread, HostUnchanged
  <2>2. [thread[t] EXCEPT !.at = "done"] = [at |-> "done", k0 |-> thread[t].k0, acc |-> thread[t].acc]
    BY <1>1, Fields, Zenon
  <2> QED BY <2>1, <2>2, OneMoves DEF IsThread
<1>3. CASE Stage(t)
  <2>1. /\ thread' = [thread EXCEPT ![t] = [thread[t] EXCEPT !.at = "staged"]]
        /\ Launched /\ call.op = "gemm_tiled" /\ thread[t].at = "start"
        /\ backend' = backend /\ phase' = phase /\ call' = call
    BY <1>3 DEF Stage, HostUnchanged
  <2>2. [thread[t] EXCEPT !.at = "staged"] = [at |-> "staged", k0 |-> thread[t].k0, acc |-> thread[t].acc]
    BY <1>1, Fields, Zenon
  <2> QED BY <2>1, <2>2, OneMoves DEF IsThread, Stretch
<1>4. CASE Multiply(t)
  <2> DEFINE a == thread[t].acc \o TileDot(t)
  <2>1. /\ thread' = [thread EXCEPT ![t] = [thread[t] EXCEPT !.at = "multiplied", !.acc = a]]
        /\ Launched /\ call.op = "gemm_tiled" /\ thread[t].at = "multiply"
        /\ backend' = backend /\ phase' = phase /\ call' = call
    BY <1>4 DEF Multiply, HostUnchanged
  <2> HIDE DEF a
  <2>2. [thread[t] EXCEPT !.at = "multiplied", !.acc = a] = [at |-> "multiplied", k0 |-> thread[t].k0, acc |-> a]
    BY <1>1, Fields, Zenon
  <2> QED BY <2>1, <2>2, OneMoves DEF IsThread, Stretch
<1>5. CASE Store(t)
  <2>1. /\ thread' = [thread EXCEPT ![t] = [thread[t] EXCEPT !.at = "done"]]
        /\ Launched /\ call.op = "gemm_tiled" /\ thread[t].at = "store"
        /\ backend' = backend /\ phase' = phase /\ call' = call
    BY <1>5 DEF Store, HostUnchanged
  <2>2. [thread[t] EXCEPT !.at = "done"] = [at |-> "done", k0 |-> thread[t].k0, acc |-> thread[t].acc]
    BY <1>1, Fields, Zenon
  <2> QED BY <2>1, <2>2, OneMoves DEF IsThread, Stretch
<1> QED BY <1>2, <1>3, <1>4, <1>5

LEMMA BarrierNext == BarrierInv /\ [KernelNext]_kernelVars => BarrierInv'
<1> SUFFICES ASSUME BarrierInv, [KernelNext]_kernelVars PROVE BarrierInv' OBVIOUS
<1>1. CASE OnHost /\ (GemmNext /\ UNCHANGED <<backend, launchVars>>) BY <1>1, HostStep
<1>2. CASE KernelCall BY <1>2, CallStep
<1>3. CASE StartBlock BY <1>3, StartBlockStep
<1>4. CASE EndLaunch
  <2>1. thread' = <<>> BY <1>4 DEF EndLaunch
  <2> QED BY <2>1 DEF BarrierInv, InStep, NoThreads
<1>5. CASE \E t \in DOMAIN thread : RunThread(t) \/ Stage(t) \/ Multiply(t) \/ Store(t)
  BY <1>5, ThreadStep
<1>6. CASE SyncStaged \/ SyncMultiplied BY <1>6, SyncSteps
<1>7. CASE UNCHANGED kernelVars
  BY <1>7, SameThreads DEF kernelVars, gemmVars, launchVars
<1> QED BY <1>1, <1>2, <1>3, <1>4, <1>5, <1>6, <1>7 DEF KernelNext, DeviceStep

LEMMA BarrierInvImplies == BarrierInv => BarriersMeet
BY DEF BarrierInv, InStep, BarriersMeet, Stretch

\* In every launch of gemm_tiled_k the threads of a block meet at each
\* barrier, those outside the matrix included.
THEOREM BarriersAlwaysMeet == KernelSpec => []BarriersMeet
<1>1. KernelSpec => []BarrierInv BY BarrierInit, BarrierNext, PTL DEF KernelSpec
<1> QED BY <1>1, BarrierInvImplies, PTL
-----------------------------------------------------------------------------
(* No two threads of a launch write one cell.                              *)

\* What is being launched is an operator the device has, on whole tiles if it
\* is the product on tensor cores.
LaunchInv ==
    Launched =>
        /\ call \in Operations
        /\ call.op \notin {"matmul", "matmulq"}
        /\ call.op = "wmma" => call.m % WarpTile = 0 /\ call.n % WarpTile = 0

LEMMA LaunchInit == KernelInit => LaunchInv
BY DEF KernelInit, GemmInit, LaunchInv, Launched

LEMMA LaunchNext == LaunchInv /\ [KernelNext]_kernelVars => LaunchInv'
<1> SUFFICES ASSUME LaunchInv, [KernelNext]_kernelVars, Launched'
             PROVE  LaunchInv'
  BY DEF LaunchInv
<1>1. CASE Launched /\ call' = call
  BY <1>1 DEF LaunchInv
<1>2. CASE OnHost /\ (GemmNext /\ UNCHANGED <<backend, launchVars>>)
  BY <1>2 DEF Launched, OnHost
<1>3. ASSUME NEW o \in Operations, RunHost(o) \/ CallCublas(o) PROVE FALSE
  BY <1>3 DEF RunHost, CallCublas, Launched
<1>4. ASSUME NEW o \in Operations, Launch(o) PROVE LaunchInv'
  BY <1>4 DEF Launch, Ask, LaunchInv
<1>5. CASE DeviceStep
  <2>1. Launched /\ call' = call
    BY <1>5 DEF DeviceStep, StartBlock, EndLaunch, RunThread, Stage, Multiply, Store,
                SyncStaged, SyncMultiplied, Sync
  <2> QED BY <2>1, <1>1
<1>6. CASE UNCHANGED kernelVars
  <2>1. Launched /\ call' = call
    BY <1>6 DEF kernelVars, gemmVars, Launched, OnHost
  <2> QED BY <2>1, <1>1
<1> QED BY <1>2, <1>3, <1>4, <1>5, <1>6 DEF KernelNext, KernelCall

\* Two threads of a flat launch have two numbers.
LEMMA NumbersDiffer ==
  ASSUME NEW b \in Int, NEW e \in Int, NEW t \in 0 .. BlockThreads - 1,
         NEW u \in 0 .. BlockThreads - 1,
         b * BlockThreads + t = e * BlockThreads + u
  PROVE  b = e /\ t = u
BY Apart, KernelsAssumption DEF Positive

\* What a thread of a flat launch writes is a cell, a row or a query of its
\* own number.
LEMMA FlatCells ==
  ASSUME NEW o \in Operations, NEW i \in Int, NEW w \in FlatWrites(o, i)
  PROVE  /\ o.op \in RowKernels => \E j \in 0 .. Last(o.shape) - 1 : w[1] = i * Last(o.shape) + j
         /\ o.op = "flash" => \E j \in 0 .. o.d - 1 : w[1] = i * o.d + j
         /\ o.op \in Elementwise => w[1] = i
<1>1. ASSUME o.op \in RowKernels
      PROVE  \E j \in 0 .. Last(o.shape) - 1 : w[1] = i * Last(o.shape) + j
  <2>1. w \in DeviceRow(o, i) BY <1>1 DEF FlatWrites, RowKernels
  <2> QED BY <2>1 DEF DeviceRow
<1>2. ASSUME o.op = "flash"
      PROVE  \E j \in 0 .. o.d - 1 : w[1] = i * o.d + j
  <2>1. w \in DeviceQuery(o, i) BY <1>2 DEF FlatWrites, RowKernels
  <2> QED BY <2>1 DEF DeviceQuery
<1>3. ASSUME o.op \in Elementwise PROVE w[1] = i
  BY <1>3 DEF FlatWrites, RowKernels, Elementwise
<1> QED BY <1>1, <1>2, <1>3

LEMMA FlatDisjoint ==
  ASSUME NEW o \in Operations, o.op \in RowKernels \cup Elementwise \cup {"flash"},
         NEW i \in Int, NEW j \in Int,
         NEW w \in FlatWrites(o, i), NEW v \in FlatWrites(o, j), w[1] = v[1]
  PROVE  i = j
<1>1. ASSUME o.op \in RowKernels PROVE i = j
  <2> DEFINE n == Last(o.shape)
  <2>1. n \in Nat
    <3>1. o.shape \in Seq(Nat) /\ Len(o.shape) > 0 BY <1>1, OperationsAssumption
    <3> QED BY <3>1 DEF Last
  <2>2. PICK x \in 0 .. n - 1 : w[1] = i * n + x BY <1>1, FlatCells
  <2>3. PICK y \in 0 .. n - 1 : v[1] = j * n + y BY <1>1, FlatCells
  <2> HIDE DEF n
  <2> QED BY <2>1, <2>2, <2>3, Apart
<1>2. ASSUME o.op = "flash" PROVE i = j
  <2> DEFINE n == o.d
  <2>1. n \in Nat BY <1>2, OperationsAssumption
  <2>2. PICK x \in 0 .. n - 1 : w[1] = i * n + x BY <1>2, FlatCells
  <2>3. PICK y \in 0 .. n - 1 : v[1] = j * n + y BY <1>2, FlatCells
  <2> HIDE DEF n
  <2> QED BY <2>1, <2>2, <2>3, Apart
<1>3. ASSUME o.op \in Elementwise PROVE i = j
  BY <1>3, FlatCells
<1> QED BY <1>1, <1>2, <1>3

\* Nor do two threads of the naive product write one element.
LEMMA NaiveDisjoint ==
  ASSUME NEW o, o.n \in Nat,
         NEW b \in Nat \X Nat, NEW e \in Nat \X Nat,
         NEW t \in (0 .. DeviceTile - 1) \X (0 .. DeviceTile - 1),
         NEW u \in (0 .. DeviceTile - 1) \X (0 .. DeviceTile - 1),
         NEW w \in NaiveWrites(o, b, t), NEW v \in NaiveWrites(o, e, u), w[1] = v[1]
  PROVE  b = e /\ t = u
<1> DEFINE row(x, y) == x[1] * DeviceTile + y[1]
           col(x, y) == x[2] * DeviceTile + y[2]
<1>1. DeviceTile \in Nat BY KernelsAssumption DEF Positive
<1>2. ASSUME NEW x \in Nat \X Nat,
             NEW y \in (0 .. DeviceTile - 1) \X (0 .. DeviceTile - 1)
      PROVE  row(x, y) \in Nat /\ col(x, y) \in Nat
  <2>1. x[1] \in Nat /\ x[2] \in Nat /\ y[1] \in Nat /\ y[2] \in Nat OBVIOUS
  <2> QED BY <2>1, <1>1, SMTT(30)
<1>3. w[1] = row(b, t) * o.n + col(b, t) /\ ~(col(b, t) >= o.n) BY DEF NaiveWrites
<1>4. v[1] = row(e, u) * o.n + col(e, u) /\ ~(col(e, u) >= o.n) BY DEF NaiveWrites
<1>5. row(b, t) = row(e, u) /\ col(b, t) = col(e, u)
  <2> HIDE DEF row, col
  <2>1. row(b, t) \in Int /\ row(e, u) \in Int
        /\ col(b, t) \in 0 .. o.n - 1 /\ col(e, u) \in 0 .. o.n - 1
    BY <1>2, <1>3, <1>4
  <2>2. PICK n \in Nat, x, y \in Int, i, j \in 0 .. o.n - 1 :
           n = o.n /\ x = row(b, t) /\ y = row(e, u) /\ i = col(b, t) /\ j = col(e, u)
    BY <2>1
  <2>3. x * n + i = y * n + j BY <1>3, <1>4, <2>2
  <2>4. x = y /\ i = j BY <2>2, <2>3, Apart
  <2> QED BY <2>2, <2>4
<1>6. b[1] = e[1] /\ t[1] = u[1] /\ b[2] = e[2] /\ t[2] = u[2]
  <2>0. b[1] \in Int /\ e[1] \in Int /\ b[2] \in Int /\ e[2] \in Int
        /\ t[1] \in 0 .. DeviceTile - 1 /\ u[1] \in 0 .. DeviceTile - 1
        /\ t[2] \in 0 .. DeviceTile - 1 /\ u[2] \in 0 .. DeviceTile - 1 OBVIOUS
  <2>1. PICK b1, b2, e1, e2 \in Int, t1, t2, u1, u2 \in 0 .. DeviceTile - 1 :
           /\ b1 = b[1] /\ b2 = b[2] /\ e1 = e[1] /\ e2 = e[2]
           /\ t1 = t[1] /\ t2 = t[2] /\ u1 = u[1] /\ u2 = u[2]
    BY <2>0, Zenon
  <2>2. /\ b1 * DeviceTile + t1 = e1 * DeviceTile + u1
        /\ b2 * DeviceTile + t2 = e2 * DeviceTile + u2
    BY <2>1, <1>5
  <2>3. b1 = e1 /\ t1 = u1 BY <2>2, <1>1, Apart
  <2>4. b2 = e2 /\ t2 = u2 BY <2>2, <1>1, Apart
  <2> QED BY <2>1, <2>3, <2>4
<1> QED BY <1>6

\* A whole number of tiles of side s: a tile that begins inside ends inside.
LEMMA WholeTiles ==
  ASSUME NEW s \in Positive, NEW n \in Nat, n % s = 0, NEW x \in Nat, x * s < n,
         NEW y \in 0 .. s - 1
  PROVE  x * s + y \in 0 .. n - 1
<1> DEFINE q == n \div s
<1>1. s \in Nat /\ s >= 1 BY DEF Positive
<1>2. q \in Nat /\ n = s * q BY <1>1, SMTT(30)
<1> HIDE DEF q
<1>3. x < q
  <2>1. SUFFICES ASSUME x >= q PROVE FALSE BY <1>2
  <2>2. x * s >= s * q BY <2>1, <1>1, <1>2, SMTT(30)
  <2>3. x * s \in Int BY <1>1, SMTT(30)
  <2> QED BY <2>2, <2>3, <1>2
<1>4. x * s + s <= n
  <2>1. PICK d \in Nat : q = x + 1 + d
    <3>1. q - x - 1 \in Nat /\ q = x + 1 + (q - x - 1) BY <1>2, <1>3
    <3> QED BY <3>1
  <2>2. s * q = x * s + s + d * s BY <2>1, <1>1, SMTT(30)
  <2>3. d * s \in Nat /\ x * s \in Nat BY <1>1, SMTT(30)
  <2> DEFINE all == s * q  before == x * s  after == d * s
  <2>4. /\ all = n /\ all = before + s + after
        /\ before \in Nat /\ after \in Nat /\ s \in Nat
    BY <1>1, <1>2, <2>2, <2>3
  <2> HIDE DEF all, before, after
  <2>5. before + s <= n BY <2>4
  <2> QED BY <2>5 DEF before
<1>5. x * s \in Nat BY <1>1, SMTT(30)
<1> QED BY <1>1, <1>4, <1>5

\* Nor two warps of the product on tensor cores, which takes whole tiles.
LEMMA WarpDisjoint ==
  ASSUME NEW o, o.n \in Nat, o.n % WarpTile = 0,
         NEW b \in Nat \X Nat, NEW e \in Nat \X Nat,
         NEW t \in (0 .. WarpsPerSide - 1) \X (0 .. WarpsPerSide - 1),
         NEW u \in (0 .. WarpsPerSide - 1) \X (0 .. WarpsPerSide - 1),
         NEW w \in WarpWrites(o, b, t), NEW v \in WarpWrites(o, e, u), w[1] = v[1]
  PROVE  b = e /\ t = u
<1> DEFINE row(x, y) == x[1] * WarpsPerSide + y[1]
           col(x, y) == x[2] * WarpsPerSide + y[2]
<1>1. WarpTile \in Nat /\ WarpTile \in Positive /\ WarpsPerSide \in Nat
  BY KernelsAssumption DEF Positive
<1>2. ASSUME NEW x \in Nat \X Nat,
             NEW y \in (0 .. WarpsPerSide - 1) \X (0 .. WarpsPerSide - 1),
             NEW p \in WarpWrites(o, x, y)
      PROVE  /\ row(x, y) \in Nat /\ col(x, y) \in Nat
             /\ \E i, j \in 0 .. WarpTile - 1 :
                  /\ p[1] = (row(x, y) * WarpTile + i) * o.n + col(x, y) * WarpTile + j
                  /\ col(x, y) * WarpTile + j \in 0 .. o.n - 1
  <2>1. x[1] \in Nat /\ x[2] \in Nat /\ y[1] \in Nat /\ y[2] \in Nat OBVIOUS
  <2>2. row(x, y) \in Nat /\ col(x, y) \in Nat BY <2>1, <1>1, SMTT(30)
  <2>3. /\ ~(col(x, y) * WarpTile >= o.n)
        /\ \E i, j \in 0 .. WarpTile - 1 :
              p[1] = (row(x, y) * WarpTile + i) * o.n + col(x, y) * WarpTile + j
    BY DEF WarpWrites
  <2> HIDE DEF row, col
  <2>4. col(x, y) * WarpTile \in Nat BY <2>2, <1>1, SMTT(30)
  <2>5. col(x, y) * WarpTile < o.n BY <2>3, <2>4
  <2>6. \A j \in 0 .. WarpTile - 1 : col(x, y) * WarpTile + j \in 0 .. o.n - 1
    BY <2>2, <2>5, <1>1, WholeTiles
  <2> QED BY <2>2, <2>3, <2>6
<1>3. PICK i, j \in 0 .. WarpTile - 1 :
         /\ w[1] = (row(b, t) * WarpTile + i) * o.n + col(b, t) * WarpTile + j
         /\ col(b, t) * WarpTile + j \in 0 .. o.n - 1
  BY <1>2
<1>4. PICK k, l \in 0 .. WarpTile - 1 :
         /\ v[1] = (row(e, u) * WarpTile + k) * o.n + col(e, u) * WarpTile + l
         /\ col(e, u) * WarpTile + l \in 0 .. o.n - 1
  BY <1>2
<1>5. row(b, t) \in Nat /\ row(e, u) \in Nat /\ col(b, t) \in Nat /\ col(e, u) \in Nat
  BY <1>2
<1>6. row(b, t) = row(e, u) /\ col(b, t) = col(e, u)
  <2> HIDE DEF row, col
  <2> DEFINE rb == row(b, t) * WarpTile + i  re == row(e, u) * WarpTile + k
             cb == col(b, t) * WarpTile + j  ce == col(e, u) * WarpTile + l
  <2>1. rb \in Int /\ re \in Int BY <1>1, <1>5, SMTT(30)
  <2>2. col(b, t) * WarpTile \in Int /\ col(e, u) * WarpTile \in Int BY <1>1, <1>5, SMTT(30)
  <2>3. rb * o.n \in Int /\ re * o.n \in Int BY <2>1, SMTT(30)
  <2>4. rb * o.n + cb = re * o.n + ce
    <3> DEFINE fb == rb * o.n  fe == re * o.n
               gb == col(b, t) * WarpTile  ge == col(e, u) * WarpTile
    <3>1. fb \in Int /\ fe \in Int /\ gb \in Int /\ ge \in Int BY <2>2, <2>3
    <3>2. w[1] = fb + gb + j /\ v[1] = fe + ge + l BY <1>3, <1>4, Zenon
    <3> HIDE DEF fb, fe, gb, ge
    <3>3. fb + gb + j = fe + ge + l BY <3>2, Zenon
    <3>4. j \in Int /\ l \in Int BY <1>1
    <3>5. fb + (gb + j) = fe + (ge + l) BY <3>1, <3>3, <3>4
    <3> QED BY <3>5 DEF fb, fe, gb, ge
  <2>5. cb \in 0 .. o.n - 1 /\ ce \in 0 .. o.n - 1 BY <1>3, <1>4
  <2>6. rb = re /\ cb = ce
    <3> HIDE DEF rb, re, cb, ce
    <3>1. PICK n \in Nat, x, y \in Int, z, v1 \in 0 .. o.n - 1 :
             n = o.n /\ x = rb /\ y = re /\ z = cb /\ v1 = ce
      BY <2>1, <2>5, Zenon
    <3>2. x * n + z = y * n + v1 BY <2>4, <3>1
    <3>3. z \in 0 .. n - 1 /\ v1 \in 0 .. n - 1 BY <3>1, Zenon
    <3>4. x = y /\ z = v1 BY <3>2, <3>3, Apart
    <3> QED BY <3>1, <3>4
  <2>7. PICK x, y, z, v1 \in Int :
           x = row(b, t) /\ y = row(e, u) /\ z = col(b, t) /\ v1 = col(e, u)
    BY <1>5
  <2>8. x * WarpTile + i = y * WarpTile + k /\ z * WarpTile + j = v1 * WarpTile + l
    BY <2>6, <2>7
  <2>9. x = y BY <2>8, <1>1, Apart
  <2>10. z = v1 BY <2>8, <1>1, Apart
  <2> QED BY <2>7, <2>9, <2>10
<1>7. b[1] = e[1] /\ t[1] = u[1] /\ b[2] = e[2] /\ t[2] = u[2]
  <2>0. b[1] \in Int /\ e[1] \in Int /\ b[2] \in Int /\ e[2] \in Int
        /\ t[1] \in 0 .. WarpsPerSide - 1 /\ u[1] \in 0 .. WarpsPerSide - 1
        /\ t[2] \in 0 .. WarpsPerSide - 1 /\ u[2] \in 0 .. WarpsPerSide - 1 OBVIOUS
  <2>1. PICK b1, b2, e1, e2 \in Int, t1, t2, u1, u2 \in 0 .. WarpsPerSide - 1 :
           /\ b1 = b[1] /\ b2 = b[2] /\ e1 = e[1] /\ e2 = e[2]
           /\ t1 = t[1] /\ t2 = t[2] /\ u1 = u[1] /\ u2 = u[2]
    BY <2>0, Zenon
  <2>2. /\ b1 * WarpsPerSide + t1 = e1 * WarpsPerSide + u1
        /\ b2 * WarpsPerSide + t2 = e2 * WarpsPerSide + u2
    BY <2>1, <1>6
  <2>3. b1 = e1 /\ t1 = u1 BY <2>2, <1>1, Apart
  <2>4. b2 = e2 /\ t2 = u2 BY <2>2, <1>1, Apart
  <2> QED BY <2>1, <2>3, <2>4
<1> QED BY <1>7
-----------------------------------------------------------------------------
LEMMA LaunchInvImplies == LaunchInv => OneThreadPerCell
<1> SUFFICES ASSUME LaunchInv, Launched, call.op # "gemm_tiled",
                    NEW b \in GridOf(call), NEW e \in GridOf(call),
                    NEW t \in ThreadsOf(call), NEW u \in ThreadsOf(call),
                    NEW w \in Writes(call, b, t), NEW v \in Writes(call, e, u), w[1] = v[1]
             PROVE  b = e /\ t = u
  BY DEF OneThreadPerCell
<1>1. call \in Operations /\ call.op \notin {"matmul", "matmulq"}
      /\ (call.op = "wmma" => call.n % WarpTile = 0)
  BY DEF LaunchInv
<1>2. CASE call.op \in {"gemm_naive", "wmma"}
  <2>1. call.n \in Nat BY <1>1, <1>2, OperationsAssumption DEF AllProducts, Products
  <2>2. b \in Nat \X Nat /\ e \in Nat \X Nat
    BY <1>2 DEF GridOf, Products
  <2>3. CASE call.op = "gemm_naive"
    BY <2>1, <2>2, <2>3, NaiveDisjoint DEF ThreadsOf, Writes
  <2>4. CASE call.op = "wmma"
    BY <1>1, <2>1, <2>2, <2>4, WarpDisjoint DEF ThreadsOf, Writes
  <2> QED BY <1>2, <2>3, <2>4
<1>3. CASE call.op \notin {"gemm_naive", "wmma"}
  <2>1. call.op \in RowKernels \cup Elementwise \cup {"flash"}
    BY <1>1, <1>3, OperationsAssumption DEF AllProducts, Products
  <2>2. call.op \notin Products BY <1>3 DEF Products
  <2>3. PICK x \in Int, y \in Int : b = <<x>> /\ e = <<y>> BY <2>2 DEF GridOf
  <2>4. PICK i \in 0 .. BlockThreads - 1, j \in 0 .. BlockThreads - 1 : t = <<i>> /\ u = <<j>>
    BY <1>3 DEF ThreadsOf
  <2> DEFINE g == x * BlockThreads + i  h == y * BlockThreads + j
  <2>5. GlobalId(b, t) = g /\ GlobalId(e, u) = h BY <2>3, <2>4 DEF GlobalId
  <2>6. g \in Int /\ h \in Int
    <3>1. BlockThreads \in Int BY KernelsAssumption DEF Positive
    <3> QED BY <3>1, SMTT(30)
  <2> HIDE DEF g, h
  <2>7. w \in FlatWrites(call, g) /\ v \in FlatWrites(call, h)
    BY <1>3, <2>5 DEF Writes
  <2>8. g = h BY <1>1, <2>1, <2>6, <2>7, FlatDisjoint
  <2>9. x = y /\ i = j BY <2>8, NumbersDiffer DEF g, h
  <2> QED BY <2>3, <2>4, <2>9
<1> QED BY <1>2, <1>3

\* In a launch without barriers no cell of the output is written by two
\* threads, for every shape, block size and tile.
THEOREM NoCellIsShared == KernelSpec => []OneThreadPerCell
<1>1. KernelSpec => []LaunchInv BY LaunchInit, LaunchNext, PTL DEF KernelSpec
<1> QED BY <1>1, LaunchInvImplies, PTL
-----------------------------------------------------------------------------
(* The products on the device.                                             *)

\* What a cell of a product holds when it is computed in one sum.
Complete(c) == C[c] = From(Product(c))
IsDone ==
    /\ DOMAIN C = 0 .. call.b * call.m * call.n - 1
    /\ \A c \in DOMAIN C : Complete(c)

\* Element <<i, j>> is computed by thread t of block b.
Computes(b, t, i, j) ==
    IF call.op = "wmma"
    THEN /\ i \div WarpTile = b[1] * WarpsPerSide + t[1]
         /\ j \div WarpTile = b[2] * WarpsPerSide + t[2]
    ELSE i = b[1] * DeviceTile + t[1] /\ j = b[2] * DeviceTile + t[2]
PartDone(b, t) ==
    \A i \in AllRows, j \in Cols : Computes(b, t, i, j) => Complete(Cell(0, i, j))

\* What thread t stages in the round from k0 on.
StagedA(t, k0) ==
    IF RowOf(t) < call.m /\ k0 + t[2] < call.k THEN RowOf(t) * call.k + (k0 + t[2]) ELSE Zero
StagedB(t, k0) ==
    IF k0 + t[1] < call.k /\ ColOf(t) < call.n THEN (k0 + t[1]) * call.n + ColOf(t) ELSE Zero

\* How far a thread has come in the products of its element.
SumTo(r) == IF r.at = "multiplied" THEN r.k0 + DeviceTile ELSE r.k0

\* Thread t of gemm_tiled_k, with the registers r, when it has staged x and y.
TileThread(r, x, y, t) ==
    /\ r.at \in {"start", "staged", "multiply", "multiplied", "store", "done"}
    /\ r.k0 \in Nat
    /\ r.at \in {"start", "staged", "multiply", "multiplied"} => r.k0 < call.k
    /\ r.at = "store" => r.k0 >= call.k
    /\ r.at \in {"staged", "multiply", "multiplied"} => x = StagedA(t, r.k0) /\ y = StagedB(t, r.k0)
    /\ r.at # "done" /\ RowOf(t) < call.m /\ ColOf(t) < call.n =>
          r.acc = Part(0, RowOf(t), ColOf(t), 0, Least(SumTo(r), call.k))

BlockInv ==
    /\ block \in GridOf(call)
    /\ DOMAIN thread = ThreadsOf(call)
    /\ call.op = "gemm_tiled" =>
          /\ DOMAIN shared.a = ThreadsOf(call) /\ DOMAIN shared.b = ThreadsOf(call)
          /\ \A t \in ThreadsOf(call) : TileThread(thread[t], shared.a[t], shared.b[t], t)

ProductInv ==
    /\ phase = "returned" /\ ~IsGemm /\ call.op \in AllProducts => call \in Operations /\ IsDone
    /\ Launched /\ call.op \in Products =>
          /\ DOMAIN C = 0 .. call.b * call.m * call.n - 1
          /\ grid \subseteq GridOf(call)
          /\ NoThreads \/ BlockInv
          /\ \A b \in GridOf(call), t \in ThreadsOf(call) :
                \/ b \in grid
                \/ ~NoThreads /\ b = block /\ thread[t].at # "done"
                \/ PartDone(b, t)
-----------------------------------------------------------------------------
LEMMA ProductSizes ==
  ASSUME call \in Operations, call.op \in AllProducts
  PROVE  /\ call.b \in Nat /\ call.m \in Nat /\ call.n \in Nat /\ call.k \in Nat
         /\ call.op # "matmul" => call.b = 1
BY OperationsAssumption

\* Where there is a cell the sizes are positive.
LEMMA NotEmpty ==
  ASSUME NEW b \in Nat, NEW m \in Nat, NEW n \in Nat, NEW c \in 0 .. b * m * n - 1
  PROVE  b \in Positive /\ m \in Positive /\ n \in Positive
<1>1. b # 0
  <2>1. SUFFICES ASSUME b = 0 PROVE FALSE OBVIOUS
  <2>2. 0 * m = 0 /\ 0 * n = 0 BY SMTT(30)
  <2> QED BY <2>1, <2>2
<1>2. m # 0
  <2>1. SUFFICES ASSUME m = 0 PROVE FALSE OBVIOUS
  <2>2. b * 0 = 0 /\ 0 * n = 0 BY SMTT(30)
  <2> QED BY <2>1, <2>2
<1>3. n # 0
  <2>1. SUFFICES ASSUME n = 0 PROVE FALSE OBVIOUS
  <2>2. b * m \in Nat BY SMTT(30)
  <2> DEFINE a == b * m
  <2>3. a \in Nat BY <2>2
  <2> HIDE DEF a
  <2>4. a * 0 = 0 BY <2>3, SMTT(30)
  <2> QED BY <2>1, <2>4 DEF a
<1> QED BY <1>1, <1>2, <1>3 DEF Positive

LEMMA CompleteIs ==
  ASSUME Sizes, NEW s \in Nat, NEW i \in AllRows, NEW j \in Cols
  PROVE  From(Product(Cell(s, i, j))) = <<Part(s, i, j, 0, call.k)>>
BY ProductOfCell DEF From

\* DotOf is the part of a cell of the only slice.
LEMMA DotIsWhole ==
  ASSUME call.m \in Nat, call.n \in Nat, call.k \in Nat, NEW i \in Nat, NEW j \in Nat
  PROVE  DotOf(call, i, j) = Part(0, i, j, 0, call.k)
<1>1. PICK m, n, k \in Nat : m = call.m /\ n = call.n /\ k = call.k BY Zenon
<1>2. ASSUME NEW q \in 1 .. k
      PROVE  /\ i * k + q - 1 = 0 * m * k + i * k + (0 + q - 1)
             /\ (q - 1) * n + j = 0 * k * n + (0 + q - 1) * n + j
  <2>1. 0 * m * k = 0 /\ 0 * k * n = 0 BY SMTT(30)
  <2>2. i * k \in Nat BY SMTT(30)
  <2>3. PICK p \in Nat : p = q - 1
    <3>1. q - 1 \in Nat OBVIOUS
    <3> QED BY <3>1
  <2>4. p * n \in Nat BY SMTT(30)
  <2> DEFINE a == i * k  e == p * n  z == 0 * m * k  y == 0 * k * n
  <2>5. a \in Nat /\ e \in Nat /\ z = 0 /\ y = 0 BY <2>1, <2>2, <2>4
  <2>6. 0 + q - 1 = p /\ q - 1 = p /\ q = p + 1 BY <2>3
  <2> HIDE DEF a, e, z, y
  <2>7. a + q - 1 = z + a + (0 + q - 1) /\ e + j = y + e + j BY <2>5, <2>6
  <2> QED BY <2>6, <2>7 DEF a, e, z, y
<1>3. k - 0 = k OBVIOUS
<1> QED BY <1>1, <1>2, <1>3 DEF DotOf, Part

LEMMA DoneIsProduct ==
  ASSUME call \in Operations, call.op \in AllProducts, IsDone
  PROVE  /\ DOMAIN C = 0 .. call.b * call.m * call.n - 1
         /\ \A c \in DOMAIN C : Summands(C[c]) = Product(c)
<1>1. ASSUME NEW c \in DOMAIN C PROVE Summands(C[c]) = Product(c)
  <2>1. c \in 0 .. call.b * call.m * call.n - 1 /\ C[c] = From(Product(c))
    BY DEF IsDone, Complete
  <2>2. Sizes BY <2>1, ProductSizes, NotEmpty DEF Sizes
  <2>3. PICK s \in 0 .. call.b - 1, i \in AllRows, j \in Cols : c = Cell(s, i, j)
    BY <2>1, <2>2, EveryCell
  <2>4. s \in Nat BY <2>2 DEF Sizes, Positive
  <2>5. C[c] = <<Part(s, i, j, 0, call.k)>> /\ Product(c) = Part(s, i, j, 0, call.k)
    BY <2>1, <2>2, <2>3, <2>4, CompleteIs, ProductOfCell
  <2> QED BY <2>2, <2>5, OneSum DEF Sizes
<1> QED BY <1>1 DEF IsDone

\* The int8 product on the host, a sequential loop.
LEMMA HostProduct ==
  ASSUME call \in Operations, call.op = "matmulq",
         C = [c \in 0 .. OutputSize(call) - 1 |-> HostCell(call, c)]
  PROVE  IsDone
<1>1. call.op \in AllProducts BY DEF AllProducts
<1>2. /\ call.b \in Nat /\ call.m \in Nat /\ call.n \in Nat /\ call.k \in Nat
      /\ call.b = 1
  BY <1>1, ProductSizes
<1>3. OutputSize(call) = call.b * call.m * call.n BY DEF OutputSize
<1>4. ASSUME NEW c \in 0 .. call.b * call.m * call.n - 1 PROVE HostCell(call, c) = From(Product(c))
  <2>1. HostCell(call, c) = From(DotOf(call, c \div call.n, c % call.n)) BY DEF HostCell
  <2>2. Sizes BY <1>2, NotEmpty DEF Sizes
  <2>3. PICK s \in 0 .. call.b - 1, i \in AllRows, j \in Cols : c = Cell(s, i, j)
    BY <2>2, EveryCell
  <2>4. s = 0 /\ i \in Nat /\ j \in Nat BY <1>2, <2>3 DEF AllRows, Cols
  <2>5. c \div call.n = i /\ c % call.n = j
    <3>1. PICK n \in Positive : n = call.n BY <2>2 DEF Sizes
    <3>2. j \in 0 .. n - 1 BY <3>1 DEF Cols
    <3>3. 0 * call.m + i = i
      <4>1. 0 * call.m = 0 BY <1>2, SMTT(30)
      <4> QED BY <4>1, <2>4
    <3>4. c = i * n + j
      <4>1. 0 \in Int /\ i \in Int /\ j \in Int BY <2>4
      <4>2. c = (0 * call.m + i) * call.n + j BY <2>2, <2>3, <2>4, <4>1, CellIs
      <4> QED BY <4>2, <3>1, <3>3
    <3> QED BY <2>4, <3>1, <3>2, <3>4, DivisionIs
  <2>6. DotOf(call, i, j) = Part(0, i, j, 0, call.k) BY <1>2, <2>4, DotIsWhole
  <2>7. Product(c) = Part(0, i, j, 0, call.k) BY <2>2, <2>3, <2>4, ProductOfCell
  <2> QED BY <2>1, <2>5, <2>6, <2>7
<1> QED BY <1>3, <1>4 DEF IsDone, Complete

\* The cells of the only slice.
LEMMA SingleCell ==
  ASSUME call.m \in Nat, call.n \in Nat, NEW i \in Nat, NEW j \in Nat
  PROVE  Cell(0, i, j) = i * call.n + j
<1>1. PICK m, n \in Nat : m = call.m /\ n = call.n BY Zenon
<1>2. 0 * m * n = 0 BY SMTT(30)
<1>3. i * n \in Nat BY SMTT(30)
<1> DEFINE a == i * n  z == 0 * m * n
<1>4. a \in Nat /\ z = 0 BY <1>2, <1>3
<1> HIDE DEF a, z
<1>5. z + a + j = a + j BY <1>4
<1> QED BY <1>1, <1>5 DEF Cell, a, z

\* What cuBLAS, handed the operands in the order the code hands them over,
\* writes to a cell of the row-major product.
CublasDots(i, j) == [p \in 1 .. call.k |-> <<(p - 1) + i * call.k, j + (p - 1) * call.n>>]
InSlice(s, v) ==
    [p \in DOMAIN v |-> <<s * call.m * call.k + v[p][1], s * call.k * call.n + v[p][2]>>]

LEMMA CublasElement ==
  ASSUME Sizes, NEW s \in Nat, NEW i \in AllRows, NEW j \in Cols
  PROVE  /\ s * call.m * call.n + (j + i * call.n) = Cell(s, i, j)
         /\ InSlice(s, CublasDots(i, j)) = Part(s, i, j, 0, call.k)
<1> DEFINE v == CublasDots(i, j)
<1>1. PICK m, n \in Positive, k \in Nat : m = call.m /\ n = call.n /\ k = call.k
  BY Zenon DEF Sizes
<1>2. m \in Nat /\ n \in Nat /\ i \in Nat /\ j \in Nat BY <1>1 DEF Positive, AllRows, Cols
<1>3. s * m * n \in Nat /\ i * n \in Nat /\ s * m * k \in Nat /\ s * k * n \in Nat /\ i * k \in Nat
  <2>1. s * m \in Nat /\ s * k \in Nat BY <1>2, SMTT(30)
  <2> DEFINE a == s * m  e == s * k
  <2>2. a \in Nat /\ e \in Nat BY <2>1
  <2> HIDE DEF a, e
  <2>3. a * n \in Nat /\ a * k \in Nat /\ e * n \in Nat /\ i * n \in Nat /\ i * k \in Nat
    BY <1>2, <2>2, SMTT(30)
  <2> QED BY <2>3 DEF a, e
<1> DEFINE a == s * m * n  e == i * n  f == s * m * k  g == s * k * n  h == i * k
<1>4. a \in Nat /\ e \in Nat /\ f \in Nat /\ g \in Nat /\ h \in Nat BY <1>3
<1>5. a + (j + e) = a + e + j
  <2> HIDE DEF a, e
  <2> QED BY <1>2, <1>4
<1>6. ASSUME NEW p \in 1 .. k
      PROVE  /\ f + ((p - 1) + h) = f + h + (0 + p - 1)
             /\ g + (j + (p - 1) * n) = g + (0 + p - 1) * n + j
  <2>1. PICK q \in Nat : q = p - 1 /\ q = 0 + p - 1
    <3>1. p - 1 \in Nat /\ p - 1 = 0 + p - 1 OBVIOUS
    <3> QED BY <3>1
  <2>2. q * n \in Nat BY <1>2, SMTT(30)
  <2> DEFINE y == q * n
  <2>3. y \in Nat BY <2>2
  <2> HIDE DEF f, g, h, y
  <2>4. f + (q + h) = f + h + q /\ g + (j + y) = g + y + j BY <1>2, <1>4, <2>3
  <2>5. p \in Int BY <1>1
  <2> QED BY <2>1, <2>4, <2>5 DEF y
<1>7. k - 0 = k OBVIOUS
<1>8. DOMAIN v = 1 .. k /\ \A p \in 1 .. k : v[p] = <<(p - 1) + h, j + (p - 1) * n>>
  BY <1>1 DEF CublasDots
<1> HIDE DEF v
<1>9. [p \in DOMAIN v |-> <<f + v[p][1], g + v[p][2]>>]
        = [p \in 1 .. k |-> <<f + h + (0 + p - 1), g + (0 + p - 1) * n + j>>]
  <2> HIDE DEF f, g, h
  <2>1. ASSUME NEW p \in 1 .. k
        PROVE  f + v[p][1] = f + h + (0 + p - 1) /\ g + v[p][2] = g + (0 + p - 1) * n + j
    <3>1. v[p][1] = (p - 1) + h /\ v[p][2] = j + (p - 1) * n BY <1>8
    <3> QED BY <3>1, <1>6
  <2> QED BY <1>8, <2>1
<1>10. Part(s, i, j, 0, k) = [p \in 1 .. k |-> <<f + h + (0 + p - 1), g + (0 + p - 1) * n + j>>]
  BY <1>1, <1>7 DEF Part
<1> QED BY <1>1, <1>5, <1>9, <1>10 DEF Cell, InSlice, v

LEMMA CublasProduct ==
  ASSUME call \in Operations, call.op = "matmul",
         NEW W, W = CublasWrites(call),
         C = [c \in {w[1] : w \in W} |-> (CHOOSE w \in W : w[1] = c)[2]]
  PROVE  IsDone
<1> DEFINE size == call.b * call.m * call.n
           out(s, i, j) == <<s * call.m * call.n + (j + i * call.n), From(InSlice(s, CublasDots(i, j)))>>
<1>1. call.op \in AllProducts BY DEF AllProducts
<1>2. call.b \in Nat /\ call.m \in Nat /\ call.n \in Nat /\ call.k \in Nat
  BY <1>1, ProductSizes
<1> DEFINE G == Sgemm(call.n, call.m, call.k, call.n, call.k, call.n)
           at(s, u) == <<s * call.m * call.n + u[1], From(InSlice(s, u[2]))>>
<1>g. G = {<<j + i * call.n, CublasDots(i, j)>> : j \in Cols, i \in AllRows}
  BY DEF Sgemm, AllRows, Cols, CublasDots
<1>w. W = UNION {{at(s, u) : u \in G} : s \in 0 .. call.b - 1}
  BY DEF CublasWrites, InSlice
<1> HIDE DEF G
<1>a. ASSUME NEW s \in 0 .. call.b - 1, NEW i \in AllRows, NEW j \in Cols
      PROVE  at(s, <<j + i * call.n, CublasDots(i, j)>>) = out(s, i, j)
  <2>1. <<j + i * call.n, CublasDots(i, j)>>[1] = j + i * call.n /\ <<j + i * call.n, CublasDots(i, j)>>[2] = CublasDots(i, j)
    OBVIOUS
  <2> QED BY <2>1
<1>3. ASSUME NEW w \in W
      PROVE  \E s \in 0 .. call.b - 1, i \in AllRows, j \in Cols : w = out(s, i, j)
  <2> HIDE DEF at, out
  <2>1. PICK s \in 0 .. call.b - 1, u \in G : w = at(s, u) BY <1>w
  <2>2. PICK i \in AllRows, j \in Cols : u = <<j + i * call.n, CublasDots(i, j)>> BY <1>g
  <2> QED BY <2>1, <2>2, <1>a
<1>4. ASSUME NEW s \in 0 .. call.b - 1, NEW i \in AllRows, NEW j \in Cols
      PROVE  out(s, i, j) \in W
  <2> HIDE DEF at, out
  <2>1. <<j + i * call.n, CublasDots(i, j)>> \in G BY <1>g
  <2>2. at(s, <<j + i * call.n, CublasDots(i, j)>>) \in W BY <2>1, <1>w
  <2> QED BY <2>2, <1>a
<1>5. ASSUME NEW s \in 0 .. call.b - 1, NEW i \in AllRows, NEW j \in Cols
      PROVE  /\ Sizes
             /\ out(s, i, j) = <<Cell(s, i, j), From(Product(Cell(s, i, j)))>>
  <2>1. Sizes BY <1>2 DEF Sizes, Positive, AllRows, Cols
  <2>2. s \in Nat BY <1>2
  <2>3. /\ s * call.m * call.n + (j + i * call.n) = Cell(s, i, j)
        /\ InSlice(s, CublasDots(i, j)) = Part(s, i, j, 0, call.k)
    BY <2>1, <2>2, CublasElement
  <2>4. Part(s, i, j, 0, call.k) = Product(Cell(s, i, j)) BY <2>1, <2>2, ProductOfCell
  <2> QED BY <2>1, <2>3, <2>4
<1> HIDE DEF out
<1>6. ASSUME NEW w \in W PROVE w[1] \in 0 .. size - 1 /\ w[2] = From(Product(w[1]))
  <2>1. PICK s \in 0 .. call.b - 1, i \in AllRows, j \in Cols : w = out(s, i, j) BY <1>3
  <2>2. Sizes /\ w = <<Cell(s, i, j), From(Product(Cell(s, i, j)))>> BY <1>5, <2>1
  <2> QED BY <2>2, CellInside
<1>7. ASSUME NEW c \in 0 .. size - 1 PROVE \E w \in W : w[1] = c
  <2>1. Sizes BY <1>2, NotEmpty DEF Sizes
  <2>2. PICK s \in 0 .. call.b - 1, i \in AllRows, j \in Cols : c = Cell(s, i, j)
    BY <2>1, EveryCell
  <2>3. out(s, i, j) \in W /\ out(s, i, j)[1] = c BY <1>4, <1>5, <2>2
  <2> QED BY <2>3
<1> HIDE DEF size
<1>8. {w[1] : w \in W} = 0 .. size - 1 BY <1>6, <1>7
<1>9. ASSUME NEW c \in 0 .. size - 1 PROVE C[c] = From(Product(c))
  <2>1. PICK x : x = CHOOSE w \in W : w[1] = c OBVIOUS
  <2>2. x \in W /\ x[1] = c BY <1>7, <2>1, Zenon
  <2>3. C[c] = x[2] BY <1>8, <2>1, Zenon
  <2> QED BY <1>6, <2>2, <2>3
<1>10. DOMAIN C = 0 .. size - 1 BY <1>8
<1> QED BY <1>9, <1>10 DEF IsDone, Complete, size
-----------------------------------------------------------------------------
\* Cells that are written with their products are complete afterwards, and no
\* other cell is touched.
LEMMA WritesComplete ==
  ASSUME NEW W, \A w \in W : w[1] \in DOMAIN C /\ w[2] = From(Product(w[1])),
         C' = WithWrites(W), call' = call
  PROVE  /\ DOMAIN C' = DOMAIN C
         /\ \A c \in DOMAIN C : Complete(c) => Complete(c)'
         /\ \A w \in W : Complete(w[1])'
<1>1. C' = [c \in DOMAIN C \cup {x[1] : x \in W} |->
              IF \E x \in W : x[1] = c THEN (CHOOSE x \in W : x[1] = c)[2] ELSE C[c]]
  BY DEF WithWrites
<1>2. DOMAIN C' = DOMAIN C
  <2>1. DOMAIN C' = DOMAIN C \cup {x[1] : x \in W} BY <1>1
  <2>2. {x[1] : x \in W} \subseteq DOMAIN C OBVIOUS
  <2> QED BY <2>1, <2>2
<1>3. ASSUME NEW c \in DOMAIN C, \E x \in W : x[1] = c PROVE C'[c] = From(Product(c))
  <2>1. PICK x : x = CHOOSE y \in W : y[1] = c OBVIOUS
  <2>2. x \in W /\ x[1] = c BY <1>3, <2>1
  <2>3. C'[c] = x[2] BY <1>1, <1>3, <2>1
  <2> QED BY <2>2, <2>3
<1>4. ASSUME NEW c \in DOMAIN C, ~\E x \in W : x[1] = c PROVE C'[c] = C[c]
  BY <1>1, <1>4
<1>5. \A c \in DOMAIN C : C'[c] = From(Product(c)) => Complete(c)'
  BY DEF Complete, Product
<1>6. \A c \in DOMAIN C : Complete(c) => Complete(c)'
  BY <1>3, <1>4, <1>5 DEF Complete
<1>7. \A w \in W : Complete(w[1])' BY <1>3, <1>5
<1> QED BY <1>2, <1>6, <1>7

IsOnTiles == call.op = "wmma" => call.m % WarpTile = 0 /\ call.n % WarpTile = 0

LEMMA ProductGrid ==
  ASSUME call \in Operations, call.op \in Products, NEW b \in GridOf(call)
  PROVE  /\ b \in Nat \X Nat /\ b = <<b[1], b[2]>> /\ b[1] \in Nat /\ b[2] \in Nat
BY DEF GridOf

LEMMA DeviceSizes ==
  ASSUME call \in Operations, call.op \in Products
  PROVE  /\ call.b = 1 /\ call.m \in Nat /\ call.n \in Nat /\ call.k \in Nat
         /\ call.op \in AllProducts
BY ProductSizes DEF Products, AllProducts

LEMMA ElementSizes ==
  ASSUME call \in Operations, call.op \in Products, NEW i \in AllRows, NEW j \in Cols
  PROVE  /\ Sizes /\ i \in Nat /\ j \in Nat
         /\ Cell(0, i, j) = i * call.n + j
         /\ Cell(0, i, j) \in 0 .. call.b * call.m * call.n - 1
         /\ From(Product(Cell(0, i, j))) = <<Part(0, i, j, 0, call.k)>>
         /\ DotOf(call, i, j) = Part(0, i, j, 0, call.k)
<1>1. call.b = 1 /\ call.m \in Nat /\ call.n \in Nat /\ call.k \in Nat BY DeviceSizes
<1>2. Sizes /\ i \in Nat /\ j \in Nat BY <1>1 DEF Sizes, Positive, AllRows, Cols
<1>3. 0 \in 0 .. call.b - 1 /\ 0 \in Nat BY <1>1
<1>4. Cell(0, i, j) = i * call.n + j BY <1>1, <1>2, SingleCell
<1>5. Cell(0, i, j) \in 0 .. call.b * call.m * call.n - 1 BY <1>2, <1>3, CellInside
<1>6. From(Product(Cell(0, i, j))) = <<Part(0, i, j, 0, call.k)>> BY <1>2, <1>3, CompleteIs
<1>7. DotOf(call, i, j) = Part(0, i, j, 0, call.k) BY <1>1, <1>2, DotIsWhole
<1> QED BY <1>2, <1>4, <1>5, <1>6, <1>7

\* The naive product.
LEMMA NaiveIsRight ==
  ASSUME call \in Operations, call.op = "gemm_naive", NEW b \in GridOf(call),
         NEW t \in ThreadsOf(call)
  PROVE  /\ \A w \in Writes(call, b, t) :
               /\ w[1] \in 0 .. call.b * call.m * call.n - 1
               /\ w[2] = From(Product(w[1]))
         /\ \A i \in AllRows, j \in Cols : Computes(b, t, i, j) =>
               \E w \in Writes(call, b, t) : w[1] = Cell(0, i, j)
<1>1. call.op \in Products /\ call.op # "wmma" BY DEF Products
<1>2. /\ call.b = 1 /\ call.m \in Nat /\ call.n \in Nat /\ call.k \in Nat BY <1>1, DeviceSizes
<1> DEFINE row == b[1] * DeviceTile + t[1]  col == b[2] * DeviceTile + t[2]
<1>3. row \in Nat /\ col \in Nat
  <2>1. b[1] \in Nat /\ b[2] \in Nat BY <1>1, ProductGrid
  <2>2. t[1] \in Nat /\ t[2] \in Nat BY DEF ThreadsOf
  <2>3. DeviceTile \in Nat BY KernelsAssumption DEF Positive
  <2> QED BY <2>1, <2>2, <2>3, SMTT(30)
<1>4. Writes(call, b, t) = IF row >= call.m \/ col >= call.n THEN {}
                           ELSE {<<row * call.n + col, From(DotOf(call, row, col))>>}
  BY DEF Writes, NaiveWrites
<1> HIDE DEF row, col
<1>5. ASSUME ~(row >= call.m \/ col >= call.n)
      PROVE  /\ row \in AllRows /\ col \in Cols
             /\ Writes(call, b, t) = {<<Cell(0, row, col), From(Product(Cell(0, row, col)))>>}
             /\ Cell(0, row, col) \in 0 .. call.b * call.m * call.n - 1
  <2>1. row \in AllRows /\ col \in Cols BY <1>2, <1>3, <1>5 DEF AllRows, Cols
  <2>2. /\ Cell(0, row, col) = row * call.n + col
        /\ Cell(0, row, col) \in 0 .. call.b * call.m * call.n - 1
        /\ From(Product(Cell(0, row, col))) = From(DotOf(call, row, col))
    BY <1>1, <2>1, ElementSizes DEF From
  <2> QED BY <1>4, <1>5, <2>1, <2>2
<1>6. ASSUME NEW w \in Writes(call, b, t)
      PROVE  w[1] \in 0 .. call.b * call.m * call.n - 1 /\ w[2] = From(Product(w[1]))
  <2>1. ~(row >= call.m \/ col >= call.n) BY <1>4
  <2> DEFINE c == Cell(0, row, col)
  <2>2. w = <<c, From(Product(c))>> /\ c \in 0 .. call.b * call.m * call.n - 1 BY <2>1, <1>5
  <2> HIDE DEF c
  <2>3. w[1] = c /\ w[2] = From(Product(c)) BY <2>2
  <2> QED BY <2>2, <2>3
<1>7. ASSUME NEW i \in AllRows, NEW j \in Cols, Computes(b, t, i, j)
      PROVE  \E w \in Writes(call, b, t) : w[1] = Cell(0, i, j)
  <2>1. i = row /\ j = col BY <1>1, <1>7 DEF Computes, row, col
  <2>2. ~(row >= call.m \/ col >= call.n) BY <1>2, <2>1 DEF AllRows, Cols
  <2> DEFINE c == Cell(0, row, col)
  <2>3. Writes(call, b, t) = {<<c, From(Product(c))>>} BY <1>5, <2>2
  <2>4. c = Cell(0, i, j) BY <2>1
  <2> HIDE DEF c
  <2>5. <<c, From(Product(c))>> \in Writes(call, b, t) /\ <<c, From(Product(c))>>[1] = c BY <2>3
  <2> QED BY <2>4, <2>5
<1> QED BY <1>6, <1>7

\* The product on tensor cores, which takes whole tiles.
LEMMA WarpIsRight ==
  ASSUME call \in Operations, call.op = "wmma", IsOnTiles, NEW b \in GridOf(call),
         NEW t \in ThreadsOf(call)
  PROVE  /\ \A w \in Writes(call, b, t) :
               /\ w[1] \in 0 .. call.b * call.m * call.n - 1
               /\ w[2] = From(Product(w[1]))
         /\ \A i \in AllRows, j \in Cols : Computes(b, t, i, j) =>
               \E w \in Writes(call, b, t) : w[1] = Cell(0, i, j)
<1>1. call.op \in Products BY DEF Products
<1>2. /\ call.b = 1 /\ call.m \in Nat /\ call.n \in Nat /\ call.k \in Nat BY <1>1, DeviceSizes
<1>w. WarpTile \in Positive /\ WarpTile \in Nat /\ WarpsPerSide \in Nat
  BY KernelsAssumption DEF Positive
<1> DEFINE p == b[1] * WarpsPerSide + t[1]  q == b[2] * WarpsPerSide + t[2]
           row == p * WarpTile  col == q * WarpTile
<1>3. p \in Nat /\ q \in Nat
  <2>1. b[1] \in Nat /\ b[2] \in Nat BY <1>1, ProductGrid
  <2>2. t[1] \in Nat /\ t[2] \in Nat BY DEF ThreadsOf
  <2> QED BY <2>1, <2>2, <1>w, SMTT(30)
<1>4. Writes(call, b, t) =
        IF row >= call.m \/ col >= call.n THEN {}
        ELSE {<<(row + x) * call.n + col + y, From(DotOf(call, row + x, col + y))>> :
                 x \in 0 .. WarpTile - 1, y \in 0 .. WarpTile - 1}
  BY DEF Writes, WarpWrites
<1>c. \A i, j : Computes(b, t, i, j) <=> i \div WarpTile = p /\ j \div WarpTile = q
  BY DEF Computes
<1> HIDE DEF p, q
<1>5. row \in Nat /\ col \in Nat BY <1>3, <1>w, SMTT(30)
<1>6. ASSUME ~(row >= call.m \/ col >= call.n),
             NEW x \in 0 .. WarpTile - 1, NEW y \in 0 .. WarpTile - 1
      PROVE  /\ row + x \in AllRows /\ col + y \in Cols
             /\ (row + x) * call.n + col + y = Cell(0, row + x, col + y)
             /\ Cell(0, row + x, col + y) \in 0 .. call.b * call.m * call.n - 1
             /\ From(DotOf(call, row + x, col + y)) = From(Product(Cell(0, row + x, col + y)))
  <2>1. row < call.m /\ col < call.n BY <1>2, <1>5, <1>6
  <2>2. row + x \in 0 .. call.m - 1 /\ col + y \in 0 .. call.n - 1
    BY <2>1, <1>2, <1>3, <1>w, WholeTiles DEF IsOnTiles
  <2>3. row + x \in AllRows /\ col + y \in Cols BY <2>2 DEF AllRows, Cols
  <2> HIDE DEF row, col
  <2>4. PICK r \in Nat, c \in Nat : r = row + x /\ c = col + y BY <1>5
  <2>5. /\ Cell(0, r, c) = r * call.n + c
        /\ Cell(0, r, c) \in 0 .. call.b * call.m * call.n - 1
        /\ From(DotOf(call, r, c)) = From(Product(Cell(0, r, c)))
    BY <1>1, <2>3, <2>4, ElementSizes DEF From
  <2>6. r * call.n + col + y = r * call.n + c
    <3>1. r * call.n \in Nat BY <1>2, SMTT(30)
    <3> DEFINE a == r * call.n
    <3>2. a \in Nat BY <3>1
    <3> HIDE DEF a
    <3>3. a + col + y = a + c BY <3>2, <2>4, <1>5
    <3> QED BY <3>3 DEF a
  <2> QED BY <2>3, <2>4, <2>5, <2>6
<1> HIDE DEF row, col
<1>7. ASSUME NEW w \in Writes(call, b, t)
      PROVE  w[1] \in 0 .. call.b * call.m * call.n - 1 /\ w[2] = From(Product(w[1]))
  <2>1. ~(row >= call.m \/ col >= call.n) BY <1>4
  <2>2. PICK x \in 0 .. WarpTile - 1, y \in 0 .. WarpTile - 1 :
           w = <<(row + x) * call.n + col + y, From(DotOf(call, row + x, col + y))>>
    BY <2>1, <1>4
  <2>3. w = <<Cell(0, row + x, col + y), From(Product(Cell(0, row + x, col + y)))>>
    BY <2>1, <2>2, <1>6
  <2>4. Cell(0, row + x, col + y) \in 0 .. call.b * call.m * call.n - 1 BY <2>1, <1>6
  <2> QED BY <2>3, <2>4
<1>8. ASSUME NEW i \in AllRows, NEW j \in Cols, Computes(b, t, i, j)
      PROVE  \E w \in Writes(call, b, t) : w[1] = Cell(0, i, j)
  <2>1. i \div WarpTile = p /\ j \div WarpTile = q BY <1>8, <1>c
  <2>2. i \in Int /\ j \in Int /\ i < call.m /\ j < call.n BY <1>2 DEF AllRows, Cols
  <2>3. PICK x \in 0 .. WarpTile - 1 : i = p * WarpTile + x
    <3>1. i % WarpTile \in 0 .. WarpTile - 1 /\ i = (i \div WarpTile) * WarpTile + (i % WarpTile)
      BY <2>2, <1>w, Division
    <3> QED BY <3>1, <2>1
  <2>4. PICK y \in 0 .. WarpTile - 1 : j = q * WarpTile + y
    <3>1. j % WarpTile \in 0 .. WarpTile - 1 /\ j = (j \div WarpTile) * WarpTile + (j % WarpTile)
      BY <2>2, <1>w, Division
    <3> QED BY <3>1, <2>1
  <2>5. i = row + x /\ j = col + y BY <2>3, <2>4 DEF row, col
  <2>6. ~(row >= call.m \/ col >= call.n) BY <2>2, <2>5, <1>2, <1>5
  <2> DEFINE w == <<(row + x) * call.n + col + y, From(DotOf(call, row + x, col + y))>>
  <2>7. w \in Writes(call, b, t) BY <2>6, <1>4
  <2>8. w[1] = Cell(0, i, j) BY <2>5, <2>6, <1>6
  <2> QED BY <2>7, <2>8
<1> QED BY <1>7, <1>8
-----------------------------------------------------------------------------
\* The blocks of a launch reach every element.
LEMMA BlockReaches ==
  ASSUME NEW n \in Nat, NEW x \in 0 .. n - 1, NEW d \in Positive
  PROVE  x \div d \in 0 .. CeilDiv(n, d) - 1 /\ x % d \in 0 .. d - 1
         /\ x = (x \div d) * d + (x % d)
<1>1. PICK c \in Nat : c = CeilDiv(n, d) BY BlocksCover
<1>2. d \in Nat /\ n <= c * d /\ c * d \in Nat BY <1>1, BlocksCover DEF Positive
<1>3. x \in Nat /\ x \in Int /\ x < n OBVIOUS
<1>4. PICK q \in Nat, r \in 0 .. d - 1 : q = x \div d /\ r = x % d /\ x = q * d + r
  BY <1>3, Division
<1>5. q * d + r < c * d BY <1>2, <1>3, <1>4
<1>6. q < c BY <1>5, <1>2, Multiples
<1>7. q \in 0 .. CeilDiv(n, d) - 1 BY <1>1, <1>6
<1> QED BY <1>4, <1>7, Zenon

LEMMA WarpReaches ==
  ASSUME NEW n \in Nat, NEW x \in 0 .. n - 1
  PROVE  LET q == x \div WarpTile
         IN  /\ q \div WarpsPerSide \in 0 .. CeilDiv(n, WarpTile * WarpsPerSide) - 1
             /\ q % WarpsPerSide \in 0 .. WarpsPerSide - 1
             /\ q = (q \div WarpsPerSide) * WarpsPerSide + (q % WarpsPerSide)
<1>1. PICK a, w \in Positive : a = WarpTile /\ w = WarpsPerSide BY KernelsAssumption
<1>2. a \in Nat /\ w \in Nat /\ a >= 1 /\ w >= 1 BY DEF Positive
<1>3. a * w \in Positive
  <2>1. a * w \in Nat /\ a * w # 0 BY <1>2, SMTT(30)
  <2> QED BY <2>1 DEF Positive
<1>4. PICK c \in Nat : c = CeilDiv(n, a * w) /\ n <= c * (a * w) BY <1>3, BlocksCover
<1>5. c * (a * w) = (c * w) * a /\ c * w \in Int BY <1>2, SMTT(30)
<1>6. x \in Int /\ x \in Nat /\ x < n OBVIOUS
<1>7. PICK q \in Nat, r \in 0 .. a - 1 : q = x \div a /\ x = q * a + r
  BY <1>6, Division
<1>8. PICK b \in Nat, t \in 0 .. w - 1 : b = q \div w /\ t = q % w /\ q = b * w + t
  <2>1. q \in Int OBVIOUS
  <2> QED BY <2>1, Division
<1>9. PICK y \in Int : y = c * w BY <1>5
<1>10. q < y
  <2>1. y * a \in Int BY <1>2, SMTT(30)
  <2>2. n <= y * a BY <1>4, <1>5, <1>9
  <2>3. q * a + r < y * a BY <1>6, <1>7, <2>1, <2>2
  <2> QED BY <2>3, Multiples
<1>11. b < c
  <2>1. b * w + t < c * w BY <1>8, <1>9, <1>10
  <2> QED BY <2>1, Multiples
<1>12. b \in 0 .. c - 1 BY <1>11
<1>13. q = x \div WarpTile /\ b = q \div WarpsPerSide /\ t = q % WarpsPerSide
      /\ t \in 0 .. WarpsPerSide - 1 /\ q = b * WarpsPerSide + t
      /\ b \in 0 .. CeilDiv(n, WarpTile * WarpsPerSide) - 1
  BY <1>1, <1>4, <1>7, <1>8, <1>12, Zenon
<1> QED BY <1>13, Zenon

LEMMA EveryElement ==
  ASSUME call \in Operations, call.op \in Products, NEW i \in AllRows, NEW j \in Cols
  PROVE  \E b \in GridOf(call), t \in ThreadsOf(call) : Computes(b, t, i, j)
<1>1. PICK m, n \in Nat : m = call.m /\ n = call.n BY DeviceSizes
<1>2. i \in 0 .. m - 1 /\ j \in 0 .. n - 1 BY <1>1 DEF AllRows, Cols
<1>3. GridOf(call) = (0 .. CeilDiv(m, Side(call)) - 1) \X (0 .. CeilDiv(n, Side(call)) - 1)
  BY <1>1 DEF GridOf
<1>4. CASE call.op = "wmma"
  <2> DEFINE p == i \div WarpTile  q == j \div WarpTile
             b == <<p \div WarpsPerSide, q \div WarpsPerSide>>
             t == <<p % WarpsPerSide, q % WarpsPerSide>>
  <2>1. Side(call) = WarpTile * WarpsPerSide BY <1>4 DEF Side
  <2>2. /\ p \div WarpsPerSide \in 0 .. CeilDiv(m, Side(call)) - 1
        /\ p % WarpsPerSide \in 0 .. WarpsPerSide - 1
        /\ p = (p \div WarpsPerSide) * WarpsPerSide + (p % WarpsPerSide)
    BY <1>2, <2>1, WarpReaches
  <2>3. /\ q \div WarpsPerSide \in 0 .. CeilDiv(n, Side(call)) - 1
        /\ q % WarpsPerSide \in 0 .. WarpsPerSide - 1
        /\ q = (q \div WarpsPerSide) * WarpsPerSide + (q % WarpsPerSide)
    BY <1>2, <2>1, WarpReaches
  <2>4. ThreadsOf(call) = (0 .. WarpsPerSide - 1) \X (0 .. WarpsPerSide - 1)
    BY <1>4 DEF ThreadsOf
  <2> HIDE DEF p, q
  <2>5. b \in GridOf(call) /\ t \in ThreadsOf(call) BY <1>3, <2>2, <2>3, <2>4
  <2>6. /\ b[1] = p \div WarpsPerSide /\ b[2] = q \div WarpsPerSide
        /\ t[1] = p % WarpsPerSide /\ t[2] = q % WarpsPerSide
    OBVIOUS
  <2>7. p = i \div WarpTile /\ q = j \div WarpTile BY DEF p, q
  <2> HIDE DEF b, t
  <2>8. Computes(b, t, i, j) BY <1>4, <2>2, <2>3, <2>6, <2>7, Zenon DEF Computes
  <2> QED BY <2>5, <2>8
<1>5. CASE call.op # "wmma"
  <2> DEFINE b == <<i \div DeviceTile, j \div DeviceTile>>
             t == <<i % DeviceTile, j % DeviceTile>>
  <2>1. Side(call) = DeviceTile BY <1>5 DEF Side
  <2>2. DeviceTile \in Positive BY KernelsAssumption
  <2>3. /\ i \div DeviceTile \in 0 .. CeilDiv(m, Side(call)) - 1
        /\ i % DeviceTile \in 0 .. DeviceTile - 1
        /\ i = (i \div DeviceTile) * DeviceTile + (i % DeviceTile)
    BY <1>2, <2>1, <2>2, BlockReaches, Zenon
  <2>4. /\ j \div DeviceTile \in 0 .. CeilDiv(n, Side(call)) - 1
        /\ j % DeviceTile \in 0 .. DeviceTile - 1
        /\ j = (j \div DeviceTile) * DeviceTile + (j % DeviceTile)
    BY <1>2, <2>1, <2>2, BlockReaches, Zenon
  <2>5. ThreadsOf(call) = (0 .. DeviceTile - 1) \X (0 .. DeviceTile - 1)
    BY <1>5 DEF ThreadsOf, Products
  <2>6. b \in GridOf(call) /\ t \in ThreadsOf(call) BY <1>3, <2>3, <2>4, <2>5
  <2>7. /\ b[1] = i \div DeviceTile /\ b[2] = j \div DeviceTile
        /\ t[1] = i % DeviceTile /\ t[2] = j % DeviceTile
    OBVIOUS
  <2> HIDE DEF b, t
  <2>8. Computes(b, t, i, j) BY <1>5, <2>3, <2>4, <2>7, Zenon DEF Computes
  <2> QED BY <2>6, <2>8
<1> QED BY <1>4, <1>5
-----------------------------------------------------------------------------
(* The tiled product.                                                      *)

LEMMA PartGrows ==
  ASSUME NEW s, NEW i, NEW j, NEW lo \in Nat, NEW hi \in Nat, lo <= hi
  PROVE  Part(s, i, j, lo, hi + 1) = Append(Part(s, i, j, lo, hi), Term(s, i, j, hi))
<1> DEFINE v == Part(s, i, j, lo, hi)  x == Term(s, i, j, hi)  w == Append(v, x)
<1>1. AreTerms(v, s, i, j, lo, hi) BY PartIs
<1>2. x \in Terms(s, i, j) BY DEF Terms
<1> HIDE DEF v, x
<1>3. v \in Seq(Terms(s, i, j)) /\ Len(v) = hi - lo BY <1>1 DEF AreTerms
<1>4. w \in Seq(Terms(s, i, j)) /\ Len(w) = hi + 1 - lo BY <1>2, <1>3
<1>5. ASSUME NEW q \in 1 .. hi + 1 - lo PROVE w[q] = Term(s, i, j, lo + q - 1)
  <2>1. CASE q \in 1 .. hi - lo
    <3>1. w[q] = v[q] BY <1>3, <2>1
    <3> QED BY <1>1, <2>1, <3>1 DEF AreTerms
  <2>2. CASE q = hi + 1 - lo
    <3>1. w[q] = x BY <1>3, <2>2
    <3>2. lo + q - 1 = hi BY <2>2
    <3> QED BY <3>1, <3>2 DEF x
  <2>3. q \in 1 .. hi - lo \/ q = hi + 1 - lo OBVIOUS
  <2> QED BY <2>1, <2>2, <2>3, Zenon
<1> HIDE DEF w
<1>6. AreTerms(w, s, i, j, lo, hi + 1) BY <1>4, <1>5 DEF AreTerms
<1>7. hi + 1 \in Nat /\ lo <= hi + 1 OBVIOUS
<1>8. AreTerms(Part(s, i, j, lo, hi + 1), s, i, j, lo, hi + 1) BY <1>7, PartIs
<1>9. w = Part(s, i, j, lo, hi + 1) BY <1>6, <1>7, <1>8, SameTerms
<1> QED BY <1>9 DEF w, v, x

\* TileDot is what its recursion says.
TileProduct(t, x) == <<shared.a[<<t[1], x - 1>>], shared.b[<<x - 1, t[2]>>]>>
IsTileSum(f, t) ==
    f = [x \in 0 .. DeviceTile |->
            IF x = 0 THEN <<>>
            ELSE IF TileProduct(t, x) = <<Zero, Zero>> THEN f[x - 1]
            ELSE Append(f[x - 1], TileProduct(t, x))]

LEMMA TileDotIs ==
  ASSUME NEW t, NEW G, IsTileSum(G, t)
  PROVE  TileDot(t) = G[DeviceTile]
<1> DEFINE f == CHOOSE g : IsTileSum(g, t)
<1>1. TileDot(t) = f[DeviceTile] BY DEF TileDot, IsTileSum, TileProduct
<1>2. IsTileSum(f, t) OBVIOUS
<1> HIDE DEF f
<1> DEFINE S == {n \in Nat : n <= DeviceTile => f[n] = G[n]}
<1>3. 0 \in S /\ DeviceTile \in Nat
  <2>1. DeviceTile \in Nat BY KernelsAssumption DEF Positive
  <2>2. 0 \in 0 .. DeviceTile BY <2>1
  <2>3. f[0] = <<>> /\ G[0] = <<>> BY <1>2, <2>2 DEF IsTileSum
  <2> QED BY <2>1, <2>3
<1>4. ASSUME NEW n \in S PROVE n + 1 \in S
  <2>1. CASE n + 1 <= DeviceTile
    <3>1. f[n] = G[n] /\ n \in Nat BY <1>3, <2>1
    <3>2. n + 1 \in 0 .. DeviceTile /\ n + 1 # 0 /\ (n + 1) - 1 = n BY <1>3, <2>1, <3>1
    <3>3. PICK p : p = TileProduct(t, n + 1) OBVIOUS
    <3>4. f[n + 1] = IF p = <<Zero, Zero>> THEN f[n] ELSE Append(f[n], p)
      BY <1>2, <3>2, <3>3 DEF IsTileSum
    <3>5. G[n + 1] = IF p = <<Zero, Zero>> THEN G[n] ELSE Append(G[n], p)
      BY <3>2, <3>3 DEF IsTileSum
    <3>6. f[n + 1] = G[n + 1] BY <3>1, <3>4, <3>5
    <3>7. n + 1 \in Nat BY <3>1
    <3> QED BY <3>6, <3>7
  <2>2. CASE ~(n + 1 <= DeviceTile) BY <2>2
  <2> QED BY <2>1, <2>2
<1>5. S \in SUBSET Nat OBVIOUS
<1> HIDE DEF S
<1>6. S = Nat BY <1>3, <1>4, <1>5, Induction
<1>7. f[DeviceTile] = G[DeviceTile] BY <1>3, <1>6 DEF S
<1> QED BY <1>1, <1>7

\* When the threads have staged round k0 of their tiles, the sum of a thread
\* inside the matrix is the round's part of its element.
LEMMA TileSumIs ==
  ASSUME NEW i \in Nat, NEW j \in Nat, NEW k0 \in Nat, k0 < call.k,
         call.m \in Nat, call.n \in Nat, call.k \in Nat, NEW t,
         \A x \in 1 .. DeviceTile :
            TileProduct(t, x) = IF k0 + (x - 1) < call.k THEN Term(0, i, j, k0 + (x - 1))
                                ELSE <<Zero, Zero>>
  PROVE  TileDot(t) = Part(0, i, j, k0, Least(k0 + DeviceTile, call.k))
<1> DEFINE k == call.k
           G == [x \in 0 .. DeviceTile |-> Part(0, i, j, k0, Least(k0 + x, k))]
<1>1. DeviceTile \in Nat /\ k \in Nat /\ k0 < k BY KernelsAssumption DEF Positive
<1>k. k = call.k OBVIOUS
<1>2. \A p \in Nat : Term(0, i, j, p) # <<Zero, Zero>>
  <2>1. SUFFICES ASSUME NEW p \in Nat, Term(0, i, j, p) = <<Zero, Zero>> PROVE FALSE OBVIOUS
  <2>2. 0 * call.m * call.k + i * call.k + p = Zero BY <2>1 DEF Term
  <2>3. 0 * call.m * call.k = 0 /\ i * call.k \in Nat BY SMTT(30)
  <2> DEFINE a == i * call.k  z == 0 * call.m * call.k
  <2>4. a \in Nat /\ z = 0 /\ z + a + p = -1 BY <2>2, <2>3 DEF Zero
  <2> HIDE DEF a, z
  <2> QED BY <2>4
<1>3. DOMAIN G = 0 .. DeviceTile /\ \A x \in 0 .. DeviceTile : G[x] = Part(0, i, j, k0, Least(k0 + x, k))
  OBVIOUS
<1>G. G = [x \in 0 .. DeviceTile |-> G[x]] OBVIOUS
<1> HIDE DEF G, k
<1>4. G[0] = <<>>
  <2>1. 0 \in 0 .. DeviceTile /\ Least(k0 + 0, k) = k0 BY <1>1 DEF Least
  <2>2. G[0] = Part(0, i, j, k0, k0) BY <1>3, <2>1
  <2> QED BY <2>2 DEF Part
<1>5. ASSUME NEW x \in 0 .. DeviceTile, x # 0
      PROVE  G[x] = IF TileProduct(t, x) = <<Zero, Zero>> THEN G[x - 1]
                    ELSE Append(G[x - 1], TileProduct(t, x))
  <2>1. PICK y \in Nat : y = x - 1 /\ x = y + 1
    <3>1. x - 1 \in Nat /\ x = (x - 1) + 1 BY <1>1, <1>5
    <3> QED BY <3>1
  <2>2. y \in 0 .. DeviceTile /\ x \in 1 .. DeviceTile BY <1>1, <2>1
  <2>3. G[y] = Part(0, i, j, k0, Least(k0 + y, k)) /\ G[x] = Part(0, i, j, k0, Least(k0 + x, k))
    BY <1>3, <2>2
  <2>4. CASE k0 + y < k
    <3>1. Least(k0 + y, k) = k0 + y /\ Least(k0 + x, k) = (k0 + y) + 1
      BY <1>1, <2>1, <2>4 DEF Least
    <3>2. PICK h \in Nat : h = k0 + y /\ k0 <= h OBVIOUS
    <3>3. Part(0, i, j, k0, h + 1) = Append(Part(0, i, j, k0, h), Term(0, i, j, h))
      <4>1. k0 \in Nat /\ h \in Nat /\ k0 <= h BY <3>2
      <4>2. ASSUME NEW s PROVE Part(s, i, j, k0, h + 1) = Append(Part(s, i, j, k0, h), Term(s, i, j, h))
        BY <4>1, PartGrows
      <4> QED BY <4>2
    <3>4. G[x] = Append(G[y], Term(0, i, j, h)) BY <2>3, <3>1, <3>2, <3>3
    <3>5. TileProduct(t, x) = Term(0, i, j, h) BY <1>k, <2>1, <2>2, <2>4, <3>2
    <3> QED BY <1>2, <2>1, <3>2, <3>4, <3>5
  <2>5. CASE ~(k0 + y < k)
    <3>1. Least(k0 + y, k) = k /\ Least(k0 + x, k) = k BY <1>1, <2>1, <2>5 DEF Least
    <3>2. TileProduct(t, x) = <<Zero, Zero>> BY <1>k, <2>1, <2>2, <2>5
    <3> QED BY <2>1, <2>3, <3>1, <3>2
  <2> QED BY <2>4, <2>5
<1>6. IsTileSum(G, t)
  <2>1. \A x \in 0 .. DeviceTile :
           G[x] = IF x = 0 THEN <<>>
                  ELSE IF TileProduct(t, x) = <<Zero, Zero>> THEN G[x - 1]
                  ELSE Append(G[x - 1], TileProduct(t, x))
    BY <1>4, <1>5
  <2> QED BY <1>G, <2>1 DEF IsTileSum
<1>7. TileDot(t) = G[DeviceTile] BY <1>6, TileDotIs
<1>8. DeviceTile \in 0 .. DeviceTile BY <1>1
<1> QED BY <1>k, <1>3, <1>7, <1>8
-----------------------------------------------------------------------------
(* The steps of a launch.                                                  *)

LEMMA DoneStays ==
  ASSUME call \in Operations, call.op \in Products, call' = call,
         DOMAIN C = 0 .. call.b * call.m * call.n - 1,
         \A c \in DOMAIN C : Complete(c) => Complete(c)',
         NEW b, NEW t, PartDone(b, t)
  PROVE  PartDone(b, t)'
<1>1. ASSUME NEW i \in AllRows, NEW j \in Cols, Computes(b, t, i, j)
      PROVE  Complete(Cell(0, i, j))'
  <2>1. Cell(0, i, j) \in DOMAIN C BY ElementSizes
  <2>2. Complete(Cell(0, i, j)) BY <1>1 DEF PartDone
  <2>3. \A c : Complete(c)' <=> C'[c] = From(Product(c)) BY DEF Complete, Product
  <2>4. C'[Cell(0, i, j)] = From(Product(Cell(0, i, j))) BY <2>1, <2>2, <2>3
  <2> QED BY <2>4 DEF Complete, Product, Cell
<1>2. AllRows' = AllRows /\ Cols' = Cols BY DEF AllRows, Cols
<1>3. \A i, j : Computes(b, t, i, j)' <=> Computes(b, t, i, j) BY DEF Computes
<1> QED BY <1>1, <1>2, <1>3 DEF PartDone

LEMMA ThreadHolds ==
  ASSUME UNCHANGED <<call, block>>, NEW t,
         TileThread(thread'[t], shared'.a[t], shared'.b[t], t)
  PROVE  TileThread(thread[t], shared.a[t], shared.b[t], t)'
BY DEF TileThread, StagedA, StagedB, SumTo, RowOf, ColOf, Part

\* Threads of a block go on; one that ends has completed its elements.
LEMMA ThreadsMove ==
  ASSUME ProductInv, Launched, call \in Operations, call.op \in Products,
         UNCHANGED <<backend, phase, call, grid, block>>,
         DOMAIN thread # {}, DOMAIN thread' = DOMAIN thread,
         DOMAIN C' = DOMAIN C, \A c \in DOMAIN C : Complete(c) => Complete(c)',
         \A t \in DOMAIN thread : thread[t].at = "done" => thread'[t].at = "done",
         \A t \in DOMAIN thread :
            thread[t].at # "done" /\ thread'[t].at = "done" => PartDone(block, t)',
         call.op = "gemm_tiled" =>
            /\ DOMAIN shared'.a = DOMAIN shared.a /\ DOMAIN shared'.b = DOMAIN shared.b
            /\ \A t \in DOMAIN thread : TileThread(thread'[t], shared'.a[t], shared'.b[t], t)
  PROVE  ProductInv'
<1>1. ~NoThreads /\ ~NoThreads' BY DEF NoThreads
<1>2. /\ DOMAIN C = 0 .. call.b * call.m * call.n - 1
      /\ grid \subseteq GridOf(call)
      /\ BlockInv
      /\ \A b \in GridOf(call), t \in ThreadsOf(call) :
            \/ b \in grid
            \/ b = block /\ thread[t].at # "done"
            \/ PartDone(b, t)
  BY <1>1 DEF ProductInv
<1>3. GridOf(call)' = GridOf(call) /\ ThreadsOf(call)' = ThreadsOf(call)
  BY DEF GridOf, ThreadsOf, Items, OutputSize, Side
<1>4. BlockInv'
  <2>1. \A t \in ThreadsOf(call) : call.op = "gemm_tiled" =>
           TileThread(thread[t], shared.a[t], shared.b[t], t)'
    BY <1>2, ThreadHolds DEF BlockInv
  <2> QED BY <1>2, <1>3, <2>1 DEF BlockInv
<1>5. ASSUME NEW b \in GridOf(call), NEW t \in ThreadsOf(call)
      PROVE  \/ b \in grid
             \/ b = block /\ thread'[t].at # "done"
             \/ PartDone(b, t)'
  <2>1. PartDone(b, t) => PartDone(b, t)' BY <1>2, DoneStays
  <2>2. t \in DOMAIN thread BY <1>2 DEF BlockInv
  <2>3. CASE b = block /\ thread[t].at # "done" BY <2>2, <2>3
  <2> QED BY <1>2, <2>1, <2>3
<1>6. Launched /\ phase' = "running" BY DEF Launched
<1> QED BY <1>1, <1>2, <1>3, <1>4, <1>5, <1>6 DEF ProductInv
LEMMA Running ==
  ASSUME ProductInv, BarrierInv, LaunchInv, Launched, call.op \in Products,
         NEW t \in DOMAIN thread
  PROVE  /\ call \in Operations /\ IsOnTiles
         /\ BlockInv /\ block \in GridOf(call) /\ t \in ThreadsOf(call)
         /\ IsThread(thread[t]) /\ DOMAIN thread # {}
         /\ DOMAIN C = 0 .. call.b * call.m * call.n - 1
<1>1. ~NoThreads BY DEF NoThreads
<1>2. BlockInv /\ DOMAIN C = 0 .. call.b * call.m * call.n - 1 BY <1>1 DEF ProductInv
<1>3. IsThread(thread[t]) BY DEF BarrierInv, InStep
<1>4. call \in Operations /\ IsOnTiles BY DEF LaunchInv, IsOnTiles
<1> QED BY <1>2, <1>3, <1>4 DEF BlockInv

LEMMA OtherKernel ==
  ASSUME call' = call, phase' = "running", call.op \notin Products
  PROVE  ProductInv'
BY DEF ProductInv

\* What is written is right and covers the elements of the thread that ends.
LEMMA ElementsWritten ==
  ASSUME call \in Operations, call.op \in Products, NEW t, NEW W,
         DOMAIN C = 0 .. call.b * call.m * call.n - 1,
         \A w \in W : w[1] \in 0 .. call.b * call.m * call.n - 1 /\ w[2] = From(Product(w[1])),
         \A i \in AllRows, j \in Cols : Computes(block, t, i, j) =>
            \E w \in W : w[1] = Cell(0, i, j),
         C' = WithWrites(W), call' = call, block' = block
  PROVE  /\ DOMAIN C' = DOMAIN C /\ \A c \in DOMAIN C : Complete(c) => Complete(c)'
         /\ PartDone(block, t)'
<1>1. \A w \in W : w[1] \in DOMAIN C /\ w[2] = From(Product(w[1])) OBVIOUS
<1>2. /\ DOMAIN C' = DOMAIN C /\ \A c \in DOMAIN C : Complete(c) => Complete(c)'
      /\ \A w \in W : Complete(w[1])'
  BY <1>1, WritesComplete
<1>3. \A c : Complete(c)' <=> C'[c] = From(Product(c)) BY DEF Complete, Product
<1>4. ASSUME NEW i \in AllRows, NEW j \in Cols, Computes(block, t, i, j)
      PROVE  Complete(Cell(0, i, j))'
  <2>1. PICK w \in W : w[1] = Cell(0, i, j) BY <1>4
  <2>2. C'[Cell(0, i, j)] = From(Product(Cell(0, i, j))) BY <1>2, <1>3, <2>1
  <2> QED BY <2>2 DEF Complete, Product, Cell
<1>5. AllRows' = AllRows /\ Cols' = Cols BY DEF AllRows, Cols
<1>6. \A i, j : Computes(block, t, i, j)' <=> Computes(block, t, i, j) BY DEF Computes
<1>7. PartDone(block, t)' BY <1>4, <1>5, <1>6 DEF PartDone
<1> QED BY <1>2, <1>7

LEMMA RunThreadKeeps ==
  ASSUME ProductInv, BarrierInv, LaunchInv, NEW t \in DOMAIN thread, RunThread(t)
  PROVE  ProductInv'
<1>1. /\ Launched /\ call.op # "gemm_tiled" /\ thread[t].at = "start"
      /\ C' = WithWrites(Writes(call, block, t))
      /\ thread' = [thread EXCEPT ![t] = [thread[t] EXCEPT !.at = "done"]]
      /\ UNCHANGED <<grid, block, shared, phase, call, backend>>
  BY DEF RunThread, HostUnchanged
<1>2. CASE call.op \notin Products BY <1>1, <1>2, OtherKernel DEF Launched
<1>3. CASE call.op \in Products
  <2>1. /\ call \in Operations /\ IsOnTiles
        /\ BlockInv /\ block \in GridOf(call) /\ t \in ThreadsOf(call)
        /\ IsThread(thread[t]) /\ DOMAIN thread # {}
        /\ DOMAIN C = 0 .. call.b * call.m * call.n - 1
    BY <1>1, <1>3, Running
  <2>2. /\ \A w \in Writes(call, block, t) :
               w[1] \in 0 .. call.b * call.m * call.n - 1 /\ w[2] = From(Product(w[1]))
        /\ \A i \in AllRows, j \in Cols : Computes(block, t, i, j) =>
               \E w \in Writes(call, block, t) : w[1] = Cell(0, i, j)
    <3>1. CASE call.op = "gemm_naive" BY <2>1, <3>1, NaiveIsRight
    <3>2. CASE call.op = "wmma" BY <2>1, <3>2, WarpIsRight
    <3> QED BY <1>1, <1>3, <3>1, <3>2 DEF Products
  <2>3. PICK W : W = Writes(call, block, t) OBVIOUS
  <2>4. /\ DOMAIN C' = DOMAIN C /\ \A c \in DOMAIN C : Complete(c) => Complete(c)'
        /\ PartDone(block, t)'
    BY <1>1, <1>3, <2>1, <2>2, <2>3, ElementsWritten
  <2>5. [thread[t] EXCEPT !.at = "done"].at = "done"
    <3>1. [thread[t] EXCEPT !.at = "done"] = [at |-> "done", k0 |-> thread[t].k0, acc |-> thread[t].acc]
      BY <2>1, Fields, Zenon
    <3> QED BY <3>1
  <2>6. PICK r : r = [thread[t] EXCEPT !.at = "done"] /\ r.at = "done" BY <2>5
  <2>7. /\ DOMAIN thread' = DOMAIN thread
        /\ \A u \in DOMAIN thread : thread'[u] = IF u = t THEN r ELSE thread[u]
    BY <1>1, <2>6
  <2>8. \A u \in DOMAIN thread : thread[u].at = "done" => thread'[u].at = "done"
    BY <2>6, <2>7
  <2>9. \A u \in DOMAIN thread :
           thread[u].at # "done" /\ thread'[u].at = "done" => PartDone(block, u)'
    BY <2>4, <2>6, <2>7
  <2> QED BY <1>1, <1>3, <2>1, <2>4, <2>7, <2>8, <2>9, ThreadsMove
<1> QED BY <1>2, <1>3

\* One thread of gemm_tiled_k moves on.
LEMMA TiledMoves ==
  ASSUME ProductInv, BarrierInv, LaunchInv, Launched, call.op = "gemm_tiled",
         NEW t \in DOMAIN thread, thread[t].at # "done",
         NEW r, thread' = [thread EXCEPT ![t] = r],
         UNCHANGED <<grid, block, phase, call, backend>>,
         DOMAIN shared'.a = DOMAIN shared.a, DOMAIN shared'.b = DOMAIN shared.b,
         \A u \in DOMAIN thread \ {t} : shared'.a[u] = shared.a[u] /\ shared'.b[u] = shared.b[u],
         TileThread(r, shared'.a[t], shared'.b[t], t),
         DOMAIN C' = DOMAIN C, \A c \in DOMAIN C : Complete(c) => Complete(c)',
         r.at = "done" => PartDone(block, t)'
  PROVE  ProductInv'
<1>1. call.op \in Products BY DEF Products
<1>2. call \in Operations /\ BlockInv /\ DOMAIN thread # {} BY <1>1, Running
<1>3. /\ DOMAIN thread' = DOMAIN thread
      /\ \A u \in DOMAIN thread : thread'[u] = IF u = t THEN r ELSE thread[u]
  OBVIOUS
<1>4. \A u \in DOMAIN thread : thread[u].at = "done" => thread'[u].at = "done" BY <1>3
<1>5. \A u \in DOMAIN thread :
         thread[u].at # "done" /\ thread'[u].at = "done" => PartDone(block, u)'
  BY <1>3
<1>6. ASSUME NEW u \in DOMAIN thread
      PROVE  TileThread(thread'[u], shared'.a[u], shared'.b[u], u)
  <2>1. CASE u = t
    <3>1. thread'[u] = r BY <1>3, <2>1
    <3> QED BY <2>1, <3>1
  <2>2. CASE u # t
    <3>1. thread'[u] = thread[u] /\ shared'.a[u] = shared.a[u] /\ shared'.b[u] = shared.b[u]
      BY <1>3, <2>2
    <3>2. TileThread(thread[u], shared.a[u], shared.b[u], u) BY <1>2 DEF BlockInv
    <3> QED BY <3>1, <3>2
  <2> QED BY <2>1, <2>2
<1> QED BY <1>1, <1>2, <1>3, <1>4, <1>5, <1>6, ThreadsMove

LEMMA SameC == ASSUME C' = C, call' = call PROVE \A c \in DOMAIN C : Complete(c) => Complete(c)'
BY DEF Complete, Product

LEMMA StageKeeps ==
  ASSUME ProductInv, BarrierInv, LaunchInv, NEW t \in DOMAIN thread, Stage(t)
  PROVE  ProductInv'
<1> DEFINE k0 == thread[t].k0  x == StagedA(t, k0)  y == StagedB(t, k0)
           r == [at |-> "staged", k0 |-> k0, acc |-> thread[t].acc]
<1>1. /\ Launched /\ call.op = "gemm_tiled" /\ thread[t].at = "start"
      /\ shared' = [a |-> [shared.a EXCEPT ![t] = x], b |-> [shared.b EXCEPT ![t] = y]]
      /\ thread' = [thread EXCEPT ![t] = [thread[t] EXCEPT !.at = "staged"]]
      /\ UNCHANGED <<C, grid, block, phase, call, backend>>
  BY DEF Stage, HostUnchanged, StagedA, StagedB
<1>2. call.op \in Products BY <1>1 DEF Products
<1>3. BlockInv /\ IsThread(thread[t]) /\ t \in ThreadsOf(call) BY <1>1, <1>2, Running
<1>4. [thread[t] EXCEPT !.at = "staged"] = r BY <1>3, Fields, Zenon
<1>5. /\ TileThread(thread[t], shared.a[t], shared.b[t], t)
      /\ DOMAIN shared.a = ThreadsOf(call) /\ DOMAIN shared.b = ThreadsOf(call)
      /\ DOMAIN thread = ThreadsOf(call)
  BY <1>1, <1>3 DEF BlockInv
<1> HIDE DEF x, y
<1>6. /\ shared'.a = [shared.a EXCEPT ![t] = x] /\ shared'.b = [shared.b EXCEPT ![t] = y]
  BY <1>1
<1>7. /\ DOMAIN shared'.a = DOMAIN shared.a /\ DOMAIN shared'.b = DOMAIN shared.b
      /\ shared'.a[t] = x /\ shared'.b[t] = y
      /\ \A u \in DOMAIN thread \ {t} : shared'.a[u] = shared.a[u] /\ shared'.b[u] = shared.b[u]
  BY <1>3, <1>5, <1>6
<1>8. TileThread(r, x, y, t)
  <2>1. SumTo(r) = SumTo(thread[t]) BY <1>1 DEF SumTo
  <2> QED BY <1>1, <1>5, <2>1 DEF TileThread, x, y
<1>9. thread' = [thread EXCEPT ![t] = r] BY <1>1, <1>4
<1>10. r.at # "done" OBVIOUS
<1>11. DOMAIN C' = DOMAIN C /\ \A c \in DOMAIN C : Complete(c) => Complete(c)' BY <1>1, SameC
<1>12. /\ Launched /\ call.op = "gemm_tiled" /\ thread[t].at # "done"
       /\ UNCHANGED <<grid, block, phase, call, backend>>
  BY <1>1
<1> HIDE DEF r
<1>13. TileThread(r, shared'.a[t], shared'.b[t], t) BY <1>7, <1>8, Zenon
<1> QED BY <1>7, <1>9, <1>10, <1>11, <1>12, <1>13, TiledMoves

LEMMA StoreKeeps ==
  ASSUME ProductInv, BarrierInv, LaunchInv, NEW t \in DOMAIN thread, Store(t)
  PROVE  ProductInv'
<1> DEFINE r == [at |-> "done", k0 |-> thread[t].k0, acc |-> thread[t].acc]
           inside == RowOf(t) < call.m /\ ColOf(t) < call.n
           c == Cell(0, RowOf(t), ColOf(t))
           W == IF inside THEN {<<c, From(Product(c))>>} ELSE {}
<1>1. /\ Launched /\ call.op = "gemm_tiled" /\ thread[t].at = "store"
      /\ C' = IF inside THEN WithWrites({<<RowOf(t) * call.n + ColOf(t), From(thread[t].acc)>>})
              ELSE C
      /\ thread' = [thread EXCEPT ![t] = [thread[t] EXCEPT !.at = "done"]]
      /\ UNCHANGED <<grid, block, shared, phase, call, backend>>
  BY DEF Store, HostUnchanged
<1>2. call.op \in Products BY <1>1 DEF Products
<1>3. /\ call \in Operations /\ BlockInv /\ block \in GridOf(call)
      /\ IsThread(thread[t]) /\ t \in ThreadsOf(call)
      /\ DOMAIN C = 0 .. call.b * call.m * call.n - 1
  BY <1>1, <1>2, Running
<1>4. thread' = [thread EXCEPT ![t] = r] BY <1>1, <1>3, Fields, Zenon
<1>5. TileThread(thread[t], shared.a[t], shared.b[t], t) BY <1>1, <1>3 DEF BlockInv
<1>6. TileThread(r, shared.a[t], shared.b[t], t)
  BY <1>5 DEF TileThread
<1>7. /\ call.b = 1 /\ call.m \in Nat /\ call.n \in Nat /\ call.k \in Nat BY <1>2, <1>3, DeviceSizes
<1>8. RowOf(t) \in Nat /\ ColOf(t) \in Nat
  <2>1. t \in (0 .. DeviceTile - 1) \X (0 .. DeviceTile - 1) BY <1>1, <1>3 DEF ThreadsOf
  <2>2. t[1] \in Nat /\ t[2] \in Nat BY <2>1
  <2>3. block[1] \in Nat /\ block[2] \in Nat BY <1>2, <1>3, ProductGrid
  <2>4. DeviceTile \in Nat BY KernelsAssumption DEF Positive
  <2> QED BY <2>2, <2>3, <2>4, SMTT(30) DEF RowOf, ColOf
<1>9. ASSUME inside
      PROVE  /\ RowOf(t) \in AllRows /\ ColOf(t) \in Cols
             /\ c \in 0 .. call.b * call.m * call.n - 1
             /\ RowOf(t) * call.n + ColOf(t) = c
             /\ From(thread[t].acc) = From(Product(c))
  <2>1. RowOf(t) \in AllRows /\ ColOf(t) \in Cols BY <1>7, <1>8, <1>9 DEF AllRows, Cols
  <2>2. /\ c = RowOf(t) * call.n + ColOf(t) /\ c \in 0 .. call.b * call.m * call.n - 1
        /\ From(Product(c)) = <<Part(0, RowOf(t), ColOf(t), 0, call.k)>>
    BY <1>2, <1>3, <2>1, ElementSizes
  <2>3. thread[t].acc = Part(0, RowOf(t), ColOf(t), 0, call.k)
    <3>1. /\ thread[t].acc = Part(0, RowOf(t), ColOf(t), 0, Least(SumTo(thread[t]), call.k))
          /\ thread[t].k0 \in Nat /\ thread[t].k0 >= call.k
      BY <1>1, <1>5, <1>9 DEF TileThread
    <3>2. SumTo(thread[t]) = thread[t].k0 BY <1>1 DEF SumTo
    <3>3. Least(SumTo(thread[t]), call.k) = call.k BY <1>7, <3>1, <3>2 DEF Least
    <3> QED BY <3>1, <3>3
  <2> QED BY <2>1, <2>2, <2>3 DEF From
<1>10. /\ \A w \in W : w[1] \in 0 .. call.b * call.m * call.n - 1 /\ w[2] = From(Product(w[1]))
  <2> HIDE DEF c
  <2>1. CASE inside
    <3>1. <<c, From(Product(c))>>[1] = c /\ <<c, From(Product(c))>>[2] = From(Product(c)) OBVIOUS
    <3>2. \A w \in W : w = <<c, From(Product(c))>> BY <2>1
    <3>3. c \in 0 .. call.b * call.m * call.n - 1 BY <1>9, <2>1
    <3> QED BY <3>1, <3>2, <3>3
  <2>2. CASE ~inside BY <2>2
  <2> QED BY <2>1, <2>2
<1>11. \A i \in AllRows, j \in Cols : Computes(block, t, i, j) =>
           \E w \in W : w[1] = Cell(0, i, j)
  <2>1. SUFFICES ASSUME NEW i \in AllRows, NEW j \in Cols, Computes(block, t, i, j)
                 PROVE  \E w \in W : w[1] = Cell(0, i, j)
    OBVIOUS
  <2>2. i = RowOf(t) /\ j = ColOf(t) BY <1>1, <2>1 DEF Computes, RowOf, ColOf
  <2>3. inside BY <1>7, <2>2 DEF AllRows, Cols
  <2>4. c = Cell(0, i, j) BY <2>2
  <2> HIDE DEF c
  <2>5. <<c, From(Product(c))>> \in W /\ <<c, From(Product(c))>>[1] = c BY <2>3
  <2> QED BY <2>4, <2>5
<1>12. /\ DOMAIN C' = DOMAIN C /\ \A x \in DOMAIN C : Complete(x) => Complete(x)'
       /\ PartDone(block, t)'
  <2>1. CASE inside
    <3>1. C' = WithWrites(W) BY <1>1, <1>9, <2>1
    <3> HIDE DEF W
    <3> QED BY <1>1, <1>2, <1>3, <1>10, <1>11, <3>1, ElementsWritten
  <2>2. CASE ~inside
    <3>1. C' = C /\ call' = call /\ block' = block BY <1>1, <2>2
    <3>2. \A x \in DOMAIN C : Complete(x) => Complete(x)' BY <3>1, SameC
    <3>3. PartDone(block, t) BY <1>11, <2>2 DEF PartDone
    <3>4. \A b : PartDone(b, t) => PartDone(b, t)' BY <1>2, <1>3, <3>1, <3>2, DoneStays
    <3>5. PartDone(block, t)'
      <4>1. PICK b : b = block OBVIOUS
      <4>2. PartDone(b, t)' BY <3>3, <3>4, <4>1
      <4> QED BY <3>1, <4>1, <4>2 DEF PartDone, Computes
    <3> QED BY <3>1, <3>2, <3>5
  <2> QED BY <2>1, <2>2
<1> HIDE DEF W, c, inside
<1>13. thread[t].at # "done" BY <1>1
<1> HIDE DEF r
<1> QED BY <1>1, <1>4, <1>6, <1>12, <1>13, TiledMoves

\* What a thread multiplies, once all threads have staged round k0.
LEMMA StagedTerms ==
  ASSUME call.m \in Nat, call.n \in Nat, call.k \in Nat, NEW k0 \in Nat, NEW t,
         RowOf(t) \in Nat, ColOf(t) \in Nat, RowOf(t) < call.m, ColOf(t) < call.n,
         NEW x \in 1 .. DeviceTile,
         shared.a[<<t[1], x - 1>>] = StagedA(<<t[1], x - 1>>, k0),
         shared.b[<<x - 1, t[2]>>] = StagedB(<<x - 1, t[2]>>, k0)
  PROVE  TileProduct(t, x) =
            IF k0 + (x - 1) < call.k THEN Term(0, RowOf(t), ColOf(t), k0 + (x - 1))
            ELSE <<Zero, Zero>>
<1> DEFINE u == <<t[1], x - 1>>  v == <<x - 1, t[2]>>
<1>1. u[1] = t[1] /\ u[2] = x - 1 /\ v[1] = x - 1 /\ v[2] = t[2] OBVIOUS
<1> HIDE DEF u, v
<1>2. RowOf(u) = RowOf(t) /\ ColOf(v) = ColOf(t) BY <1>1 DEF RowOf, ColOf
<1>3. PICK i, j, p, m, n, k \in Nat :
         /\ i = RowOf(t) /\ j = ColOf(t) /\ p = k0 + (x - 1)
         /\ m = call.m /\ n = call.n /\ k = call.k
  <2>1. DeviceTile \in Nat BY KernelsAssumption DEF Positive
  <2>2. k0 + (x - 1) \in Nat BY <2>1
  <2> QED BY <2>2
<1>4. StagedA(u, k0) = IF p < k THEN i * k + p ELSE Zero
  BY <1>1, <1>2, <1>3 DEF StagedA
<1>5. StagedB(v, k0) = IF p < k THEN p * n + j ELSE Zero
  BY <1>1, <1>2, <1>3 DEF StagedB
<1>6. Term(0, i, j, p) = <<i * k + p, p * n + j>>
  <2>1. 0 * m * k = 0 /\ 0 * k * n = 0 /\ i * k \in Nat /\ p * n \in Nat BY SMTT(30)
  <2> DEFINE y == 0 * m * k  z == 0 * k * n  a == i * k  b == p * n
  <2>2. y = 0 /\ z = 0 /\ a \in Nat /\ b \in Nat BY <2>1
  <2>3. Term(0, i, j, p) = <<y + a + p, z + b + j>> BY <1>3 DEF Term
  <2> HIDE DEF y, z, a, b
  <2>4. y + a + p = a + p /\ z + b + j = b + j BY <2>2
  <2> QED BY <2>3, <2>4 DEF a, b
<1>7. TileProduct(t, x) = <<StagedA(u, k0), StagedB(v, k0)>> BY DEF TileProduct, u, v
<1> QED BY <1>3, <1>4, <1>5, <1>6, <1>7

LEMMA MultiplyKeeps ==
  ASSUME ProductInv, BarrierInv, LaunchInv, NEW t \in DOMAIN thread, Multiply(t)
  PROVE  ProductInv'
<1> DEFINE k0 == thread[t].k0  a == thread[t].acc \o TileDot(t)
           r == [at |-> "multiplied", k0 |-> k0, acc |-> a]
<1>1. /\ Launched /\ call.op = "gemm_tiled" /\ thread[t].at = "multiply"
      /\ thread' = [thread EXCEPT ![t] = [thread[t] EXCEPT !.at = "multiplied", !.acc = a]]
      /\ UNCHANGED <<C, grid, block, shared, phase, call, backend>>
  BY DEF Multiply, HostUnchanged
<1>2. call.op \in Products BY <1>1 DEF Products
<1>3. /\ call \in Operations /\ BlockInv /\ block \in GridOf(call)
      /\ IsThread(thread[t]) /\ t \in ThreadsOf(call)
  BY <1>1, <1>2, Running
<1>4. thread' = [thread EXCEPT ![t] = r]
  <2> HIDE DEF a
  <2>1. [thread[t] EXCEPT !.at = "multiplied", !.acc = a]
          = [at |-> "multiplied", k0 |-> thread[t].k0, acc |-> a]
    BY <1>3, Fields, Zenon
  <2> QED BY <1>1, <2>1
<1>5. call.m \in Nat /\ call.n \in Nat /\ call.k \in Nat BY <1>2, <1>3, DeviceSizes
<1>6. /\ DOMAIN thread = ThreadsOf(call)
      /\ ThreadsOf(call) = (0 .. DeviceTile - 1) \X (0 .. DeviceTile - 1)
      /\ \A u \in ThreadsOf(call) : TileThread(thread[u], shared.a[u], shared.b[u], u)
  BY <1>1, <1>3 DEF BlockInv, ThreadsOf
<1>7. k0 \in Nat /\ k0 < call.k BY <1>1, <1>3, <1>6 DEF TileThread
<1>8. RowOf(t) \in Nat /\ ColOf(t) \in Nat
  <2>1. t[1] \in Nat /\ t[2] \in Nat BY <1>3, <1>6
  <2>2. block[1] \in Nat /\ block[2] \in Nat BY <1>2, <1>3, ProductGrid
  <2>3. DeviceTile \in Nat BY KernelsAssumption DEF Positive
  <2> QED BY <2>1, <2>2, <2>3, SMTT(30) DEF RowOf, ColOf
<1>9. ASSUME NEW u \in ThreadsOf(call)
      PROVE  shared.a[u] = StagedA(u, k0) /\ shared.b[u] = StagedB(u, k0)
  <2>1. Stretch(thread[u].at) = Stretch(thread[t].at) /\ thread[u].k0 = k0
    BY <1>1, <1>3, <1>6 DEF BarrierInv, InStep
  <2>2. thread[u].at \in {"multiply", "multiplied"}
    BY <1>1, <1>6, <2>1 DEF Stretch, TileThread
  <2> QED BY <1>6, <2>1, <2>2 DEF TileThread
<1>10. ASSUME RowOf(t) < call.m, ColOf(t) < call.n
       PROVE  a = Part(0, RowOf(t), ColOf(t), 0, Least(k0 + DeviceTile, call.k))
  <2>1. ASSUME NEW x \in 1 .. DeviceTile
        PROVE  TileProduct(t, x) =
                 IF k0 + (x - 1) < call.k THEN Term(0, RowOf(t), ColOf(t), k0 + (x - 1))
                 ELSE <<Zero, Zero>>
    <3>1. <<t[1], x - 1>> \in ThreadsOf(call) /\ <<x - 1, t[2]>> \in ThreadsOf(call)
      <4>1. t[1] \in 0 .. DeviceTile - 1 /\ t[2] \in 0 .. DeviceTile - 1 BY <1>3, <1>6
      <4>2. DeviceTile \in Nat BY KernelsAssumption DEF Positive
      <4>3. x - 1 \in 0 .. DeviceTile - 1 BY <4>2
      <4> QED BY <1>6, <4>1, <4>3
    <3>2. /\ shared.a[<<t[1], x - 1>>] = StagedA(<<t[1], x - 1>>, k0)
          /\ shared.b[<<x - 1, t[2]>>] = StagedB(<<x - 1, t[2]>>, k0)
      BY <1>9, <3>1
    <3> HIDE DEF k0
    <3> QED BY <1>5, <1>7, <1>8, <1>10, <3>2, StagedTerms
  <2>2. PICK i \in Nat, j \in Nat : i = RowOf(t) /\ j = ColOf(t) BY <1>8
  <2> HIDE DEF k0
  <2>3. TileDot(t) = Part(0, i, j, k0, Least(k0 + DeviceTile, call.k))
    <3>1. \A x \in 1 .. DeviceTile :
             TileProduct(t, x) = IF k0 + (x - 1) < call.k THEN Term(0, i, j, k0 + (x - 1))
                                 ELSE <<Zero, Zero>>
      BY <2>1, <2>2
    <3> QED BY <1>5, <1>7, <3>1, TileSumIs
  <2>4. thread[t].acc = Part(0, i, j, 0, k0)
    <3>1. thread[t].acc = Part(0, i, j, 0, Least(SumTo(thread[t]), call.k))
      BY <1>1, <1>3, <1>6, <1>10, <2>2 DEF TileThread
    <3>2. SumTo(thread[t]) = k0 BY <1>1 DEF SumTo, k0
    <3>3. Least(k0, call.k) = k0 BY <1>5, <1>7 DEF Least
    <3> QED BY <3>1, <3>2, <3>3
  <2>5. PICK h \in Nat : h = Least(k0 + DeviceTile, call.k) /\ k0 <= h
    BY <1>5, <1>7, KernelsAssumption DEF Least, Positive
  <2>6. \A s : Part(s, i, j, 0, k0) \o Part(s, i, j, k0, h) = Part(s, i, j, 0, h)
    BY <1>7, <2>5, PartsJoin
  <2>7. a = Part(0, i, j, 0, k0) \o Part(0, i, j, k0, h) BY <2>3, <2>4, <2>5
  <2> HIDE DEF a
  <2>8. a = Part(0, i, j, 0, h) BY <2>6, <2>7
  <2> QED BY <2>2, <2>5, <2>8
<1>11. TileThread(r, shared.a[t], shared.b[t], t)
  <2>1. shared.a[t] = StagedA(t, k0) /\ shared.b[t] = StagedB(t, k0) BY <1>3, <1>9
  <2>2. SumTo(r) = k0 + DeviceTile BY DEF SumTo
  <2> HIDE DEF k0, a
  <2> QED BY <1>7, <1>10, <2>1, <2>2 DEF TileThread
<1>12. DOMAIN C' = DOMAIN C /\ \A c \in DOMAIN C : Complete(c) => Complete(c)' BY <1>1, SameC
<1>13. thread[t].at # "done" /\ r.at # "done" BY <1>1
<1> HIDE DEF r, a, k0
<1> QED BY <1>1, <1>4, <1>11, <1>12, <1>13, TiledMoves

\* All threads of a block go on from a barrier.
LEMMA SyncKeeps ==
  ASSUME ProductInv, BarrierInv, LaunchInv, SyncStaged \/ SyncMultiplied
  PROVE  ProductInv'
<1>1. /\ Launched /\ thread # <<>>
      /\ UNCHANGED <<C, grid, block, shared, phase, call, backend>>
      /\ DOMAIN thread' = DOMAIN thread
      /\ \A t \in DOMAIN thread : thread[t].at \in {"staged", "multiplied"}
  BY DEF SyncStaged, SyncMultiplied, Sync, HostUnchanged
<1>2. CASE call.op \notin Products BY <1>1, <1>2, OtherKernel DEF Launched
<1>3. CASE call.op \in Products
  <2>1. BlockInv /\ DOMAIN thread # {} /\ call \in Operations
    <3>1. BlockInv BY <1>1, <1>3 DEF ProductInv, NoThreads
    <3>2. ThreadsOf(call) # {}
      <4>1. 0 \in 0 .. DeviceTile - 1 /\ 0 \in 0 .. WarpsPerSide - 1
        BY KernelsAssumption DEF Positive
      <4>2. <<0, 0>> \in ThreadsOf(call) BY <1>3, <4>1 DEF ThreadsOf, Products
      <4> QED BY <4>2
    <3>3. call \in Operations BY <1>1 DEF LaunchInv
    <3> QED BY <3>1, <3>2, <3>3 DEF BlockInv
  <2>2. call.op = "gemm_tiled"
    <3>1. PICK t \in DOMAIN thread : TRUE BY <2>1
    <3> QED BY <1>1, <3>1 DEF BarrierInv, InStep
  <2>3. /\ DOMAIN thread = ThreadsOf(call)
        /\ \A t \in DOMAIN thread : TileThread(thread[t], shared.a[t], shared.b[t], t)
    BY <2>1, <2>2 DEF BlockInv
  <2>4. /\ call.k \in Nat /\ DeviceTile \in Nat
    BY <1>3, <2>1, DeviceSizes, KernelsAssumption DEF Positive
  <2>5. ASSUME NEW t \in DOMAIN thread
        PROVE  /\ thread'[t].at \in {"start", "multiply", "store"}
               /\ TileThread(thread'[t], shared.a[t], shared.b[t], t)
    <3> DEFINE k0 == thread[t].k0  acc == thread[t].acc
               next == IF k0 + DeviceTile < call.k THEN "start" ELSE "store"
    <3>1. IsThread(thread[t]) BY DEF BarrierInv, InStep
    <3>2. k0 \in Nat BY <2>3 DEF TileThread
    <3>3. CASE SyncStaged
      <4>1. /\ thread[t].at = "staged"
            /\ thread'[t] = [thread[t] EXCEPT !.at = "multiply"]
        BY <3>3 DEF SyncStaged, Sync
      <4>2. thread'[t] = [at |-> "multiply", k0 |-> k0, acc |-> acc]
        BY <3>1, <4>1, Fields, Zenon
      <4>3. /\ thread'[t].at = "multiply" /\ thread'[t].k0 = thread[t].k0
            /\ thread'[t].acc = thread[t].acc
        BY <4>2
      <4>4. SumTo(thread'[t]) = SumTo(thread[t]) BY <4>1, <4>3 DEF SumTo
      <4> QED BY <2>3, <4>1, <4>3, <4>4 DEF TileThread
    <3>4. CASE SyncMultiplied
      <4>1. /\ thread[t].at = "multiplied"
            /\ thread'[t] = [thread[t] EXCEPT !.k0 = k0 + DeviceTile, !.at = next]
        BY <3>4 DEF SyncMultiplied, Sync
      <4>2. PICK x, y, r : x = next /\ y = k0 + DeviceTile /\ r = thread[t] OBVIOUS
      <4>3. [r EXCEPT !.k0 = y, !.at = x] = [at |-> x, k0 |-> y, acc |-> r.acc]
        <5>1. IsThread(r) BY <3>1, <4>2
        <5> QED BY <5>1, NextRound
      <4>4. /\ thread'[t].at = next /\ thread'[t].k0 = k0 + DeviceTile
            /\ thread'[t].acc = thread[t].acc
        BY <4>1, <4>2, <4>3
      <4>5. SumTo(thread'[t]) = SumTo(thread[t]) BY <4>1, <4>4 DEF SumTo
      <4>6. /\ k0 + DeviceTile \in Nat
            /\ next = "start" => k0 + DeviceTile < call.k
            /\ next = "store" => k0 + DeviceTile >= call.k
            /\ next \in {"start", "store"}
        BY <2>4, <3>2
      <4> HIDE DEF next, k0
      <4> QED BY <2>3, <4>1, <4>4, <4>5, <4>6 DEF TileThread
    <3> QED BY <3>3, <3>4
  <2>6. \A t \in DOMAIN thread : thread[t].at # "done" /\ thread'[t].at # "done"
    BY <1>1, <2>5
  <2>7. /\ DOMAIN shared'.a = DOMAIN shared.a /\ DOMAIN shared'.b = DOMAIN shared.b
        /\ \A t \in DOMAIN thread : TileThread(thread'[t], shared'.a[t], shared'.b[t], t)
    BY <1>1, <2>5
  <2>8. DOMAIN C' = DOMAIN C /\ \A c \in DOMAIN C : Complete(c) => Complete(c)' BY <1>1, SameC
  <2>9. Launched /\ UNCHANGED <<backend, phase, call, grid, block>> BY <1>1
  <2> QED BY <1>1, <1>3, <2>1, <2>6, <2>7, <2>8, <2>9, ThreadsMove
<1> QED BY <1>2, <1>3

LEMMA StartBlockKeeps ==
  ASSUME ProductInv, LaunchInv, StartBlock
  PROVE  ProductInv'
<1> DEFINE r == [at |-> IF call.op = "gemm_tiled" /\ call.k = 0 THEN "store" ELSE "start",
                 k0 |-> 0, acc |-> <<>>]
<1>1. PICK b \in grid :
         /\ Launched /\ BlockEnded
         /\ block' = b /\ grid' = grid \ {b}
         /\ thread' = [t \in ThreadsOf(call) |-> r]
         /\ shared' = [x \in {"a", "b"} |-> [t \in ThreadsOf(call) |-> Unset]]
         /\ UNCHANGED <<C, phase, call, backend>>
  BY DEF StartBlock, HostUnchanged
<1>2. CASE call.op \notin Products BY <1>1, <1>2, OtherKernel DEF Launched
<1>3. CASE call.op \in Products
  <2>1. /\ call \in Operations
        /\ DOMAIN C = 0 .. call.b * call.m * call.n - 1
        /\ grid \subseteq GridOf(call)
        /\ NoThreads \/ BlockInv
        /\ \A e \in GridOf(call), t \in ThreadsOf(call) :
              \/ e \in grid
              \/ ~NoThreads /\ e = block /\ thread[t].at # "done"
              \/ PartDone(e, t)
    BY <1>1, <1>3 DEF ProductInv, LaunchInv
  <2>2. call.k \in Nat BY <1>3, <2>1, DeviceSizes
  <2>3. /\ DOMAIN thread' = ThreadsOf(call) /\ \A t \in ThreadsOf(call) : thread'[t] = r
        /\ DOMAIN shared'.a = ThreadsOf(call) /\ DOMAIN shared'.b = ThreadsOf(call)
    <3> HIDE DEF r
    <3>1. shared'.a = [t \in ThreadsOf(call) |-> Unset] /\ shared'.b = [t \in ThreadsOf(call) |-> Unset]
      BY <1>1
    <3> QED BY <1>1, <3>1
  <2>4. GridOf(call)' = GridOf(call) /\ ThreadsOf(call)' = ThreadsOf(call)
    BY <1>1 DEF GridOf, ThreadsOf, Items, OutputSize, Side
  <2>5. ASSUME call.op = "gemm_tiled", NEW t \in ThreadsOf(call)
        PROVE  TileThread(thread[t], shared.a[t], shared.b[t], t)'
    <3>1. thread'[t].at = (IF call.k = 0 THEN "store" ELSE "start") /\ thread'[t].k0 = 0
          /\ thread'[t].acc = <<>>
      BY <2>3, <2>5
    <3>2. \A i, j : Part(0, i, j, 0, 0) = <<>> BY DEF Part
    <3>3. Least(0, call.k) = 0 BY <2>2 DEF Least
    <3>4. \A i, j : Part(0, i, j, 0, Least(0, call.k))' = <<>>
      <4>1. \A i, j : Part(0, i, j, 0, 0)' = <<>> BY DEF Part
      <4>2. Least(0, call'.k) = 0 BY <1>1, <3>3
      <4> QED BY <4>1, <4>2 DEF Part
    <3>5. thread'[t].at # "multiplied" BY <3>1
    <3> QED BY <1>1, <2>2, <3>1, <3>4, <3>5 DEF TileThread, SumTo
  <2>6. BlockInv'
    BY <1>1, <2>1, <2>3, <2>4, <2>5 DEF BlockInv
  <2>7. ASSUME NEW e \in GridOf(call), NEW t \in ThreadsOf(call)
        PROVE  \/ e \in grid'
               \/ ~NoThreads' /\ e = block' /\ thread'[t].at # "done"
               \/ PartDone(e, t)'
    <3>1. CASE e = b
      <4>1. thread'[t].at # "done" BY <2>3
      <4>2. ~NoThreads' BY <2>3 DEF NoThreads
      <4> QED BY <1>1, <3>1, <4>1, <4>2
    <3>2. CASE e # b /\ e \in grid BY <1>1, <3>2
    <3>3. CASE e \notin grid
      <4>1. ~(~NoThreads /\ thread[t].at # "done")
        BY <1>1, <2>1 DEF BlockEnded, BlockInv
      <4>2. PartDone(e, t) BY <2>1, <3>3, <4>1
      <4>3. \A c \in DOMAIN C : Complete(c) => Complete(c)' BY <1>1, SameC
      <4> QED BY <1>1, <1>3, <2>1, <4>2, <4>3, DoneStays
    <3> QED BY <3>1, <3>2, <3>3
  <2>8. DOMAIN C' = 0 .. call'.b * call'.m * call'.n - 1 /\ grid' \subseteq GridOf(call)'
        /\ phase' = "running"
    BY <1>1, <2>1, <2>4 DEF Launched
  <2> QED BY <1>1, <1>3, <2>4, <2>6, <2>7, <2>8 DEF ProductInv
<1> QED BY <1>2, <1>3

LEMMA EndLaunchKeeps ==
  ASSUME ProductInv, LaunchInv, EndLaunch
  PROVE  ProductInv'
<1>1. /\ Launched /\ BlockEnded /\ grid = {} /\ phase' = "returned"
      /\ UNCHANGED <<C, call, backend>>
  BY DEF EndLaunch, HostUnchanged
<1>2. SUFFICES ASSUME call.op \in AllProducts PROVE call \in Operations /\ IsDone'
  BY <1>1 DEF ProductInv, Launched
<1>3. call \in Operations /\ call.op \in Products
  BY <1>1, <1>2 DEF LaunchInv, AllProducts
<1>4. DOMAIN C = 0 .. call.b * call.m * call.n - 1 BY <1>1, <1>3 DEF ProductInv
<1>5. ASSUME NEW b \in GridOf(call), NEW t \in ThreadsOf(call) PROVE PartDone(b, t)
  BY <1>1, <1>3 DEF ProductInv, BlockEnded, BlockInv
<1>6. ASSUME NEW c \in DOMAIN C PROVE Complete(c)
  <2>1. /\ call.b = 1 /\ call.m \in Nat /\ call.n \in Nat /\ call.k \in Nat BY <1>3, DeviceSizes
  <2>2. c \in 0 .. call.b * call.m * call.n - 1 BY <1>4
  <2>3. call.b \in Nat BY <2>1
  <2>4. call.b \in Positive /\ call.m \in Positive /\ call.n \in Positive
    BY <2>1, <2>2, <2>3, NotEmpty
  <2>5. Sizes BY <2>1, <2>4 DEF Sizes
  <2>6. PICK s \in 0 .. call.b - 1, i \in AllRows, j \in Cols : c = Cell(s, i, j)
    BY <2>2, <2>5, EveryCell
  <2>7. s = 0 BY <2>1
  <2>8. PICK b \in GridOf(call), t \in ThreadsOf(call) : Computes(b, t, i, j)
    BY <1>3, EveryElement
  <2> QED BY <1>5, <2>6, <2>7, <2>8 DEF PartDone
<1>7. IsDone BY <1>4, <1>6 DEF IsDone
<1>8. IsDone' BY <1>1, <1>7 DEF IsDone, Complete, Product
<1> QED BY <1>3, <1>8

LEMMA LaunchKeeps ==
  ASSUME NEW o \in Operations, Launch(o)
  PROVE  ProductInv'
<1>1. /\ grid' = GridOf(o) /\ thread' = <<>> /\ phase' = "running" /\ call' = o
      /\ C' = [c \in 0 .. OutputSize(o) - 1 |-> Garbage]
  BY DEF Launch, Ask
<1>2. SUFFICES ASSUME o.op \in Products
               PROVE  /\ DOMAIN C' = 0 .. o.b * o.m * o.n - 1
                      /\ grid' \subseteq GridOf(call)' /\ NoThreads'
                      /\ \A b \in GridOf(call)' : b \in grid'
  BY <1>1 DEF ProductInv
<1>3. OutputSize(o) = o.b * o.m * o.n BY <1>2 DEF OutputSize, Products
<1>4. GridOf(call)' = GridOf(o)
  BY <1>1 DEF GridOf, Items, OutputSize, Side
<1> QED BY <1>1, <1>3, <1>4 DEF NoThreads

\* The operators that are one action.
HostComputed ==
    /\ call \in Operations /\ call.op = "matmulq"
    /\ C = [c \in 0 .. OutputSize(call) - 1 |-> HostCell(call, c)]
CublasComputed ==
    /\ call \in Operations /\ call.op = "matmul"
    /\ \E W : /\ W = CublasWrites(call)
             /\ C = [c \in {w[1] : w \in W} |-> (CHOOSE w \in W : w[1] = c)[2]]

LEMMA AtOnce == HostComputed \/ CublasComputed => IsDone
<1>1. HostComputed => IsDone BY HostProduct DEF HostComputed
<1>2. ASSUME CublasComputed PROVE IsDone
  <2>1. PICK W : /\ W = CublasWrites(call)
                 /\ C = [c \in {w[1] : w \in W} |-> (CHOOSE w \in W : w[1] = c)[2]]
    BY <1>2 DEF CublasComputed
  <2>2. call \in Operations /\ call.op = "matmul" BY <1>2 DEF CublasComputed
  <2> QED BY <2>1, <2>2, CublasProduct
<1> QED BY <1>1, <1>2

LEMMA AtOnceNext == HostComputed' \/ CublasComputed' => IsDone'
BY AtOnce, PTL

LEMMA AtOnceKeeps ==
  ASSUME NEW o \in Operations, RunHost(o) \/ CallCublas(o)
  PROVE  ProductInv'
<1>1. CASE RunHost(o)
  <2>1. /\ call' = o /\ phase' = "returned" /\ o.op \notin Products \cup {"matmul"}
        /\ C' = [c \in 0 .. OutputSize(o) - 1 |-> HostCell(o, c)]
    BY <1>1 DEF RunHost
  <2>2. SUFFICES ASSUME o.op \in AllProducts PROVE IsDone'
    BY <2>1 DEF ProductInv, Launched
  <2>3. o.op = "matmulq" BY <2>1, <2>2 DEF AllProducts
  <2>4. HostComputed' BY <2>1, <2>3 DEF HostComputed
  <2> QED BY <2>4, AtOnceNext
<1>2. CASE CallCublas(o)
  <2>1. /\ call' = o /\ phase' = "returned" /\ o.op = "matmul"
        /\ \E W : /\ W = CublasWrites(o)
                 /\ C' = [c \in {w[1] : w \in W} |-> (CHOOSE w \in W : w[1] = c)[2]]
    BY <1>2 DEF CallCublas
  <2>2. CublasComputed' BY <2>1 DEF CublasComputed
  <2>3. IsDone' BY <2>2, AtOnceNext
  <2> QED BY <2>1, <2>3 DEF ProductInv, Launched
<1> QED BY <1>1, <1>2

\* A call of Gemm leaves the results of the other products alone.
LEMMA GemmLeavesResult ==
  ASSUME PackInv, GemmInv, OnHost, GemmNext, phase' = "returned", ~IsGemm'
  PROVE  UNCHANGED <<C, call, phase>>
<1>1. ASSUME phase \in {"dispatch", "running"}, call' = call PROVE FALSE
  BY <1>1 DEF GemmInv, IsProduct, IsGemm
<1>2. ~Dispatch BY DEF Dispatch
<1>3. ~EndSlice BY <1>1 DEF EndSlice
<1>4. ASSUME NEW w \in Threads, Claim(w) PROVE FALSE
  <2>1. todo # <<>> /\ call' = call BY <1>4 DEF Claim
  <2> QED BY <1>1, <2>1 DEF PackInv, Typed
<1>5. ASSUME NEW w \in Threads, KernelStep(w) PROVE FALSE
  <2>1. job[w].at # "idle" /\ call' = call /\ phase' = phase
    BY <1>5 DEF KernelStep, RunInRegisters, RunReordered, Clear, RunTiles, EdgeStrips,
                PackB, PackA, RunMicroTiles, At
  <2>2. phase = "running" BY <2>1 DEF PackInv, Typed, Idle
  <2> QED BY <1>1, <2>1, <2>2
<1>6. ~GemmCall BY DEF GemmCall, Begin
<1>7. GemmDone => UNCHANGED <<C, call, phase>> BY DEF GemmDone, gemmVars
<1> QED BY <1>2, <1>3, <1>4, <1>5, <1>6, <1>7 DEF GemmNext, GemmStep

LEMMA ResultStays ==
  ASSUME ProductInv, UNCHANGED <<C, call, phase>>, ~Launched'
  PROVE  ProductInv'
<1>1. IsDone => IsDone' BY DEF IsDone, Complete, Product
<1> QED BY <1>1 DEF ProductInv, IsGemm

LEMMA StutterKeepsProduct ==
  ASSUME ProductInv, UNCHANGED kernelVars
  PROVE  ProductInv'
<1>1. UNCHANGED <<C, call, phase, backend, grid, block, thread, shared>>
  BY DEF kernelVars, gemmVars, launchVars
<1>2. CASE ~Launched BY <1>1, <1>2, ResultStays DEF Launched, OnHost
<1>3. CASE Launched /\ call.op \notin Products BY <1>1, <1>3, OtherKernel DEF Launched
<1>4. CASE Launched /\ call.op \in Products
  <2>1. GridOf(call)' = GridOf(call) /\ ThreadsOf(call)' = ThreadsOf(call)
    BY <1>1 DEF GridOf, ThreadsOf, Items, OutputSize, Side
  <2>2. BlockInv => BlockInv'
    <3>1. ASSUME NEW t, TileThread(thread[t], shared.a[t], shared.b[t], t)
          PROVE  TileThread(thread[t], shared.a[t], shared.b[t], t)'
      BY <1>1, <3>1, ThreadHolds
    <3> QED BY <1>1, <2>1, <3>1 DEF BlockInv
  <2>3. \A b, t : PartDone(b, t) => PartDone(b, t)'
    BY <1>1 DEF PartDone, Computes, Complete, Product, AllRows, Cols, Cell
  <2>4. phase' = "running" BY <1>1, <1>4 DEF Launched
  <2> QED BY <1>1, <1>4, <2>1, <2>2, <2>3, <2>4 DEF ProductInv, NoThreads
<1> QED BY <1>2, <1>3, <1>4

LEMMA ProductInit == KernelInit => ProductInv
BY DEF KernelInit, GemmInit, ProductInv, Launched

LEMMA ProductNext ==
  BufferInv /\ GemmInv /\ BarrierInv /\ LaunchInv /\ ProductInv /\ [KernelNext]_kernelVars
    => ProductInv'
<1> SUFFICES ASSUME BufferInv, GemmInv, BarrierInv, LaunchInv, ProductInv,
                    [KernelNext]_kernelVars
             PROVE  ProductInv'
  OBVIOUS
<1>1. CASE OnHost /\ (GemmNext /\ UNCHANGED <<backend, launchVars>>)
  <2>1. ~Launched' BY <1>1 DEF Launched, OnHost
  <2>2. CASE phase' = "returned" /\ ~IsGemm'
    <3>1. PackInv BY <1>1 DEF BufferInv
    <3>2. UNCHANGED <<C, call, phase>> BY <1>1, <2>2, <3>1, GemmLeavesResult
    <3> QED BY <2>1, <3>2, ResultStays
  <2>3. CASE ~(phase' = "returned" /\ ~IsGemm')
    BY <2>1, <2>3 DEF ProductInv
  <2> QED BY <2>2, <2>3
<1>2. ASSUME NEW o \in Operations, RunHost(o) \/ Launch(o) \/ CallCublas(o) PROVE ProductInv'
  BY <1>2, AtOnceKeeps, LaunchKeeps
<1>3. CASE StartBlock BY <1>3, StartBlockKeeps
<1>4. CASE EndLaunch BY <1>4, EndLaunchKeeps
<1>5. ASSUME NEW t \in DOMAIN thread, RunThread(t) \/ Stage(t) \/ Multiply(t) \/ Store(t)
      PROVE  ProductInv'
  BY <1>5, RunThreadKeeps, StageKeeps, MultiplyKeeps, StoreKeeps
<1>6. CASE SyncStaged \/ SyncMultiplied BY <1>6, SyncKeeps
<1>7. CASE UNCHANGED kernelVars BY <1>7, StutterKeepsProduct
<1> QED BY <1>1, <1>2, <1>3, <1>4, <1>5, <1>6, <1>7 DEF KernelNext, KernelCall, DeviceStep

LEMMA ProductInvImplies == ProductInv => DeviceIsProduct
BY DoneIsProduct DEF ProductInv, DeviceIsProduct

\* Every product of the device, naive, tiled, on tensor cores or by cuBLAS,
\* and the int8 product of the host, is the product, for every shape, tile
\* and order of the blocks and interleaving of their threads.
THEOREM DeviceProductsAreRight == KernelSpec => []DeviceIsProduct
<1>1. KernelInit => BufferInv /\ GemmInv /\ BarrierInv /\ LaunchInv /\ ProductInv
  BY BufferInit, GemmInvInit, BarrierInit, LaunchInit, ProductInit
<1>2. BufferInv /\ GemmInv /\ BarrierInv /\ LaunchInv /\ ProductInv /\ [KernelNext]_kernelVars
        => (BufferInv /\ GemmInv /\ BarrierInv /\ LaunchInv /\ ProductInv)'
  BY BufferStep, GemmInvNext, BarrierNext, LaunchNext, ProductNext
<1> QED BY <1>1, <1>2, ProductInvImplies, PTL DEF KernelSpec
-----------------------------------------------------------------------------
(* Shapes.  The number of elements from a dimension on, a recursive        *)
(* function of the dimension, has the equations it is written with.        *)

IsProd(f, s, k) == f = [x \in k .. Len(s) + 1 |-> IF x > Len(s) THEN 1 ELSE s[x] * f[x + 1]]

\* There is such a function, and its values are numbers.
LEMMA ProdExists ==
  ASSUME NEW s \in Seq(Nat), NEW k \in 1 .. Len(s) + 1
  PROVE  \E f : IsProd(f, s, k) /\ \A x \in k .. Len(s) + 1 : f[x] \in Nat
<1> DEFINE top == Len(s) + 1
           Good(f, j) == IsProd(f, s, j) /\ \A x \in j .. top : f[x] \in Nat
           S == {n \in Nat : n < top => \E f : Good(f, top - n)}
<1>1. Len(s) \in Nat /\ top \in Nat OBVIOUS
<1>2. 0 \in S
  <2> DEFINE f == [x \in top .. top |-> 1]
  <2>1. f = [x \in top .. Len(s) + 1 |-> IF x > Len(s) THEN 1 ELSE s[x] * f[x + 1]]
    <3>1. \A x \in top .. Len(s) + 1 : x > Len(s) BY <1>1
    <3> QED BY <3>1
  <2>2. \A x \in top .. top : f[x] \in Nat OBVIOUS
  <2>3. top - 0 = top BY <1>1
  <2> HIDE DEF f
  <2>4. IsProd(f, s, top) BY <2>1 DEF IsProd
  <2> QED BY <2>2, <2>3, <2>4
<1>3. ASSUME NEW n \in S PROVE n + 1 \in S
  <2>1. CASE n + 1 < top
    <3>1. n \in Nat /\ n < top BY <2>1, <1>1
    <3>2. PICK j \in 1 .. Len(s) : j = top - (n + 1) /\ j + 1 = top - n
      <4>1. PICK m \in Nat : m = Len(s) BY <1>1
      <4>2. m + 1 - (n + 1) \in 1 .. m /\ m + 1 - (n + 1) + 1 = m + 1 - n
        BY <3>1, <2>1, <4>1
      <4> QED BY <4>1, <4>2
    <3>a. /\ j \in Int /\ 1 <= j /\ j <= Len(s) /\ j + 1 \in j + 1 .. top
          /\ \A x \in j .. top : x \in Int /\ (x # j => x \in j + 1 .. top)
      <4>1. PICK m \in Nat : m = Len(s) BY <1>1
      <4>2. j \in Int /\ 1 <= j /\ j <= m BY <4>1, <3>2
      <4>3. j + 1 \in j + 1 .. m + 1 BY <4>2
      <4>4. ASSUME NEW x \in j .. m + 1 PROVE x \in Int /\ (x # j => x \in j + 1 .. m + 1)
        BY <4>2
      <4> QED BY <4>1, <4>2, <4>3, <4>4
    <3>3. PICK f : Good(f, j + 1) BY <3>1, <3>2
    <3> DEFINE g == [x \in j .. top |-> IF x = j THEN s[j] * f[j + 1] ELSE f[x]]
    <3>4. f = [x \in j + 1 .. Len(s) + 1 |-> IF x > Len(s) THEN 1 ELSE s[x] * f[x + 1]]
          /\ \A x \in j + 1 .. top : f[x] \in Nat
      BY <3>3 DEF IsProd
    <3>5. s[j] \in Nat /\ f[j + 1] \in Nat
      <4>1. s[j] \in Nat BY <3>2
      <4>2. f[j + 1] \in Nat BY <3>4, <3>a
      <4> QED BY <4>1, <4>2
    <3>6. s[j] * f[j + 1] \in Nat BY <3>5, SMTT(30)
    <3>7. ASSUME NEW x \in j .. top
          PROVE g[x] \in Nat /\ g[x] = IF x > Len(s) THEN 1 ELSE s[x] * g[x + 1]
      <4>1. CASE x = j
        <5>1. g[j] = s[j] * f[j + 1] BY <3>2, <1>1
        <5>2. g[j + 1] = f[j + 1] BY <3>2, <1>1
        <5>3. ~(j > Len(s)) BY <3>2, <1>1
        <5> QED BY <4>1, <5>1, <5>2, <5>3, <3>6
      <4>2. CASE x # j
        <5>1. x \in j + 1 .. top /\ x \in Int BY <4>2, <3>a
        <5>2. g[x] = f[x] BY <4>2
        <5>3. CASE x > Len(s) BY <5>1, <5>2, <5>3, <3>4
        <5>4. CASE ~(x > Len(s))
          <6>1. x + 1 \in j .. top /\ x + 1 # j BY <5>1, <5>4, <3>2, <1>1
          <6>2. g[x + 1] = f[x + 1] BY <6>1
          <6>3. f[x] = s[x] * f[x + 1] BY <3>4, <5>1, <5>4
          <6>4. f[x] \in Nat BY <3>4, <5>1
          <6> QED BY <5>2, <5>4, <6>2, <6>3, <6>4
        <5> QED BY <5>3, <5>4
      <4> QED BY <4>1, <4>2
    <3>8. g = [x \in j .. top |-> g[x]] OBVIOUS
    <3> HIDE DEF g
    <3>9. g = [x \in j .. Len(s) + 1 |-> IF x > Len(s) THEN 1 ELSE s[x] * g[x + 1]]
      BY <3>7, <3>8
    <3>10. Good(g, j) BY <3>7, <3>9 DEF IsProd
    <3>11. n + 1 \in Nat BY <3>1
    <3> QED BY <3>2, <3>10, <3>11
  <2>2. CASE ~(n + 1 < top) BY <2>2
  <2> QED BY <2>1, <2>2
<1>4. S \in SUBSET Nat OBVIOUS
<1> HIDE DEF S
<1>5. S = Nat BY <1>2, <1>3, <1>4, Induction
<1>6. PICK n \in Nat : n < top /\ top - n = k
  <2>1. top - k \in Nat /\ top - k < top /\ top - (top - k) = k BY <1>1
  <2> QED BY <2>1
<1> QED BY <1>5, <1>6 DEF S

\* Two of them agree where both are defined.
LEMMA ProdUnique ==
  ASSUME NEW s \in Seq(Nat), NEW k \in 1 .. Len(s) + 1, NEW j \in 1 .. Len(s) + 1,
         NEW f, NEW g, IsProd(f, s, k), IsProd(g, s, j), NEW x \in Int,
         k <= x, j <= x, x <= Len(s) + 1
  PROVE  f[x] = g[x]
<1> DEFINE top == Len(s) + 1
           S == {n \in Nat : k <= top - n /\ j <= top - n => f[top - n] = g[top - n]}
<1>1. Len(s) \in Nat /\ top \in Nat OBVIOUS
<1>2. ASSUME NEW y \in Int, k <= y, j <= y, y <= top
      PROVE  /\ f[y] = IF y > Len(s) THEN 1 ELSE s[y] * f[y + 1]
             /\ g[y] = IF y > Len(s) THEN 1 ELSE s[y] * g[y + 1]
  <2>1. y \in k .. Len(s) + 1 /\ y \in j .. Len(s) + 1 BY <1>2, <1>1
  <2> QED BY <2>1 DEF IsProd
<1>3. 0 \in S
  <2>1. top - 0 = top /\ top > Len(s) BY <1>1
  <2> QED BY <1>2, <2>1, <1>1
<1>4. ASSUME NEW n \in S PROVE n + 1 \in S
  <2>1. n \in Nat OBVIOUS
  <2> SUFFICES ASSUME k <= top - (n + 1), j <= top - (n + 1)
               PROVE  f[top - (n + 1)] = g[top - (n + 1)]
    BY <2>1
  <2>2. PICK y \in Int : y = top - (n + 1) /\ y + 1 = top - n
    <3>1. top - (n + 1) \in Int /\ top - (n + 1) + 1 = top - n BY <2>1, <1>1
    <3> QED BY <3>1
  <2>3. y <= top /\ ~(y > Len(s)) /\ k <= y + 1 /\ j <= y + 1 BY <2>1, <2>2, <1>1
  <2>4. f[y + 1] = g[y + 1] BY <2>2, <2>3
  <2>5. f[y] = s[y] * f[y + 1] /\ g[y] = s[y] * g[y + 1] BY <1>2, <2>2, <2>3
  <2> QED BY <2>2, <2>4, <2>5
<1>5. S \in SUBSET Nat OBVIOUS
<1> HIDE DEF S
<1>6. S = Nat BY <1>3, <1>4, <1>5, Induction
<1>7. PICK n \in Nat : x = top - n
  <2>1. top - x \in Nat /\ x = top - (top - x) BY <1>1
  <2> QED BY <2>1
<1> QED BY <1>6, <1>7 DEF S

\* Numel satisfies the equations it is written with.
LEMMA NumelIs ==
  ASSUME NEW s \in Seq(Nat)
  PROVE  /\ \A k \in 1 .. Len(s) + 1 : Numel(s, k) \in Nat
         /\ Numel(s, Len(s) + 1) = 1
         /\ \A k \in 1 .. Len(s) : Numel(s, k) = s[k] * Numel(s, k + 1)
<1> DEFINE F(k) == CHOOSE g : IsProd(g, s, k)
<1>1. Len(s) \in Nat OBVIOUS
<1>2. \A k : Numel(s, k) = F(k)[k] BY DEF Numel, IsProd
<1>3. ASSUME NEW k \in 1 .. Len(s) + 1 PROVE IsProd(F(k), s, k) /\ F(k)[k] \in Nat
  <2>1. PICK g : IsProd(g, s, k) /\ \A x \in k .. Len(s) + 1 : g[x] \in Nat BY ProdExists
  <2>2. IsProd(F(k), s, k) BY <2>1
  <2>3. k \in Int /\ k <= Len(s) + 1 /\ k \in k .. Len(s) + 1 BY <1>1
  <2> HIDE DEF F
  <2>4. F(k)[k] = g[k] BY <2>1, <2>2, <2>3, ProdUnique
  <2> QED BY <2>1, <2>2, <2>3, <2>4
<1> HIDE DEF F
<1>4. ASSUME NEW k \in 1 .. Len(s) + 1
      PROVE  F(k)[k] = IF k > Len(s) THEN 1 ELSE s[k] * F(k)[k + 1]
  <2>1. k \in k .. Len(s) + 1 BY <1>1
  <2> QED BY <1>3, <2>1 DEF IsProd
<1>5. ASSUME NEW k \in 1 .. Len(s) PROVE F(k)[k] = s[k] * F(k + 1)[k + 1]
  <2>1. k \in 1 .. Len(s) + 1 /\ k + 1 \in 1 .. Len(s) + 1 /\ ~(k > Len(s)) /\ k + 1 \in Int
        /\ k <= k + 1 /\ k + 1 <= Len(s) + 1
    BY <1>1
  <2>2. F(k)[k + 1] = F(k + 1)[k + 1] BY <1>3, <2>1, ProdUnique
  <2> QED BY <1>4, <2>1, <2>2
<1>6. Len(s) + 1 \in 1 .. Len(s) + 1 /\ Len(s) + 1 > Len(s) BY <1>1
<1> QED BY <1>1, <1>2, <1>3, <1>4, <1>5, <1>6
-----------------------------------------------------------------------------
(* Coordinates.                                                            *)

\* Division by a product is division by its factors in turn.
LEMMA Nested ==
  ASSUME NEW x \in Nat, NEW N \in Positive, NEW d \in Positive
  PROVE  /\ d * N \in Positive
         /\ x \div (d * N) = (x \div N) \div d
         /\ x % (d * N) = ((x \div N) % d) * N + (x % N)
<1> DEFINE q == x \div N  r == x % N  p == q \div d  c == q % d
<1>1. N \in Nat /\ N >= 1 /\ d \in Nat /\ d >= 1 BY DEF Positive
<1>2. q \in Nat /\ r \in 0 .. N - 1 /\ x = q * N + r BY Division
<1> HIDE DEF q, r
<1>3. p \in Nat /\ c \in 0 .. d - 1 /\ q = p * d + c
  <2>1. q \in Int BY <1>2
  <2> QED BY <1>2, <2>1, Division
<1> HIDE DEF p, c
<1>4. d * N \in Positive
  <2>1. d * N \in Nat /\ d * N >= 1 BY <1>1, SMTT(30)
  <2> QED BY <2>1 DEF Positive
<1>5. (p * d + c) * N = p * (d * N) + c * N
  <2>1. c \in Nat BY <1>1, <1>3
  <2> QED BY <1>1, <1>3, <2>1, SMTT(30)
<1>6. c * N + r \in 0 .. d * N - 1
  <2>1. c \in Int /\ d \in Int /\ c < d /\ c \in Nat BY <1>1, <1>3
  <2>2. c * N \in Nat BY <1>1, <2>1, SMTT(30)
  <2>3. c * N + r < d * N BY <1>2, <2>1, Multiples
  <2>4. d * N \in Nat BY <1>4 DEF Positive
  <2> QED BY <1>1, <1>2, <2>2, <2>3, <2>4
<1>7. x = p * (d * N) + (c * N + r)
  <2>1. c \in Nat /\ d * N \in Nat BY <1>1, <1>3, <1>4 DEF Positive
  <2>2. c * N \in Nat BY <1>1, <2>1, SMTT(30)
  <2>3. p * (d * N) \in Nat
    <3> DEFINE e == d * N
    <3>1. e \in Nat BY <2>1
    <3> HIDE DEF e
    <3>2. p * e \in Nat BY <1>3, <3>1, SMTT(30)
    <3> QED BY <3>2 DEF e
  <2>4. x = (p * d + c) * N + r BY <1>2, <1>3
  <2> DEFINE a == p * (d * N)  b == c * N
  <2>5. a \in Nat /\ b \in Nat /\ r \in Nat /\ x = a + b + r
    BY <1>1, <1>2, <1>5, <2>2, <2>3, <2>4
  <2> HIDE DEF a, b
  <2>6. x = a + (b + r) BY <2>5
  <2> QED BY <2>6 DEF a, b
<1>8. p \in Int BY <1>3
<1>9. PICK f : f = c * N + r OBVIOUS
<1>10. PICK e \in Positive : e = d * N /\ f \in 0 .. e - 1 /\ x = p * e + f
  BY <1>4, <1>6, <1>7, <1>9
<1>11. x \div e = p /\ x % e = f BY <1>8, <1>10, DivisionIs
<1> QED BY <1>4, <1>9, <1>10, <1>11 DEF p, c, q, r

\* A shape of which something is an element has no empty dimension.
LEMMA NoEmptyDimension ==
  ASSUME NEW s \in Seq(Nat), Size0(s) > 0
  PROVE  /\ \A k \in 1 .. Len(s) + 1 : Numel(s, k) \in Positive
         /\ \A k \in 1 .. Len(s) : s[k] \in Positive
<1> DEFINE S == {n \in Nat : n <= Len(s) => Numel(s, n + 1) \in Positive}
<1>1. Len(s) \in Nat OBVIOUS
<1>2. 0 \in S
  <2>1. 1 \in 1 .. Len(s) + 1 /\ 0 + 1 = 1 BY <1>1
  <2>2. Numel(s, 1) \in Nat BY <2>1, NumelIs
  <2> QED BY <2>1, <2>2 DEF Size0, Positive
<1>3. ASSUME NEW k \in 1 .. Len(s), Numel(s, k) \in Positive
      PROVE  Numel(s, k + 1) \in Positive /\ s[k] \in Positive
  <2>1. k + 1 \in 1 .. Len(s) + 1 BY <1>1
  <2>2. PICK a, b \in Nat : a = s[k] /\ b = Numel(s, k + 1)
    <3>1. s[k] \in Nat OBVIOUS
    <3>2. Numel(s, k + 1) \in Nat BY <2>1, NumelIs
    <3> QED BY <3>1, <3>2
  <2>3. a * b \in Positive BY <1>3, <2>2, NumelIs
  <2>4. a # 0 /\ b # 0
    <3>1. 0 * b = 0 /\ a * 0 = 0 BY SMTT(30)
    <3> QED BY <2>3, <3>1 DEF Positive
  <2> QED BY <2>2, <2>4 DEF Positive
<1>4. ASSUME NEW n \in S PROVE n + 1 \in S
  <2>1. n \in Nat OBVIOUS
  <2>2. CASE n + 1 <= Len(s)
    <3>1. n + 1 \in 1 .. Len(s) /\ n <= Len(s) /\ n + 1 \in Nat BY <2>1, <2>2, <1>1
    <3>2. Numel(s, (n + 1) + 1) \in Positive BY <3>1, <1>3
    <3> QED BY <3>1, <3>2
  <2>3. CASE ~(n + 1 <= Len(s)) BY <2>1, <2>3
  <2> QED BY <2>2, <2>3
<1>5. S \in SUBSET Nat OBVIOUS
<1> HIDE DEF S
<1>6. S = Nat BY <1>2, <1>4, <1>5, Induction
<1>7. ASSUME NEW k \in 1 .. Len(s) + 1 PROVE Numel(s, k) \in Positive
  <2>1. k - 1 \in Nat /\ k - 1 <= Len(s) /\ (k - 1) + 1 = k BY <1>1
  <2> QED BY <1>6, <2>1 DEF S
<1>8. ASSUME NEW k \in 1 .. Len(s) PROVE s[k] \in Positive
  <2>1. k \in 1 .. Len(s) + 1 BY <1>1
  <2> QED BY <1>3, <1>7, <2>1
<1> QED BY <1>7, <1>8

\* What is left of a cell within a dimension is its coordinate there and what
\* is left within the next.
LEMMA CoordinateIs ==
  ASSUME NEW s \in Seq(Nat), Size0(s) > 0, NEW k \in 1 .. Len(s), NEW x \in Nat
  PROVE  /\ Coordinate(s, k, x) \in 0 .. s[k] - 1
         /\ x % Numel(s, k) = Coordinate(s, k, x) * Numel(s, k + 1) + (x % Numel(s, k + 1))
<1>1. k \in 1 .. Len(s) + 1 /\ k + 1 \in 1 .. Len(s) + 1 OBVIOUS
<1>2. PICK N, d \in Positive : N = Numel(s, k + 1) /\ d = s[k] /\ Numel(s, k) = d * N
  <2>1. Numel(s, k + 1) \in Positive /\ s[k] \in Positive BY <1>1, NoEmptyDimension
  <2> QED BY <2>1, NumelIs
<1>3. x \div N \in Int /\ (x \div N) % d \in 0 .. d - 1
  <2>1. x \div N \in Int BY Division
  <2> QED BY <2>1, Division
<1>4. x % (d * N) = ((x \div N) % d) * N + (x % N) BY Nested
<1> QED BY <1>2, <1>3, <1>4 DEF Coordinate

\* Cells with the same coordinates are the same.
LEMMA SameCoordinates ==
  ASSUME NEW s \in Seq(Nat), NEW x \in 0 .. Size0(s) - 1, NEW y \in 0 .. Size0(s) - 1,
         \A k \in 1 .. Len(s) : Coordinate(s, k, x) = Coordinate(s, k, y)
  PROVE  x = y
<1> DEFINE top == Len(s) + 1
           S == {n \in Nat : n < top => x % Numel(s, top - n) = y % Numel(s, top - n)}
<1>1. Len(s) \in Nat /\ top \in Nat /\ 1 \in 1 .. top /\ top \in 1 .. top OBVIOUS
<1>2. Size0(s) \in Nat /\ Size0(s) > 0 /\ x \in Nat /\ y \in Nat
  <2>1. Size0(s) \in Nat BY <1>1, NumelIs DEF Size0
  <2> QED BY <2>1
<1>3. 0 \in S
  <2>1. top - 0 = top /\ Numel(s, top) = 1 BY <1>1, NumelIs
  <2>2. x % 1 = 0 /\ y % 1 = 0 BY <1>2, SMTT(30)
  <2> QED BY <2>1, <2>2
<1>4. ASSUME NEW n \in S PROVE n + 1 \in S
  <2>1. n \in Nat OBVIOUS
  <2>2. CASE n + 1 < top
    <3>1. PICK k \in 1 .. Len(s) : k = top - (n + 1) /\ k + 1 = top - n
      <4>1. PICK m \in Nat : m = Len(s) BY <1>1
      <4>2. m + 1 - (n + 1) \in 1 .. m /\ m + 1 - (n + 1) + 1 = m + 1 - n
        BY <2>1, <2>2, <4>1
      <4> QED BY <4>1, <4>2
    <3>2. n < top BY <2>1, <2>2, <1>1
    <3>3. x % Numel(s, k + 1) = y % Numel(s, k + 1) BY <3>1, <3>2
    <3>4. x % Numel(s, k) = Coordinate(s, k, x) * Numel(s, k + 1) + (x % Numel(s, k + 1))
      BY <1>2, CoordinateIs
    <3>5. y % Numel(s, k) = Coordinate(s, k, y) * Numel(s, k + 1) + (y % Numel(s, k + 1))
      BY <1>2, CoordinateIs
    <3>6. x % Numel(s, k) = y % Numel(s, k) BY <3>3, <3>4, <3>5, Zenon
    <3> QED BY <2>1, <3>1, <3>6
  <2>3. CASE ~(n + 1 < top) BY <2>1, <2>3
  <2> QED BY <2>2, <2>3
<1>5. S \in SUBSET Nat OBVIOUS
<1> HIDE DEF S
<1>6. S = Nat BY <1>3, <1>4, <1>5, Induction
<1>7. PICK n \in Nat : n < top /\ top - n = 1
  <2>1. Len(s) \in Nat /\ Len(s) < top /\ top - Len(s) = 1 BY <1>1
  <2> QED BY <2>1
<1>8. x % Size0(s) = y % Size0(s) BY <1>6, <1>7 DEF S, Size0
<1>9. \A z \in 0 .. Size0(s) - 1 : z % Size0(s) = z
  <2>1. PICK N \in Positive : N = Size0(s) BY <1>2 DEF Positive
  <2>2. ASSUME NEW z \in 0 .. N - 1 PROVE z % N = z
    <3>1. 0 * N + z = z
      <4>1. 0 * N = 0 BY <2>1, SMTT(30) DEF Positive
      <4> QED BY <4>1
    <3>2. 0 \in Int OBVIOUS
    <3> QED BY <3>1, <3>2, DivisionIs
  <2> QED BY <2>1, <2>2
<1> QED BY <1>8, <1>9
-----------------------------------------------------------------------------
(* Sums of terms.                                                          *)

IsSum(f, t) == f = [k \in 0 .. Len(t) |-> IF k = 0 THEN 0 ELSE f[k - 1] + t[k]]

\* There is a function of the partial sums, and it has numbers for values.
LEMMA SumExists ==
  ASSUME NEW t \in Seq(Nat)
  PROVE  \E f : IsSum(f, t)
<1> DEFINE Upto(f, n) == f = [k \in 0 .. n |-> IF k = 0 THEN 0 ELSE f[k - 1] + t[k]]
           S == {n \in Nat : \E f : Upto(f, n)}
<1>1. 0 \in S
  <2> DEFINE f == [k \in 0 .. 0 |-> 0]
  <2>1. f = [k \in 0 .. 0 |-> IF k = 0 THEN 0 ELSE f[k - 1] + t[k]] OBVIOUS
  <2> HIDE DEF f
  <2> QED BY <2>1
<1>2. ASSUME NEW n \in S PROVE n + 1 \in S
  <2>1. PICK f : Upto(f, n) OBVIOUS
  <2>2. n \in Nat OBVIOUS
  <2> DEFINE g == [k \in 0 .. n + 1 |-> IF k = n + 1 THEN f[n] + t[n + 1] ELSE f[k]]
  <2>3. ASSUME NEW k \in 0 .. n + 1 PROVE g[k] = IF k = 0 THEN 0 ELSE g[k - 1] + t[k]
    <3>1. CASE k = n + 1
      <4>1. k - 1 = n /\ n \in 0 .. n + 1 /\ n # n + 1 /\ k # 0 BY <2>2, <3>1
      <4>2. g[n] = f[n] BY <4>1
      <4>3. g[k] = f[n] + t[n + 1] BY <3>1
      <4> QED BY <3>1, <4>1, <4>2, <4>3
    <3>2. CASE k # n + 1
      <4>1. k \in 0 .. n BY <2>2, <3>2
      <4>2. g[k] = f[k] BY <3>2
      <4>3. CASE k = 0 BY <2>1, <4>1, <4>2, <4>3
      <4>4. CASE k # 0
        <5>1. k - 1 \in 0 .. n + 1 /\ k - 1 # n + 1 BY <4>1, <4>4, <2>2
        <5>2. g[k - 1] = f[k - 1] BY <5>1
        <5>3. f[k] = f[k - 1] + t[k] BY <2>1, <4>1, <4>4
        <5> QED BY <4>2, <4>4, <5>2, <5>3
      <4> QED BY <4>3, <4>4
    <3> QED BY <3>1, <3>2
  <2>4. g = [k \in 0 .. n + 1 |-> g[k]] OBVIOUS
  <2> HIDE DEF g
  <2>5. Upto(g, n + 1) BY <2>3, <2>4
  <2> QED BY <2>2, <2>5
<1>3. S \in SUBSET Nat OBVIOUS
<1>4. S = Nat
  <2> HIDE DEF S
  <2> QED BY <1>1, <1>2, <1>3, Induction
<1>5. Len(t) \in Nat OBVIOUS
<1>6. PICK f : Upto(f, Len(t)) BY <1>4, <1>5
<1> QED BY <1>6 DEF IsSum

\* The sum of the terms is what any partial sums come to.
LEMMA OffsetIs ==
  ASSUME NEW t \in Seq(Nat), NEW G, G[0] = 0, \A k \in 1 .. Len(t) : G[k] = G[k - 1] + t[k]
  PROVE  Offset(t) = G[Len(t)]
<1> DEFINE f == CHOOSE g : IsSum(g, t)
<1>1. Offset(t) = f[Len(t)] BY DEF Offset, IsSum
<1>2. IsSum(f, t) BY SumExists
<1> HIDE DEF f
<1>3. Len(t) \in Nat OBVIOUS
<1>4. \A k \in 0 .. Len(t) : f[k] = IF k = 0 THEN 0 ELSE f[k - 1] + t[k] BY <1>2 DEF IsSum
<1> DEFINE S == {n \in Nat : n <= Len(t) => f[n] = G[n]}
<1>5. 0 \in S BY <1>3, <1>4
<1>6. ASSUME NEW n \in S PROVE n + 1 \in S
  <2>1. n \in Nat OBVIOUS
  <2>2. CASE n + 1 <= Len(t)
    <3>1. n + 1 \in 1 .. Len(t) /\ n + 1 \in 0 .. Len(t) /\ (n + 1) - 1 = n /\ n <= Len(t) /\ n + 1 # 0
      BY <2>1, <2>2, <1>3
    <3>2. f[n] = G[n] BY <3>1
    <3>3. f[n + 1] = f[n] + t[n + 1] BY <1>4, <3>1
    <3>4. G[n + 1] = G[n] + t[n + 1] BY <3>1
    <3>5. f[n + 1] = G[n + 1] BY <3>2, <3>3, <3>4
    <3> QED BY <2>1, <3>5
  <2>3. CASE ~(n + 1 <= Len(t)) BY <2>1, <2>3
  <2> QED BY <2>2, <2>3
<1>7. S \in SUBSET Nat OBVIOUS
<1> HIDE DEF S
<1>8. S = Nat BY <1>5, <1>6, <1>7, Induction
<1>9. f[Len(t)] = G[Len(t)] BY <1>3, <1>8 DEF S
<1> QED BY <1>1, <1>9

\* The partial sums of numbers are numbers.
LEMMA Sums ==
  ASSUME NEW t \in Seq(Nat)
  PROVE  \E G \in [0 .. Len(t) -> Nat] :
            /\ G[0] = 0 /\ \A k \in 1 .. Len(t) : G[k] = G[k - 1] + t[k]
            /\ Offset(t) = G[Len(t)]
<1>1. PICK G : IsSum(G, t) BY SumExists
<1>2. Len(t) \in Nat OBVIOUS
<1>3. \A k \in 0 .. Len(t) : G[k] = IF k = 0 THEN 0 ELSE G[k - 1] + t[k] BY <1>1 DEF IsSum
<1>4. G[0] = 0 BY <1>2, <1>3
<1>5. ASSUME NEW k \in 1 .. Len(t) PROVE G[k] = G[k - 1] + t[k]
  <2>1. k \in 0 .. Len(t) /\ k # 0 BY <1>2
  <2> QED BY <1>3, <2>1
<1> DEFINE S == {n \in Nat : n <= Len(t) => G[n] \in Nat}
<1>6. 0 \in S BY <1>4
<1>7. ASSUME NEW n \in S PROVE n + 1 \in S
  <2>1. n \in Nat OBVIOUS
  <2>2. CASE n + 1 <= Len(t)
    <3>1. n + 1 \in 1 .. Len(t) /\ (n + 1) - 1 = n /\ n <= Len(t) BY <2>1, <2>2, <1>2
    <3>2. G[n] \in Nat /\ t[n + 1] \in Nat BY <3>1
    <3>3. G[n + 1] = G[n] + t[n + 1] BY <1>5, <3>1
    <3> QED BY <2>1, <3>2, <3>3
  <2>3. CASE ~(n + 1 <= Len(t)) BY <2>1, <2>3
  <2> QED BY <2>2, <2>3
<1>8. S \in SUBSET Nat OBVIOUS
<1>9. S = Nat
  <2> HIDE DEF S
  <2> QED BY <1>6, <1>7, <1>8, Induction
<1>10. G \in [0 .. Len(t) -> Nat]
  <2>1. \A n \in 0 .. Len(t) : G[n] \in Nat BY <1>2, <1>9
  <2>2. G = [k \in 0 .. Len(t) |-> G[k]] BY <1>1 DEF IsSum
  <2> QED BY <2>1, <2>2
<1>11. Offset(t) = G[Len(t)] BY <1>4, <1>5, OffsetIs
<1> QED BY <1>4, <1>5, <1>10, <1>11

\* A function on 1 .. n is a sequence.
LEMMA TableIsSeq ==
  ASSUME NEW n \in Nat, NEW t \in [1 .. n -> Nat]
  PROVE  t \in Seq(Nat) /\ Len(t) = n
OBVIOUS

\* The terms of some places, and nothing for the others.
Kept(t, D) == [k \in 1 .. Len(t) |-> IF k \in D THEN t[k] ELSE 0]

LEMMA KeptIs ==
  ASSUME NEW t \in Seq(Nat), NEW D
  PROVE  /\ Kept(t, D) \in Seq(Nat) /\ Len(Kept(t, D)) = Len(t)
         /\ \A k \in 1 .. Len(t) : Kept(t, D)[k] = IF k \in D THEN t[k] ELSE 0
<1>1. PICK n \in Nat : n = Len(t) OBVIOUS
<1>2. Kept(t, D) \in [1 .. n -> Nat]
  <2>1. \A k \in 1 .. n : t[k] \in Nat BY <1>1
  <2> QED BY <1>1, <2>1 DEF Kept
<1>3. \A k \in 1 .. Len(t) : Kept(t, D)[k] = IF k \in D THEN t[k] ELSE 0 BY DEF Kept
<1> QED BY <1>1, <1>2, <1>3, TableIsSeq

\* Keeping one place more adds its term.
LEMMA KeepOneMore ==
  ASSUME NEW t \in Seq(Nat), NEW D, NEW e \in 1 .. Len(t), e \notin D
  PROVE  Offset(Kept(t, D \cup {e})) = Offset(Kept(t, D)) + t[e]
<1>1. PICK n \in Nat : n = Len(t) OBVIOUS
<1>2. PICK a : a = Kept(t, D) OBVIOUS
<1>3. PICK b : b = Kept(t, D \cup {e}) OBVIOUS
<1>4. /\ a \in Seq(Nat) /\ Len(a) = n /\ \A k \in 1 .. n : a[k] = IF k \in D THEN t[k] ELSE 0
      /\ b \in Seq(Nat) /\ Len(b) = n
      /\ \A k \in 1 .. n : b[k] = IF k \in D \cup {e} THEN t[k] ELSE 0
  BY <1>1, <1>2, <1>3, KeptIs
<1>5. PICK x \in Nat : x = t[e]
  <2>1. t[e] \in Nat OBVIOUS
  <2> QED BY <2>1
<1>6. PICK G \in [0 .. n -> Nat] :
         /\ G[0] = 0 /\ \A k \in 1 .. n : G[k] = G[k - 1] + a[k]
         /\ Offset(a) = G[n]
  <2>1. \E G \in [0 .. Len(a) -> Nat] :
            /\ G[0] = 0 /\ \A k \in 1 .. Len(a) : G[k] = G[k - 1] + a[k]
            /\ Offset(a) = G[Len(a)]
    BY <1>4, Sums
  <2> QED BY <1>4, <2>1
<1> DEFINE H == [k \in 0 .. n |-> IF e <= k THEN G[k] + x ELSE G[k]]
<1>7. e \in 1 .. n BY <1>1
<1>8. H[0] = 0 BY <1>6, <1>7
<1>9. ASSUME NEW k \in 1 .. n PROVE H[k] = H[k - 1] + b[k]
  <2>1. k \in 0 .. n /\ k - 1 \in 0 .. n BY <1>1
  <2>2. G[k] = G[k - 1] + a[k] /\ G[k] \in Nat /\ G[k - 1] \in Nat BY <1>6, <2>1
  <2>3. H[k] = (IF e <= k THEN G[k] + x ELSE G[k])
        /\ H[k - 1] = (IF e <= k - 1 THEN G[k - 1] + x ELSE G[k - 1])
    BY <2>1
  <2> HIDE DEF H
  <2>4. CASE k = e
    <3>1. a[k] = 0 /\ b[k] = x BY <1>4, <1>5, <2>4
    <3>2. e <= k /\ ~(e <= k - 1) BY <1>7, <2>4
    <3> QED BY <2>2, <2>3, <3>1, <3>2
  <2>5. CASE k # e
    <3>1. a[k] = b[k] /\ a[k] \in Nat
      <4>1. t[k] \in Nat BY <1>1
      <4>2. a[k] = IF k \in D THEN t[k] ELSE 0 BY <1>4
      <4>3. b[k] = IF k \in D \cup {e} THEN t[k] ELSE 0 BY <1>4
      <4>4. k \in D \cup {e} <=> k \in D BY <2>5
      <4> QED BY <4>1, <4>2, <4>3, <4>4
    <3>2. e <= k <=> e <= k - 1 BY <1>7, <2>5
    <3> QED BY <2>2, <2>3, <3>1, <3>2
  <2> QED BY <2>4, <2>5
<1>10. H[n] = G[n] + x
  <2>1. n \in 0 .. n /\ e <= n BY <1>7
  <2> QED BY <2>1
<1> HIDE DEF H
<1>11. Offset(b) = H[n] BY <1>4, <1>8, <1>9, OffsetIs
<1> QED BY <1>2, <1>3, <1>5, <1>6, <1>10, <1>11

LEMMA KeepNone ==
  ASSUME NEW t \in Seq(Nat)
  PROVE  Offset(Kept(t, {})) = 0
<1> DEFINE a == Kept(t, {})  G == [k \in 0 .. Len(t) |-> 0]
<1>1. a \in Seq(Nat) /\ Len(a) = Len(t) /\ \A k \in 1 .. Len(t) : a[k] = 0 BY KeptIs
<1>2. Len(t) \in Nat OBVIOUS
<1> HIDE DEF a
<1>3. G[0] = 0 /\ G[Len(t)] = 0 BY <1>2
<1>4. \A k \in 1 .. Len(a) : G[k] = G[k - 1] + a[k]
  <2>1. ASSUME NEW k \in 1 .. Len(t) PROVE G[k] = G[k - 1] + a[k]
    <3>1. k \in 0 .. Len(t) /\ k - 1 \in 0 .. Len(t) BY <1>2
    <3> QED BY <1>1, <3>1
  <2> QED BY <1>1, <2>1
<1> HIDE DEF G
<1>5. Offset(a) = G[Len(a)] BY <1>1, <1>3, <1>4, OffsetIs
<1> QED BY <1>1, <1>3, <1>5 DEF a

\* Each of the first n numbers once, and terms taken in that order.
IsOrder(p, n) ==
    /\ p \in [1 .. n -> 1 .. n]
    /\ \A k \in 1 .. n : \E l \in 1 .. n : \A m \in 1 .. n : p[m] = k <=> m = l
InOrder(u, t, p, n) == \A k \in 1 .. n : u[k] = t[p[k]]

\* A sum does not depend on the order of its terms.
LEMMA OffsetPermuted ==
  ASSUME NEW t \in Seq(Nat), NEW u \in Seq(Nat), NEW n \in Nat, n = Len(t), n = Len(u),
         NEW p, IsOrder(p, n), InOrder(u, t, p, n)
  PROVE  Offset(u) = Offset(t)
<1>1. /\ n = Len(t) /\ n = Len(u) /\ p \in [1 .. n -> 1 .. n]
      /\ \A k \in 1 .. n : u[k] = t[p[k]]
  BY DEF IsOrder, InOrder
<1>a. \A k \in 1 .. n : \E l \in 1 .. n : \A m \in 1 .. n : p[m] = k <=> m = l
  BY DEF IsOrder
<1>2. PICK G \in [0 .. n -> Nat] :
         /\ G[0] = 0 /\ \A k \in 1 .. n : G[k] = G[k - 1] + u[k]
         /\ Offset(u) = G[n]
  <2>1. \E G \in [0 .. Len(u) -> Nat] :
            /\ G[0] = 0 /\ \A k \in 1 .. Len(u) : G[k] = G[k - 1] + u[k]
            /\ Offset(u) = G[Len(u)]
    BY Sums
  <2>2. PICK l : l = Len(u) OBVIOUS
  <2> QED BY <1>1, <2>1, <2>2
<1> DEFINE P(j) == {p[m] : m \in 1 .. j}
           S == {j \in Nat : j <= n => G[j] = Offset(Kept(t, P(j)))}
<1>3. 0 \in S
  <2>1. P(0) = {} OBVIOUS
  <2> QED BY <1>2, <2>1, KeepNone
<1>4. ASSUME NEW j \in S PROVE j + 1 \in S
  <2>1. j \in Nat OBVIOUS
  <2>2. CASE j + 1 <= n
    <3>1. j + 1 \in 1 .. n /\ (j + 1) - 1 = j /\ j <= n BY <2>1, <2>2
    <3>2. G[j] = Offset(Kept(t, P(j))) BY <3>1
    <3>3. G[j + 1] = G[j] + t[p[j + 1]] BY <1>1, <1>2, <3>1
    <3>4. p[j + 1] \in 1 .. Len(t) BY <1>1, <3>1
    <3>5. p[j + 1] \notin P(j)
      <4> SUFFICES ASSUME NEW m \in 1 .. j, p[m] = p[j + 1] PROVE FALSE OBVIOUS
      <4>1. m \in 1 .. n /\ m # j + 1 BY <2>1, <3>1
      <4>2. PICK k \in 1 .. n : k = p[j + 1] BY <1>1, <3>4
      <4>3. PICK l \in 1 .. n : \A i \in 1 .. n : p[i] = k <=> i = l BY <1>a
      <4> QED BY <3>1, <4>1, <4>2, <4>3
    <3>6. P(j + 1) = P(j) \cup {p[j + 1]}
      <4>1. ASSUME NEW m \in 1 .. j + 1 PROVE p[m] \in P(j) \cup {p[j + 1]}
        <5>1. m \in 1 .. j \/ m = j + 1 BY <2>1
        <5> QED BY <5>1
      <4>2. ASSUME NEW m \in 1 .. j PROVE m \in 1 .. j + 1 BY <2>1
      <4>3. j + 1 \in 1 .. j + 1 BY <2>1
      <4>4. ASSUME NEW k \in P(j + 1) PROVE k \in P(j) \cup {p[j + 1]} BY <4>1
      <4>5. ASSUME NEW k \in P(j) \cup {p[j + 1]} PROVE k \in P(j + 1) BY <4>2, <4>3
      <4> HIDE DEF P
      <4> QED BY <4>4, <4>5
    <3> HIDE DEF P
    <3>a. PICK D, e : D = P(j) /\ e = p[j + 1] OBVIOUS
    <3>b. e \in 1 .. Len(t) /\ e \notin D BY <3>4, <3>5, <3>a
    <3>c. Offset(Kept(t, D \cup {e})) = Offset(Kept(t, D)) + t[e] 
      <4>1. t \in Seq(Nat) OBVIOUS
      <4> QED BY ONLY <4>1, <3>b, KeepOneMore
    <3>7. Offset(Kept(t, P(j + 1))) = Offset(Kept(t, P(j))) + t[p[j + 1]]
      BY <3>6, <3>a, <3>c, Zenon
    <3>8. G[j + 1] = Offset(Kept(t, P(j + 1))) BY <3>2, <3>3, <3>7
    <3> QED BY <2>1, <3>8
  <2>3. CASE ~(j + 1 <= n) BY <2>1, <2>3
  <2> QED BY <2>2, <2>3
<1>5. S \in SUBSET Nat OBVIOUS
<1>6. S = Nat
  <2> HIDE DEF S
  <2> QED BY <1>3, <1>4, <1>5, Induction
<1>7. G[n] = Offset(Kept(t, P(n)))
  <2> HIDE DEF P
  <2>1. n \in S BY <1>6
  <2>2. n <= n OBVIOUS
  <2> QED BY <2>1, <2>2
<1>8. P(n) = 1 .. n
  <2>1. ASSUME NEW k \in 1 .. n PROVE k \in P(n)
    <3>1. PICK l \in 1 .. n : p[l] = k BY <1>a
    <3> QED BY <3>1
  <2>2. ASSUME NEW k \in P(n) PROVE k \in 1 .. n
    <3>1. PICK m \in 1 .. n : k = p[m] OBVIOUS
    <3> QED BY <1>1, <3>1
  <2> HIDE DEF P
  <2> QED BY <2>1, <2>2
<1>9. Kept(t, 1 .. n) = t
  <2>1. n = Len(t) BY <1>1
  <2> QED BY ONLY t \in Seq(Nat), <2>1 DEF Kept
<1> QED BY <1>2, <1>7, <1>8, <1>9

\* One digit more, and one more place below.
LEMMA Digit ==
  ASSUME NEW q \in Nat, NEW d \in Positive, NEW N \in Positive, NEW c \in 0 .. d - 1
  PROVE  /\ q * d + c \in Nat /\ (q * d + c) % d = c
         /\ q * (d * N) + c * N = (q * d + c) * N
         /\ c * N \in Nat
         /\ \A r \in 0 .. N - 1 : c * N + r \in 0 .. d * N - 1
<1>1. N \in Nat /\ N >= 1 /\ d \in Nat /\ d >= 1 /\ c \in Nat /\ q \in Int BY DEF Positive
<1>2. (q * d + c) % d = c BY <1>1, DivisionIs
<1>3. q * d \in Nat /\ c * N \in Nat /\ d * N \in Nat BY <1>1, SMTT(30)
<1>4. q * (d * N) + c * N = (q * d + c) * N BY <1>1, SMTT(30)
<1>5. ASSUME NEW r \in 0 .. N - 1 PROVE c * N + r \in 0 .. d * N - 1
  <2>1. c \in Int /\ d \in Int /\ c < d BY <1>1
  <2>2. c * N + r < d * N BY <2>1, Multiples
  <2> DEFINE a == c * N  b == d * N
  <2>3. a \in Nat /\ b \in Nat /\ a + r < b BY <1>3, <2>2
  <2> HIDE DEF a, b
  <2>4. a + r \in 0 .. b - 1 BY <1>1, <2>3
  <2> QED BY <2>4 DEF a, b
<1>6. q * d + c \in Nat
  <2> DEFINE a == q * d
  <2>1. a \in Nat BY <1>3
  <2> HIDE DEF a
  <2>2. a + c \in Nat BY <1>1, <2>1
  <2> QED BY <2>2 DEF a
<1> QED BY <1>2, <1>3, <1>4, <1>5, <1>6

\* Coordinates in a shape, and what each of them adds to the cell.
AreCoordinates(c, s, n) == c \in [1 .. n -> Nat] /\ \A k \in 1 .. n : c[k] < s[k]
Strides(c, s, n) == [k \in 1 .. n |-> c[k] * Numel(s, k + 1)]

\* The cell at given coordinates.
LEMMA CellAt ==
  ASSUME NEW s \in Seq(Nat), Size0(s) > 0, NEW n \in Nat, n = Len(s), NEW c, AreCoordinates(c, s, n),
         NEW t, t = Strides(c, s, n)
  PROVE  /\ t \in Seq(Nat) /\ Len(t) = n
         /\ Offset(t) \in 0 .. Size0(s) - 1
         /\ \A k \in 1 .. n : Coordinate(s, k, Offset(t)) = c[k]
<1>1. /\ n = Len(s) /\ c \in [1 .. n -> Nat] /\ \A k \in 1 .. n : c[k] < s[k]
      /\ t = [k \in 1 .. n |-> c[k] * Numel(s, k + 1)]
  BY DEF AreCoordinates, Strides
<1>2. PICK N : N = [k \in 1 .. n + 1 |-> Numel(s, k)] OBVIOUS
<1>3. /\ \A k \in 1 .. n + 1 : N[k] \in Positive
      /\ N[n + 1] = 1 /\ N[1] = Size0(s)
  <2>1. n + 1 \in 1 .. n + 1 /\ 1 \in 1 .. n + 1 OBVIOUS
  <2>2. \A k \in 1 .. n + 1 : N[k] = Numel(s, k) BY <1>2
  <2> QED BY <1>1, <2>1, <2>2, NumelIs, NoEmptyDimension DEF Size0
<1>4. ASSUME NEW k \in 1 .. n
      PROVE  /\ k \in 1 .. n + 1 /\ k + 1 \in 1 .. n + 1 /\ k - 1 \in 0 .. n
             /\ N[k] = s[k] * N[k + 1] /\ N[k + 1] = Numel(s, k + 1)
             /\ s[k] \in Positive /\ c[k] \in 0 .. s[k] - 1 /\ t[k] = c[k] * N[k + 1]
  <2>1. k \in 1 .. n + 1 /\ k + 1 \in 1 .. n + 1 /\ k - 1 \in 0 .. n BY <1>1
  <2>2. N[k] = Numel(s, k) /\ N[k + 1] = Numel(s, k + 1) BY <1>2, <2>1
  <2>3. N[k] = s[k] * N[k + 1] BY <1>1, <2>2, NumelIs
  <2>4. s[k] \in Positive BY <1>1, NoEmptyDimension
  <2>5. c[k] \in 0 .. s[k] - 1
    <3>1. c[k] \in Nat /\ c[k] < s[k] BY <1>1
    <3>2. s[k] \in Nat BY <2>4 DEF Positive
    <3> QED BY <3>1, <3>2
  <2> QED BY <1>1, <2>1, <2>2, <2>3, <2>4, <2>5
<1>5. t \in Seq(Nat) /\ Len(t) = n
  <2>1. ASSUME NEW k \in 1 .. n PROVE t[k] \in Nat
    <3>1. PICK d, M \in Positive : d = s[k] /\ M = N[k + 1] BY <1>3, <1>4
    <3>2. c[k] * M \in Nat
      <4>1. 0 \in Nat /\ c[k] \in 0 .. d - 1 BY <1>4, <3>1
      <4> QED BY <4>1, Digit
    <3> QED BY <1>4, <3>1, <3>2
  <2>2. t \in [1 .. n -> Nat] BY <1>1, <2>1
  <2> QED BY <2>2, TableIsSeq
<1>6. PICK f \in [0 .. n -> Nat] :
         /\ f[0] = 0 /\ \A k \in 1 .. n : f[k] = f[k - 1] + t[k]
         /\ Offset(t) = f[n]
  <2>1. \E f \in [0 .. Len(t) -> Nat] :
            /\ f[0] = 0 /\ \A k \in 1 .. Len(t) : f[k] = f[k - 1] + t[k]
            /\ Offset(t) = f[Len(t)]
    BY <1>5, Sums
  <2> QED BY <1>5, <2>1
<1> DEFINE Above(m, q) == f[m] = q * N[m + 1] /\ (m > 0 => q % s[m] = c[m])
           A == {m \in Nat : m <= n => \E q \in Nat : Above(m, q)}
           B == {j \in Nat : j <= n => f[n] - f[n - j] \in 0 .. N[n - j + 1] - 1}
<1>7. 0 \in A
  <2>1. 1 \in 1 .. n + 1 /\ 0 + 1 = 1 OBVIOUS
  <2>2. PICK M \in Positive : M = N[1] BY <1>3, <2>1
  <2>3. 0 * M = 0 BY SMTT(30) DEF Positive
  <2>4. Above(0, 0) BY <1>6, <2>1, <2>2, <2>3
  <2> QED BY <2>4
<1>8. ASSUME NEW m \in A PROVE m + 1 \in A
  <2>1. m \in Nat OBVIOUS
  <2>2. CASE m + 1 <= n
    <3>1. PICK k \in 1 .. n : k = m + 1 /\ k - 1 = m /\ m <= n
      <4>1. m + 1 \in 1 .. n /\ (m + 1) - 1 = m /\ m <= n BY <2>1, <2>2
      <4> QED BY <4>1
    <3>2. PICK q \in Nat : Above(m, q) BY <3>1
    <3>3. PICK d, M \in Positive : d = s[k] /\ M = N[k + 1] BY <1>3, <1>4
    <3>4. N[k] = d * M /\ c[k] \in 0 .. d - 1 /\ t[k] = c[k] * M BY <1>4, <3>3
    <3>5. PICK e \in Nat : e = q * d + c[k] /\ e % d = c[k] /\ q * (d * M) + c[k] * M = e * M
      BY <3>4, Digit
    <3>6. f[k] = f[k - 1] + t[k] BY <1>6
    <3>7. f[k - 1] = q * (d * M) BY <3>1, <3>2, <3>4
    <3>8. f[k] = e * M BY <3>4, <3>5, <3>6, <3>7
    <3>9. Above(k, e) BY <3>3, <3>5, <3>8
    <3> HIDE DEF Above
    <3> QED BY <2>1, <3>1, <3>9
  <2>3. CASE ~(m + 1 <= n) BY <2>1, <2>3
  <2> QED BY <2>2, <2>3
<1>9. 0 \in B
  <2>1. n - 0 = n /\ n \in 0 .. n OBVIOUS
  <2>2. f[n] \in Nat BY <2>1
  <2>3. f[n] - f[n] = 0 BY <2>2
  <2> QED BY <1>3, <2>1, <2>3
<1>10. ASSUME NEW j \in B PROVE j + 1 \in B
  <2>1. j \in Nat OBVIOUS
  <2>2. CASE j + 1 <= n
    <3>1. PICK k \in 1 .. n : k = n - j /\ k - 1 = n - (j + 1) /\ j <= n
      <4>1. n - j \in 1 .. n /\ (n - j) - 1 = n - (j + 1) /\ j <= n BY <2>1, <2>2
      <4> QED BY <4>1
    <3>2. f[n] - f[k] \in 0 .. N[k + 1] - 1 BY <3>1
    <3>3. PICK d, M \in Positive : d = s[k] /\ M = N[k + 1] BY <1>3, <1>4
    <3>4. N[k] = d * M /\ c[k] \in 0 .. d - 1 /\ t[k] = c[k] * M BY <1>4, <3>3
    <3>5. f[k] = f[k - 1] + t[k] BY <1>6
    <3>6. f[k] \in Nat /\ f[k - 1] \in Nat /\ f[n] \in Nat
      <4>1. k \in 0 .. n /\ k - 1 \in 0 .. n /\ n \in 0 .. n OBVIOUS
      <4> QED BY <4>1
    <3>7. PICK r \in 0 .. M - 1 : r = f[n] - f[k] BY <3>2, <3>3
    <3>8. c[k] * M + r \in 0 .. d * M - 1 /\ c[k] * M \in Nat
      <4>1. 0 \in Nat OBVIOUS
      <4> QED BY <3>4, <4>1, Digit
    <3>9. f[n] - f[k - 1] = t[k] + r
      <4>1. PICK x \in Nat : x = t[k] BY <3>4, <3>8
      <4>2. PICK a, b, e \in Nat : a = f[k] /\ b = f[k - 1] /\ e = f[n] BY <3>6
      <4>3. a = b + x /\ r = e - a /\ r \in Int BY <3>5, <3>7, <4>1, <4>2
      <4>4. e - b = x + r
        <5>1. x \in Nat /\ b \in Nat /\ e \in Nat OBVIOUS
        <5> QED BY ONLY <4>3, <5>1
      <4> QED BY <4>1, <4>2, <4>4
    <3>10. f[n] - f[k - 1] \in 0 .. N[k] - 1 BY <3>4, <3>8, <3>9
    <3>11. n - (j + 1) + 1 = k BY <3>1
    <3> QED BY <2>1, <3>1, <3>10, <3>11
  <2>3. CASE ~(j + 1 <= n) BY <2>1, <2>3
  <2> QED BY <2>2, <2>3
<1>11. A \in SUBSET Nat /\ B \in SUBSET Nat OBVIOUS
<1>12. A = Nat /\ B = Nat
  <2> HIDE DEF A, B
  <2> QED BY <1>7, <1>8, <1>9, <1>10, <1>11, Induction
<1>13. ASSUME NEW m \in 0 .. n
       PROVE  /\ \E q \in Nat : Above(m, q)
              /\ f[n] - f[m] \in 0 .. N[m + 1] - 1
  <2>1. m \in Nat /\ m <= n /\ n - m \in Nat /\ n - m <= n /\ n - (n - m) = m OBVIOUS
  <2>2. m \in A /\ n - m \in B
    <3> HIDE DEF A, B
    <3> QED BY <1>12, <2>1
  <2>3. \E q \in Nat : Above(m, q) BY <2>1, <2>2
  <2>4. f[n] - f[n - (n - m)] \in 0 .. N[n - (n - m) + 1] - 1
    <3> HIDE DEF Above
    <3> QED BY <2>1, <2>2
  <2> QED BY <2>1, <2>3, <2>4
<1>14. Offset(t) \in 0 .. Size0(s) - 1
  <2>1. 0 \in 0 .. n /\ n \in 0 .. n OBVIOUS
  <2>2. f[n] \in Nat BY <2>1
  <2>3. f[n] - f[0] \in 0 .. N[0 + 1] - 1 BY <1>13, <2>1
  <2> QED BY <1>3, <1>6, <2>2, <2>3
<1>15. ASSUME NEW k \in 1 .. n PROVE Coordinate(s, k, Offset(t)) = c[k]
  <2>1. k \in 0 .. n /\ k > 0 /\ n \in 0 .. n OBVIOUS
  <2>2. PICK q \in Nat : Above(k, q) BY <1>13, <2>1
  <2>3. PICK M \in Positive : M = N[k + 1] /\ M = Numel(s, k + 1) BY <1>3, <1>4
  <2>4. f[k] = q * M /\ q % s[k] = c[k] BY <2>1, <2>2, <2>3
  <2>5. f[k] \in Nat /\ f[n] \in Nat BY <2>1
  <2>6. PICK r \in 0 .. M - 1 : r = f[n] - f[k] BY <1>13, <2>1, <2>3
  <2>7. f[n] = q * M + r
    <3>1. M \in Nat BY <2>3 DEF Positive
    <3>2. f[n] = f[k] + r BY <2>5, <2>6, <3>1
    <3> QED BY <2>4, <3>2
  <2>8. q \in Int OBVIOUS
  <2>9. f[n] \div M = q BY <2>7, <2>8, DivisionIs
  <2> QED BY <1>6, <2>3, <2>4, <2>9 DEF Coordinate
<1> QED BY <1>1, <1>5, <1>14, <1>15
-----------------------------------------------------------------------------
(* The operators, one after the other: what the kernels compute for a cell *)
(* is what its coordinates call for.                                       *)

\* The quotient by N is below a when x is below a * N.
LEMMA Quotient ==
  ASSUME NEW x \in Nat, NEW N \in Positive, NEW a \in Nat, x < a * N
  PROVE  x \div N \in 0 .. a - 1 /\ (x \div N) % a = x \div N
<1>1. N \in Nat /\ N >= 1 BY DEF Positive
<1>2. PICK q \in Nat, r \in 0 .. N - 1 : q = x \div N /\ r = x % N /\ x = q * N + r
  BY Division
<1>3. q < a
  <2>1. q \in Int /\ a \in Int /\ q * N + r < a * N BY <1>2
  <2> QED BY <2>1, Multiples
<1>4. a \in Positive /\ q \in 0 .. a - 1 BY <1>2, <1>3 DEF Positive
<1>5. 0 * a + q = q
  <2>1. 0 * a = 0 BY SMTT(30)
  <2> QED BY <2>1
<1>6. q % a = q
  <2>1. 0 \in Int OBVIOUS
  <2> QED BY <1>4, <1>5, <2>1, DivisionIs
<1> QED BY <1>2, <1>4, <1>6

LEMMA ByOne ==
  ASSUME NEW x \in Nat
  PROVE  x \div 1 = x /\ x % 1 = 0 /\ x * 1 = x
BY SMTT(30)

\* A matrix, and a stack of matrices.
LEMMA TwoCoordinates ==
  ASSUME NEW a \in Nat, NEW b \in Nat, NEW x \in 0 .. a * b - 1
  PROVE  /\ b \in Positive
         /\ CoordinateIn(<<a, b>>, x)[1] = x \div b
         /\ CoordinateIn(<<a, b>>, x)[2] = x % b
<1> DEFINE s == <<a, b>>
<1>1. s \in Seq(Nat) /\ Len(s) = 2 /\ s[1] = a /\ s[2] = b /\ DOMAIN s = 1 .. 2 OBVIOUS
<1> HIDE DEF s
<1>2. Numel(s, 3) = 1 /\ Numel(s, 2) = b
  <2>1. 2 \in 1 .. Len(s) /\ Len(s) + 1 = 3 /\ 2 + 1 = 3 BY <1>1
  <2>2. Numel(s, 3) = 1 BY <2>1, <1>1, NumelIs
  <2>3. Numel(s, 2) = s[2] * Numel(s, 3) BY <2>1, <1>1, NumelIs
  <2> QED BY <1>1, <2>2, <2>3, ByOne
<1>3. a * b \in Nat /\ x \in Nat /\ x < a * b
  <2>1. a * b \in Nat BY SMTT(30)
  <2> QED BY <2>1
<1>4. b \in Positive
  <2>1. b # 0
    <3>1. a * 0 = 0 BY SMTT(30)
    <3> QED BY <1>3, <3>1
  <2> QED BY <2>1 DEF Positive
<1>5. Coordinate(s, 1, x) = x \div b
  <2>1. (x \div b) % a = x \div b BY <1>3, <1>4, Quotient
  <2>2. 1 + 1 = 2 OBVIOUS
  <2> QED BY <1>1, <1>2, <2>1, <2>2 DEF Coordinate
<1>6. Coordinate(s, 2, x) = x % b
  <2>1. 2 + 1 = 3 /\ x \div 1 = x BY <1>3, ByOne
  <2> QED BY <1>1, <1>2, <2>1 DEF Coordinate
<1>7. CoordinateIn(s, x)[1] = Coordinate(s, 1, x) /\ CoordinateIn(s, x)[2] = Coordinate(s, 2, x)
  <2>1. 1 \in DOMAIN s /\ 2 \in DOMAIN s BY <1>1
  <2> QED BY <2>1 DEF CoordinateIn
<1> QED BY <1>4, <1>5, <1>6, <1>7 DEF s

\* The coordinates in a shape of three dimensions.
LEMMA ThreeCoordinates ==
  ASSUME NEW a \in Nat, NEW b \in Nat, NEW d \in Nat, NEW x \in 0 .. a * b * d - 1
  PROVE  /\ a \in Positive /\ b \in Positive /\ d \in Positive
         /\ CoordinateIn(<<a, b, d>>, x)[1] = x \div (b * d)
         /\ CoordinateIn(<<a, b, d>>, x)[2] = (x \div d) % b
         /\ CoordinateIn(<<a, b, d>>, x)[3] = x % d
<1> DEFINE s == <<a, b, d>>
<1>1. /\ s \in Seq(Nat) /\ Len(s) = 3 /\ s[1] = a /\ s[2] = b /\ s[3] = d /\ DOMAIN s = 1 .. 3
  OBVIOUS
<1> HIDE DEF s
<1>2. Numel(s, 4) = 1 /\ Numel(s, 3) = d /\ Numel(s, 2) = b * d
  <2>1. 2 \in 1 .. Len(s) /\ 3 \in 1 .. Len(s) /\ Len(s) + 1 = 4 /\ 2 + 1 = 3 /\ 3 + 1 = 4
    BY <1>1
  <2>2. Numel(s, 4) = 1 BY <2>1, <1>1, NumelIs
  <2>3. Numel(s, 3) = s[3] * Numel(s, 4) BY <2>1, <1>1, NumelIs
  <2>4. Numel(s, 3) = d BY <1>1, <2>2, <2>3, ByOne
  <2>5. Numel(s, 2) = s[2] * Numel(s, 3) BY <2>1, <1>1, NumelIs
  <2> QED BY <1>1, <2>2, <2>4, <2>5
<1>3. a \in Positive /\ b \in Positive /\ d \in Positive BY NotEmpty
<1>4. PICK N \in Positive : N = b * d BY <1>3, Nested
<1>5. x \in Nat /\ x < a * N
  <2>1. a * (b * d) = a * b * d BY SMTT(30)
  <2>2. N \in Nat BY <1>4 DEF Positive
  <2>3. a * N \in Nat BY <2>2, SMTT(30)
  <2> QED BY <1>4, <2>1, <2>3
<1>6. Coordinate(s, 1, x) = x \div N
  <2>1. (x \div N) % a = x \div N BY <1>5, Quotient
  <2>2. 1 + 1 = 2 OBVIOUS
  <2> QED BY <1>1, <1>2, <1>4, <2>1, <2>2 DEF Coordinate
<1>7. Coordinate(s, 2, x) = (x \div d) % b
  <2>1. 2 + 1 = 3 OBVIOUS
  <2> QED BY <1>1, <1>2, <2>1 DEF Coordinate
<1>8. Coordinate(s, 3, x) = x % d
  <2>1. 3 + 1 = 4 /\ x \div 1 = x BY <1>5, ByOne
  <2> QED BY <1>1, <1>2, <2>1 DEF Coordinate
<1>9. \A k \in 1 .. 3 : CoordinateIn(s, x)[k] = Coordinate(s, k, x) BY <1>1 DEF CoordinateIn
<1>10. 1 \in 1 .. 3 /\ 2 \in 1 .. 3 /\ 3 \in 1 .. 3 OBVIOUS
<1> QED BY <1>3, <1>4, <1>6, <1>7, <1>8, <1>9, <1>10 DEF s

\* gather_f32 and gather_k.
LEMMA GatherMeaning ==
  ASSUME NEW o \in Operations, o.op = "gather", NEW x \in 0 .. OutputSize(o) - 1
  PROVE  GatherCell(o, x) = Meaning(o, x)
<1>1. Len(o.ids) \in Nat /\ o.d \in Nat
  <2>1. o.ids \in Seq(Nat) /\ o.d \in Nat BY OperationsAssumption
  <2> QED BY <2>1
<1>2. x \in 0 .. Len(o.ids) * o.d - 1 BY DEF OutputSize
<1>3. PICK c : c = CoordinateIn(<<Len(o.ids), o.d>>, x) OBVIOUS
<1>4. Meaning(o, x) = One(o.ids[c[1] + 1] * o.d + c[2]) BY <1>3 DEF Meaning, RowKernels
<1>5. c[1] = x \div o.d /\ c[2] = x % o.d BY <1>1, <1>2, <1>3, TwoCoordinates
<1> QED BY <1>4, <1>5 DEF GatherCell

\* flash_attention_f32 and flash_k.
LEMMA FlashMeaning ==
  ASSUME NEW o \in Operations, o.op = "flash", NEW x \in 0 .. OutputSize(o) - 1
  PROVE  /\ o.h \in Positive /\ o.s \in Positive /\ o.d \in Positive
         /\ FlashCell(o, x) = Meaning(o, x)
<1>1. o.h \in Nat /\ o.s \in Nat /\ o.d \in Nat BY OperationsAssumption
<1>2. x \in 0 .. o.h * o.s * o.d - 1 BY DEF OutputSize
<1>3. PICK c : c = CoordinateIn(<<o.h, o.s, o.d>>, x) OBVIOUS
<1>4. Meaning(o, x) = AttentionAt(c[1], c[2], c[3], o.s, o.d) BY <1>3 DEF Meaning, RowKernels
<1>5. /\ o.h \in Positive /\ o.s \in Positive /\ o.d \in Positive
      /\ c[1] = x \div (o.s * o.d) /\ c[2] = (x \div o.d) % o.s /\ c[3] = x % o.d
  BY <1>1, <1>2, <1>3, ThreeCoordinates
<1> QED BY <1>4, <1>5 DEF FlashCell

\* A shape holds whole rows.
LEMMA WholeRows ==
  ASSUME NEW s \in Seq(Nat), Len(s) > 0
  PROVE  /\ Last(s) \in Nat /\ Numel(s, Len(s) + 1) = 1 /\ Numel(s, Len(s)) = Last(s)
         /\ \E M \in Nat : Size0(s) = M * Last(s)
<1>1. PICK n \in Nat : n = Len(s) /\ n > 0 /\ n \in 1 .. Len(s) OBVIOUS
<1>2. PICK d \in Nat : d = Last(s) /\ d = s[n]
  <2>1. s[n] \in Nat BY <1>1
  <2> QED BY <1>1, <2>1 DEF Last
<1>3. Numel(s, n + 1) = 1 BY <1>1, NumelIs
<1>4. Numel(s, n) = d
  <2>1. Numel(s, n) = d * Numel(s, n + 1) BY <1>1, <1>2, NumelIs
  <2> QED BY <1>3, <2>1, ByOne
<1> DEFINE S == {j \in Nat : j < n => \E M \in Nat : Numel(s, n - j) = M * d}
<1>5. 0 \in S
  <2>1. n - 0 = n /\ 1 * d = d OBVIOUS
  <2>2. Numel(s, n - 0) = 1 * d BY <1>4, <2>1
  <2> QED BY <2>2
<1>6. ASSUME NEW j \in S PROVE j + 1 \in S
  <2>1. j \in Nat OBVIOUS
  <2>2. CASE j + 1 < n
    <3>1. PICK k \in 1 .. n : k = n - (j + 1) /\ k + 1 = n - j /\ j < n
      <4>1. n - (j + 1) \in 1 .. n /\ n - (j + 1) + 1 = n - j /\ j < n BY <2>1, <2>2
      <4> QED BY <4>1
    <3>2. PICK M \in Nat : Numel(s, k + 1) = M * d BY <3>1
    <3>3. PICK e \in Nat : e = s[k]
      <4>1. s[k] \in Nat BY <1>1
      <4> QED BY <4>1
    <3>4. Numel(s, k) = e * (M * d) BY <1>1, <3>2, <3>3, NumelIs
    <3>5. e * M \in Nat /\ e * (M * d) = (e * M) * d BY SMTT(30)
    <3>6. \E L \in Nat : Numel(s, n - (j + 1)) = L * d BY <3>1, <3>4, <3>5, Zenon
    <3>7. j + 1 \in Nat BY <2>1
    <3> QED BY <3>6, <3>7, Zenon
  <2>3. CASE ~(j + 1 < n) BY <2>1, <2>3
  <2> QED BY <2>2, <2>3
<1>7. S \in SUBSET Nat OBVIOUS
<1>8. S = Nat
  <2> HIDE DEF S
  <2> QED BY <1>5, <1>6, <1>7, Induction
<1>9. PICK j \in Nat : j < n /\ n - j = 1
  <2>1. n - 1 \in Nat /\ n - 1 < n /\ n - (n - 1) = 1 BY <1>1
  <2> QED BY <2>1
<1>10. \E M \in Nat : Numel(s, 1) = M * d
  <2>1. j \in S
    <3> HIDE DEF S
    <3> QED BY <1>8
  <2> QED BY <1>9, <2>1
<1> QED BY <1>1, <1>2, <1>3, <1>4, <1>10 DEF Size0

\* Element j of row r, as the kernels of a row compute it.
RowValue(o, r, j) ==
    LET n == Last(o.shape)
        valid == IF o.op = "causal" THEN (r % o.shape[Len(o.shape) - 1]) + 1 ELSE n
    IN  IF j >= valid THEN Masked
        ELSE IF o.op = "layernorm" THEN LayerNormAt(r * n, n, j)
        ELSE SoftmaxAt(r * n, valid, j)

\* A row kernel by the row and the place in it.
LEMMA RowMeaning ==
  ASSUME NEW o \in Operations, o.op \in RowKernels, NEW x \in 0 .. OutputSize(o) - 1
  PROVE  /\ Last(o.shape) \in Positive /\ x \in Nat
         /\ Meaning(o, x) = RowValue(o, x \div Last(o.shape), x % Last(o.shape))
<1>1. PICK s, l : s = o.shape /\ l = Len(s) OBVIOUS
<1>2. s \in Seq(Nat) /\ l \in Nat /\ l > 0 /\ l \in 1 .. l
  <2>1. s \in Seq(Nat) /\ Len(s) > 0 BY <1>1, OperationsAssumption
  <2> QED BY <1>1, <2>1
<1>3. OutputSize(o) = Size0(s) BY <1>1 DEF OutputSize, RowKernels
<1>4. x \in Nat /\ Size0(s) > 0
  <2>1. 1 \in 1 .. Len(s) + 1 BY <1>1, <1>2
  <2>2. Size0(s) \in Nat BY <1>2, <2>1, NumelIs DEF Size0
  <2> QED BY <1>3, <2>2
<1>5. PICK n \in Positive : n = Last(s) /\ n = s[l]
  <2>1. s[l] \in Positive BY <1>1, <1>2, <1>4, NoEmptyDimension
  <2> QED BY <1>1, <2>1 DEF Last
<1>6. Numel(s, l + 1) = 1 /\ Numel(s, l) = n BY <1>1, <1>2, <1>5, WholeRows
<1>7. PICK r \in Nat, j \in 0 .. n - 1 : r = x \div n /\ j = x % n /\ x = r * n + j
  BY <1>4, Division
<1>8. Coordinate(s, l, x) = j BY <1>4, <1>5, <1>6, <1>7, ByOne DEF Coordinate
<1>9. o.op = "causal" => Coordinate(s, l - 1, x) = r % s[l - 1]
  <2>1. (l - 1) + 1 = l BY <1>2
  <2> QED BY <1>6, <1>7, <2>1 DEF Coordinate
<1>10. x - j = r * n
  <2>1. n \in Nat BY DEF Positive
  <2>2. r * n \in Nat BY <2>1, SMTT(30)
  <2> DEFINE a == r * n
  <2>3. a \in Nat /\ x = a + j /\ j \in Int BY <1>7, <2>2
  <2> HIDE DEF a
  <2>4. x - j = a BY <2>3
  <2> QED BY <2>4 DEF a
<1>11. PICK seen : seen = IF o.op = "causal" THEN (r % s[l - 1]) + 1 ELSE n OBVIOUS
<1>12. Meaning(o, x) = IF j >= seen THEN Masked
                       ELSE IF o.op = "layernorm" THEN LayerNormAt(x - j, seen, j)
                       ELSE SoftmaxAt(x - j, seen, j)
  <2>1. o.op \notin {"map", "add", "transpose", "gather", "flash"} BY DEF RowKernels
  <2>2. Meaning(o, x) =
            LET k == Coordinate(o.shape, Len(o.shape), x)
                h == IF o.op = "causal" THEN Coordinate(o.shape, Len(o.shape) - 1, x) + 1
                     ELSE o.shape[Len(o.shape)]
            IN  IF k >= h THEN Masked
                ELSE IF o.op = "layernorm" THEN LayerNormAt(x - k, h, k)
                ELSE SoftmaxAt(x - k, h, k)
    BY <2>1 DEF Meaning
  <2>3. seen = IF o.op = "causal" THEN Coordinate(o.shape, Len(o.shape) - 1, x) + 1
               ELSE o.shape[Len(o.shape)]
    BY <1>1, <1>5, <1>9, <1>11
  <2> QED BY <1>1, <1>8, <2>2, <2>3
<1>13. RowValue(o, r, j) = IF j >= seen THEN Masked
                           ELSE IF o.op = "layernorm" THEN LayerNormAt(r * n, n, j)
                           ELSE SoftmaxAt(r * n, seen, j)
  BY <1>1, <1>5, <1>11 DEF RowValue
<1>14. o.op = "layernorm" => seen = n BY <1>11
<1> QED BY <1>1, <1>4, <1>5, <1>7, <1>10, <1>12, <1>13, <1>14

\* softmax_f32, causal_softmax_f32 and layernorm_f32.
LEMMA HostRow ==
  ASSUME NEW o \in Operations, o.op \in RowKernels, NEW x \in 0 .. OutputSize(o) - 1
  PROVE  HostCell(o, x) = Meaning(o, x)
<1>1. PICK n \in Positive : n = Last(o.shape) /\ x \in Nat
                            /\ Meaning(o, x) = RowValue(o, x \div n, x % n)
  BY RowMeaning
<1>2. PICK r \in Nat, j \in 0 .. n - 1 : r = x \div n /\ j = x % n BY <1>1, Division
<1>3. ~(j >= n)
  <2>1. n \in Nat BY DEF Positive
  <2> QED BY <2>1
<1>4. CASE o.op = "softmax"
  <2>1. HostCell(o, x) = SoftmaxAt(r * n, n, j) BY <1>1, <1>2, <1>4 DEF HostCell, SoftmaxCell
  <2>2. RowValue(o, r, j) = SoftmaxAt(r * n, n, j) BY <1>1, <1>3, <1>4 DEF RowValue
  <2> QED BY <1>1, <1>2, <2>1, <2>2
<1>5. CASE o.op = "layernorm"
  <2>1. HostCell(o, x) = LayerNormAt(r * n, n, j) BY <1>1, <1>2, <1>5 DEF HostCell, LayerNormCell
  <2>2. RowValue(o, r, j) = LayerNormAt(r * n, n, j) BY <1>1, <1>3, <1>5 DEF RowValue
  <2> QED BY <1>1, <1>2, <2>1, <2>2
<1>6. CASE o.op = "causal"
  <2>1. o.shape[Len(o.shape) - 1] = n BY <1>1, <1>6, OperationsAssumption
  <2>2. PICK q \in 0 .. n - 1 : q = r % n
    <3>1. r \in Int OBVIOUS
    <3> QED BY <3>1, Division
  <2>3. HostCell(o, x) = IF j < q + 1 THEN SoftmaxAt(r * n, q + 1, j) ELSE Masked
    BY <1>1, <1>2, <1>6, <2>2 DEF HostCell, CausalCell
  <2>4. RowValue(o, r, j) = IF j >= q + 1 THEN Masked ELSE SoftmaxAt(r * n, q + 1, j)
    BY <1>1, <1>6, <2>1, <2>2 DEF RowValue
  <2>5. j < q + 1 <=> ~(j >= q + 1) OBVIOUS
  <2> QED BY <1>1, <1>2, <2>3, <2>4, <2>5
<1> QED BY <1>4, <1>5, <1>6 DEF RowKernels

\* The strides computed for the device are those of the host.
IsStride(f, s) == f = [x \in 1 .. Len(s) |-> IF x = Len(s) THEN 1 ELSE f[x + 1] * s[x + 1]]

\* The strides of the device are the numbers of elements from a dimension on.
LEMMA StrideIs ==
  ASSUME NEW s \in Seq(Nat), NEW k \in 1 .. Len(s)
  PROVE  DeviceStride(s, k) = Numel(s, k + 1)
<1> DEFINE f == CHOOSE g : IsStride(g, s)
           G == [x \in 1 .. Len(s) |-> Numel(s, x + 1)]
<1>1. PICK n \in Nat : n = Len(s) OBVIOUS
<1>2. DeviceStride(s, k) = f[k] BY DEF DeviceStride, IsStride
<1>3. ASSUME NEW x \in 1 .. n
      PROVE  /\ x = n => Numel(s, x + 1) = 1
             /\ x # n => x + 1 \in 1 .. n /\ Numel(s, x + 1) = Numel(s, (x + 1) + 1) * s[x + 1]
  <2>1. x = n => Numel(s, x + 1) = 1 BY <1>1, NumelIs
  <2>2. ASSUME x # n
        PROVE x + 1 \in 1 .. n /\ Numel(s, x + 1) = Numel(s, (x + 1) + 1) * s[x + 1]
    <3>1. x + 1 \in 1 .. n BY <2>2
    <3>2. Numel(s, x + 1) = s[x + 1] * Numel(s, (x + 1) + 1) BY <1>1, <3>1, NumelIs
    <3>3. (x + 1) + 1 \in 1 .. Len(s) + 1 BY <1>1, <3>1
    <3>4. s[x + 1] \in Nat BY <1>1, <3>1
    <3>5. PICK a, b \in Nat : a = s[x + 1] /\ b = Numel(s, (x + 1) + 1) BY <3>3, <3>4, NumelIs
    <3>6. a * b = b * a BY SMTT(30)
    <3> QED BY <3>1, <3>2, <3>5, <3>6
  <2> QED BY <2>1, <2>2
<1>4. IsStride(G, s)
  <2>1. ASSUME NEW x \in 1 .. n PROVE G[x] = IF x = n THEN 1 ELSE G[x + 1] * s[x + 1]
    <3>1. G[x] = Numel(s, x + 1) BY <1>1
    <3>2. CASE x = n BY <1>3, <3>1, <3>2
    <3>3. CASE x # n
      <4>1. x + 1 \in 1 .. n /\ Numel(s, x + 1) = Numel(s, (x + 1) + 1) * s[x + 1]
        BY <1>3, <3>3
      <4>2. G[x + 1] = Numel(s, (x + 1) + 1) BY <1>1, <4>1
      <4> QED BY <3>1, <3>3, <4>1, <4>2
    <3> QED BY <3>2, <3>3
  <2>2. G = [x \in 1 .. n |-> G[x]] BY <1>1
  <2> HIDE DEF G
  <2> QED BY <1>1, <2>1, <2>2 DEF IsStride
<1>5. IsStride(f, s)
  <2> HIDE DEF G
  <2> QED BY <1>4
<1>6. \A x \in 1 .. n : G[x] = Numel(s, x + 1) BY <1>1
<1> HIDE DEF f, G
<1>7. ASSUME NEW x \in 1 .. n
      PROVE  /\ f[x] = IF x = n THEN 1 ELSE f[x + 1] * s[x + 1]
             /\ G[x] = IF x = n THEN 1 ELSE G[x + 1] * s[x + 1]
  BY <1>1, <1>4, <1>5 DEF IsStride
<1> DEFINE S == {j \in Nat : j < n => f[n - j] = G[n - j]}
<1>8. 0 \in S
  <2> SUFFICES ASSUME 0 < n PROVE f[n - 0] = G[n - 0] OBVIOUS
  <2>1. n \in 1 .. n /\ n - 0 = n OBVIOUS
  <2> QED BY <1>7, <2>1
<1>9. ASSUME NEW j \in S PROVE j + 1 \in S
  <2>1. j \in Nat OBVIOUS
  <2>2. CASE j + 1 < n
    <3>1. PICK x \in 1 .. n : x = n - (j + 1) /\ x + 1 = n - j /\ j < n /\ x # n
      <4>1. n - (j + 1) \in 1 .. n /\ n - (j + 1) + 1 = n - j /\ j < n /\ n - (j + 1) # n
        BY <2>1, <2>2
      <4> QED BY <4>1
    <3>2. f[x + 1] = G[x + 1] BY <3>1
    <3>3. f[x] = f[x + 1] * s[x + 1] /\ G[x] = G[x + 1] * s[x + 1] BY <1>7, <3>1
    <3>4. f[x] = G[x] BY <3>2, <3>3, Zenon
    <3> QED BY <2>1, <3>1, <3>4
  <2>3. CASE ~(j + 1 < n) BY <2>1, <2>3
  <2> QED BY <2>2, <2>3
<1>10. S \in SUBSET Nat OBVIOUS
<1>11. S = Nat
  <2> HIDE DEF S
  <2> QED BY <1>8, <1>9, <1>10, Induction
<1>12. PICK j \in Nat : j < n /\ n - j = k
  <2>1. n - k \in Nat /\ n - k < n /\ n - (n - k) = k BY <1>1
  <2> QED BY <2>1
<1>13. f[k] = G[k]
  <2>1. j \in S
    <3> HIDE DEF S
    <3> QED BY <1>11
  <2> QED BY <1>12, <2>1
<1> QED BY <1>1, <1>2, <1>6, <1>13

\* A shape without empty dimensions has elements.
LEMMA HasElements ==
  ASSUME NEW s \in Seq(Nat), \A k \in 1 .. Len(s) : s[k] \in Positive
  PROVE  Size0(s) > 0
<1>1. PICK n \in Nat : n = Len(s) OBVIOUS
<1> DEFINE S == {j \in Nat : j <= n => Numel(s, n + 1 - j) \in Positive}
<1>2. 0 \in S
  <2>1. n + 1 - 0 = n + 1 OBVIOUS
  <2>2. Numel(s, n + 1) = 1 BY <1>1, NumelIs
  <2> QED BY <2>1, <2>2 DEF Positive
<1>3. ASSUME NEW j \in S PROVE j + 1 \in S
  <2>1. j \in Nat OBVIOUS
  <2>2. CASE j + 1 <= n
    <3>1. PICK k \in 1 .. n : k = n + 1 - (j + 1) /\ k + 1 = n + 1 - j /\ j <= n
      <4>1. n + 1 - (j + 1) \in 1 .. n /\ n + 1 - (j + 1) + 1 = n + 1 - j /\ j <= n
        BY <2>1, <2>2
      <4> QED BY <4>1
    <3>2. PICK d, N \in Positive : d = s[k] /\ N = Numel(s, k + 1) BY <1>1, <3>1
    <3>3. Numel(s, k) = d * N BY <1>1, <3>2, NumelIs
    <3>4. d * N \in Positive
      <4>1. 0 \in Nat OBVIOUS
      <4> QED BY <4>1, Nested
    <3> QED BY <2>1, <3>1, <3>3, <3>4
  <2>3. CASE ~(j + 1 <= n) BY <2>1, <2>3
  <2> QED BY <2>2, <2>3
<1>4. S \in SUBSET Nat OBVIOUS
<1>5. S = Nat
  <2> HIDE DEF S
  <2> QED BY <1>2, <1>3, <1>4, Induction
<1>6. n \in S
  <2> HIDE DEF S
  <2> QED BY <1>5
<1>7. n <= n /\ n + 1 - n = 1 OBVIOUS
<1>8. Size0(s) \in Positive BY <1>6, <1>7 DEF Size0
<1> QED BY <1>8 DEF Positive

\* transpose_f32 and transpose_k.
LEMMA TransposeMeaning ==
  ASSUME NEW o \in Operations, o.op = "transpose", NEW x \in 0 .. OutputSize(o) - 1
  PROVE  /\ One(TransposeSource(o, x)) = Meaning(o, x)
         /\ One(DeviceTransposeSource(o, x)) = Meaning(o, x)
<1>1. PICK s, perm, out : s = o.shape /\ perm = o.perm /\ out = Permuted(s, perm) OBVIOUS
<1>2. /\ s \in Seq(Nat) /\ perm \in [DOMAIN s -> 0 .. Len(s) - 1]
      /\ \A k \in DOMAIN s : \E l \in DOMAIN s : \A m \in DOMAIN s : perm[m] + 1 = k <=> m = l
  BY <1>1, OperationsAssumption
<1>3. PICK n \in Nat : n = Len(s) BY <1>2
<1>4. DOMAIN s = 1 .. n BY <1>2, <1>3
<1> DEFINE p == [k \in 1 .. n |-> perm[k] + 1]
<1>5. /\ p \in [1 .. n -> 1 .. n]
      /\ \A k \in 1 .. n : p[k] = perm[k] + 1 /\ p[k] + 1 = perm[k] + 2
  <2>1. ASSUME NEW k \in 1 .. n PROVE perm[k] + 1 \in 1 .. n /\ perm[k] + 1 + 1 = perm[k] + 2
    <3>1. perm[k] \in 0 .. n - 1 BY <1>2, <1>3, <1>4
    <3> QED BY <3>1
  <2> QED BY <2>1
<1>6. ASSUME NEW k \in 1 .. n
      PROVE  \E l \in 1 .. n : \A m \in 1 .. n : p[m] = k <=> m = l
  <2> HIDE DEF p
  <2>1. k \in DOMAIN s BY <1>4
  <2>2. PICK l \in DOMAIN s : \A m \in DOMAIN s : perm[m] + 1 = k <=> m = l BY <1>2, <2>1
  <2>3. l \in 1 .. n BY <1>4
  <2>4. \A m \in 1 .. n : p[m] = k <=> m = l BY <1>4, <1>5, <2>2
  <2> QED BY <2>3, <2>4
<1> HIDE DEF p
<1>7. Size0(s) \in Nat /\ x \in 0 .. Size0(s) - 1 /\ x \in Nat /\ Size0(s) > 0
  <2>1. 1 \in 1 .. Len(s) + 1 BY <1>3
  <2>2. Size0(s) \in Nat BY <1>2, <2>1, NumelIs DEF Size0
  <2>3. OutputSize(o) = Size0(s) BY <1>1 DEF OutputSize
  <2> QED BY <2>2, <2>3
<1>8. /\ out \in Seq(Nat) /\ Len(out) = n /\ DOMAIN out = 1 .. n
      /\ \A k \in 1 .. n : out[k] = s[p[k]] /\ out[k] \in Positive
  <2>1. out = [k \in 1 .. n |-> s[perm[k] + 1]] BY <1>1, <1>4 DEF Permuted
  <2>2. ASSUME NEW k \in 1 .. n PROVE out[k] = s[p[k]] /\ out[k] \in Positive
    <3>1. p[k] \in 1 .. n BY <1>5
    <3>2. s[p[k]] \in Positive BY <1>2, <1>3, <1>7, <3>1, NoEmptyDimension
    <3> QED BY <1>5, <2>1, <3>2
  <2>3. out \in [1 .. n -> Nat] BY <2>1, <2>2 DEF Positive
  <2> QED BY <2>2, <2>3, TableIsSeq
<1>9. Size0(out) > 0 BY <1>8, HasElements
<1> DEFINE g(k) == Coordinate(out, k, x)
           c == [m \in 1 .. n |-> g(CHOOSE l \in 1 .. n : p[l] = m)]
           t == [m \in 1 .. n |-> c[m] * Numel(s, m + 1)]
           u == [k \in DOMAIN out |-> g(k) * Numel(s, perm[k] + 2)]
           v == [k \in DOMAIN out |-> g(k) * DeviceStride(s, perm[k] + 1)]
<1>10. \A k \in 1 .. n : g(k) \in 0 .. out[k] - 1 BY <1>7, <1>8, <1>9, CoordinateIs
<1> HIDE DEF g
<1>11. ASSUME NEW k \in 1 .. n PROVE c[p[k]] = g(k)
  <2>1. p[k] \in 1 .. n BY <1>5
  <2>2. PICK l \in 1 .. n : \A m \in 1 .. n : p[m] = p[k] <=> m = l BY <1>6, <2>1
  <2>3. (CHOOSE m \in 1 .. n : p[m] = p[k]) = k BY <2>2
  <2> QED BY <2>1, <2>3
<1>12. ASSUME NEW m \in 1 .. n PROVE c[m] \in Nat /\ c[m] < s[m]
  <2>1. PICK k \in 1 .. n : p[k] = m BY <1>6
  <2>2. c[m] = g(k) BY <1>11, <2>1
  <2>3. g(k) \in 0 .. s[m] - 1 BY <1>8, <1>10, <2>1
  <2>4. s[m] \in Nat BY <1>2, <1>3
  <2> QED BY <2>2, <2>3, <2>4
<1>13. c \in [1 .. n -> Nat]
  <2>1. c = [m \in 1 .. n |-> c[m]] OBVIOUS
  <2> HIDE DEF c
  <2> QED BY <1>12, <2>1
<1> HIDE DEF c
<1>14. PICK y : y = Offset(t) OBVIOUS
<1>15. /\ t \in Seq(Nat) /\ Len(t) = n
       /\ y \in 0 .. Size0(s) - 1
       /\ \A k \in 1 .. n : Coordinate(s, k, y) = c[k]
  <2>1. PICK T, d : T = t /\ d = c OBVIOUS
  <2>2. T = Strides(d, s, n) BY <2>1 DEF Strides
  <2>3. s \in Seq(Nat) /\ Size0(s) > 0 /\ n \in Nat /\ n = Len(s) BY <1>2, <1>3, <1>7
  <2>4. AreCoordinates(d, s, n)
    <3> HIDE DEF t
    <3> QED BY <1>12, <1>13, <2>1 DEF AreCoordinates
  <2>5. /\ T \in Seq(Nat) /\ Len(T) = n
        /\ Offset(T) \in 0 .. Size0(s) - 1
        /\ \A k \in 1 .. n : Coordinate(s, k, Offset(T)) = d[k]
    BY ONLY <2>2, <2>3, <2>4, CellAt
  <2> HIDE DEF t
  <2> QED BY <1>14, <2>1, <2>5
<1>16. ASSUME NEW k \in 1 .. n PROVE u[k] = t[p[k]]
  <2>1. p[k] \in 1 .. Len(s) /\ p[k] + 1 = perm[k] + 2 BY <1>3, <1>5
  <2>2. t[p[k]] = c[p[k]] * Numel(s, p[k] + 1) BY <1>3, <2>1
  <2>3. u[k] = g(k) * Numel(s, perm[k] + 2) BY <1>8
  <2> HIDE DEF t, u
  <2> QED BY <1>11, <2>1, <2>2, <2>3
<1>17. u = v
  <2>1. ASSUME NEW k \in 1 .. n PROVE DeviceStride(s, perm[k] + 1) = Numel(s, perm[k] + 2)
    <3>1. p[k] \in 1 .. Len(s) BY <1>3, <1>5
    <3>2. DeviceStride(s, p[k]) = Numel(s, p[k] + 1) BY <1>2, <3>1, StrideIs
    <3> QED BY <1>5, <3>2
  <2> QED BY <1>8, <2>1
<1>18. Offset(u) = y
  <2>1. \A k \in 1 .. n : t[k] \in Nat BY <1>15
  <2>2. ASSUME NEW k \in 1 .. n PROVE u[k] \in Nat
    <3>1. p[k] \in 1 .. n BY <1>5
    <3> HIDE DEF t, u
    <3> QED BY <1>16, <2>1, <3>1
  <2>3. u \in [1 .. n -> Nat]
    <3>1. u = [k \in 1 .. n |-> u[k]] BY <1>8
    <3> HIDE DEF u
    <3> QED BY <2>2, <3>1
  <2>4. u \in Seq(Nat) /\ Len(u) = n BY <2>3, TableIsSeq
  <2>5. PICK T, U : T = t /\ U = u OBVIOUS
  <2> HIDE DEF t, u
  <2>6. T \in Seq(Nat) /\ U \in Seq(Nat) /\ n \in Nat /\ n = Len(U) /\ n = Len(T)
    BY <1>15, <2>4, <2>5
  <2>7. IsOrder(p, n) BY <1>5, <1>6 DEF IsOrder
  <2>8. InOrder(U, T, p, n) BY <1>16, <2>5 DEF InOrder
  <2>9. PICK q : q = p OBVIOUS
  <2>10. IsOrder(q, n) /\ InOrder(U, T, q, n) BY <2>7, <2>8, <2>9
  <2>11. Offset(U) = Offset(T) BY ONLY <2>6, <2>10, OffsetPermuted
  <2> QED BY <1>14, <2>5, <2>11
<1>19. TransposeSource(o, x) = y /\ DeviceTransposeSource(o, x) = y
  <2>1. TransposeSource(o, x) = Offset(u) BY <1>1 DEF TransposeSource, g
  <2>2. DeviceTransposeSource(o, x) = Offset(v) BY <1>1 DEF DeviceTransposeSource, g
  <2> HIDE DEF u, v
  <2> QED BY <1>17, <1>18, <2>1, <2>2
<1> HIDE DEF t, u, v
<1> DEFINE Same(z) == \A k \in DOMAIN o.shape :
              Coordinate(o.shape, o.perm[k] + 1, z) = Coordinate(Permuted(o.shape, o.perm), k, x)
<1>20. \A z : Same(z) <=> \A k \in 1 .. n : Coordinate(s, perm[k] + 1, z) = g(k)
  BY <1>1, <1>4 DEF g
<1>21. Same(y)
  <2> HIDE DEF Same
  <2>1. ASSUME NEW k \in 1 .. n PROVE Coordinate(s, perm[k] + 1, y) = g(k)
    <3>1. p[k] \in 1 .. n /\ p[k] = perm[k] + 1 BY <1>5
    <3> QED BY <1>11, <1>15, <3>1
  <2> QED BY <1>20, <2>1
<1>22. ASSUME NEW z \in 0 .. Size0(s) - 1, Same(z) PROVE z = y
  <2> HIDE DEF Same
  <2>1. ASSUME NEW m \in 1 .. n PROVE Coordinate(s, m, z) = Coordinate(s, m, y)
    <3>1. PICK k \in 1 .. n : p[k] = m BY <1>6
    <3>2. perm[k] + 1 = m BY <1>5, <3>1
    <3> QED BY <1>20, <1>21, <1>22, <3>2
  <2> QED BY <1>2, <1>3, <1>15, <2>1, SameCoordinates
<1>23. Transposed(o, x) = CHOOSE z \in 0 .. OutputSize(o) - 1 : Same(z)
  BY DEF Transposed
<1> HIDE DEF Same
<1>24. OutputSize(o) = Size0(s) BY <1>1 DEF OutputSize
<1>25. (CHOOSE z \in 0 .. OutputSize(o) - 1 : Same(z)) = y
  BY <1>15, <1>21, <1>22, <1>24
<1>26. Meaning(o, x) = One(Transposed(o, x))
  <2>1. o.op = "transpose" BY <1>1
  <2> QED BY ONLY <2>1 DEF Meaning, RowKernels
<1> QED BY <1>19, <1>23, <1>25, <1>26
-----------------------------------------------------------------------------
(* What is added, and all that the CPU computes.                           *)

\* A bias has as many elements as its last dimension.
LEMMA BiasSize ==
  ASSUME NEW s \in Seq(Nat), Len(s) > 0, \A k \in 1 .. Len(s) - 1 : s[k] = 1
  PROVE  Size0(s) = Last(s)
<1>1. PICK n \in Nat : n = Len(s) /\ n > 0 /\ n \in 1 .. Len(s) OBVIOUS
<1>2. PICK d \in Nat : d = Last(s) BY WholeRows
<1> DEFINE S == {j \in Nat : j < n => Numel(s, n - j) = d}
<1>3. 0 \in S
  <2>1. n - 0 = n OBVIOUS
  <2>2. Numel(s, n) = d BY <1>1, <1>2, WholeRows
  <2> QED BY <2>1, <2>2
<1>4. ASSUME NEW j \in S PROVE j + 1 \in S
  <2>1. j \in Nat OBVIOUS
  <2>2. CASE j + 1 < n
    <3>1. PICK k \in 1 .. Len(s) - 1 : k = n - (j + 1) /\ k + 1 = n - j /\ j < n
      <4>1. n - (j + 1) \in 1 .. Len(s) - 1 /\ n - (j + 1) + 1 = n - j /\ j < n
        BY <1>1, <2>1, <2>2
      <4> QED BY <4>1
    <3>2. Numel(s, k + 1) = d BY <3>1
    <3>3. Numel(s, k) = s[k] * Numel(s, k + 1) /\ s[k] = 1
      <4>1. k \in 1 .. Len(s) BY <3>1
      <4> QED BY <4>1, NumelIs
    <3>4. 1 * d = d OBVIOUS
    <3> QED BY <2>1, <3>1, <3>2, <3>3, <3>4
  <2>3. CASE ~(j + 1 < n) BY <2>1, <2>3
  <2> QED BY <2>2, <2>3
<1>5. S \in SUBSET Nat OBVIOUS
<1>6. S = Nat
  <2> HIDE DEF S
  <2> QED BY <1>3, <1>4, <1>5, Induction
<1>7. PICK j \in Nat : j < n /\ n - j = 1
  <2>1. n - 1 \in Nat /\ n - 1 < n /\ n - (n - 1) = 1 BY <1>1
  <2> QED BY <2>1
<1>8. Numel(s, n - j) = d
  <2>1. j \in S
    <3> HIDE DEF S
    <3> QED BY <1>6
  <2> QED BY <1>7, <2>1
<1> QED BY <1>2, <1>7, <1>8 DEF Size0

\* The coordinate in the last dimension.
LEMMA LastCoordinate ==
  ASSUME NEW s \in Seq(Nat), Len(s) > 0, NEW x \in Nat
  PROVE  Coordinate(s, Len(s), x) = x % Last(s)
<1>1. Numel(s, Len(s) + 1) = 1 BY WholeRows
<1>2. x \div 1 = x BY ByOne
<1> QED BY <1>1, <1>2 DEF Coordinate, Last

\* An operand of the same shape is added cell by cell.
LEMMA SameShape ==
  ASSUME NEW o \in Operations, o.op = "add", o.b = o.a, NEW x \in 0 .. Size0(o.a) - 1
  PROVE  Broadcast(o, x) = x
<1>1. PICK s \in Seq(Nat) : s = o.a /\ s = o.b BY OperationsAssumption
<1> DEFINE Match(y) == \A k \in DOMAIN s : s[k] = 1 \/ Coordinate(s, k, y) = Coordinate(s, k, x)
<1>2. x \in 0 .. Size0(s) - 1 /\ Size0(s) \in Nat
  <2>1. 1 \in 1 .. Len(s) + 1 OBVIOUS
  <2> QED BY <1>1, <2>1, NumelIs DEF Size0
<1>3. Size0(s) > 0 /\ x \in Nat BY <1>2
<1>4. ASSUME NEW y \in 0 .. Size0(s) - 1, Match(y) PROVE y = x
  <2>1. y \in Nat BY <1>2
  <2>2. ASSUME NEW k \in 1 .. Len(s) PROVE Coordinate(s, k, y) = Coordinate(s, k, x)
    <3>1. CASE s[k] = 1
      <4>1. Coordinate(s, k, y) \in 0 .. s[k] - 1 /\ Coordinate(s, k, x) \in 0 .. s[k] - 1
        BY <1>3, <2>1, CoordinateIs
      <4>2. \A z \in 0 .. 1 - 1 : z = 0 OBVIOUS
      <4> QED BY <3>1, <4>1, <4>2
    <3>2. CASE s[k] # 1
      <4>1. k \in DOMAIN s OBVIOUS
      <4> QED BY <1>4, <3>2, <4>1
    <3> QED BY <3>1, <3>2
  <2> HIDE DEF Match
  <2> QED BY <1>2, <2>2, SameCoordinates
<1>5. Match(x) OBVIOUS
<1>6. Broadcast(o, x) = CHOOSE y \in 0 .. Size0(s) - 1 : Match(y)
  <2>1. \A k \in DOMAIN s : k + Len(s) - Len(s) = k OBVIOUS
  <2>2. \A y : Match(y) <=> \A k \in DOMAIN s :
             s[k] = 1 \/ Coordinate(s, k, y) = Coordinate(s, k + Len(s) - Len(s), x)
    BY <2>1
  <2> HIDE DEF Match
  <2> QED BY <1>1, <2>2 DEF Broadcast
<1> HIDE DEF Match
<1> QED BY <1>2, <1>4, <1>5, <1>6

\* A bias is added to each row.
LEMMA BiasIsRow ==
  ASSUME NEW o \in Operations, o.op = "add", o.b # o.a, NEW x \in 0 .. Size0(o.a) - 1
  PROVE  /\ Size0(o.b) = Last(o.a)
         /\ Broadcast(o, x) = x % Last(o.a)
<1>1. PICK a, b \in Seq(Nat) : a = o.a /\ b = o.b BY OperationsAssumption
<1>2. /\ Len(a) > 0 /\ Len(b) > 0 /\ Last(b) = Last(a)
      /\ \A k \in 1 .. Len(b) - 1 : b[k] = 1
  BY <1>1, OperationsAssumption
<1>3. Size0(b) = Last(b) BY <1>2, BiasSize
<1>4. Size0(a) \in Nat /\ x \in Nat /\ Size0(a) > 0
  <2>1. 1 \in 1 .. Len(a) + 1 OBVIOUS
  <2>2. Size0(a) \in Nat BY <2>1, NumelIs DEF Size0
  <2> QED BY <1>1, <2>2
<1>5. PICK D \in Positive : D = Last(a) /\ D = a[Len(a)] /\ D = b[Len(b)] /\ D = Size0(b)
  <2>1. Len(a) \in 1 .. Len(a) BY <1>2
  <2>2. a[Len(a)] \in Positive BY <1>4, <2>1, NoEmptyDimension
  <2> QED BY <1>2, <1>3, <2>2 DEF Last
<1>6. PICK r \in 0 .. D - 1 : r = x % D BY <1>4, <1>5, Division
<1>7. ASSUME NEW y \in 0 .. D - 1 PROVE y \in Nat /\ y % D = y
  <2>1. D \in Nat BY DEF Positive
  <2>2. y \in Nat /\ 0 * D = 0 BY <2>1, SMTT(30)
  <2>3. 0 * D + y = y BY <2>2
  <2>4. y \in Int /\ 0 \in Int BY <2>2
  <2> QED BY <2>2, <2>3, <2>4, DivisionIs
<1> DEFINE Match(y) == \A k \in DOMAIN b :
              b[k] = 1 \/ Coordinate(b, k, y) = Coordinate(a, k + Len(a) - Len(b), x)
<1>8. Coordinate(a, Len(a), x) = r BY <1>2, <1>4, <1>5, <1>6, LastCoordinate
<1>9. \A y \in 0 .. D - 1 : Coordinate(b, Len(b), y) = y
  BY <1>2, <1>5, <1>7, LastCoordinate
<1>10. Len(b) + Len(a) - Len(b) = Len(a) OBVIOUS
<1>11. Match(r)
  <2>1. ASSUME NEW k \in DOMAIN b, b[k] # 1 PROVE k = Len(b) BY <1>2, <2>1
  <2> QED BY <1>8, <1>9, <1>10, <2>1
<1>12. ASSUME NEW y \in 0 .. D - 1, Match(y) PROVE y = r
  <2>1. CASE D = 1
    <3>1. \A z \in 0 .. 1 - 1 : z = 0 OBVIOUS
    <3> QED BY <2>1, <3>1
  <2>2. CASE D # 1
    <3>1. Len(b) \in DOMAIN b BY <1>2
    <3>2. Coordinate(b, Len(b), y) = Coordinate(a, Len(b) + Len(a) - Len(b), x)
      BY <1>5, <1>12, <2>2, <3>1
    <3> QED BY <1>8, <1>9, <1>10, <3>2
  <2> QED BY <2>1, <2>2
<1>13. Broadcast(o, x) = CHOOSE y \in 0 .. Size0(b) - 1 : Match(y)
  BY <1>1 DEF Broadcast
<1> HIDE DEF Match
<1>14. Broadcast(o, x) = r BY <1>5, <1>11, <1>12, <1>13
<1> QED BY <1>1, <1>5, <1>6, <1>14

\* add_f32, add_k and add_bias_k.
LEMMA AddMeaning ==
  ASSUME NEW o \in Operations, o.op = "add", NEW x \in 0 .. OutputSize(o) - 1
  PROVE  AddCell(o, x) = Meaning(o, x) /\ DeviceAdd(o, x) = Meaning(o, x)
<1>1. x \in 0 .. Size0(o.a) - 1
  <2>1. o.op \notin {"map", "transpose", "softmax", "causal", "layernorm"} BY Zenon
  <2> QED BY <2>1 DEF OutputSize
<1>2. Meaning(o, x) = From(<< <<x, Broadcast(o, x)>> >>)
  <2>1. o.op = "add" OBVIOUS
  <2> QED BY ONLY <2>1 DEF Meaning, RowKernels
<1>3. CASE o.b = o.a
  <2>1. Broadcast(o, x) = x BY <1>1, <1>3, SameShape
  <2>2. ~IsBias(o) BY <1>3 DEF IsBias
  <2> QED BY <1>2, <1>3, <2>1, <2>2 DEF AddCell, DeviceAdd
<1>4. CASE o.b # o.a
  <2>1. Size0(o.b) = Last(o.a) /\ Broadcast(o, x) = x % Last(o.a) BY <1>1, <1>4, BiasIsRow
  <2>2. ASSUME ~IsBias(o) PROVE x % Last(o.a) = x
    <3>1. Size0(o.a) = Last(o.a) BY <2>1, <2>2 DEF IsBias
    <3>2. PICK D : D = Last(o.a) OBVIOUS
    <3>3. D \in Nat
      <4>1. o.a \in Seq(Nat) /\ Len(o.a) > 0 BY <1>4, OperationsAssumption
      <4> QED BY <3>2, <4>1, WholeRows
    <3>4. x \in 0 .. D - 1 BY <1>1, <3>1, <3>2
    <3>5. D \in Positive /\ x \in Nat /\ 0 * D = 0
      <4>1. 0 * D = 0 BY <3>3, SMTT(30)
      <4> QED BY <3>3, <3>4, <4>1 DEF Positive
    <3>6. 0 * D + x = x /\ x \in Int /\ 0 \in Int BY <3>5
    <3> QED BY <3>2, <3>4, <3>5, <3>6, DivisionIs
  <2> QED BY <1>2, <1>4, <2>1, <2>2 DEF AddCell, DeviceAdd
<1> QED BY <1>3, <1>4

\* A CPU kernel computes each cell as its operator defines it.
LEMMA HostMeaning ==
  ASSUME NEW o \in Operations, o.op \notin AllProducts, NEW x \in 0 .. OutputSize(o) - 1
  PROVE  HostCell(o, x) = Meaning(o, x)
<1>1. CASE o.op \in RowKernels BY <1>1, HostRow
<1>2. CASE o.op = "flash"
  <2>1. FlashCell(o, x) = Meaning(o, x) BY <1>2, FlashMeaning
  <2>2. HostCell(o, x) = FlashCell(o, x) BY ONLY <1>2 DEF HostCell
  <2> QED BY <2>1, <2>2
<1>3. CASE o.op = "map"
  <2>1. HostCell(o, x) = One(x) /\ Meaning(o, x) = One(x) BY ONLY <1>3 DEF HostCell, Meaning, RowKernels
  <2> QED BY <2>1
<1>4. CASE o.op = "add"
  <2>1. AddCell(o, x) = Meaning(o, x) BY <1>4, AddMeaning
  <2>2. HostCell(o, x) = AddCell(o, x) BY ONLY <1>4 DEF HostCell
  <2> QED BY <2>1, <2>2
<1>5. CASE o.op = "transpose"
  <2>1. One(TransposeSource(o, x)) = Meaning(o, x) BY <1>5, TransposeMeaning
  <2>2. HostCell(o, x) = One(TransposeSource(o, x)) BY ONLY <1>5 DEF HostCell
  <2> QED BY <2>1, <2>2
<1>6. CASE o.op = "gather"
  <2>1. GatherCell(o, x) = Meaning(o, x) BY <1>6, GatherMeaning
  <2>2. HostCell(o, x) = GatherCell(o, x) BY ONLY <1>6 DEF HostCell
  <2> QED BY <2>1, <2>2
<1>7. o.op \in RowKernels \cup Elementwise \cup {"flash"} BY OperationsAssumption
<1> QED BY <1>1, <1>2, <1>3, <1>4, <1>5, <1>6, <1>7 DEF Elementwise
-----------------------------------------------------------------------------
(* Launches without barriers: what each thread writes is right, and the    *)
(* threads together write every cell.                                      *)

\* Cells of M rows of n.
LEMMA InRow ==
  ASSUME NEW M \in Nat, NEW n \in Nat, NEW i \in 0 .. M - 1, NEW j \in 0 .. n - 1
  PROVE  /\ n \in Positive /\ (M * n) \div n = M
         /\ i * n + j \in 0 .. M * n - 1
         /\ (i * n + j) \div n = i /\ (i * n + j) % n = j
<1>1. n \in Positive /\ M \in Positive BY DEF Positive
<1>2. (M * n) \div n = M
  <2>1. 0 \in 0 .. n - 1 /\ M \in Int OBVIOUS
  <2>2. M * n \in Nat BY SMTT(30)
  <2>3. M * n + 0 = M * n BY <2>2
  <2> QED BY <1>1, <2>1, <2>3, DivisionIs
<1>3. i \in Nat /\ i \in Int OBVIOUS
<1>4. i * n + j \in 0 .. M * n - 1 BY <1>1, <1>3, Digit
<1> QED BY <1>1, <1>2, <1>3, <1>4, DivisionIs

\* Each cell is in one of them.
LEMMA RowOfCell ==
  ASSUME NEW M \in Nat, NEW n \in Nat, NEW x \in 0 .. M * n - 1
  PROVE  /\ (M * n) \div n = M
         /\ \E i \in 0 .. M - 1, j \in 0 .. n - 1 : x = i * n + j
<1>1. M * n \in Nat BY SMTT(30)
<1>2. x \in Nat /\ x < M * n /\ x \in Int BY <1>1
<1>3. n \in Positive
  <2>1. n # 0
    <3>1. M * 0 = 0 BY SMTT(30)
    <3> QED BY <1>2, <3>1
  <2> QED BY <2>1 DEF Positive
<1>4. x \div n \in 0 .. M - 1 BY <1>2, <1>3, Quotient
<1>5. x % n \in 0 .. n - 1 /\ x = (x \div n) * n + (x % n) BY <1>2, <1>3, Division
<1>6. (M * n) \div n = M BY <1>4, <1>5, InRow
<1> QED BY <1>4, <1>5, <1>6

\* The operators that a flat launch computes.
Flat == RowKernels \cup Elementwise \cup {"flash"}

\* The sizes of a row kernel: M rows of n.
LEMMA RowSizes ==
  ASSUME NEW o \in Operations, o.op \in RowKernels
  PROVE  \E M, n \in Nat : /\ n = Last(o.shape) /\ OutputSize(o) = M * n
                           /\ Items(o) = (M * n) \div n
<1>1. o.shape \in Seq(Nat) /\ Len(o.shape) > 0 BY OperationsAssumption
<1>2. PICK M, n \in Nat : n = Last(o.shape) /\ Size0(o.shape) = M * n BY <1>1, WholeRows
<1>3. OutputSize(o) = Size0(o.shape) BY DEF OutputSize, RowKernels
<1>4. Items(o) = Size0(o.shape) \div Last(o.shape) BY DEF Items, RowKernels
<1> QED BY <1>2, <1>3, <1>4

\* An elementwise kernel has a thread for each cell,
LEMMA ElementSize ==
  ASSUME NEW o \in Operations, o.op \in Elementwise
  PROVE  Items(o) = OutputSize(o) /\ OutputSize(o) \in Nat
<1>1. Items(o) = OutputSize(o)
  <2>1. o.op \notin RowKernels /\ o.op # "flash" BY DEF RowKernels, Elementwise
  <2> QED BY <2>1 DEF Items
<1>2. CASE o.op \in {"map", "transpose"}
  <2>1. o.shape \in Seq(Nat) BY <1>2, OperationsAssumption
  <2>2. 1 \in 1 .. Len(o.shape) + 1 BY <2>1
  <2>3. Size0(o.shape) \in Nat BY <2>1, <2>2, NumelIs DEF Size0
  <2>4. OutputSize(o) = Size0(o.shape) BY <1>2 DEF OutputSize
  <2> QED BY <1>1, <2>3, <2>4
<1>3. CASE o.op = "add"
  <2>1. o.a \in Seq(Nat) BY <1>3, OperationsAssumption
  <2>2. 1 \in 1 .. Len(o.a) + 1 BY <2>1
  <2>3. Size0(o.a) \in Nat BY <2>1, <2>2, NumelIs DEF Size0
  <2>4. OutputSize(o) = Size0(o.a) BY ONLY <1>3 DEF OutputSize
  <2> QED BY <1>1, <2>3, <2>4
<1>4. CASE o.op = "gather"
  <2>1. o.ids \in Seq(Nat) /\ o.d \in Nat BY <1>4, OperationsAssumption
  <2>2. PICK k, d \in Nat : k = Len(o.ids) /\ d = o.d BY <2>1
  <2>3. k * d \in Nat BY SMTT(30)
  <2>4. OutputSize(o) = Len(o.ids) * o.d BY ONLY <1>4 DEF OutputSize
  <2> QED BY <1>1, <2>2, <2>3, <2>4
<1> QED BY <1>2, <1>3, <1>4 DEF Elementwise

\* flash_attn a thread for each query.
LEMMA FlashSizes ==
  ASSUME NEW o \in Operations, o.op = "flash"
  PROVE  \E M, s, d \in Nat : /\ s = o.s /\ d = o.d /\ OutputSize(o) = M * d
                              /\ Items(o) = M /\ M = o.h * s
<1>1. PICK h, s, d \in Nat : h = o.h /\ s = o.s /\ d = o.d BY OperationsAssumption
<1>2. h * s \in Nat BY SMTT(30)
<1>3. OutputSize(o) = o.h * o.s * o.d BY DEF OutputSize
<1>4. Items(o) = o.h * o.s BY DEF Items, RowKernels
<1> QED BY <1>1, <1>2, <1>3, <1>4

\* What thread i writes is right: a row,
LEMMA RowWritesRight ==
  ASSUME NEW o \in Operations, o.op \in RowKernels, NEW i, NEW w \in DeviceRow(o, i),
         Items(o) \in Nat => i \in 0 .. Items(o) - 1
  PROVE  w[1] \in 0 .. OutputSize(o) - 1 /\ w[2] = Meaning(o, w[1])
<1>1. PICK M, n \in Nat : /\ n = Last(o.shape) /\ OutputSize(o) = M * n
                          /\ Items(o) = (M * n) \div n
  BY RowSizes
<1>2. PICK j \in 0 .. n - 1 : w[1] = i * n + j /\ w[2] = RowValue(o, i, j)
  <2>1. DeviceRow(o, i) = {<<i * n + j, RowValue(o, i, j)>> : j \in 0 .. n - 1}
    BY <1>1 DEF DeviceRow, RowValue
  <2> QED BY <2>1
<1>3. Items(o) = M
  <2>1. n \in Positive BY <1>2 DEF Positive
  <2>2. 0 \in 0 .. n - 1 /\ M \in Int BY <1>2
  <2>3. M * n \in Nat BY SMTT(30)
  <2>4. M * n + 0 = M * n BY <2>3
  <2>5. (M * n + 0) \div n = M BY <2>1, <2>2, DivisionIs
  <2> QED BY <1>1, <2>4, <2>5
<1>4. i \in 0 .. M - 1 BY <1>3
<1>5. /\ i * n + j \in 0 .. M * n - 1
      /\ (i * n + j) \div n = i /\ (i * n + j) % n = j
  BY <1>4, InRow
<1>6. w[1] \in 0 .. OutputSize(o) - 1 BY <1>1, <1>2, <1>5
<1>7. Meaning(o, w[1]) = RowValue(o, w[1] \div n, w[1] % n) BY <1>1, <1>6, RowMeaning
<1> QED BY <1>2, <1>5, <1>6, <1>7

\* a query,
LEMMA QueryRight ==
  ASSUME NEW o \in Operations, o.op = "flash", NEW i \in 0 .. Items(o) - 1, NEW w \in DeviceQuery(o, i)
  PROVE  w[1] \in 0 .. OutputSize(o) - 1 /\ w[2] = Meaning(o, w[1])
<1>1. PICK M, s, d \in Nat : /\ s = o.s /\ d = o.d /\ OutputSize(o) = M * d
                             /\ Items(o) = M /\ M = o.h * s
  BY FlashSizes
<1>2. PICK t \in 0 .. d - 1 : /\ w[1] = i * d + t
                              /\ w[2] = AttentionAt(i \div s, i % s, t, s, d)
  BY <1>1 DEF DeviceQuery
<1>3. PICK y \in 0 .. M - 1 : y = i BY <1>1
<1>4. /\ d \in Positive /\ i * d + t \in 0 .. M * d - 1
      /\ (i * d + t) \div d = i /\ (i * d + t) % d = t
  <2>1. d \in Positive BY InRow
  <2>2. y * d + t \in 0 .. M * d - 1 BY InRow
  <2>3. (y * d + t) \div d = y /\ (y * d + t) % d = t BY InRow
  <2> QED BY <1>3, <2>1, <2>2, <2>3
<1>5. PICK x : x = w[1] OBVIOUS
<1>6. /\ x \in 0 .. OutputSize(o) - 1 /\ x \div d = i /\ x % d = t
  BY <1>1, <1>2, <1>4, <1>5
<1>7. s \in Positive /\ FlashCell(o, x) = Meaning(o, x) BY <1>1, <1>6, FlashMeaning
<1>8. x \div (s * d) = (x \div d) \div s
  <2>1. M * d \in Nat BY SMTT(30)
  <2>2. x \in Nat BY <1>1, <1>6, <2>1
  <2> QED BY <2>2, <1>4, <1>7, Nested
<1>9. FlashCell(o, x) = AttentionAt(x \div (s * d), (x \div d) % s, x % d, s, d)
  BY <1>1 DEF FlashCell
<1>10. FlashCell(o, x) = AttentionAt(i \div s, i % s, t, s, d) BY <1>6, <1>8, <1>9
<1> QED BY <1>2, <1>5, <1>6, <1>7, <1>10

\* or a cell.
LEMMA ElementRight ==
  ASSUME NEW o \in Operations, o.op \in Elementwise, NEW i \in 0 .. OutputSize(o) - 1,
         NEW w \in FlatWrites(o, i)
  PROVE  w[1] = i /\ w[2] = Meaning(o, i)
<1>1. CASE o.op = "map"
  <2>1. FlatWrites(o, i) = {<<i, One(i)>>} BY ONLY <1>1 DEF FlatWrites, RowKernels
  <2>2. Meaning(o, i) = One(i) BY ONLY <1>1 DEF Meaning, RowKernels
  <2> QED BY <2>1, <2>2
<1>2. CASE o.op = "add"
  <2>1. FlatWrites(o, i) = {<<i, DeviceAdd(o, i)>>} BY ONLY <1>2 DEF FlatWrites, RowKernels
  <2> QED BY <1>2, <2>1, AddMeaning
<1>3. CASE o.op = "transpose"
  <2>1. FlatWrites(o, i) = {<<i, One(DeviceTransposeSource(o, i))>>}
    BY ONLY <1>3 DEF FlatWrites, RowKernels
  <2> QED BY <1>3, <2>1, TransposeMeaning
<1>4. CASE o.op = "gather"
  <2>1. FlatWrites(o, i) = {<<i, GatherCell(o, i)>>} BY ONLY <1>4 DEF FlatWrites, RowKernels
  <2> QED BY <1>4, <2>1, GatherMeaning
<1> QED BY <1>1, <1>2, <1>3, <1>4 DEF Elementwise

\* and it writes that cell.
LEMMA ElementWritten ==
  ASSUME NEW o \in Operations, o.op \in Elementwise, NEW i
  PROVE  \E w \in FlatWrites(o, i) : w[1] = i
<1>1. CASE o.op = "map"
  <2>1. FlatWrites(o, i) = {<<i, One(i)>>} BY ONLY <1>1 DEF FlatWrites, RowKernels
  <2> QED BY <2>1
<1>2. CASE o.op = "add"
  <2>1. FlatWrites(o, i) = {<<i, DeviceAdd(o, i)>>} BY ONLY <1>2 DEF FlatWrites, RowKernels
  <2> QED BY <2>1
<1>3. CASE o.op = "transpose"
  <2>1. FlatWrites(o, i) = {<<i, One(DeviceTransposeSource(o, i))>>}
    BY ONLY <1>3 DEF FlatWrites, RowKernels
  <2> QED BY <2>1
<1>4. CASE o.op = "gather"
  <2>1. FlatWrites(o, i) = {<<i, GatherCell(o, i)>>} BY ONLY <1>4 DEF FlatWrites, RowKernels
  <2> QED BY <2>1
<1> QED BY <1>1, <1>2, <1>3, <1>4 DEF Elementwise

\* Thread i writes right values only, and every cell is written by one.
LEMMA FlatRight ==
  ASSUME NEW o \in Operations, o.op \in Flat, NEW i, NEW w \in FlatWrites(o, i),
         Items(o) \in Nat => i \in 0 .. Items(o) - 1
  PROVE  w[1] \in 0 .. OutputSize(o) - 1 /\ w[2] = Meaning(o, w[1])
<1>1. CASE o.op \in RowKernels
  <2>1. FlatWrites(o, i) = DeviceRow(o, i) BY ONLY <1>1 DEF FlatWrites, RowKernels
  <2> QED BY <1>1, <2>1, RowWritesRight
<1>2. CASE o.op = "flash"
  <2>1. FlatWrites(o, i) = DeviceQuery(o, i) BY ONLY <1>2 DEF FlatWrites, RowKernels
  <2>2. Items(o) \in Nat BY <1>2, FlashSizes
  <2> QED BY <1>2, <2>1, <2>2, QueryRight
<1>3. CASE o.op \in Elementwise
  <2>1. i \in 0 .. OutputSize(o) - 1 BY <1>3, ElementSize
  <2> QED BY <1>3, <2>1, ElementRight
<1> QED BY <1>1, <1>2, <1>3 DEF Flat

\* Every cell is written by a thread that has something to do.
LEMMA FlatWritten ==
  ASSUME NEW o \in Operations, o.op \in Flat, NEW x \in 0 .. OutputSize(o) - 1
  PROVE  /\ Items(o) \in Nat
         /\ \E i \in 0 .. Items(o) - 1 : \E w \in FlatWrites(o, i) : w[1] = x
<1>1. CASE o.op \in RowKernels
  <2>1. PICK M, n \in Nat : /\ n = Last(o.shape) /\ OutputSize(o) = M * n
                            /\ Items(o) = (M * n) \div n
    BY <1>1, RowSizes
  <2>2. Items(o) = M BY <2>1, RowOfCell
  <2>3. PICK i \in 0 .. M - 1, j \in 0 .. n - 1 : x = i * n + j
    <3>1. x \in 0 .. M * n - 1 BY <2>1
    <3> QED BY <3>1, RowOfCell, Zenon
  <2>4. FlatWrites(o, i) = {<<i * n + k, RowValue(o, i, k)>> : k \in 0 .. n - 1}
    BY ONLY <1>1, <2>1 DEF FlatWrites, DeviceRow, RowValue, RowKernels
  <2>5. <<x, RowValue(o, i, j)>> \in FlatWrites(o, i) BY <2>3, <2>4
  <2>6. <<x, RowValue(o, i, j)>>[1] = x OBVIOUS
  <2> QED BY <2>2, <2>5, <2>6
<1>2. CASE o.op = "flash"
  <2>1. PICK M, s, d \in Nat : /\ s = o.s /\ d = o.d /\ OutputSize(o) = M * d
                               /\ Items(o) = M /\ M = o.h * s
    BY <1>2, FlashSizes
  <2>2. PICK i \in 0 .. M - 1, t \in 0 .. d - 1 : x = i * d + t
    <3>1. x \in 0 .. M * d - 1 BY <2>1
    <3> QED BY <3>1, RowOfCell, Zenon
  <2>3. FlatWrites(o, i) = {<<i * d + k, AttentionAt(i \div s, i % s, k, s, d)>> : k \in 0 .. d - 1}
    BY ONLY <1>2, <2>1 DEF FlatWrites, DeviceQuery, RowKernels
  <2>4. <<x, AttentionAt(i \div s, i % s, t, s, d)>> \in FlatWrites(o, i) BY <2>2, <2>3
  <2>5. <<x, AttentionAt(i \div s, i % s, t, s, d)>>[1] = x OBVIOUS
  <2> QED BY <2>1, <2>4, <2>5
<1>3. CASE o.op \in Elementwise BY <1>3, ElementSize, ElementWritten
<1> QED BY <1>1, <1>2, <1>3 DEF Flat

\* The same of the threads of a launch.
LEMMA FlatLaunch ==
  ASSUME NEW o, o.op \in Flat
  PROVE  /\ GridOf(o) = {<<b>> : b \in 0 .. CeilDiv(Items(o), BlockThreads) - 1}
         /\ ThreadsOf(o) = {<<t>> : t \in 0 .. BlockThreads - 1}
         /\ \A b, t : Writes(o, b, t) = IF GlobalId(b, t) < Items(o)
                                        THEN FlatWrites(o, GlobalId(b, t)) ELSE {}
<1>1. o.op \notin {"gemm_naive", "gemm_tiled", "wmma"} BY DEF Flat, RowKernels, Elementwise
<1> QED BY <1>1 DEF GridOf, ThreadsOf, Writes, Products

\* What is written in a launch is right,
LEMMA LaunchRight ==
  ASSUME NEW o \in Operations, o.op \in Flat, NEW b \in GridOf(o), NEW t \in ThreadsOf(o),
         NEW w \in Writes(o, b, t)
  PROVE  w[1] \in 0 .. OutputSize(o) - 1 /\ w[2] = Meaning(o, w[1])
<1>1. GlobalId(b, t) < Items(o) /\ w \in FlatWrites(o, GlobalId(b, t)) BY FlatLaunch
<1>2. ASSUME Items(o) \in Nat PROVE GlobalId(b, t) \in 0 .. Items(o) - 1
  <2>1. PICK I \in Nat : I = Items(o) BY <1>2
  <2>2. PICK D \in Positive : D = BlockThreads BY KernelsAssumption
  <2>3. CeilDiv(I, D) \in Nat BY BlocksCover
  <2>4. PICK p \in 0 .. CeilDiv(I, D) - 1, q \in 0 .. D - 1 : b = <<p>> /\ t = <<q>>
    BY <2>1, <2>2, FlatLaunch
  <2>5. p \in Nat /\ q \in Nat /\ D \in Nat BY <2>2, <2>3 DEF Positive
  <2>6. p * D \in Nat BY <2>5, SMTT(30)
  <2>7. GlobalId(b, t) = p * D + q BY <2>2, <2>4 DEF GlobalId
  <2>8. GlobalId(b, t) \in Nat BY <2>5, <2>6, <2>7
  <2> QED BY <1>1, <2>1, <2>8
<1> QED BY <1>1, <1>2, FlatRight

\* and every cell is written.
LEMMA LaunchWrites ==
  ASSUME NEW o \in Operations, o.op \in Flat, NEW x \in 0 .. OutputSize(o) - 1
  PROVE  \E b \in GridOf(o), t \in ThreadsOf(o) : \E w \in Writes(o, b, t) : w[1] = x
<1>1. PICK I \in Nat : I = Items(o) BY FlatWritten
<1>2. PICK i \in 0 .. I - 1 : \E w \in FlatWrites(o, i) : w[1] = x BY <1>1, FlatWritten
<1>3. PICK D \in Positive : D = BlockThreads BY KernelsAssumption
<1>4. /\ i \div D \in 0 .. CeilDiv(I, D) - 1 /\ i % D \in 0 .. D - 1
      /\ i = (i \div D) * D + (i % D)
  BY BlockReaches, Zenon
<1>5. <<i \div D>> \in GridOf(o) /\ <<i % D>> \in ThreadsOf(o) BY <1>1, <1>3, <1>4, FlatLaunch
<1>6. GlobalId(<<i \div D>>, <<i % D>>) = i BY <1>3, <1>4 DEF GlobalId
<1>7. Writes(o, <<i \div D>>, <<i % D>>) = FlatWrites(o, i)
  <2>1. i < Items(o) BY <1>1
  <2> QED BY <1>6, <2>1, FlatLaunch
<1> QED BY <1>2, <1>5, <1>7
-----------------------------------------------------------------------------
(* The invariant of a launch without barriers.                             *)

\* A cell holds what its operator means.
Right(c) == C[c] = Meaning(call, c)
IsMeaning ==
    /\ DOMAIN C = 0 .. OutputSize(call) - 1
    /\ \A c \in DOMAIN C : Right(c)

\* What a thread of a launch writes is there.
Written(b, t) == \A w \in Writes(call, b, t) : Right(w[1])

\* The operators are computed when they have returned; while a launch runs,
\* the cells of the threads that have ended are.
FlatInv ==
    /\ phase = "returned" /\ ~IsGemm /\ call.op \notin AllProducts => IsMeaning
    /\ Launched /\ call.op \notin Products =>
          /\ DOMAIN C = 0 .. OutputSize(call) - 1
          /\ grid \subseteq GridOf(call)
          /\ NoThreads \/ (block \in GridOf(call) /\ DOMAIN thread = ThreadsOf(call))
          /\ \A b \in GridOf(call), t \in ThreadsOf(call) :
                \/ b \in grid
                \/ ~NoThreads /\ b = block /\ thread[t].at # "done"
                \/ Written(b, t)

\* What is launched and is no product is one of the operators above.
LEMMA FlatRuns ==
  ASSUME LaunchInv, Launched, call.op \notin Products
  PROVE  call \in Operations /\ call.op \in Flat
<1>1. call \in Operations /\ call.op \notin {"matmul", "matmulq"} BY DEF LaunchInv
<1>2. call.op \in AllProducts \cup RowKernels \cup Elementwise \cup {"flash"}
  BY <1>1, OperationsAssumption
<1> QED BY <1>1, <1>2 DEF AllProducts, Flat

\* A product is none of these operators.
LEMMA ProductRuns ==
  ASSUME call' = call, phase' = "running", call.op \in Products
  PROVE  FlatInv'
BY DEF FlatInv

\* Writes of right values make their cells right and leave the others alone.
LEMMA RightStays ==
  ASSUME NEW W, \A w \in W : w[1] \in DOMAIN C /\ w[2] = Meaning(call, w[1]),
         C' = WithWrites(W), call' = call
  PROVE  /\ DOMAIN C' = DOMAIN C
         /\ \A c \in DOMAIN C : Right(c) => Right(c)'
         /\ \A w \in W : Right(w[1])'
<1>1. C' = [c \in DOMAIN C \cup {x[1] : x \in W} |->
              IF \E x \in W : x[1] = c THEN (CHOOSE x \in W : x[1] = c)[2] ELSE C[c]]
  BY DEF WithWrites
<1>2. DOMAIN C' = DOMAIN C
  <2>1. DOMAIN C' = DOMAIN C \cup {x[1] : x \in W} BY <1>1
  <2>2. {x[1] : x \in W} \subseteq DOMAIN C OBVIOUS
  <2> QED BY <2>1, <2>2
<1>3. ASSUME NEW c \in DOMAIN C, \E x \in W : x[1] = c PROVE C'[c] = Meaning(call, c)
  <2>1. PICK x : x = CHOOSE y \in W : y[1] = c OBVIOUS
  <2>2. x \in W /\ x[1] = c BY <1>3, <2>1
  <2>3. C'[c] = x[2] BY <1>1, <1>3, <2>1
  <2> QED BY <2>2, <2>3
<1>4. ASSUME NEW c \in DOMAIN C, ~\E x \in W : x[1] = c PROVE C'[c] = C[c]
  BY <1>1, <1>4
<1>5. \A c : C'[c] = Meaning(call, c) <=> Right(c)'
  BY DEF Right
<1>6. \A c \in DOMAIN C : Right(c) => Right(c)'
  BY <1>3, <1>4, <1>5 DEF Right
<1>7. \A w \in W : Right(w[1])' BY <1>3, <1>5
<1> QED BY <1>2, <1>6, <1>7

\* What a thread has written stays.
LEMMA WrittenStays ==
  ASSUME call \in Operations, call.op \in Flat, call' = call,
         DOMAIN C = 0 .. OutputSize(call) - 1,
         \A c \in DOMAIN C : Right(c) => Right(c)',
         NEW b \in GridOf(call), NEW t \in ThreadsOf(call), Written(b, t)
  PROVE  Written(b, t)'
<1>1. ASSUME NEW w \in Writes(call, b, t) PROVE Right(w[1])'
  <2>1. w[1] \in DOMAIN C BY LaunchRight
  <2>2. Right(w[1]) BY DEF Written
  <2>3. C'[w[1]] = Meaning(call, w[1])
    <3>1. \A c : Right(c)' <=> C'[c] = Meaning(call, c) BY DEF Right
    <3> QED BY <2>1, <2>2, <3>1
  <2> QED BY <2>3 DEF Right
<1>2. Writes(call, b, t)' = Writes(call, b, t) OBVIOUS
<1> QED BY <1>1, <1>2 DEF Written

LEMMA SameRight == ASSUME C' = C, call' = call PROVE \A c \in DOMAIN C : Right(c) => Right(c)'
BY DEF Right

\* A thread runs through, and has then written its cells.
LEMMA RunThreadWrites ==
  ASSUME FlatInv, BarrierInv, LaunchInv, NEW t \in DOMAIN thread, RunThread(t)
  PROVE  FlatInv'
<1>1. /\ Launched /\ thread[t].at = "start"
      /\ C' = WithWrites(Writes(call, block, t))
      /\ thread' = [thread EXCEPT ![t] = [thread[t] EXCEPT !.at = "done"]]
      /\ UNCHANGED <<grid, block, shared, phase, call, backend>>
  BY DEF RunThread, HostUnchanged
<1>2. CASE call.op \in Products BY <1>1, <1>2, ProductRuns DEF Launched
<1>3. CASE call.op \notin Products
  <2>1. call \in Operations /\ call.op \in Flat BY <1>1, <1>3, FlatRuns
  <2>2. ~NoThreads BY DEF NoThreads
  <2>3. /\ DOMAIN C = 0 .. OutputSize(call) - 1
        /\ grid \subseteq GridOf(call)
        /\ block \in GridOf(call) /\ DOMAIN thread = ThreadsOf(call)
        /\ \A b \in GridOf(call), u \in ThreadsOf(call) :
              \/ b \in grid
              \/ b = block /\ thread[u].at # "done"
              \/ Written(b, u)
    BY <1>1, <1>3, <2>2 DEF FlatInv
  <2>4. PICK W : W = Writes(call, block, t) OBVIOUS
  <2>5. \A w \in W : w[1] \in DOMAIN C /\ w[2] = Meaning(call, w[1])
    BY <2>1, <2>3, <2>4, LaunchRight
  <2>6. /\ DOMAIN C' = DOMAIN C /\ \A c \in DOMAIN C : Right(c) => Right(c)'
        /\ \A w \in W : Right(w[1])'
    BY <1>1, <2>4, <2>5, RightStays
  <2>7. ASSUME NEW b, b = block PROVE Written(b, t)'
    <3>1. Writes(call, b, t)' = W BY <1>1, <2>4, <2>7
    <3>2. \A c : Right(c)' <=> C'[c] = Meaning(call, c) BY <1>1 DEF Right
    <3>3. \A w \in W : C'[w[1]] = Meaning(call, w[1]) BY <2>6, <3>2
    <3> QED BY <1>1, <3>1, <3>3 DEF Written, Right
  <2>8. IsThread(thread[t]) BY DEF BarrierInv, InStep
  <2>9. PICK r : r = [thread[t] EXCEPT !.at = "done"] OBVIOUS
  <2>10. /\ DOMAIN thread' = DOMAIN thread
         /\ \A u \in DOMAIN thread : thread'[u] = IF u = t THEN r ELSE thread[u]
    BY <1>1, <2>9
  <2>11. ~NoThreads' BY <2>10 DEF NoThreads
  <2>12. ASSUME NEW b \in GridOf(call), NEW u \in ThreadsOf(call)
         PROVE  b \in grid \/ (b = block /\ thread'[u].at # "done") \/ Written(b, u)'
    <3>1. CASE b = block /\ u = t BY <2>7, <3>1
    <3>2. CASE b = block /\ u # t /\ thread[u].at # "done"
      <4>1. thread'[u] = thread[u] BY <2>3, <2>10, <3>2
      <4> QED BY <3>2, <4>1
    <3>3. CASE Written(b, u) BY <1>1, <2>1, <2>3, <2>6, <3>3, WrittenStays
    <3> QED BY <2>3, <3>1, <3>2, <3>3
  <2>13. phase' = "running" BY <1>1 DEF Launched
  <2>14. GridOf(call)' = GridOf(call) /\ ThreadsOf(call)' = ThreadsOf(call)
         /\ OutputSize(call)' = OutputSize(call)
    BY <1>1
  <2> QED BY <1>1, <2>3, <2>6, <2>10, <2>11, <2>12, <2>13, <2>14 DEF FlatInv
<1> QED BY <1>2, <1>3

\* A block starts when the one before has ended.
LEMMA StartBlockWrites ==
  ASSUME FlatInv, LaunchInv, StartBlock
  PROVE  FlatInv'
<1>1. PICK b \in grid :
         /\ Launched /\ BlockEnded
         /\ block' = b /\ grid' = grid \ {b}
         /\ thread' = [t \in ThreadsOf(call) |->
                          [at |-> IF call.op = "gemm_tiled" /\ call.k = 0
                                  THEN "store" ELSE "start", k0 |-> 0, acc |-> <<>>]]
         /\ UNCHANGED <<C, phase, call, backend>>
  BY DEF StartBlock, HostUnchanged
<1>2. CASE call.op \in Products BY <1>1, <1>2, ProductRuns DEF Launched
<1>3. CASE call.op \notin Products
  <2>1. call \in Operations /\ call.op \in Flat BY <1>1, <1>3, FlatRuns
  <2>2. /\ DOMAIN C = 0 .. OutputSize(call) - 1
        /\ grid \subseteq GridOf(call)
        /\ NoThreads \/ (block \in GridOf(call) /\ DOMAIN thread = ThreadsOf(call))
        /\ \A e \in GridOf(call), t \in ThreadsOf(call) :
              \/ e \in grid
              \/ ~NoThreads /\ e = block /\ thread[t].at # "done"
              \/ Written(e, t)
    BY <1>1, <1>3 DEF FlatInv
  <2>3. /\ DOMAIN thread' = ThreadsOf(call)
        /\ \A t \in ThreadsOf(call) : thread'[t].at # "done"
    BY <1>1
  <2>4. ASSUME NEW e \in GridOf(call), NEW t \in ThreadsOf(call)
        PROVE  \/ e \in grid'
               \/ ~NoThreads' /\ e = block' /\ thread'[t].at # "done"
               \/ Written(e, t)'
    <3>1. CASE e = b
      <4>1. ~NoThreads' BY <2>3 DEF NoThreads
      <4> QED BY <1>1, <2>3, <3>1, <4>1
    <3>2. CASE e # b /\ e \in grid BY <1>1, <3>2
    <3>3. CASE e \notin grid
      <4>1. ~(~NoThreads /\ thread[t].at # "done") BY <1>1, <2>2 DEF BlockEnded
      <4>2. Written(e, t) BY <2>2, <3>3, <4>1
      <4>3. \A c \in DOMAIN C : Right(c) => Right(c)' BY <1>1, SameRight
      <4> QED BY <1>1, <2>1, <2>2, <4>2, <4>3, WrittenStays
    <3> QED BY <3>1, <3>2, <3>3
  <2>5. phase' = "running" BY <1>1 DEF Launched
  <2>6. GridOf(call)' = GridOf(call) /\ ThreadsOf(call)' = ThreadsOf(call)
        /\ OutputSize(call)' = OutputSize(call)
    BY <1>1
  <2> QED BY <1>1, <2>2, <2>3, <2>4, <2>5, <2>6 DEF FlatInv
<1> QED BY <1>2, <1>3

\* At the end every cell has been written.
LEMMA EndLaunchWrites ==
  ASSUME FlatInv, LaunchInv, EndLaunch
  PROVE  FlatInv'
<1>1. /\ Launched /\ BlockEnded /\ grid = {} /\ phase' = "returned"
      /\ UNCHANGED <<C, call, backend>>
  BY DEF EndLaunch, HostUnchanged
<1>2. SUFFICES ASSUME call.op \notin AllProducts PROVE IsMeaning'
  BY <1>1 DEF FlatInv, Launched
<1>3. call.op \notin Products BY <1>2 DEF AllProducts
<1>4. call \in Operations /\ call.op \in Flat BY <1>1, <1>3, FlatRuns
<1>5. DOMAIN C = 0 .. OutputSize(call) - 1 BY <1>1, <1>3 DEF FlatInv
<1>6. ASSUME NEW b \in GridOf(call), NEW t \in ThreadsOf(call) PROVE Written(b, t)
  BY <1>1, <1>3 DEF FlatInv, BlockEnded
<1>7. ASSUME NEW c \in DOMAIN C PROVE Right(c)
  <2>1. c \in 0 .. OutputSize(call) - 1 BY <1>5
  <2>2. PICK b \in GridOf(call), t \in ThreadsOf(call) : \E w \in Writes(call, b, t) : w[1] = c
    BY <1>4, <2>1, LaunchWrites
  <2> QED BY <1>6, <2>2 DEF Written
<1> QED BY <1>1, <1>5, <1>7 DEF IsMeaning, Right

\* At the beginning no block has started.
LEMMA LaunchBegins ==
  ASSUME NEW o \in Operations, Launch(o)
  PROVE  FlatInv'
<1>1. /\ grid' = GridOf(o) /\ thread' = <<>> /\ phase' = "running" /\ call' = o
      /\ C' = [c \in 0 .. OutputSize(o) - 1 |-> Garbage]
  BY DEF Launch, Ask
<1>2. DOMAIN C' = 0 .. OutputSize(o) - 1 BY <1>1
<1>3. GridOf(call)' = GridOf(o) /\ OutputSize(call)' = OutputSize(o) BY <1>1
<1> QED BY <1>1, <1>2, <1>3 DEF FlatInv, NoThreads

\* A kernel of the CPU computes all its cells at once.
LEMMA HostWrites ==
  ASSUME NEW o \in Operations, RunHost(o) \/ CallCublas(o)
  PROVE  FlatInv'
<1>1. CASE RunHost(o)
  <2>1. /\ call' = o /\ phase' = "returned"
        /\ C' = [c \in 0 .. OutputSize(o) - 1 |-> HostCell(o, c)]
    BY <1>1 DEF RunHost
  <2>2. SUFFICES ASSUME o.op \notin AllProducts PROVE IsMeaning'
    BY <2>1 DEF FlatInv, Launched
  <2>3. \A c \in 0 .. OutputSize(o) - 1 : C'[c] = Meaning(o, c) BY <2>1, <2>2, HostMeaning
  <2>4. DOMAIN C' = 0 .. OutputSize(o) - 1 BY <2>1
  <2> QED BY <2>1, <2>3, <2>4 DEF IsMeaning, Right
<1>2. CASE CallCublas(o)
  <2>1. call' = o /\ phase' = "returned" /\ o.op \in AllProducts
    BY <1>2 DEF CallCublas, AllProducts
  <2> QED BY <2>1 DEF FlatInv, Launched
<1> QED BY <1>1, <1>2

LEMMA MeaningStays ==
  ASSUME FlatInv, UNCHANGED <<C, call, phase>>, ~Launched'
  PROVE  FlatInv'
<1>1. IsMeaning => IsMeaning' BY DEF IsMeaning, Right
<1> QED BY <1>1 DEF FlatInv, IsGemm

\* What belongs to gemm_tiled_k alone.
LEMMA OnlyTiled ==
  ASSUME BarrierInv, LaunchInv, NEW t \in DOMAIN thread,
         Stage(t) \/ Multiply(t) \/ Store(t)
  PROVE  FlatInv'
<1>1. /\ Launched /\ call.op = "gemm_tiled" /\ call' = call /\ phase' = phase
  BY DEF Stage, Multiply, Store
<1> QED BY <1>1, ProductRuns DEF Launched, Products

\* No thread of these operators is at a barrier.
LEMMA SyncWrites ==
  ASSUME FlatInv, BarrierInv, LaunchInv, SyncStaged \/ SyncMultiplied
  PROVE  FlatInv'
<1>1. /\ Launched /\ thread # <<>> /\ UNCHANGED <<phase, call>>
      /\ \A t \in DOMAIN thread : thread[t].at \in {"staged", "multiplied"}
  BY DEF SyncStaged, SyncMultiplied, Sync
<1>2. CASE call.op \in Products BY <1>1, <1>2, ProductRuns DEF Launched
<1>3. CASE call.op \notin Products
  <2>1. call \in Operations /\ call.op \in Flat BY <1>1, <1>3, FlatRuns
  <2>2. DOMAIN thread = ThreadsOf(call) BY <1>1, <1>3 DEF FlatInv, NoThreads
  <2>3. <<0>> \in ThreadsOf(call)
    <3>1. 0 \in 0 .. BlockThreads - 1 BY KernelsAssumption DEF Positive
    <3> QED BY <2>1, <3>1, FlatLaunch
  <2>4. thread[<<0>>].at \in {"start", "done"}
    <3>1. call.op # "gemm_tiled" BY <1>3 DEF Products
    <3> QED BY <2>2, <2>3, <3>1 DEF BarrierInv, InStep
  <2> QED BY <1>1, <2>2, <2>3, <2>4
<1> QED BY <1>2, <1>3

LEMMA StutterKeepsMeaning ==
  ASSUME FlatInv, LaunchInv, UNCHANGED kernelVars
  PROVE  FlatInv'
<1>1. UNCHANGED <<C, call, phase, backend, grid, block, thread>>
  BY DEF kernelVars, gemmVars, launchVars
<1>2. CASE ~Launched BY <1>1, <1>2, MeaningStays DEF Launched, OnHost
<1>3. CASE Launched /\ call.op \in Products BY <1>1, <1>3, ProductRuns DEF Launched
<1>4. CASE Launched /\ call.op \notin Products
  <2>1. GridOf(call)' = GridOf(call) /\ ThreadsOf(call)' = ThreadsOf(call)
        /\ OutputSize(call)' = OutputSize(call)
    BY <1>1
  <2>2. \A b, t : Written(b, t) => Written(b, t)' BY <1>1 DEF Written, Right
  <2>3. phase' = "running" BY <1>1, <1>4 DEF Launched
  <2> QED BY <1>1, <1>4, <2>1, <2>2, <2>3 DEF FlatInv, NoThreads
<1> QED BY <1>2, <1>3, <1>4

LEMMA FlatInit == KernelInit => FlatInv
BY DEF KernelInit, GemmInit, FlatInv, Launched

\* FlatInv is inductive, given the invariants above.
LEMMA FlatNext ==
  BufferInv /\ GemmInv /\ BarrierInv /\ LaunchInv /\ FlatInv /\ [KernelNext]_kernelVars => FlatInv'
<1> SUFFICES ASSUME BufferInv, GemmInv, BarrierInv, LaunchInv, FlatInv, [KernelNext]_kernelVars
             PROVE  FlatInv'
  OBVIOUS
<1>1. CASE OnHost /\ (GemmNext /\ UNCHANGED <<backend, launchVars>>)
  <2>1. ~Launched' BY <1>1 DEF Launched, OnHost
  <2>2. CASE phase' = "returned" /\ ~IsGemm'
    <3>1. PackInv BY <1>1 DEF BufferInv
    <3>2. UNCHANGED <<C, call, phase>> BY <1>1, <2>2, <3>1, GemmLeavesResult
    <3> QED BY <2>1, <3>2, MeaningStays
  <2>3. CASE ~(phase' = "returned" /\ ~IsGemm') BY <2>1, <2>3 DEF FlatInv
  <2> QED BY <2>2, <2>3
<1>2. ASSUME NEW o \in Operations, RunHost(o) \/ Launch(o) \/ CallCublas(o) PROVE FlatInv'
  BY <1>2, HostWrites, LaunchBegins
<1>3. CASE StartBlock BY <1>3, StartBlockWrites
<1>4. CASE EndLaunch BY <1>4, EndLaunchWrites
<1>5. ASSUME NEW t \in DOMAIN thread, RunThread(t) \/ Stage(t) \/ Multiply(t) \/ Store(t)
      PROVE  FlatInv'
  BY <1>5, RunThreadWrites, OnlyTiled
<1>6. CASE SyncStaged \/ SyncMultiplied BY <1>6, SyncWrites
<1>7. CASE UNCHANGED kernelVars BY <1>7, StutterKeepsMeaning
<1> QED BY <1>1, <1>2, <1>3, <1>4, <1>5, <1>6, <1>7 DEF KernelNext, KernelCall, DeviceStep

LEMMA FlatInvImplies == FlatInv => OutputsAreMeaning
BY DEF FlatInv, OutputsAreMeaning, IsMeaning, Right

\* Every operator other than a product, on the CPU or on the device, computes
\* in each cell of its output what its definition says (Meaning), for every
\* shape, block size and order of the blocks and threads, and writes no other.
THEOREM OperatorsAreRight == KernelSpec => []OutputsAreMeaning
<1>1. KernelInit => BufferInv /\ GemmInv /\ BarrierInv /\ LaunchInv /\ FlatInv
  BY BufferInit, GemmInvInit, BarrierInit, LaunchInit, FlatInit
<1>2. BufferInv /\ GemmInv /\ BarrierInv /\ LaunchInv /\ FlatInv /\ [KernelNext]_kernelVars
        => (BufferInv /\ GemmInv /\ BarrierInv /\ LaunchInv /\ FlatInv)'
  BY BufferStep, GemmInvNext, BarrierNext, LaunchNext, FlatNext
<1> QED BY <1>1, <1>2, FlatInvImplies, PTL DEF KernelSpec
=============================================================================
