# A verification of MiniTensorRT's core

TLA+ modules that model MiniTensorRT from the file it loads to the kernels it
runs, as far as correctness is a matter of order, sharing and bookkeeping
rather than of floating-point arithmetic; TLC configurations that check them on
small instances; and TLAPS proofs for every instance. `PROJECT.json` maps each
definition to the lines it models, and lists the runs, the mutants, the hazards
and the findings.

Run `tlc -config X.cfg M` for a run of the table below and `tlapm M.tla` for a
module of proofs.

## 1. Inventory

How a model gets from a file to numbers:

    json/onnx loader -> Graph -> fold_constants, fuse_matmul_bias_gelu -> Graph
      -> Executor(graph, registry, allocator):  topo_order, plan_memory, Arena,
                                                 kernel lookup
      -> run(bindings): bind, kernels in order -> MatMul -> gemm_auto
                                                 -> ThreadPool::parallel_for

    CudaExecutor(graph, weights): topo_order, plan_memory, device arena
      -> run(input): upload, launches in order, download

Everything but the pool's workers and the device's threads runs in the caller's
thread.

| Component | State | Operations | What is hard | Correct means |
|---|---|---|---|---|
| Thread pool (`backends/cpu/thread_pool`) | ranges, cursor, active count, callable pointer, stop flag; threads | constructor, `parallel_for`, destructor, `worker_loop` | interleavings, an unlocked load, two condition variables | each index once per call; nothing outlives the call; calls and shutdown end |
| Graph (`graph.cpp`) | tensors, nodes, inputs, outputs | append operations, `topo_order` | duplicate inputs, cycles, malformed graphs | a topological order, or an exception for exactly the malformed graphs |
| Memory planner (`memory_planner.cpp`) | lifetimes, offsets, arena size | `plan_memory` | inclusive lifetimes, nested blocks, alignment | tensors live at once are disjoint; lowest offset; bounded arena |
| Executor, arena, tensor storage | pool of tensors, arena, plan, allocator | constructor, `run` | storage shared between tensors, runs and the caller; exceptions half-way | results are what the graph means, under either allocator, in every run |
| Fusion (`fusion.cpp`) | matches, dropped nodes and tensors, renumbering | `fuse_matmul_bias_gelu` | several matches at once, renumbered ids | same values, valid graph, no chain left |
| Constant folding (`const_fold.cpp`) | constants, folded nodes | `fold_constants` | fixpoint over any node order, missing data | same values; no foldable node left |
| JSON and ONNX loaders | name table, graph and weights so far, the file's blob | `load_json_model`, `load_onnx_model`, item by item | malformed files, byte ranges, a tensor named before it is described | exactly the supported files load, and what is loaded is what the file describes |
| GEMM ladder (`gemm.cpp`) | thread-local packing buffers kept between calls, the mode read once, the pool | eight `gemm_*` variants, the batched product | edge tiles, buffer sizes, splits | every element of C is its full dot product, in the same order for any split; packing stays inside its buffers |
| Operator kernels (`kernels_*.cpp`) | none | one per operator | strides, broadcasting, masks, rows | each output element is computed from the elements its definition names |
| Kernel registry | lookup table | `lookup` | a kernel that is missing | found before the first run |
| Profiler | event list | `record`, `write_chrome_trace` | time axis per run | events of a track do not overlap |
| GPT-2 runner | position, KV cache | `generate_graph`, `generate_kv` | padding, positions, cache rows, context bound | both emit the same ids |
| CUDA backend | device buffers, arena; grids, threads and shared tiles of a launch | constructor, `run`, destructor of `CudaExecutor`; kernels | threads that share tiles, column-major cuBLAS, unsupported operators found mid-run | as the executor and the kernels of the CPU |

The hazards, each at its line and with the properties that cover it, are in
`PROJECT.json`.

## 2. Modules

| Module | Models | Kind |
|---|---|---|
| `ParallelFor` | what `parallel_for` promises | abstract specification |
| `ThreadPool` | `thread_pool.{h,cpp}` | component; implements `ParallelFor` |
| `ThreadPoolProofs` | | proofs about `ThreadPool` |
| `TopoSort` | `Graph::topo_order` | component |
| `MemoryPlanner` | `plan_memory` | EXTENDS `TopoSort`, whose result it uses |
| `TopoSortProofs` | | lemmas about the steps of `TopoSort`, for the modules below |
| `Executor` | `Executor`, `Arena`, shared storage | EXTENDS `MemoryPlanner`: sort, plan, allocate, run |
| `Evaluator` | what an executor promises | abstract specification |
| `CudaExecutor` | `CudaExecutor` | EXTENDS `Executor`: a third allocation, upload, download; both executors implement `Evaluator` |
| `ExecutorProofs` | | proofs about `plan_memory` (sort and plan) and about both executors |
| `Fusion` | `fuse_matmul_bias_gelu`, fused kernels | EXTENDS `TopoSort`: fuse, then sort the result |
| `FusionProofs` | | proofs about `Fusion` |
| `ConstantFolding` | `fold_constants` | EXTENDS `TopoSort`: fold, then sort the result |
| `ConstantFoldingProofs` | | proofs about `ConstantFolding` |
| `KvDecode` | the two decoders of `run_gpt2` | component |
| `KvDecodeProofs` | | proofs about `KvDecode` |
| `Gemm` | the CPU matrix products | component; uses what `ParallelFor` promises |
| `Kernels` | the operators on the CPU, the launches on the device | EXTENDS `Gemm`, which its MatMul calls |
| `KernelsProofs` | | proofs about the products on the CPU, the launches on the device, and every operator on both |
| `LoadedModel` | what a loader builds up | shared by the two loaders |
| `JsonLoader`, `OnnxLoader` | `load_json_model`, `load_onnx_model` | EXTEND `LoadedModel` |
| `Frontends` | two formats, one graph | EXTENDS both loaders, holds their properties |
| `FrontendsProofs` | | proofs about both loaders |
| `MCMemoryPlanner`, `MCExecutor`, `MCFusion`, `MCConstantFolding`, `MCKvDecode`, `MCKernels`, `MCFrontends` | | the instances TLC enumerates |

`TopoSort`, `MemoryPlanner` and `Executor` are layers of one state machine: the
constructor of the executor calls `plan_memory`, which calls `topo_order`, and
the phase says which of them is at work. The specifications are those of
the functions a caller calls: `PlanSpec` (`plan_memory`), `ExecSpec`
(the executor), `FuseSpec` and `FoldSpec` (a pass, and the sort of its result);
all contain `SortNext`.

### ThreadPool

Every critical section under `mtx_` is one action. What the code does outside it
is an action of its own: `NotifyWorkers` and `NotifyStop` (the `notify_all` that
follow a critical section), `Load` (reading `fn_ctx_` and `fn_tramp_`), `Run`. A
wait is a test of the predicate together with the decision to sleep (`Sleep`,
`AwaitBlock`), since `wait` releases the mutex and blocks in one step;
`WorkerSpuriousWake` and `OwnerSpuriousWake` are the spurious returns that C++
allows. `fn_ctx` is the number of the call whose callable it points to, which is
how a dangling pointer would show. `ran` is a history variable: how often the
latest callable has been run on each index.

There is one caller, as `thread_pool.h` demands. A call with `n <= 0` changes
nothing and is not a step. C++ integers are mathematical ones: `n` is the number
of rows of a matrix.

### TopoSort

`ScanProducers` and `ScanConsumers` are the two validating loops, each in one
action, since nothing happens between their iterations. Seeding the queue,
popping it and visiting the consumers of the popped node are one action per
iteration, because the order in which nodes are queued is the result. The
duplicates in `consumers[p]` that stem from one node are adjacent and are
visited in one action. All exceptions are the phase `failed`.

### MemoryPlanner

`TrackLifetimes` is one step of the execution order. `PickTensor` takes the next
tensor of the sorted list, with the blocks in its way (`todo`); `PassBlock` is an
iteration of the gap search that moves the offset; `PlaceTensor` is the exit of
that loop, by `break` or at the end, with the assignments that follow. Blocks with the same
begin and end may be passed in either order, which changes nothing.

### Executor

A tensor is the sequence of memory cells it covers, so sharing is visible: an
arena view is a run of arena cells at its offset, a binding is the caller's
cells. Values are terms, so that the result of a run can be compared with what
the graph means (`Meaning`, a recursive function that knows nothing of orders
and storage). A kernel is two actions, because it does not read all its inputs
before it writes its first output. The caller binds inputs and weights, all of
them the first time and any of them later (`CallerBinds`). A binding with an
unknown id throws after any part of the others has been made, as the order of a
hash table is any order.

### Fusion

`MatchAnchor` is one iteration of the matching loop, `Rebuild` the construction
of the new graph, which replaces the old one and is sorted by the actions of
`TopoSort`. `Value` evaluates a graph to terms the way the kernels compute in a
Release build: `Add` adds element by element or one row to every row, and the
fused kernel reads the first row of its third operand and writes as many rows as
its first one has. Every other operator is a function of its inputs (`Result`). Shapes are
abstracted to the number of rows. `FusionAssumption` says what a graph
that is handed to the pass is like: it can be sorted, and the kernels accept its
operands and shapes.

### ConstantFolding

`ni` walks over the nodes as the loop of the code does, one action per node
examined (`SkipNode`, `FoldNode`, `NodeWithoutData`), one per pass that changed
something (`AnotherPass`), and `Rebuild` when a pass changed nothing. The new
graph is then sorted by the actions of `TopoSort`, since `topo_order` is what
has to accept weights that had a producer. Values are terms again (`Value`). The
data handed to the pass may lack a weight and may include an input; no node
writes a weight or an input. An operator stands for a type and dtype, the key of the
registry.

### KvDecode

The two decoders in the order of `--mode bench`. A row of activations is the
term it was computed from, `Layer(x, rows)` being a block of the transformer
applied to a row and the rows it attends to, and `Predict` the arg max of the
logits. The keys and values of a position are functions of the row that enters
the layer, so the cache keeps that row. `Recomputed` is what the graph's
attention does to all positions at once, each attending to those up to it.
Rounding is left out, with it the possibility that the two orders of
summation break a tie between logits differently; that the exporters' graph is the
same network as `KVDecoder::step` is taken from how the tool uses both.
`Positions` is the number of rows of `wpe`, at least as many as the graph has
positions; behind it `step` reads past the weight, a row the model calls
`"outside"`.

### CudaExecutor

The device's executor is the CPU's with a third allocation, `"device"`: inputs,
weights and outputs have buffers of their own, intermediates are views of one
arena laid out by the same planner (`AllocateDevice`). The cells of `Executor` are
device memory here, and cells `"host"` are the vector a run returns. `Upload`
binds the one input, `LaunchKernel` dispatches on the operator's name and throws
in its turn when the device has none (`RejectKernel`), `Download` copies the one
output, `Destroy` is the destructor. Launches go to one stream and are in order,
so a kernel is again the two actions of `Executor`; what happens inside one is in
`Kernels`. `CudaSpec` covers both executors, the allocation being chosen at the
start.

### Evaluator

What a caller of either executor may rely on, without orders, storage or allocators:
`given` is the value in force of each input and weight, `answer` what the last call
returned, `Value` what the graph computes from `given`. A call gives some values and
keeps the others (`Call`), and returns (`Return`), throws before anything is computed
(`Refuse`, an unknown id) or in the middle (`Abandon`, an operator the device lacks);
the constructor may have been given the weights (`Built`) or throw (`Reject`).
`CudaExecutor` says how an executor is an `Evaluator` (`Abstract`): `Status` is read off
the phase, and both `given` and `answer` off memory, as the values that lie in the cells
of the pool and of the returned tensors. So whatever writes over a binding, a weight on the
device or a tensor already returned is a step that no `Evaluator` takes.

### Gemm

A and B are read only, so an element of them is its index. A cell of C is the
sequence of partial sums added up in it, a partial sum the sequence of products
in the order they are accumulated: cells that are equal in the model hold the same
float, bit for bit. A call of `pack_a` or `pack_b` is an action, and so are the
micro-tiles of one block; a variant without scratch is one action. In
`gemm_threaded` the workers interleave, and of `parallel_for` the model uses what
`ThreadPool` shows: each range is run by one worker, and the caller goes on after the
last. The packing buffers belong to a thread and a kernel, and keep what earlier
calls left in them (`Ensured` grows them, never shrinks them). `neon` is the build:
without NEON `gemm_neon` is `gemm_packed`. The mode of `MTRT_MATMUL` is read by the
first `gemm_auto` and kept.

### Kernels

A cell of the output holds pairs of indices, those of the elements it was computed
from, in the order and grouping of the computation. A kernel of the CPU is a
sequential loop and one action (`RunHost`), `HostCell` saying what the loop body
stores. On the device `Launch` makes a grid, `StartBlock` takes any block of it,
and `Writes` is what a thread writes. The threads of `gemm_tiled_k` interleave between barriers:
`Stage`, `Multiply` and `Store` are the stretches of one thread, `SyncStaged` and
`SyncMultiplied` the barriers, which all threads pass at once. Blocks share
only the output, so one at a time is enough. cuBLAS is external, a column-major product of what
it is handed, as the code uses it. `Meaning` defines each operator by
coordinates, without loops, strides or threads.

### JsonLoader, OnnxLoader and Frontends

A file is a record of lists, as the parser leaves it; one action reads one item
of one list, in the order of the code, until the end, an exception or an abort. Names
become ids in order of appearance. In ONNX a tensor exists from the first item
that names it, with the kind its name has in the whole file. `debug` is the build: with
assertions, the copy of a one-byte weight through `data<float>()` aborts. `ByName` is the
loaded model with names in place of ids, and `JsonMeans` and `OnnxMeans` read the whole
file at once. A JSON file that describes a name twice is refused; an ONNX file is not,
and `OnnxMeans` says which description counts (`EntryOf`): the first among the
initializers, the last among the value infos, an initializer before any value info.
`FilesAssumption` is what a parser returns: lists, and nodes with an operator, names and
attributes. An offset plus a size stays below 2^64, and the keys a JSON file must have
are there. The data of a tensor is a sequence of bytes, each known by whose it is.

## 3. Runs

| Run | Question | Bounds | Outcome |
|---|---|---|---|
| `pool` | does any interleaving break a call, lose a wake-up or block a caller or the destructor? does the pool implement `parallel_for`? | a number of threads left to a machine with 3 cores, n <= 5, 2 calls: fewer chunks than threads, as many, a short last chunk, a replaced dispatch | holds |
| `memory_planner` | is the order right, and are exactly the malformed graphs refused? can tensors that are live together overlap? is the arena as small as promised? | two nodes over all ids in and just out of range; all wirings of 3 nodes; all dags of 4 nodes, sizes 1 to 3 at alignment 2; a chain of 6 intermediates | holds |
| `executor` | does a kernel ever see, or a caller get, a wrong value, on either executor? do both implement `Evaluator`? | all dags of 4 nodes, sizes 1 and 3, both allocators and the device, 2 runs, any re-binding, an unknown id, an operator without kernel, malformed graphs | holds |
| `fusion` | does fusing biases keep every value? | chains, pairs and stacks of chains with all operands, 2 activations, extra results, 2 node orders | holds |
| `constant_folding` | is everything foldable folded, with the right values, and when does it throw? | 3 nodes, 1 input, 2 weights, all subsets of data, one operator without kernel, 2 node orders | holds |
| `kv_decode` | is the cache what a recomputation gives, and do the decoders agree? | 2 layers, prompts of 1 to 3 of 2 tokens, up to 3 new ones, graphs of 1 to 4 positions | holds |
| `kernels` | is every output element computed from the right elements, whatever the threads do, and does packing stay inside its buffers? | tiles of 2, blocks of one and of two tiles, both builds, 2 pool threads, 2 calls; device blocks of 3 threads, tiles of 2, warps of 2 by 2 tiles of 2; 22 operators and shapes | holds |
| `frontends` | which files load, and is what is loaded what the file says? | one model in both formats, and every file that differs from it in one item, in each place; ONNX files that describe a name twice; both builds | holds |
| `executor_intermediate_output` | "Outputs must be identical under both allocators" | 3 graphs | violated |
| `fusion_full_addend` | "numerics must be preserved" | as `fusion` | violated |
| `fusion_shared_add` | "no other node depends on the eliminated tensors" | as `fusion` | violated |
| `kv_bench` | "run both, assert identical output ids" | as `kv_decode` | violated |

The four violated runs are the findings of `PROJECT.json`; each checks a sentence
of the code's own documentation. A fifth disagreement needs no run:
`executor.h:31` says that `run()` never throws, and `executor.cpp:130` throws on a
binding whose id is unknown, which is the action `BeginRunUnknown`; that results are
right in the runs that follow is part of `executor`.

Why the bounds are enough. The pool's code treats workers alike and looks at
`n` only through the split: three workers with up to five indices give every
relation between `n` and the number of threads, and a second dispatch is the
first that could meet leftovers of an earlier one (the proofs below remove the
bounds). The run asks `hardware_concurrency()`, which answers 3; no run meets the answer 0,
for which only the lemma `PoolSizePos` shows that there is a worker. For the graph algorithms what matters is how lifetimes and sizes relate;
with three placed tensors, two blocks can stand in the way of a third in every
relative position, and the alignment of two lets a size be below, at and above a
multiple. Folding needs three nodes for a chain whose nodes are listed backwards, so
that every pass enables one more; the decoders need a graph shorter than, as
long as and longer than what is asked for, and two layers for a cache whose rows
depend on another's. Two runs show whatever a run leaves behind, the second after one that
was thrown as well. The products of `kernels` are below a tile, whole tiles, one more than whole tiles, and more
than one block in each of the three loops, with an inner dimension of zero among them;
the second call meets the buffers of the first. A device block has fewer threads than
cells, so that grids have several blocks and the last one idle threads. The loaders look at one
item at a time, so a file with one wrong item meets each of their checks, and the
position decides how far the loader has come.

`MaxN`, `MaxCalls`, `MaxRuns` and `MaxNew` bound how much is called; the code has no such
limit. The block and tile sizes, thread counts and thresholds of the code are constants of
the models and small in the runs. `Graphs` is the set of graphs a specification may be started on, each of
them one the type `Graph` can hold (`GraphsAssumption`).

### Fairness

`FairSpec` of `ThreadPool` gives each thread weak fairness: a thread that can run
runs at last, which is what the operating system promises. It asks for no fairness of
lock acquisition beyond that: a thread that waits for the mutex does so while
another is inside an action, and actions end. Spurious wake-ups, further calls
and the destructor have none. The sequential components have weak fairness of
their next step (a function that has been called runs on); a caller need never
call. `FoldEnds` covers the passes and the sort that follows, `RunReturns` the runs of both executors; that a call to
`parallel_for` returns is part of the live abstract specification. `Gemm`, `Kernels` and
the loaders state none: their runs check for deadlock instead, a barrier that
nobody reaches or a range that nobody claims being one.

## 4. Proofs

`ThreadPoolProofs` proves, for every number of threads, every `n` and every number of
calls:

- `TypeCorrect`, `ActiveIsExact`, `CallableNeverDangles`,
  `PlanReplacedOnlyWhenIdle`, from the accounting invariant `AInv`: `active_` is
  the number of ranges unclaimed or being run, and zero outside a call. This is
  what keeps the owner inside `parallel_for` while any worker holds a range, so
  that the unlocked load of the callable is safe.
- `RunsExactlyOnce` and `WorkIsDisjoint`, from `IInv`, which adds that every index is either
  unclaimed, held by one worker, or done, and has been run exactly when done.
  `ExactlyOnce` alone is not inductive: it says nothing of the middle of a call.
- `NobodySleepsForever`: a thread asleep on a condition that has come true has a
  notification on its way. `NoLostWakeup` is inductive together with `AInv`, which says when
  `active_` can reach zero, and with the fact that a pool which is stopping gets no further
  call (`WakeInv`).
- `Refinement`: every step of the pool is a step of `ParallelFor` or none. `Run`
  is `Work`, the return with `active_ = 0` is `Return`.

The arithmetic of the split (chunks are disjoint, within `[0, k)`, and cover it)
is in the lemmas `SplitWithin`, `SplitDisjoint` and `SplitCovers`. The only
assumption is `ConstantsAssumption`: thread counts are integers, bounds natural
numbers.

`ExecutorProofs` proves of the planner, for every set of graphs, all sizes and every
alignment:

- `PlannedTensorsAreDisjoint`: tensors whose lifetimes overlap share no byte;
- `SlotsAreAligned`: slots are aligned and inside the arena;
- `OffsetsAreLowest`: no tensor could have had a lower offset beside those placed
  before it;
- `PlanTypeCorrect`: the types.

None of these four is inductive, because each speaks of tensors that have a slot and
the search for a slot takes several steps. `PlacementInv` adds three parts:
`Passed` (in a search, the blocks passed end at or before the offset considered, and
each offset below it is refused by one of them), `PlacedFirst` (tensors
are placed in the order of `Before`) and `Lowest`, which names the block that refuses
each offset below a slot. When a slot is chosen, it begins behind the blocks passed and
ends before the next one, hence before all others, because blocks are visited by
offset (`BlockBefore`). The arithmetic of `align_up` is in `AlignUpProperties`. The
assumptions are `AlignmentAssumption` (a positive integer) and
`SizesAssumption` (byte sizes are natural numbers). These four do not depend on
`topo_order` being correct or on the lifetimes being the right ones, only on their being
fixed before placement begins. That they are right is proved besides:

- `OrderAlwaysTopological` and `SortRejectsExactlyMalformed`: the order lists each
  node once, behind the producers of its inputs, and only malformed graphs are refused,
  all of them;
- `LifetimesAreExact`: an interval spans the steps that touch its tensor.

The argument is `SortInv` (in `TopoSortProofs`, whose lemmas say what each action of
the sort does to it) and `LifetimeInv`. `QueueInv` is the heart of the first: the
in-degree of a node is the number of its inputs whose producer is not yet
settled, and a node has been queued, once, exactly when that number is zero. That a
sort which stops early has met a cycle, and one that ends has not, follows by counting: the
nodes that are left each wait for another of them. `LifetimeInv` says that after n steps
each interval spans those of the first n steps that touch the tensor.

- `ArenaIsBounded`: the arena has room for the bytes that live at any one step, and is no
  longer than the aligned slots of all tensors end to end.

A size of a set of tensors is a number of bytes (`Bytes`, the cardinality of a set of
pairs), so both bounds are about cardinalities. The lower one is an
injection of the bytes alive at a step into the arena (`DisjointSlotsFit`), which exists because their
slots do not meet. For the upper one `BoundInv` says that while tensors are placed the end of
each, rounded up, and the offset under consideration are at most the aligned sizes
of the tensors placed so far: the search starts at zero and moves only to the
end of a tensor placed before, rounded up (`AlignUpLeast`).

The same module proves of the executors, for all graphs, both allocators of the CPU and the one of the
device, and every sequence of bindings, runs and runs that throw:

- `OnlyPlannedSharing`: tensors that share a cell are intermediates of the arena with
  disjoint lifetimes;
- `NeededAreIntact`: during a run, what a later kernel reads or the caller gets holds
  its meaning. This is what makes an arena invisible;
- `RunsReturnMeaning`: results are `Meaning`, provided that they are tensors whose storage
  outlives the run (`SoundResults`). The violated run `executor_intermediate_output` has
  a graph whose result lives in the arena, and shows that the condition cannot go;
- `ExecutorsImplementEvaluator`: `RefinesEvaluator` under the same condition, said of the
  graph and the allocator (`OutlivingResults`); all graphs of the run `executor` meet it.

`PlacesInv` says where every tensor is (`Storage`: arena, own cells, or the caller's) and carries
`PlacementInv` and `OrderInv` through the constructor, so this is where the planner's
theorems are used. `RunInv` says that what is bound and what is needed holds its meaning;
the step of a kernel keeps it because a cell it writes belongs to a tensor that is
alive now (`LifetimesExact`), which shares it with no other that is (`SharingIsPlanned`), and
because its inputs come from nodes earlier in the order (`OrderIsTopological`).
`Meaning` is a recursive function over tensors. That it satisfies its equation is
proved from the order (`MeaningIs`), by the well-foundedness of positions.

For the refinement, `given` has to be known from memory alone. `GivenIs` says what lies in
the pool for a source: what was bound last, and before that nothing. The second half is not part of
`ExecInv`, since a buffer of the device exists before it is filled; `FreshInv` adds that it
is empty until the first upload. Then a step that binds nothing changes nothing that was given
(`SameGiven`), be it a kernel, a return or an exception, and a call changes what it binds
(`CallSteps`). `Value` of `Evaluator` and `Meaning` are two recursive functions, one over what was
given and one over what was bound; `ValueIsMeaning` proves them equal in a run, by induction over the
positions of the producers, and `ReturnStep` that the answer is `Value`.

`FusionProofs` proves, for all graphs that `FusionAssumption` admits, with any operators:

- `BiasChainsKeepValues`: if every chain that the pass takes ends its Add in a bias, the
  pass does not throw, every tensor of the new graph has the value that the tensor of its name had,
  and the results are the same. The two violated runs, `fusion_full_addend` and
  `fusion_shared_add`, show what happens otherwise;
- `EveryChainIsFused`: the new graph has no chain left, and two nodes and two
  tensors less for each chain of the old one;
- `FusedAlwaysSorts`: the new graph can be sorted, whatever has been fused.

`FuseInv` says that until the rebuild `chains` holds exactly the chains that begin at the nodes examined
(`MatchInv`), and afterwards that the new graph is well-formed and the sort is as
`SortInv` says. So the arguments are about the rebuild:

- The two tensors of a chain are private (`ChainIs`): one node writes them, one input reads them,
  they are no results. Hence chains have nothing in common (`Untangled`), and what
  is kept names nothing that was dropped, unless the bias of a chain is the product of
  another (`NamesKept`).
- An edge of the new graph leads from the last node of a chain to the first or the
  second one of another (`RebuiltFeeds`). A cycle through fused nodes would thus be a cycle
  of the source, which goes through all nodes of the chains (`NoNewCycle`).
- A tensor with one reader in the new graph had one reader in the old one (`FusableBefore`), so a
  chain of the new graph would be one of the old one, which had been examined
  (`NoChainLeft`).
- What Act, Add and MatMul compute one after the other is what the fused kernel computes
  (`ChainComputes`): the shapes the kernels ask for leave the bias on the left of the Add only if
  all operands have one row. Values are then compared as for constant folding, through
  `ValueUnique`.

`ConstantFoldingProofs` proves, for all graphs that `FoldAssumption` admits, in whatever order
their nodes are listed, and any choice of given data:

- `ReachesTheFixpoint`: what is folded in the end is the least set that is closed under
  folding;
- `ThrowsOnlyWithoutData`: the pass throws exactly when a node of that set reads a weight whose
  data is missing;
- `ValuesAreKept`: all constants are right at all times, and the new graph gives every
  tensor the value it had.

`FoldInv` adds to these what a pass has seen: as long as it has changed nothing, no
node behind it is foldable (`PassInv`), so the set is closed when the pass ends; that it is the
least one holds because a node is folded only when its inputs are constants that nodes of the set
compute (`FoldedInv`). The values of a graph are a recursive function, which need not exist on a
cyclic graph; `ValueExists` and `ValueUnique` prove that it does and is the only one, from
the acyclicity in `FoldAssumption`, so that values of the old and new graphs are equal
when they satisfy the same equations. `FoldAssumption` is what `fold_constants` relies on and
does not check: ids in range, one producer per tensor, none for weights and inputs, no cycle.
`topo_order`, which every executor calls, refuses all but the third of these.

`KvDecodeProofs` proves, for any number of layers, any prompts, graph lengths and
numbers of new tokens:

- `CacheAlwaysRight`: each row of the cache is what a recomputation of all tokens fed so far
  has at that layer and position;
- `DecodersAgree`: the graph emits what the cached decoder emits, until it has no
  position left.

The reason is causality (`Causal`): rows at positions up to i depend only on the tokens up
to i, which is an induction over the layers. So a step need not touch the rows of earlier
positions (`StepKeepsCache`), and padding does not change the row that predicts
(`SamePrediction`). Both sequences are then determined by the same rule from the same prompt,
which `GenInv` and `SeqInv` say of each, and `SameTokens` concludes position by position.

`KernelsProofs` proves three things about the matrix products, for all
shapes, all block and tile sizes (a block being a multiple of the tile), both
builds, and any number of threads and calls. They are theorems of `KernelSpec`, in
which every other operator may run between two products.

`PackingFits`: `pack_a` and `pack_b` write inside the thread's packing buffers.
That a panel fits is arithmetic (`PanelFits`: a
block is at most as large as the constants say, and rounding it up to whole tiles does not take it
past a multiple of the tile). That the buffer is large enough is not, since it was sized by an earlier action,
perhaps of an earlier call with other blocks: `PackInv` adds to the property
the types and, in `InBlock`, that a thread which packs has buffers for whole blocks of
its kernel and stands inside the product.

`ProductsAreRight` and `SameBitsAlways`: when a product returns, each cell of C holds the terms of its
dot product, each once and in order, in groups that depend on the depth of a block
and not on the threads. Neither property says anything before the return, so
the invariant `GemmInv` describes a product under way:

- `RangesApart`: the row ranges, those nobody has claimed and those being worked on, do not
  meet. Hence a step of one thread leaves the cells, and so the progress, of every other as it was
  (the frame of every step lemma).
- `Progress`: where a thread stands in its five loops says what each of its cells holds, namely
  its first `Count` blocks of terms: all of them left of the column block
  being computed, in that block as many as have been gone through, and one more in the rows already behind.
- `PanelBHolds` and `PanelAHolds`: a panel that is about to be multiplied holds
  the elements of this block, at the place where the micro-kernel reads them
  (`PanelAt`), zeros past the edge excepted. Whatever an earlier
  block or call left in the buffer has been overwritten.
- every row is waiting, being worked on, or final (`Final`), and the slices of
  a batch before the current one are final.

At the end no range is left, so all rows are final. That the concatenation of the blocks
of a cell is `Product` (`Summands`, a function that recurses on the number of
groups) is the one place that needs an induction. It goes through a lemma of this module, which
takes a set of naturals instead of an operator (`Induction`).

The assumptions are `GemmAssumption` and `OperationsAssumption`; that block
sizes are multiples of the tile is what the code relies on without saying so, and the
proof uses it.

It proves three more about the launches on the device.

`BarriersAlwaysMeet`: in `gemm_tiled_k` no thread waits at a
`__syncthreads` that another thread of its block has left the kernel without
reaching, for every shape and tile. `BarriersMeet` is not inductive: that all threads leave
the loop in the same round holds because they are all in the same round,
which `BarrierInv` adds (`InStep`).

`NoCellIsShared`: in a launch of any other kernel no two threads write one cell of
the output, so neither the order of the blocks nor that of the threads can matter. A thread writes an
element, a row or a query of its own number, or an element or a warp's tile at its own
coordinates; that different numbers lead to different cells is division with remainder
(`Apart`), and for the tiles it holds because the launch is refused unless the sides are
multiples of `WarpTile` (`LaunchInv`). The assumption is `OperationsAssumption`: sizes are natural
numbers.

`DeviceProductsAreRight`: when a product on the device, or the int8 product of the CPU,
returns, each cell of C is its full dot product. For the kernels without barriers that is
what a thread writes, and `ProductInv` says that the cells of the blocks and threads that are done are
complete. In `gemm_tiled_k` a cell depends on what other threads of the block have
stored in the shared tiles: between the two barriers of a round, the tiles hold the
elements of that round, zeros past the edge, and before the first barrier a thread that has
staged has written its own two of them (`TileThread`, `BlockInv`). All threads are in one
round (`BarrierInv`), so none overwrites a tile that another still reads. That rounds of
`Tile` terms end to end are the whole sum is again an induction (`TileDot` is a recursive
function), and a product of column-major cuBLAS with its operands exchanged is the
row-major product.

`OperatorsAreRight`: on either backend an operator that is no product writes exactly its output,
and each cell comes from the elements that `Meaning` names, for every shape of any rank,
every permutation and every size of a block. `Meaning` speaks of coordinates, the kernels of
offsets, strides and rows. The bridge are mixed-radix numbers:

- `Numel(s, k)` is the weight of a digit and `Coordinate` the digit (`NumelIs`,
  `CoordinateIs`); the digits are in range and determine the number (`SameCoordinates`), and
  the weighted sum of digits in range is the number that has them (`CellAt`);
- `transpose` sums those terms in the order of the output. `OffsetPermuted` says that the order
  does not matter, by an induction that keeps one more term of both sums at a time;
- rows, queries and a gathered table are the special cases of one, two or three digits
  (`WholeRows`, `TwoCoordinates`, `ThreeCoordinates`); a bias is the case where all digits but
  the last are zero (`BiasIsRow`), and it shows why the device may count elements where
  the host compares shapes: the two disagree only when there is one row, where both read
  the same element;
- a launch writes right values only (`LaunchRight`) and every cell (`LaunchWrites`), so when its
  blocks and threads are done, which `FlatInv` tracks, the output is complete.

`OperationsAssumption` says here what the kernels assert (`causal_softmax_f32`: rank two or
more and square scores; `transpose_f32`: a permutation of the rank) or take for granted (shapes are
natural numbers, a permutation has no repetition, a bias is `[D]` behind dimensions of
one, where `add_f32` asserts its number of elements only).

`FrontendsProofs` proves, for all files of either format that `FilesAssumption` admits:

- `LoadsAreExact`: a load ends well for exactly the supported files, throws for the others,
  and aborts only in a build with assertions on a one-byte weight;
- `LoadedAsDescribed`: what is then in memory is what the file describes by names, and no two
  tensors have one name. For a file that was exported from `Model` this is the
  model if the file describes it, which is the exporters' part (`ExportsDescribe`);
- `CallersCanBind`: the tensors of kind weight, and no others, have data, and every
  input of an ONNX model is announced.

A property of a finished load says nothing of one under way. `JsonInv` and `OnnxInv` say, for
each list of the file, that what has been read of it is in memory: `WellNamed`
(ids count the tensors, and names and ids determine each other), the nodes, inputs and outputs
by the ids of their names, the payload of each weight under its id. In a JSON file the tensors come
first, so ids no longer change when they are used. In an ONNX file
`ensure_tensor` adds tensors all along, so that:

- ids only become more, and what has been built by them stays true (`NodesStay`,
  `InsStay`, `OutsStay`, `WeightsStay`); what a sequence of `ensure_tensor` does is
  an induction over its names (`EnsureAllResult`);
- the shape that is recorded when a tensor is added must be the one that counts in the whole
  file. `MetaTo` says that the last of the value infos read so far is recorded; value infos
  are complete when the first tensor is added, and so is the record of every name when the
  first node is read (`LateNames`);
- a refused item proves the file unsupported: a name without a record is a name that
  nothing in the file declares.

Model-checked only: liveness (`CallsReturn` and the like, `RunReturns`, `FoldEnds`),
because the prover has no fairness. Every invariant that a passing run checks is a
theorem.

## 5. Plan

Done:

1. `ThreadPool` with `ParallelFor`, and their proofs.
2. `TopoSort`, `MemoryPlanner`, `Executor`, each on top of the one before.
3. `Fusion` and `ConstantFolding`, on top of `TopoSort`.
4. Proof that tensors live at once never share a byte.
5. Findings as runs of their own.
6. `KvDecode`: the cache against a recomputation, the decoders against each other.
7. `Gemm` and `Kernels`: which elements a product or an operator reads and writes, on
   the CPU and on the device; proofs that packing and barriers are right.
8. `JsonLoader`, `OnnxLoader`, `Frontends`.
9. `CudaExecutor` against the same `Meaning` as `Executor`.
10. Proofs from the sort to the results of a run, of both passes, of the decoders, of the
    matrix products on the CPU and on the device, of the arena's bounds, and of the loaders.
11. Proof that every other operator computes what its definition says.
12. `Evaluator`, the abstract specification of an executor, and the proof that both
    executors implement it.

Left:

13. `Tensor`'s own operations: reshape, clone, moved-from tensors; the profiler's time axis.

## 6. Not modelled

Floating-point arithmetic and therefore the kernels' numerics, the rounding of
int8 weights, and the tolerance of the golden tests. The text of files and of
traces: opening and parsing them, a JSON file that lacks a key, an offset plus a
size that wraps around 2^64. The profiler, whose events nothing reads back; the
statistics of `MemoryStats`; the benchmarks and the Python exporters.

Of the device: errors, which end the process, the cuBLAS handle, the limit
`kMaxHeadDim`, the precision of half floats.

What the code does not support or its callers do not do: two executors that run at once and
would share the pool of `gemm_auto`; copying an executor, whose plan points into the
original; binding the id of an output or an intermediate; a graph whose
intermediates are all empty. That `run()` allocates nothing, which `executor.h:31` says: what a
kernel allocates for itself is below the grain of the models. Attributes are carried by the loaders and not
interpreted by the kernels of the models.

Where `MTRT_ASSERT` fails, a build with assertions aborts. The loaders model both builds
(`debug`), the other modules a Release build.
