---------------------------- MODULE MemoryPlanner ----------------------------
(***************************************************************************)
(* plan_memory (src/memory/memory_planner.cpp): after topo_order, the live *)
(* interval of every intermediate tensor, then greedy-by-size placement in *)
(* one arena.  One action per step of the order, per tensor placed and per *)
(* occupied block the search for a gap passes.  A graph has one more table *)
(* than in TopoSort: bytes, the size of a tensor, from shape and dtype.    *)
(***************************************************************************)
EXTENDS TopoSort

CONSTANT Alignment   \* kArenaAlignmentBytes

ASSUME AlignmentAssumption == Alignment \in Nat \ {0}

ASSUME SizesAssumption ==
    \A g \in Graphs : \A t \in DOMAIN g.kind : g.bytes[t] \in Nat

VARIABLES
    step,     \* position in the order of the lifetime scan
    live,     \* live[t]: first_write and last_read of each intermediate
    placed,   \* the intermediates that have an offset
    offset,   \* MemoryPlan::offset
    total,    \* MemoryPlan::total_bytes
    cur,      \* the intermediate being placed
    off,      \* the offset considered for it
    todo      \* the blocks in its way not passed yet, by their tensor

planOnlyVars == <<step, live, placed, offset, total, cur, off, todo>>
planVars == <<sortVars, planOnlyVars>>

Planned == {t \in TensorIds : graph.kind[t] = "intermediate"}

AlignUp(x) == ((x + Alignment - 1) \div Alignment) * Alignment

\* Mutant: touching endpoints do not count as overlap.
OverlapStrict(a, b) == a.first < b.last /\ b.first < a.last

\* intervals_overlap, endpoints included.
Overlap(a, b) == a.first <= b.last /\ b.first <= a.last

End(t) == offset[t] + graph.bytes[t]

\* The order of placement: larger first, then by id.
Before(t, u) ==
    \/ graph.bytes[t] > graph.bytes[u]
    \/ graph.bytes[t] = graph.bytes[u] /\ t < u

\* The order in which blocks are passed: by begin, then by end.
BlockBefore(t, u) ==
    \/ offset[t] < offset[u]
    \/ offset[t] = offset[u] /\ End(t) <= End(u)

PlanInit ==
    /\ SortInit
    /\ step = 0
    /\ live = [t \in Planned |-> [first |-> -1, last |-> -1]]
    /\ placed = {}
    /\ offset = [t \in Planned |-> 0]
    /\ total = 0 /\ cur = 0 /\ off = 0 /\ todo = {}

\* Mutant: last_read is the first read.
TrackLifetimesFirstRead ==
    /\ phase = "sorted" /\ step < Len(order)
    /\ LET ins == {graph.inputs[order[step + 1]][k] : k \in DOMAIN graph.inputs[order[step + 1]]}
           outs == {graph.outputs[order[step + 1]][k] : k \in DOMAIN graph.outputs[order[step + 1]]}
       IN  live' = [t \in Planned |->
              IF t \in outs THEN [first |-> step, last |-> step]
              ELSE IF t \in ins /\ live[t].last = live[t].first
              THEN [live[t] EXCEPT !.last = step] ELSE live[t]]
    /\ step' = step + 1
    /\ UNCHANGED <<sortVars, placed, offset, total, cur, off, todo>>

\* One step of the order: an output is born, an input is read again.
TrackLifetimes ==
    /\ phase = "sorted" /\ step < Len(order)
    /\ LET node == order[step + 1]
           ins == {graph.inputs[node][k] : k \in DOMAIN graph.inputs[node]}
           outs == {graph.outputs[node][k] : k \in DOMAIN graph.outputs[node]}
       IN  live' = [t \in Planned |->
              [first |-> IF t \in outs /\ live[t].first < 0 THEN step ELSE live[t].first,
               last |-> IF t \in ins \/ (t \in outs /\ live[t].first < 0)
                        THEN step ELSE live[t].last]]
    /\ step' = step + 1
    /\ UNCHANGED <<sortVars, placed, offset, total, cur, off, todo>>

StartPlacing ==
    /\ phase = "sorted" /\ step = Len(order)
    /\ phase' = "pick"
    /\ UNCHANGED <<graph, producer, indeg, ready, order, dep, planOnlyVars>>

\* Mutant: the cursor of the loop over the intervals does not move on.
PickAgain ==
    /\ phase = "pick" /\ placed # Planned
    /\ \E t \in Planned :
          /\ \A u \in Planned \ {t} : Before(t, u)
          /\ cur' = t /\ off' = 0
          /\ todo' = {u \in placed : Overlap(live[t], live[u])}
    /\ phase' = "scan"
    /\ UNCHANGED <<graph, producer, indeg, ready, order, dep,
                   step, live, placed, offset, total>>

\* The next tensor of the sorted intervals, and the blocks in its way: the
\* placed tensors whose lifetimes overlap its own.
PickTensor ==
    /\ phase = "pick"
    /\ \E t \in Planned \ placed :
          /\ \A u \in (Planned \ placed) \ {t} : Before(t, u)
          /\ cur' = t /\ off' = 0
          /\ todo' = {u \in placed : Overlap(live[t], live[u])}
    /\ phase' = "scan"
    /\ UNCHANGED <<graph, producer, indeg, ready, order, dep,
                   step, live, placed, offset, total>>

\* u is the next block in the way.
NextBlock(u) == u \in todo /\ \A v \in todo : BlockBefore(u, v)

\* Mutant: the offset behind a block is not aligned.
PassBlockUnaligned ==
    /\ phase = "scan"
    /\ \E u \in todo :
          /\ NextBlock(u)
          /\ off + graph.bytes[cur] > offset[u]
          /\ off' = IF End(u) > off THEN End(u) ELSE off
          /\ todo' = todo \ {u}
    /\ UNCHANGED <<sortVars, step, live, placed, offset, total, cur>>

\* Mutant: the offset may move back, to the end of a nested block.
PassBlockBackwards ==
    /\ phase = "scan"
    /\ \E u \in todo :
          /\ NextBlock(u)
          /\ off + graph.bytes[cur] > offset[u]
          /\ off' = AlignUp(End(u))
          /\ todo' = todo \ {u}
    /\ UNCHANGED <<sortVars, step, live, placed, offset, total, cur>>

\* Mutant: a gap the tensor fits in is passed as well.
PassBlockAlways ==
    /\ phase = "scan"
    /\ \E u \in todo :
          /\ NextBlock(u)
          /\ off' = IF AlignUp(End(u)) > off THEN AlignUp(End(u)) ELSE off
          /\ todo' = todo \ {u}
    /\ UNCHANGED <<sortVars, step, live, placed, offset, total, cur>>

\* The tensor does not fit before the block: move behind it.
PassBlock ==
    /\ phase = "scan"
    /\ \E u \in todo :
          /\ NextBlock(u)
          /\ off + graph.bytes[cur] > offset[u]
          /\ off' = IF AlignUp(End(u)) > off THEN AlignUp(End(u)) ELSE off
          /\ todo' = todo \ {u}
    /\ UNCHANGED <<sortVars, step, live, placed, offset, total, cur>>

\* Mutant: the arena is as long as the tensor placed last needs.
PlaceTensorNoMax ==
    /\ phase = "scan"
    /\ todo # {} => \E u \in todo : NextBlock(u) /\ off + graph.bytes[cur] <= offset[u]
    /\ offset' = [offset EXCEPT ![cur] = off]
    /\ placed' = placed \cup {cur}
    /\ total' = off + graph.bytes[cur]
    /\ phase' = "pick"
    /\ UNCHANGED <<graph, producer, indeg, ready, order, dep,
                   step, live, cur, off, todo>>

\* The tensor fits before the next block, or there is none left.
PlaceTensor ==
    /\ phase = "scan"
    /\ todo # {} => \E u \in todo : NextBlock(u) /\ off + graph.bytes[cur] <= offset[u]
    /\ offset' = [offset EXCEPT ![cur] = off]
    /\ placed' = placed \cup {cur}
    /\ total' = IF off + graph.bytes[cur] > total THEN off + graph.bytes[cur] ELSE total
    /\ phase' = "pick"
    /\ UNCHANGED <<graph, producer, indeg, ready, order, dep,
                   step, live, cur, off, todo>>

FinishPlan ==
    /\ phase = "pick" /\ placed = Planned
    /\ total' = AlignUp(total)
    /\ phase' = "planned"
    /\ UNCHANGED <<graph, producer, indeg, ready, order, dep,
                   step, live, placed, offset, cur, off, todo>>

PlanOnlyNext ==
    \/ TrackLifetimes \/ StartPlacing \/ PickTensor \/ PassBlock
    \/ PlaceTensor \/ FinishPlan

PlanNext == (SortNext /\ UNCHANGED planOnlyVars) \/ PlanOnlyNext

PlanDone == phase \in {"planned", "failed"} /\ UNCHANGED planVars

PlanSpec == PlanInit /\ [][PlanNext \/ PlanDone]_planVars /\ WF_planVars(PlanNext)
-----------------------------------------------------------------------------
(* Properties.                                                             *)

PlanTypeOK ==
    /\ phase \in {"producers", "indegrees", "seed", "pop", "visit", "sorted",
                  "failed", "pick", "scan", "planned"}
    /\ step \in Nat
    /\ live \in [Planned -> [first : Int, last : Int]]
    /\ placed \in SUBSET Planned
    /\ offset \in [Planned -> Nat]
    /\ total \in Nat
    /\ off \in Nat
    /\ phase = "scan" => cur \in Planned \ placed
    /\ todo \subseteq placed

\* Two tensors that are live at once never share a byte of the arena
\* (memory_test.cpp, NoConflictingByteOverlap).
NoConflictingByteOverlap ==
    \A t, u \in placed :
        t # u /\ Overlap(live[t], live[u])
            => End(t) <= offset[u] \/ End(u) <= offset[t]

\* Every slot is aligned and inside the arena, and the arena is aligned.
SlotsAligned ==
    /\ \A t \in placed : offset[t] % Alignment = 0 /\ End(t) <= total
    /\ phase = "planned" => total % Alignment = 0

\* memory_planner.h: each tensor has "the lowest aligned offset that does not
\* overlap an already-placed, lifetime-conflicting tensor", and larger tensors
\* are placed first: at every lower aligned offset one of them is in the way.
LowestOffset ==
    \A t \in placed : \A o \in 0 .. offset[t] - 1 :
        o % Alignment = 0 =>
            \E u \in placed :
                /\ Before(u, t)
                /\ Overlap(live[t], live[u])
                /\ o + graph.bytes[t] > offset[u]
                /\ o < AlignUp(End(u))

\* The position of a node in the order.
Position(i) == CHOOSE p \in 0 .. Len(order) - 1 : order[p + 1] = i

Touches(i, t) ==
    \/ \E k \in DOMAIN graph.outputs[i] : graph.outputs[i][k] = t
    \/ \E k \in DOMAIN graph.inputs[i] : graph.inputs[i][k] = t

\* A tensor is live from the step that writes it, and nothing touches it
\* earlier, "through the last step that reads it (inclusive)"; one that no
\* node writes is never live.
LifetimesExact ==
    phase \in {"pick", "scan", "planned"} =>
        \A t \in Planned :
            LET steps == {Position(i) : i \in {j \in Nodes : Touches(j, t)}}
            IN  IF steps = {} THEN live[t] = [first |-> -1, last |-> -1]
                ELSE /\ live[t].first \in steps /\ live[t].last \in steps
                     /\ producer[t] = order[live[t].first + 1]
                     /\ \A s \in steps : live[t].first <= s /\ s <= live[t].last

\* The bytes of the tensors of S, one after the other, when t takes size[t].
Bytes(S, size) == Cardinality(UNION {{t} \X (1 .. size[t]) : t \in S})

LiveAt(s) == {t \in Planned : live[t].first <= s /\ s <= live[t].last}
AlignedSize == [t \in Planned |-> AlignUp(graph.bytes[t])]

\* The arena is at least what is live at any one step, and at most one
\* aligned slot per tensor (the naive sum, up to the alignment of each slot).
ArenaBounds ==
    phase = "planned" =>
        /\ \A s \in 0 .. Len(order) - 1 : Bytes(LiveAt(s), graph.bytes) <= total
        /\ total <= Bytes(Planned, AlignedSize)
=============================================================================
