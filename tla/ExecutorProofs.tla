---------------------------- MODULE ExecutorProofs ----------------------------
(***************************************************************************)
(* Proofs about the memory planner and about the executors built on it,    *)
(* for all graphs, sizes, alignments, allocators and sequences of runs.    *)
(*                                                                         *)
(* First the planner.  Tensors live at once never share a byte, slots are  *)
(* aligned and inside the arena, and no tensor could have been placed at a *)
(* lower offset: none of this depends on topo_order or on how lifetimes    *)
(* are computed, only on their not changing once placement has begun.  A   *)
(* lifetime runs from the writer of a tensor to the last step that touches *)
(* it, and the arena is no longer than the aligned slots end to end.       *)
(*                                                                         *)
(* Then the executors.  Tensors share memory only where the plan says they *)
(* may, and therefore every kernel reads, and every run returns, what the  *)
(* graph means: the executors implement Evaluator.                         *)
(***************************************************************************)
EXTENDS CudaExecutor, TopoSortProofs

Placing == {"pick", "scan", "planned"}

\* Rounding up gives a multiple of the alignment that is not smaller.
LEMMA AlignUpProperties ==
  ASSUME NEW x \in Nat
  PROVE  AlignUp(x) \in Nat /\ x <= AlignUp(x) /\ AlignUp(x) % Alignment = 0
<1> DEFINE a == Alignment
           q == (x + a - 1) \div a
<1>1. a \in Nat /\ a >= 1 BY AlignmentAssumption
<1>2. AlignUp(x) = q * a BY DEF AlignUp
<1> HIDE DEF a
<1>3. q \in Nat /\ x + a - 1 < (q + 1) * a BY <1>1, SMTT(30)
<1> HIDE DEF q
<1>4. (q + 1) * a = q * a + a /\ q * a \in Nat BY <1>1, <1>3, SMTT(30)
<1>5. (q * a) % a = 0
  <2> DEFINE p == q * a
             d == p \div a
             r == p % a
  <2>0. p \in Nat BY <1>4
  <2> HIDE DEF p
  <2>1. d \in Int /\ r \in 0 .. a - 1 /\ p = a * d + r BY <1>1, <2>0, SMTT(30)
  <2> HIDE DEF d, r
  <2> USE DEF p
  <2>2. r = a * (q - d) BY <2>1, <1>1, <1>3, SMTT(30)
  <2>3. q - d <= 0 \/ q - d >= 1 BY <2>1, <1>3
  <2>4. CASE q - d <= 0 BY <2>4, <2>2, <2>1, <1>1, <1>3, SMTT(30) DEF r
  <2>5. CASE q - d >= 1 BY <2>5, <2>2, <2>1, <1>1, <1>3, SMTT(30)
  <2> QED BY <2>3, <2>4, <2>5
<1> QED BY <1>1, <1>2, <1>3, <1>4, <1>5 DEF a
-----------------------------------------------------------------------------
(* The invariant.                                                          *)

\* Types, as far as placement depends on them.
Typed ==
    /\ graph \in Graphs
    /\ phase \in SortPhases \cup Placing \cup {"sorted", "failed"}
    /\ step \in Nat
    /\ live \in [Planned -> [first : Int, last : Int]]
    /\ placed \in SUBSET Planned
    /\ offset \in [Planned -> Nat]
    /\ total \in Nat
    /\ off \in Nat
    /\ todo \subseteq placed
    /\ phase = "scan" => cur \in Planned \ placed
    /\ phase \notin Placing => placed = {}

\* Tensors are placed in the order of Before.
PlacedFirst ==
    /\ \A u \in placed, t \in Planned \ placed : Before(u, t)
    /\ phase = "scan" => \A t \in Planned \ placed : t # cur => Before(cur, t)

\* The gap search: the blocks passed end at or before off, and each offset
\* below off was refused because of one of them.
Passed ==
    phase = "scan" =>
        /\ off % Alignment = 0
        /\ \A u \in placed \ todo : Overlap(live[cur], live[u]) => End(u) <= off
        /\ \A o \in 0 .. off - 1 : \E u \in placed \ todo :
              /\ Overlap(live[cur], live[u])
              /\ o + graph.bytes[cur] > offset[u]
              /\ o < AlignUp(End(u))
        /\ \A u \in todo : Overlap(live[cur], live[u])

\* No offset below that of a placed tensor would have done.
Lowest ==
    \A t \in placed : \A o \in 0 .. offset[t] - 1 : \E u \in placed :
        /\ Before(u, t)
        /\ Overlap(live[t], live[u])
        /\ o + graph.bytes[t] > offset[u]
        /\ o < AlignUp(End(u))

PlacementInv ==
    /\ Typed /\ PlacedFirst /\ Passed /\ Lowest
    /\ NoConflictingByteOverlap /\ SlotsAligned

\* Sizes are natural numbers.
LEMMA SizeType ==
  ASSUME Typed, NEW t \in Planned
  PROVE  graph.bytes[t] \in Nat
BY SizesAssumption DEF Typed, Planned, TensorIds

\* So are the ends of slots.
LEMMA EndType ==
  ASSUME Typed, NEW t \in Planned
  PROVE  End(t) \in Nat /\ End(t) = offset[t] + graph.bytes[t]
BY SizeType DEF Typed, End

\* Before the first step nothing is placed.
LEMMA PlacementInit == PlanInit => PlacementInv
<1> SUFFICES ASSUME PlanInit PROVE PlacementInv OBVIOUS
<1>1. Typed BY DEF PlanInit, SortInit, Typed, SortPhases, Placing
<1>2. phase = "producers" /\ placed = {} BY DEF PlanInit, SortInit
<1> QED BY <1>1, <1>2 DEF PlacementInv, PlacedFirst, Passed, Lowest,
                          NoConflictingByteOverlap, SlotsAligned

\* A step that changes neither the graph nor anything placed, and stays out
\* of the search, keeps the invariant.
LEMMA PlacementFrame ==
  ASSUME PlacementInv,
         graph' = graph, live' = live, placed' = placed, offset' = offset,
         total' = total, off' = off, todo' = todo, Typed',
         phase' # "scan", phase' # "planned"
  PROVE  PlacementInv'
BY DEF PlacementInv, PlacedFirst, Passed, Lowest, NoConflictingByteOverlap,
       SlotsAligned, Before, Overlap, End, AlignUp, Planned, TensorIds

\* Passing a block moves off behind it, and refuses everything in between.
LEMMA PassBlockKeeps == PlacementInv /\ PassBlock => PlacementInv'
<1> SUFFICES ASSUME PlacementInv, PassBlock PROVE PlacementInv' OBVIOUS
<1> USE DEF PlacementInv
<1>1. PICK u \in todo :
        /\ NextBlock(u)
        /\ off + graph.bytes[cur] > offset[u]
        /\ off' = IF AlignUp(End(u)) > off THEN AlignUp(End(u)) ELSE off
        /\ todo' = todo \ {u}
  BY DEF PassBlock
<1>2. /\ phase = "scan" /\ phase' = phase /\ graph' = graph /\ live' = live
      /\ placed' = placed /\ offset' = offset /\ total' = total
      /\ cur' = cur /\ step' = step
  BY DEF PassBlock, sortVars
<1>3. u \in placed /\ u \in Planned /\ cur \in Planned BY <1>1, <1>2 DEF Typed
<1>4. /\ End(u) \in Nat /\ AlignUp(End(u)) \in Nat /\ End(u) <= AlignUp(End(u))
      /\ AlignUp(End(u)) % Alignment = 0 /\ graph.bytes[cur] \in Nat
      /\ offset[u] \in Nat /\ off \in Nat
  BY <1>3, EndType, SizeType, AlignUpProperties DEF Typed
<1>5. off' \in Nat /\ off <= off' /\ AlignUp(End(u)) <= off' /\ off' % Alignment = 0
  BY <1>1, <1>2, <1>4 DEF Passed
<1>6. Typed' BY <1>1, <1>2, <1>5 DEF Typed, Planned, TensorIds
<1>7. PlacedFirst' BY <1>2 DEF PlacedFirst, Before, Planned, TensorIds
<1>8. Lowest' BY <1>2 DEF Lowest, Before, Overlap, End, AlignUp
<1>9. NoConflictingByteOverlap' /\ SlotsAligned'
  BY <1>2 DEF NoConflictingByteOverlap, SlotsAligned, Overlap, End
<1>10. Passed'
  <2>1. \A v \in placed \ todo' : Overlap(live[cur], live[v]) => End(v) <= off'
    <3> TAKE v \in placed \ todo'
    <3> HAVE Overlap(live[cur], live[v])
    <3>1. CASE v = u BY <3>1, <1>4, <1>5
    <3>2. CASE v # u
      <4>1. End(v) <= off BY <3>2, <1>1, <1>2 DEF Passed
      <4>2. End(v) \in Nat BY EndType DEF Typed
      <4> QED BY <4>1, <4>2, <1>4, <1>5
    <3> QED BY <3>1, <3>2
  <2>2. \A o \in 0 .. off' - 1 : \E v \in placed \ todo' :
          /\ Overlap(live[cur], live[v])
          /\ o + graph.bytes[cur] > offset[v]
          /\ o < AlignUp(End(v))
    <3> TAKE o \in 0 .. off' - 1
    <3>1. CASE o < off
      <4>1. o \in 0 .. off - 1 BY <3>1, <1>4
      <4> QED BY <4>1, <1>1, <1>2 DEF Passed
    <3>2. CASE o >= off
      <4>1. o < AlignUp(End(u)) BY <3>2, <1>1, <1>4, <1>5
      <4>2. o + graph.bytes[cur] > offset[u] BY <3>2, <1>1, <1>4, <1>5
      <4>3. Overlap(live[cur], live[u]) BY <1>1, <1>2 DEF Passed
      <4>4. u \in placed \ todo' BY <1>1, <1>3
      <4> QED BY <4>1, <4>2, <4>3, <4>4
    <3> QED BY <3>1, <3>2, <1>4, <1>5
  <2>3. \A v \in todo' : Overlap(live[cur], live[v]) BY <1>1, <1>2 DEF Passed
  <2>4. \A v : End(v)' = End(v) BY <1>2 DEF End
  <2> QED BY <2>1, <2>2, <2>3, <2>4, <1>2, <1>5 DEF Passed, Overlap, AlignUp
<1> QED BY <1>6, <1>7, <1>8, <1>9, <1>10

\* The slot that is chosen is clear of the blocks passed, which end before it,
\* and of the others, which begin behind it.
LEMMA PlaceTensorKeeps == PlacementInv /\ PlaceTensor => PlacementInv'
<1> SUFFICES ASSUME PlacementInv, PlaceTensor PROVE PlacementInv' OBVIOUS
<1> USE DEF PlacementInv
<1>1. /\ phase = "scan" /\ phase' = "pick" /\ graph' = graph /\ live' = live
      /\ placed' = placed \cup {cur} /\ offset' = [offset EXCEPT ![cur] = off]
      /\ todo' = todo /\ off' = off /\ cur' = cur /\ step' = step
      /\ total' = IF off + graph.bytes[cur] > total THEN off + graph.bytes[cur] ELSE total
  BY DEF PlaceTensor
<1>2. cur \in Planned \ placed /\ graph.bytes[cur] \in Nat /\ off \in Nat /\ total \in Nat
  BY <1>1, SizeType DEF Typed
<1>3. total' \in Nat /\ total <= total' /\ off + graph.bytes[cur] <= total'
  BY <1>1, <1>2
<1>4. Typed' BY <1>1, <1>2, <1>3 DEF Typed, Placing, Planned, TensorIds
<1>5. \A t \in placed : offset'[t] = offset[t] /\ End(t)' = End(t) /\ t # cur
  BY <1>1, <1>2 DEF Typed, End
<1>6. \A t \in {cur} : offset'[t] = off /\ End(t)' = off + graph.bytes[cur]
  BY <1>1, <1>2 DEF Typed, End
<1>7. PlacedFirst'
  BY <1>1, <1>2 DEF PlacedFirst, Before, Planned, TensorIds
<1>8. Passed' BY <1>1 DEF Passed
<1>9. \A u \in placed : Overlap(live[cur], live[u]) =>
          End(u) <= off \/ off + graph.bytes[cur] <= offset[u]
  <2> TAKE u \in placed
  <2> HAVE Overlap(live[cur], live[u])
  <2>1. CASE u \notin todo BY <2>1, <1>1 DEF Passed
  <2>2. CASE u \in todo
    <3>1. PICK v \in todo : NextBlock(v) /\ off + graph.bytes[cur] <= offset[v]
      BY <2>2 DEF PlaceTensor
    <3>2. BlockBefore(v, u) BY <3>1, <2>2 DEF NextBlock
    <3>3. offset[v] \in Nat /\ offset[u] \in Nat BY <2>2, <3>1 DEF Typed
    <3>4. offset[v] <= offset[u] BY <3>2, <3>3 DEF BlockBefore
    <3> QED BY <3>1, <3>3, <3>4, <1>2
  <2> QED BY <2>1, <2>2
<1>10. NoConflictingByteOverlap'
  <2> SUFFICES ASSUME NEW t \in placed', NEW u \in placed', t # u,
                      Overlap(live[t], live[u])
               PROVE  End(t)' <= offset'[u] \/ End(u)' <= offset'[t]
    BY <1>1 DEF NoConflictingByteOverlap, Overlap
  <2>1. CASE t \in placed /\ u \in placed
    BY <2>1, <1>5 DEF NoConflictingByteOverlap
  <2>2. CASE t = cur
    <3>1. u \in placed /\ Overlap(live[cur], live[u]) BY <2>2, <1>1
    <3>2. offset'[t] = off /\ End(t)' = off + graph.bytes[cur] BY <2>2, <1>6
    <3>3. offset'[u] = offset[u] /\ End(u)' = End(u) BY <3>1, <1>5
    <3> QED BY <3>1, <3>2, <3>3, <1>9
  <2>3. CASE u = cur
    <3>1. t \in placed /\ Overlap(live[cur], live[t]) BY <2>3, <1>1 DEF Overlap
    <3>2. offset'[u] = off /\ End(u)' = off + graph.bytes[cur] BY <2>3, <1>6
    <3>3. offset'[t] = offset[t] /\ End(t)' = End(t) BY <3>1, <1>5
    <3> QED BY <3>1, <3>2, <3>3, <1>9
  <2> QED BY <2>1, <2>2, <2>3, <1>1
<1>11. SlotsAligned'
  <2>1. \A t \in placed' : offset'[t] % Alignment = 0 /\ End(t)' <= total'
    <3> TAKE t \in placed'
    <3>1. CASE t = cur BY <3>1, <1>1, <1>3, <1>6 DEF Passed
    <3>2. CASE t \in placed
      <4>1. offset[t] % Alignment = 0 /\ End(t) <= total /\ End(t) \in Nat
        BY <3>2, EndType DEF SlotsAligned, Typed
      <4> QED BY <4>1, <3>2, <1>2, <1>3, <1>5
    <3> QED BY <3>1, <3>2, <1>1
  <2> QED BY <2>1, <1>1 DEF SlotsAligned
<1>12. Lowest'
  <2> SUFFICES ASSUME NEW t \in placed', NEW o \in 0 .. offset'[t] - 1
               PROVE  \E u \in placed' :
                        /\ Before(u, t)
                        /\ Overlap(live[t], live[u])
                        /\ o + graph.bytes[t] > offset'[u]
                        /\ o < AlignUp(End(u)')
    BY <1>1 DEF Lowest, Before, Overlap, AlignUp
  <2>1. CASE t = cur
    <3>1. PICK u \in placed \ todo :
            /\ Overlap(live[cur], live[u])
            /\ o + graph.bytes[cur] > offset[u]
            /\ o < AlignUp(End(u))
      BY <2>1, <1>1, <1>6 DEF Passed
    <3>2. Before(u, cur) BY <3>1, <1>2 DEF PlacedFirst
    <3> QED BY <3>1, <3>2, <2>1, <1>1, <1>5
  <2>2. CASE t \in placed
    <3>1. PICK u \in placed :
            /\ Before(u, t)
            /\ Overlap(live[t], live[u])
            /\ o + graph.bytes[t] > offset[u]
            /\ o < AlignUp(End(u))
      BY <2>2, <1>5 DEF Lowest
    <3> QED BY <3>1, <1>1, <1>5
  <2> QED BY <2>1, <2>2, <1>1
<1> QED BY <1>4, <1>7, <1>8, <1>10, <1>11, <1>12

\* Every step keeps the invariant.
LEMMA PlacementNext == PlacementInv /\ [PlanNext \/ PlanDone]_planVars => PlacementInv'
<1> SUFFICES ASSUME PlacementInv, [PlanNext \/ PlanDone]_planVars
             PROVE  PlacementInv'
  OBVIOUS
<1> USE DEF PlacementInv
<1>1. CASE SortNext /\ UNCHANGED planOnlyVars
  <2>1. /\ graph' = graph /\ phase \in SortPhases
        /\ phase' \in SortPhases \cup {"sorted", "failed"}
    BY <1>1, SortStep
  <2>2. Typed' BY <2>1, <1>1 DEF Typed, planOnlyVars, Planned, TensorIds, SortPhases, Placing
  <2> QED BY <2>1, <2>2, <1>1, PlacementFrame DEF planOnlyVars, SortPhases
<1>2. CASE TrackLifetimes
  <2>1. /\ phase = "sorted" /\ phase' = "sorted" /\ graph' = graph
        /\ placed' = placed /\ offset' = offset /\ total' = total /\ off' = off
        /\ todo' = todo /\ step' = step + 1
    BY <1>2 DEF TrackLifetimes, sortVars
  <2>2. live' \in [Planned -> [first : Int, last : Int]]
    BY <1>2 DEF TrackLifetimes, Typed
  <2>3. Typed' BY <2>1, <2>2 DEF Typed, Planned, TensorIds, SortPhases, Placing
  <2>4. placed' = {} BY <2>1 DEF Typed, Placing
  <2> QED BY <2>1, <2>3, <2>4 DEF PlacedFirst, Passed, Lowest,
                                  NoConflictingByteOverlap, SlotsAligned
<1>3. CASE StartPlacing
  <2>1. /\ phase' = "pick" /\ graph' = graph /\ UNCHANGED planOnlyVars
        /\ phase = "sorted"
    BY <1>3 DEF StartPlacing
  <2>2. Typed' BY <2>1 DEF Typed, planOnlyVars, Planned, TensorIds, Placing
  <2> QED BY <2>1, <2>2, PlacementFrame DEF planOnlyVars
<1>4. CASE PickTensor
  <2>1. PICK t \in Planned \ placed :
          /\ \A u \in (Planned \ placed) \ {t} : Before(t, u)
          /\ cur' = t /\ off' = 0
          /\ todo' = {u \in placed : Overlap(live[t], live[u])}
    BY <1>4 DEF PickTensor
  <2>2. /\ phase = "pick" /\ phase' = "scan" /\ graph' = graph /\ step' = step
        /\ live' = live /\ placed' = placed /\ offset' = offset /\ total' = total
    BY <1>4 DEF PickTensor
  <2>3. Typed' BY <2>1, <2>2 DEF Typed, Planned, TensorIds, Placing
  <2>4. PlacedFirst' BY <2>1, <2>2 DEF PlacedFirst, Before, Planned, TensorIds
  <2>5. Lowest' BY <2>2 DEF Lowest, Before, Overlap, End, AlignUp
  <2>6. NoConflictingByteOverlap' /\ SlotsAligned'
    BY <2>2 DEF NoConflictingByteOverlap, SlotsAligned, Overlap, End
  <2>7. Passed'
    <3>1. 0 % Alignment = 0 BY AlignmentAssumption
    <3> QED BY <2>1, <2>2, <3>1 DEF Passed, Overlap
  <2> QED BY <2>3, <2>4, <2>5, <2>6, <2>7
<1>5. CASE PassBlock BY <1>5, PassBlockKeeps
<1>6. CASE PlaceTensor BY <1>6, PlaceTensorKeeps
<1>7. CASE FinishPlan
  <2>1. /\ phase' = "planned" /\ graph' = graph /\ step' = step /\ live' = live
        /\ placed' = placed /\ offset' = offset /\ total' = AlignUp(total)
        /\ off' = off /\ todo' = todo /\ phase = "pick"
    BY <1>7 DEF FinishPlan
  <2>2. /\ total \in Nat /\ AlignUp(total) \in Nat /\ total <= AlignUp(total)
        /\ AlignUp(total) % Alignment = 0
    BY AlignUpProperties DEF Typed
  <2>3. Typed' BY <2>1, <2>2 DEF Typed, Planned, TensorIds, Placing
  <2>4. PlacedFirst' /\ Passed' BY <2>1 DEF PlacedFirst, Passed, Before, Planned, TensorIds
  <2>5. Lowest' /\ NoConflictingByteOverlap'
    BY <2>1 DEF Lowest, NoConflictingByteOverlap, Before, Overlap, End, AlignUp
  <2>6. SlotsAligned'
    <3> SUFFICES ASSUME NEW t \in placed
                 PROVE  offset[t] % Alignment = 0 /\ End(t) <= AlignUp(total)
      BY <2>1, <2>2 DEF SlotsAligned, End
    <3>1. offset[t] % Alignment = 0 /\ End(t) <= total /\ End(t) \in Nat
      BY EndType DEF SlotsAligned, Typed
    <3> QED BY <3>1, <2>2
  <2> QED BY <2>3, <2>4, <2>5, <2>6
<1>8. CASE UNCHANGED planVars
  BY <1>8 DEF planVars, sortVars, planOnlyVars, Typed, PlacedFirst, Passed, Lowest,
              NoConflictingByteOverlap, SlotsAligned, Before, Overlap, End, AlignUp,
              Planned, TensorIds
<1> QED BY <1>1, <1>2, <1>3, <1>4, <1>5, <1>6, <1>7, <1>8
        DEF PlanNext, PlanOnlyNext, PlanDone

\* The invariant holds in every reachable state.
THEOREM PlacementInvariant == PlanSpec => []PlacementInv
BY PlacementInit, PlacementNext, PTL DEF PlanSpec

\* The variables of the planner keep their types.
THEOREM PlanTypeCorrect == PlanSpec => []PlanTypeOK
<1>1. PlacementInv => PlanTypeOK
  BY DEF PlacementInv, Typed, PlanTypeOK, SortPhases, Placing
<1> QED BY <1>1, PlacementInvariant, PTL

\* Tensors whose lifetimes overlap share no byte of the arena, whatever the
\* graph, the sizes and the alignment (memory_test.cpp,
\* NoConflictingByteOverlap).
THEOREM PlannedTensorsAreDisjoint == PlanSpec => []NoConflictingByteOverlap
<1>1. PlacementInv => NoConflictingByteOverlap BY DEF PlacementInv
<1> QED BY <1>1, PlacementInvariant, PTL

\* Slots are aligned and inside the arena, and its size is aligned.
THEOREM SlotsAreAligned == PlanSpec => []SlotsAligned
<1>1. PlacementInv => SlotsAligned BY DEF PlacementInv
<1> QED BY <1>1, PlacementInvariant, PTL

\* Each tensor has the lowest offset it can have beside those placed before
\* it (memory_planner.h).
THEOREM OffsetsAreLowest == PlanSpec => []LowestOffset
<1>1. PlacementInv => LowestOffset BY DEF PlacementInv, Lowest, LowestOffset
<1> QED BY <1>1, PlacementInvariant, PTL
-----------------------------------------------------------------------------
(* The order and the lifetimes.                                            *)

\* The steps before step n that touch t.
TouchedBefore(n, t) == {s \in 0 .. n - 1 : Touches(order[s + 1], t)}

\* An interval that begins at the writer of t and ends at the last of steps.
Spans(interval, t, steps) ==
    IF steps = {} THEN interval = [first |-> -1, last |-> -1]
    ELSE /\ interval.first \in steps /\ interval.last \in steps
         /\ producer[t] = order[interval.first + 1]
         /\ \A s \in steps : interval.first <= s /\ s <= interval.last

\* The order is complete once the sort is over, and the scan has given every
\* tensor the interval of the steps it has seen.
LifetimeInv ==
    /\ phase \in {"sorted"} \cup Placing =>
          /\ Linked /\ Checked /\ OrderIsTopological
          /\ Len(order) = NumNodes
    /\ step \in 0 .. Len(order)
    /\ phase \in SortPhases => step = 0
    /\ phase \in Placing => step = Len(order)
    /\ live \in [Planned -> [first : Int, last : Int]]
    /\ phase # "failed" => \A t \in Planned : Spans(live[t], t, TouchedBefore(step, t))

OrderInv == SortInv /\ LifetimeInv

\* Before the first step nothing is ordered and nothing is live.
LEMMA OrderInit == PlanInit => OrderInv
<1> SUFFICES ASSUME PlanInit PROVE OrderInv OBVIOUS
<1>1. SortInv BY SortInvInit DEF PlanInit
<1>2. /\ phase = "producers" /\ step = 0 /\ order = <<>>
      /\ live = [t \in Planned |-> [first |-> -1, last |-> -1]]
  BY DEF PlanInit, SortInit
<1>3. \A t \in Planned : TouchedBefore(step, t) = {}
  BY <1>2 DEF TouchedBefore
<1>4. Len(order) = 0 BY <1>2
<1> QED BY <1>1, <1>2, <1>3, <1>4 DEF OrderInv, LifetimeInv, Spans, Placing

\* One step of the order extends the intervals of what it touches.
LEMMA TrackLifetimesKeeps == OrderInv /\ TrackLifetimes => OrderInv'
<1> SUFFICES ASSUME OrderInv, TrackLifetimes PROVE OrderInv' OBVIOUS
<1> DEFINE node == order[step + 1]
           ins == {graph.inputs[node][k] : k \in DOMAIN graph.inputs[node]}
           outs == {graph.outputs[node][k] : k \in DOMAIN graph.outputs[node]}
<1>1. /\ phase = "sorted" /\ phase' = "sorted" /\ graph' = graph
      /\ producer' = producer /\ indeg' = indeg /\ ready' = ready
      /\ order' = order /\ dep' = dep /\ step < Len(order) /\ step' = step + 1
      /\ live' = [t \in Planned |->
            [first |-> IF t \in outs /\ live[t].first < 0 THEN step ELSE live[t].first,
             last |-> IF t \in ins \/ (t \in outs /\ live[t].first < 0)
                      THEN step ELSE live[t].last]]
  BY DEF TrackLifetimes, sortVars
<1>2. /\ SortInv /\ Linked /\ Checked /\ OrderIsTopological /\ SortTypes
      /\ Len(order) = NumNodes /\ step \in 0 .. Len(order)
      /\ live \in [Planned -> [first : Int, last : Int]]
      /\ \A t \in Planned : Spans(live[t], t, TouchedBefore(step, t))
  BY <1>1 DEF OrderInv, LifetimeInv, SortInv
<1>t. /\ Len(order) \in Nat /\ DOMAIN order = 1 .. Len(order) /\ step \in Nat
      /\ step + 1 \in DOMAIN order /\ node \in Nodes
  BY <1>1, <1>2, OrderTypes DEF SortTypes
<1>3. SortInv' BY <1>1, <1>2, SortInvFrame
<1>4. Planned' = Planned BY <1>1 DEF Planned, TensorIds
<1>5. live' \in [Planned -> [first : Int, last : Int]]
  BY <1>1, <1>2, <1>t
<1>6. \A t : t \in outs \/ t \in ins <=> Touches(node, t) BY DEF Touches
<1>7. ASSUME NEW t \in Planned, t \in outs, live[t].first >= 0 PROVE FALSE
  <2> DEFINE f == live[t].first
  <2>1. f \in TouchedBefore(step, t) /\ producer[t] = order[f + 1]
    BY <1>2, <1>7 DEF Spans
  <2>2. PICK k \in DOMAIN graph.outputs[node] : graph.outputs[node][k] = t
    BY <1>7
  <2>3. <<node, k>> \in OutputSlots /\ OutputAt(<<node, k>>) = t
    BY <2>2, <1>t, Slots
  <2>4. producer[t] = node BY <2>3, <1>2 DEF Linked
  <2>5. f \in 0 .. step - 1 BY <2>1 DEF TouchedBefore
  <2>6. f + 1 \in DOMAIN order /\ f + 1 # step + 1 BY <2>5, <1>t
  <2> HIDE DEF f
  <2> QED BY <2>1, <2>4, <2>6, <1>2, <1>t DEF OrderIsTopological
<1>8. ASSUME NEW t \in Planned, t \in ins PROVE live[t].first >= 0
  <2>1. PICK k \in DOMAIN graph.inputs[node] : graph.inputs[node][k] = t
    BY <1>8
  <2>2. <<node, k>> \in InputSlots /\ InputAt(<<node, k>>) = t
    BY <2>1, <1>t, Slots
  <2>3. graph.kind[t] = "intermediate" /\ t \in TensorIds BY DEF Planned
  <2>4. producer[t] # -1 BY <2>2, <2>3, <1>2 DEF Checked
  <2>5. producer[t] \in Nodes BY <2>3, <2>4, <1>2 DEF Linked
  <2>6. Feeds(producer[t], node)
    BY <2>1, <2>5, <1>2, <1>t, FeedsIsProduces DEF SortTypes
  <2>7. PICK a \in 1 .. (step + 1) - 1 : order[a] = producer[t]
    BY <2>5, <2>6, <1>2, <1>t DEF OrderIsTopological
  <2>8. PICK s \in OutputSlots : OutputAt(s) = t BY <2>3, <2>4, <1>2 DEF Linked
  <2>9. s[1] = producer[t] BY <2>8, <1>2 DEF Linked
  <2>10. Touches(producer[t], t) BY <2>8, <2>9, Slots DEF Touches, OutputAt
  <2>11. a - 1 \in 0 .. step - 1 /\ (a - 1) + 1 = a BY <1>t
  <2>12. a - 1 \in TouchedBefore(step, t)
    BY <2>7, <2>10, <2>11 DEF TouchedBefore
  <2>13. live[t].first \in TouchedBefore(step, t)
    BY <2>12, <1>2 DEF Spans
  <2> QED BY <2>13, <1>t DEF TouchedBefore
<1>9. ASSUME NEW t \in Planned PROVE Spans(live'[t], t, TouchedBefore(step + 1, t))
  <2> DEFINE old == TouchedBefore(step, t)
             new == TouchedBefore(step + 1, t)
  <2>0. /\ live[t].first \in Int /\ live[t].last \in Int
        /\ live[t] = [first |-> live[t].first, last |-> live[t].last]
        /\ live'[t].first = IF t \in outs /\ live[t].first < 0 THEN step ELSE live[t].first
        /\ live'[t].last = IF t \in ins \/ (t \in outs /\ live[t].first < 0)
                           THEN step ELSE live[t].last
        /\ live'[t] = [first |-> live'[t].first, last |-> live'[t].last]
    BY <1>1, <1>2
  <2>1. new = old \cup (IF Touches(node, t) THEN {step} ELSE {})
    <3>1. \A x : x \in 0 .. (step + 1) - 1 <=> x \in 0 .. step - 1 \/ x = step
      BY <1>t
    <3> QED BY <3>1 DEF TouchedBefore
  <2>2. old \subseteq 0 .. step - 1 BY DEF TouchedBefore
  <2>3. Spans(live[t], t, old) BY <1>2
  <2> HIDE DEF old, new
  <2>4. CASE ~Touches(node, t)
    <3>1. t \notin ins /\ t \notin outs BY <2>4, <1>6
    <3>2. live'[t] = live[t] BY <3>1, <2>0
    <3> QED BY <3>2, <2>1, <2>3, <2>4 DEF new
  <2>5. CASE t \in ins
    <3>1. live[t].first >= 0 BY <2>5, <1>8
    <3>2. old # {} BY <3>1, <2>3, <1>t DEF Spans
    <3>3. live'[t].first = live[t].first /\ live'[t].last = step
      BY <3>1, <2>0, <2>5
    <3>4. Touches(node, t) BY <2>5, <1>6
    <3>5. new = old \cup {step} BY <3>4, <2>1
    <3>6. /\ live[t].first \in old /\ producer[t] = order[live[t].first + 1]
          /\ \A s \in old : live[t].first <= s
      BY <3>2, <2>3 DEF Spans
    <3>7. ASSUME NEW s \in new PROVE live[t].first <= s /\ s <= step
      <4>1. live[t].first \in 0 .. step - 1 BY <3>6, <2>2
      <4>2. CASE s = step BY <4>1, <4>2, <1>t
      <4>3. CASE s \in old
        <5>1. s \in 0 .. step - 1 /\ live[t].first <= s BY <4>3, <3>6, <2>2
        <5> QED BY <5>1, <1>t
      <4> QED BY <4>2, <4>3, <3>5
    <3>8. new # {} BY <3>5
    <3>9. live'[t].first \in new /\ live'[t].last \in new
      BY <3>3, <3>5, <3>6
    <3> QED BY <3>3, <3>6, <3>7, <3>8, <3>9 DEF Spans, new
  <2>6. CASE t \notin ins /\ t \in outs
    <3>1. live[t].first < 0 BY <2>6, <2>0, <1>7
    <3>2. old = {}
      <4>1. ASSUME old # {} PROVE live[t].first \in 0 .. step - 1
        BY <4>1, <2>2, <2>3 DEF Spans
      <4> QED BY <4>1, <3>1, <1>t
    <3>3. live'[t].first = step /\ live'[t].last = step BY <3>1, <2>0, <2>6
    <3>4. new = {step} BY <3>2, <2>1, <2>6, <1>6
    <3>5. PICK k \in DOMAIN graph.outputs[node] : graph.outputs[node][k] = t
      BY <2>6
    <3>6. <<node, k>> \in OutputSlots /\ OutputAt(<<node, k>>) = t
      BY <3>5, <1>t, Slots
    <3>7. producer[t] = node BY <3>6, <1>2 DEF Linked
    <3>8. /\ step \in new /\ producer[t] = order[step + 1]
          /\ \A s \in new : step <= s /\ s <= step
      BY <3>4, <3>7, <1>t
    <3> QED BY <3>3, <3>8 DEF Spans, new
  <2> QED BY <2>4, <2>5, <2>6, <1>6 DEF new
<1>10. \A t : TouchedBefore(step, t)' = TouchedBefore(step + 1, t)
  BY <1>1 DEF TouchedBefore, Touches
<1>11. ASSUME NEW t \in Planned PROVE Spans(live[t], t, TouchedBefore(step, t))'
  <2> DEFINE new == TouchedBefore(step + 1, t)
  <2>1. Spans(live'[t], t, new) BY <1>9
  <2>2. TouchedBefore(step, t)' = new BY <1>10
  <2> HIDE DEF new
  <2> QED BY <2>1, <2>2, <1>1, Zenon DEF Spans
<1>12. LifetimeInv'
  <2>1. step' \in 0 .. Len(order) BY <1>1, <1>2, <1>t
  <2>2. Linked' /\ Checked' /\ OrderIsTopological' /\ NumNodes' = NumNodes
    BY <1>1, <1>2, SameGraph
  <2> QED BY <2>1, <2>2, <1>1, <1>2, <1>4, <1>5, <1>11
          DEF LifetimeInv, SortPhases, Placing
<1> QED BY <1>3, <1>12 DEF OrderInv

\* A step that leaves the sort and the lifetimes alone and stays on its side
\* of the end of the scan.
LEMMA OrderFrame ==
  ASSUME OrderInv, graph' = graph, producer' = producer, order' = order,
         indeg' = indeg, ready' = ready, dep' = dep, step' = step, live' = live,
         \/ phase' = phase
         \/ phase \in {"sorted"} \cup Placing /\ phase' \in Placing
               /\ step = Len(order)
  PROVE  OrderInv'
<1>1. SortInv' BY SortInvFrame DEF OrderInv, SortPhases, Placing
<1>2. Planned' = Planned /\ NumNodes' = NumNodes
  BY SameGraph DEF Planned
<1>3. ASSUME NEW t \in Planned
      PROVE  Spans(live[t], t, TouchedBefore(step, t))'
                <=> Spans(live[t], t, TouchedBefore(step, t))
  <2>1. TouchedBefore(step, t)' = TouchedBefore(step, t)
    BY DEF TouchedBefore, Touches
  <2> QED BY <2>1, Zenon DEF Spans
<1>4. LifetimeInv'
  BY <1>2, <1>3, SameGraph DEF OrderInv, LifetimeInv, SortPhases, Placing
<1> QED BY <1>1, <1>4 DEF OrderInv

\* Every step keeps the invariant.
LEMMA OrderNext == OrderInv /\ [PlanNext \/ PlanDone]_planVars => OrderInv'
<1> SUFFICES ASSUME OrderInv, [PlanNext \/ PlanDone]_planVars
             PROVE  OrderInv'
  OBVIOUS
<1>1. CASE SortNext /\ UNCHANGED planOnlyVars
  <2>1. /\ graph' = graph /\ phase \in SortPhases
        /\ phase' \in SortPhases \cup {"sorted", "failed"}
        /\ step' = step /\ live' = live
    BY <1>1, SortStep DEF planOnlyVars
  <2>2. SortInv' BY <1>1, SortInvNext DEF OrderInv
  <2>3. step = 0 /\ phase # "failed" BY <2>1 DEF OrderInv, LifetimeInv, SortPhases
  <2>4. /\ \A t \in Planned : Spans(live[t], t, TouchedBefore(step, t))
        /\ live \in [Planned -> [first : Int, last : Int]]
    BY <2>3 DEF OrderInv, LifetimeInv
  <2>5. Planned' = Planned /\ NumNodes' = NumNodes BY <2>1, SameGraph DEF Planned
  <2>6. ASSUME NEW t \in Planned
        PROVE  Spans(live[t], t, TouchedBefore(step, t))'
    <3>1. TouchedBefore(step, t) = {} /\ TouchedBefore(step, t)' = {}
      BY <2>1, <2>3 DEF TouchedBefore
    <3>2. live[t] = [first |-> -1, last |-> -1] BY <2>4, <3>1 DEF Spans
    <3> QED BY <3>1, <3>2, <2>1 DEF Spans
  <2>7. step' \in 0 .. Len(order')
    BY <2>1, <2>2, <2>3 DEF SortInv, SortTypes
  <2>8. phase' = "sorted" => /\ Linked' /\ Checked' /\ OrderIsTopological'
                             /\ Len(order') = NumNodes'
    BY <2>2 DEF SortInv
  <2>9. phase' \notin Placing BY <2>1 DEF SortPhases, Placing
  <2>10. LifetimeInv'
    BY <2>1, <2>3, <2>4, <2>5, <2>6, <2>7, <2>8, <2>9 DEF LifetimeInv
  <2> QED BY <2>2, <2>10 DEF OrderInv
<1>2. CASE TrackLifetimes BY <1>2, TrackLifetimesKeeps
<1>3. CASE StartPlacing
  BY <1>3, OrderFrame DEF StartPlacing, planOnlyVars, Placing
<1>4. CASE PickTensor \/ PassBlock \/ PlaceTensor \/ FinishPlan
  <2>1. /\ phase \in Placing /\ phase' \in Placing
        /\ graph' = graph /\ producer' = producer /\ order' = order
        /\ indeg' = indeg /\ ready' = ready /\ dep' = dep /\ step' = step
        /\ live' = live
    BY <1>4 DEF PickTensor, PassBlock, PlaceTensor, FinishPlan, Placing, sortVars
  <2>2. step = Len(order) BY <2>1 DEF OrderInv, LifetimeInv
  <2> QED BY <2>1, <2>2, OrderFrame
<1>5. CASE PlanDone \/ UNCHANGED planVars
  <2>1. UNCHANGED planVars BY <1>5 DEF PlanDone
  <2> QED BY <2>1, OrderFrame DEF planVars, sortVars, planOnlyVars
<1> QED BY <1>1, <1>2, <1>3, <1>4, <1>5 DEF PlanNext, PlanOnlyNext

\* The invariant holds in every reachable state.
THEOREM OrderInvariant == PlanSpec => []OrderInv
BY OrderInit, OrderNext, PTL DEF PlanSpec

\* The phases of the planner are those of the sort and its own.
LEMMA PlannerPhases ==
  ASSUME Typed
  PROVE  phase \in SortPhases \cup {"sorted", "failed"} \cup Placing
BY DEF Typed

\* No node comes before one that feeds it, and none comes twice: the executor
\* runs kernels in this order without looking back.
THEOREM OrderAlwaysTopological == PlanSpec => []OrderIsTopological
<1>1. OrderInv /\ PlacementInv => OrderIsTopological
  BY PlannerPhases DEF OrderInv, SortInv, LifetimeInv, PlacementInv
<1> QED BY <1>1, OrderInvariant, PlacementInvariant, PTL

\* topo_order throws exactly on the graphs graph.h says it throws on, and
\* orders all the nodes of the others.
THEOREM SortRejectsExactlyMalformed == PlanSpec => []FailsExactlyWhenMalformed
<1>1. OrderInv => FailsExactlyWhenMalformed
  BY SortInvImplies DEF OrderInv
<1> QED BY <1>1, OrderInvariant, PTL

\* In a complete order every step is the position of its node.
LEMMA PositionOf ==
  ASSUME SortTypes, Distinct(order), Len(order) = NumNodes
  PROVE  /\ Len(order) \in Nat
         /\ \A s \in 0 .. Len(order) - 1 :
               order[s + 1] \in Nodes /\ Position(order[s + 1]) = s
         /\ \A i \in Nodes :
               Position(i) \in 0 .. Len(order) - 1 /\ order[Position(i) + 1] = i
<1>t. /\ Len(order) \in Nat /\ DOMAIN order = 1 .. Len(order)
      /\ Elements(order) = Nodes
  BY OrderTypes, CompleteOrder
<1>1. ASSUME NEW s \in 0 .. Len(order) - 1
      PROVE  order[s + 1] \in Nodes /\ Position(order[s + 1]) = s
  <2>1. s + 1 \in DOMAIN order BY <1>t
  <2>2. order[s + 1] \in Nodes BY <2>1, <1>t, Zenon DEF Elements
  <2>3. \A p \in 0 .. Len(order) - 1 : order[p + 1] = order[s + 1] => p = s
    <3> SUFFICES ASSUME NEW p \in 0 .. Len(order) - 1, order[p + 1] = order[s + 1]
                 PROVE  p = s
      OBVIOUS
    <3>1. p + 1 \in DOMAIN order BY <1>t
    <3>2. p + 1 = s + 1 BY <3>1, <2>1, Zenon DEF Distinct
    <3> QED BY <3>2, <1>t
  <2> QED BY <2>2, <2>3, Zenon DEF Position
<1>2. ASSUME NEW i \in Nodes
      PROVE  Position(i) \in 0 .. Len(order) - 1 /\ order[Position(i) + 1] = i
  <2>1. PICK a \in DOMAIN order : order[a] = i BY <1>t, Zenon DEF Elements
  <2>2. a - 1 \in 0 .. Len(order) - 1 /\ (a - 1) + 1 = a BY <1>t
  <2>3. Position(order[(a - 1) + 1]) = a - 1 BY <2>2, <1>1
  <2> QED BY <2>1, <2>2, <2>3
<1> QED BY <1>t, <1>1, <1>2

\* The positions of the nodes that touch a tensor are the steps that do.
LEMMA Positions ==
  ASSUME SortTypes, Distinct(order), Len(order) = NumNodes, NEW t
  PROVE  {Position(i) : i \in {j \in Nodes : Touches(j, t)}}
            = TouchedBefore(Len(order), t)
<1>1. \A s \in 0 .. Len(order) - 1 :
        order[s + 1] \in Nodes /\ Position(order[s + 1]) = s
  BY PositionOf
<1>2. \A i \in Nodes :
        Position(i) \in 0 .. Len(order) - 1 /\ order[Position(i) + 1] = i
  BY PositionOf
<1>3. ASSUME NEW i \in Nodes, Touches(i, t)
      PROVE  Position(i) \in TouchedBefore(Len(order), t)
  BY <1>2, <1>3 DEF TouchedBefore
<1>4. ASSUME NEW s \in TouchedBefore(Len(order), t)
      PROVE  \E i \in {j \in Nodes : Touches(j, t)} : Position(i) = s
  <2>1. s \in 0 .. Len(order) - 1 /\ Touches(order[s + 1], t)
    BY DEF TouchedBefore
  <2> QED BY <2>1, <1>1
<1> QED BY <1>3, <1>4

\* Lifetimes are exact: from the step that writes a tensor, before which
\* nothing touches it, to the last step that reads it.
THEOREM LifetimesAreExact == PlanSpec => []LifetimesExact
<1>1. OrderInv => LifetimesExact
  <2> SUFFICES ASSUME OrderInv, phase \in Placing, NEW t \in Planned
               PROVE  LET steps == {Position(i) : i \in {j \in Nodes : Touches(j, t)}}
                      IN  Spans(live[t], t, steps)
    BY DEF LifetimesExact, Spans, Placing
  <2>1. /\ SortTypes /\ OrderIsTopological /\ Len(order) = NumNodes
        /\ step = Len(order) /\ phase # "failed"
    BY DEF OrderInv, LifetimeInv, SortInv, Placing
  <2>2. Distinct(order) BY <2>1 DEF OrderIsTopological, Distinct
  <2>3. Spans(live[t], t, TouchedBefore(Len(order), t))
    BY <2>1 DEF OrderInv, LifetimeInv
  <2> QED BY <2>1, <2>2, <2>3, Positions
<1> QED BY <1>1, OrderInvariant, PTL
-----------------------------------------------------------------------------
(* How long the arena is.                                                  *)

\* Rounding up is the least multiple that is not smaller, and so passes over
\* an aligned offset.
LEMMA AlignUpLeast ==
  ASSUME NEW x \in Nat, NEW m \in Nat, m % Alignment = 0, x <= m
  PROVE  AlignUp(x) <= m
<1> DEFINE a == Alignment
           q == (x + a - 1) \div a
           p == m \div a
<1>1. a \in Nat /\ a >= 1 BY AlignmentAssumption
<1>2. AlignUp(x) = q * a BY DEF AlignUp
<1>3. m = a * p /\ p \in Nat BY <1>1, SMTT(30)
<1> HIDE DEF a
<1>4. q \in Nat /\ q * a <= x + a - 1 BY <1>1, SMTT(30)
<1> HIDE DEF q, p
<1>5. q <= p
  <2>1. q * a <= p * a + a - 1 BY <1>1, <1>3, <1>4, SMTT(30)
  <2>2. ~(q >= p + 1) BY <2>1, <1>1, <1>3, <1>4, SMTT(30)
  <2> QED BY <2>2, <1>3, <1>4
<1> QED BY <1>1, <1>2, <1>3, <1>4, <1>5, SMTT(30)

LEMMA AlignUpBehind ==
  ASSUME NEW o \in Nat, NEW x \in Nat, o % Alignment = 0
  PROVE  AlignUp(o + x) = o + AlignUp(x)
<1> DEFINE a == Alignment
           q == (x + a - 1) \div a
           p == o \div a
           r == (o + x + a - 1) \div a
<1>1. a \in Nat /\ a >= 1 BY AlignmentAssumption
<1>2. AlignUp(x) = q * a /\ AlignUp(o + x) = r * a BY DEF AlignUp
<1>3. o = a * p /\ p \in Nat BY <1>1, SMTT(30)
<1> HIDE DEF a, p
<1>4. r = p + q
  <2>1. o + x + a - 1 = a * p + (x + a - 1) BY <1>3, <1>1
  <2>2. x + a - 1 \in Nat BY <1>1
  <2>3. q \in Nat /\ a * q <= x + a - 1 /\ x + a - 1 < a * (q + 1)
    BY <2>2, <1>1, SMTT(30)
  <2>4. r \in Nat /\ a * r <= o + x + a - 1 /\ o + x + a - 1 < a * (r + 1)
    BY <1>1, <1>3, SMTT(30)
  <2> HIDE DEF q, r
  <2>5. ~(r >= p + q + 1)
    <3> SUFFICES ASSUME r >= p + q + 1 PROVE FALSE OBVIOUS
    <3>1. a * r >= a * (p + q + 1) BY <1>1, <1>3, <2>3, <2>4, SMTT(30)
    <3>2. a * (p + q + 1) = a * p + a * (q + 1) BY <1>1, <1>3, <2>3, SMTT(30)
    <3> QED BY <3>1, <3>2, <2>1, <2>3, <2>4, <1>1, <1>3, SMTT(30)
  <2>6. ~(p + q >= r + 1)
    <3> SUFFICES ASSUME p + q >= r + 1 PROVE FALSE OBVIOUS
    <3>1. a * (p + q) >= a * (r + 1) BY <1>1, <1>3, <2>3, <2>4, SMTT(30)
    <3>2. a * (p + q) = a * p + a * q BY <1>1, <1>3, <2>3, SMTT(30)
    <3> QED BY <3>1, <3>2, <2>1, <2>3, <2>4, <1>1, <1>3, SMTT(30)
  <2> QED BY <2>3, <2>4, <2>5, <2>6, <1>3
<1>5. q \in Nat BY <1>1, SMTT(30)
<1> HIDE DEF q, r
<1> QED BY <1>1, <1>2, <1>3, <1>4, <1>5, SMTT(30)

\* The bytes counted: Bytes is how many there are.
Cells(S, size) == UNION {{t} \X (1 .. size[t]) : t \in S}

\* One tensor more adds its size.
LEMMA BytesWithOneMore ==
  ASSUME NEW S, NEW t, t \notin S, NEW size, size[t] \in Nat, IsFiniteSet(Cells(S, size))
  PROVE  /\ IsFiniteSet(Cells(S \cup {t}, size))
         /\ Bytes(S, size) \in Nat
         /\ Bytes(S \cup {t}, size) = Bytes(S, size) + size[t]
<1> DEFINE Old == Cells(S, size)
           New == {t} \X (1 .. size[t])
<1>1. Cells(S \cup {t}, size) = Old \cup New BY DEF Cells
<1>2. Old \cap New = {} BY DEF Cells
<1>3. IsFiniteSet({t}) /\ Cardinality({t}) = 1 BY FS_Singleton
<1>4. IsFiniteSet(1 .. size[t]) /\ Cardinality(1 .. size[t]) = size[t] BY FS_Interval
<1>5. IsFiniteSet(New) /\ Cardinality(New) = 1 * size[t] BY <1>3, <1>4, FS_Product
<1> HIDE DEF New
<1>6. Cardinality(Old) \in Nat BY FS_CardinalityType
<1>7. Cardinality(Old \cap New) = 0 BY <1>2, FS_EmptySet
<1>8. /\ IsFiniteSet(Old \cup New)
      /\ Cardinality(Old \cup New) = Cardinality(Old) + Cardinality(New) - Cardinality(Old \cap New)
  BY <1>5, FS_Union
<1>9. Bytes(S \cup {t}, size) = Cardinality(Old \cup New) /\ Bytes(S, size) = Cardinality(Old)
  BY <1>1 DEF Bytes, Cells
<1> DEFINE n == Cardinality(Old)
           m == Cardinality(New)
<1>10. m = size[t] /\ n \in Nat BY <1>5, <1>6
<1>11. Cardinality(Old \cup New) = n + m - 0 BY <1>7, <1>8
<1> HIDE DEF n, m
<1>12. Cardinality(Old \cup New) = n + size[t] BY <1>10, <1>11
<1> USE DEF n
<1> QED BY <1>1, <1>8, <1>9, <1>10, <1>12

\* Slots that are apart, inside an arena, hold no more bytes than it has.
LEMMA DisjointSlotsFit ==
  ASSUME NEW S, NEW size, NEW at, NEW n \in Nat,
         \A t \in S : at[t] \in Nat /\ size[t] \in Nat /\ at[t] + size[t] <= n,
         \A t, u \in S : t # u => at[t] + size[t] <= at[u] \/ at[u] + size[u] <= at[t]
  PROVE  Bytes(S, size) <= n
<1> DEFINE C == Cells(S, size)
           f == [c \in C |-> at[c[1]] + c[2]]
<1>1. \A c \in C : c[1] \in S /\ c[2] \in 1 .. size[c[1]] /\ c = <<c[1], c[2]>> BY DEF Cells
<1>2. \A c \in C : at[c[1]] + c[2] \in 1 .. n BY <1>1
<1>3. \A c, d \in C : at[c[1]] + c[2] = at[d[1]] + d[2] => c = d
  <2> TAKE c, d \in C
  <2> HAVE at[c[1]] + c[2] = at[d[1]] + d[2]
  <2>1. c[1] = d[1] BY <1>1
  <2> QED BY <2>1, <1>1
<1> HIDE DEF C
<1>4. f \in Injection(C, 1 .. n) BY <1>2, <1>3 DEF Injection, IsInjective
<1>5. IsFiniteSet(1 .. n) /\ Cardinality(1 .. n) = n BY FS_Interval
<1>6. Cardinality(C) <= Cardinality(1 .. n) BY <1>4, <1>5, FS_Injection
<1> QED BY <1>5, <1>6 DEF C, Cells, Bytes

\* The sum of the slots of S, each rounded up.
Room(S) == Bytes(S, AlignedSize)

\* No slot placed, nor the one being looked for, is further up than the slots
\* placed before it would reach one after the other.
BoundInv ==
    /\ IsFiniteSet(Cells(placed, AlignedSize)) /\ Room(placed) \in Nat
    /\ \A t \in placed : AlignUp(End(t)) <= Room(placed)
    /\ phase = "scan" => off <= Room(placed)
    /\ phase # "planned" => AlignUp(total) <= Room(placed)
    /\ phase = "planned" => placed = Planned /\ total <= Room(placed)

ArenaInv == PlacementInv /\ BoundInv

\* Nothing placed, nothing counted.
LEMMA RoomOfNone == ASSUME NEW size PROVE IsFiniteSet(Cells({}, size)) /\ Bytes({}, size) = 0
<1>1. Cells({}, size) = {} BY DEF Cells
<1> QED BY <1>1, FS_EmptySet DEF Bytes, Cells

LEMMA AlignUpZero == AlignUp(0) = 0
<1>1. 0 % Alignment = 0 BY AlignmentAssumption
<1>2. AlignUp(0) <= 0 /\ AlignUp(0) \in Nat BY <1>1, AlignUpLeast, AlignUpProperties
<1> QED BY <1>2

\* Before the first step.
LEMMA BoundInit == PlanInit => BoundInv
<1> SUFFICES ASSUME PlanInit PROVE BoundInv OBVIOUS
<1>1. phase = "producers" /\ placed = {} /\ total = 0 BY DEF PlanInit, SortInit
<1> QED BY <1>1, RoomOfNone, AlignUpZero DEF BoundInv, Room

\* A step that places nothing and does not search.
LEMMA BoundFrame ==
  ASSUME BoundInv, graph' = graph, placed' = placed, offset' = offset, total' = total,
         phase' = phase \/ phase' \notin {"scan", "planned"},
         off' = off, phase # "planned" \/ phase' = "planned"
  PROVE  BoundInv'
BY DEF BoundInv, Room, Bytes, Cells, AlignedSize, AlignUp, End, Planned, TensorIds

\* The slot looked for moves behind one that is placed.
LEMMA PassBlockBound == ArenaInv /\ PassBlock => BoundInv'
<1> SUFFICES ASSUME ArenaInv, PassBlock PROVE BoundInv' OBVIOUS
<1> USE DEF ArenaInv
<1>1. PICK u \in todo : off' = IF AlignUp(End(u)) > off THEN AlignUp(End(u)) ELSE off
  BY DEF PassBlock
<1>2. /\ phase = "scan" /\ phase' = phase /\ graph' = graph /\ placed' = placed
      /\ offset' = offset /\ total' = total
  BY DEF PassBlock, sortVars
<1>3. u \in placed BY DEF PlacementInv, Typed
<1>4. off' <= Room(placed) BY <1>1, <1>2, <1>3 DEF BoundInv
<1>5. Room(placed)' = Room(placed) /\ Cells(placed, AlignedSize)' = Cells(placed, AlignedSize)
  BY <1>2 DEF Room, Bytes, Cells, AlignedSize, AlignUp, Planned, TensorIds
<1>6. \A t \in placed : AlignUp(End(t))' = AlignUp(End(t)) BY <1>2 DEF End, AlignUp
<1>7. AlignUp(total)' = AlignUp(total) BY <1>2 DEF AlignUp
<1> QED BY <1>2, <1>4, <1>5, <1>6, <1>7 DEF BoundInv

\* One more slot, where the search has come to: the room grows by as much as
\* it takes.
LEMMA PlaceTensorBound == ArenaInv /\ PlaceTensor => BoundInv'
<1> SUFFICES ASSUME ArenaInv, PlaceTensor PROVE BoundInv' OBVIOUS
<1> USE DEF ArenaInv, PlacementInv
<1> DEFINE b == graph.bytes[cur]
<1>1. /\ phase = "scan" /\ phase' = "pick" /\ graph' = graph
      /\ placed' = placed \cup {cur} /\ offset' = [offset EXCEPT ![cur] = off]
      /\ total' = IF off + b > total THEN off + b ELSE total
  BY DEF PlaceTensor
<1>2. cur \in Planned \ placed /\ b \in Nat /\ off \in Nat /\ total \in Nat /\ off % Alignment = 0
  BY <1>1, SizeType DEF Typed, Passed
<1>3. AlignUp(b) \in Nat /\ AlignUp(off + b) = off + AlignUp(b) /\ AlignUp(total) \in Nat
  BY <1>2, AlignUpProperties, AlignUpBehind
<1>4. AlignedSize[cur] = AlignUp(b) BY <1>2 DEF AlignedSize
<1>5. /\ IsFiniteSet(Cells(placed \cup {cur}, AlignedSize))
      /\ Room(placed) \in Nat
      /\ Room(placed \cup {cur}) = Room(placed) + AlignUp(b)
  BY <1>2, <1>3, <1>4, BytesWithOneMore DEF BoundInv, Room
<1>6. AlignedSize' = AlignedSize BY <1>1 DEF AlignedSize, AlignUp, Planned, TensorIds
<1>7. /\ IsFiniteSet(Cells(placed, AlignedSize)')
      /\ Room(placed)' = Room(placed) + AlignUp(b)
  BY <1>1, <1>5, <1>6 DEF Room, Bytes, Cells
<1>8. off + AlignUp(b) <= Room(placed)' BY <1>1, <1>2, <1>3, <1>5, <1>7 DEF BoundInv
<1>9. Room(placed) <= Room(placed)' /\ Room(placed)' \in Nat BY <1>3, <1>5, <1>7
<1>10. \A t \in placed' : AlignUp(End(t)') <= Room(placed)'
  <2> TAKE t \in placed'
  <2>1. CASE t = cur
    <3>1. End(t)' = off + b BY <2>1, <1>1, <1>2 DEF Typed, End
    <3> QED BY <3>1, <1>3, <1>8
  <2>2. CASE t \in placed
    <3>1. End(t)' = End(t) /\ End(t) \in Nat BY <2>2, <1>1, <1>2, EndType DEF Typed, End
    <3>2. AlignUp(End(t)) \in Nat BY <3>1, AlignUpProperties
    <3>3. AlignUp(End(t)) <= Room(placed) BY <2>2 DEF BoundInv
    <3> QED BY <3>1, <3>2, <3>3, <1>5, <1>9
  <2> QED BY <2>1, <2>2, <1>1
<1>11. AlignUp(total') <= Room(placed)'
  <2>1. CASE total' = off + b BY <2>1, <1>3, <1>8
  <2>2. CASE total' = total BY <2>2, <1>1, <1>3, <1>5, <1>9 DEF BoundInv
  <2> QED BY <2>1, <2>2, <1>1
<1> QED BY <1>1, <1>7, <1>9, <1>10, <1>11 DEF BoundInv, AlignUp

\* Every step keeps the bound.
LEMMA BoundNext == ArenaInv /\ [PlanNext \/ PlanDone]_planVars => BoundInv'
<1> SUFFICES ASSUME ArenaInv, [PlanNext \/ PlanDone]_planVars PROVE BoundInv' OBVIOUS
<1> USE DEF ArenaInv
<1>1. CASE SortNext /\ UNCHANGED planOnlyVars
  <2>1. /\ graph' = graph /\ phase \in SortPhases
        /\ phase' \in SortPhases \cup {"sorted", "failed"}
    BY <1>1, SortStep
  <2> QED BY <2>1, <1>1, BoundFrame DEF planOnlyVars, SortPhases
<1>2. CASE TrackLifetimes
  BY <1>2, BoundFrame DEF TrackLifetimes, sortVars
<1>3. CASE StartPlacing
  BY <1>3, BoundFrame DEF StartPlacing, planOnlyVars
<1>4. CASE PickTensor
  <2>1. /\ phase = "pick" /\ phase' = "scan" /\ graph' = graph /\ off' = 0
        /\ placed' = placed /\ offset' = offset /\ total' = total
    BY <1>4 DEF PickTensor
  <2>2. AlignedSize' = AlignedSize BY <2>1 DEF AlignedSize, AlignUp, Planned, TensorIds
  <2>3. /\ Cells(placed, AlignedSize)' = Cells(placed, AlignedSize)
        /\ Room(placed)' = Room(placed)
    BY <2>1, <2>2 DEF Room, Bytes, Cells
  <2>4. \A t \in placed : AlignUp(End(t))' = AlignUp(End(t)) BY <2>1 DEF End, AlignUp
  <2>5. 0 <= Room(placed)
    <3>1. Room(placed) \in Nat BY DEF BoundInv
    <3> QED BY <3>1
  <2>6. AlignUp(total)' = AlignUp(total) BY <2>1 DEF AlignUp
  <2> QED BY <2>1, <2>3, <2>4, <2>5, <2>6 DEF BoundInv
<1>5. CASE PassBlock BY <1>5, PassBlockBound
<1>6. CASE PlaceTensor BY <1>6, PlaceTensorBound
<1>7. CASE FinishPlan
  <2>1. /\ phase = "pick" /\ phase' = "planned" /\ graph' = graph /\ placed' = placed
        /\ offset' = offset /\ total' = AlignUp(total) /\ placed = Planned
    BY <1>7 DEF FinishPlan
  <2>2. AlignedSize' = AlignedSize /\ Planned' = Planned
    BY <2>1 DEF AlignedSize, AlignUp, Planned, TensorIds
  <2>3. /\ Cells(placed, AlignedSize)' = Cells(placed, AlignedSize)
        /\ Room(placed)' = Room(placed)
    BY <2>1, <2>2 DEF Room, Bytes, Cells
  <2>4. \A t \in placed : AlignUp(End(t))' = AlignUp(End(t)) BY <2>1 DEF End, AlignUp
  <2> QED BY <2>1, <2>2, <2>3, <2>4 DEF BoundInv
<1>8. CASE UNCHANGED planVars
  BY <1>8, BoundFrame DEF planVars, sortVars, planOnlyVars
<1> QED BY <1>1, <1>2, <1>3, <1>4, <1>5, <1>6, <1>7, <1>8
        DEF PlanNext, PlanOnlyNext, PlanDone

\* What is placed is everything once the plan is done, and slots that are live
\* at one step are apart.
LEMMA ArenaInvBounds == ArenaInv => ArenaBounds
<1> SUFFICES ASSUME ArenaInv, phase = "planned" PROVE
      /\ \A s \in 0 .. Len(order) - 1 : Bytes(LiveAt(s), graph.bytes) <= total
      /\ total <= Bytes(Planned, AlignedSize)
  BY DEF ArenaBounds
<1> USE DEF ArenaInv, PlacementInv
<1>1. placed = Planned /\ total \in Nat BY DEF BoundInv, Typed
<1>2. \A s \in 0 .. Len(order) - 1 : Bytes(LiveAt(s), graph.bytes) <= total
  <2> TAKE s \in 0 .. Len(order) - 1
  <2>1. LiveAt(s) \subseteq placed BY <1>1 DEF LiveAt
  <2>2. \A t \in LiveAt(s) : offset[t] \in Nat /\ graph.bytes[t] \in Nat
                             /\ offset[t] + graph.bytes[t] <= total
    BY <2>1, <1>1, SizeType DEF Typed, SlotsAligned, End
  <2>3. \A t, u \in LiveAt(s) : t # u =>
            offset[t] + graph.bytes[t] <= offset[u] \/ offset[u] + graph.bytes[u] <= offset[t]
    <3> TAKE t, u \in LiveAt(s)
    <3>1. /\ live[t].first \in Int /\ live[t].last \in Int
          /\ live[u].first \in Int /\ live[u].last \in Int
      BY <2>1, <1>1 DEF Typed
    <3>2. /\ live[t].first <= s /\ s <= live[t].last
          /\ live[u].first <= s /\ s <= live[u].last
      BY DEF LiveAt
    <3>4. s \in Int OBVIOUS
    <3>5. Overlap(live[t], live[u]) BY <3>1, <3>2, <3>4 DEF Overlap
    <3> QED BY <3>5, <2>1 DEF NoConflictingByteOverlap, End
  <2> QED BY <2>2, <2>3, <1>1, DisjointSlotsFit
<1> QED BY <1>1, <1>2 DEF BoundInv, Room

\* The arena is no smaller than what is live at any one step and no larger
\* than all intermediates side by side, each rounded up to the alignment.
THEOREM ArenaIsBounded == PlanSpec => []ArenaBounds
<1>1. PlanInit => BoundInv BY BoundInit
<1>2. PlacementInv /\ BoundInv /\ [PlanNext \/ PlanDone]_planVars => BoundInv'
  BY BoundNext DEF ArenaInv
<1>3. PlacementInv /\ BoundInv => ArenaBounds BY ArenaInvBounds DEF ArenaInv
<1> QED BY <1>1, <1>2, <1>3, PlacementInvariant, PTL DEF PlanSpec
-----------------------------------------------------------------------------
(* The executors.                                                          *)

LatePhases ==
    {"resolve", "idle", "call", "kernel", "return", "returned", "threw"}

EarlyPhases == SortPhases \cup {"sorted"} \cup Placing
-----------------------------------------------------------------------------
(* The invariant.                                                          *)

\* What the executor takes from topo_order and plan_memory.
PlanFacts ==
    /\ graph \in Graphs /\ SortInv
    /\ Linked /\ Checked /\ OrderIsTopological /\ Len(order) = NumNodes
    /\ offset \in [Planned -> Nat]
    /\ live \in [Planned -> [first : Int, last : Int]]
    /\ allocator # "naive" =>
          /\ placed = Planned /\ NoConflictingByteOverlap
          /\ \A t \in Planned : Spans(live[t], t, TouchedBefore(Len(order), t))

\* The storage of a tensor: a view of the arena, a buffer of its own, or what
\* the caller has bound.
Storage(t) ==
    IF t \in Intermediates /\ allocator # "naive" THEN ArenaCells(t)
    ELSE IF OnDevice \/ t \notin External THEN OwnCells(t)
    ELSE IF bound[t] = 0 THEN <<>> ELSE CallerCells(t, bound[t])

\* Before storage is given out.
EarlyInv ==
    /\ PlacementInv /\ OrderInv
    /\ phase \in Placing => allocator # "naive"
    /\ phase = "planned" => placed = Planned
    /\ mem = <<>> /\ plan = <<>> /\ pc = 0 /\ runs = 0 /\ results = <<>>
    /\ bound = [t \in TensorIds |-> 0]

\* Once it has been given out.
StorageInv ==
    /\ PlanFacts
    /\ runs \in Nat /\ bound \in [TensorIds -> Nat]
    /\ \A t \in TensorIds : bound[t] <= runs
    /\ pool = [t \in TensorIds |-> Storage(t)]

PlacesInv ==
    /\ phase \in EarlyPhases \cup LatePhases \cup {"failed", "destroyed"}
    /\ phase \in EarlyPhases => EarlyInv
    /\ phase \in LatePhases => StorageInv

\* The cells of tensor hold the pieces of v in m.
Held(m, tensor, v) ==
    \A j \in DOMAIN tensor : tensor[j] \in DOMAIN m /\ m[tensor[j]] = <<v, j>>

\* The resolved kernels are a part of the order, and pc is a step of it.
PlanPrefix ==
    /\ plan \in Seq(Nodes) /\ Len(plan) <= Len(order)
    /\ \A a \in 1 .. Len(plan) : plan[a] = order[a]
    /\ phase # "resolve" => Len(plan) = Len(order)
    /\ pc \in 0 .. Len(plan)
    /\ phase \in {"call", "kernel"} => pc < Len(plan)
    /\ phase = "return" => pc = Len(plan)

\* What the caller binds next, and what the device returns next, is new.
OldCells ==
    \A c \in DOMAIN mem :
        /\ c[1] = "caller" => c[3] \in 0 .. runs
        /\ c[1] = "host" => c[3] \in 0 .. IF InRun THEN runs - 1 ELSE runs

\* A value has been given for t.
Provided(t) == bound[t] # 0 \/ (OnDevice /\ graph.kind[t] = "weight")

\* Runs read what is bound, and what earlier kernels have computed.
RunInv ==
    /\ PlanPrefix /\ OldCells
    /\ \A t \in External :
          producer[t] = -1 /\ Provided(t) => Held(mem, pool[t], Bound(t, bound[t]))
    /\ InRun => /\ \A t \in External : Provided(t)
                /\ \A t \in TensorIds : Needed(t) => Held(mem, pool[t], Meaning[t])

\* Each declared result is a tensor whose storage outlives the run: a tensor
\* of the caller, or a produced one that does not live in the arena.
SoundResults ==
    \A k \in DOMAIN graph.results :
        LET t == graph.results[k]
        IN  \/ t \in External
            \/ producer[t] # -1 /\ (t \notin Intermediates \/ allocator = "naive")

\* What is returned has its meaning until the next run, and on the device it
\* is memory of the host.
ResultsInv ==
    /\ phase \in {"idle", "returned", "destroyed"} =>
          (SoundResults => \A k \in DOMAIN results :
                              ValueIn(mem, results[k]) = Meaning[graph.results[k]])
    /\ phase \in LatePhases \ {"idle", "returned"} => results = <<>>
    /\ OnDevice => \A k \in DOMAIN results :
                      /\ results[k] = <<>> \/ 1 \in DOMAIN results[k]
                      /\ \A j \in DOMAIN results[k] : results[k][j][1] = "host"

ExecInv ==
    /\ PlacesInv
    /\ OnDevice => ForDevice(graph)
    /\ phase \in LatePhases => RunInv
    /\ ResultsInv
-----------------------------------------------------------------------------
(* Where tensors are.                                                      *)

\* The cells of a tensor: as many as it has bytes, or none yet.
LEMMA StorageCells ==
  ASSUME graph \in Graphs, NEW t \in TensorIds
  PROVE  /\ graph.bytes[t] \in Nat
         /\ \/ DOMAIN Storage(t) = 1 .. graph.bytes[t]
            \/ DOMAIN Storage(t) = {}
         /\ \A j \in DOMAIN Storage(t) :
              /\ j \in 1 .. graph.bytes[t]
              /\ Storage(t)[j] =
                   IF t \in Intermediates /\ allocator # "naive"
                   THEN <<"arena", offset[t] + j>>
                   ELSE IF OnDevice \/ t \notin External THEN <<"own", t, j>>
                   ELSE <<"caller", t, bound[t], j>>
<1>1. graph.bytes[t] \in Nat BY SizesAssumption DEF TensorIds
<1>2. CASE t \in Intermediates /\ allocator # "naive"
  BY <1>1, <1>2 DEF Storage, ArenaCells
<1>3. CASE ~(t \in Intermediates /\ allocator # "naive") /\ (OnDevice \/ t \notin External)
  BY <1>1, <1>3 DEF Storage, OwnCells
<1>4. CASE ~(t \in Intermediates /\ allocator # "naive") /\ ~(OnDevice \/ t \notin External)
  <2>1. CASE bound[t] = 0 BY <1>1, <1>4, <2>1 DEF Storage
  <2>2. CASE bound[t] # 0 BY <1>1, <1>4, <2>2 DEF Storage, CallerCells
  <2> QED BY <2>1, <2>2
<1> QED BY <1>2, <1>3, <1>4

\* Two tensors that share a cell are intermediates in the arena whose
\* lifetimes do not overlap.
LEMMA SharedCell ==
  ASSUME PlanFacts, NEW t \in TensorIds, NEW u \in TensorIds,
         NEW j \in DOMAIN Storage(t), NEW k \in DOMAIN Storage(u),
         Storage(t)[j] = Storage(u)[k]
  PROVE  \/ t = u /\ j = k
         \/ /\ t # u /\ allocator # "naive"
            /\ t \in Planned /\ u \in Planned
            /\ ~Overlap(live[t], live[u])
<1>1. graph \in Graphs BY DEF PlanFacts
<1>2. /\ graph.bytes[t] \in Nat /\ graph.bytes[u] \in Nat
      /\ j \in 1 .. graph.bytes[t] /\ k \in 1 .. graph.bytes[u]
  BY <1>1, StorageCells
<1> DEFINE inArena(x) == x \in Intermediates /\ allocator # "naive"
           own(x) == OnDevice \/ x \notin External
<1>3. /\ Storage(t)[j] = IF inArena(t) THEN <<"arena", offset[t] + j>>
                         ELSE IF own(t) THEN <<"own", t, j>>
                         ELSE <<"caller", t, bound[t], j>>
      /\ Storage(u)[k] = IF inArena(u) THEN <<"arena", offset[u] + k>>
                         ELSE IF own(u) THEN <<"own", u, k>>
                         ELSE <<"caller", u, bound[u], k>>
  BY <1>1, StorageCells
<1>4. CASE inArena(t) /\ inArena(u)
  <2>1. offset[t] + j = offset[u] + k
    <3>1. <<"arena", offset[t] + j>> = <<"arena", offset[u] + k>> BY <1>3, <1>4
    <3> QED BY <3>1
  <2>2. /\ allocator # "naive" /\ placed = Planned /\ NoConflictingByteOverlap
        /\ t \in Planned /\ u \in Planned
        /\ offset[t] \in Nat /\ offset[u] \in Nat
    BY <1>4 DEF PlanFacts, Intermediates
  <2>3. t = u => j = k BY <2>1, <2>2, <1>2
  <2>4. ASSUME t # u, Overlap(live[t], live[u]) PROVE FALSE
    <3>1. End(t) <= offset[u] \/ End(u) <= offset[t]
      BY <2>2, <2>4 DEF NoConflictingByteOverlap
    <3> QED BY <3>1, <2>1, <2>2, <1>2 DEF End
  <2> QED BY <2>2, <2>3, <2>4
<1>5. CASE ~(inArena(t) /\ inArena(u))
  <2> HIDE DEF inArena, own
  <2>1. CASE inArena(t)
    <3>1. <<"arena", offset[t] + j>> = <<"own", u, k>>
            \/ <<"arena", offset[t] + j>> = <<"caller", u, bound[u], k>>
      BY <1>3, <1>5, <2>1
    <3> QED BY <3>1
  <2>2. CASE inArena(u)
    <3>1. <<"arena", offset[u] + k>> = <<"own", t, j>>
            \/ <<"arena", offset[u] + k>> = <<"caller", t, bound[t], j>>
      BY <1>3, <1>5, <2>2
    <3> QED BY <3>1
  <2>3. CASE ~inArena(t) /\ ~inArena(u)
    <3>1. \/ <<"own", t, j>> = <<"own", u, k>>
          \/ <<"own", t, j>> = <<"caller", u, bound[u], k>>
          \/ <<"caller", t, bound[t], j>> = <<"own", u, k>>
          \/ <<"caller", t, bound[t], j>> = <<"caller", u, bound[u], k>>
      BY <1>3, <2>3
    <3>2. <<"own", t, j>> # <<"caller", u, bound[u], k>> OBVIOUS
    <3>3. <<"own", u, k>> # <<"caller", t, bound[t], j>> OBVIOUS
    <3>4. CASE <<"own", t, j>> = <<"own", u, k>> BY <3>4
    <3>5. CASE <<"caller", t, bound[t], j>> = <<"caller", u, bound[u], k>> BY <3>5
    <3> QED BY <3>1, <3>2, <3>3, <3>4, <3>5
  <2> QED BY <2>1, <2>2, <2>3
<1> QED BY <1>4, <1>5

\* What the plan establishes stays while nobody touches it.
LEMMA PlanFactsFrame ==
  ASSUME PlanFacts, allocator' = allocator,
         UNCHANGED <<graph, producer, indeg, ready, order, dep, planOnlyVars>>,
         phase' = phase \/ phase' \notin SortPhases \cup {"sorted", "failed"}
  PROVE  /\ PlanFacts'
         /\ TensorIds' = TensorIds /\ External' = External /\ Planned' = Planned
         /\ Intermediates' = Intermediates /\ (OnDevice' <=> OnDevice)
         /\ InputsOf(graph)' = InputsOf(graph)
<1>1. /\ graph' = graph /\ producer' = producer /\ order' = order
      /\ live' = live /\ placed' = placed /\ offset' = offset
  BY DEF planOnlyVars
<1>2. SortInv' BY SortInvFrame DEF PlanFacts
<1>3. /\ TensorIds' = TensorIds /\ Planned' = Planned /\ NumNodes' = NumNodes
      /\ (Linked' <=> Linked) /\ (Checked' <=> Checked)
      /\ (OrderIsTopological' <=> OrderIsTopological)
  BY <1>1, SameGraph DEF Planned
<1>4. NoConflictingByteOverlap' <=> NoConflictingByteOverlap
  BY <1>1 DEF NoConflictingByteOverlap, Overlap, End
<1>5. ASSUME NEW t \in Planned
      PROVE  Spans(live[t], t, TouchedBefore(Len(order), t))'
                <=> Spans(live[t], t, TouchedBefore(Len(order), t))
  <2>1. TouchedBefore(Len(order), t)' = TouchedBefore(Len(order), t)
    BY <1>1 DEF TouchedBefore, Touches
  <2> QED BY <1>1, <2>1, Zenon DEF Spans
<1>6. PlanFacts' BY <1>1, <1>2, <1>3, <1>4, <1>5 DEF PlanFacts
<1>7. /\ External' = External /\ Intermediates' = Intermediates
      /\ (OnDevice' <=> OnDevice) /\ InputsOf(graph)' = InputsOf(graph)
  BY <1>1, <1>3 DEF External, Intermediates, OnDevice, InputsOf
<1> QED BY <1>3, <1>6, <1>7

-----------------------------------------------------------------------------
(* The constructor.                                                        *)

\* Nothing has storage before the first step.
LEMMA PlacesInit == CudaInit => PlacesInv
<1> SUFFICES ASSUME CudaInit PROVE PlacesInv OBVIOUS
<1>1. PlanInit /\ phase = "producers" BY DEF CudaInit, ExecInit, PlanInit, SortInit
<1>2. PlacementInv /\ OrderInv BY <1>1, PlacementInit, OrderInit
<1>3. /\ mem = <<>> /\ plan = <<>> /\ pc = 0 /\ runs = 0 /\ results = <<>>
      /\ bound = [t \in TensorIds |-> 0]
  BY DEF CudaInit, ExecInit
<1> QED BY <1>1, <1>2, <1>3
        DEF PlacesInv, EarlyInv, EarlyPhases, LatePhases, SortPhases, Placing

\* Ordering the nodes and planning the arena.
LEMMA PlanningKeeps ==
  ASSUME PlacesInv, Sorting \/ Planning \/ (OnDevice /\ DevicePlanning)
  PROVE  /\ PlacesInv' /\ phase' \in EarlyPhases \cup {"failed"}
         /\ phase \in EarlyPhases /\ graph' = graph /\ UNCHANGED execOnlyVars
<1>1. /\ UNCHANGED execOnlyVars /\ PlanNext
      /\ \/ SortNext /\ UNCHANGED planOnlyVars
         \/ PlanOnlyNext /\ allocator # "naive"
  <2>1. CASE Sorting BY <2>1 DEF Sorting, PlanNext
  <2>2. CASE Planning BY <2>2 DEF Planning, PlanNext
  <2>3. CASE OnDevice /\ DevicePlanning
    BY <2>3 DEF OnDevice, DevicePlanning, PlanNext
  <2> QED BY <2>1, <2>2, <2>3
<1>2. /\ phase \in EarlyPhases
      /\ phase' \in EarlyPhases \cup {"failed"}
      /\ phase' \in Placing => allocator # "naive"
      /\ phase' = "planned" => placed = Planned /\ placed' = placed /\ graph' = graph
      /\ graph' = graph
  <2>1. CASE SortNext /\ UNCHANGED planOnlyVars
    BY <2>1, SortStep DEF EarlyPhases, SortPhases, Placing
  <2>2. CASE PlanOnlyNext /\ allocator # "naive"
    <3>1. CASE TrackLifetimes
      BY <2>2, <3>1 DEF TrackLifetimes, sortVars, EarlyPhases, Placing
    <3>2. CASE StartPlacing
      BY <2>2, <3>2 DEF StartPlacing, EarlyPhases, Placing
    <3>3. CASE PickTensor \/ PlaceTensor
      BY <2>2, <3>3 DEF PickTensor, PlaceTensor, EarlyPhases, Placing
    <3>4. CASE PassBlock
      BY <2>2, <3>4 DEF PassBlock, sortVars, EarlyPhases, Placing
    <3>5. CASE FinishPlan
      BY <2>2, <3>5 DEF FinishPlan, EarlyPhases, Placing
    <3> QED BY <2>2, <3>1, <3>2, <3>3, <3>4, <3>5 DEF PlanOnlyNext
  <2> QED BY <1>1, <2>1, <2>2 DEF PlanNext
<1>3. EarlyInv BY <1>2 DEF PlacesInv
<1>4. PlacementInv' /\ OrderInv'
  BY <1>1, <1>3, PlacementNext, OrderNext DEF EarlyInv
<1>5. TensorIds' = TensorIds /\ Planned' = Planned BY <1>2 DEF TensorIds, Planned
<1>6. EarlyInv' BY <1>1, <1>2, <1>3, <1>4, <1>5 DEF EarlyInv, execOnlyVars
<1>7. phase' \notin LatePhases
  BY <1>2 DEF EarlyPhases, LatePhases, SortPhases, Placing
<1> QED BY <1>1, <1>2, <1>6, <1>7 DEF PlacesInv

\* The facts of the plan, when storage is given out.
LEMMA PlanIsReady ==
  ASSUME EarlyInv, phase = "planned" \/ (phase = "sorted" /\ allocator = "naive")
  PROVE  PlanFacts
<1>1. /\ SortInv /\ Linked /\ Checked /\ OrderIsTopological
      /\ Len(order) = NumNodes
      /\ phase = "planned" =>
           /\ step = Len(order)
           /\ \A t \in Planned : Spans(live[t], t, TouchedBefore(step, t))
  BY DEF EarlyInv, OrderInv, LifetimeInv, Placing
<1>2. /\ graph \in Graphs /\ offset \in [Planned -> Nat]
      /\ live \in [Planned -> [first : Int, last : Int]]
      /\ NoConflictingByteOverlap
  BY DEF EarlyInv, PlacementInv, Typed
<1> QED BY <1>1, <1>2 DEF EarlyInv, PlanFacts

\* The three ways storage is given out.
LEMMA AllocationKeeps ==
  ASSUME PlacesInv, \/ ~OnDevice /\ (AllocateNaive \/ AllocatePlanned)
                    \/ OnDevice /\ AllocateDevice
  PROVE  PlacesInv' /\ phase' \in {"resolve", "idle"}
<1>1. /\ \/ phase = "planned" \/ (phase = "sorted" /\ allocator = "naive")
      /\ phase' \in {"resolve", "idle"}
      /\ allocator' = allocator /\ runs' = runs /\ bound' = bound
      /\ UNCHANGED <<graph, producer, indeg, ready, order, dep, planOnlyVars>>
  BY DEF AllocateNaive, AllocatePlanned, AllocateDevice
<1>2. EarlyInv BY <1>1 DEF PlacesInv, EarlyPhases, Placing
<1>3. PlanFacts BY <1>1, <1>2, PlanIsReady
<1>4. phase' \notin SortPhases \cup {"sorted", "failed"} BY <1>1 DEF SortPhases
<1>5. /\ PlanFacts' /\ TensorIds' = TensorIds /\ External' = External
      /\ Intermediates' = Intermediates /\ (OnDevice' <=> OnDevice)
  BY <1>1, <1>3, <1>4, PlanFactsFrame
<1>6. runs = 0 /\ bound = [t \in TensorIds |-> 0] BY <1>2 DEF EarlyInv
<1>7. \A t \in TensorIds : graph.kind[t] \in Kinds
  BY <1>3, GraphTypes DEF PlanFacts, SortInv, SortTypes
<1>8. ASSUME NEW t \in TensorIds
      PROVE  /\ t \in Intermediates <=> graph.kind[t] = "intermediate"
             /\ t \in External <=> graph.kind[t] \in {"input", "weight"}
             /\ bound[t] = 0
             /\ ArenaCells(t)' = ArenaCells(t) /\ OwnCells(t)' = OwnCells(t)
  BY <1>1, <1>6 DEF Intermediates, Planned, External, ArenaCells, OwnCells, planOnlyVars
<1>9. pool' = [t \in TensorIds |-> Storage(t)]
  <2>1. CASE ~OnDevice /\ AllocateNaive
    <3>1. /\ allocator = "naive"
          /\ pool' = [t \in TensorIds |->
                 IF graph.kind[t] \in {"output", "intermediate"}
                 THEN OwnCells(t) ELSE <<>>]
      BY <2>1 DEF AllocateNaive
    <3>2. ASSUME NEW t \in TensorIds
          PROVE  Storage(t) = IF graph.kind[t] \in {"output", "intermediate"}
                              THEN OwnCells(t) ELSE <<>>
      BY <2>1, <3>1, <1>7, <1>8 DEF Storage, Kinds
    <3> QED BY <3>1, <3>2
  <2>2. CASE ~OnDevice /\ AllocatePlanned
    <3>1. /\ pool' = [t \in TensorIds |->
                  IF graph.kind[t] = "output" THEN OwnCells(t)
                  ELSE IF t \in Intermediates THEN ArenaCells(t) ELSE <<>>]
          /\ phase = "planned"
      BY <2>2 DEF AllocatePlanned
    <3>2. allocator # "naive" BY <3>1, <1>2 DEF EarlyInv, Placing
    <3>3. ASSUME NEW t \in TensorIds
          PROVE  Storage(t) = IF graph.kind[t] = "output" THEN OwnCells(t)
                              ELSE IF t \in Intermediates THEN ArenaCells(t) ELSE <<>>
      BY <2>2, <3>2, <1>7, <1>8 DEF Storage, Kinds
    <3> QED BY <3>1, <3>3
  <2>3. CASE OnDevice /\ AllocateDevice
    <3>1. pool' = [t \in TensorIds |->
                     IF t \in Intermediates THEN ArenaCells(t) ELSE OwnCells(t)]
      BY <2>3 DEF AllocateDevice
    <3>2. ASSUME NEW t \in TensorIds
          PROVE  Storage(t) = IF t \in Intermediates THEN ArenaCells(t) ELSE OwnCells(t)
      BY <2>3 DEF Storage, OnDevice
    <3> QED BY <3>1, <3>2
  <2> QED BY <2>1, <2>2, <2>3
<1>10. ASSUME NEW t \in TensorIds PROVE Storage(t)' = Storage(t)
  BY <1>1, <1>5, <1>8 DEF Storage, CallerCells
<1>11. StorageInv' BY <1>1, <1>5, <1>6, <1>9, <1>10 DEF StorageInv
<1> QED BY <1>1, <1>11 DEF PlacesInv, LatePhases, EarlyPhases, SortPhases, Placing

-----------------------------------------------------------------------------
(* Runs.                                                                   *)

\* A step that gives out no storage.
LEMMA StorageFrame ==
  ASSUME StorageInv, allocator' = allocator, pool' = pool, runs' = runs, bound' = bound,
         UNCHANGED <<graph, producer, indeg, ready, order, dep, planOnlyVars>>,
         phase' \in LatePhases
  PROVE  StorageInv'
<1>1. phase' \notin SortPhases \cup {"sorted", "failed"}
  BY DEF LatePhases, SortPhases
<1>2. /\ PlanFacts' /\ TensorIds' = TensorIds /\ External' = External
      /\ Intermediates' = Intermediates /\ (OnDevice' <=> OnDevice)
  BY <1>1, PlanFactsFrame DEF StorageInv
<1>3. ASSUME NEW t PROVE Storage(t)' = Storage(t)
  <2>1. /\ ArenaCells(t)' = ArenaCells(t) /\ OwnCells(t)' = OwnCells(t)
        /\ CallerCells(t, bound[t])' = CallerCells(t, bound[t])
    BY DEF ArenaCells, OwnCells, CallerCells, planOnlyVars
  <2> QED BY <1>2, <2>1 DEF Storage
<1> QED BY <1>2, <1>3 DEF StorageInv

\* The bindings of a run change the storage of what is bound, and of nothing
\* else.
LEMMA BindingKeeps ==
  ASSUME StorageInv, ~OnDevice, NEW B \in SUBSET External, BindAll(B, runs + 1),
         allocator' = allocator, runs' = runs + 1,
         UNCHANGED <<graph, producer, indeg, ready, order, dep, planOnlyVars>>,
         phase' \in LatePhases
  PROVE  StorageInv'
<1>1. phase' \notin SortPhases \cup {"sorted", "failed"}
  BY DEF LatePhases, SortPhases
<1>2. /\ PlanFacts' /\ TensorIds' = TensorIds /\ External' = External
      /\ Intermediates' = Intermediates /\ (OnDevice' <=> OnDevice)
  BY <1>1, PlanFactsFrame DEF StorageInv
<1>3. /\ pool' = [t \in TensorIds |-> IF t \in B THEN CallerCells(t, runs + 1) ELSE pool[t]]
      /\ bound' = [t \in TensorIds |-> IF t \in B THEN runs + 1 ELSE bound[t]]
  BY DEF BindAll, SharedWithCaller, CallerHolds
<1>4. runs \in Nat /\ bound \in [TensorIds -> Nat] /\ \A t \in TensorIds : bound[t] <= runs
  BY DEF StorageInv
<1>5. ASSUME NEW t \in TensorIds PROVE pool'[t] = Storage(t)'
  <2>1. /\ ArenaCells(t)' = ArenaCells(t) /\ OwnCells(t)' = OwnCells(t)
        /\ \A r : CallerCells(t, r)' = CallerCells(t, r)
    BY DEF ArenaCells, OwnCells, CallerCells, planOnlyVars
  <2>2. CASE t \in B
    <3>1. t \in External /\ t \notin Intermediates
      BY <2>2 DEF External, Intermediates, Planned
    <3>2. bound'[t] = runs + 1 /\ runs + 1 # 0 BY <2>2, <1>3, <1>4
    <3>3. Storage(t)' = CallerCells(t, runs + 1)
      BY <3>1, <3>2, <2>1, <1>2 DEF Storage
    <3> QED BY <2>2, <3>3, <1>3
  <2>3. CASE t \notin B
    <3>1. bound'[t] = bound[t] /\ pool'[t] = pool[t] BY <2>3, <1>3
    <3>2. Storage(t)' = Storage(t) BY <3>1, <2>1, <1>2 DEF Storage
    <3> QED BY <3>1, <3>2 DEF StorageInv
  <2> QED BY <2>2, <2>3
<1>6. bound' \in [TensorIds -> Nat] /\ \A t \in TensorIds : bound'[t] <= runs + 1
  BY <1>3, <1>4
<1>7. pool' = [t \in TensorIds |-> Storage(t)'] BY <1>3, <1>5
<1> QED BY <1>2, <1>4, <1>6, <1>7 DEF StorageInv

\* On the device the storage is that of the constructor for ever.
LEMMA UploadKeeps ==
  ASSUME StorageInv, OnDevice, Upload
  PROVE  StorageInv'
<1>1. /\ allocator' = allocator /\ runs' = runs + 1 /\ pool' = pool
      /\ phase' \in LatePhases
      /\ bound' = [t \in TensorIds |-> IF t \in InputsOf(graph) THEN runs + 1 ELSE bound[t]]
      /\ UNCHANGED <<graph, producer, indeg, ready, order, dep, planOnlyVars>>
  BY DEF Upload, LatePhases
<1>2. phase' \notin SortPhases \cup {"sorted", "failed"}
  BY <1>1 DEF LatePhases, SortPhases
<1>3. /\ PlanFacts' /\ TensorIds' = TensorIds /\ External' = External
      /\ Intermediates' = Intermediates /\ (OnDevice' <=> OnDevice)
  BY <1>1, <1>2, PlanFactsFrame DEF StorageInv
<1>4. ASSUME NEW t PROVE Storage(t)' = Storage(t)
  <2>1. ArenaCells(t)' = ArenaCells(t) /\ OwnCells(t)' = OwnCells(t)
    BY <1>1 DEF ArenaCells, OwnCells, planOnlyVars
  <2> QED BY <1>1, <1>3, <2>1 DEF Storage, OnDevice
<1>5. runs \in Nat /\ bound \in [TensorIds -> Nat] /\ \A t \in TensorIds : bound[t] <= runs
  BY DEF StorageInv
<1>6. bound' \in [TensorIds -> Nat] /\ \A t \in TensorIds : bound'[t] <= runs + 1
  BY <1>1, <1>5
<1> QED BY <1>1, <1>3, <1>4, <1>5, <1>6 DEF StorageInv

\* Every other step leaves the storage alone, or is the last one.
LEMMA QuietSteps ==
  ASSUME \/ ResolveKernel \/ FinishSetup \/ KernelBegin \/ KernelEnd \/ ReturnOutputs
         \/ LaunchKernel \/ RejectKernel \/ Download \/ CatchRun \/ LeaveRun \/ Destroy
  PROVE  /\ phase \in LatePhases
         /\ allocator' = allocator /\ runs' = runs /\ bound' = bound
         /\ UNCHANGED <<graph, producer, indeg, ready, order, dep, planOnlyVars>>
         /\ \/ pool' = pool /\ phase' \in LatePhases
            \/ phase' \in {"failed", "destroyed"}
<1>1. CASE ResolveKernel BY <1>1 DEF ResolveKernel, LatePhases
<1>2. CASE FinishSetup \/ CatchRun \/ LeaveRun \/ RejectKernel
  BY <1>2 DEF FinishSetup, CatchRun, LeaveRun, RejectKernel, LatePhases, execOnlyVars
<1>3. CASE KernelBegin \/ LaunchKernel
  BY <1>3 DEF KernelBegin, LaunchKernel, LatePhases
<1>4. CASE KernelEnd BY <1>4 DEF KernelEnd, LatePhases
<1>5. CASE ReturnOutputs \/ Download BY <1>5 DEF ReturnOutputs, Download, LatePhases
<1>6. CASE Destroy BY <1>6 DEF Destroy, LatePhases
<1> QED BY <1>1, <1>2, <1>3, <1>4, <1>5, <1>6

\* The phases are told apart.
LEMMA PhaseGroups ==
  /\ EarlyPhases \cap LatePhases = {}
  /\ (EarlyPhases \cup LatePhases) \cap {"failed", "destroyed"} = {}
  /\ "idle" \in LatePhases
BY DEF EarlyPhases, LatePhases, SortPhases, Placing

\* Every step keeps the invariant.
LEMMA PlacesNext == PlacesInv /\ [CudaNext]_execVars => PlacesInv'
<1> SUFFICES ASSUME PlacesInv, [CudaNext]_execVars PROVE PlacesInv' OBVIOUS
<1>1. CASE Sorting \/ (~OnDevice /\ Planning) \/ (OnDevice /\ DevicePlanning)
  BY <1>1, PlanningKeeps
<1>2. CASE \/ ~OnDevice /\ (AllocateNaive \/ AllocatePlanned)
           \/ OnDevice /\ AllocateDevice
  BY <1>2, AllocationKeeps
<1>3. CASE \/ ResolveKernel \/ FinishSetup \/ KernelBegin \/ KernelEnd \/ ReturnOutputs
           \/ LaunchKernel \/ RejectKernel \/ Download \/ CatchRun \/ LeaveRun \/ Destroy
  <2>1. phase \in LatePhases /\ StorageInv BY <1>3, QuietSteps DEF PlacesInv
  <2>2. CASE pool' = pool /\ phase' \in LatePhases
    <3>1. StorageInv' BY <2>1, <2>2, <1>3, QuietSteps, StorageFrame
    <3> QED BY <2>2, <3>1, PhaseGroups DEF PlacesInv
  <2>3. CASE phase' \in {"failed", "destroyed"} BY <2>3, PhaseGroups DEF PlacesInv
  <2> QED BY <2>2, <2>3, <1>3, QuietSteps
<1>4. CASE ~OnDevice /\ Call
  <2>1. PICK D \in SUBSET External :
          /\ BindAll(D, runs + 1)
          /\ phase = "idle" /\ phase' \in LatePhases
          /\ allocator' = allocator /\ runs' = runs + 1
          /\ UNCHANGED <<graph, producer, indeg, ready, order, dep, planOnlyVars>>
    <3>1. PICK B \in SUBSET External :
            BeginRun(B) \/ \E D \in SUBSET B : BeginRunUnknown(B, D)
      BY <1>4 DEF Call
    <3>2. CASE BeginRun(B) BY <3>2 DEF BeginRun, LatePhases
    <3>3. CASE \E D \in SUBSET B : BeginRunUnknown(B, D)
      <4>1. PICK D \in SUBSET B : BeginRunUnknown(B, D) BY <3>3
      <4>2. D \in SUBSET External BY <4>1, <3>1
      <4> QED BY <4>1, <4>2 DEF BeginRunUnknown, LatePhases
    <3> QED BY <3>1, <3>2, <3>3
  <2>2. StorageInv BY <2>1, PhaseGroups DEF PlacesInv
  <2>3. StorageInv' BY <1>4, <2>1, <2>2, BindingKeeps
  <2> QED BY <2>1, <2>3, PhaseGroups DEF PlacesInv
<1>5. CASE OnDevice /\ Upload
  <2>1. StorageInv BY <1>5, PhaseGroups DEF PlacesInv, Upload
  <2>2. StorageInv' /\ phase' \in LatePhases
    BY <1>5, <2>1, UploadKeeps DEF Upload, LatePhases
  <2> QED BY <2>2, PhaseGroups DEF PlacesInv
<1>6. CASE UNCHANGED execVars
  <2>1. /\ UNCHANGED planVars /\ UNCHANGED execOnlyVars /\ phase' = phase
        /\ UNCHANGED <<graph, producer, indeg, ready, order, dep, planOnlyVars>>
    BY <1>6 DEF execVars, planVars, sortVars
  <2>2. CASE phase \in EarlyPhases
    <3>1. EarlyInv BY <2>2 DEF PlacesInv
    <3>2. PlacementInv' /\ OrderInv'
      BY <3>1, <2>1, PlacementNext, OrderNext DEF EarlyInv
    <3>3. TensorIds' = TensorIds /\ Planned' = Planned /\ placed' = placed
      BY <2>1 DEF TensorIds, Planned, planOnlyVars
    <3>4. EarlyInv' BY <2>1, <3>1, <3>2, <3>3 DEF EarlyInv, execOnlyVars
    <3> QED BY <2>1, <2>2, <3>4, PhaseGroups DEF PlacesInv
  <2>3. CASE phase \in LatePhases
    <3>1. StorageInv BY <2>3 DEF PlacesInv
    <3>2. StorageInv' BY <2>1, <2>3, <3>1, StorageFrame DEF execOnlyVars
    <3> QED BY <2>1, <2>3, <3>2, PhaseGroups DEF PlacesInv
  <2>4. CASE phase \notin EarlyPhases \cup LatePhases
    BY <2>1, <2>4 DEF PlacesInv
  <2> QED BY <2>2, <2>3, <2>4
<1> QED
  BY <1>1, <1>2, <1>3, <1>4, <1>5, <1>6
  DEF CudaNext, ExecNext, ExecStep, ExecDone, DeviceNext, DeviceStep

\* The invariant holds in every reachable state.
THEOREM PlacesInvariant == CudaSpec => []PlacesInv
BY PlacesInit, PlacesNext, PTL DEF CudaSpec

\* Two tensors share memory only where the plan says they may: both are
\* intermediates, and one is dead before the other is born; never under the
\* naive allocator, and never what the caller has bound or gets back.
THEOREM OnlyPlannedSharing == CudaSpec => []SharingIsPlanned
<1>1. PlacesInv => SharingIsPlanned
  <2> SUFFICES ASSUME StorageInv, NEW t \in TensorIds, NEW u \in TensorIds, t # u,
                      NEW j \in DOMAIN pool[t], NEW k \in DOMAIN pool[u],
                      pool[t][j] = pool[u][k]
               PROVE  /\ allocator # "naive"
                      /\ t \in Intermediates /\ u \in Intermediates
                      /\ live[t].last < live[u].first \/ live[u].last < live[t].first
    BY DEF PlacesInv, SharingIsPlanned, LatePhases
  <2>1. pool[t] = Storage(t) /\ pool[u] = Storage(u) BY DEF StorageInv
  <2>2. PlanFacts BY DEF StorageInv
  <2>3. /\ allocator # "naive" /\ t \in Planned /\ u \in Planned
        /\ ~Overlap(live[t], live[u])
    BY <2>1, <2>2, SharedCell
  <2>4. /\ live[t].first \in Int /\ live[t].last \in Int
        /\ live[u].first \in Int /\ live[u].last \in Int
    BY <2>2, <2>3 DEF PlanFacts
  <2> QED BY <2>3, <2>4 DEF Overlap, Intermediates
<1> QED BY <1>1, PlacesInvariant, PTL

-----------------------------------------------------------------------------
(* What a step writes.                                                     *)

\* Writing touches the cells of the tensors written, and no others.
LEMMA WrittenCells ==
  ASSUME NEW m, NEW S, NEW val, NEW c \in DOMAIN Written(m, S, val)
  PROVE  \/ c \in DOMAIN m /\ Written(m, S, val)[c] = m[c]
         \/ \E t \in S : \E j \in DOMAIN pool[t] : pool[t][j] = c
<1> DEFINE cells == UNION {{<<pool[t][j], val[t], j>> : j \in DOMAIN pool[t]} : t \in S}
<1>1. Written(m, S, val) =
        [d \in DOMAIN m \cup {w[1] : w \in cells} |->
            IF \E w \in cells : w[1] = d
            THEN LET w == CHOOSE w \in cells : w[1] = d IN <<w[2], w[3]>>
            ELSE m[d]]
  BY DEF Written
<1>2. ASSUME NEW w \in cells, w[1] = c
      PROVE  \E t \in S : \E j \in DOMAIN pool[t] : pool[t][j] = c
  <2>1. PICK t \in S : w \in {<<pool[t][j], val[t], j>> : j \in DOMAIN pool[t]}
    OBVIOUS
  <2>2. PICK j \in DOMAIN pool[t] : w = <<pool[t][j], val[t], j>> BY <2>1
  <2> QED BY <2>2, <1>2
<1> HIDE DEF cells
<1>3. CASE \E w \in cells : w[1] = c BY <1>2, <1>3
<1>4. CASE ~\E w \in cells : w[1] = c
  <2>1. c \in DOMAIN m BY <1>1, <1>4
  <2> QED BY <1>1, <1>4, <2>1
<1> QED BY <1>3, <1>4

-----------------------------------------------------------------------------
(* What tensors mean.                                                      *)

\* What a tensor means when val says what its inputs mean.
MeaningGiven(val, t) ==
    IF graph.bytes[t] = 0 THEN NoValue
    ELSE IF producer[t] = -1 THEN Bound(t, bound[t])
    ELSE LET i == producer[t]
         IN  Computed(i, CHOOSE k \in DOMAIN graph.outputs[i] : graph.outputs[i][k] = t,
                      [k \in DOMAIN graph.inputs[i] |-> val[graph.inputs[i][k]]])

\* What the order and the plan say about the node of a step and its inputs.
LEMMA StepInputs ==
  ASSUME PlanFacts, NEW s \in 0 .. Len(order) - 1,
         NEW k \in DOMAIN graph.inputs[order[s + 1]]
  PROVE  LET t == graph.inputs[order[s + 1]][k]
         IN  /\ t \in TensorIds
             /\ producer[t] = -1 => t \in External
             /\ producer[t] # -1 =>
                  /\ producer[t] \in Nodes
                  /\ Position(producer[t]) \in 0 .. s - 1
<1> DEFINE i == order[s + 1]
           t == graph.inputs[i][k]
<1>1. /\ SortTypes /\ Linked /\ Checked /\ OrderIsTopological
      /\ Len(order) = NumNodes /\ Distinct(order)
  BY DEF PlanFacts, SortInv, OrderIsTopological, Distinct
<1>2. /\ i \in Nodes /\ Len(order) \in Nat
      /\ \A q \in 0 .. Len(order) - 1 : Position(order[q + 1]) = q
  BY <1>1, PositionOf
<1>3. /\ <<i, k>> \in InputSlots /\ InputAt(<<i, k>>) = t BY <1>2, Slots
<1>4. t \in TensorIds /\ (producer[t] # -1 \/ graph.kind[t] \in {"input", "weight"})
  BY <1>1, <1>3 DEF Checked
<1>5. producer[t] # -1 => producer[t] \in Nodes BY <1>1, <1>4 DEF Linked
<1>6. ASSUME producer[t] # -1 PROVE Position(producer[t]) \in 0 .. s - 1
  <2>1. Feeds(producer[t], i)
    BY <1>1, <1>2, <1>5, <1>6, FeedsIsProduces DEF SortTypes
  <2>2. s + 1 \in DOMAIN order BY <1>1, <1>2, OrderTypes
  <2>3. PICK a \in 1 .. (s + 1) - 1 : order[a] = producer[t]
    BY <1>1, <1>5, <1>6, <2>1, <2>2 DEF OrderIsTopological
  <2>4. a - 1 \in 0 .. s - 1 /\ a - 1 \in 0 .. Len(order) - 1 /\ (a - 1) + 1 = a
    BY <1>2
  <2>5. Position(order[(a - 1) + 1]) = a - 1 BY <1>2, <2>4
  <2> QED BY <2>3, <2>4, <2>5
<1> QED BY <1>4, <1>5, <1>6 DEF External

\* The meaning of a tensor is given by the meanings of the inputs of its
\* producer: there is such a function, because producers come first.
LEMMA MeaningIs ==
  ASSUME PlanFacts
  PROVE  \A t \in TensorIds : Meaning[t] = MeaningGiven(Meaning, t)
<1> DEFINE Rank(t) == IF producer[t] = -1 THEN 0 ELSE Position(producer[t]) + 1
           Good(n, f) == \A t \in TensorIds : Rank(t) < n => f[t] = MeaningGiven(f, t)
<1>1. /\ SortTypes /\ Linked /\ Len(order) = NumNodes /\ Distinct(order)
  BY DEF PlanFacts, SortInv, OrderIsTopological, Distinct
<1>2. /\ Len(order) \in Nat
      /\ \A i \in Nodes :
            Position(i) \in 0 .. Len(order) - 1 /\ order[Position(i) + 1] = i
  BY <1>1, PositionOf
<1>3. \A t \in TensorIds : producer[t] # -1 => producer[t] \in Nodes
  BY <1>1 DEF Linked
<1>4. \A t \in TensorIds : Rank(t) \in 0 .. Len(order) BY <1>2, <1>3
<1>5. ASSUME NEW t \in TensorIds, producer[t] # -1,
             NEW k \in DOMAIN graph.inputs[producer[t]]
      PROVE  /\ graph.inputs[producer[t]][k] \in TensorIds
             /\ Rank(graph.inputs[producer[t]][k]) < Rank(t)
  <2> DEFINE i == producer[t]
             s == Position(i)
             u == graph.inputs[i][k]
  <2>1. s \in 0 .. Len(order) - 1 /\ order[s + 1] = i BY <1>2, <1>3, <1>5
  <2>2. u \in TensorIds /\ (producer[u] # -1 => Position(producer[u]) \in 0 .. s - 1)
    BY <2>1, <1>5, StepInputs
  <2> QED BY <2>1, <2>2, <1>2, <1>5
<1> HIDE DEF Rank
<1>6. ASSUME NEW f, NEW g, NEW t \in TensorIds,
             \A u \in TensorIds : Rank(u) < Rank(t) => f[u] = g[u]
      PROVE  MeaningGiven(f, t) = MeaningGiven(g, t)
  <2>1. CASE producer[t] = -1 BY <2>1 DEF MeaningGiven
  <2>2. CASE producer[t] # -1
    <3> DEFINE ins == graph.inputs[producer[t]]
    <3>1. \A k \in DOMAIN ins : f[ins[k]] = g[ins[k]] BY <2>2, <1>5, <1>6
    <3>2. [k \in DOMAIN ins |-> f[ins[k]]] = [k \in DOMAIN ins |-> g[ins[k]]]
      BY <3>1
    <3> QED BY <2>2, <3>2 DEF MeaningGiven
  <2> QED BY <2>1, <2>2
<1>7. ASSUME NEW n \in Nat, NEW f, Good(n, f) PROVE \E g : Good(n + 1, g)
  <2> DEFINE g == [t \in TensorIds |-> IF Rank(t) < n THEN f[t] ELSE MeaningGiven(f, t)]
  <2>1. ASSUME NEW t \in TensorIds, Rank(t) < n + 1 PROVE g[t] = MeaningGiven(g, t)
    <3>1. \A u \in TensorIds : Rank(u) < Rank(t) => f[u] = g[u]
      BY <2>1, <1>2, <1>4
    <3>2. MeaningGiven(f, t) = MeaningGiven(g, t)
      <4> HIDE DEF g
      <4> QED BY <3>1, <1>6
    <3>3. g[t] = MeaningGiven(f, t) BY <1>7
    <3> QED BY <3>2, <3>3
  <2> QED BY <2>1
<1>8. \A n \in Nat : \E f : Good(n, f)
  <2> DEFINE Bad == {n \in Nat : ~\E f : Good(n, f)}
  <2> SUFFICES ASSUME Bad # {} PROVE FALSE OBVIOUS
  <2>1. PICK n \in Bad : \A b \in Bad : <<b, n>> \notin OpToRel(<, Nat)
    <3> HIDE DEF Good
    <3> QED BY WFMin, NatLessThanWellFounded
  <2>2. \A b \in Bad : ~(b < n) BY <2>1 DEF OpToRel
  <2>3. n # 0
    <3>1. \A f : Good(0, f) BY <1>2, <1>4
    <3> HIDE DEF Good
    <3> QED BY <3>1
  <2> HIDE DEF Good
  <2>4. n - 1 \in Nat /\ n - 1 < n /\ (n - 1) + 1 = n BY <2>3
  <2>5. PICK f : Good(n - 1, f) BY <2>2, <2>4
  <2>6. \E g : Good((n - 1) + 1, g) BY <2>4, <2>5, <1>7
  <2> QED BY <2>4, <2>6
<1>9. \E val : val = [t \in TensorIds |-> MeaningGiven(val, t)]
  <2>1. Len(order) + 1 \in Nat BY <1>2
  <2>2. PICK f : Good(Len(order) + 1, f) BY <2>1, <1>8
  <2>3. \A t \in TensorIds : f[t] = MeaningGiven(f, t) BY <2>2, <1>2, <1>4
  <2> DEFINE val == [t \in TensorIds |-> f[t]]
  <2>4. ASSUME NEW t \in TensorIds PROVE val[t] = MeaningGiven(val, t)
    <3>1. \A u \in TensorIds : f[u] = val[u] OBVIOUS
    <3> HIDE DEF val
    <3>2. MeaningGiven(f, t) = MeaningGiven(val, t) BY <3>1, <1>6
    <3> QED BY <3>1, <3>2, <2>3
  <2>5. val = [t \in TensorIds |-> MeaningGiven(val, t)]
    <3>1. [t \in TensorIds |-> val[t]] = [t \in TensorIds |-> MeaningGiven(val, t)]
      <4> HIDE DEF val
      <4> QED BY <2>4
    <3> QED BY <3>1
  <2> QED BY <2>5
<1>10. Meaning = CHOOSE val : val = [t \in TensorIds |-> MeaningGiven(val, t)]
  BY DEF Meaning, MeaningGiven
<1>11. Meaning = [t \in TensorIds |-> MeaningGiven(Meaning, t)]
  BY <1>9, <1>10, Zenon
<1> QED BY <1>11, Zenon

\* A tensor that no node writes means what is bound, before and after a step.
LEMMA UnproducedMeaning ==
  PlanFacts => \A t \in TensorIds :
                  producer[t] = -1 /\ graph.bytes[t] # 0 => Meaning[t] = Bound(t, bound[t])
BY MeaningIs DEF MeaningGiven

LEMMA UnproducedMeaningNext ==
  (PlanFacts => \A t \in TensorIds :
                  producer[t] = -1 /\ graph.bytes[t] # 0 => Meaning[t] = Bound(t, bound[t]))'
BY UnproducedMeaning, PTL
-----------------------------------------------------------------------------
(* What cells hold.                                                        *)

\* A tensor whose cells hold the pieces of a value has that value.
LEMMA HeldValue ==
  ASSUME NEW m, NEW tensor, NEW v, NEW n \in Nat, DOMAIN tensor = 1 .. n,
         tensor = <<>> <=> n = 0, Held(m, tensor, v)
  PROVE  ValueIn(m, tensor) = IF n = 0 THEN NoValue ELSE v
<1>1. CASE n = 0 BY <1>1 DEF ValueIn
<1>2. CASE n # 0
  <2>1. 1 \in DOMAIN tensor BY <1>2
  <2>2. tensor[1] \in DOMAIN m /\ m[tensor[1]] = <<v, 1>> BY <2>1 DEF Held
  <2>3. m[tensor[1]][1] = v BY <2>2
  <2>4. \A j \in DOMAIN tensor : tensor[j] \in DOMAIN m /\ m[tensor[j]] = <<v, j>>
    BY DEF Held
  <2> QED BY <1>2, <2>2, <2>3, <2>4 DEF ValueIn
<1> QED BY <1>1, <1>2

\* A tensor that is written, and shares no cell with the others written, holds
\* what is written to it.
LEMMA WrittenValue ==
  ASSUME NEW m, NEW S, NEW val, NEW t \in S,
         \A u \in S : \A j \in DOMAIN pool[t], k \in DOMAIN pool[u] :
            pool[t][j] = pool[u][k] => t = u /\ j = k
  PROVE  Held(Written(m, S, val), pool[t], val[t])
<1> DEFINE cells == UNION {{<<pool[x][j], val[x], j>> : j \in DOMAIN pool[x]} : x \in S}
           pick(d) == CHOOSE w \in cells : w[1] = d
<1>1. Written(m, S, val) =
        [d \in DOMAIN m \cup {w[1] : w \in cells} |->
            IF \E w \in cells : w[1] = d THEN <<pick(d)[2], pick(d)[3]>> ELSE m[d]]
  BY DEF Written
<1>2. ASSUME NEW j \in DOMAIN pool[t]
      PROVE  /\ pool[t][j] \in DOMAIN Written(m, S, val)
             /\ Written(m, S, val)[pool[t][j]] = <<val[t], j>>
  <2> DEFINE c == pool[t][j]
  <2>1. <<c, val[t], j>> \in cells /\ <<c, val[t], j>>[1] = c OBVIOUS
  <2>2. ASSUME NEW w \in cells, w[1] = c PROVE w = <<c, val[t], j>>
    <3>1. PICK u \in S : w \in {<<pool[u][k], val[u], k>> : k \in DOMAIN pool[u]}
      OBVIOUS
    <3>2. PICK k \in DOMAIN pool[u] : w = <<pool[u][k], val[u], k>> BY <3>1
    <3>3. pool[t][j] = pool[u][k] BY <3>2, <2>2
    <3>4. t = u /\ j = k BY <3>3
    <3> QED BY <3>2, <3>4
  <2> HIDE DEF cells
  <2>3. pick(c) \in cells /\ pick(c)[1] = c BY <2>1
  <2> HIDE DEF pick
  <2>4. pick(c) = <<c, val[t], j>> BY <2>2, <2>3
  <2>5. c \in DOMAIN m \cup {w[1] : w \in cells} /\ \E w \in cells : w[1] = c
    BY <2>1
  <2> HIDE DEF c
  <2>6. <<pick(c)[2], pick(c)[3]>> = <<val[t], j>> BY <2>4
  <2>7. /\ c \in DOMAIN Written(m, S, val)
        /\ Written(m, S, val)[c] = <<pick(c)[2], pick(c)[3]>>
    BY <1>1, <2>5
  <2> QED BY <2>6, <2>7 DEF c
<1> QED BY <1>2 DEF Held

\* A tensor that shares no cell with what is written keeps its value.
LEMMA WrittenOther ==
  ASSUME NEW m, NEW S, NEW val, NEW tensor, NEW v, Held(m, tensor, v),
         \A u \in S : \A j \in DOMAIN tensor, k \in DOMAIN pool[u] : tensor[j] # pool[u][k]
  PROVE  Held(Written(m, S, val), tensor, v)
<1> DEFINE cells == UNION {{<<pool[x][j], val[x], j>> : j \in DOMAIN pool[x]} : x \in S}
           pick(d) == CHOOSE w \in cells : w[1] = d
<1>1. Written(m, S, val) =
        [d \in DOMAIN m \cup {w[1] : w \in cells} |->
            IF \E w \in cells : w[1] = d THEN <<pick(d)[2], pick(d)[3]>> ELSE m[d]]
  BY DEF Written
<1>2. ASSUME NEW j \in DOMAIN tensor
      PROVE  /\ tensor[j] \in DOMAIN Written(m, S, val)
             /\ Written(m, S, val)[tensor[j]] = <<v, j>>
  <2>1. ASSUME NEW w \in cells PROVE w[1] # tensor[j]
    <3>1. PICK u \in S : w \in {<<pool[u][k], val[u], k>> : k \in DOMAIN pool[u]}
      OBVIOUS
    <3>2. PICK k \in DOMAIN pool[u] : w = <<pool[u][k], val[u], k>> BY <3>1
    <3> QED BY <3>2
  <2>2. tensor[j] \in DOMAIN m /\ m[tensor[j]] = <<v, j>> BY DEF Held
  <2> HIDE DEF cells, pick
  <2> QED BY <1>1, <2>1, <2>2
<1> QED BY <1>2 DEF Held

\* The pool gives every tensor its size once the external ones are provided.
LEMMA FullStorage ==
  ASSUME StorageInv, NEW t \in TensorIds, t \in External => Provided(t)
  PROVE  /\ graph.bytes[t] \in Nat /\ DOMAIN pool[t] = 1 .. graph.bytes[t]
         /\ pool[t] = <<>> <=> graph.bytes[t] = 0
<1>1. /\ graph.bytes[t] \in Nat /\ pool[t] = Storage(t)
  BY SizesAssumption DEF StorageInv, PlanFacts, TensorIds
<1>2. \/ pool[t] = ArenaCells(t) \/ pool[t] = OwnCells(t)
      \/ pool[t] = CallerCells(t, bound[t])
  BY <1>1 DEF Storage, Provided
<1>3. ASSUME NEW f, f = [j \in 1 .. graph.bytes[t] |-> f[j]]
      PROVE  /\ DOMAIN f = 1 .. graph.bytes[t]
             /\ f = <<>> <=> graph.bytes[t] = 0
  <2>1. DOMAIN f = 1 .. graph.bytes[t] BY <1>3
  <2>2. CASE graph.bytes[t] = 0
    <3>1. f = <<>> BY <1>3, <2>2
    <3> QED BY <2>1, <2>2, <3>1
  <2>3. CASE graph.bytes[t] # 0
    <3>1. 1 \in DOMAIN f BY <2>1, <2>3, <1>1
    <3>2. f # <<>> BY <3>1
    <3> QED BY <2>1, <2>3, <3>2
  <2> QED BY <2>2, <2>3
<1>4. pool[t] = [j \in 1 .. graph.bytes[t] |-> pool[t][j]]
  BY <1>2 DEF ArenaCells, OwnCells, CallerCells
<1> QED BY <1>1, <1>3, <1>4

-----------------------------------------------------------------------------
(* One kernel.                                                             *)

\* The node whose turn it is, its outputs and their lifetimes.
LEMMA KernelNode ==
  ASSUME PlanFacts, PlanPrefix, pc < Len(plan), Len(plan) = Len(order)
  PROVE  /\ pc \in 0 .. Len(order) - 1 /\ Len(order) \in Nat
         /\ plan[pc + 1] = order[pc + 1] /\ plan[pc + 1] \in Nodes
         /\ Position(plan[pc + 1]) = pc
         /\ \A t \in Outputs(plan[pc + 1]) :
              /\ t \in TensorIds /\ producer[t] = plan[pc + 1]
              /\ t \in Planned /\ allocator # "naive" =>
                   live[t].first = pc /\ live[t].last \in Int /\ pc <= live[t].last
<1> DEFINE i == plan[pc + 1]
<1>1. /\ SortTypes /\ Linked /\ Len(order) = NumNodes /\ Distinct(order)
  BY DEF PlanFacts, SortInv, OrderIsTopological, Distinct
<1>2. /\ Len(order) \in Nat
      /\ \A s \in 0 .. Len(order) - 1 :
            order[s + 1] \in Nodes /\ Position(order[s + 1]) = s
  BY <1>1, PositionOf
<1>3. pc \in 0 .. Len(order) - 1 /\ pc + 1 \in 1 .. Len(plan)
  BY <1>2 DEF PlanPrefix
<1>4. i = order[pc + 1] /\ i \in Nodes /\ Position(i) = pc
  BY <1>2, <1>3 DEF PlanPrefix
<1>5. ASSUME NEW t \in Outputs(i)
      PROVE  /\ t \in TensorIds /\ producer[t] = i
             /\ t \in Planned /\ allocator # "naive" =>
                  live[t].first = pc /\ live[t].last \in Int /\ pc <= live[t].last
  <2>1. PICK k \in DOMAIN graph.outputs[i] : graph.outputs[i][k] = t BY DEF Outputs
  <2>2. <<i, k>> \in OutputSlots /\ OutputAt(<<i, k>>) = t BY <2>1, <1>4, Slots
  <2>3. t \in TensorIds /\ producer[t] = i BY <2>2, <1>1 DEF Linked
  <2>4. ASSUME t \in Planned, allocator # "naive"
        PROVE  live[t].first = pc /\ live[t].last \in Int /\ pc <= live[t].last
    <3> DEFINE steps == TouchedBefore(Len(order), t)
    <3>1. pc \in steps BY <2>1, <1>3, <1>4 DEF TouchedBefore, Touches
    <3>2. Spans(live[t], t, steps) BY <2>4 DEF PlanFacts
    <3>3. /\ live[t].first \in steps /\ live[t].last \in steps
          /\ producer[t] = order[live[t].first + 1]
          /\ \A s \in steps : live[t].first <= s /\ s <= live[t].last
      BY <3>1, <3>2 DEF Spans
    <3>4. live[t].first \in 0 .. Len(order) - 1 /\ live[t].last \in Int
      BY <3>3, <1>2 DEF TouchedBefore
    <3>5. Position(producer[t]) = live[t].first BY <3>3, <3>4, <1>2
    <3> QED BY <3>1, <3>3, <3>4, <3>5, <2>3, <1>4
  <2> QED BY <2>3, <2>4
<1> QED BY <1>2, <1>3, <1>4, <1>5

\* Two outputs of one node are live at the same step and share nothing.
LEMMA OutputsDistinct ==
  ASSUME StorageInv, PlanPrefix, pc < Len(plan), Len(plan) = Len(order),
         NEW t \in Outputs(plan[pc + 1]), NEW u \in Outputs(plan[pc + 1]),
         NEW j \in DOMAIN pool[t], NEW k \in DOMAIN pool[u], pool[t][j] = pool[u][k]
  PROVE  t = u /\ j = k
<1>1. PlanFacts /\ pool = [x \in TensorIds |-> Storage(x)] BY DEF StorageInv
<1>2. t \in TensorIds /\ u \in TensorIds /\ pc \in Int
  BY <1>1, KernelNode DEF PlanPrefix
<1>3. ASSUME allocator # "naive", t \in Planned, u \in Planned
      PROVE  Overlap(live[t], live[u])
  BY <1>1, <1>2, <1>3, KernelNode DEF Overlap
<1> QED BY <1>1, <1>2, <1>3, SharedCell

\* This step or a later one reads t.
ReadLater(t) ==
    \E p \in pc + 1 .. Len(plan) :
        \E k \in DOMAIN graph.inputs[plan[p]] : graph.inputs[plan[p]][k] = t

\* A tensor that is not an output of the node, and that a later step, this
\* one included, reads or that is not in the arena, shares no cell with an
\* output: their lifetimes overlap in this step.
LEMMA OutputsApart ==
  ASSUME StorageInv, PlanPrefix, pc < Len(plan), Len(plan) = Len(order),
         NEW t \in TensorIds, t \notin Outputs(plan[pc + 1]),
         NEW u \in Outputs(plan[pc + 1]),
         NEW j \in DOMAIN pool[t], NEW k \in DOMAIN pool[u],
         \/ t \notin Intermediates \/ allocator = "naive"
         \/ producer[t] # -1 /\ Position(producer[t]) < pc /\ ReadLater(t)
  PROVE  pool[t][j] # pool[u][k]
<1> SUFFICES ASSUME pool[t][j] = pool[u][k] PROVE FALSE OBVIOUS
<1>1. PlanFacts /\ pool = [x \in TensorIds |-> Storage(x)] BY DEF StorageInv
<1>2. u \in TensorIds /\ pc \in 0 .. Len(order) - 1 /\ Len(order) \in Nat
  BY <1>1, KernelNode
<1>3. /\ t # u /\ allocator # "naive" /\ t \in Planned /\ u \in Planned
      /\ ~Overlap(live[t], live[u])
  BY <1>1, <1>2, SharedCell
<1>4. producer[t] # -1 /\ Position(producer[t]) < pc /\ ReadLater(t)
  BY <1>3 DEF Intermediates
<1>5. live[u].first = pc /\ live[u].last \in Int /\ pc <= live[u].last
  BY <1>1, <1>3, KernelNode
<1>6. /\ SortTypes /\ Linked /\ Len(order) = NumNodes /\ Distinct(order)
  BY <1>1 DEF PlanFacts, SortInv, OrderIsTopological, Distinct
<1> DEFINE steps == TouchedBefore(Len(order), t)
           w == Position(producer[t])
<1>7. PICK p \in pc + 1 .. Len(plan) : \E x \in DOMAIN graph.inputs[plan[p]] :
         graph.inputs[plan[p]][x] = t
  BY <1>4 DEF ReadLater
<1>8. p - 1 \in 0 .. Len(order) - 1 /\ (p - 1) + 1 = p /\ p \in 1 .. Len(plan)
  BY <1>2
<1>9. p - 1 \in steps
  BY <1>7, <1>8 DEF TouchedBefore, Touches, PlanPrefix
<1>10. w \in steps
  <2>1. producer[t] \in Nodes BY <1>4, <1>6 DEF Linked
  <2>2. w \in 0 .. Len(order) - 1 /\ order[w + 1] = producer[t]
    BY <2>1, <1>6, PositionOf
  <2>3. PICK s \in OutputSlots : OutputAt(s) = t BY <1>4, <1>6 DEF Linked
  <2>4. s[1] = producer[t] BY <2>3, <1>6 DEF Linked
  <2>5. Touches(producer[t], t) BY <2>3, <2>4, Slots DEF Touches, OutputAt
  <2> QED BY <2>2, <2>5 DEF TouchedBefore
<1>11. Spans(live[t], t, steps) BY <1>1, <1>3 DEF PlanFacts
<1>12. /\ live[t].first \in steps /\ live[t].last \in steps
       /\ live[t].first <= w /\ p - 1 <= live[t].last
  BY <1>9, <1>10, <1>11 DEF Spans
<1>13. \A s \in steps : s \in Int BY <1>2 DEF TouchedBefore
<1>14. w < pc /\ pc <= p - 1 BY <1>2, <1>4
<1> HIDE DEF w, steps
<1>15. live[t].first <= live[u].last /\ live[u].first <= live[t].last
  BY <1>2, <1>5, <1>8, <1>10, <1>12, <1>13, <1>14
<1> QED BY <1>3, <1>15 DEF Overlap

\* What the node reads is needed.
LEMMA InputsNeeded ==
  ASSUME PlanFacts, PlanPrefix, pc < Len(plan), Len(plan) = Len(order),
         NEW k \in DOMAIN graph.inputs[plan[pc + 1]]
  PROVE  /\ graph.inputs[plan[pc + 1]][k] \in TensorIds
         /\ Needed(graph.inputs[plan[pc + 1]][k])
<1> DEFINE t == graph.inputs[plan[pc + 1]][k]
<1>1. pc \in 0 .. Len(order) - 1 /\ plan[pc + 1] = order[pc + 1] /\ Len(order) \in Nat
  BY KernelNode
<1>2. /\ t \in TensorIds
      /\ producer[t] = -1 => t \in External
      /\ producer[t] # -1 => Position(producer[t]) \in 0 .. pc - 1
  BY <1>1, StepInputs
<1>3. pc + 1 \in pc + 1 .. Len(plan) BY <1>1
<1>4. \E p \in pc + 1 .. Len(plan) :
         \E x \in DOMAIN graph.inputs[plan[p]] : graph.inputs[plan[p]][x] = t
  BY <1>3
<1>5. producer[t] # -1 => Position(producer[t]) < pc BY <1>1, <1>2
<1> QED BY <1>2, <1>4, <1>5 DEF Needed

\* What the graph means changes only with the bindings.
LEMMA SameMeaning ==
  ASSUME graph' = graph, producer' = producer, bound' = bound
  PROVE  Meaning' = Meaning
BY DEF Meaning, TensorIds

\* What a kernel's writes leave, and what they establish.
LEMMA KernelWrites ==
  ASSUME StorageInv, RunInv, phase \in {"call", "kernel"},
         NEW val, mem' = Written(mem, Outputs(plan[pc + 1]), val)
  PROVE  /\ \A c \in DOMAIN mem' :
              /\ c[1] = "caller" => c[3] \in 0 .. runs
              /\ c[1] = "host" => c[3] \in 0 .. runs - 1
         /\ \A t \in External :
              producer[t] = -1 /\ Provided(t) => Held(mem', pool[t], Bound(t, bound[t]))
         /\ \A t \in TensorIds :
              Needed(t) /\ t \notin Outputs(plan[pc + 1])
                 => Held(mem', pool[t], Meaning[t])
         /\ \A t \in Outputs(plan[pc + 1]) : Held(mem', pool[t], val[t])
<1> DEFINE out == Outputs(plan[pc + 1])
<1>1. /\ PlanFacts /\ PlanPrefix /\ pc < Len(plan) /\ Len(plan) = Len(order) /\ InRun
      /\ pool = [x \in TensorIds |-> Storage(x)]
  BY DEF RunInv, PlanPrefix, StorageInv, InRun
<1>2. /\ \A t \in out : t \in TensorIds /\ producer[t] = plan[pc + 1]
      /\ plan[pc + 1] \in Nodes
  BY <1>1, KernelNode
<1>3. -1 \notin Nodes BY <1>1, GraphTypes DEF PlanFacts, SortInv, SortTypes
<1>4. ASSUME NEW c \in DOMAIN mem'
      PROVE  /\ c[1] = "caller" => c[3] \in 0 .. runs
             /\ c[1] = "host" => c[3] \in 0 .. runs - 1
  <2>1. CASE c \in DOMAIN mem BY <2>1, <1>1 DEF RunInv, OldCells
  <2>2. CASE \E t \in out : \E j \in DOMAIN pool[t] : pool[t][j] = c
    <3>0. PICK t \in out : \E j \in DOMAIN pool[t] : pool[t][j] = c BY <2>2
    <3>1. PICK j \in DOMAIN pool[t] : pool[t][j] = c BY <3>0
    <3>2. /\ t \in TensorIds /\ graph \in Graphs /\ j \in DOMAIN Storage(t)
          /\ c = Storage(t)[j]
      BY <1>1, <1>2, <3>1 DEF PlanFacts
    <3>3. c = IF t \in Intermediates /\ allocator # "naive"
              THEN <<"arena", offset[t] + j>>
              ELSE IF OnDevice \/ t \notin External THEN <<"own", t, j>>
              ELSE <<"caller", t, bound[t], j>>
      BY <3>2, StorageCells
    <3>4. bound[t] \in 0 .. runs BY <3>2 DEF StorageInv
    <3> QED BY <3>3, <3>4
  <2>3. c \in DOMAIN Written(mem, out, val) BY <1>4
  <2> HIDE DEF out
  <2>4. c \in DOMAIN mem \/ \E t \in out : \E j \in DOMAIN pool[t] : pool[t][j] = c
    BY <2>3, WrittenCells
  <2> QED BY <2>1, <2>2, <2>4
<1>5. ASSUME NEW t \in External, producer[t] = -1, Provided(t)
      PROVE  Held(mem', pool[t], Bound(t, bound[t]))
  <2>1. Held(mem, pool[t], Bound(t, bound[t])) BY <1>5 DEF RunInv
  <2>2. t \in TensorIds /\ t \notin Intermediates /\ t \notin out
    BY <1>2, <1>3, <1>5 DEF External, Intermediates, Planned
  <2>3. \A u \in out : \A j \in DOMAIN pool[t], k \in DOMAIN pool[u] : pool[t][j] # pool[u][k]
    BY <1>1, <2>2, OutputsApart
  <2> HIDE DEF out
  <2>4. Held(Written(mem, out, val), pool[t], Bound(t, bound[t]))
    BY <2>1, <2>3, WrittenOther
  <2> QED BY <2>4 DEF out
<1>6. ASSUME NEW t \in TensorIds, Needed(t), t \notin out
      PROVE  Held(mem', pool[t], Meaning[t])
  <2>1. Held(mem, pool[t], Meaning[t]) BY <1>1, <1>6 DEF RunInv
  <2>2. \/ t \notin Intermediates \/ allocator = "naive"
        \/ producer[t] # -1 /\ Position(producer[t]) < pc /\ ReadLater(t)
    BY <1>6 DEF Needed, ReadLater, External, Intermediates, Planned
  <2>3. \A u \in out : \A j \in DOMAIN pool[t], k \in DOMAIN pool[u] : pool[t][j] # pool[u][k]
    <3> SUFFICES ASSUME NEW u \in out, NEW j \in DOMAIN pool[t], NEW k \in DOMAIN pool[u]
                 PROVE  pool[t][j] # pool[u][k]
      OBVIOUS
    <3>1. PlanPrefix /\ pc < Len(plan) /\ Len(plan) = Len(order) BY <1>1
    <3> QED BY <1>6, <2>2, <3>1, OutputsApart
  <2> HIDE DEF out
  <2>4. Held(Written(mem, out, val), pool[t], Meaning[t])
    BY <2>1, <2>3, WrittenOther
  <2> QED BY <2>4 DEF out
<1>7. ASSUME NEW t \in out PROVE Held(mem', pool[t], val[t])
  <2>1. \A u \in out : \A j \in DOMAIN pool[t], k \in DOMAIN pool[u] :
           pool[t][j] = pool[u][k] => t = u /\ j = k
    BY <1>1, OutputsDistinct
  <2> HIDE DEF out
  <2>2. Held(Written(mem, out, val), pool[t], val[t]) BY <2>1, WrittenValue
  <2> QED BY <2>2 DEF out
<1> QED BY <1>4, <1>5, <1>6, <1>7

\* Before the first output is written all of them become scratch; what is
\* needed is elsewhere.
LEMMA KernelBeginKeeps ==
  ASSUME StorageInv, RunInv, KernelBegin
  PROVE  RunInv'
<1> DEFINE out == Outputs(plan[pc + 1])
           val == [t \in out |-> Scratch]
<1>1. /\ phase = "call" /\ phase' = "kernel" /\ mem' = Written(mem, out, val)
      /\ UNCHANGED <<graph, producer, order, allocator, pool, plan, pc, runs, bound>>
  BY DEF KernelBegin
<1>2. InRun /\ InRun' BY <1>1 DEF InRun
<1>3. /\ PlanFacts /\ PlanPrefix /\ pc < Len(plan) /\ Len(plan) = Len(order)
  BY <1>1 DEF RunInv, PlanPrefix, StorageInv
<1>4. /\ \A c \in DOMAIN mem' :
           /\ c[1] = "caller" => c[3] \in 0 .. runs
           /\ c[1] = "host" => c[3] \in 0 .. runs - 1
      /\ \A t \in External :
           producer[t] = -1 /\ Provided(t) => Held(mem', pool[t], Bound(t, bound[t]))
      /\ \A t \in TensorIds :
           Needed(t) /\ t \notin out => Held(mem', pool[t], Meaning[t])
  <2> HIDE DEF val
  <2> QED BY <1>1, KernelWrites
<1>5. \A t \in TensorIds : Needed(t) => t \notin out
  <2> SUFFICES ASSUME NEW t \in out, Needed(t) PROVE FALSE OBVIOUS
  <2>1. producer[t] = plan[pc + 1] /\ Position(producer[t]) = pc /\ plan[pc + 1] \in Nodes
    BY <1>3, KernelNode
  <2>2. -1 \notin Nodes BY <1>3, GraphTypes DEF PlanFacts, SortInv, SortTypes
  <2>3. pc \in Int BY <1>3 DEF PlanPrefix
  <2> QED BY <2>1, <2>2, <2>3 DEF Needed
<1>6. /\ TensorIds' = TensorIds /\ External' = External /\ Meaning' = Meaning
      /\ Nodes' = Nodes
      /\ \A t : Provided(t)' <=> Provided(t)
      /\ \A t : Needed(t)' <=> Needed(t)
  <2>1. /\ TensorIds' = TensorIds /\ External' = External /\ Nodes' = Nodes
        /\ Intermediates' = Intermediates /\ Meaning' = Meaning
    BY <1>1, SameMeaning DEF TensorIds, External, Nodes, Intermediates, Planned
  <2>2. \A t : Provided(t)' <=> Provided(t) BY <1>1 DEF Provided, OnDevice
  <2>3. \A t : Position(producer[t])' = Position(producer[t])
    BY <1>1 DEF Position
  <2>4. \A t : Needed(t)' <=> Needed(t) BY <1>1, <2>1, <2>3 DEF Needed
  <2> QED BY <2>1, <2>2, <2>4
<1>7. PlanPrefix' BY <1>1, <1>3, <1>6 DEF PlanPrefix
<1>8. OldCells' BY <1>1, <1>2, <1>4 DEF OldCells
<1>9. \A t \in External' :
         producer'[t] = -1 /\ Provided(t)' => Held(mem', pool'[t], Bound(t, bound'[t]))
  BY <1>1, <1>4, <1>6
<1>10. /\ \A t \in External' : Provided(t)'
       /\ \A t \in TensorIds' : Needed(t)' => Held(mem', pool'[t], Meaning'[t])
  BY <1>1, <1>2, <1>4, <1>5, <1>6 DEF RunInv
<1> QED BY <1>7, <1>8, <1>9, <1>10 DEF RunInv, Held

\* During a run a tensor that is needed has its meaning.
LEMMA NeededValue ==
  ASSUME StorageInv, RunInv, InRun, NEW t \in TensorIds, Needed(t)
  PROVE  ValueIn(mem, pool[t]) = Meaning[t]
<1>1. PlanFacts BY DEF StorageInv
<1>2. Held(mem, pool[t], Meaning[t]) /\ (t \in External => Provided(t)) BY DEF RunInv
<1>3. /\ graph.bytes[t] \in Nat /\ DOMAIN pool[t] = 1 .. graph.bytes[t]
      /\ pool[t] = <<>> <=> graph.bytes[t] = 0
  BY <1>2, FullStorage
<1>4. ValueIn(mem, pool[t]) = IF graph.bytes[t] = 0 THEN NoValue ELSE Meaning[t]
  BY <1>2, <1>3, HeldValue
<1>5. Meaning[t] = MeaningGiven(Meaning, t) BY <1>1, MeaningIs
<1>6. graph.bytes[t] = 0 => Meaning[t] = NoValue BY <1>5 DEF MeaningGiven
<1> QED BY <1>4, <1>6

\* What the kernel computes is what its outputs mean.
LEMMA ResultIsMeaning ==
  ASSUME StorageInv, RunInv, phase = "kernel", NEW t \in Outputs(plan[pc + 1]),
         graph.bytes[t] # 0
  PROVE  Result(plan[pc + 1], t) = Meaning[t]
<1> DEFINE i == plan[pc + 1]
           ins == graph.inputs[i]
<1>1. /\ PlanFacts /\ PlanPrefix /\ pc < Len(plan) /\ Len(plan) = Len(order) /\ InRun
  BY DEF RunInv, PlanPrefix, StorageInv, InRun
<1>2. t \in TensorIds /\ producer[t] = i /\ i \in Nodes BY <1>1, KernelNode
<1>3. -1 \notin Nodes BY <1>1, GraphTypes DEF PlanFacts, SortInv, SortTypes
<1>4. ASSUME NEW k \in DOMAIN ins PROVE ValueIn(mem, pool[ins[k]]) = Meaning[ins[k]]
  BY <1>1, InputsNeeded, NeededValue
<1>5. [k \in DOMAIN ins |-> ValueIn(mem, pool[ins[k]])] = [k \in DOMAIN ins |-> Meaning[ins[k]]]
  BY <1>4
<1>6. Meaning[t] = MeaningGiven(Meaning, t) BY <1>1, <1>2, MeaningIs
<1>7. Meaning[t] = Computed(i, CHOOSE k \in DOMAIN graph.outputs[i] : graph.outputs[i][k] = t,
                            [k \in DOMAIN ins |-> Meaning[ins[k]]])
  BY <1>2, <1>3, <1>6 DEF MeaningGiven
<1> QED BY <1>5, <1>7 DEF Result

\* The outputs of the node that ends hold what they mean, and the others that
\* are needed from now on were needed before.
LEMMA KernelEndKeeps ==
  ASSUME StorageInv, RunInv, KernelEnd
  PROVE  RunInv'
<1> DEFINE i == plan[pc + 1]
           out == Outputs(i)
           val == [t \in out |-> Result(i, t)]
<1>1. /\ phase = "kernel" /\ mem' = Written(mem, out, val)
      /\ pc' = pc + 1 /\ phase' = IF pc + 1 = Len(plan) THEN "return" ELSE "call"
      /\ UNCHANGED <<graph, producer, order, allocator, pool, plan, runs, bound>>
  BY DEF KernelEnd
<1>2. InRun /\ InRun' BY <1>1 DEF InRun
<1>3. /\ PlanFacts /\ PlanPrefix /\ pc < Len(plan) /\ Len(plan) = Len(order)
      /\ pc \in Nat /\ Len(plan) \in Nat
  BY <1>1 DEF RunInv, PlanPrefix, StorageInv
<1>4. /\ \A c \in DOMAIN mem' :
           /\ c[1] = "caller" => c[3] \in 0 .. runs
           /\ c[1] = "host" => c[3] \in 0 .. runs - 1
      /\ \A t \in External :
           producer[t] = -1 /\ Provided(t) => Held(mem', pool[t], Bound(t, bound[t]))
      /\ \A t \in TensorIds :
           Needed(t) /\ t \notin out => Held(mem', pool[t], Meaning[t])
      /\ \A t \in out : Held(mem', pool[t], val[t])
  <2> HIDE DEF val
  <2> QED BY <1>1, KernelWrites
<1>5. /\ TensorIds' = TensorIds /\ External' = External /\ Meaning' = Meaning
      /\ Nodes' = Nodes /\ Intermediates' = Intermediates
      /\ \A t : Provided(t)' <=> Provided(t)
      /\ \A t : Position(producer[t])' = Position(producer[t])
  <2>1. /\ TensorIds' = TensorIds /\ External' = External /\ Nodes' = Nodes
        /\ Intermediates' = Intermediates /\ Meaning' = Meaning
    BY <1>1, SameMeaning DEF TensorIds, External, Nodes, Intermediates, Planned
  <2>2. \A t : Provided(t)' <=> Provided(t) BY <1>1 DEF Provided, OnDevice
  <2>3. \A t : Position(producer[t])' = Position(producer[t])
    BY <1>1 DEF Position
  <2> QED BY <2>1, <2>2, <2>3
<1>6. ASSUME NEW t \in TensorIds, Needed(t)', t \notin out PROVE Needed(t)
  <2>1. CASE t \in External /\ producer[t] = -1 BY <2>1 DEF Needed
  <2>2. CASE /\ producer[t] # -1 /\ Position(producer[t]) < pc + 1
             /\ \/ t \notin Intermediates \/ allocator = "naive"
                \/ \E p \in pc + 1 + 1 .. Len(plan) :
                      \E k \in DOMAIN graph.inputs[plan[p]] : graph.inputs[plan[p]][k] = t
    <3>1. producer[t] \in Nodes
      BY <1>3, <2>2 DEF PlanFacts, Linked
    <3>2. /\ SortTypes /\ Linked /\ Len(order) = NumNodes /\ Distinct(order)
      BY <1>3 DEF PlanFacts, SortInv, OrderIsTopological, Distinct
    <3>3. Position(producer[t]) \in Nat /\ order[Position(producer[t]) + 1] = producer[t]
      BY <3>1, <3>2, PositionOf
    <3>4. Position(producer[t]) # pc
      <4> SUFFICES ASSUME Position(producer[t]) = pc PROVE t \in out BY <1>6
      <4>1. producer[t] = i BY <3>3, <1>3, KernelNode
      <4>2. PICK s \in OutputSlots : OutputAt(s) = t BY <2>2, <3>2 DEF Linked
      <4>3. s[1] = i BY <4>1, <4>2, <3>2 DEF Linked
      <4>4. s[2] \in DOMAIN graph.outputs[i] /\ graph.outputs[i][s[2]] = t
        BY <4>2, <4>3, Slots DEF OutputAt
      <4> QED BY <4>4 DEF Outputs
    <3>5. Position(producer[t]) < pc BY <2>2, <3>3, <3>4, <1>3
    <3>6. ASSUME NEW p \in pc + 1 + 1 .. Len(plan) PROVE p \in pc + 1 .. Len(plan)
      BY <1>3
    <3>7. \/ t \notin Intermediates \/ allocator = "naive"
          \/ \E p \in pc + 1 .. Len(plan) :
                \E k \in DOMAIN graph.inputs[plan[p]] : graph.inputs[plan[p]][k] = t
      BY <2>2, <3>6
    <3> QED BY <2>2, <3>5, <3>7 DEF Needed
  <2> QED BY <1>1, <1>5, <1>6, <2>1, <2>2 DEF Needed
<1>7. ASSUME NEW t \in TensorIds, Needed(t)' PROVE Held(mem', pool[t], Meaning[t])
  <2>1. CASE t \notin out BY <1>4, <1>6, <1>7, <2>1
  <2>2. CASE t \in out /\ graph.bytes[t] # 0
    <3>1. Result(i, t) = Meaning[t] BY <1>1, <2>2, ResultIsMeaning
    <3>2. val[t] = Result(i, t) BY <2>2
    <3> HIDE DEF val
    <3> QED BY <1>4, <2>2, <3>1, <3>2
  <2>3. CASE t \in out /\ graph.bytes[t] = 0
    <3>1. t \in External => Provided(t) BY <1>2 DEF RunInv
    <3>2. DOMAIN pool[t] = 1 .. graph.bytes[t] BY <3>1, FullStorage
    <3> QED BY <2>3, <3>2 DEF Held
  <2> QED BY <2>1, <2>2, <2>3
<1>8. PlanPrefix' BY <1>1, <1>3, <1>5 DEF PlanPrefix
<1>9. OldCells' BY <1>1, <1>2, <1>4 DEF OldCells
<1>10. \A t \in External' :
         producer'[t] = -1 /\ Provided(t)' => Held(mem', pool'[t], Bound(t, bound'[t]))
  BY <1>1, <1>4, <1>5
<1>11. /\ \A t \in External' : Provided(t)'
       /\ \A t \in TensorIds' : Needed(t)' => Held(mem', pool'[t], Meaning'[t])
  BY <1>1, <1>2, <1>5, <1>7 DEF RunInv
<1> QED BY <1>8, <1>9, <1>10, <1>11 DEF RunInv, Held

-----------------------------------------------------------------------------
(* Around the kernels.                                                     *)

\* A step that computes nothing and does not enter a run.
LEMMA RunFrame ==
  ASSUME RunInv, runs \in Nat,
         UNCHANGED <<graph, producer, order, allocator, pool, plan, pc, runs, bound, mem>>,
         phase' # "resolve" => Len(plan) = Len(order),
         phase' \in {"call", "kernel", "return"} => phase' = phase
  PROVE  RunInv'
<1>1. /\ TensorIds' = TensorIds /\ External' = External /\ Meaning' = Meaning
      /\ Nodes' = Nodes /\ Intermediates' = Intermediates
      /\ \A t : Provided(t)' <=> Provided(t)
      /\ \A t : Position(producer[t])' = Position(producer[t])
  BY SameMeaning DEF TensorIds, External, Nodes, Intermediates, Planned, Provided,
                     OnDevice, Position
<1>2. \A t : Needed(t)' <=> Needed(t) BY <1>1 DEF Needed
<1>3. PlanPrefix' BY <1>1 DEF RunInv, PlanPrefix
<1>4. InRun' => InRun BY DEF InRun
<1>5. OldCells'
  <2> SUFFICES ASSUME NEW c \in DOMAIN mem
               PROVE  /\ c[1] = "caller" => c[3] \in 0 .. runs
                      /\ c[1] = "host" => c[3] \in 0 .. IF InRun' THEN runs - 1 ELSE runs
    BY DEF OldCells
  <2>1. CASE InRun <=> InRun' BY <2>1 DEF RunInv, OldCells
  <2>2. CASE InRun /\ ~InRun'
    <3>1. c[1] = "host" => c[3] \in 0 .. runs - 1 BY <2>2 DEF RunInv, OldCells
    <3>2. 0 .. runs - 1 \subseteq 0 .. runs OBVIOUS
    <3> QED BY <2>2, <3>1, <3>2 DEF RunInv, OldCells
  <2> QED BY <1>4, <2>1, <2>2
<1>6. \A t \in External' :
         producer'[t] = -1 /\ Provided(t)' => Held(mem', pool'[t], Bound(t, bound'[t]))
  BY <1>1 DEF RunInv, Held
<1>7. InRun' => /\ \A t \in External' : Provided(t)'
                /\ \A t \in TensorIds' : Needed(t)' => Held(mem', pool'[t], Meaning'[t])
  BY <1>1, <1>2, <1>4 DEF RunInv, Held
<1> QED BY <1>3, <1>5, <1>6, <1>7 DEF RunInv, Held

\* One more kernel is resolved.
LEMMA ResolveKeeps ==
  ASSUME PlanFacts, RunInv, ResolveKernel, phase' = "resolve"
  PROVE  RunInv'
<1> DEFINE i == order[Len(plan) + 1]
<1>1. /\ phase = "resolve" /\ Len(plan) < Len(order) /\ plan' = Append(plan, i)
      /\ UNCHANGED <<graph, producer, order, allocator, pool, pc, runs, bound, mem>>
  BY DEF ResolveKernel
<1>2. /\ TensorIds' = TensorIds /\ External' = External /\ Nodes' = Nodes
      /\ \A t : Provided(t)' <=> Provided(t)
      /\ ~InRun /\ ~InRun'
  BY <1>1 DEF TensorIds, External, Nodes, Provided, OnDevice, InRun
<1>3. order \in Seq(Nodes) BY DEF PlanFacts, SortInv, SortTypes
<1>4. /\ plan \in Seq(Nodes) /\ \A a \in 1 .. Len(plan) : plan[a] = order[a]
      /\ pc \in 0 .. Len(plan)
  BY DEF RunInv, PlanPrefix
<1>5. i \in Nodes BY <1>1, <1>3, <1>4
<1>6. /\ plan' \in Seq(Nodes) /\ Len(plan') = Len(plan) + 1
      /\ Len(plan') <= Len(order) /\ pc \in 0 .. Len(plan')
      /\ \A a \in 1 .. Len(plan') : plan'[a] = order[a]
  BY <1>1, <1>3, <1>4, <1>5
<1>7. PlanPrefix' BY <1>1, <1>2, <1>6 DEF PlanPrefix
<1> QED BY <1>1, <1>2, <1>7 DEF RunInv, OldCells, Held

\* Right after the constructor has given out storage, the device holds the
\* weights and nothing else holds anything.
LEMMA AllocationHolds ==
  ASSUME EarlyInv, PlanFacts,
         \/ ~OnDevice /\ (AllocateNaive \/ AllocatePlanned)
         \/ OnDevice /\ AllocateDevice
  PROVE  RunInv'
<1>1. /\ mem = <<>> /\ plan = <<>> /\ pc = 0 /\ runs = 0
      /\ bound = [t \in TensorIds |-> 0]
  BY DEF EarlyInv
<1>2. UNCHANGED <<graph, producer, order, allocator, pc, runs, bound>>
  BY DEF AllocateNaive, AllocatePlanned, AllocateDevice
<1>3. /\ TensorIds' = TensorIds /\ External' = External /\ Nodes' = Nodes
      /\ \A t : Provided(t)' <=> Provided(t)
      /\ \A t \in TensorIds : bound[t] = 0
  BY <1>1, <1>2 DEF TensorIds, External, Nodes, Provided, OnDevice
<1>4. order \in Seq(Nodes) /\ Len(order) \in Nat
  BY DEF PlanFacts, SortInv, SortTypes
<1>5. CASE ~OnDevice /\ (AllocateNaive \/ AllocatePlanned)
  <2>1. mem' = <<>> /\ plan' = <<>> /\ phase' = "resolve"
    BY <1>1, <1>5 DEF AllocateNaive, AllocatePlanned
  <2>2. PlanPrefix' BY <2>1, <1>1, <1>2, <1>4 DEF PlanPrefix
  <2>3. DOMAIN mem' = {} BY <2>1
  <2>4. \A t \in External : ~Provided(t) BY <1>3, <1>5 DEF Provided, External
  <2> QED BY <2>1, <2>2, <2>3, <2>4, <1>3 DEF RunInv, OldCells, InRun
<1>6. CASE OnDevice /\ AllocateDevice
  <2> DEFINE weights == {t \in TensorIds : graph.kind[t] = "weight"}
             cells == UNION {{OwnCells(t)[j] : j \in 1 .. graph.bytes[t]} : t \in weights}
  <2>1. /\ plan' = order /\ phase' = "idle"
        /\ mem' = [c \in cells |-> <<Bound(c[2], 0), c[3]>>]
        /\ pool' = [t \in TensorIds |->
                      IF t \in Intermediates THEN ArenaCells(t) ELSE OwnCells(t)]
    BY <1>6 DEF AllocateDevice
  <2>2. PlanPrefix' BY <2>1, <1>1, <1>2, <1>3, <1>4 DEF PlanPrefix
  <2>3. ASSUME NEW t \in weights, NEW j \in 1 .. graph.bytes[t]
        PROVE  OwnCells(t)[j] = <<"own", t, j>> /\ OwnCells(t)[j] \in cells
    BY DEF OwnCells
  <2>4. \A c \in cells : c[1] = "own"
    <3> SUFFICES ASSUME NEW c \in cells PROVE c[1] = "own" OBVIOUS
    <3>1. PICK t \in weights : c \in {OwnCells(t)[j] : j \in 1 .. graph.bytes[t]}
      OBVIOUS
    <3>2. PICK j \in 1 .. graph.bytes[t] : c = OwnCells(t)[j] BY <3>1
    <3> QED BY <3>2, <2>3
  <2>5. OldCells' BY <2>1, <2>4 DEF OldCells
  <2>6. ASSUME NEW t \in External, Provided(t)
        PROVE  Held(mem', pool'[t], Bound(t, 0))
    <3>1. t \in weights /\ t \notin Intermediates
      BY <2>6, <1>3 DEF Provided, External, Intermediates, Planned
    <3>2. pool'[t] = OwnCells(t) /\ DOMAIN OwnCells(t) = 1 .. graph.bytes[t]
      BY <2>1, <3>1 DEF OwnCells
    <3>3. ASSUME NEW j \in 1 .. graph.bytes[t]
          PROVE  OwnCells(t)[j] \in DOMAIN mem' /\ mem'[OwnCells(t)[j]] = <<Bound(t, 0), j>>
      <4>1. <<"own", t, j>> \in cells /\ OwnCells(t)[j] = <<"own", t, j>>
        BY <2>3, <3>1
      <4>2. <<"own", t, j>>[2] = t /\ <<"own", t, j>>[3] = j OBVIOUS
      <4> HIDE DEF cells
      <4> QED BY <2>1, <4>1, <4>2
    <3> QED BY <3>2, <3>3 DEF Held
  <2>7. \A t \in External : bound'[t] = 0 BY <1>2, <1>3 DEF External
  <2>8. ~InRun' BY <2>1 DEF InRun
  <2> QED BY <2>2, <2>5, <2>6, <2>7, <2>8, <1>3 DEF RunInv, Held
<1> QED BY <1>5, <1>6

\* What is bound holds the values of this run, in memory that is new; the
\* rest holds what it held.
LEMMA BindingHolds ==
  ASSUME StorageInv, RunInv, ~OnDevice, ~InRun, NEW B \in SUBSET External,
         BindAll(B, runs + 1)
  PROVE  /\ \A c \in DOMAIN mem' :
              /\ c[1] = "caller" => c[3] \in 0 .. runs + 1
              /\ c[1] = "host" => c[3] \in 0 .. runs
         /\ \A t \in External :
              producer[t] = -1 /\ bound'[t] # 0
                 => Held(mem', pool'[t], Bound(t, bound'[t]))
<1> DEFINE r == runs + 1
           new == UNION {{CallerCells(t, r)[j] : j \in 1 .. graph.bytes[t]} : t \in B}
<1>1. /\ pool' = [t \in TensorIds |-> IF t \in B THEN CallerCells(t, r) ELSE pool[t]]
      /\ bound' = [t \in TensorIds |-> IF t \in B THEN r ELSE bound[t]]
      /\ mem' = [c \in DOMAIN mem \cup new |->
                   IF c \in DOMAIN mem THEN mem[c] ELSE <<Bound(c[2], r), c[4]>>]
  BY DEF BindAll, SharedWithCaller, CallerHolds
<1>2. runs \in Nat BY DEF StorageInv
<1>3. ASSUME NEW t, NEW j \in 1 .. graph.bytes[t]
      PROVE  /\ CallerCells(t, r)[j] = <<"caller", t, r, j>>
             /\ t \in B => CallerCells(t, r)[j] \in new
  BY DEF CallerCells
<1>4. \A c \in new : c[1] = "caller" /\ c[3] = r
  <2> SUFFICES ASSUME NEW c \in new PROVE c[1] = "caller" /\ c[3] = r OBVIOUS
  <2>1. PICK t \in B : c \in {CallerCells(t, r)[j] : j \in 1 .. graph.bytes[t]}
    OBVIOUS
  <2>2. PICK j \in 1 .. graph.bytes[t] : c = CallerCells(t, r)[j] BY <2>1
  <2>3. c = <<"caller", t, r, j>> BY <2>2, <1>3
  <2> QED BY <2>3
<1>5. \A c \in DOMAIN mem : /\ c[1] = "caller" => c[3] \in 0 .. runs
                            /\ c[1] = "host" => c[3] \in 0 .. runs
  BY DEF RunInv, OldCells
<1>6. 0 .. runs \subseteq 0 .. r /\ r \in 0 .. r /\ r \notin 0 .. runs BY <1>2
<1> HIDE DEF new, r
<1>7. \A c \in DOMAIN mem' : /\ c[1] = "caller" => c[3] \in 0 .. r
                             /\ c[1] = "host" => c[3] \in 0 .. runs
  BY <1>1, <1>4, <1>5, <1>6
<1>8. ASSUME NEW t \in External, producer[t] = -1, bound'[t] # 0
      PROVE  Held(mem', pool'[t], Bound(t, bound'[t]))
  <2>0. t \in TensorIds BY DEF External
  <2>1. CASE t \in B
    <3>1. pool'[t] = CallerCells(t, r) /\ bound'[t] = r BY <2>0, <2>1, <1>1
    <3>2. DOMAIN CallerCells(t, r) = 1 .. graph.bytes[t] BY DEF CallerCells
    <3>3. ASSUME NEW j \in 1 .. graph.bytes[t]
          PROVE  /\ CallerCells(t, r)[j] \in DOMAIN mem'
                 /\ mem'[CallerCells(t, r)[j]] = <<Bound(t, r), j>>
      <4> DEFINE c == CallerCells(t, r)[j]
      <4>1. c = <<"caller", t, r, j>> /\ c \in new BY <2>1, <1>3
      <4>2. c[1] = "caller" /\ c[2] = t /\ c[3] = r /\ c[4] = j BY <4>1
      <4> HIDE DEF c
      <4>3. c \notin DOMAIN mem BY <4>2, <1>5, <1>6
      <4>4. c \in DOMAIN mem' /\ mem'[c] = <<Bound(c[2], r), c[4]>>
        BY <4>1, <4>3, <1>1
      <4> QED BY <4>2, <4>4 DEF c
    <3> QED BY <3>1, <3>2, <3>3 DEF Held
  <2>2. CASE t \notin B
    <3>1. pool'[t] = pool[t] /\ bound'[t] = bound[t] BY <2>0, <2>2, <1>1
    <3>2. Held(mem, pool[t], Bound(t, bound[t]))
      BY <3>1, <1>8 DEF RunInv, Provided
    <3>3. \A c \in DOMAIN mem : c \in DOMAIN mem' /\ mem'[c] = mem[c] BY <1>1
    <3> QED BY <3>1, <3>2, <3>3 DEF Held
  <2> QED BY <2>1, <2>2
<1> QED BY <1>7, <1>8 DEF r

\* So a run begins with everything provided and nothing computed.
LEMMA BeginRunKeeps ==
  ASSUME StorageInv, RunInv, ~OnDevice, NEW B \in SUBSET External, BeginRun(B)
  PROVE  RunInv'
<1>1. /\ phase = "idle" /\ CallerBinds(B) /\ runs' = runs + 1 /\ BindAll(B, runs + 1)
      /\ pc' = 0 /\ phase' = IF plan = <<>> THEN "return" ELSE "call"
      /\ UNCHANGED <<graph, producer, order, allocator, plan>>
  BY DEF BeginRun
<1>2. ~InRun /\ InRun' /\ runs \in Nat BY <1>1 DEF InRun, StorageInv
<1>3. /\ \A c \in DOMAIN mem' :
           /\ c[1] = "caller" => c[3] \in 0 .. runs + 1
           /\ c[1] = "host" => c[3] \in 0 .. runs
      /\ \A t \in External :
           producer[t] = -1 /\ bound'[t] # 0
              => Held(mem', pool'[t], Bound(t, bound'[t]))
  BY <1>1, <1>2, BindingHolds
<1>4. /\ TensorIds' = TensorIds /\ External' = External /\ Nodes' = Nodes
      /\ \A t : Provided(t)' <=> bound'[t] # 0
      /\ \A t : Position(producer[t])' = Position(producer[t])
      /\ External \subseteq TensorIds
  BY <1>1 DEF TensorIds, External, Nodes, Provided, OnDevice, Position
<1>5. \A t \in External : bound'[t] # 0
  <2>1. bound' = [t \in TensorIds |-> IF t \in B THEN runs + 1 ELSE bound[t]]
    BY <1>1 DEF BindAll, CallerHolds
  <2>2. \A t \in External \ B : bound[t] # 0 BY <1>1 DEF CallerBinds
  <2> QED BY <2>1, <2>2, <1>2, <1>4
<1>6. PlanPrefix'
  <2>1. /\ plan \in Seq(Nodes) /\ Len(plan) <= Len(order) /\ Len(plan) = Len(order)
        /\ \A a \in 1 .. Len(plan) : plan[a] = order[a]
    BY <1>1 DEF RunInv, PlanPrefix
  <2>2. /\ Len(plan) \in Nat /\ plan = <<>> <=> Len(plan) = 0 BY <2>1
  <2> QED BY <1>1, <1>4, <2>1, <2>2 DEF PlanPrefix
<1>7. OldCells'
  <2>1. runs' - 1 = runs BY <1>1, <1>2
  <2> QED BY <1>1, <1>2, <1>3, <2>1 DEF OldCells
<1>8. PlanFacts'
  BY <1>1, PlanFactsFrame DEF StorageInv, BeginRun, SortPhases
<1>9. ASSUME NEW t \in TensorIds, Needed(t)' PROVE Held(mem', pool'[t], Meaning'[t])
  <2>1. \A i \in Nodes : Position(i) \in Nat
    <3>1. /\ SortTypes /\ Len(order) = NumNodes /\ Distinct(order)
      BY DEF StorageInv, PlanFacts, SortInv, OrderIsTopological, Distinct
    <3> QED BY <3>1, PositionOf
  <2>2. producer[t] # -1 => Position(producer[t]) \in Nat
    BY <2>1 DEF StorageInv, PlanFacts, Linked
  <2>3. Position(producer[t])' = Position(producer[t]) BY <1>4
  <2>4. ~(Position(producer[t])' < 0 /\ producer[t] # -1) BY <2>2, <2>3
  <2>5. t \in External /\ producer[t] = -1
    BY <1>1, <1>4, <1>9, <2>4 DEF Needed
  <2>6. Held(mem', pool'[t], Bound(t, bound'[t])) BY <1>3, <1>5, <2>5
  <2>7. CASE graph.bytes[t] # 0
    <3>1. Meaning'[t] = Bound(t, bound'[t])
      BY <1>1, <1>4, <1>8, <2>5, <2>7, UnproducedMeaningNext
    <3> QED BY <2>6, <3>1
  <2>8. CASE graph.bytes[t] = 0
    <3>1. pool'[t] = IF t \in B THEN CallerCells(t, runs + 1) ELSE Storage(t)
      BY <1>1 DEF BindAll, SharedWithCaller, StorageInv
    <3>2. DOMAIN CallerCells(t, runs + 1) = {} BY <2>8 DEF CallerCells
    <3>3. DOMAIN Storage(t) = {} BY <2>8, StorageCells DEF StorageInv, PlanFacts
    <3> QED BY <3>1, <3>2, <3>3 DEF Held
  <2> QED BY <2>7, <2>8
<1>10. \A t \in External' :
         producer'[t] = -1 /\ Provided(t)' => Held(mem', pool'[t], Bound(t, bound'[t]))
  BY <1>1, <1>3, <1>4
<1>11. /\ \A t \in External' : Provided(t)'
       /\ \A t \in TensorIds' : Needed(t)' => Held(mem', pool'[t], Meaning'[t])
  BY <1>4, <1>5, <1>9
<1> QED BY <1>6, <1>7, <1>10, <1>11 DEF RunInv, Held

\* A call that throws leaves its bindings in force, and they are as good as
\* those of a run.
LEMMA BeginRunUnknownKeeps ==
  ASSUME StorageInv, RunInv, ~OnDevice, NEW B \in SUBSET External, NEW D \in SUBSET B,
         BeginRunUnknown(B, D)
  PROVE  RunInv'
<1>1. /\ phase = "idle" /\ runs' = runs + 1 /\ BindAll(D, runs + 1) /\ phase' = "threw"
      /\ UNCHANGED <<graph, producer, order, allocator, plan, pc>>
  BY DEF BeginRunUnknown
<1>2. ~InRun /\ ~InRun' /\ runs \in Nat /\ D \in SUBSET External
  BY <1>1 DEF InRun, StorageInv
<1>3. /\ \A c \in DOMAIN mem' :
           /\ c[1] = "caller" => c[3] \in 0 .. runs + 1
           /\ c[1] = "host" => c[3] \in 0 .. runs
      /\ \A t \in External :
           producer[t] = -1 /\ bound'[t] # 0
              => Held(mem', pool'[t], Bound(t, bound'[t]))
  BY <1>1, <1>2, BindingHolds
<1>4. /\ External' = External /\ Nodes' = Nodes
      /\ \A t : Provided(t)' <=> bound'[t] # 0
  BY <1>1 DEF TensorIds, External, Nodes, Provided, OnDevice
<1>5. PlanPrefix' BY <1>1, <1>4 DEF RunInv, PlanPrefix
<1>6. OldCells'
  <2>1. 0 .. runs \subseteq 0 .. runs + 1 BY <1>2
  <2> QED BY <1>1, <1>2, <1>3, <2>1 DEF OldCells
<1>7. \A t \in External' :
         producer'[t] = -1 /\ Provided(t)' => Held(mem', pool'[t], Bound(t, bound'[t]))
  BY <1>1, <1>3, <1>4
<1> QED BY <1>2, <1>5, <1>6, <1>7 DEF RunInv, Held

\* The upload writes the input's own buffer and no other.
LEMMA UploadHolds ==
  ASSUME StorageInv, RunInv, OnDevice, Upload
  PROVE  /\ \A c \in DOMAIN mem' :
              /\ c[1] = "caller" => c[3] \in 0 .. runs
              /\ c[1] = "host" => c[3] \in 0 .. runs
         /\ \A t \in External :
              producer[t] = -1 /\ (bound'[t] # 0 \/ graph.kind[t] = "weight")
                 => Held(mem', pool[t], Bound(t, bound'[t]))
<1> DEFINE ins == InputsOf(graph)
           val == [t \in ins |-> Bound(t, runs + 1)]
<1>1. /\ phase = "idle" /\ mem' = Written(mem, ins, val)
      /\ bound' = [t \in TensorIds |-> IF t \in ins THEN runs + 1 ELSE bound[t]]
  BY DEF Upload
<1>2. /\ PlanFacts /\ pool = [x \in TensorIds |-> Storage(x)] /\ graph \in Graphs
      /\ ~InRun
  BY <1>1 DEF StorageInv, PlanFacts, InRun
<1>3. \A t \in ins : t \in TensorIds /\ t \in External /\ t \notin Planned
  <2>1. DOMAIN graph.kind = TensorIds
    BY <1>2, GraphTypes DEF PlanFacts, SortInv, SortTypes
  <2> QED BY <2>1 DEF InputsOf, External, Planned
<1>4. ASSUME NEW c \in DOMAIN mem'
      PROVE  /\ c[1] = "caller" => c[3] \in 0 .. runs
             /\ c[1] = "host" => c[3] \in 0 .. runs
  <2>1. CASE c \in DOMAIN mem BY <2>1, <1>2 DEF RunInv, OldCells
  <2>2. CASE \E t \in ins : \E j \in DOMAIN pool[t] : pool[t][j] = c
    <3>0. PICK t \in ins : \E j \in DOMAIN pool[t] : pool[t][j] = c BY <2>2
    <3>1. PICK j \in DOMAIN pool[t] : pool[t][j] = c BY <3>0
    <3>2. /\ t \in TensorIds /\ t \notin Intermediates /\ j \in DOMAIN Storage(t)
          /\ c = Storage(t)[j]
      BY <1>2, <1>3, <3>1 DEF Intermediates
    <3>3. c = <<"own", t, j>> BY <3>2, <1>2, StorageCells
    <3> QED BY <3>3
  <2>3. c \in DOMAIN Written(mem, ins, val) BY <1>1
  <2> HIDE DEF ins, val
  <2>4. c \in DOMAIN mem \/ \E t \in ins : \E j \in DOMAIN pool[t] : pool[t][j] = c
    BY <2>3, WrittenCells
  <2> QED BY <2>1, <2>2, <2>4
<1>5. ASSUME NEW t \in TensorIds, t \notin Planned, NEW u \in ins,
             NEW j \in DOMAIN pool[t], NEW k \in DOMAIN pool[u], pool[t][j] = pool[u][k]
      PROVE  t = u /\ j = k
  BY <1>2, <1>3, <1>5, SharedCell
<1>6. ASSUME NEW t \in External, producer[t] = -1, bound'[t] # 0 \/ graph.kind[t] = "weight"
      PROVE  Held(mem', pool[t], Bound(t, bound'[t]))
  <2>0. t \in TensorIds /\ t \notin Planned BY DEF External, Planned
  <2>1. CASE t \in ins
    <3>1. bound'[t] = runs + 1 /\ val[t] = Bound(t, runs + 1) BY <2>0, <2>1, <1>1
    <3>2. \A u \in ins : \A j \in DOMAIN pool[t], k \in DOMAIN pool[u] :
             pool[t][j] = pool[u][k] => t = u /\ j = k
      BY <2>0, <1>5
    <3> HIDE DEF val, ins
    <3>3. Held(Written(mem, ins, val), pool[t], val[t]) BY <2>1, <3>2, WrittenValue
    <3> QED BY <1>1, <3>1, <3>3
  <2>2. CASE t \notin ins
    <3>1. bound'[t] = bound[t] BY <2>0, <2>2, <1>1
    <3>2. Held(mem, pool[t], Bound(t, bound[t]))
      BY <3>1, <1>6 DEF RunInv, Provided
    <3>3. \A u \in ins : \A j \in DOMAIN pool[t], k \in DOMAIN pool[u] :
             pool[t][j] # pool[u][k]
      BY <2>0, <2>2, <1>5
    <3> HIDE DEF val, ins
    <3>4. Held(Written(mem, ins, val), pool[t], Bound(t, bound[t]))
      BY <3>2, <3>3, WrittenOther
    <3> QED BY <1>1, <3>1, <3>4
  <2> QED BY <2>1, <2>2
<1> QED BY <1>4, <1>6

\* So a run on the device, too, begins with everything provided.
LEMMA UploadRunKeeps ==
  ASSUME StorageInv, RunInv, OnDevice, Upload
  PROVE  RunInv'
<1>1. /\ phase = "idle" /\ runs' = runs + 1 /\ pool' = pool
      /\ bound' = [t \in TensorIds |-> IF t \in InputsOf(graph) THEN runs + 1 ELSE bound[t]]
      /\ pc' = 0 /\ phase' = IF plan = <<>> THEN "return" ELSE "call"
      /\ UNCHANGED <<graph, producer, order, allocator, plan>>
  BY DEF Upload
<1>2. ~InRun /\ InRun' /\ runs \in Nat BY <1>1 DEF InRun, StorageInv
<1>3. /\ \A c \in DOMAIN mem' :
           /\ c[1] = "caller" => c[3] \in 0 .. runs
           /\ c[1] = "host" => c[3] \in 0 .. runs
      /\ \A t \in External :
           producer[t] = -1 /\ (bound'[t] # 0 \/ graph.kind[t] = "weight")
              => Held(mem', pool[t], Bound(t, bound'[t]))
  BY UploadHolds
<1>4. /\ TensorIds' = TensorIds /\ External' = External /\ Nodes' = Nodes
      /\ \A t : Provided(t)' <=> bound'[t] # 0 \/ graph.kind[t] = "weight"
      /\ \A t : Position(producer[t])' = Position(producer[t])
      /\ External \subseteq TensorIds
  BY <1>1 DEF TensorIds, External, Nodes, Provided, OnDevice, Position
<1>5. \A t \in External : Provided(t)'
  <2>1. DOMAIN graph.kind = TensorIds
    BY GraphTypes DEF StorageInv, PlanFacts, SortInv, SortTypes
  <2>2. \A t \in External : graph.kind[t] = "weight" \/ t \in InputsOf(graph)
    BY <2>1 DEF External, InputsOf
  <2>3. \A t \in InputsOf(graph) : t \in TensorIds => bound'[t] # 0 BY <1>1, <1>2
  <2> QED BY <1>4, <2>2, <2>3
<1>6. PlanPrefix'
  <2>1. /\ plan \in Seq(Nodes) /\ Len(plan) <= Len(order) /\ Len(plan) = Len(order)
        /\ \A a \in 1 .. Len(plan) : plan[a] = order[a]
    BY <1>1 DEF RunInv, PlanPrefix
  <2>2. /\ Len(plan) \in Nat /\ plan = <<>> <=> Len(plan) = 0 BY <2>1
  <2> QED BY <1>1, <1>4, <2>1, <2>2 DEF PlanPrefix
<1>7. OldCells'
  <2>1. runs' - 1 = runs /\ 0 .. runs \subseteq 0 .. runs + 1 BY <1>1, <1>2
  <2> QED BY <1>1, <1>2, <1>3, <2>1 DEF OldCells
<1>8. StorageInv' /\ PlanFacts' BY UploadKeeps DEF StorageInv
<1>9. ASSUME NEW t \in TensorIds, Needed(t)' PROVE Held(mem', pool'[t], Meaning'[t])
  <2>1. \A i \in Nodes : Position(i) \in Nat
    <3>1. /\ SortTypes /\ Len(order) = NumNodes /\ Distinct(order)
      BY DEF StorageInv, PlanFacts, SortInv, OrderIsTopological, Distinct
    <3> QED BY <3>1, PositionOf
  <2>2. producer[t] # -1 => Position(producer[t]) \in Nat
    BY <2>1 DEF StorageInv, PlanFacts, Linked
  <2>3. Position(producer[t])' = Position(producer[t]) BY <1>4
  <2>4. ~(Position(producer[t])' < 0 /\ producer[t] # -1) BY <2>2, <2>3
  <2>5. t \in External /\ producer[t] = -1
    BY <1>1, <1>4, <1>9, <2>4 DEF Needed
  <2>6. Held(mem', pool'[t], Bound(t, bound'[t])) BY <1>1, <1>3, <1>4, <1>5, <2>5
  <2>7. CASE graph.bytes[t] # 0
    <3>1. Meaning'[t] = Bound(t, bound'[t])
      BY <1>1, <1>4, <1>8, <2>5, <2>7, UnproducedMeaningNext
    <3> QED BY <2>6, <3>1
  <2>8. CASE graph.bytes[t] = 0
    <3>1. pool'[t] = Storage(t) BY <1>1 DEF StorageInv
    <3>2. DOMAIN Storage(t) = {} BY <2>8, StorageCells DEF StorageInv, PlanFacts
    <3> QED BY <3>1, <3>2 DEF Held
  <2> QED BY <2>7, <2>8
<1>10. \A t \in External' :
         producer'[t] = -1 /\ Provided(t)' => Held(mem', pool'[t], Bound(t, bound'[t]))
  BY <1>1, <1>3, <1>4
<1>11. /\ \A t \in External' : Provided(t)'
       /\ \A t \in TensorIds' : Needed(t)' => Held(mem', pool'[t], Meaning'[t])
  BY <1>4, <1>5, <1>9
<1> QED BY <1>6, <1>7, <1>10, <1>11 DEF RunInv, Held

\* The declared results are tensors, and on the device there is one.
LEMMA ResultTypes ==
  ASSUME PlanFacts
  PROVE  /\ \A k \in DOMAIN graph.results : graph.results[k] \in TensorIds
         /\ ForDevice(graph) => DOMAIN graph.results = {1}
<1> DEFINE c == Cardinality(DOMAIN graph.kind)
<1>1. /\ graph.results \in Seq(0 .. c - 1) /\ graph.kind \in [0 .. c - 1 -> Kinds]
  BY GraphsAssumption DEF PlanFacts, IsGraph
<1>2. TensorIds = 0 .. c - 1 BY <1>1 DEF TensorIds
<1> HIDE DEF c
<1>3. graph.results \in Seq(TensorIds) BY <1>1, <1>2
<1>4. DOMAIN graph.results = 1 .. Len(graph.results) BY <1>3
<1>5. ForDevice(graph) => Len(graph.results) = 1 BY DEF ForDevice
<1>6. 1 .. 1 = {1} OBVIOUS
<1>7. \A k \in DOMAIN graph.results : graph.results[k] \in TensorIds BY <1>3
<1> QED BY <1>4, <1>5, <1>6, <1>7

\* What the device returns is new memory of the host.
LEMMA DownloadKeeps ==
  ASSUME StorageInv, RunInv, OnDevice, ForDevice(graph), Download
  PROVE  RunInv'
<1> DEFINE t == graph.results[1]
           new == {HostCells(t)[j] : j \in DOMAIN pool[t]}
<1>1. /\ phase = "return" /\ phase' = "returned"
      /\ mem' = [c \in DOMAIN mem \cup new |->
                   IF c \in DOMAIN mem THEN mem[c] ELSE mem[pool[t][c[4]]]]
      /\ UNCHANGED <<graph, producer, order, allocator, pool, plan, pc, runs, bound>>
  BY DEF Download
<1>2. InRun /\ ~InRun' /\ runs \in Nat BY <1>1 DEF InRun, StorageInv
<1>3. External' = External /\ Nodes' = Nodes /\ \A u : Provided(u)' <=> Provided(u)
  BY <1>1 DEF TensorIds, External, Nodes, Provided, OnDevice
<1>4. PlanPrefix' BY <1>1, <1>3 DEF RunInv, PlanPrefix
<1>5. OldCells'
  <2> SUFFICES ASSUME NEW c \in DOMAIN mem'
               PROVE  /\ c[1] = "caller" => c[3] \in 0 .. runs
                      /\ c[1] = "host" => c[3] \in 0 .. runs
    BY <1>1, <1>2 DEF OldCells
  <2>1. CASE c \in DOMAIN mem
    <3>1. /\ c[1] = "caller" => c[3] \in 0 .. runs
          /\ c[1] = "host" => c[3] \in 0 .. runs - 1
      BY <2>1, <1>2, Zenon DEF RunInv, OldCells
    <3>2. 0 .. runs - 1 \subseteq 0 .. runs BY <1>2
    <3> QED BY <3>1, <3>2
  <2>2. CASE c \in new
    <3>1. PICK j \in DOMAIN pool[t] : c = HostCells(t)[j] BY <2>2
    <3>2. 0 .. runs \subseteq 0 .. runs /\ runs \in 0 .. runs BY <1>2
    <3>3. DOMAIN pool[t] \subseteq 1 .. graph.bytes[t]
      <4>1. t \in TensorIds BY ResultTypes DEF StorageInv
      <4> QED BY <4>1, StorageCells DEF StorageInv, PlanFacts
    <3>4. c = <<"host", t, runs, j>> BY <3>1, <3>3 DEF HostCells
    <3> QED BY <3>2, <3>4
  <2> QED BY <1>1, <2>1, <2>2
<1> QED BY <1>1, <1>2, <1>3, <1>4, <1>5 DEF RunInv, Held

-----------------------------------------------------------------------------
(* What is returned.                                                       *)

\* At the end of a run the sound results are among what is needed.
LEMMA ReturnedValue ==
  ASSUME StorageInv, RunInv, phase = "return", SoundResults,
         NEW k \in DOMAIN graph.results
  PROVE  /\ Needed(graph.results[k])
         /\ ValueIn(mem, pool[graph.results[k]]) = Meaning[graph.results[k]]
<1> DEFINE t == graph.results[k]
<1>1. /\ PlanFacts /\ PlanPrefix /\ InRun /\ pc = Len(order)
  BY DEF RunInv, PlanPrefix, StorageInv, InRun
<1>2. t \in TensorIds BY <1>1, ResultTypes
<1>3. \/ t \in External
      \/ producer[t] # -1 /\ (t \notin Intermediates \/ allocator = "naive")
  BY DEF SoundResults
<1>4. ASSUME producer[t] # -1 PROVE Position(producer[t]) < pc
  <2>1. producer[t] \in Nodes BY <1>1, <1>2, <1>4 DEF PlanFacts, Linked
  <2>2. /\ SortTypes /\ Len(order) = NumNodes /\ Distinct(order)
    BY <1>1 DEF PlanFacts, SortInv, OrderIsTopological, Distinct
  <2>3. Len(order) \in Nat /\ Position(producer[t]) \in 0 .. Len(order) - 1
    BY <2>1, <2>2, PositionOf
  <2> QED BY <2>3, <1>1
<1>5. t \in External => t \notin Intermediates
  BY DEF External, Intermediates, Planned
<1>6. Needed(t) BY <1>3, <1>4, <1>5 DEF Needed
<1>7. ValueIn(mem, pool[t]) = Meaning[t] BY <1>1, <1>2, <1>6, NeededValue
<1> QED BY <1>6, <1>7

\* With nothing returned there is nothing to say.
LEMMA NoResults ==
  ASSUME results' = <<>>
  PROVE  ResultsInv'
<1>1. DOMAIN results' = {} BY ONLY results' = <<>>
<1> QED BY <1>1 DEF ResultsInv

\* What is returned stays as long as nobody writes.
LEMMA ResultsFrame ==
  ASSUME ResultsInv,
         UNCHANGED <<graph, producer, allocator, bound, results, mem>>,
         phase' = phase \/ (phase = "returned" /\ phase' = "idle") \/ results = <<>>
  PROVE  ResultsInv'
<1>1. CASE results = <<>> BY <1>1, NoResults
<1>2. CASE phase' = phase \/ (phase = "returned" /\ phase' = "idle")
  <2>1. /\ Meaning' = Meaning /\ (SoundResults' <=> SoundResults)
        /\ (OnDevice' <=> OnDevice)
    BY SameMeaning DEF SoundResults, External, TensorIds, Intermediates, Planned,
                       OnDevice
  <2>2. \A k \in DOMAIN results : ValueIn(mem', results'[k]) = ValueIn(mem, results[k])
    OBVIOUS
  <2> QED BY <1>2, <2>1, <2>2 DEF ResultsInv, ValueIn
<1> QED BY <1>1, <1>2

\* The outputs are handed out with their meaning.
LEMMA ReturnKeepsResults ==
  ASSUME StorageInv, RunInv, ~OnDevice, ReturnOutputs
  PROVE  ResultsInv'
<1>1. /\ phase = "return" /\ phase' = "returned"
      /\ results' = [k \in DOMAIN graph.results |-> pool[graph.results[k]]]
      /\ UNCHANGED <<graph, producer, allocator, bound, mem>>
  BY DEF ReturnOutputs
<1>2. /\ Meaning' = Meaning /\ (SoundResults' <=> SoundResults) /\ ~OnDevice'
  BY <1>1, SameMeaning DEF SoundResults, External, TensorIds, Intermediates, Planned,
                     OnDevice
<1>3. ASSUME SoundResults, NEW k \in DOMAIN results'
      PROVE  ValueIn(mem', results'[k]) = Meaning'[graph'.results[k]]
  <2>1. k \in DOMAIN graph.results /\ results'[k] = pool[graph.results[k]] BY <1>1
  <2>2. ValueIn(mem, pool[graph.results[k]]) = Meaning[graph.results[k]]
    BY <1>1, <1>3, <2>1, ReturnedValue
  <2> QED BY <1>1, <1>2, <2>1, <2>2
<1>4. phase' \notin LatePhases \ {"idle", "returned"} BY <1>1
<1> QED BY <1>2, <1>3, <1>4, Zenon DEF ResultsInv

\* So are those of the device: a copy, in memory that was not in use.
LEMMA DownloadKeepsResults ==
  ASSUME StorageInv, RunInv, OnDevice, ForDevice(graph), Download
  PROVE  ResultsInv'
<1> DEFINE t == graph.results[1]
           new == {HostCells(t)[j] : j \in DOMAIN pool[t]}
<1>1. /\ phase = "return" /\ phase' = "returned" /\ results' = <<HostCells(t)>>
      /\ mem' = [c \in DOMAIN mem \cup new |->
                   IF c \in DOMAIN mem THEN mem[c] ELSE mem[pool[t][c[4]]]]
      /\ UNCHANGED <<graph, producer, allocator, bound>>
  BY DEF Download
<1>2. /\ Meaning' = Meaning /\ (SoundResults' <=> SoundResults)
  BY <1>1, SameMeaning DEF SoundResults, External, TensorIds, Intermediates, Planned
<1>3. DOMAIN results' = {1} /\ results'[1] = HostCells(t) BY <1>1
<1>4. \A j \in 1 .. graph.bytes[t] : HostCells(t)[j] = <<"host", t, runs, j>>
  BY DEF HostCells
<1>5. DOMAIN HostCells(t) = 1 .. graph.bytes[t] BY DEF HostCells
<1>6. /\ \A j \in DOMAIN HostCells(t) : HostCells(t)[j][1] = "host"
      /\ graph.bytes[t] \in Nat
      /\ HostCells(t) = <<>> <=> graph.bytes[t] = 0
      /\ HostCells(t) = <<>> \/ 1 \in DOMAIN HostCells(t)
  <2>1. t \in TensorIds BY ResultTypes DEF StorageInv
  <2>2. graph.bytes[t] \in Nat BY <2>1, SizesAssumption DEF StorageInv, PlanFacts, TensorIds
  <2>3. CASE graph.bytes[t] = 0
    <3>1. HostCells(t) = <<>> BY <2>3 DEF HostCells
    <3> QED BY <2>2, <2>3, <3>1, <1>4, <1>5
  <2>4. CASE graph.bytes[t] # 0
    <3>1. 1 \in DOMAIN HostCells(t) BY <2>2, <2>4, <1>5
    <3>2. HostCells(t) # <<>> BY <3>1
    <3> QED BY <2>2, <2>4, <3>1, <3>2, <1>4, <1>5
  <2> QED BY <2>3, <2>4
<1>7. ASSUME SoundResults PROVE ValueIn(mem', HostCells(t)) = Meaning[t]
  <2>1. PlanFacts /\ InRun /\ runs \in Nat
    BY <1>1 DEF StorageInv, InRun
  <2>2. t \in TensorIds /\ 1 \in DOMAIN graph.results BY <2>1, ResultTypes
  <2>3. ValueIn(mem, pool[t]) = Meaning[t] BY <1>1, <1>7, <2>2, ReturnedValue
  <2>4. /\ graph.bytes[t] \in Nat /\ DOMAIN pool[t] = 1 .. graph.bytes[t]
        /\ pool[t] = <<>> <=> graph.bytes[t] = 0
    BY <2>1, <2>2, FullStorage DEF RunInv
  <2>6. CASE graph.bytes[t] = 0
    BY <2>3, <2>4, <2>6, <1>6 DEF ValueIn
  <2>7. CASE graph.bytes[t] # 0
    <3>1. Needed(t) BY <1>1, <1>7, <2>2, ReturnedValue
    <3>2. Held(mem, pool[t], Meaning[t]) BY <2>1, <2>2, <3>1 DEF RunInv
    <3>3. ASSUME NEW j \in 1 .. graph.bytes[t]
          PROVE  /\ HostCells(t)[j] \in DOMAIN mem'
                 /\ mem'[HostCells(t)[j]] = <<Meaning[t], j>>
      <4> DEFINE c == HostCells(t)[j]
      <4>1. c[1] = "host" /\ c[3] = runs /\ c[4] = j /\ c \in new
        <5>1. c = <<"host", t, runs, j>> BY <1>4
        <5>2. c \in new BY <2>4
        <5> QED BY <5>1, <5>2
      <4> HIDE DEF c, new
      <4>2. c \notin DOMAIN mem
        <5>1. \A d \in DOMAIN mem : d[1] = "host" => d[3] \in 0 .. runs - 1
          BY <2>1, Zenon DEF RunInv, OldCells
        <5>2. runs \notin 0 .. runs - 1 BY <2>1
        <5> QED BY <4>1, <5>1, <5>2
      <4>3. c \in DOMAIN mem' /\ mem'[c] = mem[pool[t][c[4]]] BY <1>1, <4>1, <4>2
      <4>4. mem[pool[t][j]] = <<Meaning[t], j>> BY <3>2, <2>4 DEF Held
      <4> QED BY <4>1, <4>3, <4>4 DEF c
    <3>4. Held(mem', HostCells(t), Meaning[t]) BY <3>3, <1>5 DEF Held
    <3> QED BY <3>4, <2>4, <2>7, <1>5, <1>6, HeldValue
  <2> QED BY <2>6, <2>7
<1>8. ASSUME SoundResults, NEW k \in DOMAIN results'
      PROVE  ValueIn(mem', results'[k]) = Meaning'[graph'.results[k]]
  <2>1. k = 1 /\ results'[k] = HostCells(t) BY <1>3
  <2>2. graph'.results[k] = t BY <2>1, <1>1
  <2> QED BY <2>1, <2>2, <1>2, <1>7, <1>8
<1>9. \A k \in DOMAIN results' :
         /\ results'[k] = <<>> \/ 1 \in DOMAIN results'[k]
         /\ \A j \in DOMAIN results'[k] : results'[k][j][1] = "host"
  BY <1>3, <1>6
<1>10. phase' = "returned" BY <1>1
<1> HIDE DEF t, new
<1> QED BY <1>2, <1>8, <1>9, <1>10 DEF ResultsInv, ValueIn

\* A tensor whose cells hold the same in two memories has the same value.
LEMMA SameCells ==
  ASSUME NEW m, NEW n, NEW tensor, tensor = <<>> \/ 1 \in DOMAIN tensor,
         \A j \in DOMAIN tensor : /\ tensor[j] \in DOMAIN n <=> tensor[j] \in DOMAIN m
                                  /\ tensor[j] \in DOMAIN m => n[tensor[j]] = m[tensor[j]]
  PROVE  ValueIn(n, tensor) = ValueIn(m, tensor)
<1>1. CASE tensor = <<>> BY <1>1 DEF ValueIn
<1>2. CASE tensor # <<>> /\ tensor[1] \notin DOMAIN m BY <1>2 DEF ValueIn
<1>3. CASE tensor # <<>> /\ tensor[1] \in DOMAIN m
  <2> DEFINE v == m[tensor[1]][1]
             InM == \A j \in DOMAIN tensor : tensor[j] \in DOMAIN m /\ m[tensor[j]] = <<v, j>>
             InN == \A j \in DOMAIN tensor : tensor[j] \in DOMAIN n /\ n[tensor[j]] = <<v, j>>
  <2>1. InM <=> InN OBVIOUS
  <2>2. ValueIn(m, tensor) = IF InM THEN v ELSE NoValue BY <1>3 DEF ValueIn
  <2>3. tensor[1] \in DOMAIN n /\ n[tensor[1]][1] = v BY <1>3
  <2>4. ValueIn(n, tensor) = IF InN THEN v ELSE NoValue BY <1>3, <2>3 DEF ValueIn
  <2> QED BY <2>1, <2>2, <2>4
<1> QED BY <1>1, <1>2, <1>3

\* What was returned by the device outlives it.
LEMMA DestroyKeepsResults ==
  ASSUME ResultsInv, OnDevice, Destroy
  PROVE  ResultsInv'
<1> DEFINE host == {c \in DOMAIN mem : c[1] = "host"}
<1>1. /\ phase = "idle" /\ phase' = "destroyed"
      /\ mem' = [c \in host |-> mem[c]]
      /\ UNCHANGED <<graph, producer, allocator, bound, results>>
  BY DEF Destroy
<1>2. /\ Meaning' = Meaning /\ (SoundResults' <=> SoundResults)
  BY <1>1, SameMeaning DEF SoundResults, External, TensorIds, Intermediates, Planned
<1>3. \A k \in DOMAIN results :
         /\ results[k] = <<>> \/ 1 \in DOMAIN results[k]
         /\ \A j \in DOMAIN results[k] : results[k][j][1] = "host"
  BY DEF ResultsInv
<1>4. ASSUME NEW k \in DOMAIN results
      PROVE  ValueIn(mem', results[k]) = ValueIn(mem, results[k])
  <2>1. \A j \in DOMAIN results[k] :
           /\ results[k][j] \in DOMAIN mem' <=> results[k][j] \in DOMAIN mem
           /\ results[k][j] \in DOMAIN mem => mem'[results[k][j]] = mem[results[k][j]]
    BY <1>1, <1>3
  <2> QED BY <1>3, <2>1, SameCells
<1>5. ASSUME SoundResults, NEW k \in DOMAIN results
      PROVE  ValueIn(mem', results[k]) = Meaning'[graph'.results[k]]
  <2>1. ValueIn(mem, results[k]) = Meaning[graph.results[k]]
    BY <1>1, <1>5 DEF ResultsInv
  <2> QED BY <1>1, <1>2, <1>4, <2>1
<1>6. phase' \notin LatePhases BY <1>1 DEF LatePhases
<1> HIDE DEF host
<1>7. results' = results BY <1>1
<1> QED BY <1>2, <1>3, <1>5, <1>6, <1>7 DEF ResultsInv, ValueIn

-----------------------------------------------------------------------------
(* Every step.                                                             *)

\* Nothing has been given out, bound or returned at first.
LEMMA ExecInvInit == CudaInit => ExecInv
<1> SUFFICES ASSUME CudaInit PROVE ExecInv OBVIOUS
<1>1. PlacesInv BY PlacesInit
<1>2. results = <<>> /\ phase = "producers"
  BY DEF CudaInit, ExecInit, PlanInit, SortInit
<1>3. phase \notin LatePhases BY <1>2 DEF LatePhases
<1>4. DOMAIN results = {} BY <1>2
<1> QED BY <1>1, <1>3, <1>4 DEF ExecInv, ResultsInv, CudaInit

\* The steps of a run and between runs.
LEMMA LateSteps ==
  ASSUME ExecInv, phase \in LatePhases,
         \/ ~OnDevice /\ \/ ResolveKernel \/ FinishSetup \/ KernelBegin \/ KernelEnd
                         \/ ReturnOutputs \/ CatchRun \/ LeaveRun \/ Call
         \/ OnDevice /\ \/ LaunchKernel \/ RejectKernel \/ KernelEnd \/ Download
                        \/ Upload \/ CatchRun \/ LeaveRun \/ Destroy
         \/ UNCHANGED execVars
  PROVE  /\ graph' = graph /\ allocator' = allocator
         /\ phase' \in LatePhases => RunInv'
         /\ ResultsInv'
<1>1. /\ StorageInv /\ PlanFacts /\ RunInv /\ PlanPrefix /\ ResultsInv /\ runs \in Nat
      /\ OnDevice => ForDevice(graph)
  BY DEF ExecInv, PlacesInv, StorageInv, RunInv
<1>2. phase \notin {"idle", "returned"} => results = <<>> BY <1>1 DEF ResultsInv
<1>3. CASE ResolveKernel
  <2>1. /\ phase = "resolve" /\ graph' = graph /\ allocator' = allocator
        /\ results' = results /\ phase' \in {"resolve", "failed"}
    BY <1>3 DEF ResolveKernel
  <2>2. ResultsInv' BY <2>1, <1>2, NoResults
  <2>3. phase' = "resolve" => RunInv' BY <1>1, <1>3, ResolveKeeps
  <2> QED BY <2>1, <2>2, <2>3 DEF LatePhases
<1>4. CASE \/ FinishSetup \/ CatchRun \/ LeaveRun \/ (OnDevice /\ RejectKernel)
           \/ UNCHANGED execVars
  <2>1. /\ UNCHANGED <<graph, producer, order, allocator, pool, plan, pc, runs, bound, mem>>
        /\ results' = results
        /\ phase' \in {"call", "kernel", "return"} => phase' = phase
        /\ phase' = phase \/ (phase = "returned" /\ phase' = "idle") \/ results = <<>>
    BY <1>2, <1>4 DEF FinishSetup, CatchRun, LeaveRun, RejectKernel, execVars,
                      planVars, sortVars, execOnlyVars
  <2>2. phase' # "resolve" => Len(plan) = Len(order)
    BY <1>1, <1>4 DEF FinishSetup, CatchRun, LeaveRun, RejectKernel, execVars,
                      planVars, sortVars, PlanPrefix
  <2>3. RunInv' BY <1>1, <2>1, <2>2, RunFrame
  <2>4. ResultsInv' BY <1>1, <2>1, ResultsFrame
  <2> QED BY <2>1, <2>3, <2>4
<1>5. CASE KernelBegin \/ LaunchKernel
  <2>1. KernelBegin BY <1>5 DEF LaunchKernel
  <2>2. /\ phase = "call" /\ graph' = graph /\ allocator' = allocator
        /\ results' = results
    BY <2>1 DEF KernelBegin
  <2>3. RunInv' BY <1>1, <2>1, KernelBeginKeeps
  <2> QED BY <2>2, <2>3, <1>2, NoResults
<1>6. CASE KernelEnd
  <2>1. /\ phase = "kernel" /\ graph' = graph /\ allocator' = allocator
        /\ results' = results
    BY <1>6 DEF KernelEnd
  <2>2. RunInv' BY <1>1, <1>6, KernelEndKeeps
  <2> QED BY <2>1, <2>2, <1>2, NoResults
<1>7. CASE ~OnDevice /\ ReturnOutputs
  <2>1. /\ UNCHANGED <<graph, producer, order, allocator, pool, plan, pc, runs, bound, mem>>
        /\ phase = "return" /\ phase' = "returned"
    BY <1>7 DEF ReturnOutputs
  <2>2. Len(plan) = Len(order) BY <1>1, <2>1 DEF PlanPrefix
  <2>3. RunInv' BY <1>1, <2>1, <2>2, RunFrame
  <2>4. ResultsInv' BY <1>1, <1>7, ReturnKeepsResults
  <2> QED BY <2>1, <2>3, <2>4
<1>8. CASE OnDevice /\ Download
  <2>1. graph' = graph /\ allocator' = allocator BY <1>8 DEF Download
  <2>2. RunInv' BY <1>1, <1>8, DownloadKeeps
  <2>3. ResultsInv' BY <1>1, <1>8, DownloadKeepsResults
  <2> QED BY <2>1, <2>2, <2>3
<1>9. CASE ~OnDevice /\ Call
  <2>1. PICK B \in SUBSET External :
           BeginRun(B) \/ \E D \in SUBSET B : BeginRunUnknown(B, D)
    BY <1>9 DEF Call
  <2>2. CASE BeginRun(B)
    <3>1. graph' = graph /\ allocator' = allocator /\ results' = <<>>
      BY <2>2 DEF BeginRun
    <3>2. RunInv' BY <1>1, <1>9, <2>2, BeginRunKeeps
    <3> QED BY <3>1, <3>2, NoResults
  <2>3. CASE \E D \in SUBSET B : BeginRunUnknown(B, D)
    <3>1. PICK D \in SUBSET B : BeginRunUnknown(B, D) BY <2>3
    <3>2. graph' = graph /\ allocator' = allocator /\ results' = <<>>
      BY <3>1 DEF BeginRunUnknown
    <3>3. RunInv' BY <1>1, <1>9, <3>1, BeginRunUnknownKeeps
    <3> QED BY <3>2, <3>3, NoResults
  <2> QED BY <2>1, <2>2, <2>3
<1>10. CASE OnDevice /\ Upload
  <2>1. graph' = graph /\ allocator' = allocator /\ results' = <<>>
    BY <1>10 DEF Upload
  <2>2. RunInv' BY <1>1, <1>10, UploadRunKeeps
  <2> QED BY <2>1, <2>2, NoResults
<1>11. CASE OnDevice /\ Destroy
  <2>1. graph' = graph /\ allocator' = allocator /\ phase' = "destroyed"
    BY <1>11 DEF Destroy
  <2>2. ResultsInv' BY <1>1, <1>11, DestroyKeepsResults
  <2> QED BY <2>1, <2>2 DEF LatePhases
<1> QED BY <1>3, <1>4, <1>5, <1>6, <1>7, <1>8, <1>9, <1>10, <1>11

\* What every step keeps.
LEMMA StepKeeps ==
  ASSUME ExecInv, [CudaNext]_execVars
  PROVE  /\ graph' = graph /\ allocator' = allocator
         /\ phase' \in LatePhases => RunInv'
         /\ ResultsInv'
<1>1. PlacesInv /\ PlacesInv' /\ ResultsInv /\ (OnDevice => ForDevice(graph))
  BY PlacesNext DEF ExecInv
<1> DEFINE Keeps == /\ graph' = graph /\ allocator' = allocator
                    /\ phase' \in LatePhases => RunInv'
                    /\ ResultsInv'
<1> SUFFICES Keeps OBVIOUS
<1>3. CASE Sorting \/ (~OnDevice /\ Planning) \/ (OnDevice /\ DevicePlanning)
  <2>1. /\ phase' \in EarlyPhases \cup {"failed"} /\ phase \in EarlyPhases
        /\ graph' = graph /\ UNCHANGED execOnlyVars
    BY <1>1, <1>3, PlanningKeeps
  <2>2. results' = <<>> /\ allocator' = allocator
    BY <1>1, <2>1 DEF PlacesInv, EarlyInv, execOnlyVars
  <2> QED BY <2>1, <2>2, PhaseGroups, NoResults
<1>4. CASE \/ ~OnDevice /\ (AllocateNaive \/ AllocatePlanned)
           \/ OnDevice /\ AllocateDevice
  <2>1. /\ \/ phase = "planned" \/ (phase = "sorted" /\ allocator = "naive")
        /\ graph' = graph /\ allocator' = allocator /\ results' = results
    BY <1>4 DEF AllocateNaive, AllocatePlanned, AllocateDevice
  <2>2. EarlyInv BY <1>1, <2>1 DEF PlacesInv, EarlyPhases, Placing
  <2>3. PlanFacts BY <2>1, <2>2, PlanIsReady
  <2>4. RunInv' BY <1>4, <2>2, <2>3, AllocationHolds
  <2>5. results' = <<>> BY <2>1, <2>2 DEF EarlyInv
  <2> QED BY <2>1, <2>4, <2>5, NoResults
<1>5. CASE \/ ~OnDevice /\ \/ ResolveKernel \/ FinishSetup \/ KernelBegin \/ KernelEnd
                           \/ ReturnOutputs \/ CatchRun \/ LeaveRun \/ Call
           \/ OnDevice /\ \/ LaunchKernel \/ RejectKernel \/ KernelEnd \/ Download
                          \/ Upload \/ CatchRun \/ LeaveRun \/ Destroy
  <2>1. phase \in LatePhases
    <3>1. CASE Call \/ Upload
      BY <3>1, PhaseGroups DEF Call, BeginRun, BeginRunUnknown, Upload
    <3> QED BY <1>5, <3>1, QuietSteps
  <2> QED BY <1>5, <2>1, LateSteps
<1>6. CASE UNCHANGED execVars
  <2>1. CASE phase \in LatePhases BY <1>6, <2>1, LateSteps
  <2>2. CASE phase \notin LatePhases
    <3>1. UNCHANGED <<graph, producer, allocator, bound, results, mem, phase>>
      BY <1>6 DEF execVars, planVars, sortVars, execOnlyVars
    <3>2. ResultsInv' BY <1>1, <3>1, ResultsFrame
    <3> QED BY <2>2, <3>1, <3>2
  <2> QED BY <2>1, <2>2
<1> HIDE DEF Keeps
<1> QED
  BY <1>3, <1>4, <1>5, <1>6
  DEF CudaNext, ExecNext, ExecStep, ExecDone, DeviceNext, DeviceStep

\* So the invariant is inductive.
LEMMA ExecInvNext == ExecInv /\ [CudaNext]_execVars => ExecInv'
<1> SUFFICES ASSUME ExecInv, [CudaNext]_execVars PROVE ExecInv' OBVIOUS
<1>1. PlacesInv' /\ (OnDevice => ForDevice(graph)) BY PlacesNext DEF ExecInv
<1>2. graph' = graph /\ (OnDevice' <=> OnDevice) BY StepKeeps DEF OnDevice
<1>3. (OnDevice => ForDevice(graph))' BY <1>1, <1>2 DEF ForDevice, InputsOf
<1> QED BY <1>1, <1>3, StepKeeps DEF ExecInv

\* It holds in every reachable state.
THEOREM ExecInvariant == CudaSpec => []ExecInv
BY ExecInvInit, ExecInvNext, PTL DEF CudaSpec

\* While a run is going on no kernel, and nothing else, has written over a
\* tensor that a later kernel reads or the caller gets: placing tensors in one
\* arena cannot be told from giving each its own memory.
THEOREM NeededAreIntact == CudaSpec => []NeededTensorsIntact
<1>1. ExecInv => NeededTensorsIntact
  <2> SUFFICES ASSUME ExecInv, InRun, NEW t \in TensorIds, Needed(t)
               PROVE  ValueIn(mem, pool[t]) = Meaning[t]
    BY DEF NeededTensorsIntact
  <2>1. StorageInv /\ RunInv BY DEF ExecInv, PlacesInv, InRun, LatePhases
  <2> QED BY <2>1, NeededValue
<1> QED BY <1>1, ExecInvariant, PTL

\* A run returns what the graph means, under every allocator, after every
\* sequence of earlier runs, those that threw included, if what the graph
\* declares as results are tensors that outlive the run.  (An intermediate in
\* the arena does not: MCExecutorOutputs shows what becomes of it.)
THEOREM RunsReturnMeaning == CudaSpec => [](SoundResults => ResultsAreMeaning)
<1>1. ExecInv => (SoundResults => ResultsAreMeaning)
  BY DEF ExecInv, ResultsInv, ResultsAreMeaning
<1> QED BY <1>1, ExecInvariant, PTL
-----------------------------------------------------------------------------
(* The executors implement Evaluator.                                      *)

\* What lies in memory for the sources, and for what was returned.
GivenNow == [t \in Sources |-> ValueIn(mem, pool[t])]
AnswerNow == [k \in DOMAIN results |-> ValueIn(mem, results[k])]

\* What should lie there.
InForce(t) ==
    IF graph.bytes[t] # 0 /\ Provided(t) THEN Bound(t, bound[t]) ELSE NoValue

\* On the device a buffer that has not been filled holds nothing.
FreshInv ==
    OnDevice /\ phase \in LatePhases =>
        \/ \A t \in External : Provided(t)
        \/ /\ phase = "idle"
           /\ \A t \in External : \A j \in DOMAIN OwnCells(t) :
                 ~Provided(t) => OwnCells(t)[j] \notin DOMAIN mem

\* Each declared result is given by the caller, or is written by a node and
\* does not live in the arena.
OutlivingResults ==
    \A k \in DOMAIN graph.results :
        LET t == graph.results[k]
        IN  \/ t \in External
            \/ Abstract!Produced(t) /\ (t \notin Intermediates \/ allocator = "naive")

EvalInv == ExecInv /\ FreshInv /\ OutlivingResults

\* What each phase is to the caller.
LEMMA StatusIs ==
  /\ phase \in EarlyPhases \cup {"resolve"} => Status = "building"
  /\ phase = "failed" => Status = "failed"
  /\ phase \in {"call", "kernel", "return"} => Status = "running"
  /\ phase \in {"idle", "returned", "threw"} => Status = "ready"
  /\ phase = "destroyed" => Status = "gone"
BY DEF Status, InRun, EarlyPhases, SortPhases, Placing

LEMMA StatusIsNext ==
  (/\ phase \in EarlyPhases \cup {"resolve"} => Status = "building"
   /\ phase = "failed" => Status = "failed"
   /\ phase \in {"call", "kernel", "return"} => Status = "running"
   /\ phase \in {"idle", "returned", "threw"} => Status = "ready"
   /\ phase = "destroyed" => Status = "gone")'
BY StatusIs, PTL

\* The graph says which tensors are sources, and who writes the others.
LEMMA SourcesAre ==
  /\ Abstract!Sources = Sources
  /\ Sources \subseteq External /\ External \subseteq TensorIds
BY DEF Abstract!Sources, Abstract!Produced, Abstract!Writes, Sources, External, TensorIds

\* Once the graph has been scanned, producer says the same.
LEMMA ProducerIs ==
  ASSUME PlanFacts, NEW t \in TensorIds
  PROVE  /\ Abstract!Produced(t) <=> producer[t] # -1
         /\ t \in Sources <=> t \in External /\ producer[t] = -1
         /\ producer[t] # -1 =>
              producer[t] = CHOOSE i \in DOMAIN graph.outputs :
                               \E k \in DOMAIN graph.outputs[i] : Abstract!Writes(i, k, t)
<1>1. /\ Linked /\ DOMAIN graph.outputs = Nodes /\ -1 \notin Nodes
  BY GraphTypes DEF PlanFacts, SortInv, SortTypes
<1>2. ASSUME NEW i \in Nodes, NEW k \in DOMAIN graph.outputs[i], graph.outputs[i][k] = t
      PROVE  producer[t] = i
  <2>1. <<i, k>> \in OutputSlots /\ OutputAt(<<i, k>>) = t BY <1>2, Slots
  <2>2. producer[OutputAt(<<i, k>>)] = <<i, k>>[1] BY <1>1, <2>1 DEF Linked
  <2> QED BY <2>1, <2>2
<1>3. ASSUME producer[t] # -1
      PROVE  /\ producer[t] \in Nodes
             /\ \E k \in DOMAIN graph.outputs[producer[t]] : graph.outputs[producer[t]][k] = t
  <2>1. PICK s \in OutputSlots : OutputAt(s) = t BY <1>1, <1>3 DEF Linked
  <2>2. /\ s[1] \in Nodes /\ s[2] \in DOMAIN graph.outputs[s[1]]
        /\ graph.outputs[s[1]][s[2]] = t
    BY <2>1, Slots DEF OutputAt
  <2> QED BY <2>2, <1>2
<1>4. Abstract!Produced(t) <=> producer[t] # -1
  BY <1>1, <1>2, <1>3 DEF Abstract!Produced, Abstract!Writes
<1>5. t \in Sources <=> t \in External /\ producer[t] = -1
  BY <1>1, <1>2, <1>3 DEF Sources
<1>6. ASSUME producer[t] # -1
      PROVE  producer[t] = CHOOSE i \in DOMAIN graph.outputs :
                               \E k \in DOMAIN graph.outputs[i] : Abstract!Writes(i, k, t)
  <2> DEFINE P(i) == \E k \in DOMAIN graph.outputs[i] : Abstract!Writes(i, k, t)
  <2>1. producer[t] \in DOMAIN graph.outputs /\ P(producer[t])
    BY <1>1, <1>3, <1>6 DEF Abstract!Writes
  <2>2. \A i \in DOMAIN graph.outputs : P(i) => i = producer[t]
    BY <1>1, <1>2 DEF Abstract!Writes
  <2> HIDE DEF P
  <2>3. (CHOOSE i \in DOMAIN graph.outputs : P(i)) = producer[t] BY <2>1, <2>2
  <2> QED BY <2>3 DEF P
<1> QED BY <1>4, <1>5, <1>6

\* Results that outlive a run do so in the sense of SoundResults.
LEMMA OutlivingIsSound == PlanFacts /\ OutlivingResults => SoundResults
BY ProducerIs, ResultTypes DEF OutlivingResults, SoundResults

\* Memory holds for each source what is in force.
LEMMA GivenIs ==
  EvalInv /\ phase \in LatePhases => GivenNow = [t \in Sources |-> InForce(t)]
<1> SUFFICES ASSUME EvalInv, phase \in LatePhases, NEW t \in Sources
             PROVE  ValueIn(mem, pool[t]) = InForce(t)
  BY DEF GivenNow
<1>1. StorageInv /\ RunInv /\ PlanFacts
  BY DEF EvalInv, ExecInv, PlacesInv, StorageInv
<1>2. t \in External /\ t \in TensorIds /\ producer[t] = -1
  BY <1>1, SourcesAre, ProducerIs
<1>3. t \notin Intermediates BY <1>2 DEF External, Intermediates, Planned
<1>4. CASE Provided(t)
  <2>1. Held(mem, pool[t], Bound(t, bound[t])) BY <1>1, <1>2, <1>4 DEF RunInv
  <2>2. /\ graph.bytes[t] \in Nat /\ DOMAIN pool[t] = 1 .. graph.bytes[t]
        /\ pool[t] = <<>> <=> graph.bytes[t] = 0
    BY <1>1, <1>2, <1>4, FullStorage
  <2>3. ValueIn(mem, pool[t]) = IF graph.bytes[t] = 0 THEN NoValue ELSE Bound(t, bound[t])
    BY <2>1, <2>2, HeldValue
  <2> QED BY <1>4, <2>3 DEF InForce
<1>5. CASE ~Provided(t) /\ ~OnDevice
  <2>1. pool[t] = <<>> BY <1>1, <1>2, <1>3, <1>5 DEF StorageInv, Storage, Provided
  <2> QED BY <1>5, <2>1 DEF ValueIn, InForce
<1>6. CASE ~Provided(t) /\ OnDevice
  <2>1. pool[t] = OwnCells(t) BY <1>1, <1>2, <1>3, <1>6 DEF StorageInv, Storage
  <2>2. \A j \in DOMAIN pool[t] : pool[t][j] \notin DOMAIN mem
    BY <1>2, <1>6, <2>1 DEF EvalInv, FreshInv
  <2>3. graph.bytes[t] \in Nat BY <1>1, <1>2, SizesAssumption DEF PlanFacts, TensorIds
  <2>4. pool[t] = <<>> \/ 1 \in DOMAIN pool[t]
    <3>1. CASE graph.bytes[t] = 0 BY <2>1, <3>1 DEF OwnCells
    <3>2. CASE graph.bytes[t] # 0 BY <2>1, <2>3, <3>2 DEF OwnCells
    <3> QED BY <3>1, <3>2
  <2> QED BY <1>6, <2>2, <2>4 DEF ValueIn, InForce
<1> QED BY <1>4, <1>5, <1>6

LEMMA GivenIsNext ==
  (EvalInv /\ phase \in LatePhases => GivenNow = [t \in Sources |-> InForce(t)])'
BY GivenIs, PTL

\* What the graph computes from what is given, when val says what it computes
\* for the inputs.
ValueGiven(val, t) ==
    IF graph.bytes[t] = 0 THEN NoValue
    ELSE IF Abstract!Produced(t)
    THEN LET i == CHOOSE i \in DOMAIN graph.outputs :
                     \E k \in DOMAIN graph.outputs[i] : Abstract!Writes(i, k, t)
             k == CHOOSE k \in DOMAIN graph.outputs[i] : Abstract!Writes(i, k, t)
         IN  Abstract!Computed(i, k, [a \in DOMAIN graph.inputs[i] |-> val[graph.inputs[i][a]]])
    ELSE IF t \in Abstract!Sources THEN GivenNow[t] ELSE NoValue

\* In a run the abstract value of a tensor is its meaning, if it has one.
LEMMA ValueIsMeaning ==
  ASSUME EvalInv, InRun, NEW t \in TensorIds, producer[t] # -1 \/ t \in External
  PROVE  Abstract!Value[t] = Meaning[t]
<1> DEFINE Known(u) == producer[u] # -1 \/ u \in External
           Rank(u) == IF producer[u] = -1 THEN 0 ELSE Position(producer[u]) + 1
           V == Abstract!Value
<1>1. PlanFacts /\ RunInv /\ phase \in LatePhases
  BY DEF EvalInv, ExecInv, PlacesInv, StorageInv, InRun, LatePhases
<1>2. /\ SortTypes /\ Linked /\ Checked /\ Len(order) = NumNodes /\ Distinct(order)
  BY <1>1 DEF PlanFacts, SortInv, OrderIsTopological, Distinct
<1>3. /\ Len(order) \in Nat
      /\ \A i \in Nodes :
            Position(i) \in 0 .. Len(order) - 1 /\ order[Position(i) + 1] = i
  BY <1>2, PositionOf
<1>4. \A u \in TensorIds : producer[u] # -1 => producer[u] \in Nodes BY <1>2 DEF Linked
<1>5. \A u \in TensorIds : Rank(u) \in Nat BY <1>3, <1>4
<1>6. ASSUME NEW u \in TensorIds, producer[u] # -1,
             NEW a \in DOMAIN graph.inputs[producer[u]]
      PROVE  LET w == graph.inputs[producer[u]][a]
             IN  w \in TensorIds /\ Known(w) /\ Rank(w) < Rank(u)
  <2> DEFINE i == producer[u]
             s == Position(i)
             w == graph.inputs[i][a]
  <2>1. s \in 0 .. Len(order) - 1 /\ order[s + 1] = i BY <1>3, <1>4, <1>6
  <2>2. /\ w \in TensorIds /\ (producer[w] = -1 => w \in External)
        /\ producer[w] # -1 => Position(producer[w]) \in 0 .. s - 1
    BY <1>1, <2>1, <1>6, StepInputs
  <2> QED BY <2>1, <2>2, <1>3, <1>6
<1> HIDE DEF Rank
<1>7. ASSUME NEW val, NEW u \in TensorIds, Known(u)
      PROVE  ValueGiven(val, u) = MeaningGiven(val, u)
  <2>1. CASE graph.bytes[u] = 0 BY <2>1 DEF ValueGiven, MeaningGiven
  <2>2. CASE graph.bytes[u] # 0 /\ producer[u] # -1
    <3> DEFINE i == CHOOSE i \in DOMAIN graph.outputs :
                       \E k \in DOMAIN graph.outputs[i] : Abstract!Writes(i, k, u)
    <3>1. Abstract!Produced(u) /\ i = producer[u] BY <1>1, <2>2, ProducerIs
    <3>2. (CHOOSE k \in DOMAIN graph.outputs[i] : Abstract!Writes(i, k, u))
            = CHOOSE k \in DOMAIN graph.outputs[i] : graph.outputs[i][k] = u
      BY DEF Abstract!Writes
    <3> HIDE DEF i
    <3>3. ValueGiven(val, u)
            = Computed(i, CHOOSE k \in DOMAIN graph.outputs[i] : graph.outputs[i][k] = u,
                       [a \in DOMAIN graph.inputs[i] |-> val[graph.inputs[i][a]]])
      BY <2>2, <3>1, <3>2 DEF ValueGiven, Abstract!Computed, Computed, i
    <3> QED BY <2>2, <3>1, <3>3 DEF MeaningGiven
  <2>3. CASE graph.bytes[u] # 0 /\ producer[u] = -1
    <3>1. ~Abstract!Produced(u) /\ u \in Sources BY <1>1, <1>7, <2>3, ProducerIs
    <3>2. GivenNow[u] = InForce(u) BY <1>1, <3>1, GivenIs
    <3>3. Provided(u) BY <1>7, <2>3 DEF EvalInv, ExecInv, RunInv, InRun, LatePhases
    <3>4. GivenNow[u] = Bound(u, bound[u]) BY <2>3, <3>2, <3>3 DEF InForce
    <3> QED BY <2>3, <3>1, <3>4, SourcesAre DEF ValueGiven, MeaningGiven
  <2> QED BY <2>1, <2>2, <2>3
<1>8. ASSUME NEW f, NEW g, NEW u \in TensorIds, Known(u),
             \A w \in TensorIds : Known(w) /\ Rank(w) < Rank(u) => f[w] = g[w]
      PROVE  MeaningGiven(f, u) = MeaningGiven(g, u)
  <2>1. CASE producer[u] = -1 BY <2>1 DEF MeaningGiven
  <2>2. CASE producer[u] # -1
    <3> DEFINE ins == graph.inputs[producer[u]]
    <3>1. \A a \in DOMAIN ins : f[ins[a]] = g[ins[a]] BY <2>2, <1>6, <1>8
    <3>2. [a \in DOMAIN ins |-> f[ins[a]]] = [a \in DOMAIN ins |-> g[ins[a]]]
      BY <3>1
    <3> QED BY <2>2, <3>2 DEF MeaningGiven
  <2> QED BY <2>1, <2>2
<1>9. \E val : val = [u \in TensorIds |-> ValueGiven(val, u)]
  <2> DEFINE g == [u \in TensorIds |-> IF Known(u) THEN Meaning[u] ELSE NoValue]
  <2>1. ASSUME NEW u \in TensorIds PROVE g[u] = ValueGiven(g, u)
    <3>1. CASE Known(u)
      <4>1. \A w \in TensorIds : Known(w) /\ Rank(w) < Rank(u) => Meaning[w] = g[w]
        OBVIOUS
      <4>2. g[u] = Meaning[u] BY <3>1
      <4> HIDE DEF g
      <4>3. MeaningGiven(Meaning, u) = MeaningGiven(g, u)
        BY <3>1, <4>1, <1>8
      <4>4. ValueGiven(g, u) = MeaningGiven(g, u) BY <3>1, <1>7
      <4> QED BY <1>1, <4>2, <4>3, <4>4, MeaningIs
    <3>2. CASE ~Known(u)
      <4>1. ~Abstract!Produced(u) /\ u \notin Sources BY <1>1, <3>2, ProducerIs
      <4>2. g[u] = NoValue BY <3>2
      <4> HIDE DEF g
      <4> QED BY <4>1, <4>2, SourcesAre DEF ValueGiven
    <3> QED BY <3>1, <3>2
  <2>2. g = [u \in TensorIds |-> ValueGiven(g, u)]
    <3>1. [u \in TensorIds |-> g[u]] = [u \in TensorIds |-> ValueGiven(g, u)]
      <4> HIDE DEF g
      <4> QED BY <2>1
    <3> QED BY <3>1
  <2> QED BY <2>2
<1>10. V = CHOOSE val : val = [u \in TensorIds |-> ValueGiven(val, u)]
  BY DEF Abstract!Value, ValueGiven, TensorIds, GivenNow, Abstract!Computed, Abstract!NoValue, NoValue
<1> HIDE DEF V
<1>11. V = [u \in TensorIds |-> ValueGiven(V, u)] BY <1>9, <1>10, Zenon
<1>12. \A u \in TensorIds : Known(u) => V[u] = Meaning[u]
  <2> DEFINE Bad == {n \in Nat : \E u \in TensorIds : Known(u) /\ Rank(u) = n /\ V[u] # Meaning[u]}
  <2> SUFFICES ASSUME Bad # {} PROVE FALSE BY <1>5
  <2>1. PICK n \in Bad : \A b \in Bad : <<b, n>> \notin OpToRel(<, Nat)
    BY WFMin, NatLessThanWellFounded
  <2>2. \A b \in Bad : ~(b < n) BY <2>1 DEF OpToRel
  <2>3. PICK u \in TensorIds : Known(u) /\ Rank(u) = n /\ V[u] # Meaning[u] OBVIOUS
  <2>4. \A w \in TensorIds : Known(w) /\ Rank(w) < Rank(u) => V[w] = Meaning[w]
    BY <2>2, <2>3, <1>5
  <2>5. MeaningGiven(V, u) = MeaningGiven(Meaning, u) BY <2>3, <2>4, <1>8
  <2>6. V[u] = ValueGiven(V, u) BY <1>11, Zenon
  <2>7. ValueGiven(V, u) = MeaningGiven(V, u) BY <2>3, <1>7
  <2> QED BY <2>3, <2>5, <2>6, <2>7, <1>1, MeaningIs
<1> QED BY <1>12 DEF V

-----------------------------------------------------------------------------
(* Steps of the executors and of Evaluator.                                *)

\* At first nothing is given.
LEMMA EvalInit ==
  ASSUME CudaInit
  PROVE  ExecInv /\ FreshInv /\ Abstract!Init
<1>1. mem = <<>> /\ results = <<>> /\ runs = 0 /\ phase = "producers"
  BY DEF CudaInit, ExecInit, PlanInit, SortInit
<1>2. DOMAIN mem = {} /\ DOMAIN results = {} BY <1>1
<1>3. phase \in EarlyPhases BY <1>1 DEF EarlyPhases, SortPhases
<1>4. FreshInv BY <1>3, PhaseGroups DEF FreshInv
<1>5. \A t \in Sources : ValueIn(mem, pool[t]) = NoValue BY <1>2 DEF ValueIn
<1>6. [k \in DOMAIN results |-> ValueIn(mem, results[k])] = <<>> BY <1>2
<1> QED
  BY <1>1, <1>3, <1>4, <1>5, <1>6, ExecInvInit, SourcesAre, StatusIs
  DEF Abstract!Init, Abstract!NoValue, NoValue

\* A device buffer is filled by the constructor or by the upload.
LEMMA FreshNext ==
  ASSUME EvalInv, [CudaNext]_execVars
  PROVE  FreshInv'
<1>1. ExecInv /\ ExecInv' /\ graph' = graph /\ allocator' = allocator
  BY StepKeeps, ExecInvNext DEF EvalInv
<1>2. PlacesInv /\ PlacesInv' BY <1>1 DEF ExecInv
<1>3. /\ TensorIds' = TensorIds /\ External' = External /\ (OnDevice' <=> OnDevice)
      /\ \A t : OwnCells(t)' = OwnCells(t)
  BY <1>1 DEF TensorIds, External, OnDevice, OwnCells
<1> SUFFICES ASSUME OnDevice, phase' \in LatePhases
             PROVE  \/ \A t \in External : Provided(t)'
                    \/ /\ phase' = "idle"
                       /\ \A t \in External : \A j \in DOMAIN OwnCells(t) :
                             ~Provided(t)' => OwnCells(t)[j] \notin DOMAIN mem'
  BY <1>3 DEF FreshInv
<1>4. CASE Sorting \/ DevicePlanning BY <1>2, <1>4, PlanningKeeps, PhaseGroups
<1>5. CASE AllocateDevice
  <2> DEFINE weights == {t \in TensorIds : graph.kind[t] = "weight"}
             cells == UNION {{OwnCells(t)[j] : j \in 1 .. graph.bytes[t]} : t \in weights}
  <2>1. phase' = "idle" /\ DOMAIN mem' = cells BY <1>5 DEF AllocateDevice
  <2>2. ASSUME NEW t \in External, NEW j \in DOMAIN OwnCells(t), ~Provided(t)',
               OwnCells(t)[j] \in cells
        PROVE  FALSE
    <3>1. OwnCells(t)[j] = <<"own", t, j>> BY DEF OwnCells
    <3>2. PICK u \in weights : OwnCells(t)[j] \in {OwnCells(u)[k] : k \in 1 .. graph.bytes[u]}
      BY <2>2
    <3>3. PICK k \in 1 .. graph.bytes[u] : OwnCells(t)[j] = OwnCells(u)[k] BY <3>2
    <3>4. OwnCells(u)[k] = <<"own", u, k>> BY DEF OwnCells
    <3>5. t = u BY <3>1, <3>3, <3>4
    <3> QED BY <2>2, <3>5, <1>1, <1>3 DEF Provided
  <2> QED BY <2>1, <2>2
<1>6. CASE Upload
  <2>1. InRun' BY <1>6 DEF Upload, InRun
  <2>2. RunInv' BY <1>1 DEF ExecInv
  <2> QED BY <2>1, <2>2, <1>3 DEF RunInv
<1>7. CASE \/ LaunchKernel \/ RejectKernel \/ KernelEnd \/ Download
           \/ CatchRun \/ LeaveRun \/ Destroy \/ UNCHANGED execVars
  <2>1. phase \in LatePhases /\ bound' = bound
    <3>1. CASE UNCHANGED execVars
      BY <3>1 DEF execVars, planVars, sortVars, execOnlyVars
    <3> QED BY <1>7, <3>1, QuietSteps
  <2>2. \A t : Provided(t)' <=> Provided(t) BY <2>1, <1>1, <1>3 DEF Provided
  <2>3. phase = "idle" => phase' = phase /\ mem' = mem
    BY <1>7 DEF LaunchKernel, RejectKernel, KernelEnd, Download, CatchRun, LeaveRun,
                Destroy, LatePhases, execVars, planVars, sortVars, execOnlyVars
  <2> QED BY <2>1, <2>2, <2>3 DEF EvalInv, FreshInv
<1> QED
  BY <1>4, <1>5, <1>6, <1>7
  DEF CudaNext, DeviceNext, DeviceStep

\* So EvalInv is inductive.
LEMMA EvalInvNext == EvalInv /\ [CudaNext]_execVars => EvalInv'
<1> SUFFICES ASSUME EvalInv, [CudaNext]_execVars PROVE EvalInv' OBVIOUS
<1>1. ExecInv' /\ graph' = graph /\ allocator' = allocator
  BY StepKeeps, ExecInvNext DEF EvalInv
<1>2. OutlivingResults'
  <2>1. External' = External /\ Intermediates' = Intermediates
    BY <1>1 DEF External, TensorIds, Intermediates, Planned
  <2>2. \A t : Abstract!Produced(t)' <=> Abstract!Produced(t)
    BY <1>1 DEF Abstract!Produced, Abstract!Writes
  <2> QED BY <1>1, <2>1, <2>2 DEF EvalInv, OutlivingResults
<1> QED BY <1>1, <1>2, FreshNext DEF EvalInv

\* A step that binds nothing changes nothing that was given.
LEMMA SameGiven ==
  ASSUME EvalInv, EvalInv', phase \in LatePhases, phase' \in LatePhases,
         graph' = graph, bound' = bound, allocator' = allocator
  PROVE  GivenNow' = GivenNow
<1>1. Sources' = Sources BY DEF Sources, External, TensorIds
<1>2. \A t : InForce(t)' = InForce(t) BY DEF InForce, Provided, OnDevice
<1> QED BY <1>1, <1>2, GivenIs, GivenIsNext

\* Without memory nothing is given.
LEMMA NothingGiven == mem = <<>> => GivenNow = [t \in Sources |-> NoValue]
<1> SUFFICES ASSUME mem = <<>> PROVE GivenNow = [t \in Sources |-> NoValue] OBVIOUS
<1>1. DOMAIN mem = {} OBVIOUS
<1> QED BY <1>1 DEF GivenNow, ValueIn

LEMMA NothingGivenNext == (mem = <<>> => GivenNow = [t \in Sources |-> NoValue])'
BY NothingGiven, PTL

\* Without results there is no answer.
LEMMA NoAnswer == results = <<>> => AnswerNow = <<>>
<1> SUFFICES ASSUME results = <<>> PROVE AnswerNow = <<>> OBVIOUS
<1>1. DOMAIN results = {} OBVIOUS
<1> QED BY <1>1 DEF AnswerNow

LEMMA NoAnswerNext == (results = <<>> => AnswerNow = <<>>)'
BY NoAnswer, PTL

\* A step that the caller cannot see.
LEMMA Unseen ==
  ASSUME graph' = graph, Status' = Status, GivenNow' = GivenNow, AnswerNow' = AnswerNow,
         runs' = runs
  PROVE  UNCHANGED Abstract!vars
BY DEF Abstract!vars, GivenNow, AnswerNow

\* The constructor throws.
LEMMA RejectStep ==
  ASSUME graph' = graph, Status = "building", Status' = "failed", GivenNow' = GivenNow,
         AnswerNow' = AnswerNow, runs' = runs
  PROVE  Abstract!Reject
BY DEF Abstract!Reject, GivenNow, AnswerNow

\* The constructor: it sorts, plans, gives out storage, resolves kernels.
LEMMA ConstructorSteps ==
  ASSUME EvalInv, EvalInv', graph' = graph,
         \/ Sorting \/ (~OnDevice /\ Planning) \/ (OnDevice /\ DevicePlanning)
         \/ ~OnDevice /\ (AllocateNaive \/ AllocatePlanned)
         \/ OnDevice /\ AllocateDevice
         \/ ResolveKernel \/ FinishSetup
  PROVE  [Abstract!Next]_Abstract!vars
<1>1. PlacesInv /\ ResultsInv /\ ResultsInv' BY DEF EvalInv, ExecInv
<1>2. CASE Sorting \/ (~OnDevice /\ Planning) \/ (OnDevice /\ DevicePlanning)
  <2>1. /\ phase \in EarlyPhases /\ phase' \in EarlyPhases \cup {"failed"}
        /\ UNCHANGED execOnlyVars
    BY <1>1, <1>2, PlanningKeeps
  <2>2. /\ Status = "building" /\ Status' \in {"building", "failed"}
        /\ UNCHANGED <<pool, mem, results, runs>>
    BY <2>1, StatusIs, StatusIsNext DEF execOnlyVars
  <2>3. Sources' = Sources BY DEF Sources, External, TensorIds
  <2>4. GivenNow' = GivenNow /\ AnswerNow' = AnswerNow
    BY <2>2, <2>3 DEF GivenNow, AnswerNow, ValueIn
  <2> QED BY <2>2, <2>4, Unseen, RejectStep DEF Abstract!Next
<1>3. CASE ~OnDevice /\ (AllocateNaive \/ AllocatePlanned)
  <2>1. /\ phase \in EarlyPhases /\ phase' = "resolve"
        /\ UNCHANGED <<mem, results, runs>>
    BY <1>3 DEF AllocateNaive, AllocatePlanned, EarlyPhases, Placing
  <2>2. mem = <<>> /\ results = <<>> BY <1>1, <2>1 DEF PlacesInv, EarlyInv
  <2>3. Sources' = Sources BY DEF Sources, External, TensorIds
  <2>4. GivenNow' = GivenNow /\ AnswerNow' = AnswerNow
    BY <2>1, <2>2, <2>3, NothingGiven, NothingGivenNext, NoAnswer, NoAnswerNext
  <2> QED BY <2>1, <2>4, StatusIs, StatusIsNext, Unseen
<1>4. CASE OnDevice /\ AllocateDevice
  <2>1. /\ phase = "planned" /\ phase' = "idle"
        /\ UNCHANGED <<graph, producer, allocator, results, runs, bound>>
    BY <1>4 DEF AllocateDevice
  <2>2. phase \in EarlyPhases BY <2>1 DEF EarlyPhases, Placing
  <2>3. /\ mem = <<>> /\ results = <<>> /\ runs = 0
        /\ bound = [t \in TensorIds |-> 0]
    BY <1>1, <2>2 DEF PlacesInv, EarlyInv
  <2>4. Status = "building" /\ Status' = "ready"
    BY <2>1, <2>2, StatusIs, StatusIsNext
  <2>5. Sources' = Sources BY DEF Sources, External, TensorIds
  <2> DEFINE W == {t \in Sources : graph.kind[t] = "weight"}
  <2>6. GivenNow = [t \in Sources |-> NoValue] BY <2>3, NothingGiven
  <2>7. GivenNow' = [t \in Sources |-> InForce(t)']
    BY <2>1, <2>5, GivenIsNext, PhaseGroups
  <2>8. ASSUME NEW t \in Sources
        PROVE  InForce(t)' = IF t \in W THEN Abstract!GivenBy(t, 0) ELSE NoValue
    <3>1. bound'[t] = 0 BY <2>1, <2>3, SourcesAre
    <3> QED BY <1>4, <2>1, <3>1
        DEF InForce, Provided, OnDevice, Abstract!GivenBy, Abstract!NoValue, NoValue, Bound
  <2>9. GivenNow' = [t \in Sources |-> IF t \in W THEN Abstract!GivenBy(t, 0)
                                       ELSE GivenNow[t]]
    BY <2>6, <2>7, <2>8
  <2>10. AnswerNow' = AnswerNow BY <2>1, <2>3, NoAnswer, NoAnswerNext
  <2>11. Abstract!Built(W)
    BY <2>1, <2>4, <2>5, <2>9, <2>10, SourcesAre
    DEF Abstract!Built, Abstract!Give, GivenNow, AnswerNow
  <2> QED BY <2>11, SourcesAre DEF Abstract!Next
<1>5. CASE ResolveKernel \/ FinishSetup
  <2>1. /\ phase = "resolve" /\ phase' \in {"resolve", "failed", "idle"}
        /\ phase' = "idle" => FinishSetup
        /\ UNCHANGED <<pool, mem, results, runs>>
    BY <1>5 DEF ResolveKernel, FinishSetup, execOnlyVars
  <2>2. Sources' = Sources BY DEF Sources, External, TensorIds
  <2>3. GivenNow' = GivenNow /\ AnswerNow' = AnswerNow
    BY <2>1, <2>2 DEF GivenNow, AnswerNow, ValueIn
  <2>4. Status = "building" BY <2>1, StatusIs
  <2>5. CASE phase' = "idle"
    <3>1. Status' = "ready" BY <2>5, StatusIsNext
    <3>2. GivenNow' = [t \in Sources |-> IF t \in {} THEN Abstract!GivenBy(t, 0)
                                         ELSE GivenNow[t]]
      BY <2>3 DEF GivenNow
    <3>3. Abstract!Built({})
      BY <2>1, <2>3, <2>4, <3>1, <3>2, SourcesAre
      DEF Abstract!Built, Abstract!Give, GivenNow, AnswerNow
    <3> QED BY <3>3 DEF Abstract!Next
  <2>6. CASE phase' # "idle"
    BY <2>1, <2>3, <2>4, <2>6, StatusIsNext, Unseen, RejectStep DEF Abstract!Next
  <2> QED BY <2>5, <2>6
<1> QED BY <1>2, <1>3, <1>4, <1>5

\* A call binds, and what it binds is given as a whole.
LEMMA CallSteps ==
  ASSUME EvalInv, EvalInv', graph' = graph, allocator' = allocator,
         NEW G \in SUBSET External, phase = "idle", runs' = runs + 1,
         bound' = [t \in TensorIds |-> IF t \in G THEN runs + 1 ELSE bound[t]],
         results' = <<>>,
         \/ phase' \in {"call", "return"} /\ \A t \in External \ G : Provided(t)
         \/ phase' = "threw"
  PROVE  [Abstract!Next]_Abstract!vars
<1> DEFINE H == G \cap Sources
<1>1. Sources' = Sources /\ Sources \subseteq TensorIds /\ Abstract!Sources = Sources
  BY SourcesAre DEF Sources, External, TensorIds
<1>2. phase \in LatePhases /\ phase' \in LatePhases BY DEF LatePhases
<1>3. runs \in Nat BY <1>2 DEF EvalInv, ExecInv, PlacesInv, StorageInv
<1>4. /\ GivenNow = [t \in Sources |-> InForce(t)]
      /\ GivenNow' = [t \in Sources |-> InForce(t)']
  BY <1>1, <1>2, GivenIs, GivenIsNext
<1>5. ASSUME NEW t \in Sources
      PROVE  InForce(t)' = IF t \in H THEN Abstract!GivenBy(t, runs + 1) ELSE InForce(t)
  <2>1. bound'[t] = IF t \in G THEN runs + 1 ELSE bound[t] BY <1>1
  <2>2. CASE t \in G
    BY <1>3, <2>1, <2>2
    DEF InForce, Provided, Abstract!GivenBy, Abstract!NoValue, NoValue, Bound
  <2>3. CASE t \notin G BY <2>1, <2>3 DEF InForce, Provided, OnDevice
  <2> QED BY <2>2, <2>3
<1>6. GivenNow' = [t \in Sources |-> IF t \in H THEN Abstract!GivenBy(t, runs + 1)
                                     ELSE GivenNow[t]]
  BY <1>4, <1>5
<1>7. AnswerNow' = <<>> BY NoAnswerNext
<1>8. Status = "ready" BY StatusIs
<1>9. CASE phase' \in {"call", "return"} /\ \A t \in External \ G : Provided(t)
  <2>1. Status' = "running" BY <1>9, StatusIsNext
  <2>2. ASSUME NEW t \in Sources \ H, GivenNow[t] = NoValue PROVE graph.bytes[t] = 0
    <3>1. Provided(t) BY <1>9, SourcesAre
    <3>2. InForce(t) = NoValue BY <1>4, <2>2
    <3>3. Bound(t, bound[t]) # NoValue BY DEF Bound, NoValue
    <3> QED BY <3>1, <3>2, <3>3 DEF InForce
  <2>3. Abstract!Call(H)
    BY <1>1, <1>6, <1>7, <1>8, <2>1, <2>2
    DEF Abstract!Call, Abstract!Give, GivenNow, AnswerNow, Abstract!NoValue, NoValue
  <2> QED BY <1>1, <2>3 DEF Abstract!Next
<1>10. CASE phase' = "threw"
  <2>1. Status' = "ready" BY <1>10, StatusIsNext
  <2>2. Abstract!Refuse(H)
    BY <1>1, <1>6, <1>7, <1>8, <2>1
    DEF Abstract!Refuse, Abstract!Give, GivenNow, AnswerNow
  <2> QED BY <1>1, <2>2 DEF Abstract!Next
<1> QED BY <1>9, <1>10

\* A run returns what the graph means.
LEMMA ReturnStep ==
  ASSUME EvalInv, EvalInv', graph' = graph, allocator' = allocator, producer' = producer,
         bound' = bound, runs' = runs, phase = "return", phase' = "returned",
         DOMAIN results' = DOMAIN graph.results
  PROVE  Abstract!Return
<1>1. phase \in LatePhases /\ phase' \in LatePhases /\ InRun BY DEF LatePhases, InRun
<1>2. PlanFacts BY <1>1 DEF EvalInv, ExecInv, PlacesInv, StorageInv
<1>3. GivenNow' = GivenNow BY <1>1, SameGiven
<1>4. SoundResults /\ SoundResults' /\ Meaning' = Meaning
  <2>1. SoundResults BY <1>2, OutlivingIsSound DEF EvalInv
  <2>2. SoundResults' <=> SoundResults
    BY DEF SoundResults, External, TensorIds, Intermediates, Planned
  <2> QED BY <2>1, <2>2, SameMeaning
<1>5. ASSUME NEW k \in DOMAIN graph.results
      PROVE  ValueIn(mem', results'[k]) = Abstract!Value[graph.results[k]]
  <2>1. ValueIn(mem', results'[k]) = Meaning[graph.results[k]]
    BY <1>4 DEF EvalInv, ExecInv, ResultsInv, ValueIn
  <2>2. /\ graph.results[k] \in TensorIds
        /\ producer[graph.results[k]] # -1 \/ graph.results[k] \in External
    BY <1>2, <1>4, ResultTypes DEF SoundResults
  <2> QED BY <1>1, <2>1, <2>2, ValueIsMeaning
<1>6. AnswerNow' = [k \in DOMAIN graph.results |-> Abstract!Value[graph.results[k]]]
  BY <1>5 DEF AnswerNow
<1>7. Status = "running" /\ Status' = "ready" BY StatusIs, StatusIsNext
<1> QED BY <1>3, <1>6, <1>7 DEF Abstract!Return, GivenNow, AnswerNow

\* Kernels, the end of a run and the end of the device executor.
LEMMA RunSteps ==
  ASSUME EvalInv, EvalInv', graph' = graph, allocator' = allocator,
         \/ KernelBegin \/ LaunchKernel \/ KernelEnd \/ ReturnOutputs
         \/ CatchRun \/ LeaveRun
         \/ OnDevice /\ (RejectKernel \/ Download \/ Destroy)
  PROVE  [Abstract!Next]_Abstract!vars
<1>1. /\ phase \in LatePhases /\ runs' = runs /\ bound' = bound /\ producer' = producer
  BY QuietSteps
<1>2. /\ PlanFacts /\ ResultsInv /\ ResultsInv' /\ (OnDevice => ForDevice(graph))
  BY <1>1 DEF EvalInv, ExecInv, PlacesInv, StorageInv
<1>3. CASE KernelBegin \/ LaunchKernel \/ KernelEnd
  <2>1. /\ phase \in {"call", "kernel"} /\ phase' \in {"call", "kernel", "return"}
        /\ results' = results
    BY <1>3 DEF KernelBegin, LaunchKernel, KernelEnd
  <2>2. results = <<>> BY <1>1, <1>2, <2>1 DEF ResultsInv
  <2>3. AnswerNow' = AnswerNow BY <2>1, <2>2, NoAnswer, NoAnswerNext
  <2>4. GivenNow' = GivenNow BY <1>1, <2>1, SameGiven DEF LatePhases
  <2> QED BY <1>1, <2>1, <2>3, <2>4, StatusIs, StatusIsNext, Unseen
<1>4. CASE ReturnOutputs
  <2>1. /\ phase = "return" /\ phase' = "returned"
        /\ DOMAIN results' = DOMAIN graph.results
    BY <1>4 DEF ReturnOutputs
  <2>2. Abstract!Return BY <1>1, <2>1, ReturnStep
  <2> QED BY <2>2 DEF Abstract!Next
<1>5. CASE OnDevice /\ Download
  <2>1. /\ phase = "return" /\ phase' = "returned"
        /\ results' = <<HostCells(graph.results[1])>>
    BY <1>5 DEF Download
  <2>2. DOMAIN results' = DOMAIN graph.results BY <1>2, <1>5, <2>1, ResultTypes
  <2>3. Abstract!Return BY <1>1, <2>1, <2>2, ReturnStep
  <2> QED BY <2>3 DEF Abstract!Next
<1>6. CASE CatchRun \/ LeaveRun \/ (OnDevice /\ RejectKernel)
  <2>1. /\ \/ phase \in {"threw", "returned"} /\ phase' = "idle"
           \/ phase = "call" /\ phase' = "threw"
        /\ UNCHANGED <<pool, mem, results>>
    BY <1>6 DEF CatchRun, LeaveRun, RejectKernel, execOnlyVars
  <2>2. Sources' = Sources BY DEF Sources, External, TensorIds
  <2>3. GivenNow' = GivenNow /\ AnswerNow' = AnswerNow
    BY <2>1, <2>2 DEF GivenNow, AnswerNow, ValueIn
  <2>4. CASE phase' = "idle"
    BY <1>1, <2>1, <2>3, <2>4, StatusIs, StatusIsNext, Unseen
  <2>5. CASE phase' = "threw"
    <3>1. Status = "running" /\ Status' = "ready"
      BY <2>1, <2>5, StatusIs, StatusIsNext
    <3>2. Abstract!Abandon
      BY <1>1, <2>3, <3>1 DEF Abstract!Abandon, GivenNow, AnswerNow
    <3> QED BY <3>2 DEF Abstract!Next
  <2> QED BY <2>1, <2>4, <2>5
<1>7. CASE OnDevice /\ Destroy
  <2> DEFINE host == {c \in DOMAIN mem : c[1] = "host"}
  <2>1. /\ phase = "idle" /\ phase' = "destroyed" /\ results' = results
        /\ mem' = [c \in host |-> mem[c]] /\ pool' = [t \in TensorIds |-> <<>>]
    BY <1>7 DEF Destroy
  <2>2. Status = "ready" /\ Status' = "gone" BY <2>1, StatusIs, StatusIsNext
  <2>3. Sources' = Sources BY DEF Sources, External, TensorIds
  <2>4. GivenNow' = [t \in Sources |-> NoValue]
    BY <2>1, <2>3, SourcesAre DEF GivenNow, ValueIn
  <2>5. ASSUME NEW k \in DOMAIN results
        PROVE  ValueIn(mem', results[k]) = ValueIn(mem, results[k])
    <3>1. /\ results[k] = <<>> \/ 1 \in DOMAIN results[k]
          /\ \A j \in DOMAIN results[k] : results[k][j][1] = "host"
      BY <1>2, <1>7 DEF ResultsInv
    <3>2. \A j \in DOMAIN results[k] :
             /\ results[k][j] \in DOMAIN mem' <=> results[k][j] \in DOMAIN mem
             /\ results[k][j] \in DOMAIN mem => mem'[results[k][j]] = mem[results[k][j]]
      BY <2>1, <3>1
    <3> HIDE DEF host
    <3> QED BY <3>1, <3>2, SameCells
  <2> HIDE DEF host
  <2>6. AnswerNow' = AnswerNow BY <2>1, <2>5 DEF AnswerNow, ValueIn
  <2>7. Abstract!Destroy
    BY <1>1, <2>2, <2>3, <2>4, <2>6, SourcesAre
    DEF Abstract!Destroy, GivenNow, AnswerNow, Abstract!NoValue, NoValue
  <2> QED BY <2>7 DEF Abstract!Next
<1> QED BY <1>3, <1>4, <1>5, <1>6, <1>7

\* Each step of an executor is a step of Evaluator, or is not seen there.
LEMMA StepImplements ==
  ASSUME EvalInv, EvalInv', [CudaNext]_execVars
  PROVE  [Abstract!Next]_Abstract!vars
<1>1. graph' = graph /\ allocator' = allocator BY StepKeeps DEF EvalInv
<1>2. CASE \/ Sorting \/ (~OnDevice /\ Planning) \/ (OnDevice /\ DevicePlanning)
           \/ ~OnDevice /\ (AllocateNaive \/ AllocatePlanned)
           \/ OnDevice /\ AllocateDevice
           \/ ResolveKernel \/ FinishSetup
  BY <1>1, <1>2, ConstructorSteps
<1>3. CASE \/ KernelBegin \/ LaunchKernel \/ KernelEnd \/ ReturnOutputs
           \/ CatchRun \/ LeaveRun
           \/ OnDevice /\ (RejectKernel \/ Download \/ Destroy)
  BY <1>1, <1>3, RunSteps
<1>4. CASE ~OnDevice /\ Call
  <2>1. PICK B \in SUBSET External :
           BeginRun(B) \/ \E D \in SUBSET B : BeginRunUnknown(B, D)
    BY <1>4 DEF Call
  <2>2. CASE BeginRun(B)
    <3>1. /\ phase = "idle" /\ phase' \in {"call", "return"} /\ runs' = runs + 1
          /\ bound' = [t \in TensorIds |-> IF t \in B THEN runs + 1 ELSE bound[t]]
          /\ results' = <<>>
          /\ \A t \in External \ B : Provided(t)
      BY <2>2 DEF BeginRun, BindAll, CallerHolds, CallerBinds, Provided
    <3> QED BY <1>1, <3>1, CallSteps
  <2>3. CASE \E D \in SUBSET B : BeginRunUnknown(B, D)
    <3>1. PICK D \in SUBSET B : BeginRunUnknown(B, D) BY <2>3
    <3>2. D \in SUBSET External BY <2>1, <3>1
    <3>3. /\ phase = "idle" /\ phase' = "threw" /\ runs' = runs + 1
          /\ bound' = [t \in TensorIds |-> IF t \in D THEN runs + 1 ELSE bound[t]]
          /\ results' = <<>>
      BY <3>1 DEF BeginRunUnknown, BindAll, CallerHolds
    <3> QED BY <1>1, <3>2, <3>3, CallSteps
  <2> QED BY <2>1, <2>2, <2>3
<1>5. CASE OnDevice /\ Upload
  <2>1. /\ phase = "idle" /\ phase' \in {"call", "return"} /\ runs' = runs + 1
        /\ bound' = [t \in TensorIds |-> IF t \in InputsOf(graph) THEN runs + 1 ELSE bound[t]]
        /\ results' = <<>>
    BY <1>5 DEF Upload
  <2>2. DOMAIN graph.kind = TensorIds
    <3>1. IsGraph(graph)
      BY <2>1, PhaseGroups, GraphsAssumption
      DEF EvalInv, ExecInv, PlacesInv, StorageInv, PlanFacts
    <3> QED BY <3>1, GraphTypes
  <2>3. /\ InputsOf(graph) \in SUBSET External
        /\ \A t \in External \ InputsOf(graph) : Provided(t)
    BY <1>5, <2>2 DEF InputsOf, External, Provided
  <2> QED BY <1>1, <2>1, <2>3, CallSteps
<1>6. CASE UNCHANGED execVars
  <2>1. UNCHANGED <<graph, phase, pool, mem, results, runs>>
    BY <1>6 DEF execVars, planVars, sortVars, execOnlyVars
  <2>2. Status' = Status /\ Sources' = Sources
    BY <2>1 DEF Status, InRun, Sources, External, TensorIds
  <2>3. GivenNow' = GivenNow /\ AnswerNow' = AnswerNow
    BY <2>1, <2>2 DEF GivenNow, AnswerNow, ValueIn
  <2> QED BY <2>1, <2>2, <2>3, Unseen
<1> QED
  BY <1>2, <1>3, <1>4, <1>5, <1>6
  DEF CudaNext, ExecNext, ExecStep, ExecDone, DeviceNext, DeviceStep

\* Both executors, under every allocator, do what Evaluator says.  What is
\* given changes in calls only, in whole values, whether or not the call
\* returns; a call answers with what the graph computes from what is given;
\* and the answer stays until the next call, on the device for ever.  Declared
\* results have to be tensors that outlive the run, as in RunsReturnMeaning.
THEOREM ExecutorsImplementEvaluator ==
  CudaSpec /\ OutlivingResults => RefinesEvaluator
<1>1. CudaInit /\ OutlivingResults => EvalInv /\ Abstract!Init
  BY EvalInit DEF EvalInv
<1>2. EvalInv /\ EvalInv' /\ [CudaNext]_execVars => [Abstract!Next]_Abstract!vars
  BY StepImplements
<1> QED BY <1>1, <1>2, EvalInvNext, PTL DEF CudaSpec, RefinesEvaluator, Abstract!SafetySpec
=============================================================================
