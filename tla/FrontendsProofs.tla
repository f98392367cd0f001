--------------------------- MODULE FrontendsProofs ---------------------------
(***************************************************************************)
(* Proofs about the two frontends, for all files of either format: a load  *)
(* ends well for exactly the supported files, and what is then in memory   *)
(* is what the file describes by names.                                    *)
(***************************************************************************)
EXTENDS Frontends, FiniteSetTheorems, WellFoundedInduction, TLAPS

\* A set of numbers that has 0, and the successor of each of its members.
LEMMA Induction ==
  ASSUME NEW S \in SUBSET Nat, 0 \in S, \A n \in S : n + 1 \in S
  PROVE  S = Nat
<1> SUFFICES ASSUME Nat \ S # {} PROVE FALSE OBVIOUS
<1>1. PICK n \in Nat \ S : \A m \in Nat \ S : <<m, n>> \notin OpToRel(<, Nat)
  BY WFMin, NatLessThanWellFounded
<1>2. \A m \in Nat \ S : ~(m < n) BY <1>1 DEF OpToRel
<1>3. n # 0 /\ n \in Nat BY <1>1
<1>4. n - 1 \in Nat /\ n - 1 < n /\ (n - 1) + 1 = n BY <1>3
<1>5. n - 1 \in S BY <1>2, <1>4
<1> QED BY <1>1, <1>4, <1>5
-----------------------------------------------------------------------------
(* Lists.                                                                  *)

\* The items of a list.
LEMMA ListItems ==
  ASSUME NEW L, IsList(L)
  PROVE  /\ Len(L) \in Nat /\ DOMAIN L = 1 .. Len(L)
         /\ Range(L) = {L[i] : i \in 1 .. Len(L)}
         /\ L = [i \in 1 .. Len(L) |-> L[i]]
<1>1. L \in Seq(Range(L)) BY DEF IsList
<1> QED BY <1>1 DEF Range

\* Any sequence is a list.
LEMMA ListOfSeq ==
  ASSUME NEW S, NEW L \in Seq(S)
  PROVE  IsList(L)
<1>1. L = [i \in 1 .. Len(L) |-> L[i]] /\ Len(L) \in Nat /\ DOMAIN L = 1 .. Len(L) OBVIOUS
<1>2. \A i \in 1 .. Len(L) : L[i] \in Range(L) BY <1>1 DEF Range
<1>3. L \in [1 .. Len(L) -> Range(L)] BY <1>1, <1>2
<1> QED BY <1>1, <1>3 DEF IsList

\* One more item.
LEMMA ListAppend ==
  ASSUME NEW L, NEW e, IsList(L)
  PROVE  /\ IsList(Append(L, e)) /\ Len(Append(L, e)) = Len(L) + 1
         /\ \A i \in 1 .. Len(L) : Append(L, e)[i] = L[i]
         /\ Append(L, e)[Len(L) + 1] = e
<1>1. L \in Seq(Range(L) \cup {e}) 
  <2>1. L \in Seq(Range(L)) BY DEF IsList
  <2> QED BY <2>1
<1>2. Append(L, e) \in Seq(Range(L) \cup {e}) BY <1>1
<1>3. IsList(Append(L, e)) BY <1>2, ListOfSeq
<1> QED BY <1>1, <1>3

\* The names in a list are as many as its items when no two are the same.
LEMMA DistinctNames ==
  ASSUME NEW L, IsList(L)
  PROVE  Cardinality({t.name : t \in Range(L)}) = Len(L)
            <=> \A i, j \in 1 .. Len(L) : L[i].name = L[j].name => i = j
<1> DEFINE D == 1 .. Len(L)
           N == {t.name : t \in Range(L)}
           f == [i \in D |-> L[i].name]
<1>1. Len(L) \in Nat /\ Range(L) = {L[i] : i \in D} BY ListItems
<1>2. N = {L[i].name : i \in D} BY <1>1
<1>3. f \in Surjection(D, N) BY <1>2 DEF Surjection
<1>4. IsFiniteSet(D) /\ Cardinality(D) = Len(L)
  <2>1. \A n \in Nat : IsFiniteSet(1 .. n) /\ Cardinality(1 .. n) = n BY FS_Interval
  <2> QED BY <1>1, <2>1
<1>5. Cardinality(N) = Cardinality(D) <=> f \in Injection(D, N) BY <1>3, <1>4, FS_Surjection
<1>6. f \in [D -> N] BY <1>2
<1>7. f \in Injection(D, N) <=> \A i, j \in D : L[i].name = L[j].name => i = j
  BY <1>6 DEF Injection, IsInjective
<1> QED BY <1>4, <1>5, <1>7

\* T is a table of tensors, and I gives the name of each its id.
WellNamed(T, I) ==
    /\ IsList(T)
    /\ DOMAIN I = {T[i].name : i \in 1 .. Len(T)}
    /\ \A i \in 1 .. Len(T) : I[T[i].name] = i - 1

\* The tensor with the id of a name has that name.
LEMMA NameOfItsId ==
  ASSUME NEW T, NEW I, WellNamed(T, I)
  PROVE  \A n \in DOMAIN I : I[n] \in 0 .. Len(T) - 1 /\ T[I[n] + 1].name = n
<1>1. Len(T) \in Nat BY ListItems DEF WellNamed
<1> SUFFICES ASSUME NEW n \in DOMAIN I PROVE I[n] \in 0 .. Len(T) - 1 /\ T[I[n] + 1].name = n
  OBVIOUS
<1>2. PICK i \in 1 .. Len(T) : n = T[i].name BY DEF WellNamed
<1>3. I[n] = i - 1 BY <1>2 DEF WellNamed
<1>4. i - 1 \in 0 .. Len(T) - 1 /\ (i - 1) + 1 = i BY <1>1
<1> QED BY <1>2, <1>3, <1>4

\* No two tensors have one name.
LEMMA WellNamedDistinct ==
  ASSUME NEW T, NEW I, WellNamed(T, I)
  PROVE  Cardinality({t.name : t \in Range(T)}) = Len(T)
<1>1. Len(T) \in Nat BY ListItems DEF WellNamed
<1>2. \A i, j \in 1 .. Len(T) : T[i].name = T[j].name => i = j
  <2> TAKE i, j \in 1 .. Len(T)
  <2> HAVE T[i].name = T[j].name
  <2>1. i - 1 = j - 1 BY DEF WellNamed
  <2> QED BY <2>1, <1>1
<1>3. IsList(T) BY DEF WellNamed
<1> QED BY <1>2, <1>3, DistinctNames

\* A tensor with a name of its own is added under the next id.
LEMMA NameAdded ==
  ASSUME NEW T, NEW I, WellNamed(T, I), NEW n, n \notin DOMAIN I, NEW e, e.name = n
  PROVE  WellNamed(Append(T, e), With(I, n, Len(T)))
<1> DEFINE J == With(I, n, Len(T))
           U == Append(T, e)
<1>1. DOMAIN J = DOMAIN I \cup {n} BY DEF With
<1>2. J[n] = Len(T) /\ \A m \in DOMAIN I : J[m] = I[m] BY DEF With
<1>3. /\ IsList(U) /\ Len(U) = Len(T) + 1 /\ Len(T) \in Nat
      /\ \A i \in 1 .. Len(T) : U[i] = T[i]
      /\ U[Len(T) + 1] = e
  BY ListAppend, ListItems DEF WellNamed
<1> HIDE DEF J, U
<1>4. \A i \in 1 .. Len(U) : i \in 1 .. Len(T) \/ i = Len(T) + 1 BY <1>3
<1>5. \A i \in 1 .. Len(T) : i \in 1 .. Len(U) BY <1>3
<1>6. Len(T) + 1 \in 1 .. Len(U) BY <1>3
<1>7. DOMAIN J = {U[i].name : i \in 1 .. Len(U)}
  BY <1>1, <1>3, <1>4, <1>5, <1>6 DEF WellNamed
<1>8. \A i \in 1 .. Len(U) : J[U[i].name] = i - 1
  <2> TAKE i \in 1 .. Len(U)
  <2>1. CASE i \in 1 .. Len(T)
    <3>1. U[i] = T[i] /\ T[i].name \in DOMAIN I BY <2>1, <1>3 DEF WellNamed
    <3> QED BY <3>1, <2>1, <1>2 DEF WellNamed
  <2>2. CASE i = Len(T) + 1 BY <2>2, <1>2, <1>3
  <2> QED BY <2>1, <2>2, <1>4
<1> QED BY <1>1, <1>2, <1>3, <1>7, <1>8 DEF WellNamed, J, U
-----------------------------------------------------------------------------
(* Names and ids.                                                          *)

\* The first n of a list of ids are those of the names.
Identified(ids, n, names) ==
    /\ IsList(ids) /\ Len(ids) = n
    /\ \A i \in 1 .. n : names[i] \in DOMAIN idOf /\ ids[i] = idOf[names[i]]

\* A node of the graph stands for a node of the file.
NodeOf(n, op) == [op |-> op, inputs |-> Ids(n.inputs), outputs |-> Ids(n.outputs), attrs |-> n.attrs]
Touched(n) == Range(n.inputs) \cup Range(n.outputs)

IsGraphRecord ==
    graph = [tensors |-> graph.tensors, nodes |-> graph.nodes,
             inputs |-> graph.inputs, outputs |-> graph.outputs]

\* From ids back to names.
LEMMA NamesOfIds ==
  ASSUME WellNamed(graph.tensors, idOf), NEW names, IsList(names), Range(names) \subseteq DOMAIN idOf
  PROVE  NamesOf(Ids(names)) = names
<1>1. /\ DOMAIN names = 1 .. Len(names)
      /\ names = [i \in 1 .. Len(names) |-> names[i]]
      /\ \A i \in 1 .. Len(names) : names[i] \in DOMAIN idOf
  BY ListItems
<1>2. \A n \in DOMAIN idOf : NameOf(idOf[n]) = n
  <2>1. \A n \in DOMAIN idOf : graph.tensors[idOf[n] + 1].name = n BY NameOfItsId
  <2> QED BY <2>1 DEF NameOf
<1>3. DOMAIN Ids(names) = 1 .. Len(names) /\ \A i \in 1 .. Len(names) : Ids(names)[i] = idOf[names[i]]
  BY <1>1 DEF Ids
<1>4. NamesOf(Ids(names)) = [i \in 1 .. Len(names) |-> names[i]]
  BY <1>1, <1>2, <1>3 DEF NamesOf
<1> QED BY <1>1, <1>4

\* Likewise for a list of ids that has been built one by one.
LEMMA NamesOfIdentified ==
  ASSUME WellNamed(graph.tensors, idOf), NEW names, IsList(names),
         NEW ids, Identified(ids, Len(names), names)
  PROVE  NamesOf(ids) = names
<1>1. DOMAIN ids = 1 .. Len(names) /\ DOMAIN names = 1 .. Len(names)
      /\ names = [i \in 1 .. Len(names) |-> names[i]]
  BY ListItems DEF Identified
<1>2. \A n \in DOMAIN idOf : NameOf(idOf[n]) = n
  <2>1. \A n \in DOMAIN idOf : graph.tensors[idOf[n] + 1].name = n BY NameOfItsId
  <2> QED BY <2>1 DEF NameOf
<1>3. NamesOf(ids) = [i \in 1 .. Len(names) |-> names[i]]
  BY <1>1, <1>2 DEF NamesOf, Identified
<1> QED BY <1>1, <1>3

\* A node by ids is the node by names.
LEMMA NodeByName ==
  ASSUME WellNamed(graph.tensors, idOf), NEW op, NEW n,
         n \in [op : STRING, inputs : Seq(STRING), outputs : Seq(STRING), attrs : {n.attrs}],
         Touched(n) \subseteq DOMAIN idOf
  PROVE  [NodeOf(n, op) EXCEPT !.inputs = NamesOf(@), !.outputs = NamesOf(@)]
            = [n EXCEPT !.op = op]
<1>1. n.inputs \in Seq(STRING) /\ n.outputs \in Seq(STRING) OBVIOUS
<1>2. IsList(n.inputs) /\ IsList(n.outputs) BY <1>1, ListOfSeq
<1>3. NamesOf(Ids(n.inputs)) = n.inputs /\ NamesOf(Ids(n.outputs)) = n.outputs
  BY <1>2, NamesOfIds DEF Touched
<1>4. n = [op |-> n.op, inputs |-> n.inputs, outputs |-> n.outputs, attrs |-> n.attrs] OBVIOUS
<1>5. [n EXCEPT !.op = op]
        = [op |-> op, inputs |-> n.inputs, outputs |-> n.outputs, attrs |-> n.attrs]
  BY <1>4
<1>6. [NodeOf(n, op) EXCEPT !.inputs = NamesOf(@), !.outputs = NamesOf(@)]
        = [op |-> op, inputs |-> NamesOf(Ids(n.inputs)), outputs |-> NamesOf(Ids(n.outputs)),
           attrs |-> n.attrs]
  <2> DEFINE a == Ids(n.inputs)  b == Ids(n.outputs)  c == NamesOf(a)  d == NamesOf(b)
             m == [op |-> op, inputs |-> a, outputs |-> b, attrs |-> n.attrs]
  <2>1. NodeOf(n, op) = m BY DEF NodeOf
  <2>2. m.inputs = a /\ m.outputs = b OBVIOUS
  <2> HIDE DEF a, b, c, d
  <2>3. [m EXCEPT !.inputs = c, !.outputs = d]
          = [op |-> op, inputs |-> c, outputs |-> d, attrs |-> n.attrs]
    <3> DEFINE p == [m EXCEPT !.inputs = c]
    <3>1. [m EXCEPT !.inputs = c, !.outputs = d] = [p EXCEPT !.outputs = d] OBVIOUS
    <3>2. p = [op |-> op, inputs |-> c, outputs |-> b, attrs |-> n.attrs] OBVIOUS
    <3> HIDE DEF p, m
    <3>3. [p EXCEPT !.outputs = d] = [op |-> op, inputs |-> c, outputs |-> d, attrs |-> n.attrs]
      BY <3>2
    <3> QED BY <3>1, <3>3
  <2> HIDE DEF m
  <2>4. NamesOf(m.inputs) = c /\ NamesOf(m.outputs) = d BY <2>2 DEF c, d
  <2>5. [m EXCEPT !.inputs = NamesOf(m.inputs), !.outputs = NamesOf(m.outputs)]
          = [op |-> op, inputs |-> c, outputs |-> d, attrs |-> n.attrs]
    BY <2>3, <2>4
  <2> QED BY <2>1, <2>5, Zenon DEF a, b, c, d
<1> QED BY <1>3, <1>5, <1>6
-----------------------------------------------------------------------------
(* JSON files.                                                             *)

\* How much of each list has been read.
TensorsRead == IF part = "tensors" THEN k ELSE Len(file.tensors)
NodesRead == CASE part = "tensors" -> 0 [] part = "nodes" -> k [] OTHER -> Len(file.nodes)
InputsRead ==
    CASE part \in {"tensors", "nodes"} -> 0 [] part = "inputs" -> k [] OTHER -> Len(file.inputs)
OutputsRead ==
    CASE part = "outputs" -> k [] part = "end" -> Len(file.outputs) [] OTHER -> 0

Info(t) == [name |-> t.name, dtype |-> t.dtype, shape |-> t.shape, kind |-> t.kind]
Data(t) == SubSeq(file.blob, t.offset + 1, t.offset + t.nbytes)
TensorOK(t) ==
    /\ t.dtype \in DTypes
    /\ t.kind \in {"input", "output", "weight", "intermediate"}
    /\ t.kind = "weight" => WeightFits(t)

JsonPlace ==
    /\ part \in {"tensors", "nodes", "inputs", "outputs", "end"}
    /\ phase = "loaded" <=> part = "end"
    /\ k \in Nat
    /\ part = "tensors" => k <= Len(file.tensors)
    /\ part = "nodes" => k <= Len(file.nodes)
    /\ part = "inputs" => k <= Len(file.inputs)
    /\ part = "outputs" => k <= Len(file.outputs)

JsonTensorsRead ==
    /\ Len(graph.tensors) = TensorsRead /\ WellNamed(graph.tensors, idOf)
    /\ \A i \in 1 .. TensorsRead :
          graph.tensors[i] = Info(file.tensors[i]) /\ TensorOK(file.tensors[i])
    /\ DOMAIN weights = {i - 1 : i \in {j \in 1 .. TensorsRead : file.tensors[j].kind = "weight"}}
    /\ \A i \in 1 .. TensorsRead :
          file.tensors[i].kind = "weight" => weights[i - 1] = Data(file.tensors[i])

JsonNodesRead ==
    /\ IsList(graph.nodes) /\ Len(graph.nodes) = NodesRead
    /\ \A i \in 1 .. NodesRead :
          LET n == file.nodes[i]
          IN  graph.nodes[i] = NodeOf(n, n.op) /\ Touched(n) \subseteq DOMAIN idOf /\ ReadableAttrs(n)

JsonRead ==
    /\ JsonPlace /\ IsGraphRecord /\ JsonTensorsRead /\ JsonNodesRead
    /\ Identified(graph.inputs, InputsRead, file.inputs)
    /\ Identified(graph.outputs, OutputsRead, file.outputs)

JsonInv ==
    /\ file \in Files /\ file.format = "json"
    /\ phase \in {"loading", "loaded", "threw", "aborted"}
    /\ phase \in {"loading", "loaded"} => JsonRead
    /\ phase = "threw" => ~JsonSupported
    /\ phase = "aborted" => debug /\ "i8" \in WeightTypes

\* What the parser returns.
LEMMA JsonFile ==
  ASSUME file \in Files, file.format = "json"
  PROVE  /\ IsList(file.tensors) /\ IsList(file.nodes) /\ IsList(file.inputs) /\ IsList(file.outputs)
         /\ \A n \in Range(file.nodes) :
               n \in [op : STRING, inputs : Seq(STRING), outputs : Seq(STRING), attrs : {n.attrs}]
<1>1. "json" # "onnx" OBVIOUS
<1> QED BY <1>1, FilesAssumption, ListOfSeq DEF IsNodeList

\* The empty list.
LEMMA EmptyList == IsList(<<>>) /\ Len(<<>>) = 0
<1>1. <<>> \in Seq({}) OBVIOUS
<1> QED BY <1>1, ListOfSeq

\* The empty table.
LEMMA NothingNamed == WellNamed(<<>>, <<>>)
BY EmptyList DEF WellNamed

\* Before the first item.
LEMMA JsonInit == FrontendInit /\ file.format = "json" => JsonInv
<1> SUFFICES ASSUME FrontendInit, file.format = "json" PROVE JsonInv OBVIOUS
<1>1. /\ file \in Files /\ phase = "loading" /\ part = "tensors" /\ k = 0
      /\ graph = [tensors |-> <<>>, nodes |-> <<>>, inputs |-> <<>>, outputs |-> <<>>]
      /\ idOf = <<>> /\ weights = <<>>
  BY DEF FrontendInit, LoadInit, FirstPart
<1>2. IsList(file.tensors) BY <1>1, JsonFile
<1>3. Len(file.tensors) \in Nat BY <1>2, ListItems
<1>4. JsonPlace BY <1>1, <1>3 DEF JsonPlace
<1>5. TensorsRead = 0 /\ NodesRead = 0 /\ InputsRead = 0 /\ OutputsRead = 0
  BY <1>1 DEF TensorsRead, NodesRead, InputsRead, OutputsRead
<1>6. IsGraphRecord BY <1>1 DEF IsGraphRecord
<1>7. JsonTensorsRead BY <1>1, <1>5, EmptyList, NothingNamed DEF JsonTensorsRead
<1>8. JsonNodesRead BY <1>1, <1>5, EmptyList DEF JsonNodesRead
<1>9. Identified(graph.inputs, InputsRead, file.inputs) /\ Identified(graph.outputs, OutputsRead, file.outputs)
  BY <1>1, <1>5, EmptyList DEF Identified
<1> QED BY <1>1, <1>4, <1>6, <1>7, <1>8, <1>9 DEF JsonInv, JsonRead

\* What a file means does not change while it is read.
LEMMA JsonFixed ==
  ASSUME file' = file
  PROVE  JsonSupported' = JsonSupported /\ WeightTypes' = WeightTypes
BY DEF JsonSupported, JsonNames, WeightFits, WeightTypes, FromOnnx

\* An item that is refused.
LEMMA JsonThrow ==
  ASSUME JsonInv, Throw, ~JsonSupported
  PROVE  JsonInv'
BY JsonFixed DEF JsonInv, Throw

\* The end of a list.
LEMMA JsonEndKeeps ==
  ASSUME JsonInv,
         \/ EndOf("tensors", file.tensors, "nodes") \/ EndOf("nodes", file.nodes, "inputs")
         \/ EndOf("inputs", file.inputs, "outputs") \/ EndOf("outputs", file.outputs, "end")
  PROVE  JsonInv'
<1>1. /\ phase = "loading" /\ UNCHANGED <<file, debug, graph, idOf, weights, meta>> /\ k' = 0
      /\ phase' = IF part' = "end" THEN "loaded" ELSE phase
  BY DEF EndOf
<1>2. JsonRead BY <1>1 DEF JsonInv
<1>3. /\ Len(file.tensors) \in Nat /\ Len(file.nodes) \in Nat
      /\ Len(file.inputs) \in Nat /\ Len(file.outputs) \in Nat
  BY JsonFile, ListItems DEF JsonInv
<1>4. /\ TensorsRead' = TensorsRead /\ NodesRead' = NodesRead
      /\ InputsRead' = InputsRead /\ OutputsRead' = OutputsRead
  BY <1>1 DEF EndOf, TensorsRead, NodesRead, InputsRead, OutputsRead
<1>5. JsonPlace' BY <1>1, <1>3 DEF EndOf, JsonPlace
<1>6. IsGraphRecord' BY <1>1, <1>2 DEF JsonRead, IsGraphRecord
<1>7. JsonTensorsRead'
  BY <1>1, <1>2, <1>4 DEF JsonRead, JsonTensorsRead, Data, TensorOK, WeightFits
<1>8. JsonNodesRead' BY <1>1, <1>2, <1>4 DEF JsonRead, JsonNodesRead, NodeOf, Ids
<1>9. /\ Identified(graph.inputs, InputsRead, file.inputs)'
      /\ Identified(graph.outputs, OutputsRead, file.outputs)'
  BY <1>1, <1>2, <1>4 DEF JsonRead, Identified
<1>10. phase' \in {"loading", "loaded"} BY <1>1
<1> QED BY <1>1, <1>5, <1>6, <1>7, <1>8, <1>9, <1>10 DEF JsonInv, JsonRead

\* A tensor is refused for itself or because its name is taken.
LEMMA RefusedTensor ==
  ASSUME JsonInv, Reading("tensors", file.tensors), ~AcceptsTensor(file.tensors[k + 1])
  PROVE  ~JsonSupported
<1> DEFINE t == file.tensors[k + 1]
<1> SUFFICES ASSUME JsonSupported PROVE FALSE OBVIOUS
<1>1. phase = "loading" /\ part = "tensors" /\ k < Len(file.tensors) BY DEF Reading
<1>2. JsonRead /\ IsList(file.tensors) BY <1>1, JsonFile DEF JsonInv
<1>3. k \in Nat /\ Len(file.tensors) \in Nat /\ TensorsRead = k
  BY <1>1, <1>2, ListItems DEF JsonRead, JsonPlace, TensorsRead
<1>4. k + 1 \in 1 .. Len(file.tensors) BY <1>1, <1>3
<1>5. t \in Range(file.tensors) BY <1>2, <1>4, ListItems
<1>6. t.name \in DOMAIN idOf BY <1>5 DEF JsonSupported, AcceptsTensor
<1>7. PICK i \in 1 .. k : graph.tensors[i].name = t.name
  BY <1>2, <1>3, <1>6 DEF JsonRead, JsonTensorsRead, WellNamed
<1>8. file.tensors[i].name = t.name
  <2>1. graph.tensors[i] = Info(file.tensors[i])
    BY <1>2, <1>3, <1>7 DEF JsonRead, JsonTensorsRead
  <2>2. Info(file.tensors[i]).name = file.tensors[i].name BY DEF Info
  <2> QED BY <1>7, <2>1, <2>2
<1>9. i \in 1 .. Len(file.tensors) /\ i # k + 1 BY <1>1, <1>3, <1>7
<1>10. Cardinality({u.name : u \in Range(file.tensors)}) = Len(file.tensors)
  BY DEF JsonSupported, JsonNames
<1> HIDE DEF t
<1>11. \A a, b \in 1 .. Len(file.tensors) : file.tensors[a].name = file.tensors[b].name => a = b
  BY <1>2, <1>10, DistinctNames
<1> QED BY <1>4, <1>8, <1>9, <1>11 DEF t

\* A tensor that is taken gets the next id, and its weight is what is kept
\* under that id.
LEMMA JsonTensorKeeps == JsonInv /\ JsonTensor => JsonInv'
<1> SUFFICES ASSUME JsonInv, JsonTensor PROVE JsonInv' OBVIOUS
<1> DEFINE t == file.tensors[k + 1]
           n == Len(graph.tensors)
<1>1. Reading("tensors", file.tensors) BY DEF JsonTensor
<1>2. phase = "loading" /\ part = "tensors" /\ k < Len(file.tensors) BY <1>1 DEF Reading
<1>3. JsonRead /\ IsList(file.tensors) BY <1>2, JsonFile DEF JsonInv
<1>4. k \in Nat /\ Len(file.tensors) \in Nat /\ TensorsRead = k /\ n = k
  BY <1>2, <1>3, ListItems DEF JsonRead, JsonPlace, TensorsRead, JsonTensorsRead
<1>5. t \in Range(file.tensors) BY <1>2, <1>3, <1>4, ListItems
<1>6. CASE ~AcceptsTensor(t)
  <2>1. Throw BY <1>6 DEF JsonTensor
  <2> QED BY <2>1, <1>1, <1>6, RefusedTensor, JsonThrow
<1>7. CASE AcceptsTensor(t)
  <2> DEFINE e == Info(t)
  <2>1. /\ graph' = [graph EXCEPT !.tensors = Append(@, e)]
        /\ idOf' = With(idOf, e.name, n)
        /\ k' = k + 1 /\ UNCHANGED <<file, debug, part, meta>>
    BY <1>7 DEF JsonTensor, Info, NextId
  <2>2. IF t.kind = "weight" THEN KeepWeight(n, t.dtype, Data(t)) ELSE UNCHANGED <<weights, phase>>
    BY <1>7 DEF JsonTensor, Data, NextId
  <2>3. IsGraphRecord BY <1>3 DEF JsonRead
  <2>4. graph' = [tensors |-> Append(graph.tensors, e), nodes |-> graph.nodes,
                  inputs |-> graph.inputs, outputs |-> graph.outputs]
    BY <2>1, <2>3 DEF IsGraphRecord
  <2>5. CASE phase' # phase
    <3>1. t.kind = "weight" /\ phase' = "aborted" /\ debug /\ Width(t.dtype) # 4
      BY <2>2, <2>5 DEF KeepWeight
    <3>2. t.dtype = "i8" BY <3>1 DEF Width
    <3>3. "i8" \in WeightTypes BY <3>1, <3>2, <1>5 DEF WeightTypes, FromOnnx, JsonInv
    <3> QED BY <3>1, <3>3, <2>1, JsonFixed DEF JsonInv
  <2>6. CASE phase' = phase
    <3>1. TensorsRead' = k + 1 /\ NodesRead' = NodesRead /\ InputsRead' = InputsRead
          /\ OutputsRead' = OutputsRead
      BY <2>1, <1>2 DEF TensorsRead, NodesRead, InputsRead, OutputsRead
    <3>2. /\ WellNamed(Append(graph.tensors, e), With(idOf, e.name, n))
          /\ DOMAIN With(idOf, e.name, n) = DOMAIN idOf \cup {e.name}
          /\ \A m \in DOMAIN idOf : With(idOf, e.name, n)[m] = idOf[m]
      <4>1. WellNamed(graph.tensors, idOf) BY <1>3 DEF JsonRead, JsonTensorsRead
      <4>2. e.name \notin DOMAIN idOf BY <1>7 DEF AcceptsTensor, Info
      <4> DEFINE T == graph.tensors
                 a == e.name
      <4> HIDE DEF e, T
      <4>3. WellNamed(T, idOf) BY <4>1 DEF T
      <4> HIDE DEF a
      <4>4. e.name = a BY DEF a
      <4>5. a \notin DOMAIN idOf BY <4>2, <4>4
      <4>6. WellNamed(Append(T, e), With(idOf, a, Len(T))) BY <4>3, <4>4, <4>5, NameAdded
      <4>7. /\ DOMAIN With(idOf, a, Len(T)) = DOMAIN idOf \cup {a}
            /\ \A m \in DOMAIN idOf : With(idOf, a, Len(T))[m] = idOf[m]
        BY <4>5 DEF With
      <4> USE DEF a
      <4> QED BY <4>6, <4>7 DEF T
    <3>3. graph.tensors' = Append(graph.tensors, e) BY <2>4
    <3>4. WellNamed(graph.tensors, idOf)' BY <3>2, <3>3, <2>1
    <3>5. DOMAIN idOf' = DOMAIN idOf \cup {e.name} /\ \A m \in DOMAIN idOf : idOf'[m] = idOf[m]
      BY <3>2, <2>1
    <3>6. IsList(graph.tensors) BY <1>3 DEF JsonRead, JsonTensorsRead, WellNamed
    <3>7. /\ Len(graph.tensors') = k + 1 /\ graph.tensors'[k + 1] = e
          /\ \A i \in 1 .. k : graph.tensors'[i] = graph.tensors[i]
      BY <3>3, <3>6, <1>4, ListAppend
    <3>8. TensorOK(t) BY <1>7 DEF AcceptsTensor, TensorOK
    <3>9. \A i \in 1 .. k + 1 : i \in 1 .. k \/ i = k + 1 BY <1>4
    <3>10. \A i \in 1 .. k + 1 : graph.tensors'[i] = Info(file.tensors[i]) /\ TensorOK(file.tensors[i])
      BY <3>7, <3>8, <3>9, <1>3, <1>4 DEF JsonRead, JsonTensorsRead
    <3>11. /\ DOMAIN weights = {i - 1 : i \in {j \in 1 .. k : file.tensors[j].kind = "weight"}}
           /\ \A i \in 1 .. k : file.tensors[i].kind = "weight" => weights[i - 1] = Data(file.tensors[i])
      BY <1>3, <1>4 DEF JsonRead, JsonTensorsRead
    <3>12. /\ DOMAIN weights' = {i - 1 : i \in {j \in 1 .. k + 1 : file.tensors[j].kind = "weight"}}
           /\ \A i \in 1 .. k + 1 :
                 file.tensors[i].kind = "weight" => weights'[i - 1] = Data(file.tensors[i])
      <4>1. \A i \in 1 .. k : i - 1 # k BY <1>4
      <4>2. k \notin DOMAIN weights BY <3>11, <4>1
      <4>3. CASE t.kind = "weight"
        <5>1. weights' = With(weights, k, Data(t)) BY <4>2, <4>3, <2>2, <1>4 DEF KeepWeight
        <5>2. DOMAIN weights' = DOMAIN weights \cup {k} /\ weights'[k] = Data(t)
              /\ \A x \in DOMAIN weights : weights'[x] = weights[x]
          BY <5>1, <4>2 DEF With
        <5>3. (k + 1) - 1 = k /\ k + 1 \in 1 .. k + 1 /\ \A i \in 1 .. k : i \in 1 .. k + 1 BY <1>4
        <5>4. DOMAIN weights' = {i - 1 : i \in {j \in 1 .. k + 1 : file.tensors[j].kind = "weight"}}
          BY <5>2, <5>3, <3>9, <3>11, <4>3
        <5>5. ASSUME NEW i \in 1 .. k + 1, file.tensors[i].kind = "weight"
              PROVE  weights'[i - 1] = Data(file.tensors[i])
          <6>1. CASE i = k + 1 BY <6>1, <5>2, <5>3
          <6>2. CASE i \in 1 .. k
            <7>1. i - 1 \in DOMAIN weights BY <6>2, <5>5, <3>11
            <7> QED BY <7>1, <6>2, <5>5, <5>2, <3>11
          <6> QED BY <6>1, <6>2, <3>9
        <5> QED BY <5>4, <5>5
      <4>4. CASE t.kind # "weight"
        <5>1. weights' = weights BY <4>4, <2>2
        <5>2. {j \in 1 .. k + 1 : file.tensors[j].kind = "weight"}
                = {j \in 1 .. k : file.tensors[j].kind = "weight"}
          <6>1. \A i \in 1 .. k : i \in 1 .. k + 1 BY <1>4
          <6> QED BY <6>1, <4>4, <3>9
        <5> QED BY <5>1, <5>2, <3>9, <3>11, <4>4
      <4> QED BY <4>3, <4>4
    <3>13. JsonTensorsRead'
      BY <3>1, <3>4, <3>7, <3>10, <3>12, <2>1
      DEF JsonTensorsRead, Data, TensorOK, WeightFits
    <3>14. NodesRead = 0 /\ InputsRead = 0 /\ OutputsRead = 0
      BY <1>2 DEF NodesRead, InputsRead, OutputsRead
    <3>15. /\ graph.nodes' = graph.nodes /\ graph.inputs' = graph.inputs
           /\ graph.outputs' = graph.outputs
      BY <2>4
    <3>16. JsonNodesRead'
      BY <3>1, <3>14, <3>15, <1>3 DEF JsonRead, JsonNodesRead
    <3>17. /\ Identified(graph.inputs, InputsRead, file.inputs)'
           /\ Identified(graph.outputs, OutputsRead, file.outputs)'
      BY <3>1, <3>14, <3>15, <1>3 DEF JsonRead, Identified
    <3>18. IsGraphRecord' BY <2>4 DEF IsGraphRecord
    <3>19. JsonPlace' BY <2>1, <2>6, <1>2, <1>3, <1>4 DEF JsonPlace, JsonRead
    <3> QED BY <3>13, <3>16, <3>17, <3>18, <3>19, <2>1, <2>6, <1>2 DEF JsonInv, JsonRead
  <2> QED BY <2>5, <2>6
<1> QED BY <1>6, <1>7

\* A node by names, and the same with ids.
LEMMA NodeByIds ==
  ASSUME NEW n,
         n \in [op : STRING, inputs : Seq(STRING), outputs : Seq(STRING), attrs : {n.attrs}]
  PROVE  [n EXCEPT !.inputs = Ids(@), !.outputs = Ids(@)] = NodeOf(n, n.op)
<1> DEFINE a == Ids(n.inputs)  b == Ids(n.outputs)
<1>1. n = [op |-> n.op, inputs |-> n.inputs, outputs |-> n.outputs, attrs |-> n.attrs] OBVIOUS
<1> DEFINE p == [n EXCEPT !.inputs = a]
<1> HIDE DEF a, b
<1>2. [n EXCEPT !.inputs = a, !.outputs = b] = [p EXCEPT !.outputs = b] BY <1>1
<1>3. p = [op |-> n.op, inputs |-> a, outputs |-> n.outputs, attrs |-> n.attrs] BY <1>1
<1> HIDE DEF p
<1>4. [p EXCEPT !.outputs = b] = [op |-> n.op, inputs |-> a, outputs |-> b, attrs |-> n.attrs]
  BY <1>3
<1> QED BY <1>2, <1>4 DEF a, b, NodeOf

\* Once the tensors have been read every name of theirs has an id.
LEMMA AllNamesKnown ==
  ASSUME JsonRead, IsList(file.tensors), TensorsRead = Len(file.tensors)
  PROVE  DOMAIN idOf = JsonNames
<1>1. \A i \in 1 .. TensorsRead : graph.tensors[i].name = file.tensors[i].name
  <2>1. \A i \in 1 .. TensorsRead : graph.tensors[i] = Info(file.tensors[i])
    BY DEF JsonRead, JsonTensorsRead
  <2>2. \A t : Info(t).name = t.name BY DEF Info
  <2> QED BY <2>1, <2>2
<1>2. DOMAIN idOf = {file.tensors[i].name : i \in 1 .. Len(file.tensors)}
  BY <1>1 DEF JsonRead, JsonTensorsRead, WellNamed
<1> QED BY <1>2, ListItems DEF JsonNames

\* A node is refused for itself, or because it names what no tensor has.
LEMMA JsonNodeKeeps == JsonInv /\ JsonNode => JsonInv'
<1> SUFFICES ASSUME JsonInv, JsonNode PROVE JsonInv' OBVIOUS
<1> DEFINE n == file.nodes[k + 1]
<1>1. phase = "loading" /\ part = "nodes" /\ k < Len(file.nodes) BY DEF JsonNode, Reading
<1>2. JsonRead /\ IsList(file.nodes) /\ IsList(file.tensors) BY <1>1, JsonFile DEF JsonInv
<1>3. k \in Nat /\ Len(file.nodes) \in Nat /\ NodesRead = k /\ TensorsRead = Len(file.tensors)
  BY <1>1, <1>2, ListItems DEF JsonRead, JsonPlace, TensorsRead, NodesRead
<1>4. n \in Range(file.nodes)
  BY <1>2, <1>3, <1>1, ListItems
<1>5. DOMAIN idOf = JsonNames BY <1>2, <1>3, AllNamesKnown
<1> DEFINE fits == Touched(n) \subseteq DOMAIN idOf /\ ReadableAttrs(n)
<1>6. CASE ~fits
  <2>1. Throw BY <1>6 DEF JsonNode, Touched
  <2>2. ~JsonSupported BY <1>4, <1>5, <1>6 DEF JsonSupported, Touched
  <2> QED BY <2>1, <2>2, JsonThrow
<1>7. CASE fits
  <2> DEFINE e == [n EXCEPT !.inputs = Ids(@), !.outputs = Ids(@)]
  <2>1. /\ graph' = [graph EXCEPT !.nodes = Append(@, e)]
        /\ k' = k + 1 /\ UNCHANGED <<file, debug, phase, part, idOf, weights, meta>>
    BY <1>7 DEF JsonNode, Touched
  <2>2. e = NodeOf(n, n.op)
    <3>1. n \in [op : STRING, inputs : Seq(STRING), outputs : Seq(STRING), attrs : {n.attrs}]
      BY <1>4, JsonFile DEF JsonInv
    <3> QED BY <3>1, NodeByIds
  <2>3. IsGraphRecord BY <1>2 DEF JsonRead
  <2> HIDE DEF e
  <2>4. graph' = [tensors |-> graph.tensors, nodes |-> Append(graph.nodes, e),
                  inputs |-> graph.inputs, outputs |-> graph.outputs]
    BY <2>1, <2>3 DEF IsGraphRecord
  <2>5. /\ graph.tensors' = graph.tensors /\ graph.nodes' = Append(graph.nodes, e)
        /\ graph.inputs' = graph.inputs /\ graph.outputs' = graph.outputs
    BY <2>4
  <2>6. /\ TensorsRead' = TensorsRead /\ NodesRead' = k + 1
        /\ InputsRead' = InputsRead /\ OutputsRead' = OutputsRead
        /\ InputsRead = 0 /\ OutputsRead = 0
    BY <2>1, <1>1 DEF TensorsRead, NodesRead, InputsRead, OutputsRead
  <2>7. IsList(graph.nodes) /\ Len(graph.nodes) = k BY <1>2, <1>3 DEF JsonRead, JsonNodesRead
  <2>8. /\ IsList(graph.nodes') /\ Len(graph.nodes') = k + 1 /\ graph.nodes'[k + 1] = e
        /\ \A i \in 1 .. k : graph.nodes'[i] = graph.nodes[i]
    BY <2>5, <2>7, ListAppend
  <2>9. \A m, op : NodeOf(m, op)' = NodeOf(m, op) BY <2>1 DEF NodeOf, Ids
  <2>10. \A i \in 1 .. k + 1 : i \in 1 .. k \/ i = k + 1 BY <1>3
  <2>11. ASSUME NEW i \in 1 .. k + 1
         PROVE  LET m == file.nodes[i]
                IN  graph.nodes'[i] = NodeOf(m, m.op) /\ Touched(m) \subseteq DOMAIN idOf /\ ReadableAttrs(m)
    <3>1. CASE i \in 1 .. k BY <3>1, <2>8, <1>2, <1>3 DEF JsonRead, JsonNodesRead
    <3>2. CASE i = k + 1 BY <3>2, <2>8, <2>2, <1>7
    <3> QED BY <3>1, <3>2, <2>10
  <2>12. JsonNodesRead'
    <3> SUFFICES ASSUME NEW i \in 1 .. k + 1
                 PROVE  LET m == file.nodes[i]
                        IN  /\ graph.nodes'[i] = [op |-> m.op, inputs |-> Ids(m.inputs),
                                                  outputs |-> Ids(m.outputs), attrs |-> m.attrs]
                            /\ Touched(m) \subseteq DOMAIN idOf /\ ReadableAttrs(m)
      BY <2>1, <2>6, <2>8 DEF JsonNodesRead, NodeOf, Ids
    <3> QED BY <2>11 DEF NodeOf
  <2>13. JsonTensorsRead'
    BY <2>1, <2>5, <2>6, <1>2 DEF JsonRead, JsonTensorsRead, Data, TensorOK, WeightFits
  <2>14. /\ Identified(graph.inputs, InputsRead, file.inputs)'
         /\ Identified(graph.outputs, OutputsRead, file.outputs)'
    BY <2>5, <2>6, <1>2 DEF JsonRead, Identified
  <2>15. IsGraphRecord' BY <2>4 DEF IsGraphRecord
  <2>16. JsonPlace' BY <2>1, <1>1, <1>3 DEF JsonPlace
  <2> QED BY <2>1, <2>12, <2>13, <2>14, <2>15, <2>16, <1>1 DEF JsonInv, JsonRead
<1> QED BY <1>6, <1>7

\* One more id behind a list of them.
LEMMA OneMoreIdentified ==
  ASSUME NEW ids, NEW n \in Nat, NEW names, Identified(ids, n, names),
         names[n + 1] \in DOMAIN idOf
  PROVE  Identified(Append(ids, idOf[names[n + 1]]), n + 1, names)
<1> DEFINE new == Append(ids, idOf[names[n + 1]])
<1>1. /\ IsList(new) /\ Len(new) = n + 1 /\ new[n + 1] = idOf[names[n + 1]]
      /\ \A i \in 1 .. n : new[i] = ids[i]
  BY ListAppend DEF Identified
<1> HIDE DEF new
<1>2. \A i \in 1 .. n + 1 : i \in 1 .. n \/ i = n + 1 OBVIOUS
<1>3. \A i \in 1 .. n : names[i] \in DOMAIN idOf /\ ids[i] = idOf[names[i]] BY DEF Identified
<1>4. \A i \in 1 .. n + 1 : names[i] \in DOMAIN idOf /\ new[i] = idOf[names[i]]
  BY <1>1, <1>2, <1>3
<1> QED BY <1>1, <1>4 DEF Identified, new

\* A name that no tensor has cannot be announced.
LEMMA JsonMarkThrows ==
  ASSUME JsonInv, NEW list \in {"inputs", "outputs"}, Reading(list, file[list]),
         file[list][k + 1] \notin DOMAIN idOf
  PROVE  ~JsonSupported
<1>1. phase = "loading" /\ part = list /\ k < Len(file[list]) BY DEF Reading
<1>2. JsonRead /\ IsList(file.tensors) /\ IsList(file.inputs) /\ IsList(file.outputs)
  BY <1>1, JsonFile DEF JsonInv
<1>3. TensorsRead = Len(file.tensors) /\ k \in Nat
  BY <1>1, <1>2 DEF JsonRead, JsonPlace, TensorsRead
<1>4. DOMAIN idOf = JsonNames BY <1>2, <1>3, AllNamesKnown
<1>5. CASE list = "inputs"
  <2>1. file.inputs[k + 1] \in Range(file.inputs) BY <1>1, <1>2, <1>3, <1>5, ListItems
  <2> QED BY <2>1, <1>4, <1>5 DEF JsonSupported
<1>6. CASE list = "outputs"
  <2>1. file.outputs[k + 1] \in Range(file.outputs) BY <1>1, <1>2, <1>3, <1>6, ListItems
  <2> QED BY <2>1, <1>4, <1>6 DEF JsonSupported
<1> QED BY <1>5, <1>6

\* An input or an output is announced under its id.
LEMMA JsonMarkKeeps ==
  ASSUME JsonInv, NEW list \in {"inputs", "outputs"}, JsonMark(list)
  PROVE  JsonInv'
<1>1. Reading(list, file[list]) /\ phase = "loading" /\ part = list /\ k < Len(file[list])
  BY DEF JsonMark, Reading
<1>2. JsonRead /\ IsList(file.inputs) /\ IsList(file.outputs) BY <1>1, JsonFile DEF JsonInv
<1>3. k \in Nat /\ Len(file.inputs) \in Nat /\ Len(file.outputs) \in Nat
  BY <1>2, ListItems DEF JsonRead, JsonPlace
<1> DEFINE name == file[list][k + 1]
<1>4. CASE name \notin DOMAIN idOf
  <2>1. Throw BY <1>4 DEF JsonMark
  <2> QED BY <2>1, <1>1, <1>4, JsonMarkThrows, JsonThrow
<1>5. CASE name \in DOMAIN idOf
  <2> DEFINE id == idOf[name]
  <2>1. /\ graph' = [graph EXCEPT ![list] = Append(@, id)]
        /\ k' = k + 1 /\ UNCHANGED <<file, debug, phase, part, idOf, weights, meta>>
    BY <1>5 DEF JsonMark, Mark
  <2>2. IsGraphRecord BY <1>2 DEF JsonRead
  <2> HIDE DEF id
  <2>3. graph' = [tensors |-> graph.tensors, nodes |-> graph.nodes,
                  inputs |-> IF list = "inputs" THEN Append(graph.inputs, id) ELSE graph.inputs,
                  outputs |-> IF list = "outputs" THEN Append(graph.outputs, id) ELSE graph.outputs]
    <3>1. CASE list = "inputs" BY <3>1, <2>1, <2>2 DEF IsGraphRecord
    <3>2. CASE list = "outputs" BY <3>2, <2>1, <2>2 DEF IsGraphRecord
    <3> QED BY <3>1, <3>2
  <2>4. /\ graph.tensors' = graph.tensors /\ graph.nodes' = graph.nodes
        /\ graph.inputs' = IF list = "inputs" THEN Append(graph.inputs, id) ELSE graph.inputs
        /\ graph.outputs' = IF list = "outputs" THEN Append(graph.outputs, id) ELSE graph.outputs
    BY <2>3
  <2>5. TensorsRead' = TensorsRead /\ NodesRead' = NodesRead
    BY <2>1, <1>1 DEF TensorsRead, NodesRead
  <2>6. /\ InputsRead' = IF list = "inputs" THEN k + 1 ELSE InputsRead
        /\ OutputsRead' = IF list = "outputs" THEN k + 1 ELSE OutputsRead
        /\ list = "inputs" => InputsRead = k
        /\ list = "outputs" => OutputsRead = k
    BY <2>1, <1>1 DEF InputsRead, OutputsRead
  <2>7. /\ Identified(graph.inputs, InputsRead, file.inputs)
        /\ Identified(graph.outputs, OutputsRead, file.outputs)
    BY <1>2 DEF JsonRead
  <2>8. Identified(graph.inputs', InputsRead', file.inputs)
    <3>1. CASE list = "inputs"
      <4>1. Identified(Append(graph.inputs, idOf[file.inputs[k + 1]]), k + 1, file.inputs)
        BY <3>1, <2>6, <2>7, <1>3, <1>5, OneMoreIdentified
      <4> QED BY <4>1, <3>1, <2>4, <2>6 DEF id
    <3>2. CASE list = "outputs" BY <3>2, <2>4, <2>6, <2>7
    <3> QED BY <3>1, <3>2
  <2>9. Identified(graph.outputs', OutputsRead', file.outputs)
    <3>1. CASE list = "outputs"
      <4>1. Identified(Append(graph.outputs, idOf[file.outputs[k + 1]]), k + 1, file.outputs)
        BY <3>1, <2>6, <2>7, <1>3, <1>5, OneMoreIdentified
      <4> QED BY <4>1, <3>1, <2>4, <2>6 DEF id
    <3>2. CASE list = "inputs" BY <3>2, <2>4, <2>6, <2>7
    <3> QED BY <3>1, <3>2
  <2>10. /\ Identified(graph.inputs, InputsRead, file.inputs)'
         /\ Identified(graph.outputs, OutputsRead, file.outputs)'
    BY <2>1, <2>8, <2>9 DEF Identified
  <2>11. JsonTensorsRead'
    BY <2>1, <2>4, <2>5, <1>2 DEF JsonRead, JsonTensorsRead, Data, TensorOK, WeightFits
  <2>12. JsonNodesRead' BY <2>1, <2>4, <2>5, <1>2 DEF JsonRead, JsonNodesRead, NodeOf, Ids
  <2>13. IsGraphRecord' BY <2>3 DEF IsGraphRecord
  <2>14. JsonPlace' BY <2>1, <1>1, <1>3 DEF JsonPlace
  <2> QED BY <2>1, <2>10, <2>11, <2>12, <2>13, <2>14, <1>1 DEF JsonInv, JsonRead
<1> QED BY <1>4, <1>5

\* Every step keeps the invariant.
LEMMA JsonNext == JsonInv /\ [FrontendStep \/ FrontendDone]_loadVars => JsonInv'
<1> SUFFICES ASSUME JsonInv, [FrontendStep \/ FrontendDone]_loadVars PROVE JsonInv' OBVIOUS
<1>1. CASE UNCHANGED loadVars
  <2>1. UNCHANGED <<file, debug, phase, part, k, graph, idOf, weights>> BY <1>1 DEF loadVars
  <2>2. /\ TensorsRead' = TensorsRead /\ NodesRead' = NodesRead
        /\ InputsRead' = InputsRead /\ OutputsRead' = OutputsRead
    BY <2>1 DEF TensorsRead, NodesRead, InputsRead, OutputsRead
  <2>3. ASSUME JsonRead PROVE JsonRead'
    BY <2>1, <2>2, <2>3 DEF JsonRead, JsonPlace, IsGraphRecord, JsonTensorsRead, Data, TensorOK,
         WeightFits, JsonNodesRead, NodeOf, Ids, Identified
  <2> QED BY <2>1, <2>3, JsonFixed DEF JsonInv
<1>2. CASE FrontendDone BY <1>1, <1>2 DEF FrontendDone
<1>3. CASE FrontendStep
  <2>1. JsonStep BY <1>3 DEF FrontendStep, FromOnnx, JsonInv
  <2> QED BY <2>1, JsonTensorKeeps, JsonNodeKeeps, JsonMarkKeeps, JsonEndKeeps DEF JsonStep
<1> QED BY <1>1, <1>2, <1>3

\* What is in memory after the last item.
LEMMA JsonLoaded ==
  ASSUME JsonInv, phase = "loaded"
  PROVE  /\ JsonSupported /\ ByName = JsonMeans
         /\ Len(graph.tensors) = Cardinality({t.name : t \in Range(graph.tensors)})
         /\ \A t \in 0 .. NextId - 1 : graph.tensors[t + 1].kind = "weight" <=> t \in DOMAIN weights
<1>1. JsonRead /\ part = "end" BY DEF JsonInv, JsonRead, JsonPlace
<1>2. /\ IsList(file.tensors) /\ IsList(file.nodes) /\ IsList(file.inputs) /\ IsList(file.outputs)
      /\ \A n \in Range(file.nodes) :
            n \in [op : STRING, inputs : Seq(STRING), outputs : Seq(STRING), attrs : {n.attrs}]
  BY JsonFile DEF JsonInv
<1>3. /\ TensorsRead = Len(file.tensors) /\ NodesRead = Len(file.nodes)
      /\ InputsRead = Len(file.inputs) /\ OutputsRead = Len(file.outputs)
  BY <1>1 DEF TensorsRead, NodesRead, InputsRead, OutputsRead
<1>4. DOMAIN idOf = JsonNames BY <1>1, <1>2, <1>3, AllNamesKnown
<1> DEFINE D == 1 .. Len(file.tensors)
<1>5. /\ Len(file.tensors) \in Nat /\ Range(file.tensors) = {file.tensors[i] : i \in D}
      /\ Len(file.nodes) \in Nat /\ Range(file.nodes) = {file.nodes[i] : i \in 1 .. Len(file.nodes)}
      /\ DOMAIN file.nodes = 1 .. Len(file.nodes)
      /\ file.nodes = [i \in 1 .. Len(file.nodes) |-> file.nodes[i]]
  BY <1>2, ListItems
<1>6. /\ WellNamed(graph.tensors, idOf) /\ Len(graph.tensors) = Len(file.tensors)
      /\ \A i \in D : graph.tensors[i] = Info(file.tensors[i]) /\ TensorOK(file.tensors[i])
      /\ DOMAIN weights = {i - 1 : i \in {j \in D : file.tensors[j].kind = "weight"}}
      /\ \A i \in D : file.tensors[i].kind = "weight" => weights[i - 1] = Data(file.tensors[i])
  BY <1>1, <1>3 DEF JsonRead, JsonTensorsRead
<1>7. \A t : Info(t).name = t.name /\ Info(t).kind = t.kind BY DEF Info
<1>8. \A i \in D : graph.tensors[i].name = file.tensors[i].name /\ graph.tensors[i].kind = file.tensors[i].kind
  BY <1>6, <1>7
<1>9. \A i \in 1 .. Len(file.nodes) :
         LET n == file.nodes[i]
         IN  graph.nodes[i] = NodeOf(n, n.op) /\ Touched(n) \subseteq DOMAIN idOf /\ ReadableAttrs(n)
  BY <1>1, <1>3 DEF JsonRead, JsonNodesRead
<1>10. /\ Identified(graph.inputs, Len(file.inputs), file.inputs)
       /\ Identified(graph.outputs, Len(file.outputs), file.outputs)
  BY <1>1, <1>3 DEF JsonRead
<1>11. Cardinality({t.name : t \in Range(graph.tensors)}) = Len(graph.tensors)
  BY <1>6, WellNamedDistinct
<1>12. JsonSupported
  <2>1. \A i, j \in D : file.tensors[i].name = file.tensors[j].name => i = j
    <3> TAKE i, j \in D
    <3> HAVE file.tensors[i].name = file.tensors[j].name
    <3>1. i - 1 = j - 1 BY <1>6, <1>8 DEF WellNamed
    <3> QED BY <3>1, <1>5
  <2>2. Cardinality(JsonNames) = Len(file.tensors) BY <2>1, <1>2, DistinctNames DEF JsonNames
  <2>3. \A t \in Range(file.tensors) : TensorOK(t) BY <1>5, <1>6
  <2>4. \A n \in Range(file.nodes) : Touched(n) \subseteq JsonNames /\ ReadableAttrs(n)
    BY <1>4, <1>5, <1>9
  <2>5. Range(file.inputs) \cup Range(file.outputs) \subseteq JsonNames
    <3>1. /\ \A i \in 1 .. Len(file.inputs) : file.inputs[i] \in JsonNames
          /\ \A i \in 1 .. Len(file.outputs) : file.outputs[i] \in JsonNames
      BY <1>4, <1>10 DEF Identified
    <3>2. /\ Range(file.inputs) = {file.inputs[i] : i \in 1 .. Len(file.inputs)}
          /\ Range(file.outputs) = {file.outputs[i] : i \in 1 .. Len(file.outputs)}
      BY <1>2, ListItems
    <3> QED BY <3>1, <3>2
  <2> QED BY <2>2, <2>3, <2>4, <2>5 DEF JsonSupported, TensorOK, Touched
<1>13. ByName = JsonMeans
  <2>1. Range(graph.tensors) = {Info(t) : t \in Range(file.tensors)}
    <3>1. Range(graph.tensors) = {graph.tensors[i] : i \in D} BY <1>6, ListItems DEF WellNamed
    <3> QED BY <3>1, <1>5, <1>6
  <2>2. [x \in DOMAIN graph.nodes |->
            [graph.nodes[x] EXCEPT !.inputs = NamesOf(@), !.outputs = NamesOf(@)]] = file.nodes
    <3>1. DOMAIN graph.nodes = 1 .. Len(file.nodes)
      BY <1>1, <1>3, ListItems DEF JsonRead, JsonNodesRead
    <3>2. ASSUME NEW x \in 1 .. Len(file.nodes)
          PROVE  [graph.nodes[x] EXCEPT !.inputs = NamesOf(@), !.outputs = NamesOf(@)] = file.nodes[x]
      <4> DEFINE n == file.nodes[x]
      <4>1. /\ n \in [op : STRING, inputs : Seq(STRING), outputs : Seq(STRING), attrs : {n.attrs}]
            /\ Touched(n) \subseteq DOMAIN idOf /\ graph.nodes[x] = NodeOf(n, n.op)
        BY <1>2, <1>5, <1>9
      <4> HIDE DEF n
      <4>2. [NodeOf(n, n.op) EXCEPT !.inputs = NamesOf(@), !.outputs = NamesOf(@)]
              = [n EXCEPT !.op = n.op]
        BY <4>1, <1>6, NodeByName
      <4>3. [n EXCEPT !.op = n.op] = n BY <4>1
      <4> QED BY <4>1, <4>2, <4>3 DEF n
    <3> QED BY <3>1, <3>2, <1>5
  <2>3. NamesOf(graph.inputs) = file.inputs /\ NamesOf(graph.outputs) = file.outputs
    BY <1>2, <1>6, <1>10, NamesOfIdentified
  <2>4. {<<NameOf(id), weights[id]>> : id \in DOMAIN weights}
          = {<<t.name, Data(t)>> : t \in {u \in Range(file.tensors) : u.kind = "weight"}}
    <3> DEFINE W == {j \in D : file.tensors[j].kind = "weight"}
               l == {<<NameOf(id), weights[id]>> : id \in DOMAIN weights}
               r == {<<t.name, Data(t)>> : t \in {u \in Range(file.tensors) : u.kind = "weight"}}
    <3>1. \A i \in D : (i - 1) + 1 = i /\ NameOf(i - 1) = file.tensors[i].name
      BY <1>5, <1>8 DEF NameOf
    <3>2. \A i \in W : weights[i - 1] = Data(file.tensors[i]) BY <1>6
    <3>3. l = {<<NameOf(i - 1), weights[i - 1]>> : i \in W} BY <1>6
    <3>4. l = {<<file.tensors[i].name, Data(file.tensors[i])>> : i \in W} BY <3>1, <3>2, <3>3
    <3>5. {u \in Range(file.tensors) : u.kind = "weight"} = {file.tensors[i] : i \in W} BY <1>5
    <3>6. r = {<<file.tensors[i].name, Data(file.tensors[i])>> : i \in W} BY <3>5
    <3> QED BY <3>4, <3>6
  <2> QED BY <2>1, <2>2, <2>3, <2>4 DEF ByName, JsonMeans, Info, Data
<1>14. \A t \in 0 .. NextId - 1 : graph.tensors[t + 1].kind = "weight" <=> t \in DOMAIN weights
  <2> TAKE t \in 0 .. NextId - 1
  <2>1. t + 1 \in D /\ (t + 1) - 1 = t BY <1>5, <1>6 DEF NextId
  <2>2. \A i \in D : i - 1 = t => i = t + 1 BY <1>5, <2>1
  <2> QED BY <2>1, <2>2, <1>6, <1>8
<1> QED BY <1>11, <1>12, <1>13, <1>14
-----------------------------------------------------------------------------
(* ONNX files: recursive definitions.                                      *)

\* What ensure_tensor starts from, and the states after each of m names.
Unchanged == [ok |-> TRUE, idOf |-> idOf, tensors |-> graph.tensors]
IsRun(f, M, names, m) ==
    f = [n \in 0 .. m |-> IF n = 0 THEN Unchanged ELSE Ensure(M, f[n - 1], names[n])]

\* There is such a run of any length.
LEMMA RunExists ==
  ASSUME NEW M, NEW names, NEW l \in Nat
  PROVE  \E f : IsRun(f, M, names, l)
<1> DEFINE S == {m \in Nat : \E f : IsRun(f, M, names, m)}
<1>1. 0 \in S
  <2>1. IsRun([n \in 0 .. 0 |-> Unchanged], M, names, 0) BY DEF IsRun
  <2> QED BY <2>1
<1>2. ASSUME NEW m \in S PROVE m + 1 \in S
  <2>1. PICK f : IsRun(f, M, names, m) OBVIOUS
  <2> DEFINE g == [n \in 0 .. m + 1 |-> IF n = m + 1 THEN Ensure(M, f[m], names[m + 1]) ELSE f[n]]
  <2>2. f = [n \in 0 .. m |-> IF n = 0 THEN Unchanged ELSE Ensure(M, f[n - 1], names[n])]
    BY <2>1 DEF IsRun
  <2>3. m \in Nat OBVIOUS
  <2>4. ASSUME NEW n \in 0 .. m + 1
        PROVE  g[n] = IF n = 0 THEN Unchanged ELSE Ensure(M, g[n - 1], names[n])
    <3>1. CASE n = m + 1
      <4>1. g[n - 1] = f[m] BY <3>1, <2>3
      <4> QED BY <3>1, <4>1, <2>3
    <3>2. CASE n # m + 1
      <4>1. n \in 0 .. m /\ g[n] = f[n] BY <3>2, <2>3
      <4>2. CASE n = 0 BY <4>1, <4>2, <2>2
      <4>3. CASE n # 0
        <5>1. n - 1 \in 0 .. m + 1 /\ n - 1 # m + 1 BY <4>1, <4>3, <2>3
        <5>2. g[n - 1] = f[n - 1] BY <5>1
        <5>3. f[n] = Ensure(M, f[n - 1], names[n]) BY <4>1, <4>3, <2>2, Zenon
        <5> QED BY <4>1, <4>3, <5>2, <5>3
      <4> QED BY <4>2, <4>3
    <3> QED BY <3>1, <3>2
  <2> HIDE DEF g
  <2>5. g = [n \in 0 .. m + 1 |-> g[n]] BY DEF g
  <2>6. g = [n \in 0 .. m + 1 |-> IF n = 0 THEN Unchanged ELSE Ensure(M, g[n - 1], names[n])]
    BY <2>4, <2>5
  <2> QED BY <2>3, <2>6 DEF IsRun
<1> HIDE DEF S
<1>3. S \in SUBSET Nat BY DEF S
<1>4. S = Nat BY <1>1, <1>2, <1>3, Induction
<1> QED BY <1>4 DEF S

\* EnsureAll is where the run ends.
LEMMA EnsureAllRun ==
  ASSUME NEW M, NEW names, IsList(names)
  PROVE  \E f : /\ EnsureAll(M, names) = f[Len(names)]
                /\ f[0] = Unchanged
                /\ \A n \in 1 .. Len(names) : f[n] = Ensure(M, f[n - 1], names[n])
<1>1. Len(names) \in Nat BY ListItems
<1> DEFINE f == CHOOSE f : IsRun(f, M, names, Len(names))
<1>2. IsRun(f, M, names, Len(names)) BY <1>1, RunExists
<1>3. EnsureAll(M, names) = f[Len(names)] BY DEF EnsureAll, IsRun, Unchanged
<1> HIDE DEF f
<1>4. f[0] = Unchanged
  <2>1. 0 \in 0 .. Len(names) BY <1>1
  <2> QED BY <1>2, <2>1 DEF IsRun
<1>5. ASSUME NEW n \in 1 .. Len(names) PROVE f[n] = Ensure(M, f[n - 1], names[n])
  <2>1. n \in 0 .. Len(names) /\ n # 0 BY <1>1
  <2> QED BY <1>2, <2>1, Zenon DEF IsRun
<1> QED BY <1>3, <1>4, <1>5

\* What is announced, one entry after the other.
NextAnnounced(s, n) ==
    IF file.input[n].name \in InitializerNames THEN s ELSE Append(s, file.input[n].name)
IsAnnounced(f, m) ==
    f = [n \in 0 .. m |-> IF n = 0 THEN <<>> ELSE NextAnnounced(f[n - 1], n)]

\* There is such a function for any length.
LEMMA AnnouncedExists == ASSUME NEW l \in Nat PROVE \E f : IsAnnounced(f, l)
<1> DEFINE S == {m \in Nat : \E f : IsAnnounced(f, m)}
<1>1. 0 \in S
  <2>1. IsAnnounced([n \in 0 .. 0 |-> <<>>], 0) BY DEF IsAnnounced
  <2> QED BY <2>1
<1>2. ASSUME NEW m \in S PROVE m + 1 \in S
  <2>1. PICK f : IsAnnounced(f, m) OBVIOUS
  <2> DEFINE g == [n \in 0 .. m + 1 |-> IF n = m + 1 THEN NextAnnounced(f[m], m + 1) ELSE f[n]]
  <2>2. f = [n \in 0 .. m |-> IF n = 0 THEN <<>> ELSE NextAnnounced(f[n - 1], n)]
    BY <2>1 DEF IsAnnounced
  <2>3. m \in Nat OBVIOUS
  <2>4. ASSUME NEW n \in 0 .. m + 1
        PROVE  g[n] = IF n = 0 THEN <<>> ELSE NextAnnounced(g[n - 1], n)
    <3>1. CASE n = m + 1
      <4>1. g[n - 1] = f[m] BY <3>1, <2>3
      <4> QED BY <3>1, <4>1, <2>3
    <3>2. CASE n # m + 1
      <4>1. n \in 0 .. m /\ g[n] = f[n] BY <3>2, <2>3
      <4>2. CASE n = 0 BY <4>1, <4>2, <2>2
      <4>3. CASE n # 0
        <5>1. n - 1 \in 0 .. m + 1 /\ n - 1 # m + 1 BY <4>1, <4>3, <2>3
        <5>2. g[n - 1] = f[n - 1] BY <5>1
        <5>3. f[n] = NextAnnounced(f[n - 1], n) BY <4>1, <4>3, <2>2, Zenon
        <5> QED BY <4>1, <4>3, <5>2, <5>3
      <4> QED BY <4>2, <4>3
    <3> QED BY <3>1, <3>2
  <2> HIDE DEF g
  <2>5. g = [n \in 0 .. m + 1 |-> g[n]] BY DEF g
  <2>6. g = [n \in 0 .. m + 1 |-> IF n = 0 THEN <<>> ELSE NextAnnounced(g[n - 1], n)]
    BY <2>4, <2>5
  <2>7. IsAnnounced(g, m + 1) BY <2>6 DEF IsAnnounced
  <2> QED BY <2>3, <2>7
<1> HIDE DEF S
<1>3. S \in SUBSET Nat BY DEF S
<1>4. S = Nat BY <1>1, <1>2, <1>3, Induction
<1> QED BY <1>4 DEF S

\* Announced is one, so it can be followed entry by entry.
LEMMA AnnouncedSteps ==
  ASSUME Len(file.input) \in Nat
  PROVE  /\ Announced[0] = <<>>
         /\ \A n \in 1 .. Len(file.input) : Announced[n] = NextAnnounced(Announced[n - 1], n)
<1> DEFINE f == CHOOSE f : IsAnnounced(f, Len(file.input))
<1>1. IsAnnounced(f, Len(file.input)) BY AnnouncedExists
<1>2. Announced = f BY DEF Announced, IsAnnounced, NextAnnounced
<1> HIDE DEF f
<1>3. f[0] = <<>>
  <2>1. 0 \in 0 .. Len(file.input) OBVIOUS
  <2> QED BY <1>1, <2>1 DEF IsAnnounced
<1>4. ASSUME NEW n \in 1 .. Len(file.input) PROVE f[n] = NextAnnounced(f[n - 1], n)
  <2>1. n \in 0 .. Len(file.input) /\ n # 0 OBVIOUS
  <2>2. f = [i \in 0 .. Len(file.input) |-> IF i = 0 THEN <<>> ELSE NextAnnounced(f[i - 1], i)]
    BY <1>1 DEF IsAnnounced
  <2> QED BY <2>1, <2>2, Zenon
<1> QED BY <1>2, <1>3, <1>4
-----------------------------------------------------------------------------
(* ONNX files: adding tensors.                                             *)

\* The tensor of a name that has none yet.
Fresh(M, n) == [name |-> n, dtype |-> M[n].dtype, shape |-> M[n].shape, kind |-> KindOf(n)]

\* S is what has become of the tensors when the names in R have been ensured.
Ensured(M, S, R) ==
    /\ S = [ok |-> S.ok, idOf |-> S.idOf, tensors |-> S.tensors]
    /\ S.ok \in BOOLEAN
    /\ S.ok <=> R \subseteq DOMAIN idOf \cup DOMAIN M
    /\ S.ok =>
          /\ WellNamed(S.tensors, S.idOf)
          /\ DOMAIN S.idOf = DOMAIN idOf \cup R
          /\ \A n \in DOMAIN idOf : S.idOf[n] = idOf[n]
          /\ Len(graph.tensors) <= Len(S.tensors)
          /\ \A i \in 1 .. Len(graph.tensors) : S.tensors[i] = graph.tensors[i]
          /\ \A i \in Len(graph.tensors) + 1 .. Len(S.tensors) :
                LET n == S.tensors[i].name
                IN  n \in DOMAIN M \ DOMAIN idOf /\ S.tensors[i] = Fresh(M, n)

\* One name more.
LEMMA EnsureStep ==
  ASSUME NEW M, NEW S, NEW R, Ensured(M, S, R), NEW name, Len(graph.tensors) \in Nat
  PROVE  Ensured(M, Ensure(M, S, name), R \cup {name})
<1> DEFINE U == Ensure(M, S, name)
<1>1. CASE ~S.ok
  <2>1. U = S BY <1>1 DEF Ensure
  <2> QED BY <1>1, <2>1 DEF Ensured
<1>2. CASE S.ok /\ name \in DOMAIN S.idOf
  <2>1. U = S BY <1>2 DEF Ensure
  <2>2. name \in DOMAIN idOf \cup R BY <1>2 DEF Ensured
  <2>3. name \in DOMAIN idOf \cup DOMAIN M BY <1>2, <2>2 DEF Ensured
  <2>4. DOMAIN S.idOf = DOMAIN idOf \cup (R \cup {name}) BY <1>2, <2>2 DEF Ensured
  <2> HIDE DEF U
  <2> QED BY <1>2, <2>1, <2>3, <2>4 DEF Ensured, U
<1>3. CASE S.ok /\ name \notin DOMAIN S.idOf /\ name \notin DOMAIN M
  <2>1. U = [S EXCEPT !.ok = FALSE] BY <1>3 DEF Ensure
  <2>2. U = [ok |-> FALSE, idOf |-> S.idOf, tensors |-> S.tensors] BY <2>1 DEF Ensured
  <2>3. name \notin DOMAIN idOf BY <1>3 DEF Ensured
  <2> HIDE DEF U
  <2>4. Ensured(M, U, R \cup {name}) BY <1>3, <2>2, <2>3 DEF Ensured
  <2> QED BY <2>4 DEF U
<1>4. CASE S.ok /\ name \notin DOMAIN S.idOf /\ name \in DOMAIN M
  <2> DEFINE T == S.tensors
             I == S.idOf
             e == Fresh(M, name)
             V == Append(T, e)
             J == With(I, name, Len(T))
  <2>1. U = [ok |-> TRUE, idOf |-> J, tensors |-> V] BY <1>4 DEF Ensure, Fresh
  <2>2. e.name = name BY DEF Fresh
  <2>3. /\ WellNamed(T, I) /\ DOMAIN I = DOMAIN idOf \cup R /\ name \notin DOMAIN I
        /\ \A n \in DOMAIN idOf : I[n] = idOf[n]
        /\ Len(graph.tensors) <= Len(T)
        /\ \A i \in 1 .. Len(graph.tensors) : T[i] = graph.tensors[i]
        /\ \A i \in Len(graph.tensors) + 1 .. Len(T) :
              LET n == T[i].name
              IN  n \in DOMAIN M \ DOMAIN idOf /\ T[i] = Fresh(M, n)
        /\ R \subseteq DOMAIN idOf \cup DOMAIN M
    BY <1>4 DEF Ensured
  <2> HIDE DEF T, I, e
  <2>4. WellNamed(V, J) BY <2>2, <2>3, NameAdded
  <2>5. /\ DOMAIN J = DOMAIN idOf \cup (R \cup {name})
        /\ \A n \in DOMAIN idOf : J[n] = idOf[n]
    BY <2>3 DEF With
  <2>6. /\ Len(V) = Len(T) + 1 /\ Len(T) \in Nat /\ V[Len(T) + 1] = e
        /\ \A i \in 1 .. Len(T) : V[i] = T[i]
    BY <2>3, ListAppend, ListItems DEF WellNamed
  <2> HIDE DEF V, J
  <2>7. Len(graph.tensors) <= Len(V) BY <2>3, <2>6
  <2>8. \A i \in 1 .. Len(graph.tensors) : V[i] = graph.tensors[i] BY <2>3, <2>6
  <2>9. ASSUME NEW i \in Len(graph.tensors) + 1 .. Len(V)
        PROVE  V[i].name \in DOMAIN M \ DOMAIN idOf /\ V[i] = Fresh(M, V[i].name)
    <3>1. CASE i = Len(T) + 1
      <4>1. V[i] = Fresh(M, name) BY <3>1, <2>6 DEF e
      <4>2. V[i].name = name BY <3>1, <2>2, <2>6
      <4> QED BY <4>1, <4>2, <2>3, <1>4
    <3>2. CASE i # Len(T) + 1
      <4>1. i \in Len(graph.tensors) + 1 .. Len(T) /\ i \in 1 .. Len(T) BY <3>2, <2>6
      <4> QED BY <4>1, <2>3, <2>6
    <3> QED BY <3>1, <3>2
  <2> HIDE DEF U
  <2>10. U.ok = TRUE /\ U.idOf = J /\ U.tensors = V
         /\ U = [ok |-> U.ok, idOf |-> U.idOf, tensors |-> U.tensors]
    BY <2>1
  <2>11. R \cup {name} \subseteq DOMAIN idOf \cup DOMAIN M BY <2>3, <1>4
  <2>12. Ensured(M, U, R \cup {name})
    BY <2>4, <2>5, <2>7, <2>8, <2>9, <2>10, <2>11 DEF Ensured
  <2> QED BY <2>12 DEF U
<1>5. S.ok \in BOOLEAN BY DEF Ensured
<1> QED BY <1>1, <1>2, <1>3, <1>4, <1>5

\* All of them.
LEMMA EnsureAllResult ==
  ASSUME WellNamed(graph.tensors, idOf), NEW M, NEW names, IsList(names)
  PROVE  Ensured(M, EnsureAll(M, names), Range(names))
<1>1. PICK f : /\ EnsureAll(M, names) = f[Len(names)]
               /\ f[0] = Unchanged
               /\ \A n \in 1 .. Len(names) : f[n] = Ensure(M, f[n - 1], names[n])
  BY EnsureAllRun
<1>2. Len(names) \in Nat /\ Range(names) = {names[i] : i \in 1 .. Len(names)} BY ListItems
<1>3. Len(graph.tensors) \in Nat BY ListItems DEF WellNamed
<1> DEFINE Names(m) == {names[i] : i \in 1 .. m}
           S == {m \in Nat : m <= Len(names) => Ensured(M, f[m], Names(m))}
<1>4. 0 \in S
  <2>1. Names(0) = {} OBVIOUS
  <2>2. Ensured(M, Unchanged, {}) BY <1>3 DEF Ensured, Unchanged
  <2> QED BY <2>1, <2>2, <1>1
<1>5. ASSUME NEW m \in S PROVE m + 1 \in S
  <2> SUFFICES ASSUME m + 1 <= Len(names) PROVE Ensured(M, f[m + 1], Names(m + 1)) OBVIOUS
  <2>1. m \in Nat /\ m + 1 \in 1 .. Len(names) /\ (m + 1) - 1 = m BY <1>2
  <2>2. Ensured(M, f[m], Names(m)) BY <2>1
  <2>3. f[m + 1] = Ensure(M, f[m], names[m + 1]) BY <2>1, <1>1
  <2>4. Names(m + 1) = Names(m) \cup {names[m + 1]}
    <3>1. \A i \in 1 .. m + 1 : i \in 1 .. m \/ i = m + 1 BY <2>1
    <3>2. \A i \in 1 .. m : i \in 1 .. m + 1 BY <2>1
    <3> QED BY <3>1, <3>2, <2>1
  <2> HIDE DEF Names
  <2> QED BY <2>2, <2>3, <2>4, <1>3, EnsureStep
<1> HIDE DEF S
<1>6. S \in SUBSET Nat BY DEF S
<1>7. S = Nat BY <1>4, <1>5, <1>6, Induction
<1> HIDE DEF Names
<1>8. Len(names) \in S BY <1>2, <1>7
<1>9. Ensured(M, f[Len(names)], Names(Len(names))) BY <1>2, <1>8 DEF S
<1> USE DEF Names
<1>10. Names(Len(names)) = Range(names) BY <1>2
<1> HIDE DEF Names
<1> QED BY <1>1, <1>9, <1>10
-----------------------------------------------------------------------------
(* ONNX files: what has been read.                                         *)

\* How much of each list has been read.
InfosRead == IF part = "meta" THEN k ELSE Len(ValueInfos)
InitsRead ==
    CASE part = "meta" -> 0 [] part = "initializer" -> k [] OTHER -> Len(file.initializer)
OpsRead ==
    CASE part \in {"meta", "initializer"} -> 0 [] part = "node" -> k [] OTHER -> Len(file.node)
InsRead ==
    CASE part = "input" -> k [] part \in {"output", "end"} -> Len(file.input) [] OTHER -> 0
OutsRead ==
    CASE part = "output" -> k [] part = "end" -> Len(file.output) [] OTHER -> 0

OnnxPlace ==
    /\ part \in {"meta", "initializer", "node", "input", "output", "end"}
    /\ phase = "loaded" <=> part = "end"
    /\ k \in Nat
    /\ part = "meta" => k <= Len(ValueInfos)
    /\ part = "initializer" => k <= Len(file.initializer)
    /\ part = "node" => k <= Len(file.node)
    /\ part = "input" => k <= Len(file.input)
    /\ part = "output" => k <= Len(file.output)

\* The names of the first n items of a list, and those that n nodes use.
NamesTo(list, n) == {list[i].name : i \in 1 .. n}
UsedTo(n) == UNION {Touched(file.node[i]) : i \in 1 .. n}
ShapeOf(e) == [dtype |-> e.dtype, shape |-> e.shape]
Described(n) == [name |-> n, dtype |-> EntryOf(n).dtype, shape |-> EntryOf(n).shape,
                 kind |-> KindOf(n)]

\* After v value infos and w initializers, m has the last shape of each name
\* that no initializer has.
MetaTo(m, v, w) ==
    /\ \A i \in 1 .. v :
          ValueInfos[i].dtype \in DTypes /\ Dynamic \notin Range(ValueInfos[i].shape)
    /\ DOMAIN m = NamesTo(ValueInfos, v) \cup NamesTo(file.initializer, w)
    /\ \A n \in NamesTo(ValueInfos, v) \ InitializerNames :
          \E i \in 1 .. v : /\ ValueInfos[i].name = n
                            /\ \A j \in i + 1 .. v : ValueInfos[j].name # n
                            /\ m[n] = ShapeOf(ValueInfos[i])

\* The names in U have tensors.
TensorsOf(T, I, U) ==
    /\ WellNamed(T, I) /\ DOMAIN I = U /\ U \subseteq Declared
    /\ \A i \in 1 .. Len(T) : T[i] = Described(T[i].name)
Ensurable(w, o, i, u) ==
    NamesTo(file.initializer, w) \cup UsedTo(o) \cup NamesTo(file.input, i) \cup NamesTo(file.output, u)

\* After n initializers, each name among them has the payload of its first.
WeightsTo(W, I, n) ==
    /\ \A i \in 1 .. n : file.initializer[i].dtype \in DTypes /\ HasPayload(file.initializer[i])
    /\ DOMAIN W = {I[m] : m \in NamesTo(file.initializer, n)}
    /\ \A m \in NamesTo(file.initializer, n) : W[I[m]] = Payload(EntryOf(m))

\* n nodes, by the ids in I.
NodeBy(I, n, op) ==
    [op |-> op, inputs |-> [x \in DOMAIN n.inputs |-> I[n.inputs[x]]],
     outputs |-> [x \in DOMAIN n.outputs |-> I[n.outputs[x]]], attrs |-> n.attrs]
NodesTo(nodes, I, n) ==
    /\ IsList(nodes) /\ Len(nodes) = n
    /\ \A i \in 1 .. n :
          LET node == file.node[i]
          IN  /\ nodes[i] = NodeBy(I, node, OpFromOnnx(node.op)) /\ Touched(node) \subseteq DOMAIN I
              /\ node.op \in OnnxOps /\ ReadableAttrs(node)

\* The ids in I of a list of names.
IdsBy(I, ids, names) ==
    /\ IsList(ids) /\ IsList(names) /\ Len(ids) = Len(names)
    /\ \A i \in 1 .. Len(names) : names[i] \in DOMAIN I /\ ids[i] = I[names[i]]
InsTo(ids, I, n) ==
    /\ IdsBy(I, ids, Announced[n])
    /\ Range(Announced[n]) = NamesTo(file.input, n) \ InitializerNames
OutsTo(ids, I, n) ==
    /\ IsList(ids) /\ Len(ids) = n
    /\ \A i \in 1 .. n : file.output[i].name \in DOMAIN I /\ ids[i] = I[file.output[i].name]

OnnxRead ==
    /\ OnnxPlace /\ IsGraphRecord
    /\ MetaTo(meta, InfosRead, InitsRead)
    /\ TensorsOf(graph.tensors, idOf, Ensurable(InitsRead, OpsRead, InsRead, OutsRead))
    /\ WeightsTo(weights, idOf, InitsRead)
    /\ NodesTo(graph.nodes, idOf, OpsRead)
    /\ InsTo(graph.inputs, idOf, InsRead)
    /\ OutsTo(graph.outputs, idOf, OutsRead)

OnnxInv ==
    /\ file \in Files /\ file.format = "onnx"
    /\ phase \in {"loading", "loaded", "threw", "aborted"}
    /\ phase \in {"loading", "loaded"} => OnnxRead
    /\ phase = "threw" => ~OnnxSupported
    /\ phase = "aborted" => debug /\ "i8" \in WeightTypes

\* Two lists, one after the other.
LEMMA ListConcat ==
  ASSUME NEW K, NEW L, IsList(K), IsList(L)
  PROVE  IsList(K \o L) /\ Range(K \o L) = Range(K) \cup Range(L)
<1>1. K \in Seq(Range(K)) /\ L \in Seq(Range(L)) BY DEF IsList
<1> DEFINE S == Range(K) \cup Range(L)
<1>2. K \in Seq(S) /\ L \in Seq(S) BY <1>1
<1>3. /\ K \o L \in Seq(S) /\ Len(K \o L) = Len(K) + Len(L)
      /\ \A i \in 1 .. Len(K) + Len(L) :
            (K \o L)[i] = IF i <= Len(K) THEN K[i] ELSE L[i - Len(K)]
  <2> HIDE DEF S
  <2> QED BY <1>2
<1>4. IsList(K \o L) BY <1>3, ListOfSeq
<1>5. /\ Len(K) \in Nat /\ Range(K) = {K[i] : i \in 1 .. Len(K)}
      /\ Len(L) \in Nat /\ Range(L) = {L[i] : i \in 1 .. Len(L)}
      /\ Range(K \o L) = {(K \o L)[i] : i \in 1 .. Len(K \o L)}
  BY <1>4, ListItems
<1> DEFINE C == K \o L
<1> HIDE DEF C, S
<1>6. /\ Len(C) = Len(K) + Len(L)
      /\ \A i \in 1 .. Len(K) + Len(L) : C[i] = IF i <= Len(K) THEN K[i] ELSE L[i - Len(K)]
      /\ Range(C) = {C[i] : i \in 1 .. Len(C)}
  BY <1>3, <1>5 DEF C
<1>7. ASSUME NEW i \in 1 .. Len(C) PROVE C[i] \in Range(K) \cup Range(L)
  <2>1. CASE i <= Len(K)
    <3>1. i \in 1 .. Len(K) /\ C[i] = K[i] BY <2>1, <1>5, <1>6
    <3> QED BY <3>1, <1>5
  <2>2. CASE ~(i <= Len(K))
    <3>1. i - Len(K) \in 1 .. Len(L) /\ C[i] = L[i - Len(K)] BY <2>2, <1>5, <1>6
    <3> QED BY <3>1, <1>5
  <2> QED BY <2>1, <2>2
<1>8. ASSUME NEW i \in 1 .. Len(K) PROVE K[i] \in Range(C)
  <2>1. i \in 1 .. Len(C) /\ C[i] = K[i] BY <1>5, <1>6
  <2> QED BY <2>1, <1>6
<1>9. ASSUME NEW i \in 1 .. Len(L) PROVE L[i] \in Range(C)
  <2>1. Len(K) + i \in 1 .. Len(C) /\ C[Len(K) + i] = L[i] BY <1>5, <1>6
  <2> QED BY <2>1, <1>6
<1>10. Range(C) = Range(K) \cup Range(L) BY <1>5, <1>6, <1>7, <1>8, <1>9
<1> QED BY <1>4, <1>10 DEF C

\* What the parser returns.
LEMMA OnnxFile ==
  ASSUME file \in Files, file.format = "onnx"
  PROVE  /\ IsList(file.input) /\ IsList(file.output) /\ IsList(file.value_info)
         /\ IsList(file.initializer) /\ IsList(file.node) /\ IsList(ValueInfos)
         /\ \A n \in Range(file.node) :
               n \in [op : STRING, inputs : Seq(STRING), outputs : Seq(STRING), attrs : {n.attrs}]
         /\ NamesIn(file.input) \cup NamesIn(file.output) \subseteq NamesIn(ValueInfos)
<1>1. "json" # "onnx" OBVIOUS
<1>2. /\ IsList(file.input) /\ IsList(file.output) /\ IsList(file.value_info)
      /\ IsList(file.initializer) /\ IsNodeList(file.node)
  BY <1>1, FilesAssumption
<1>3. /\ IsList(file.input \o file.output)
      /\ Range(file.input \o file.output) = Range(file.input) \cup Range(file.output)
  BY <1>2, ListConcat
<1>4. /\ IsList(ValueInfos)
      /\ Range(ValueInfos) = Range(file.input \o file.output) \cup Range(file.value_info)
  BY <1>2, <1>3, ListConcat DEF ValueInfos
<1>5. NamesIn(file.input) \cup NamesIn(file.output) \subseteq NamesIn(ValueInfos)
  BY <1>3, <1>4 DEF NamesIn
<1> QED BY <1>2, <1>4, <1>5 DEF IsNodeList

\* All the names of a list.
LEMMA NamesToAll ==
  ASSUME NEW list, IsList(list)
  PROVE  NamesTo(list, Len(list)) = NamesIn(list)
BY ListItems DEF NamesTo, NamesIn

\* The first n names are names of the list.
LEMMA NamesToSome ==
  ASSUME NEW list, IsList(list), NEW n \in Nat, n <= Len(list)
  PROVE  NamesTo(list, n) \subseteq NamesIn(list)
<1>1. Len(list) \in Nat /\ Range(list) = {list[i] : i \in 1 .. Len(list)} BY ListItems
<1>2. \A i \in 1 .. n : i \in 1 .. Len(list) BY <1>1
<1> QED BY <1>1, <1>2 DEF NamesTo, NamesIn

\* One item more is one name more.
LEMMA NamesToNext ==
  ASSUME NEW list, NEW n \in Nat
  PROVE  NamesTo(list, n + 1) = NamesTo(list, n) \cup {list[n + 1].name}
<1>1. \A i \in 1 .. n + 1 : i \in 1 .. n \/ i = n + 1 OBVIOUS
<1>2. n + 1 \in 1 .. n + 1 /\ \A i \in 1 .. n : i \in 1 .. n + 1 OBVIOUS
<1> QED BY <1>1, <1>2 DEF NamesTo

\* One node more uses the names it touches.
LEMMA UsedToNext ==
  ASSUME NEW n \in Nat
  PROVE  UsedTo(n + 1) = UsedTo(n) \cup Touched(file.node[n + 1])
<1>1. \A i \in 1 .. n + 1 : i \in 1 .. n \/ i = n + 1 OBVIOUS
<1>2. n + 1 \in 1 .. n + 1 /\ \A i \in 1 .. n : i \in 1 .. n + 1 OBVIOUS
<1> HIDE DEF Touched
<1> QED BY <1>1, <1>2 DEF UsedTo

\* No item, no name.
LEMMA NothingTo == UsedTo(0) = {} /\ \A list : NamesTo(list, 0) = {}
BY DEF UsedTo, NamesTo

\* An entry that no earlier one has the name of is the first for its name.
LEMMA FirstIs ==
  ASSUME NEW list, IsList(list), NEW i \in 1 .. Len(list),
         \A j \in 1 .. i - 1 : list[j].name # list[i].name
  PROVE  FirstOf(list, list[i].name) = list[i]
<1> DEFINE n == list[i].name
           P(x) == list[x].name = n /\ \A j \in 1 .. x - 1 : list[j].name # n
           c == CHOOSE x \in DOMAIN list : P(x)
<1>1. Len(list) \in Nat /\ DOMAIN list = 1 .. Len(list) BY ListItems
<1>2. i \in DOMAIN list /\ P(i) BY <1>1
<1>3. c \in DOMAIN list /\ P(c) BY <1>2
<1> HIDE DEF c
<1>4. c = i
  <2>1. c \in 1 .. Len(list) BY <1>1, <1>3
  <2>2. ~(c < i)
    <3> SUFFICES ASSUME c < i PROVE FALSE OBVIOUS
    <3>1. c \in 1 .. i - 1 BY <2>1, <1>1
    <3> QED BY <3>1, <1>3
  <2>3. ~(i < c)
    <3> SUFFICES ASSUME i < c PROVE FALSE OBVIOUS
    <3>1. i \in 1 .. c - 1 BY <2>1, <1>1
    <3> QED BY <3>1, <1>3
  <2> QED BY <2>1, <2>2, <2>3, <1>1
<1>5. FirstOf(list, n) = list[c] BY DEF FirstOf, c
<1> QED BY <1>4, <1>5

\* An entry that no later one has the name of is the last for its name.
LEMMA LastIs ==
  ASSUME NEW list, IsList(list), NEW i \in 1 .. Len(list),
         \A j \in i + 1 .. Len(list) : list[j].name # list[i].name
  PROVE  LastOf(list, list[i].name) = list[i]
<1> DEFINE n == list[i].name
           P(x) == list[x].name = n /\ \A j \in x + 1 .. Len(list) : list[j].name # n
           c == CHOOSE x \in DOMAIN list : P(x)
<1>1. Len(list) \in Nat /\ DOMAIN list = 1 .. Len(list) BY ListItems
<1>2. i \in DOMAIN list /\ P(i) BY <1>1
<1>3. c \in DOMAIN list /\ P(c) BY <1>2
<1> HIDE DEF c
<1>4. c = i
  <2>1. c \in 1 .. Len(list) BY <1>1, <1>3
  <2>2. ~(i < c)
    <3> SUFFICES ASSUME i < c PROVE FALSE OBVIOUS
    <3>1. c \in i + 1 .. Len(list) BY <2>1, <1>1
    <3> QED BY <3>1, <1>3
  <2>3. ~(c < i)
    <3> SUFFICES ASSUME c < i PROVE FALSE OBVIOUS
    <3>1. i \in c + 1 .. Len(list) BY <2>1, <1>1
    <3> QED BY <3>1, <1>3
  <2> QED BY <2>1, <2>2, <2>3, <1>1
<1>5. LastOf(list, n) = list[c] BY DEF LastOf, c
<1> QED BY <1>4, <1>5
-----------------------------------------------------------------------------
(* ONNX files: one item more.                                              *)

\* One more shape is recorded.
LEMMA MetaNext ==
  ASSUME IsList(ValueInfos), NEW m, NEW v \in Nat, v < Len(ValueInfos), MetaTo(m, v, 0),
         ValueInfos[v + 1].dtype \in DTypes, Dynamic \notin Range(ValueInfos[v + 1].shape)
  PROVE  MetaTo(With(m, ValueInfos[v + 1].name, ShapeOf(ValueInfos[v + 1])), v + 1, 0)
<1> DEFINE L == ValueInfos
           e == L[v + 1]
           M == With(m, e.name, ShapeOf(e))
<1> HIDE DEF L
<1>1. \A i \in 1 .. v + 1 : i \in 1 .. v \/ i = v + 1 OBVIOUS
<1>2. /\ \A i \in 1 .. v : L[i].dtype \in DTypes /\ Dynamic \notin Range(L[i].shape)
      /\ DOMAIN m = NamesTo(L, v) \cup NamesTo(file.initializer, 0)
      /\ \A n \in NamesTo(L, v) \ InitializerNames :
            \E i \in 1 .. v : /\ L[i].name = n
                              /\ \A j \in i + 1 .. v : L[j].name # n
                              /\ m[n] = ShapeOf(L[i])
      /\ e.dtype \in DTypes /\ Dynamic \notin Range(e.shape)
  BY DEF MetaTo, L
<1>3. /\ DOMAIN M = DOMAIN m \cup {e.name} /\ M[e.name] = ShapeOf(e)
      /\ \A n \in DOMAIN m : n # e.name => M[n] = m[n]
  BY DEF With
<1> HIDE DEF M
<1>4. NamesTo(L, v + 1) = NamesTo(L, v) \cup {e.name} BY NamesToNext
<1>5. ASSUME NEW n \in NamesTo(L, v + 1) \ InitializerNames
      PROVE  \E i \in 1 .. v + 1 : /\ L[i].name = n
                                   /\ \A j \in i + 1 .. v + 1 : L[j].name # n
                                   /\ M[n] = ShapeOf(L[i])
  <2>1. CASE n = e.name
    <3>1. v + 1 \in 1 .. v + 1 /\ (v + 1) + 1 .. v + 1 = {} OBVIOUS
    <3>2. L[v + 1].name = n /\ M[n] = ShapeOf(L[v + 1]) BY <2>1, <1>3
    <3> QED BY <3>1, <3>2
  <2>2. CASE n # e.name
    <3>1. n \in NamesTo(L, v) \ InitializerNames BY <2>2, <1>4
    <3>2. PICK i \in 1 .. v : /\ L[i].name = n
                              /\ \A j \in i + 1 .. v : L[j].name # n
                              /\ m[n] = ShapeOf(L[i])
      BY <3>1, <1>2
    <3>3. \A j \in i + 1 .. v + 1 : j \in i + 1 .. v \/ j = v + 1 OBVIOUS
    <3>4. M[n] = m[n] BY <2>2, <3>1, <1>2, <1>3
    <3>5. i \in 1 .. v + 1 OBVIOUS
    <3>6. \A j \in i + 1 .. v + 1 : L[j].name # n BY <3>2, <3>3, <2>2
    <3> QED BY <3>2, <3>4, <3>5, <3>6
  <2> QED BY <2>1, <2>2
<1>6. \A i \in 1 .. v + 1 : L[i].dtype \in DTypes /\ Dynamic \notin Range(L[i].shape)
  BY <1>1, <1>2
<1>7. DOMAIN M = NamesTo(L, v + 1) \cup NamesTo(file.initializer, 0) BY <1>2, <1>3, <1>4
<1>8. MetaTo(M, v + 1, 0) BY <1>5, <1>6, <1>7 DEF MetaTo, L
<1> QED BY <1>8 DEF M, L

\* An initializer hides what is recorded for its name, and nothing else.
LEMMA MetaInitializer ==
  ASSUME NEW m, NEW v \in Nat, NEW w \in Nat, IsList(file.initializer),
         w < Len(file.initializer), MetaTo(m, v, w)
  PROVE  LET t == file.initializer[w + 1] IN MetaTo(With(m, t.name, ShapeOf(t)), v, w + 1)
<1> DEFINE t == file.initializer[w + 1]
           M == With(m, t.name, ShapeOf(t))
<1>1. t.name \in InitializerNames
  <2>1. w + 1 \in 1 .. Len(file.initializer) BY ListItems
  <2> QED BY <2>1, ListItems DEF InitializerNames, NamesIn
<1>2. NamesTo(file.initializer, w + 1) = NamesTo(file.initializer, w) \cup {t.name}
  BY NamesToNext
<1>3. DOMAIN M = DOMAIN m \cup {t.name} /\ \A n \in DOMAIN m : n # t.name => M[n] = m[n]
  BY DEF With
<1> HIDE DEF M, t
<1>4. MetaTo(M, v, w + 1)
  <2>1. DOMAIN M = NamesTo(ValueInfos, v) \cup NamesTo(file.initializer, w + 1)
    BY <1>2, <1>3 DEF MetaTo
  <2>2. \A n \in NamesTo(ValueInfos, v) \ InitializerNames : M[n] = m[n] BY <1>1, <1>3 DEF MetaTo
  <2> QED BY <2>1, <2>2 DEF MetaTo
<1> QED BY <1>4 DEF M, t

\* What is recorded in the end is the entry that counts.
LEMMA MetaOf ==
  ASSUME IsList(ValueInfos), NEW m, NEW w, MetaTo(m, Len(ValueInfos), w),
         NEW n \in NamesIn(ValueInfos), n \notin InitializerNames
  PROVE  m[n] = ShapeOf(EntryOf(n))
<1>1. n \in NamesTo(ValueInfos, Len(ValueInfos)) BY NamesToAll
<1>2. PICK i \in 1 .. Len(ValueInfos) :
         /\ ValueInfos[i].name = n
         /\ \A j \in i + 1 .. Len(ValueInfos) : ValueInfos[j].name # n
         /\ m[n] = ShapeOf(ValueInfos[i])
  BY <1>1 DEF MetaTo
<1>3. LastOf(ValueInfos, n) = ValueInfos[i] BY <1>2, LastIs
<1> QED BY <1>2, <1>3 DEF EntryOf

\* Tensors for the names of one item more.
LEMMA TensorsNext ==
  ASSUME NEW U, TensorsOf(graph.tensors, idOf, U), NEW M, NEW names, IsList(names),
         EnsureAll(M, names).ok,
         \A n \in Range(names) \ U : n \in Declared /\ M[n] = ShapeOf(EntryOf(n))
  PROVE  TensorsOf(EnsureAll(M, names).tensors, EnsureAll(M, names).idOf, U \cup Range(names))
<1> DEFINE S == EnsureAll(M, names)
<1>1. WellNamed(graph.tensors, idOf) /\ DOMAIN idOf = U /\ U \subseteq Declared
      /\ \A i \in 1 .. Len(graph.tensors) : graph.tensors[i] = Described(graph.tensors[i].name)
  BY DEF TensorsOf
<1>2. Ensured(M, S, Range(names)) BY <1>1, EnsureAllResult
<1>3. S.ok OBVIOUS
<1> HIDE DEF S
<1>4. /\ WellNamed(S.tensors, S.idOf)
      /\ DOMAIN S.idOf = DOMAIN idOf \cup Range(names)
      /\ \A n \in DOMAIN idOf : S.idOf[n] = idOf[n]
      /\ Len(graph.tensors) <= Len(S.tensors)
      /\ \A i \in 1 .. Len(graph.tensors) : S.tensors[i] = graph.tensors[i]
      /\ \A i \in Len(graph.tensors) + 1 .. Len(S.tensors) :
            LET n == S.tensors[i].name
            IN  n \in DOMAIN M \ DOMAIN idOf /\ S.tensors[i] = Fresh(M, n)
  BY <1>2, <1>3 DEF Ensured
<1>5. Len(graph.tensors) \in Nat /\ Len(S.tensors) \in Nat
  BY <1>1, <1>4, ListItems DEF WellNamed
<1>6. ASSUME NEW i \in 1 .. Len(S.tensors) PROVE S.tensors[i] = Described(S.tensors[i].name)
  <2>1. CASE i \in 1 .. Len(graph.tensors)
    <3>1. S.tensors[i] = graph.tensors[i] BY <2>1, <1>4
    <3>2. graph.tensors[i] = Described(graph.tensors[i].name) BY <2>1, <1>1
    <3> QED BY <3>1, <3>2
  <2>2. CASE i \notin 1 .. Len(graph.tensors)
    <3> DEFINE n == S.tensors[i].name
    <3>1. i \in Len(graph.tensors) + 1 .. Len(S.tensors) BY <2>2, <1>5
    <3>2. n \notin DOMAIN idOf /\ S.tensors[i] = Fresh(M, n) BY <3>1, <1>4
    <3>3. n \in DOMAIN S.idOf BY <1>4 DEF WellNamed
    <3> HIDE DEF n
    <3>4. n \in Range(names) \ U BY <3>2, <3>3, <1>1, <1>4
    <3>5. M[n] = ShapeOf(EntryOf(n)) BY <3>4
    <3>6. M[n].dtype = EntryOf(n).dtype /\ M[n].shape = EntryOf(n).shape BY <3>5 DEF ShapeOf
    <3>7. Fresh(M, n) = Described(n) BY <3>6 DEF Fresh, Described
    <3> QED BY <3>2, <3>7 DEF n
  <2> QED BY <2>1, <2>2
<1>7. U \cup Range(names) \subseteq Declared BY <1>1
<1>8. TensorsOf(S.tensors, S.idOf, U \cup Range(names)) BY <1>1, <1>4, <1>6, <1>7 DEF TensorsOf
<1> QED BY <1>8 DEF S

\* No id changes.
LEMMA IdsStay ==
  ASSUME WellNamed(graph.tensors, idOf), NEW M, NEW names, IsList(names), EnsureAll(M, names).ok
  PROVE  \A n \in DOMAIN idOf : EnsureAll(M, names).idOf[n] = idOf[n]
BY EnsureAllResult DEF Ensured

\* All names can be ensured if all are declared.
LEMMA EnsuredIff ==
  ASSUME WellNamed(graph.tensors, idOf), NEW M, NEW names, IsList(names)
  PROVE  EnsureAll(M, names).ok <=> Range(names) \subseteq DOMAIN idOf \cup DOMAIN M
BY EnsureAllResult DEF Ensured

\* An initializer is the entry of its name when none before it has that name.
LEMMA FirstInitializer ==
  ASSUME IsList(file.initializer), NEW n \in Nat, n < Len(file.initializer),
         NEW t, t = file.initializer[n + 1], t.name \notin NamesTo(file.initializer, n)
  PROVE  EntryOf(t.name) = t
<1>1. n + 1 \in 1 .. Len(file.initializer) /\ (n + 1) - 1 = n BY ListItems
<1>2. \A j \in 1 .. n : file.initializer[j].name # t.name BY DEF NamesTo
<1>3. FirstOf(file.initializer, file.initializer[n + 1].name) = file.initializer[n + 1]
  BY <1>1, <1>2, FirstIs
<1>4. t.name \in InitializerNames BY <1>1, ListItems DEF InitializerNames, NamesIn
<1> QED BY <1>3, <1>4 DEF EntryOf

\* The weight of one initializer more: it counts when it is the first of its name.
LEMMA WeightsNext ==
  ASSUME IsList(file.initializer), NEW n \in Nat, n < Len(file.initializer),
         NEW W, NEW I, NEW J, NEW T, WeightsTo(W, I, n), WellNamed(T, J),
         DOMAIN I = NamesTo(file.initializer, n), NEW t, t = file.initializer[n + 1],
         DOMAIN J = DOMAIN I \cup {t.name}, \A m \in DOMAIN I : J[m] = I[m],
         t.dtype \in DTypes, HasPayload(t)
  PROVE  WeightsTo(IF J[t.name] \in DOMAIN W THEN W ELSE With(W, J[t.name], Payload(t)), J, n + 1)
<1> DEFINE a == t.name
           V == IF J[a] \in DOMAIN W THEN W ELSE With(W, J[a], Payload(t))
           P == Payload(t)
<1>1. \A i \in 1 .. n + 1 : i \in 1 .. n \/ i = n + 1 OBVIOUS
<1>2. \A i \in 1 .. n + 1 : file.initializer[i].dtype \in DTypes /\ HasPayload(file.initializer[i])
  BY <1>1 DEF WeightsTo
<1>3. NamesTo(file.initializer, n + 1) = DOMAIN J BY NamesToNext
<1>4. /\ DOMAIN W = {I[m] : m \in DOMAIN I}
      /\ \A m \in DOMAIN I : W[I[m]] = Payload(EntryOf(m))
  BY DEF WeightsTo
<1>5. CASE a \in DOMAIN I
  <2>1. J[a] \in DOMAIN W /\ DOMAIN J = DOMAIN I BY <1>4, <1>5
  <2>2. WeightsTo(W, J, n + 1) BY <1>2, <1>3, <1>4, <2>1 DEF WeightsTo
  <2> QED BY <2>1, <2>2
<1>6. CASE a \notin DOMAIN I
  <2>1. EntryOf(a) = t BY <1>6, FirstInitializer
  <2>2. \A m \in DOMAIN I : J[m] # J[a]
    <3>1. \A m \in DOMAIN J : J[m] \in 0 .. Len(T) - 1 /\ T[J[m] + 1].name = m BY NameOfItsId
    <3> QED BY <3>1, <1>6
  <2>3. J[a] \notin DOMAIN W BY <1>4, <2>2
  <2>4. /\ DOMAIN V = DOMAIN W \cup {J[a]} /\ V[J[a]] = P
        /\ \A x \in DOMAIN W : V[x] = W[x]
    BY <2>3 DEF With
  <2> HIDE DEF V, P, a
  <2>5. DOMAIN V = {J[m] : m \in DOMAIN J} BY <2>4, <1>4 DEF a
  <2>6. \A m \in DOMAIN J : V[J[m]] = Payload(EntryOf(m))
    <3> TAKE m \in DOMAIN J
    <3>1. CASE m = a BY <3>1, <2>1, <2>4 DEF P
    <3>2. CASE m # a
      <4>1. m \in DOMAIN I BY <3>2 DEF a
      <4>2. J[m] = I[m] /\ I[m] \in DOMAIN W BY <4>1, <1>4
      <4> QED BY <4>1, <4>2, <2>4, <1>4
    <3> QED BY <3>1, <3>2
  <2>7. WeightsTo(V, J, n + 1) BY <1>2, <1>3, <2>5, <2>6 DEF WeightsTo
  <2> QED BY <2>7 DEF V, P, a
<1> QED BY <1>5, <1>6

\* What has been built holds on when there are ids for more names.
LEMMA NodesStay ==
  ASSUME NEW nodes, NEW I, NEW J, NEW n, NodesTo(nodes, I, n),
         DOMAIN I \subseteq DOMAIN J, \A m \in DOMAIN I : J[m] = I[m]
  PROVE  NodesTo(nodes, J, n)
<1> SUFFICES ASSUME NEW i \in 1 .. n
             PROVE  LET node == file.node[i]
                    IN  /\ nodes[i] = NodeBy(J, node, OpFromOnnx(node.op))
                        /\ Touched(node) \subseteq DOMAIN J
  BY DEF NodesTo
<1> DEFINE node == file.node[i]
<1>1. nodes[i] = NodeBy(I, node, OpFromOnnx(node.op)) /\ Touched(node) \subseteq DOMAIN I
  BY DEF NodesTo
<1>2. /\ \A x \in DOMAIN node.inputs : J[node.inputs[x]] = I[node.inputs[x]]
      /\ \A x \in DOMAIN node.outputs : J[node.outputs[x]] = I[node.outputs[x]]
  BY <1>1 DEF Touched, Range
<1>3. NodeBy(J, node, OpFromOnnx(node.op)) = NodeBy(I, node, OpFromOnnx(node.op))
  BY <1>2 DEF NodeBy
<1> QED BY <1>1, <1>3

\* So do the inputs.
LEMMA InsStay ==
  ASSUME NEW ids, NEW I, NEW J, NEW n, InsTo(ids, I, n),
         DOMAIN I \subseteq DOMAIN J, \A m \in DOMAIN I : J[m] = I[m]
  PROVE  InsTo(ids, J, n)
BY DEF InsTo, IdsBy

\* So do the outputs.
LEMMA OutsStay ==
  ASSUME NEW ids, NEW I, NEW J, NEW n, OutsTo(ids, I, n),
         DOMAIN I \subseteq DOMAIN J, \A m \in DOMAIN I : J[m] = I[m]
  PROVE  OutsTo(ids, J, n)
BY DEF OutsTo

\* So do the weights.
LEMMA WeightsStay ==
  ASSUME NEW W, NEW I, NEW J, NEW n, WeightsTo(W, I, n),
         NamesTo(file.initializer, n) \subseteq DOMAIN I, \A m \in DOMAIN I : J[m] = I[m]
  PROVE  WeightsTo(W, J, n)
BY DEF WeightsTo
-----------------------------------------------------------------------------
(* ONNX files: the steps.                                                  *)

\* What a file means does not change while it is read.
LEMMA OnnxFixed ==
  ASSUME file' = file
  PROVE  /\ OnnxSupported' = OnnxSupported /\ WeightTypes' = WeightTypes
         /\ ValueInfos' = ValueInfos /\ InitializerNames' = InitializerNames
         /\ Declared' = Declared /\ Announced' = Announced
         /\ \A n : EntryOf(n)' = EntryOf(n)
         /\ \A n : KindOf(n)' = KindOf(n)
<1>1. OnnxSupported' = OnnxSupported
  BY DEF OnnxSupported, Mentioned, Declared, ValueInfos, InitializerNames, NamesIn, HasPayload,
         ReadableAttrs
<1>2. WeightTypes' = WeightTypes BY DEF WeightTypes, FromOnnx
<1>3. ValueInfos' = ValueInfos BY DEF ValueInfos
<1>4. InitializerNames' = InitializerNames BY DEF InitializerNames, NamesIn
<1>5. Declared' = Declared BY <1>3, <1>4 DEF Declared, NamesIn
<1>6. Announced' = Announced BY DEF Announced, InitializerNames, NamesIn
<1>7. \A n : EntryOf(n)' = EntryOf(n)
  BY DEF EntryOf, FirstOf, LastOf, InitializerNames, NamesIn, ValueInfos
<1>8. \A n : KindOf(n)' = KindOf(n) BY DEF KindOf, InputNames, InitializerNames, NamesIn
<1> QED BY <1>1, <1>2, <1>3, <1>4, <1>5, <1>6, <1>7, <1>8

\* Nor does what the file describes.
LEMMA OnnxMeansFixed == ASSUME file' = file PROVE OnnxMeans' = OnnxMeans
<1>1. Mentioned' = Mentioned BY DEF Mentioned, InitializerNames, NamesIn
<1>2. /\ InitializerNames' = InitializerNames /\ Announced' = Announced
      /\ \A n : EntryOf(n)' = EntryOf(n)
      /\ \A n : KindOf(n)' = KindOf(n)
  BY OnnxFixed
<1>3. Announced'[Len(file'.input)] = Announced[Len(file.input)] BY <1>2
<1>4. OnnxMeans.tensors' = OnnxMeans.tensors BY <1>1, <1>2 DEF OnnxMeans
<1>5. {<<n, Payload(EntryOf(n))>> : n \in InitializerNames}'
        = {<<n, Payload(EntryOf(n))>> : n \in InitializerNames}
  BY <1>2 DEF Payload
<1> QED BY <1>1, <1>3, <1>4, <1>5 DEF OnnxMeans

\* The invariant after a step that leaves the file alone, part by part.
LEMMA OnnxReadNext ==
  ASSUME file' = file, OnnxPlace', IsGraphRecord', MetaTo(meta', InfosRead', InitsRead'),
         TensorsOf(graph'.tensors, idOf', Ensurable(InitsRead', OpsRead', InsRead', OutsRead')),
         WeightsTo(weights', idOf', InitsRead'), NodesTo(graph'.nodes, idOf', OpsRead'),
         InsTo(graph'.inputs, idOf', InsRead'), OutsTo(graph'.outputs, idOf', OutsRead')
  PROVE  OnnxRead'
<1>1. /\ ValueInfos' = ValueInfos /\ InitializerNames' = InitializerNames
      /\ Declared' = Declared /\ Announced' = Announced
      /\ \A n : EntryOf(n)' = EntryOf(n)
      /\ \A n : KindOf(n)' = KindOf(n)
  BY OnnxFixed
<1>2. MetaTo(meta, InfosRead, InitsRead)' BY <1>1 DEF MetaTo
<1>3. TensorsOf(graph.tensors, idOf, Ensurable(InitsRead, OpsRead, InsRead, OutsRead))'
  BY <1>1 DEF TensorsOf, Ensurable, UsedTo, Described
<1>4. WeightsTo(weights, idOf, InitsRead)' BY <1>1 DEF WeightsTo, Payload, HasPayload
<1>5. NodesTo(graph.nodes, idOf, OpsRead)' BY DEF NodesTo, ReadableAttrs
<1>6. InsTo(graph.inputs, idOf, InsRead)' BY <1>1 DEF InsTo
<1>7. OutsTo(graph.outputs, idOf, OutsRead)' BY DEF OutsTo
<1> QED BY <1>2, <1>3, <1>4, <1>5, <1>6, <1>7 DEF OnnxRead

\* Before the first item.
LEMMA OnnxInit == FrontendInit /\ file.format = "onnx" => OnnxInv
<1> SUFFICES ASSUME FrontendInit, file.format = "onnx" PROVE OnnxInv OBVIOUS
<1>1. /\ file \in Files /\ phase = "loading" /\ part = "meta" /\ k = 0
      /\ graph = [tensors |-> <<>>, nodes |-> <<>>, inputs |-> <<>>, outputs |-> <<>>]
      /\ idOf = <<>> /\ weights = <<>> /\ meta = <<>>
  BY DEF FrontendInit, LoadInit, FirstPart
<1>2. IsList(ValueInfos) /\ IsList(file.input) BY <1>1, OnnxFile
<1>3. Len(ValueInfos) \in Nat /\ Len(file.input) \in Nat BY <1>2, ListItems
<1>4. OnnxPlace BY <1>1, <1>3 DEF OnnxPlace
<1>5. InfosRead = 0 /\ InitsRead = 0 /\ OpsRead = 0 /\ InsRead = 0 /\ OutsRead = 0
  BY <1>1 DEF InfosRead, InitsRead, OpsRead, InsRead, OutsRead
<1>6. IsGraphRecord BY <1>1 DEF IsGraphRecord
<1>7. MetaTo(meta, 0, 0) BY <1>1, NothingTo DEF MetaTo
<1>8. Ensurable(0, 0, 0, 0) = {} BY NothingTo DEF Ensurable
<1>9. TensorsOf(graph.tensors, idOf, {}) BY <1>1, NothingNamed, EmptyList DEF TensorsOf
<1>10. WeightsTo(weights, idOf, 0) BY <1>1, NothingTo DEF WeightsTo
<1>11. NodesTo(graph.nodes, idOf, 0) BY <1>1, EmptyList DEF NodesTo
<1>12. InsTo(graph.inputs, idOf, 0)
  <2>1. Announced[0] = <<>> BY <1>3, AnnouncedSteps
  <2>2. Range(<<>>) = {} BY EmptyList, ListItems
  <2> QED BY <1>1, <2>1, <2>2, EmptyList, NothingTo DEF InsTo, IdsBy
<1>13. OutsTo(graph.outputs, idOf, 0) BY <1>1, EmptyList DEF OutsTo
<1> QED BY <1>1, <1>4, <1>5, <1>6, <1>7, <1>8, <1>9, <1>10, <1>11, <1>12, <1>13
     DEF OnnxInv, OnnxRead

\* An item that is refused.
LEMMA OnnxThrow ==
  ASSUME OnnxInv, Throw, ~OnnxSupported
  PROVE  OnnxInv'
BY OnnxFixed DEF OnnxInv, Throw

\* The end of a list.
LEMMA OnnxEndKeeps ==
  ASSUME OnnxInv,
         \/ EndOf("meta", ValueInfos, "initializer")
         \/ EndOf("initializer", file.initializer, "node") \/ EndOf("node", file.node, "input")
         \/ EndOf("input", file.input, "output") \/ EndOf("output", file.output, "end")
  PROVE  OnnxInv'
<1>1. /\ phase = "loading" /\ UNCHANGED <<file, debug, graph, idOf, weights, meta>> /\ k' = 0
      /\ phase' = IF part' = "end" THEN "loaded" ELSE phase
  BY DEF EndOf
<1>2. OnnxRead BY <1>1 DEF OnnxInv
<1>3. ValueInfos' = ValueInfos BY <1>1, OnnxFixed
<1>4. /\ Len(ValueInfos) \in Nat /\ Len(file.initializer) \in Nat /\ Len(file.node) \in Nat
      /\ Len(file.input) \in Nat /\ Len(file.output) \in Nat
  BY OnnxFile, ListItems DEF OnnxInv
<1>5. /\ InfosRead' = InfosRead /\ InitsRead' = InitsRead /\ OpsRead' = OpsRead
      /\ InsRead' = InsRead /\ OutsRead' = OutsRead
  BY <1>1, <1>3 DEF EndOf, InfosRead, InitsRead, OpsRead, InsRead, OutsRead
<1>6. OnnxPlace' BY <1>1, <1>4 DEF EndOf, OnnxPlace
<1>7. IsGraphRecord' BY <1>1, <1>2 DEF OnnxRead, IsGraphRecord
<1>8. OnnxRead' BY <1>1, <1>2, <1>5, <1>6, <1>7, OnnxReadNext DEF OnnxRead
<1>9. phase' \in {"loading", "loaded"} BY <1>1
<1> QED BY <1>1, <1>8, <1>9 DEF OnnxInv

\* A value info is recorded, or refused for itself.
LEMMA OnnxRecordKeeps == OnnxInv /\ OnnxRecord => OnnxInv'
<1> SUFFICES ASSUME OnnxInv, OnnxRecord PROVE OnnxInv' OBVIOUS
<1> DEFINE v == ValueInfos[k + 1]
<1>1. phase = "loading" /\ part = "meta" /\ k < Len(ValueInfos) BY DEF OnnxRecord, Reading
<1>2. OnnxRead /\ IsList(ValueInfos) BY <1>1, OnnxFile DEF OnnxInv
<1>3. k \in Nat /\ Len(ValueInfos) \in Nat BY <1>2, ListItems DEF OnnxRead, OnnxPlace
<1>4. v \in Range(ValueInfos)
  <2>1. k + 1 \in 1 .. Len(ValueInfos) BY <1>1, <1>3
  <2> QED BY <2>1, <1>2, ListItems
<1>5. CASE v.dtype \notin DTypes \/ Dynamic \in Range(v.shape)
  <2>1. Throw BY <1>5 DEF OnnxRecord
  <2>2. ~OnnxSupported BY <1>4, <1>5 DEF OnnxSupported
  <2> QED BY <2>1, <2>2, OnnxThrow
<1>6. CASE v.dtype \in DTypes /\ Dynamic \notin Range(v.shape)
  <2>1. /\ meta' = With(meta, v.name, ShapeOf(v)) /\ k' = k + 1
        /\ UNCHANGED <<file, debug, phase, part, graph, idOf, weights>>
    BY <1>6 DEF OnnxRecord, ShapeOf
  <2>2. /\ InfosRead = k /\ InitsRead = 0 /\ InfosRead' = k + 1 /\ InitsRead' = 0
        /\ OpsRead' = OpsRead /\ InsRead' = InsRead /\ OutsRead' = OutsRead
    BY <2>1, <1>1 DEF InfosRead, InitsRead, OpsRead, InsRead, OutsRead
  <2>3. MetaTo(meta', k + 1, 0)
    <3>1. MetaTo(meta, k, 0) BY <1>2, <2>2 DEF OnnxRead
    <3> QED BY <3>1, <1>1, <1>2, <1>3, <1>6, <2>1, MetaNext
  <2>4. OnnxPlace'
    <3>1. ValueInfos' = ValueInfos BY <2>1, OnnxFixed
    <3> QED BY <3>1, <2>1, <1>1, <1>3 DEF OnnxPlace
  <2>5. IsGraphRecord' BY <2>1, <1>2 DEF OnnxRead, IsGraphRecord
  <2>6. OnnxRead' BY <2>1, <2>2, <2>3, <2>4, <2>5, <1>2, OnnxReadNext DEF OnnxRead
  <2> QED BY <2>1, <2>6, <1>1 DEF OnnxInv
<1> QED BY <1>5, <1>6

\* The list of one name.
LEMMA OneName == ASSUME NEW a PROVE IsList(<<a>>) /\ Range(<<a>>) = {a}
<1>1. <<a>> \in Seq({a}) OBVIOUS
<1>2. IsList(<<a>>) BY <1>1, ListOfSeq
<1>3. Len(<<a>>) = 1 /\ <<a>>[1] = a OBVIOUS
<1>4. Range(<<a>>) = {<<a>>[i] : i \in 1 .. 1} BY <1>2, <1>3, ListItems
<1> QED BY <1>2, <1>3, <1>4

\* An initializer is refused for itself; else its tensor and its weight exist.
LEMMA OnnxInitializerKeeps == OnnxInv /\ OnnxInitializer => OnnxInv'
<1> SUFFICES ASSUME OnnxInv, OnnxInitializer PROVE OnnxInv' OBVIOUS
<1> DEFINE t == file.initializer[k + 1]
           a == t.name
           M == With(meta, a, ShapeOf(t))
           S == EnsureAll(M, <<a>>)
<1>1. phase = "loading" /\ part = "initializer" /\ k < Len(file.initializer)
  BY DEF OnnxInitializer, Reading
<1>2. OnnxRead /\ IsList(ValueInfos) /\ IsList(file.initializer) BY <1>1, OnnxFile DEF OnnxInv
<1>3. k \in Nat /\ Len(file.initializer) \in Nat /\ Len(ValueInfos) \in Nat
  BY <1>2, ListItems DEF OnnxRead, OnnxPlace
<1>4. t \in Range(file.initializer)
  <2>1. k + 1 \in 1 .. Len(file.initializer) BY <1>1, <1>3
  <2> QED BY <2>1, <1>2, ListItems
<1>5. CASE t.dtype \notin DTypes \/ ~HasPayload(t)
  <2>1. Throw BY <1>5 DEF OnnxInitializer
  <2>2. ~OnnxSupported BY <1>4, <1>5 DEF OnnxSupported
  <2> QED BY <2>1, <2>2, OnnxThrow
<1>6. CASE t.dtype \in DTypes /\ HasPayload(t)
  <2>1. /\ meta' = M /\ graph' = [graph EXCEPT !.tensors = S.tensors] /\ idOf' = S.idOf
        /\ KeepWeight(S.idOf[a], t.dtype, Payload(t))
        /\ k' = k + 1 /\ UNCHANGED <<file, debug, part>>
    BY <1>6 DEF OnnxInitializer, ShapeOf
  <2>2. CASE phase' # phase
    <3>1. phase' = "aborted" /\ debug /\ Width(t.dtype) # 4 BY <2>1, <2>2 DEF KeepWeight
    <3>2. t.dtype = "i8" BY <3>1 DEF Width
    <3>3. "i8" \in WeightTypes BY <3>2, <1>4 DEF WeightTypes, FromOnnx, OnnxInv
    <3> QED BY <2>1, <3>1, <3>3, OnnxFixed DEF OnnxInv
  <2>3. CASE phase' = phase
    <3>1. /\ InfosRead = Len(ValueInfos) /\ InitsRead = k /\ OpsRead = 0 /\ InsRead = 0 /\ OutsRead = 0
          /\ InfosRead' = Len(ValueInfos') /\ InitsRead' = k + 1 /\ OpsRead' = 0 /\ InsRead' = 0
          /\ OutsRead' = 0
      BY <2>1, <1>1 DEF InfosRead, InitsRead, OpsRead, InsRead, OutsRead
    <3>2. ValueInfos' = ValueInfos BY <2>1, OnnxFixed
    <3> DEFINE U == NamesTo(file.initializer, k)
    <3>3. /\ Ensurable(k, 0, 0, 0) = U /\ Ensurable(k + 1, 0, 0, 0) = U \cup {a}
      BY <1>3, NothingTo, NamesToNext DEF Ensurable
    <3>4. MetaTo(M, Len(ValueInfos), k + 1)
      <4>1. MetaTo(meta, Len(ValueInfos), k) BY <1>2, <3>1 DEF OnnxRead
      <4> QED BY <4>1, <1>1, <1>2, <1>3, MetaInitializer
    <3>5. TensorsOf(graph.tensors, idOf, U) BY <1>2, <3>1, <3>3 DEF OnnxRead
    <3>6. WellNamed(graph.tensors, idOf) /\ DOMAIN idOf = U BY <3>5 DEF TensorsOf
    <3>7. IsList(<<a>>) /\ Range(<<a>>) = {a} BY OneName
    <3>8. a \in DOMAIN M /\ M[a] = ShapeOf(t) BY DEF With
    <3> HIDE DEF M, U, a
    <3>9. S.ok
      <4>1. EnsureAll(M, <<a>>).ok <=> Range(<<a>>) \subseteq DOMAIN idOf \cup DOMAIN M
        BY <3>6, <3>7, EnsuredIff
      <4> QED BY <4>1, <3>7, <3>8
    <3>10. \A n \in Range(<<a>>) \ U : n \in Declared /\ M[n] = ShapeOf(EntryOf(n))
      <4> SUFFICES ASSUME a \notin U PROVE a \in Declared /\ M[a] = ShapeOf(EntryOf(a))
        BY <3>7
      <4>1. EntryOf(a) = t BY <1>1, <1>2, <1>3, FirstInitializer DEF U, a
      <4>2. a \in Declared BY <1>4 DEF Declared, InitializerNames, NamesIn, a
      <4> QED BY <4>1, <4>2, <3>8
    <3>11. /\ TensorsOf(S.tensors, S.idOf, U \cup {a})
           /\ \A n \in DOMAIN idOf : S.idOf[n] = idOf[n]
      <4> DEFINE names == <<a>>
      <4>1. /\ IsList(names) /\ EnsureAll(M, names).ok
            /\ \A n \in Range(names) \ U : n \in Declared /\ M[n] = ShapeOf(EntryOf(n))
        BY <3>7, <3>9, <3>10
      <4> HIDE DEF names
      <4>2. TensorsOf(EnsureAll(M, names).tensors, EnsureAll(M, names).idOf, U \cup Range(names))
        BY <3>5, <4>1, TensorsNext
      <4>3. \A n \in DOMAIN idOf : EnsureAll(M, names).idOf[n] = idOf[n]
        BY <3>6, <4>1, IdsStay
      <4> QED BY <4>2, <4>3, <3>7 DEF names
    <3> HIDE DEF S
    <3>12. WellNamed(S.tensors, S.idOf) /\ DOMAIN S.idOf = DOMAIN idOf \cup {a}
      BY <3>6, <3>11 DEF TensorsOf
    <3>13. weights' = IF S.idOf[a] \in DOMAIN weights THEN weights ELSE With(weights, S.idOf[a], Payload(t))
      BY <2>1 DEF KeepWeight
    <3>14. WeightsTo(weights', S.idOf, k + 1)
      <4>1. WeightsTo(weights, idOf, k) BY <1>2, <3>1 DEF OnnxRead
      <4> DEFINE J == S.idOf  T == S.tensors  s == file.initializer[k + 1]
      <4>2. /\ WellNamed(T, J) /\ DOMAIN idOf = NamesTo(file.initializer, k)
            /\ DOMAIN J = DOMAIN idOf \cup {s.name} /\ \A m \in DOMAIN idOf : J[m] = idOf[m]
            /\ s.dtype \in DTypes /\ HasPayload(s)
        BY <3>6, <3>11, <3>12, <1>6 DEF U, a
      <4>3. weights' = IF J[s.name] \in DOMAIN weights THEN weights
                       ELSE With(weights, J[s.name], Payload(s))
        BY <3>13 DEF a
      <4> HIDE DEF J, T, s
      <4>4. s = file.initializer[k + 1] BY DEF s
      <4>5. WeightsTo(IF J[s.name] \in DOMAIN weights THEN weights
                      ELSE With(weights, J[s.name], Payload(s)), J, k + 1)
        BY <4>1, <4>2, <4>4, <1>1, <1>2, <1>3, WeightsNext
      <4> QED BY <4>3, <4>5 DEF J
    <3>15. graph' = [tensors |-> S.tensors, nodes |-> graph.nodes,
                     inputs |-> graph.inputs, outputs |-> graph.outputs]
      BY <2>1, <1>2 DEF OnnxRead, IsGraphRecord
    <3>16. /\ graph'.tensors = S.tensors /\ graph'.nodes = graph.nodes
           /\ graph'.inputs = graph.inputs /\ graph'.outputs = graph.outputs
      BY <3>15
    <3>17. /\ NodesTo(graph.nodes, S.idOf, 0) /\ InsTo(graph.inputs, S.idOf, 0)
           /\ OutsTo(graph.outputs, S.idOf, 0)
      <4>1. /\ NodesTo(graph.nodes, idOf, 0) /\ InsTo(graph.inputs, idOf, 0)
            /\ OutsTo(graph.outputs, idOf, 0)
        BY <1>2, <3>1 DEF OnnxRead
      <4> QED BY <4>1, <3>11, <3>12, NodesStay, InsStay, OutsStay
    <3>18. OnnxPlace' BY <2>1, <2>3, <1>1, <1>3 DEF OnnxPlace
    <3>19. IsGraphRecord' BY <3>15 DEF IsGraphRecord
    <3>20. OnnxRead'
      BY <2>1, <3>1, <3>2, <3>3, <3>4, <3>11, <3>14, <3>16, <3>17, <3>18, <3>19, OnnxReadNext
    <3> QED BY <2>1, <2>3, <3>20, <1>1 DEF OnnxInv
  <2> QED BY <2>2, <2>3
<1> QED BY <1>5, <1>6

\* Once the initializers are read, all that is declared is known, and a tensor
\* of no initializer has the last shape of its name.
LEMMA LateNames ==
  ASSUME OnnxInv, OnnxRead, part \in {"node", "input", "output", "end"}
  PROVE  /\ InfosRead = Len(ValueInfos) /\ InitsRead = Len(file.initializer)
         /\ NamesTo(file.initializer, InitsRead) = InitializerNames
         /\ InitializerNames \subseteq DOMAIN idOf /\ DOMAIN idOf \subseteq Declared
         /\ DOMAIN idOf = Ensurable(InitsRead, OpsRead, InsRead, OutsRead)
         /\ DOMAIN meta = Declared /\ WellNamed(graph.tensors, idOf)
<1>1. IsList(file.initializer) /\ IsList(ValueInfos) BY OnnxFile DEF OnnxInv
<1>2. InfosRead = Len(ValueInfos) /\ InitsRead = Len(file.initializer) BY DEF InfosRead, InitsRead
<1>3. NamesTo(file.initializer, InitsRead) = InitializerNames
  BY <1>1, <1>2, NamesToAll DEF InitializerNames
<1>4. NamesTo(ValueInfos, InfosRead) = NamesIn(ValueInfos) BY <1>1, <1>2, NamesToAll
<1>5. DOMAIN meta = Declared BY <1>3, <1>4 DEF OnnxRead, MetaTo, Declared
<1>6. /\ DOMAIN idOf = Ensurable(InitsRead, OpsRead, InsRead, OutsRead)
      /\ DOMAIN idOf \subseteq Declared /\ WellNamed(graph.tensors, idOf)
  BY DEF OnnxRead, TensorsOf
<1>7. InitializerNames \subseteq DOMAIN idOf BY <1>3, <1>6 DEF Ensurable
<1> QED BY <1>2, <1>3, <1>5, <1>6, <1>7

\* From then on ensure_tensor finds a shape for every declared name.
LEMMA LateEnsure ==
  ASSUME OnnxInv, OnnxRead, part \in {"node", "input", "output"}, NEW names, IsList(names),
         Range(names) \subseteq Declared
  PROVE  LET S == EnsureAll(meta, names)
             U == Ensurable(InitsRead, OpsRead, InsRead, OutsRead)
         IN  /\ TensorsOf(S.tensors, S.idOf, U \cup Range(names))
             /\ DOMAIN S.idOf = DOMAIN idOf \cup Range(names)
             /\ \A n \in DOMAIN idOf : S.idOf[n] = idOf[n]
<1> DEFINE S == EnsureAll(meta, names)
           U == Ensurable(InitsRead, OpsRead, InsRead, OutsRead)
<1>1. /\ InfosRead = Len(ValueInfos) /\ InitializerNames \subseteq DOMAIN idOf
      /\ DOMAIN idOf = U /\ DOMAIN meta = Declared /\ WellNamed(graph.tensors, idOf)
  BY LateNames
<1>2. TensorsOf(graph.tensors, idOf, U) /\ MetaTo(meta, Len(ValueInfos), InitsRead)
  BY <1>1 DEF OnnxRead
<1>3. IsList(ValueInfos) BY OnnxFile DEF OnnxInv
<1> HIDE DEF U
<1>4. EnsureAll(meta, names).ok BY <1>1, EnsuredIff
<1>5. \A n \in Range(names) \ U : n \in Declared /\ meta[n] = ShapeOf(EntryOf(n))
  <2> TAKE n \in Range(names) \ U
  <2>1. n \in NamesIn(ValueInfos) /\ n \notin InitializerNames BY <1>1 DEF Declared
  <2>2. meta[n] = ShapeOf(EntryOf(n)) BY <2>1, <1>2, <1>3, MetaOf
  <2> QED BY <2>2
<1>6. /\ TensorsOf(S.tensors, S.idOf, U \cup Range(names))
      /\ \A n \in DOMAIN idOf : S.idOf[n] = idOf[n]
  BY <1>1, <1>2, <1>4, <1>5, TensorsNext, IdsStay
<1>7. DOMAIN S.idOf = DOMAIN idOf \cup Range(names) BY <1>1, <1>6 DEF TensorsOf
<1> QED BY <1>6, <1>7 DEF U

\* A node is refused for itself or for a name that nothing declares; else
\* every tensor it uses exists.
LEMMA OnnxNodeKeeps == OnnxInv /\ OnnxNode => OnnxInv'
<1> SUFFICES ASSUME OnnxInv, OnnxNode PROVE OnnxInv' OBVIOUS
<1> DEFINE n == file.node[k + 1]
           names == n.inputs \o n.outputs
           S == EnsureAll(meta, names)
<1>1. phase = "loading" /\ part = "node" /\ k < Len(file.node) BY DEF OnnxNode, Reading
<1>2. OnnxRead /\ IsList(file.node) /\ IsList(file.initializer)
      /\ \A m \in Range(file.node) :
            m \in [op : STRING, inputs : Seq(STRING), outputs : Seq(STRING), attrs : {m.attrs}]
  BY <1>1, OnnxFile DEF OnnxInv
<1>3. k \in Nat /\ Len(file.node) \in Nat BY <1>2, ListItems DEF OnnxRead, OnnxPlace
<1>4. n \in Range(file.node)
  <2>1. k + 1 \in 1 .. Len(file.node) BY <1>1, <1>3
  <2> QED BY <2>1, <1>2, ListItems
<1>5. IsList(names) /\ Range(names) = Touched(n)
  <2>1. n.inputs \in Seq(STRING) /\ n.outputs \in Seq(STRING) BY <1>2, <1>4
  <2>2. IsList(n.inputs) /\ IsList(n.outputs) BY <2>1, ListOfSeq
  <2> QED BY <2>2, ListConcat DEF Touched
<1>6. /\ InitializerNames \subseteq DOMAIN idOf /\ DOMAIN idOf \subseteq Declared
      /\ DOMAIN meta = Declared /\ WellNamed(graph.tensors, idOf)
      /\ NamesTo(file.initializer, InitsRead) = InitializerNames
  BY <1>1, <1>2, LateNames
<1>7. S.ok <=> Touched(n) \subseteq Declared
  <2> HIDE DEF names
  <2>1. EnsureAll(meta, names).ok <=> Range(names) \subseteq DOMAIN idOf \cup DOMAIN meta
    BY <1>5, <1>6, EnsuredIff
  <2> QED BY <2>1, <1>5, <1>6
<1>8. CASE n.op \notin OnnxOps \/ ~S.ok \/ ~ReadableAttrs(n)
  <2>1. Throw BY <1>8 DEF OnnxNode
  <2>2. Touched(n) \subseteq Mentioned BY <1>4 DEF Mentioned, Touched
  <2>3. ~OnnxSupported
    <3> HIDE DEF S
    <3> QED BY <2>2, <1>4, <1>7, <1>8 DEF OnnxSupported
  <2> QED BY <2>1, <2>3, OnnxThrow
<1>9. CASE n.op \in OnnxOps /\ S.ok /\ ReadableAttrs(n)
  <2> DEFINE e == NodeBy(S.idOf, n, OpFromOnnx(n.op))
             J == S.idOf
             T == S.tensors
  <2>1. /\ graph' = [graph EXCEPT !.tensors = T, !.nodes = Append(@, e)]
        /\ idOf' = J /\ k' = k + 1
        /\ UNCHANGED <<file, debug, phase, part, weights, meta>>
    BY <1>9 DEF OnnxNode, NodeBy
  <2>2. /\ TensorsOf(T, J, Ensurable(InitsRead, OpsRead, InsRead, OutsRead) \cup Touched(n))
        /\ DOMAIN J = DOMAIN idOf \cup Touched(n)
        /\ \A m \in DOMAIN idOf : J[m] = idOf[m]
    <3> HIDE DEF n, names
    <3> QED BY <1>1, <1>2, <1>5, <1>7, <1>9, LateEnsure DEF n
  <2> HIDE DEF T, e
  <2>3. graph' = [tensors |-> T, nodes |-> Append(graph.nodes, e),
                  inputs |-> graph.inputs, outputs |-> graph.outputs]
    <3> DEFINE g == [graph EXCEPT !.tensors = T]
    <3>1. g = [tensors |-> T, nodes |-> graph.nodes, inputs |-> graph.inputs, outputs |-> graph.outputs]
      BY <1>2 DEF OnnxRead, IsGraphRecord
    <3>2. graph' = [g EXCEPT !.nodes = Append(graph.nodes, e)] BY <2>1
    <3> HIDE DEF g
    <3> QED BY <3>1, <3>2
  <2>4. /\ graph'.tensors = T /\ graph'.nodes = Append(graph.nodes, e)
        /\ graph'.inputs = graph.inputs /\ graph'.outputs = graph.outputs
    BY <2>3
  <2>5. /\ OpsRead = k /\ InsRead = 0 /\ OutsRead = 0 /\ OpsRead' = k + 1
        /\ InfosRead' = Len(ValueInfos') /\ InfosRead = Len(ValueInfos)
        /\ InitsRead' = InitsRead /\ InsRead' = 0 /\ OutsRead' = 0
    BY <2>1, <1>1 DEF InfosRead, InitsRead, OpsRead, InsRead, OutsRead
  <2>6. ValueInfos' = ValueInfos BY <2>1, OnnxFixed
  <2>7. Ensurable(InitsRead, k + 1, 0, 0) = Ensurable(InitsRead, k, 0, 0) \cup Touched(n)
    <3>1. UsedTo(k + 1) = UsedTo(k) \cup Touched(n) BY <1>3, UsedToNext
    <3> QED BY <3>1 DEF Ensurable
  <2>8. NodesTo(Append(graph.nodes, e), J, k + 1)
    <3>1. NodesTo(graph.nodes, J, k)
      <4>1. NodesTo(graph.nodes, idOf, k) BY <1>2, <2>5 DEF OnnxRead
      <4> HIDE DEF J
      <4> QED BY <4>1, <2>2, NodesStay
    <3>2. /\ IsList(Append(graph.nodes, e)) /\ Len(Append(graph.nodes, e)) = k + 1
          /\ \A i \in 1 .. k : Append(graph.nodes, e)[i] = graph.nodes[i]
          /\ Append(graph.nodes, e)[k + 1] = e
      BY <3>1, ListAppend DEF NodesTo
    <3> DEFINE N == Append(graph.nodes, e)
    <3> HIDE DEF N
    <3>3. /\ IsList(N) /\ Len(N) = k + 1 /\ N[k + 1] = e
          /\ \A i \in 1 .. k : N[i] = graph.nodes[i]
      BY <3>2 DEF N
    <3>4. \A i \in 1 .. k + 1 : i \in 1 .. k \/ i = k + 1 BY <1>3
    <3>5. e = NodeBy(J, n, OpFromOnnx(n.op)) /\ Touched(n) \subseteq DOMAIN J
          /\ n.op \in OnnxOps /\ ReadableAttrs(n)
      BY <1>9, <2>2 DEF e
    <3> HIDE DEF J
    <3>6. ASSUME NEW i \in 1 .. k + 1
          PROVE  LET node == file.node[i]
                 IN  /\ N[i] = NodeBy(J, node, OpFromOnnx(node.op)) /\ Touched(node) \subseteq DOMAIN J
                     /\ node.op \in OnnxOps /\ ReadableAttrs(node)
      <4>1. CASE i \in 1 .. k BY <4>1, <3>1, <3>3 DEF NodesTo
      <4>2. CASE i = k + 1 BY <4>2, <3>3, <3>5
      <4> QED BY <4>1, <4>2, <3>4
    <3>7. NodesTo(N, J, k + 1) BY <3>3, <3>6 DEF NodesTo
    <3> QED BY <3>7 DEF N
  <2>9. /\ InsTo(graph.inputs, J, 0) /\ OutsTo(graph.outputs, J, 0)
        /\ WeightsTo(weights, J, InitsRead)
    <3>1. /\ InsTo(graph.inputs, idOf, 0) /\ OutsTo(graph.outputs, idOf, 0)
          /\ WeightsTo(weights, idOf, InitsRead)
      BY <1>2, <2>5 DEF OnnxRead
    <3> HIDE DEF J
    <3> QED BY <3>1, <2>2, <1>6, InsStay, OutsStay, WeightsStay
  <2>10. OnnxPlace' BY <2>1, <1>1, <1>3 DEF OnnxPlace
  <2>11. IsGraphRecord' BY <2>3 DEF IsGraphRecord
  <2>12. MetaTo(meta, Len(ValueInfos), InitsRead) BY <1>2, <2>5 DEF OnnxRead
  <2> HIDE DEF J, n, S
  <2>13. TensorsOf(T, J, Ensurable(InitsRead, k + 1, 0, 0)) BY <2>2, <2>5, <2>7
  <2>14. OnnxRead'
    BY <2>1, <2>4, <2>5, <2>6, <2>8, <2>9, <2>10, <2>11, <2>12, <2>13, OnnxReadNext
  <2> QED BY <2>1, <2>14, <1>1 DEF OnnxInv
<1> QED BY <1>8, <1>9

\* One more id behind a list of them.
LEMMA OneMoreId ==
  ASSUME NEW I, NEW ids, NEW names, IdsBy(I, ids, names), NEW a \in DOMAIN I
  PROVE  IdsBy(I, Append(ids, I[a]), Append(names, a))
<1> DEFINE v == Append(ids, I[a])
           w == Append(names, a)
           l == Len(names)
<1>1. IsList(ids) /\ IsList(names) /\ Len(ids) = l /\ l \in Nat BY ListItems DEF IdsBy
<1>2. /\ IsList(v) /\ Len(v) = l + 1 /\ v[l + 1] = I[a]
      /\ \A i \in 1 .. l : v[i] = ids[i]
  BY <1>1, ListAppend
<1>3. /\ IsList(w) /\ Len(w) = l + 1 /\ w[l + 1] = a
      /\ \A i \in 1 .. l : w[i] = names[i]
  BY <1>1, ListAppend
<1> HIDE DEF v, w
<1>4. \A i \in 1 .. l + 1 : i \in 1 .. l \/ i = l + 1 BY <1>1
<1>5. \A i \in 1 .. l : names[i] \in DOMAIN I /\ ids[i] = I[names[i]] BY DEF IdsBy
<1> HIDE DEF l
<1>6. \A i \in 1 .. l + 1 : w[i] \in DOMAIN I /\ v[i] = I[w[i]] BY <1>2, <1>3, <1>4, <1>5
<1> QED BY <1>2, <1>3, <1>6 DEF IdsBy, v, w

\* What is in a list with one item more.
LEMMA RangeAppend ==
  ASSUME NEW L, NEW e, IsList(L)
  PROVE  Range(Append(L, e)) = Range(L) \cup {e}
<1> DEFINE U == Append(L, e)
<1>1. /\ IsList(U) /\ Len(U) = Len(L) + 1 /\ U[Len(L) + 1] = e
      /\ \A i \in 1 .. Len(L) : U[i] = L[i]
  BY ListAppend
<1>2. Len(L) \in Nat /\ Range(L) = {L[i] : i \in 1 .. Len(L)} BY ListItems
<1>3. Range(U) = {U[i] : i \in 1 .. Len(U)} BY <1>1, ListItems
<1> HIDE DEF U
<1>4. \A i \in 1 .. Len(U) : i \in 1 .. Len(L) \/ i = Len(L) + 1 BY <1>1, <1>2
<1>5. Len(L) + 1 \in 1 .. Len(U) /\ \A i \in 1 .. Len(L) : i \in 1 .. Len(U) BY <1>1, <1>2
<1> QED BY <1>1, <1>2, <1>3, <1>4, <1>5 DEF U

\* What one more entry of input announces.
LEMMA InsNext ==
  ASSUME IsList(file.input), NEW n \in Nat, n < Len(file.input),
         NEW ids, NEW I, InsTo(ids, I, n), NEW a, a = file.input[n + 1].name,
         a \notin InitializerNames => a \in DOMAIN I
  PROVE  InsTo(IF a \in InitializerNames THEN ids ELSE Append(ids, I[a]), I, n + 1)
<1>1. Announced[n + 1] = NextAnnounced(Announced[n], n + 1)
  <2>1. Len(file.input) \in Nat BY ListItems
  <2>2. n + 1 \in 1 .. Len(file.input) /\ (n + 1) - 1 = n BY <2>1
  <2>3. \A i \in 1 .. Len(file.input) : Announced[i] = NextAnnounced(Announced[i - 1], i)
    BY <2>1, AnnouncedSteps
  <2>4. Announced[n + 1] = NextAnnounced(Announced[(n + 1) - 1], n + 1) BY <2>2, <2>3
  <2> QED BY <2>2, <2>4
<1>2. NamesTo(file.input, n + 1) = NamesTo(file.input, n) \cup {a} BY NamesToNext
<1>3. IdsBy(I, ids, Announced[n]) /\ Range(Announced[n]) = NamesTo(file.input, n) \ InitializerNames
  BY DEF InsTo
<1>4. CASE a \in InitializerNames
  <2>1. Announced[n + 1] = Announced[n] BY <1>1, <1>4 DEF NextAnnounced
  <2> QED BY <2>1, <1>2, <1>3, <1>4 DEF InsTo
<1>5. CASE a \notin InitializerNames
  <2>1. Announced[n + 1] = Append(Announced[n], a) BY <1>1, <1>5 DEF NextAnnounced
  <2>2. IdsBy(I, Append(ids, I[a]), Append(Announced[n], a)) BY <1>3, <1>5, OneMoreId
  <2>3. Range(Append(Announced[n], a)) = Range(Announced[n]) \cup {a}
    BY <1>3, RangeAppend DEF IdsBy
  <2>4. Range(Announced[n + 1]) = NamesTo(file.input, n + 1) \ InitializerNames
    BY <2>1, <2>3, <1>2, <1>3, <1>5
  <2> QED BY <2>1, <2>2, <2>4, <1>5 DEF InsTo
<1> QED BY <1>4, <1>5

\* One more output is announced.
LEMMA OutsNext ==
  ASSUME NEW n \in Nat, NEW ids, NEW I, OutsTo(ids, I, n), NEW a, a = file.output[n + 1].name,
         a \in DOMAIN I
  PROVE  OutsTo(Append(ids, I[a]), I, n + 1)
<1> DEFINE new == Append(ids, I[a])
<1>1. /\ IsList(new) /\ Len(new) = n + 1 /\ new[n + 1] = I[a]
      /\ \A i \in 1 .. n : new[i] = ids[i]
  BY ListAppend DEF OutsTo
<1> HIDE DEF new
<1>2. \A i \in 1 .. n + 1 : i \in 1 .. n \/ i = n + 1 OBVIOUS
<1>3. \A i \in 1 .. n + 1 : file.output[i].name \in DOMAIN I /\ new[i] = I[file.output[i].name]
  BY <1>1, <1>2 DEF OutsTo
<1> QED BY <1>1, <1>3 DEF OutsTo, new

\* An input is announced unless it is a weight; its tensor exists either way.
LEMMA OnnxInputKeeps == OnnxInv /\ OnnxMark("input", "inputs") => OnnxInv'
<1> SUFFICES ASSUME OnnxInv, OnnxMark("input", "inputs") PROVE OnnxInv' OBVIOUS
<1> DEFINE a == file.input[k + 1].name
           S == EnsureAll(meta, <<a>>)
           J == S.idOf
           T == S.tensors
<1>1. phase = "loading" /\ part = "input" /\ k < Len(file.input) BY DEF OnnxMark, Reading
<1>2. OnnxRead /\ IsList(file.input)
      /\ NamesIn(file.input) \cup NamesIn(file.output) \subseteq NamesIn(ValueInfos)
  BY <1>1, OnnxFile DEF OnnxInv
<1>3. k \in Nat /\ Len(file.input) \in Nat BY <1>2, ListItems DEF OnnxRead, OnnxPlace
<1>4. a \in NamesIn(file.input)
  <2>1. k + 1 \in 1 .. Len(file.input) BY <1>1, <1>3
  <2> QED BY <2>1, <1>2, ListItems DEF NamesIn
<1>5. a \in Declared BY <1>2, <1>4 DEF Declared
<1>6. /\ InitializerNames \subseteq DOMAIN idOf /\ NamesTo(file.initializer, InitsRead) = InitializerNames
  BY <1>1, <1>2, LateNames
<1>7. /\ k' = k + 1 /\ UNCHANGED <<file, debug, phase, part, weights, meta>>
      /\ IF a \in InitializerNames THEN UNCHANGED <<graph, idOf>>
         ELSE /\ graph' = [graph EXCEPT !.tensors = T, !.inputs = Append(@, J[a])]
              /\ idOf' = J
  BY DEF OnnxMark
<1>8. /\ OpsRead' = OpsRead /\ InsRead = k /\ InsRead' = k + 1 /\ OutsRead = 0 /\ OutsRead' = 0
      /\ InitsRead' = InitsRead /\ InfosRead = Len(ValueInfos) /\ InfosRead' = Len(ValueInfos')
  BY <1>1, <1>7 DEF InfosRead, InitsRead, OpsRead, InsRead, OutsRead
<1>9. ValueInfos' = ValueInfos BY <1>7, OnnxFixed
<1> DEFINE U == Ensurable(InitsRead, OpsRead, k, 0)
<1>10. Ensurable(InitsRead, OpsRead, k + 1, 0) = U \cup {a}
  BY <1>3, NamesToNext DEF Ensurable
<1>11. /\ TensorsOf(graph.tensors, idOf, U) /\ WeightsTo(weights, idOf, InitsRead)
       /\ NodesTo(graph.nodes, idOf, OpsRead) /\ InsTo(graph.inputs, idOf, k)
       /\ OutsTo(graph.outputs, idOf, 0) /\ MetaTo(meta, Len(ValueInfos), InitsRead)
  BY <1>2, <1>8 DEF OnnxRead
<1>12. OnnxPlace' BY <1>1, <1>3, <1>7 DEF OnnxPlace
<1> HIDE DEF U
<1>13. CASE a \in InitializerNames
  <2>1. UNCHANGED <<graph, idOf>> BY <1>7, <1>13
  <2>2. DOMAIN idOf = U BY <1>11 DEF TensorsOf
  <2>3. U \cup {a} = U BY <2>2, <1>6, <1>13
  <2>4. InsTo(graph.inputs, idOf, k + 1)
    <3>1. InsTo(IF a \in InitializerNames THEN graph.inputs ELSE Append(graph.inputs, idOf[a]), idOf, k + 1)
      <4> DEFINE b == a
      <4>1. b = file.input[k + 1].name OBVIOUS
      <4> HIDE DEF b
      <4>2. InsTo(IF b \in InitializerNames THEN graph.inputs ELSE Append(graph.inputs, idOf[b]),
                  idOf, k + 1)
        BY <4>1, <1>1, <1>2, <1>3, <1>11, <1>13, InsNext
      <4> QED BY <4>2 DEF b
    <3> QED BY <3>1, <1>13
  <2>5. IsGraphRecord' BY <2>1, <1>2 DEF OnnxRead, IsGraphRecord
  <2> HIDE DEF a
  <2>6. OnnxRead'
    BY <2>1, <2>3, <2>4, <2>5, <1>7, <1>8, <1>9, <1>10, <1>11, <1>12, OnnxReadNext
  <2> QED BY <2>6, <1>1, <1>7 DEF OnnxInv
<1>14. CASE a \notin InitializerNames
  <2>1. /\ TensorsOf(T, J, U \cup {a}) /\ DOMAIN J = DOMAIN idOf \cup {a}
        /\ \A n \in DOMAIN idOf : J[n] = idOf[n]
    <3> DEFINE names == <<a>>
    <3>1. IsList(names) /\ Range(names) = {a} BY OneName
    <3>2. Range(names) \subseteq Declared BY <3>1, <1>5
    <3> HIDE DEF a, names
    <3>3. LET R == EnsureAll(meta, names)
          IN  /\ TensorsOf(R.tensors, R.idOf, Ensurable(InitsRead, OpsRead, InsRead, OutsRead) \cup Range(names))
              /\ DOMAIN R.idOf = DOMAIN idOf \cup Range(names)
              /\ \A n \in DOMAIN idOf : R.idOf[n] = idOf[n]
      BY <3>1, <3>2, <1>1, <1>2, LateEnsure
    <3> QED BY <3>1, <3>3, <1>8 DEF names, U
  <2> HIDE DEF S, J, T
  <2>2. graph' = [graph EXCEPT !.tensors = T, !.inputs = Append(graph.inputs, J[a])] /\ idOf' = J
    BY <1>7, <1>14 DEF J, T, S
  <2> HIDE DEF a
  <2>3. graph' = [tensors |-> T, nodes |-> graph.nodes,
                  inputs |-> Append(graph.inputs, J[a]), outputs |-> graph.outputs]
    <3> DEFINE g == [graph EXCEPT !.tensors = T]
    <3>1. g = [tensors |-> T, nodes |-> graph.nodes, inputs |-> graph.inputs, outputs |-> graph.outputs]
      BY <1>2 DEF OnnxRead, IsGraphRecord
    <3>2. graph' = [g EXCEPT !.inputs = Append(graph.inputs, J[a])] BY <2>2
    <3> HIDE DEF g
    <3> QED BY <3>1, <3>2
  <2>4. /\ graph'.tensors = T /\ graph'.nodes = graph.nodes
        /\ graph'.inputs = Append(graph.inputs, J[a]) /\ graph'.outputs = graph.outputs
    BY <2>3
  <2>5. /\ WeightsTo(weights, J, InitsRead) /\ NodesTo(graph.nodes, J, OpsRead)
        /\ InsTo(graph.inputs, J, k) /\ OutsTo(graph.outputs, J, 0)
    BY <2>1, <1>6, <1>11, WeightsStay, NodesStay, InsStay, OutsStay
  <2>6. InsTo(Append(graph.inputs, J[a]), J, k + 1)
    <3>1. a = file.input[k + 1].name /\ a \in DOMAIN J BY <2>1 DEF a
    <3>2. InsTo(IF a \in InitializerNames THEN graph.inputs ELSE Append(graph.inputs, J[a]), J, k + 1)
      BY <3>1, <2>5, <1>1, <1>2, <1>3, InsNext
    <3> QED BY <3>2, <1>14
  <2>7. IsGraphRecord' BY <2>3 DEF IsGraphRecord
  <2>8. OnnxRead'
    BY <2>1, <2>2, <2>4, <2>5, <2>6, <2>7, <1>7, <1>8, <1>9, <1>10, <1>11, <1>12, OnnxReadNext
  <2> QED BY <2>8, <1>1, <1>7 DEF OnnxInv
<1> QED BY <1>13, <1>14

\* Every output is announced.
LEMMA OnnxOutputKeeps == OnnxInv /\ OnnxMark("output", "outputs") => OnnxInv'
<1> SUFFICES ASSUME OnnxInv, OnnxMark("output", "outputs") PROVE OnnxInv' OBVIOUS
<1> DEFINE a == file.output[k + 1].name
           S == EnsureAll(meta, <<a>>)
           J == S.idOf
           T == S.tensors
<1>1. phase = "loading" /\ part = "output" /\ k < Len(file.output) BY DEF OnnxMark, Reading
<1>2. OnnxRead /\ IsList(file.output)
      /\ NamesIn(file.input) \cup NamesIn(file.output) \subseteq NamesIn(ValueInfos)
  BY <1>1, OnnxFile DEF OnnxInv
<1>3. k \in Nat /\ Len(file.output) \in Nat BY <1>2, ListItems DEF OnnxRead, OnnxPlace
<1>4. a \in Declared
  <2>1. k + 1 \in 1 .. Len(file.output) BY <1>1, <1>3
  <2>2. a \in NamesIn(file.output) BY <2>1, <1>2, ListItems DEF NamesIn
  <2> QED BY <2>2, <1>2 DEF Declared
<1>5. InitializerNames \subseteq DOMAIN idOf /\ NamesTo(file.initializer, InitsRead) = InitializerNames
  BY <1>1, <1>2, LateNames
<1>6. /\ k' = k + 1 /\ UNCHANGED <<file, debug, phase, part, weights, meta>>
      /\ graph' = [graph EXCEPT !.tensors = T, !.outputs = Append(graph.outputs, J[a])]
      /\ idOf' = J
  BY DEF OnnxMark
<1>7. /\ OpsRead' = OpsRead /\ InsRead' = InsRead /\ OutsRead = k /\ OutsRead' = k + 1
      /\ InitsRead' = InitsRead /\ InfosRead = Len(ValueInfos) /\ InfosRead' = Len(ValueInfos')
  BY <1>1, <1>6 DEF InfosRead, InitsRead, OpsRead, InsRead, OutsRead
<1>8. ValueInfos' = ValueInfos BY <1>6, OnnxFixed
<1> DEFINE U == Ensurable(InitsRead, OpsRead, InsRead, k)
<1>9. Ensurable(InitsRead, OpsRead, InsRead, k + 1) = U \cup {a}
  BY <1>3, NamesToNext DEF Ensurable
<1>10. /\ WeightsTo(weights, idOf, InitsRead) /\ NodesTo(graph.nodes, idOf, OpsRead)
       /\ InsTo(graph.inputs, idOf, InsRead) /\ OutsTo(graph.outputs, idOf, k)
       /\ MetaTo(meta, Len(ValueInfos), InitsRead)
  BY <1>2, <1>7 DEF OnnxRead
<1>11. OnnxPlace' BY <1>1, <1>3, <1>6 DEF OnnxPlace
<1> HIDE DEF U
<1>12. /\ TensorsOf(T, J, U \cup {a}) /\ DOMAIN J = DOMAIN idOf \cup {a}
       /\ \A n \in DOMAIN idOf : J[n] = idOf[n]
  <2> DEFINE names == <<a>>
  <2>1. IsList(names) /\ Range(names) = {a} BY OneName
  <2>2. Range(names) \subseteq Declared BY <2>1, <1>4
  <2> HIDE DEF a, names
  <2>3. LET R == EnsureAll(meta, names)
        IN  /\ TensorsOf(R.tensors, R.idOf, Ensurable(InitsRead, OpsRead, InsRead, OutsRead) \cup Range(names))
            /\ DOMAIN R.idOf = DOMAIN idOf \cup Range(names)
            /\ \A n \in DOMAIN idOf : R.idOf[n] = idOf[n]
    BY <2>1, <2>2, <1>1, <1>2, LateEnsure
  <2> QED BY <2>1, <2>3, <1>7 DEF names, U
<1> HIDE DEF S, J, T
<1>13. graph' = [tensors |-> T, nodes |-> graph.nodes,
                 inputs |-> graph.inputs, outputs |-> Append(graph.outputs, J[a])]
  <2> DEFINE g == [graph EXCEPT !.tensors = T]
  <2>1. g = [tensors |-> T, nodes |-> graph.nodes, inputs |-> graph.inputs, outputs |-> graph.outputs]
    BY <1>2 DEF OnnxRead, IsGraphRecord
  <2> HIDE DEF a
  <2>2. graph' = [g EXCEPT !.outputs = Append(graph.outputs, J[a])] BY <1>6
  <2> HIDE DEF g
  <2> QED BY <2>1, <2>2
<1>14. /\ graph'.tensors = T /\ graph'.nodes = graph.nodes
       /\ graph'.inputs = graph.inputs /\ graph'.outputs = Append(graph.outputs, J[a])
  BY <1>13
<1> HIDE DEF a
<1>15. /\ WeightsTo(weights, J, InitsRead) /\ NodesTo(graph.nodes, J, OpsRead)
       /\ InsTo(graph.inputs, J, InsRead) /\ OutsTo(graph.outputs, J, k)
  BY <1>5, <1>10, <1>12, WeightsStay, NodesStay, InsStay, OutsStay
<1>16. OutsTo(Append(graph.outputs, J[a]), J, k + 1)
  <2>1. a = file.output[k + 1].name /\ a \in DOMAIN J BY <1>12 DEF a
  <2> QED BY <2>1, <1>3, <1>15, OutsNext
<1>17. IsGraphRecord' BY <1>13 DEF IsGraphRecord
<1>18. OnnxRead'
  BY <1>6, <1>7, <1>8, <1>9, <1>10, <1>11, <1>12, <1>14, <1>15, <1>16, <1>17, OnnxReadNext
<1> QED BY <1>18, <1>1, <1>6 DEF OnnxInv

\* Every step keeps the invariant.
LEMMA OnnxNext == OnnxInv /\ [FrontendStep \/ FrontendDone]_loadVars => OnnxInv'
<1> SUFFICES ASSUME OnnxInv, [FrontendStep \/ FrontendDone]_loadVars PROVE OnnxInv' OBVIOUS
<1>1. CASE UNCHANGED loadVars
  <2>1. UNCHANGED <<file, debug, phase, part, k, graph, idOf, weights, meta>> BY <1>1 DEF loadVars
  <2>2. ValueInfos' = ValueInfos BY <2>1, OnnxFixed
  <2>3. /\ InfosRead' = InfosRead /\ InitsRead' = InitsRead /\ OpsRead' = OpsRead
        /\ InsRead' = InsRead /\ OutsRead' = OutsRead
    BY <2>1, <2>2 DEF InfosRead, InitsRead, OpsRead, InsRead, OutsRead
  <2>4. ASSUME OnnxRead PROVE OnnxRead'
    <3>1. OnnxPlace' BY <2>1, <2>2, <2>4 DEF OnnxRead, OnnxPlace
    <3>2. IsGraphRecord' BY <2>1, <2>4 DEF OnnxRead, IsGraphRecord
    <3> QED BY <2>1, <2>3, <2>4, <3>1, <3>2, OnnxReadNext DEF OnnxRead
  <2> QED BY <2>1, <2>4, OnnxFixed DEF OnnxInv
<1>2. CASE FrontendDone BY <1>1, <1>2 DEF FrontendDone
<1>3. CASE FrontendStep
  <2>1. OnnxStep BY <1>3 DEF FrontendStep, FromOnnx, OnnxInv
  <2> QED BY <2>1, OnnxRecordKeeps, OnnxInitializerKeeps, OnnxNodeKeeps, OnnxInputKeeps,
             OnnxOutputKeeps, OnnxEndKeeps DEF OnnxStep
<1> QED BY <1>1, <1>2, <1>3

\* What is in memory after the last item.
LEMMA OnnxLoaded ==
  ASSUME OnnxInv, phase = "loaded"
  PROVE  /\ OnnxSupported /\ ByName = OnnxMeans
         /\ Len(graph.tensors) = Cardinality({t.name : t \in Range(graph.tensors)})
         /\ \A t \in 0 .. NextId - 1 :
               /\ graph.tensors[t + 1].kind = "weight" <=> t \in DOMAIN weights
               /\ graph.tensors[t + 1].kind = "input" => t \in Range(graph.inputs)
<1>1. OnnxRead /\ part = "end" BY DEF OnnxInv, OnnxRead, OnnxPlace
<1>2. /\ IsList(file.input) /\ IsList(file.output) /\ IsList(file.initializer)
      /\ IsList(file.node) /\ IsList(ValueInfos)
      /\ \A n \in Range(file.node) :
            n \in [op : STRING, inputs : Seq(STRING), outputs : Seq(STRING), attrs : {n.attrs}]
  BY OnnxFile DEF OnnxInv
<1>3. /\ InfosRead = Len(ValueInfos) /\ InitsRead = Len(file.initializer) /\ OpsRead = Len(file.node)
      /\ InsRead = Len(file.input) /\ OutsRead = Len(file.output)
  BY <1>1 DEF InfosRead, InitsRead, OpsRead, InsRead, OutsRead
<1>4. /\ NamesTo(file.initializer, Len(file.initializer)) = InitializerNames
      /\ DOMAIN idOf = Ensurable(InitsRead, OpsRead, InsRead, OutsRead)
      /\ DOMAIN idOf \subseteq Declared /\ WellNamed(graph.tensors, idOf)
      /\ InitializerNames \subseteq DOMAIN idOf
  BY <1>1, <1>3, LateNames
<1>5. /\ DOMAIN file.node = 1 .. Len(file.node)
      /\ Range(file.node) = {file.node[i] : i \in 1 .. Len(file.node)}
      /\ Range(file.initializer) = {file.initializer[i] : i \in 1 .. Len(file.initializer)}
      /\ Range(ValueInfos) = {ValueInfos[i] : i \in 1 .. Len(ValueInfos)}
      /\ DOMAIN file.output = 1 .. Len(file.output) /\ Len(file.output) \in Nat
  BY <1>2, ListItems
<1>6. DOMAIN idOf = Mentioned
  <2>1. UsedTo(Len(file.node)) = UNION {Range(n.inputs) \cup Range(n.outputs) : n \in Range(file.node)}
    BY <1>5 DEF UsedTo, Touched
  <2>2. /\ NamesTo(file.input, Len(file.input)) = NamesIn(file.input)
        /\ NamesTo(file.output, Len(file.output)) = NamesIn(file.output)
    BY <1>2, NamesToAll
  <2>3. DOMAIN idOf = InitializerNames \cup UsedTo(Len(file.node)) \cup NamesIn(file.input)
                        \cup NamesIn(file.output)
    BY <2>2, <1>3, <1>4 DEF Ensurable
  <2>4. Mentioned = InitializerNames \cup NamesIn(file.input) \cup NamesIn(file.output)
                      \cup UsedTo(Len(file.node))
    BY <2>1 DEF Mentioned
  <2> QED BY <2>3, <2>4
<1>7. \A i \in 1 .. Len(file.node) :
         LET n == file.node[i]
         IN  /\ graph.nodes[i] = NodeBy(idOf, n, OpFromOnnx(n.op)) /\ Touched(n) \subseteq DOMAIN idOf
             /\ n.op \in OnnxOps /\ ReadableAttrs(n)
  BY <1>1, <1>3 DEF OnnxRead, NodesTo
<1>8. OnnxSupported
  <2>1. \A v \in Range(ValueInfos) : v.dtype \in DTypes /\ Dynamic \notin Range(v.shape)
    BY <1>1, <1>3, <1>5 DEF OnnxRead, MetaTo
  <2>2. \A t \in Range(file.initializer) : t.dtype \in DTypes /\ HasPayload(t)
    BY <1>1, <1>3, <1>5 DEF OnnxRead, WeightsTo
  <2>3. \A n \in Range(file.node) : n.op \in OnnxOps /\ ReadableAttrs(n) BY <1>5, <1>7
  <2> QED BY <2>1, <2>2, <2>3, <1>4, <1>6 DEF OnnxSupported
<1>9. /\ Len(graph.tensors) \in Nat
      /\ Range(graph.tensors) = {graph.tensors[i] : i \in 1 .. Len(graph.tensors)}
      /\ \A i \in 1 .. Len(graph.tensors) : graph.tensors[i] = Described(graph.tensors[i].name)
  BY <1>1, <1>4, ListItems DEF OnnxRead, TensorsOf, WellNamed
<1>10. \A n \in DOMAIN idOf :
          idOf[n] \in 0 .. Len(graph.tensors) - 1 /\ graph.tensors[idOf[n] + 1].name = n
  BY <1>4, NameOfItsId
<1>11. /\ DOMAIN weights = {idOf[n] : n \in InitializerNames}
       /\ \A n \in InitializerNames : weights[idOf[n]] = Payload(EntryOf(n))
  BY <1>1, <1>3, <1>4 DEF OnnxRead, WeightsTo
<1>12. /\ IdsBy(idOf, graph.inputs, Announced[Len(file.input)])
       /\ Range(Announced[Len(file.input)]) = InputNames
  <2>1. InsTo(graph.inputs, idOf, Len(file.input)) BY <1>1, <1>3 DEF OnnxRead
  <2>2. NamesTo(file.input, Len(file.input)) = NamesIn(file.input) BY <1>2, NamesToAll
  <2> QED BY <2>1, <2>2 DEF InsTo, InputNames
<1>13. ByName = OnnxMeans
  <2>1. Range(graph.tensors) = {Described(n) : n \in Mentioned}
    <3> DEFINE l == Len(graph.tensors)
    <3>1. DOMAIN idOf = {graph.tensors[i].name : i \in 1 .. l} BY <1>4 DEF WellNamed
    <3>2. Range(graph.tensors) = {Described(graph.tensors[i].name) : i \in 1 .. l} BY <1>9
    <3> QED BY <3>1, <3>2, <1>6
  <2>2. [x \in DOMAIN graph.nodes |->
            [graph.nodes[x] EXCEPT !.inputs = NamesOf(@), !.outputs = NamesOf(@)]]
          = [x \in DOMAIN file.node |-> [file.node[x] EXCEPT !.op = OpFromOnnx(@)]]
    <3>1. DOMAIN graph.nodes = 1 .. Len(file.node)
      BY <1>1, <1>3, ListItems DEF OnnxRead, NodesTo
    <3>2. ASSUME NEW x \in 1 .. Len(file.node)
          PROVE  [graph.nodes[x] EXCEPT !.inputs = NamesOf(@), !.outputs = NamesOf(@)]
                   = [file.node[x] EXCEPT !.op = OpFromOnnx(@)]
      <4> DEFINE n == file.node[x]
                 op == OpFromOnnx(n.op)
      <4>1. /\ n \in [op : STRING, inputs : Seq(STRING), outputs : Seq(STRING), attrs : {n.attrs}]
            /\ Touched(n) \subseteq DOMAIN idOf /\ graph.nodes[x] = NodeBy(idOf, n, op)
        BY <1>2, <1>5, <1>7
      <4>2. NodeOf(n, op) = NodeBy(idOf, n, op) BY DEF NodeOf, NodeBy, Ids
      <4>3. n.op = file.node[x].op OBVIOUS
      <4> HIDE DEF n, op
      <4>4. [NodeOf(n, op) EXCEPT !.inputs = NamesOf(@), !.outputs = NamesOf(@)]
              = [n EXCEPT !.op = op]
        BY <4>1, <1>4, NodeByName
      <4>5. [graph.nodes[x] EXCEPT !.inputs = NamesOf(@), !.outputs = NamesOf(@)]
              = [n EXCEPT !.op = op]
        BY <4>1, <4>2, <4>4
      <4> QED BY <4>5 DEF n, op
    <3> QED BY <3>1, <3>2, <1>5
  <2>3. NamesOf(graph.inputs) = Announced[Len(file.input)]
    <3> DEFINE A == Announced[Len(file.input)]
    <3>1. IsList(A) /\ Identified(graph.inputs, Len(A), A) BY <1>12 DEF IdsBy, Identified
    <3> HIDE DEF A
    <3>2. NamesOf(graph.inputs) = A BY <3>1, <1>4, NamesOfIdentified
    <3> QED BY <3>2 DEF A
  <2>4. NamesOf(graph.outputs) = [x \in DOMAIN file.output |-> file.output[x].name]
    <3> DEFINE l == Len(file.output)
               A == [x \in 1 .. l |-> file.output[x].name]
    <3>1. A \in Seq({file.output[x].name : x \in 1 .. l}) BY <1>5
    <3>2. IsList(A) /\ Len(A) = l
      <4>1. Len(A) = l BY <1>5
      <4> HIDE DEF A
      <4>2. IsList(A) BY <3>1, ListOfSeq
      <4> QED BY <4>1, <4>2
    <3>3. OutsTo(graph.outputs, idOf, l) BY <1>1, <1>3 DEF OnnxRead
    <3>4. Identified(graph.outputs, l, A) BY <3>3 DEF OutsTo, Identified
    <3> HIDE DEF A, l
    <3>5. NamesOf(graph.outputs) = A BY <3>2, <3>4, <1>4, NamesOfIdentified
    <3> QED BY <3>5, <1>5 DEF A, l
  <2>5. {<<NameOf(id), weights[id]>> : id \in DOMAIN weights}
          = {<<n, Payload(EntryOf(n))>> : n \in InitializerNames}
    <3>1. \A n \in InitializerNames : NameOf(idOf[n]) = n BY <1>4, <1>10 DEF NameOf
    <3>2. {<<NameOf(id), weights[id]>> : id \in DOMAIN weights}
            = {<<NameOf(idOf[n]), weights[idOf[n]]>> : n \in InitializerNames}
      BY <1>11
    <3> QED BY <3>1, <3>2, <1>11
  <2> QED BY <2>1, <2>2, <2>3, <2>4, <2>5 DEF ByName, OnnxMeans, Described
<1>14. Cardinality({t.name : t \in Range(graph.tensors)}) = Len(graph.tensors)
  BY <1>4, WellNamedDistinct
<1>15. ASSUME NEW t \in 0 .. NextId - 1
       PROVE  /\ graph.tensors[t + 1].kind = "weight" <=> t \in DOMAIN weights
              /\ graph.tensors[t + 1].kind = "input" => t \in Range(graph.inputs)
  <2> DEFINE n == graph.tensors[t + 1].name
  <2>1. t + 1 \in 1 .. Len(graph.tensors) /\ (t + 1) - 1 = t BY <1>9 DEF NextId
  <2>2. n \in DOMAIN idOf /\ idOf[n] = t BY <2>1, <1>4 DEF WellNamed
  <2>3. graph.tensors[t + 1].kind = KindOf(n)
    <3>1. graph.tensors[t + 1] = Described(n) BY <2>1, <1>9
    <3>2. Described(n).kind = KindOf(n) BY DEF Described
    <3> QED BY <3>1, <3>2
  <2> HIDE DEF n
  <2>4. KindOf(n) = "weight" <=> n \in InitializerNames BY DEF KindOf
  <2>5. KindOf(n) = "input" => n \in InputNames BY DEF KindOf
  <2>6. t \in DOMAIN weights <=> n \in InitializerNames
    <3>1. ASSUME t \in DOMAIN weights PROVE n \in InitializerNames
      <4>1. PICK m \in InitializerNames : t = idOf[m] BY <3>1, <1>11
      <4>2. m = n BY <4>1, <2>2, <1>4, <1>10
      <4> QED BY <4>1, <4>2
    <3> QED BY <3>1, <2>2, <1>11
  <2>7. n \in InputNames => t \in Range(graph.inputs)
    <3> SUFFICES ASSUME n \in InputNames PROVE t \in Range(graph.inputs) OBVIOUS
    <3> DEFINE A == Announced[Len(file.input)]
    <3>1. n \in Range(A) /\ IdsBy(idOf, graph.inputs, A) BY <1>12
    <3> HIDE DEF A
    <3>2. IsList(A) /\ IsList(graph.inputs) /\ Len(graph.inputs) = Len(A) BY <3>1 DEF IdsBy
    <3>3. PICK i \in 1 .. Len(A) : A[i] = n BY <3>1, <3>2, ListItems
    <3>4. graph.inputs[i] = t BY <3>1, <3>3, <2>2 DEF IdsBy
    <3> QED BY <3>2, <3>3, <3>4, ListItems
  <2> QED BY <2>3, <2>4, <2>5, <2>6, <2>7
<1> QED BY <1>8, <1>13, <1>14, <1>15
-----------------------------------------------------------------------------
(* Both formats.                                                           *)

FrontendInv == IF FromOnnx THEN OnnxInv ELSE JsonInv

\* The invariant of the loader that the format asks for.
LEMMA FrontendInvariant == FrontendSpec => []FrontendInv
<1>1. FrontendInit => FrontendInv
  <2> SUFFICES ASSUME FrontendInit PROVE FrontendInv OBVIOUS
  <2>1. file.format \in {"json", "onnx"} BY FilesAssumption DEF FrontendInit, LoadInit
  <2> QED BY <2>1, JsonInit, OnnxInit DEF FrontendInv, FromOnnx
<1>2. FrontendInv /\ [FrontendStep \/ FrontendDone]_loadVars => FrontendInv'
  <2> SUFFICES ASSUME FrontendInv, [FrontendStep \/ FrontendDone]_loadVars PROVE FrontendInv'
    OBVIOUS
  <2>1. CASE FromOnnx
    <3>1. OnnxInv' BY <2>1, OnnxNext DEF FrontendInv
    <3> QED BY <3>1 DEF FrontendInv, FromOnnx, OnnxInv
  <2>2. CASE ~FromOnnx
    <3>1. JsonInv' BY <2>2, JsonNext DEF FrontendInv
    <3>2. ~FromOnnx' BY <3>1 DEF JsonInv, FromOnnx
    <3> QED BY <3>1, <3>2 DEF FrontendInv
  <2> QED BY <2>1, <2>2
<1> QED BY <1>1, <1>2, PTL DEF FrontendSpec

\* A load ends well for exactly the supported files; it throws for the others,
\* and aborts only in a build with assertions, on a one-byte weight.
THEOREM LoadsAreExact == FrontendSpec => []LoadsExactlySupported
<1>1. FrontendInv => LoadsExactlySupported
  <2>1. ASSUME OnnxInv, FromOnnx PROVE LoadsExactlySupported
    <3>1. phase = "loaded" => OnnxSupported BY <2>1, OnnxLoaded
    <3> QED BY <2>1, <3>1 DEF LoadsExactlySupported, Supported, OnnxInv
  <2>2. ASSUME JsonInv, ~FromOnnx PROVE LoadsExactlySupported
    <3>1. phase = "loaded" => JsonSupported BY <2>2, JsonLoaded
    <3> QED BY <2>2, <3>1 DEF LoadsExactlySupported, Supported, JsonInv
  <2> QED BY <2>1, <2>2 DEF FrontendInv
<1> QED BY <1>1, FrontendInvariant, PTL

\* Every weight has its data and nothing else has, and every input of an ONNX
\* model is announced: the caller can bind all that a run needs.
THEOREM CallersCanBind == FrontendSpec => []CallersBindEverything
<1>1. FrontendInv => CallersBindEverything
  <2>1. ASSUME OnnxInv, FromOnnx PROVE CallersBindEverything
    BY <2>1, OnnxLoaded DEF CallersBindEverything
  <2>2. ASSUME JsonInv, ~FromOnnx PROVE CallersBindEverything
    BY <2>2, JsonLoaded DEF CallersBindEverything
  <2> QED BY <2>1, <2>2 DEF FrontendInv
<1> QED BY <1>1, FrontendInvariant, PTL

\* The exporters' part: what an exported file describes is the model.
ExportsDescribe == file \in Exports => Means = Model

\* What is in memory after a load is what the file describes by names; hence,
\* if an exported file describes the model, a load of it yields the model,
\* whichever format it was exported to.
THEOREM LoadedAsDescribed == FrontendSpec /\ ExportsDescribe => []LoadedIsDescribed
<1>1. FrontendInv /\ ExportsDescribe => LoadedIsDescribed
  <2> SUFFICES ASSUME FrontendInv, ExportsDescribe, phase = "loaded"
               PROVE  /\ ByName = Means /\ (file \in Exports => ByName = Model)
                      /\ Len(graph.tensors) = Cardinality({t.name : t \in Range(graph.tensors)})
    BY DEF LoadedIsDescribed
  <2>1. CASE FromOnnx BY <2>1, OnnxLoaded DEF FrontendInv, Means, ExportsDescribe
  <2>2. CASE ~FromOnnx BY <2>2, JsonLoaded DEF FrontendInv, Means, ExportsDescribe
  <2> QED BY <2>1, <2>2
<1>2. FrontendInv /\ ExportsDescribe /\ [FrontendStep \/ FrontendDone]_loadVars => ExportsDescribe'
  <2> SUFFICES ASSUME FrontendInv, ExportsDescribe, [FrontendStep \/ FrontendDone]_loadVars
               PROVE  ExportsDescribe'
    OBVIOUS
  <2>1. file' = file
    <3>1. CASE UNCHANGED loadVars BY <3>1 DEF loadVars
    <3>2. CASE FrontendDone BY <3>2 DEF FrontendDone, loadVars
    <3>3. CASE FrontendStep
      BY <3>3 DEF FrontendStep, OnnxStep, JsonStep, OnnxRecord, OnnxInitializer, OnnxNode, OnnxMark,
           JsonTensor, JsonNode, JsonMark, EndOf, Throw
    <3> QED BY <3>1, <3>2, <3>3
  <2>2. OnnxMeans' = OnnxMeans BY <2>1, OnnxMeansFixed
  <2>3. JsonMeans' = JsonMeans BY <2>1 DEF JsonMeans
  <2> QED BY <2>1, <2>2, <2>3 DEF ExportsDescribe, Means, FromOnnx
<1> QED BY <1>1, <1>2, FrontendInvariant, PTL DEF FrontendSpec
=============================================================================
