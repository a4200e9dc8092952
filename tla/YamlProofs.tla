----------------------------- MODULE YamlProofs -----------------------------
(***************************************************************************)
(* Proofs about YamlReader, for every sequence of libyaml's events and all *)
(* scalars: what has been built is one tree, the stack is a path in it, no *)
(* pointer into an array is held while the array grows, and of every file  *)
(* that the reader is made for the data is what its events describe.       *)
(***************************************************************************)
EXTENDS YamlData, SequenceTheorems, FiniteSetTheorems, WellFoundedInduction, TLAPS

(***************************************************************************)
(* A node is older than those below it, so that a path meets no node       *)
(* twice.  Neighbours on the stack are ordered by StackIsPath and IsTree;  *)
(* that all are is what has to be carried along.                           *)
(***************************************************************************)
Descending ==
    /\ \A k \in 1 .. Len(data_stack) : data_stack[k] < data
    /\ \A j, k \in 1 .. Len(data_stack) : j < k => data_stack[k] < data_stack[j]

\* StackIsPath, without Path: the node under data, and under each of the stack.
LastCellIs(h, n) == Len(Cells(h)) > 0 /\ Cells(h)[Len(Cells(h))].value = n

StackLeads ==
    /\ data = 0 => nodes = <<>> /\ data_stack = <<>>
    /\ data # 0 /\ data_stack = <<>> => data = 1
    /\ data_stack # <<>> =>
          /\ data_stack[Len(data_stack)] = 1
          /\ LastCellIs(data_stack[1], data)
    /\ \A k \in 1 .. Len(data_stack) - 1 : LastCellIs(data_stack[k + 1], data_stack[k])

\* What is on the stack is filled again later.
StackOfContainers ==
    \A k \in 1 .. Len(data_stack) : nodes[data_stack[k]].type \in {"hash", "array"}

IInv == TypeOK /\ StackLeads /\ StackOfContainers /\ Descending /\ IsTree

LEMMA PathShape ==
    ASSUME TypeOK
    PROVE  /\ Len(Path) = Len(data_stack) + 1
           /\ Path[1] = data
           /\ \A k \in 1 .. Len(data_stack) : Path[k + 1] = data_stack[k]
  BY DEF TypeOK, Path

\* The two ways to say that the stack is a path.
LEMMA PathFromStack ==
    ASSUME TypeOK, StackLeads
    PROVE  StackIsPath
<1>1. CASE data = 0
  BY <1>1 DEF StackLeads, StackIsPath
<1>2. CASE data # 0
  <2>1. Path[Len(Path)] = 1
    <3>1. CASE data_stack = <<>>
      <4>1. Len(data_stack) = 0
        BY <3>1
      <4>2. Path[Len(Path)] = data
        BY <4>1, PathShape
      <4> QED BY <1>2, <3>1, <4>2 DEF StackLeads
    <3>2. CASE data_stack # <<>>
      <4>1. Len(data_stack) \in 1 .. Len(data_stack)
        BY <3>2 DEF TypeOK
      <4> QED BY <3>2, <4>1, PathShape DEF StackLeads
    <3> QED BY <3>1, <3>2
  <2>2. ASSUME NEW k \in 1 .. Len(Path) - 1
        PROVE  LastCellIs(Path[k + 1], Path[k])
    <3>1. k \in 1 .. Len(data_stack) /\ Path[k + 1] = data_stack[k]
      BY PathShape DEF TypeOK
    <3>2. CASE k = 1
      BY <3>1, <3>2, PathShape DEF StackLeads
    <3>3. CASE k # 1
      <4>1. k - 1 \in 1 .. Len(data_stack) - 1 /\ (k - 1) + 1 = k
        BY <3>1, <3>3 DEF TypeOK
      <4>2. Path[k] = data_stack[k - 1]
        BY <4>1, PathShape DEF TypeOK
      <4> QED BY <3>1, <4>1, <4>2 DEF StackLeads
    <3> QED BY <3>2, <3>3
  <2> QED BY <1>2, <2>1, <2>2 DEF StackIsPath, LastCellIs
<1> QED BY <1>1, <1>2
-----------------------------------------------------------------------------
(***************************************************************************)
(* IsTree, of any list of nodes; and that "next" is "old" with a node      *)
(* attached to node d.                                                     *)
(***************************************************************************)
Tree(store) ==
    /\ \A n \in 2 .. Len(store) :
          \E h \in 1 .. n - 1 : \E k \in 1 .. Len(store[h].cells) : store[h].cells[k].value = n
    /\ \A h \in 1 .. Len(store) : \A k \in 1 .. Len(store[h].cells) :
          store[h].cells[k].value \in h + 1 .. Len(store)
    /\ \A g, h \in 1 .. Len(store) :
          \A j \in 1 .. Len(store[g].cells), k \in 1 .. Len(store[h].cells) :
             store[g].cells[j].value = store[h].cells[k].value => g = h /\ j = k

Attaches(old, next, d, node) ==
    /\ next \in Seq(Node) /\ Len(next) = Len(old) + 1
    /\ next[Len(old) + 1] = node
    /\ \A n \in 1 .. Len(old) :
          /\ next[n].type = old[n].type
          /\ n # d => next[n].cells = old[n].cells
    /\ Len(next[d].cells) = Len(old[d].cells) + 1
    /\ \A k \in 1 .. Len(old[d].cells) : next[d].cells[k].value = old[d].cells[k].value
    /\ next[d].cells[Len(old[d].cells) + 1].value = Len(old) + 1

LEMMA TreeOfNodes == IsTree <=> Tree(nodes)
  BY DEF IsTree, Tree, Cells

\* What attaching a node does and leaves alone.
LEMMA AttachedNode ==
    ASSUME TypeOK, data # 0, NEW node \in Node, NEW under \in Text \cup {NULL}
    PROVE  Attaches(nodes, Attached(node, under), data, node)
<1> DEFINE cell == [key |-> under, value |-> Len(nodes) + 1]
           grown == [nodes EXCEPT ![data].cells = Append(@, cell)]
<1>1. data \in 1 .. Len(nodes) /\ nodes \in Seq(Node)
  BY DEF TypeOK
<1>2. nodes[data] \in Node /\ Len(nodes) + 1 \in Nat
  BY <1>1
<1>3. /\ nodes[data].cells \in Seq([key : Text \cup {NULL}, value : Nat])
      /\ cell \in [key : Text \cup {NULL}, value : Nat]
  BY <1>2 DEF Node
<1>4. Append(nodes[data].cells, cell) \in Seq([key : Text \cup {NULL}, value : Nat])
  BY <1>3
<1>5. [nodes[data] EXCEPT !.cells = Append(@, cell)] \in Node
  BY <1>2, <1>4 DEF Node
<1>6. grown \in Seq(Node) /\ Len(grown) = Len(nodes)
  BY <1>1, <1>5
<1>7. /\ \A n \in 1 .. Len(nodes) : n # data => grown[n] = nodes[n]
      /\ grown[data].cells = Append(nodes[data].cells, cell)
      /\ grown[data].type = nodes[data].type
  BY <1>1, <1>2 DEF Node
<1>8. Attached(node, under) = Append(grown, node)
  BY DEF Attached, AttachedTo
<1> HIDE DEF grown
<1> DEFINE next == Append(grown, node)
<1>9. /\ next \in Seq(Node) /\ Len(next) = Len(nodes) + 1
      /\ next[Len(nodes) + 1] = node
      /\ \A n \in 1 .. Len(nodes) : next[n] = grown[n]
  BY <1>6
<1> HIDE DEF next
<1>10. /\ Len(next[data].cells) = Len(nodes[data].cells) + 1
       /\ \A k \in 1 .. Len(nodes[data].cells) : next[data].cells[k] = nodes[data].cells[k]
       /\ next[data].cells[Len(nodes[data].cells) + 1] = cell
  <2> DEFINE cells == nodes[data].cells
             Cell == [key : Text \cup {NULL}, value : Nat]
  <2>1. next[data].cells = Append(cells, cell)
    BY <1>1, <1>7, <1>9
  <2>2. cells \in Seq(Cell) /\ cell \in Cell
    BY <1>3
  <2> HIDE DEF cell, cells, Cell
  <2>3. /\ Len(Append(cells, cell)) = Len(cells) + 1
        /\ \A k \in 1 .. Len(cells) : Append(cells, cell)[k] = cells[k]
        /\ Append(cells, cell)[Len(cells) + 1] = cell
    BY <2>2
  <2> QED BY <2>1, <2>3 DEF cells
<1> QED BY <1>1, <1>7, <1>8, <1>9, <1>10 DEF Attaches, next

(***************************************************************************)
(* A tree stays one.                                                       *)
(***************************************************************************)
LEMMA AttachedTree ==
    ASSUME NEW old \in Seq(Node), NEW next, NEW d \in 1 .. Len(old),
           NEW node \in Node, node.cells = <<>>,
           Tree(old), Attaches(old, next, d, node)
    PROVE  Tree(next)
<1> DEFINE new == Len(old) + 1
<1>0. Len(old) \in Nat
  OBVIOUS
<1>1. /\ new \in Nat /\ Len(next) = new /\ next[new].cells = <<>>
      /\ \A n \in 1 .. Len(old) : Len(old[n].cells) \in Nat
  <2>1. new \in Nat /\ Len(next) = new /\ next[new].cells = <<>>
    BY DEF Attaches
  <2>2. ASSUME NEW n \in 1 .. Len(old)
        PROVE  Len(old[n].cells) \in Nat
    <3>1. old[n] \in Node
      OBVIOUS
    <3>2. old[n].cells \in Seq([key : Text \cup {NULL}, value : Nat])
      BY <3>1 DEF Node
    <3> QED BY <3>2
  <2> QED BY <2>1, <2>2
<1>2. \A h \in 1 .. Len(old) : \A k \in 1 .. Len(old[h].cells) :
         k \in 1 .. Len(next[h].cells) /\ next[h].cells[k].value = old[h].cells[k].value
  BY <1>1 DEF Attaches
<1>3. \A h \in 1 .. new : \A k \in 1 .. Len(next[h].cells) :
         \/ h = d /\ k = Len(old[d].cells) + 1 /\ next[h].cells[k].value = new
         \/ /\ h \in 1 .. Len(old) /\ k \in 1 .. Len(old[h].cells)
            /\ next[h].cells[k].value = old[h].cells[k].value
  <2> TAKE h \in 1 .. new
  <2> TAKE k \in 1 .. Len(next[h].cells)
  <2>1. CASE h = new
    BY <1>1, <2>1
  <2>2. CASE h = d
    BY <1>1, <2>2 DEF Attaches
  <2>3. CASE h # new /\ h # d
    <3>1. h \in 1 .. Len(old)
      BY <1>0, <2>3
    <3>2. next[h].cells = old[h].cells
      BY <2>3, <3>1 DEF Attaches
    <3> QED BY <3>1, <3>2
  <2> QED BY <2>1, <2>2, <2>3
<1>4. ASSUME NEW n \in 2 .. Len(next)
      PROVE  \E h \in 1 .. n - 1 : \E k \in 1 .. Len(next[h].cells) : next[h].cells[k].value = n
  <2>1. CASE n = new
    <3>1. d \in 1 .. n - 1 /\ Len(old[d].cells) + 1 \in 1 .. Len(next[d].cells)
      BY <1>1, <2>1 DEF Attaches
    <3> QED BY <2>1, <3>1 DEF Attaches
  <2>2. CASE n # new
    <3>1. n \in 2 .. Len(old)
      BY <1>1, <2>2
    <3>2. PICK h \in 1 .. n - 1 : \E k \in 1 .. Len(old[h].cells) : old[h].cells[k].value = n
      BY <3>1 DEF Tree
    <3>3. h \in 1 .. Len(old)
      BY <3>1
    <3> QED BY <1>2, <3>2, <3>3
  <2> QED BY <2>1, <2>2
<1>5. ASSUME NEW h \in 1 .. Len(next), NEW k \in 1 .. Len(next[h].cells)
      PROVE  next[h].cells[k].value \in h + 1 .. Len(next)
  <2>1. CASE h = d /\ k = Len(old[d].cells) + 1
    BY <1>1, <2>1 DEF Attaches
  <2>2. CASE ~(h = d /\ k = Len(old[d].cells) + 1)
    <3>1. /\ h \in 1 .. Len(old) /\ k \in 1 .. Len(old[h].cells)
          /\ next[h].cells[k].value = old[h].cells[k].value
      BY <1>1, <1>3, <2>2
    <3>2. old[h].cells[k].value \in h + 1 .. Len(old)
      BY <3>1 DEF Tree
    <3> QED BY <1>1, <3>1, <3>2
  <2> QED BY <2>1, <2>2
<1>6. ASSUME NEW g \in 1 .. Len(next), NEW h \in 1 .. Len(next),
             NEW j \in 1 .. Len(next[g].cells), NEW k \in 1 .. Len(next[h].cells),
             next[g].cells[j].value = next[h].cells[k].value
      PROVE  g = h /\ j = k
  <2>1. \A m \in 1 .. Len(old) : \A l \in 1 .. Len(old[m].cells) : old[m].cells[l].value # new
    <3> TAKE m \in 1 .. Len(old)
    <3> TAKE l \in 1 .. Len(old[m].cells)
    <3>1. old[m].cells[l].value \in m + 1 .. Len(old)
      BY DEF Tree
    <3> QED BY <3>1
  <2>2. \/ g = d /\ j = Len(old[d].cells) + 1 /\ next[g].cells[j].value = new
        \/ /\ g \in 1 .. Len(old) /\ j \in 1 .. Len(old[g].cells)
           /\ next[g].cells[j].value = old[g].cells[j].value
    BY <1>1, <1>3
  <2>3. \/ h = d /\ k = Len(old[d].cells) + 1 /\ next[h].cells[k].value = new
        \/ /\ h \in 1 .. Len(old) /\ k \in 1 .. Len(old[h].cells)
           /\ next[h].cells[k].value = old[h].cells[k].value
    BY <1>1, <1>3
  <2> QED BY <1>6, <2>1, <2>2, <2>3 DEF Tree
<1> QED BY <1>4, <1>5, <1>6 DEF Tree
-----------------------------------------------------------------------------
(***************************************************************************)
(* Steps that attach a node: a value or element, which leaves the pointers *)
(* alone, or a hash or array, which is filled next.                        *)
(***************************************************************************)
LEMMA AttachAndStay ==
    ASSUME IInv, Filling("hash") \/ Filling("array"),
           NEW node \in Node, node.cells = <<>>, NEW under \in Text \cup {NULL},
           nodes' = Attached(node, under), UNCHANGED <<data, data_stack>>,
           key' \in Text \cup {NULL}, pc' = pc
    PROVE  IInv'
<1>1. /\ data \in 1 .. Len(nodes) /\ nodes \in Seq(Node) /\ Len(nodes) \in Nat
      /\ data_stack \in Seq(1 .. Len(nodes)) /\ data # 0
  BY DEF IInv, TypeOK, Filling
<1>2. Attaches(nodes, nodes', data, node)
  BY <1>1, AttachedNode DEF IInv
<1>3. TypeOK'
  BY <1>1, <1>2 DEF IInv, TypeOK, Attaches
<1>4. IsTree'
  <2>1. Tree(nodes')
    BY <1>1, <1>2, AttachedTree, TreeOfNodes DEF IInv
  <2> QED BY <2>1 DEF IsTree, Tree, Cells
<1>5. \A k \in 1 .. Len(data_stack) :
         /\ data_stack[k] \in 1 .. Len(nodes) /\ data_stack[k] < data
         /\ nodes'[data_stack[k]].type = nodes[data_stack[k]].type
         /\ nodes'[data_stack[k]].cells = nodes[data_stack[k]].cells
  <2>1. \A k \in 1 .. Len(data_stack) :
           data_stack[k] \in 1 .. Len(nodes) /\ data_stack[k] < data
    BY <1>1 DEF IInv, Descending
  <2> QED BY <1>1, <1>2, <2>1 DEF Attaches
<1>6. StackOfContainers' /\ Descending'
  BY <1>5 DEF IInv, StackOfContainers, Descending
<1>7. StackLeads'
  <2>1. data_stack # <<>> => 1 \in 1 .. Len(data_stack)
    BY <1>1
  <2>2. data_stack # <<>> => LastCellIs(data_stack[1], data)'
    BY <1>5, <2>1 DEF IInv, StackLeads, LastCellIs, Cells
  <2>3. ASSUME NEW k \in 1 .. Len(data_stack) - 1
        PROVE  LastCellIs(data_stack[k + 1], data_stack[k])'
    <3>1. k + 1 \in 1 .. Len(data_stack)
      BY <1>1
    <3>2. LastCellIs(data_stack[k + 1], data_stack[k])
      BY DEF IInv, StackLeads
    <3> QED BY <1>5, <3>1, <3>2 DEF LastCellIs, Cells
  <2> QED BY <1>1, <2>2, <2>3 DEF IInv, StackLeads
<1> QED BY <1>3, <1>4, <1>6, <1>7 DEF IInv

LEMMA AttachAndDescend ==
    ASSUME IInv, Filling("hash") \/ Filling("array"),
           NEW node \in Node, node.cells = <<>>, node.type \in {"hash", "array"},
           NEW under \in Text \cup {NULL}, Descend(node, under),
           key' \in Text \cup {NULL}, pc' = pc
    PROVE  IInv'
<1>1. /\ data \in 1 .. Len(nodes) /\ nodes \in Seq(Node) /\ Len(nodes) \in Nat
      /\ data_stack \in Seq(1 .. Len(nodes)) /\ data # 0
  BY DEF IInv, TypeOK, Filling
<1>2. Attaches(nodes, nodes', data, node)
  BY <1>1, AttachedNode DEF IInv, Descend
<1>3. data' = Len(nodes) + 1 /\ Len(nodes') = Len(nodes) + 1
  BY <1>2 DEF Descend, Attaches
<1>4. /\ data_stack' \in Seq(1 .. Len(nodes)) /\ Len(data_stack') = Len(data_stack) + 1
      /\ data_stack'[1] = data
      /\ \A k \in 2 .. Len(data_stack') :
            k - 1 \in 1 .. Len(data_stack) /\ data_stack'[k] = data_stack[k - 1]
  BY <1>1 DEF Descend, Pushed
<1>5. TypeOK'
  BY <1>1, <1>2, <1>3, <1>4 DEF IInv, TypeOK, Attaches
<1>6. IsTree'
  <2>1. Tree(nodes')
    BY <1>1, <1>2, AttachedTree, TreeOfNodes DEF IInv
  <2> QED BY <2>1 DEF IsTree, Tree, Cells
<1>7. \A k \in 1 .. Len(data_stack) :
         /\ data_stack[k] \in 1 .. Len(nodes) /\ data_stack[k] < data
         /\ nodes'[data_stack[k]].type = nodes[data_stack[k]].type
         /\ nodes'[data_stack[k]].cells = nodes[data_stack[k]].cells
  BY <1>1, <1>2 DEF IInv, Descending, Attaches
<1>8. StackOfContainers'
  <2> SUFFICES ASSUME NEW k \in 1 .. Len(data_stack')
               PROVE  nodes'[data_stack'[k]].type \in {"hash", "array"}
    BY DEF StackOfContainers
  <2>1. CASE k = 1
    BY <1>1, <1>2, <1>4, <2>1 DEF Attaches, Filling
  <2>2. CASE k # 1
    <3>1. k \in 2 .. Len(data_stack')
      BY <1>4, <2>2
    <3> QED BY <1>4, <1>7, <3>1 DEF IInv, StackOfContainers
  <2> QED BY <2>1, <2>2
<1>9. Descending'
  <2>1. \A k \in 1 .. Len(data_stack') : data_stack'[k] < data'
    BY <1>1, <1>3, <1>4
  <2>2. ASSUME NEW j \in 1 .. Len(data_stack'), NEW k \in 1 .. Len(data_stack'), j < k
        PROVE  data_stack'[k] < data_stack'[j]
    <3>1. k \in 2 .. Len(data_stack') /\ Len(data_stack) \in Nat
      BY <1>1, <1>4, <2>2
    <3>2. k - 1 \in 1 .. Len(data_stack) /\ data_stack'[k] = data_stack[k - 1]
      BY <1>4, <3>1
    <3>3. CASE j = 1
      BY <1>4, <1>7, <3>2, <3>3
    <3>4. CASE j # 1
      <4>1. /\ j - 1 \in 1 .. Len(data_stack) /\ data_stack'[j] = data_stack[j - 1]
            /\ j - 1 < k - 1
        BY <1>4, <2>2, <3>1, <3>4
      <4> QED BY <3>2, <4>1 DEF IInv, Descending
    <3> QED BY <3>3, <3>4
  <2> QED BY <2>1, <2>2 DEF Descending
<1>10. StackLeads'
  <2>1. data' # 0 /\ data_stack' # <<>>
    BY <1>1, <1>3, <1>4
  <2>2. data_stack'[Len(data_stack')] = 1
    <3>1. CASE data_stack = <<>>
      BY <1>1, <1>4, <3>1 DEF IInv, StackLeads
    <3>2. CASE data_stack # <<>>
      <4>1. Len(data_stack') \in 2 .. Len(data_stack')
        BY <1>1, <1>4, <3>2
      <4>2. data_stack'[Len(data_stack')] = data_stack[Len(data_stack') - 1]
        BY <1>4, <4>1
      <4>3. Len(data_stack') - 1 = Len(data_stack)
        BY <1>1, <1>4
      <4> QED BY <3>2, <4>2, <4>3 DEF IInv, StackLeads
    <3> QED BY <3>1, <3>2
  <2>4. /\ Len(nodes'[data].cells) > 0
        /\ nodes'[data].cells[Len(nodes'[data].cells)].value = data'
    <3>1. Len(nodes[data].cells) \in Nat
      BY <1>1 DEF Node
    <3> QED BY <1>2, <1>3, <3>1 DEF Attaches
  <2>5. ASSUME NEW k \in 1 .. Len(data_stack') - 1
        PROVE  /\ Len(nodes'[data_stack'[k + 1]].cells) > 0
               /\ nodes'[data_stack'[k + 1]].cells[Len(nodes'[data_stack'[k + 1]].cells)].value
                     = data_stack'[k]
    <3>1. k \in 1 .. Len(data_stack) /\ data_stack'[k + 1] = data_stack[k]
      <4>1. k + 1 \in 2 .. Len(data_stack') /\ (k + 1) - 1 = k
        BY <1>1, <1>4
      <4> QED BY <1>4, <4>1
    <3>2. nodes'[data_stack'[k + 1]].cells = Cells(data_stack[k])
      BY <1>7, <3>1 DEF Cells
    <3>3. CASE k = 1
      BY <1>4, <3>1, <3>2, <3>3 DEF IInv, StackLeads, LastCellIs
    <3>4. CASE k # 1
      <4>1. /\ k - 1 \in 1 .. Len(data_stack) - 1 /\ (k - 1) + 1 = k
            /\ data_stack'[k] = data_stack[k - 1]
        <5>1. k \in 2 .. Len(data_stack')
          BY <1>1, <1>4, <3>1, <3>4
        <5>2. data_stack'[k] = data_stack[k - 1]
          BY <1>4, <5>1
        <5>3. k - 1 \in 1 .. Len(data_stack) - 1 /\ (k - 1) + 1 = k
          BY <1>1, <3>1, <3>4
        <5> QED BY <5>2, <5>3
      <4> QED BY <3>1, <3>2, <4>1 DEF IInv, StackLeads, LastCellIs
    <3> QED BY <3>3, <3>4
  <2> QED BY <1>4, <2>1, <2>2, <2>4, <2>5 DEF StackLeads, LastCellIs, Cells
<1> QED BY <1>5, <1>6, <1>8, <1>9, <1>10 DEF IInv
-----------------------------------------------------------------------------
(***************************************************************************)
(* Steps that make no node: the end of a mapping or sequence, which goes   *)
(* back to what is around it, and all others.                              *)
(***************************************************************************)
LEMMA Ascended ==
    ASSUME IInv, Ascend, UNCHANGED nodes, key' \in Text \cup {NULL}, pc' = pc
    PROVE  IInv'
<1>1. CASE data_stack = <<>>
  <2>1. UNCHANGED <<data, data_stack>>
    BY <1>1 DEF Ascend
  <2> QED BY <2>1 DEF IInv, TypeOK, StackLeads, StackOfContainers, Descending, IsTree,
                      LastCellIs, Cells
<1>2. CASE data_stack # <<>>
  <2>1. /\ data_stack \in Seq(1 .. Len(nodes)) /\ Len(data_stack) \in Nat
        /\ Len(data_stack) > 0 /\ 1 \in 1 .. Len(data_stack)
    BY <1>2 DEF IInv, TypeOK
  <2>2. data' = data_stack[1] /\ data_stack' = Tail(data_stack)
    BY <2>1 DEF Ascend
  <2>3. /\ data_stack' \in Seq(1 .. Len(nodes)) /\ Len(data_stack') = Len(data_stack) - 1
        /\ \A k \in 1 .. Len(data_stack') :
              k + 1 \in 2 .. Len(data_stack) /\ data_stack'[k] = data_stack[k + 1]
    BY <2>1, <2>2
  <2>4. data' \in 1 .. Len(nodes) /\ nodes[data'].type \in {"hash", "array"}
    BY <2>1, <2>2 DEF IInv, StackOfContainers
  <2>5. TypeOK'
    BY <2>3, <2>4 DEF IInv, TypeOK
  <2>6. StackOfContainers'
    BY <2>1, <2>3 DEF IInv, StackOfContainers
  <2>7. Descending'
    <3>1. ASSUME NEW k \in 1 .. Len(data_stack')
          PROVE  data_stack'[k] < data'
      <4>1. k + 1 \in 1 .. Len(data_stack) /\ 1 < k + 1
        BY <2>1, <2>3
      <4> QED BY <2>1, <2>2, <2>3, <4>1 DEF IInv, Descending
    <3>2. ASSUME NEW j \in 1 .. Len(data_stack'), NEW k \in 1 .. Len(data_stack'), j < k
          PROVE  data_stack'[k] < data_stack'[j]
      <4>1. /\ j + 1 \in 1 .. Len(data_stack) /\ k + 1 \in 1 .. Len(data_stack)
            /\ j + 1 < k + 1
        BY <2>1, <2>3, <3>2
      <4> QED BY <2>3, <4>1 DEF IInv, Descending
    <3> QED BY <3>1, <3>2 DEF Descending
  <2>8. StackLeads'
    <3>1. CASE data_stack' = <<>>
      <4>1. Len(data_stack) = 1
        BY <2>1, <2>3, <3>1
      <4>2. data' = 1
        BY <1>2, <2>2, <4>1 DEF IInv, StackLeads
      <4>3. Len(data_stack') = 0
        BY <3>1
      <4> QED BY <3>1, <4>2, <4>3 DEF StackLeads
    <3>2. CASE data_stack' # <<>>
      <4>1. 1 \in 1 .. Len(data_stack') /\ Len(data_stack') \in 1 .. Len(data_stack')
        BY <2>3, <3>2
      <4>2. data_stack'[Len(data_stack')] = 1
        <5>1. data_stack'[Len(data_stack')] = data_stack[Len(data_stack') + 1]
          BY <2>3, <4>1
        <5>2. Len(data_stack') + 1 = Len(data_stack)
          BY <2>1, <2>3
        <5> QED BY <1>2, <5>1, <5>2 DEF IInv, StackLeads
      <4>3. /\ Len(nodes'[data_stack'[1]].cells) > 0
            /\ nodes'[data_stack'[1]].cells[Len(nodes'[data_stack'[1]].cells)].value = data'
        <5>1. 1 \in 1 .. Len(data_stack) - 1 /\ data_stack'[1] = data_stack[1 + 1]
          BY <2>1, <2>3, <4>1
        <5> QED BY <2>2, <5>1 DEF IInv, StackLeads, LastCellIs, Cells
      <4>4. ASSUME NEW k \in 1 .. Len(data_stack') - 1
            PROVE  /\ Len(nodes'[data_stack'[k + 1]].cells) > 0
                   /\ nodes'[data_stack'[k + 1]].cells[Len(nodes'[data_stack'[k + 1]].cells)].value
                         = data_stack'[k]
        <5>1. k \in 1 .. Len(data_stack') /\ k + 1 \in 1 .. Len(data_stack')
          BY <2>1, <2>3
        <5>2. /\ data_stack'[k] = data_stack[k + 1]
              /\ data_stack'[k + 1] = data_stack[(k + 1) + 1]
              /\ k + 1 \in 1 .. Len(data_stack) - 1
          BY <2>1, <2>3, <5>1
        <5> QED BY <5>2 DEF IInv, StackLeads, LastCellIs, Cells
      <4>5. data' # 0
        BY <2>4
      <4>6. /\ LastCellIs(data_stack[1], data)'
            /\ \A k \in 1 .. Len(data_stack') - 1 : LastCellIs(data_stack[k + 1], data_stack[k])'
        BY <4>3, <4>4 DEF LastCellIs, Cells
      <4> QED BY <3>2, <4>2, <4>5, <4>6 DEF StackLeads
    <3> QED BY <3>1, <3>2
  <2> QED BY <2>5, <2>6, <2>7, <2>8 DEF IInv, IsTree, Cells
<1> QED BY <1>1, <1>2

LEMMA NodesKept ==
    ASSUME IInv, UNCHANGED <<nodes, data, data_stack>>, key' \in Text \cup {NULL},
           pc' \in Outcomes
    PROVE  IInv'
<1>1. TypeOK'
  BY DEF IInv, TypeOK
<1>2. StackLeads' /\ StackOfContainers' /\ Descending'
  BY DEF IInv, StackLeads, StackOfContainers, Descending, LastCellIs, Cells
<1>3. IsTree'
  <2>1. Tree(nodes')
    BY TreeOfNodes DEF IInv
  <2> QED BY <2>1 DEF IsTree, Tree, Cells
<1> QED BY <1>1, <1>2, <1>3 DEF IInv
-----------------------------------------------------------------------------
LEMMA NewNode ==
    ASSUME NEW type \in Types, NEW text \in Text
    PROVE  New(type, text) \in Node /\ New(type, text).cells = <<>>
                                    /\ New(type, text).type = type
  BY DEF New, Node

LEMMA CountedPositions ==
    ASSUME NEW n \in Nat, NEW S \in SUBSET (1 .. n)
    PROVE  Cardinality(S) \in 0 .. n
<1>1. IsFiniteSet(1 .. n) /\ Cardinality(1 .. n) = n
  <2>1. Cardinality(1 .. n) = IF 1 > n THEN 0 ELSE n - 1 + 1
    BY FS_Interval
  <2> QED BY FS_Interval, <2>1
<1>2. Cardinality(S) <= Cardinality(1 .. n) /\ IsFiniteSet(S)
  BY <1>1, FS_Subset
<1>3. Cardinality(S) \in Nat
  BY <1>2, FS_CardinalityType
<1> QED BY <1>1, <1>2, <1>3

LEMMA TrimmedText ==
    ASSUME NEW value \in Text, yaml_strtrim(value) # NULL
    PROVE  yaml_strtrim(value) \in Text
<1>1. value \in Seq(Words \cup {BLANK}) /\ Len(value) \in Nat
  BY DEF Text
<1>2. Leading(value) \in 0 .. Len(value) /\ Trailing(value) \in 0 .. Len(value)
  BY <1>1, CountedPositions DEF Leading, Trailing
<1> DEFINE length == Len(value) - Leading(value) - Trailing(value)
<1>3. length > 0 /\ yaml_strtrim(value) = SubSeq(value, Leading(value) + 1, Leading(value) + length)
  BY DEF yaml_strtrim
<1>4. /\ Leading(value) + 1 \in 1 .. Len(value) + 1
      /\ Leading(value) + length \in Leading(value) + 1 - 1 .. Len(value)
  BY <1>1, <1>2, <1>3
<1> QED BY <1>1, <1>3, <1>4, SubSeqProperties DEF Text

LEMMA ScalarNodeIsNode ==
    ASSUME NEW value \in Text
    PROVE  ScalarNode(value) \in Node /\ ScalarNode(value).cells = <<>>
<1>1. <<>> \in Text
  BY DEF Text
<1> QED BY <1>1, NewNode DEF ScalarNode, Types
-----------------------------------------------------------------------------
LEMMA Base == Init => IInv
  BY DEF Init, Outcomes, IInv, TypeOK, StackLeads, StackOfContainers, Descending, IsTree, Node, Text

LEMMA RootStep ==
    ASSUME IInv, RootMapping
    PROVE  IInv'
<1>1. <<>> \in Text
  BY DEF Text
<1>2. /\ nodes' = <<New("hash", <<>>)>> /\ data' = 1 /\ key' = NULL /\ pc' = pc
      /\ data_stack = <<>> /\ data_stack' = <<>>
  BY DEF RootMapping, IInv, StackLeads
<1>3. /\ New("hash", <<>>) \in Node /\ New("hash", <<>>).cells = <<>>
      /\ New("hash", <<>>).type = "hash"
  BY <1>1, NewNode DEF Types
<1>4. nodes' \in Seq(Node) /\ Len(nodes') = 1 /\ nodes'[1] = New("hash", <<>>)
  BY <1>2, <1>3
<1>5. TypeOK'
  BY <1>2, <1>3, <1>4 DEF IInv, TypeOK
<1>6. Len(nodes'[1].cells) = 0
  BY <1>3, <1>4
<1>7. IsTree'
  BY <1>4, <1>6 DEF IsTree, Cells
<1>8. Len(data_stack') = 0
  BY <1>2
<1>9. StackLeads' /\ StackOfContainers' /\ Descending'
  BY <1>2, <1>8 DEF StackLeads, StackOfContainers, Descending
<1> QED BY <1>5, <1>7, <1>9 DEF IInv

LEMMA ScalarStep ==
    ASSUME IInv, NEW value \in Scalars,
           \/ ScalarKey(value) \/ ScalarValue(value) \/ ScalarBeforeData(value)
           \/ Element(value) \/ ElementBeyond(value) \/ BlankElement(value)
    PROVE  IInv'
<1>1. value \in Text /\ key \in Text \cup {NULL} /\ pc \in Outcomes
  BY ScalarsAssumption DEF IInv, TypeOK, Outcomes
<1>2. CASE ScalarKey(value)
  BY <1>1, <1>2, NodesKept DEF ScalarKey
<1>3. CASE ScalarValue(value)
  BY <1>1, <1>3, AttachAndStay, ScalarNodeIsNode DEF ScalarValue
<1>4. CASE ScalarBeforeData(value)
  BY <1>1, <1>4, NodesKept DEF ScalarBeforeData, Stop, Outcomes
<1>5. CASE Element(value)
  <2>1. yaml_strtrim(value) \in Text
    BY <1>1, <1>5, TrimmedText DEF Element
  <2>2. /\ New("string", yaml_strtrim(value)) \in Node
        /\ New("string", yaml_strtrim(value)).cells = <<>>
    BY <2>1, NewNode DEF Types
  <2> QED BY <1>1, <1>5, <2>2, AttachAndStay DEF Element
<1>6. CASE ElementBeyond(value)
  BY <1>1, <1>6, NodesKept DEF ElementBeyond, Stop, Outcomes
<1>7. CASE BlankElement(value)
  BY <1>1, <1>7, NodesKept DEF BlankElement
<1> QED BY <1>2, <1>3, <1>4, <1>5, <1>6, <1>7

LEMMA Step ==
    ASSUME IInv, [Next]_vars
    PROVE  IInv'
<1>1. key \in Text \cup {NULL} /\ pc \in Outcomes
  BY DEF IInv, TypeOK
<1>2. \A type \in {"hash", "array"} :
         /\ New(type, <<>>) \in Node /\ New(type, <<>>).cells = <<>>
         /\ New(type, <<>>).type \in {"hash", "array"}
  <2>1. <<>> \in Text
    BY DEF Text
  <2> QED BY <2>1, NewNode DEF Types
<1>3. CASE RootMapping
  BY <1>3, RootStep
<1>4. CASE MappingInHash
  BY <1>1, <1>2, <1>4, AttachAndDescend DEF MappingInHash
<1>5. CASE MappingInArray
  BY <1>1, <1>2, <1>5, AttachAndDescend DEF MappingInArray
<1>6. CASE MappingWithoutKey
  BY <1>1, <1>6, NodesKept DEF MappingWithoutKey, Stop, Outcomes
<1>7. CASE MappingEnd
  BY <1>1, <1>7, Ascended DEF MappingEnd
<1>8. CASE Scalar
  BY <1>8, ScalarStep DEF Scalar
<1>9. CASE SequenceInHash
  BY <1>1, <1>2, <1>9, AttachAndDescend DEF SequenceInHash
<1>10. CASE SequenceWithoutKey
  BY <1>1, <1>10, NodesKept DEF SequenceWithoutKey, Stop, Outcomes
<1>11. CASE SequenceInArray
  BY <1>1, <1>11, NodesKept DEF SequenceInArray, Stop, Outcomes
<1>12. CASE SequenceEnd
  BY <1>1, <1>12, Ascended DEF SequenceEnd, KeyAfterSequence
<1>13. CASE IgnoredEvent
  BY <1>1, <1>13, NodesKept DEF IgnoredEvent
<1>14. CASE StreamEnd
  BY <1>1, <1>14, NodesKept DEF StreamEnd, Outcomes
<1>15. CASE ParseFails
  BY <1>1, <1>15, NodesKept DEF ParseFails, Outcomes
<1>16. CASE UNCHANGED vars
  BY <1>1, <1>16, NodesKept DEF vars
<1> QED BY <1>3, <1>4, <1>5, <1>6, <1>7, <1>8, <1>9, <1>10, <1>11, <1>12, <1>13, <1>14,
           <1>15, <1>16 DEF Next, Stopped

LEMMA Invariant == Spec => []IInv
<1>1. Init => IInv
  BY Base
<1>2. IInv /\ [Next]_vars => IInv'
  BY Step
<1> QED BY <1>1, <1>2, PTL DEF Spec

(***************************************************************************)
(* The reader never finds data of a type that it has no branch for.        *)
(***************************************************************************)
THEOREM TypeCorrect == Spec => []TypeOK
<1>1. IInv => TypeOK
  BY DEF IInv
<1> QED BY <1>1, Invariant, PTL

(***************************************************************************)
(* For every sequence of events, what ends is what began last.             *)
(***************************************************************************)
THEOREM StackLeadsToRoot == Spec => []StackIsPath
<1>1. IInv => StackIsPath
  BY PathFromStack DEF IInv
<1> QED BY <1>1, Invariant, PTL

(***************************************************************************)
(* For every sequence of events, what has been built is one tree.          *)
(***************************************************************************)
THEOREM BuildsOneTree == Spec => []IsTree
<1>1. IInv => IsTree
  BY DEF IInv
<1> QED BY <1>1, Invariant, PTL
-----------------------------------------------------------------------------
(***************************************************************************)
(* For every sequence of events, no array grows under a held pointer: only *)
(* the node being filled grows, and all that is held is at least as old.   *)
(***************************************************************************)
GrowsUnderPointer ==
    \E a \in 1 .. Len(nodes) :
       /\ nodes[a].type = "array" /\ Len(nodes'[a].cells) > Len(Cells(a))
       /\ \E k \in 1 .. Len(Cells(a)) : Cells(a)[k].value \in Held

LEMMA HeldAreOlder ==
    ASSUME IInv, data # 0, NEW k \in 1 .. Len(Cells(data))
    PROVE  Cells(data)[k].value \notin Held
<1>1. data \in 1 .. Len(nodes) /\ Len(nodes) \in Nat
  BY DEF IInv, TypeOK
<1>2. Cells(data)[k].value > data
  BY <1>1 DEF IInv, IsTree
<1>3. \A j \in 1 .. Len(data_stack) : data_stack[j] < data /\ data_stack[j] \in Nat
  BY DEF IInv, Descending, TypeOK
<1> QED BY <1>1, <1>2, <1>3 DEF Held

LEMMA OnlyFilledGrows ==
    ASSUME IInv, [Next]_vars, NEW a \in 1 .. Len(nodes), Len(nodes'[a].cells) > Len(Cells(a))
    PROVE  a = data
<1>1. Len(Cells(a)) \in Nat
  <2>1. nodes[a] \in Node
    BY DEF IInv, TypeOK
  <2> QED BY <2>1 DEF Node, Cells
<1>2. nodes' # nodes
  BY <1>1 DEF Cells
<1>3. ASSUME data # 0, NEW node \in Node, NEW under \in Text \cup {NULL},
             nodes' = Attached(node, under)
      PROVE  a = data
  <2>1. Attaches(nodes, nodes', data, node)
    BY <1>3, AttachedNode DEF IInv
  <2> QED BY <1>1, <2>1 DEF Attaches, Cells
<1>4. key \in Text \cup {NULL}
  BY DEF IInv, TypeOK
<1>5. New("hash", <<>>) \in Node /\ New("array", <<>>) \in Node
  <2>1. <<>> \in Text
    BY DEF Text
  <2> QED BY <2>1, NewNode DEF Types
<1>6. CASE RootMapping
  BY <1>6 DEF RootMapping, IInv, StackLeads
<1>7. CASE MappingInHash
  BY <1>3, <1>4, <1>5, <1>7 DEF MappingInHash, Descend, Filling
<1>8. CASE MappingInArray
  BY <1>3, <1>5, <1>8 DEF MappingInArray, Descend, Filling
<1>9. CASE SequenceInHash
  BY <1>3, <1>4, <1>5, <1>9 DEF SequenceInHash, Descend, Filling
<1>10. ASSUME NEW value \in Scalars, ScalarValue(value)
       PROVE  a = data
  <2>1. ScalarNode(value) \in Node
    BY ScalarsAssumption, ScalarNodeIsNode
  <2> QED BY <1>3, <1>4, <1>10, <2>1 DEF ScalarValue, Filling
<1>11. ASSUME NEW value \in Scalars, Element(value)
       PROVE  a = data
  <2>1. New("string", yaml_strtrim(value)) \in Node
    BY <1>11, ScalarsAssumption, TrimmedText, NewNode DEF Element, Types
  <2> QED BY <1>3, <1>11, <2>1 DEF Element, Filling
<1>12. CASE Scalar
  BY <1>2, <1>10, <1>11, <1>12 DEF Scalar, ScalarKey, ScalarBeforeData, ElementBeyond,
                                  BlankElement, Stop
<1> QED
  BY <1>2, <1>6, <1>7, <1>8, <1>9, <1>12
  DEF Next, MappingWithoutKey, MappingEnd, SequenceWithoutKey, SequenceInArray, SequenceEnd,
      IgnoredEvent, StreamEnd, ParseFails, Stopped, Stop, vars

THEOREM PointersStayValid == Spec => PointersStay
<1>1. IInv /\ [Next]_vars => ~GrowsUnderPointer
  <2> SUFFICES ASSUME IInv, [Next]_vars, NEW a \in 1 .. Len(nodes),
                      Len(nodes'[a].cells) > Len(Cells(a)),
                      NEW k \in 1 .. Len(Cells(a))
               PROVE  Cells(a)[k].value \notin Held
    BY DEF GrowsUnderPointer
  <2>1. a = data /\ data # 0
    BY OnlyFilledGrows
  <2> QED BY <2>1, HeldAreOlder
<1>2. IInv /\ [Next]_vars =>
        [\A a \in 1 .. Len(nodes) :
            nodes[a].type = "array" /\ Len(nodes'[a].cells) > Len(Cells(a)) =>
               \A k \in 1 .. Len(Cells(a)) : Cells(a)[k].value \notin Held]_vars
  BY <1>1 DEF GrowsUnderPointer
<1> QED BY <1>2, Invariant, PTL DEF Spec, PointersStay
-----------------------------------------------------------------------------
\* The events that libyaml makes.
EventTypes == NodeEvents \cup Ends \cup
                 {"STREAM_START", "STREAM_END", "DOCUMENT_START", "DOCUMENT_END"}

Events == [type : EventTypes, value : Text]
-----------------------------------------------------------------------------
(***************************************************************************)
(* Positions in sets of numbers.                                           *)
(***************************************************************************)
LEMMA FiniteUpTo ==
    ASSUME NEW n \in Nat, NEW S \in SUBSET (1 .. n)
    PROVE  IsFiniteSet(S) /\ Cardinality(S) \in Nat
<1>1. IsFiniteSet(1 .. n)
  BY FS_Interval
<1>2. IsFiniteSet(S)
  BY <1>1, FS_Subset
<1> QED BY <1>2, FS_CardinalityType

LEMMA RankIn ==
    ASSUME NEW n \in Nat, NEW S \in SUBSET (1 .. n), NEW q \in S
    PROVE  Rank(S, q) \in 1 .. Cardinality(S)
<1> DEFINE T == {r \in S : r <= q}
<1>1. IsFiniteSet(S) /\ Cardinality(S) \in Nat
  BY FiniteUpTo
<1>2. T \subseteq S /\ q \in T
  OBVIOUS
<1>3. IsFiniteSet(T) /\ Cardinality(T) \in Nat /\ Cardinality(T) <= Cardinality(S)
  BY <1>1, <1>2, FS_Subset, FS_CardinalityType
<1>4. Cardinality(T) # 0
  BY <1>2, <1>3, FS_EmptySet
<1>5. Rank(S, q) = Cardinality(T)
  BY DEF Rank
<1> QED BY <1>1, <1>3, <1>4, <1>5

LEMMA RankApart ==
    ASSUME NEW n \in Nat, NEW S \in SUBSET (1 .. n), NEW q \in S, NEW r \in S, q < r
    PROVE  Rank(S, q) < Rank(S, r)
<1> DEFINE T == {k \in S : k <= q}
           U == {k \in S : k <= r}
<1>1. IsFiniteSet(S)
  BY FiniteUpTo
<1>0. S \subseteq 1 .. n
  OBVIOUS
<1>2. T \subseteq U /\ U \subseteq S /\ r \in U /\ r \notin T
  <2>1. q \in Int /\ r \in Int /\ \A k \in S : k \in Int
    BY <1>0
  <2>2. ASSUME NEW k \in T PROVE k \in U
    BY <2>1, <2>2
  <2>3. r \notin T /\ r \in U
    BY <2>1
  <2> QED BY <2>2, <2>3
<1>3. T # U
  BY <1>2
<1>4. IsFiniteSet(U)
  BY <1>1, <1>2, FS_Subset
<1>5. Cardinality(T) < Cardinality(U)
  <2> HIDE DEF T, U
  <2>1. T \in SUBSET U
    BY <1>2
  <2>2. /\ Cardinality(T) <= Cardinality(U) /\ Cardinality(T) # Cardinality(U)
        /\ IsFiniteSet(T)
    BY <1>3, <1>4, <2>1, FS_Subset
  <2>3. Cardinality(T) \in Nat /\ Cardinality(U) \in Nat
    BY <1>4, <2>2, FS_CardinalityType
  <2> QED BY <2>2, <2>3
<1> QED BY <1>5 DEF Rank

LEMMA RankIsUnique ==
    ASSUME NEW n \in Nat, NEW S \in SUBSET (1 .. n), NEW q \in S, NEW r \in S,
           Rank(S, q) = Rank(S, r)
    PROVE  q = r
<1>1. /\ Rank(S, q) \in 1 .. Cardinality(S) /\ Rank(S, r) \in 1 .. Cardinality(S)
      /\ Cardinality(S) \in Nat
  BY RankIn, FiniteUpTo
<1>2. q \in 1 .. n /\ r \in 1 .. n
  OBVIOUS
<1>3. ASSUME q < r
      PROVE  FALSE
  <2>1. Rank(S, q) < Rank(S, r)
    BY <1>3, RankApart
  <2> QED BY <1>1, <2>1
<1>4. ASSUME r < q
      PROVE  FALSE
  <2>1. Rank(S, r) < Rank(S, q)
    BY <1>4, RankApart
  <2> QED BY <1>1, <2>1
<1> QED BY <1>2, <1>3, <1>4

\* A number that is larger than all others is the last.
LEMMA RankAdded ==
    ASSUME NEW n \in Nat, NEW S \in SUBSET (1 .. n)
    PROVE  /\ Cardinality(S \cup {n + 1}) = Cardinality(S) + 1
           /\ Rank(S \cup {n + 1}, n + 1) = Cardinality(S) + 1
           /\ \A q \in 1 .. n : Rank(S \cup {n + 1}, q) = Rank(S, q)
<1>1. IsFiniteSet(S) /\ n + 1 \notin S
  <2>1. S \subseteq 1 .. n /\ n + 1 \notin 1 .. n
    OBVIOUS
  <2> QED BY <2>1, FiniteUpTo
<1>2. Cardinality(S \cup {n + 1}) = Cardinality(S) + 1
  BY <1>1, FS_AddElement
<1>3. {r \in S \cup {n + 1} : r <= n + 1} = S \cup {n + 1}
  <2>1. \A r \in S : r \in 1 .. n
    OBVIOUS
  <2>2. \A r \in S \cup {n + 1} : r <= n + 1
    BY <2>1
  <2> QED BY <2>2
<1>4. ASSUME NEW q \in 1 .. n
      PROVE  {r \in S \cup {n + 1} : r <= q} = {r \in S : r <= q}
  OBVIOUS
<1> QED BY <1>2, <1>3, <1>4 DEF Rank
-----------------------------------------------------------------------------
\* Induction, as a statement about sets.
LEMMA SetInduction ==
    ASSUME NEW S, 0 \in S, \A n \in Nat : n \in S => n + 1 \in S
    PROVE  Nat \subseteq S
<1> DEFINE T == Nat \ S
<1> SUFFICES ASSUME T # {} PROVE FALSE
  OBVIOUS
<1>1. \E x \in T : \A y \in T : ~(<<y, x>> \in OpToRel(<, Nat))
  <2>1. T \subseteq Nat
    OBVIOUS
  <2> HIDE DEF T
  <2> QED
    BY <2>1, NatLessThanWellFounded, WFMin
<1>2. PICK x \in T : \A y \in T : ~(<<y, x>> \in OpToRel(<, Nat))
  BY <1>1
<1>3. x \in Nat \ {0}
  OBVIOUS
<1>4. x - 1 \in Nat /\ x - 1 < x
  BY <1>3
<1>5. x - 1 \in T
  <2>1. x - 1 \notin S
    BY <1>3, <1>4
  <2> QED
    BY <1>4, <2>1
<1>6. <<x - 1, x>> \in OpToRel(<, Nat)
  BY <1>3, <1>4 DEF OpToRel
<1> QED
  BY <1>2, <1>5, <1>6
-----------------------------------------------------------------------------
(***************************************************************************)
(* The place of an event follows from those before it.                     *)
(***************************************************************************)
Outside == [in |-> 0, key |-> FALSE]

NextIn(place, event, p) ==
    IF event.type \in Starts THEN p - 1
    ELSE IF event.type \in Ends THEN place[place[p - 1].in].in
    ELSE place[p - 1].in

NextPlace(place, events, p) ==
    LET in == NextIn(place, events[p - 1], p)
    IN [in  |-> in,
        key |-> /\ InMapping(events, in)
                /\ ~(place[p - 1].key /\ events[p - 1].type = "SCALAR")]

\* What the places up to n are.
ArePlaces(place, events, n) ==
    /\ place = [p \in 0 .. n |-> place[p]]
    /\ \A p \in 0 .. n : place[p] = IF p <= 1 THEN Outside ELSE NextPlace(place, events, p)
    /\ \A p \in 0 .. n :
          /\ place[p] \in [in : Nat, key : BOOLEAN]
          /\ place[p].in = 0 \/ place[p].in < p

LEMMA NextPlaceIs ==
    ASSUME NEW events, NEW place, NEW p \in Nat, p >= 2,
           \A q \in 0 .. p - 1 : /\ place[q] \in [in : Nat, key : BOOLEAN]
                                 /\ place[q].in = 0 \/ place[q].in < q
    PROVE  /\ NextPlace(place, events, p) \in [in : Nat, key : BOOLEAN]
           /\ NextPlace(place, events, p).in < p
<1> DEFINE in == NextIn(place, events[p - 1], p)
<1>1. p - 1 \in 0 .. p - 1
  OBVIOUS
<1>2. place[p - 1] \in [in : Nat, key : BOOLEAN] /\ place[p - 1].in \in 0 .. p - 1
  BY <1>1
<1>3. place[place[p - 1].in].in \in Nat /\ place[place[p - 1].in].in < p
  BY <1>2
<1>4. in \in Nat /\ in < p
  BY <1>2, <1>3 DEF NextIn
<1> HIDE DEF in
<1>5. /\ NextPlace(place, events, p).in = in
      /\ NextPlace(place, events, p) \in [in : Nat, key : BOOLEAN]
  BY <1>4 DEF NextPlace, in, InMapping
<1> QED BY <1>4, <1>5

\* It is the same for places and events that are the same before.
LEMMA NextPlaceSame ==
    ASSUME NEW events, NEW place, NEW others, NEW p \in Nat, p >= 2, NEW other,
           \A q \in 0 .. p - 1 : /\ place[q] \in [in : Nat, key : BOOLEAN]
                                 /\ place[q].in = 0 \/ place[q].in < q
                                 /\ other[q] = place[q],
           \A q \in 1 .. p - 1 : others[q] = events[q]
    PROVE  NextPlace(other, others, p) = NextPlace(place, events, p)
<1> DEFINE in == NextIn(place, events[p - 1], p)
<1>1. p - 1 \in 0 .. p - 1 /\ p - 1 \in 1 .. p - 1
  OBVIOUS
<1>2. /\ other[p - 1] = place[p - 1] /\ others[p - 1] = events[p - 1]
      /\ place[p - 1].in \in 0 .. p - 1
  BY <1>1
<1>3. other[place[p - 1].in] = place[place[p - 1].in]
  BY <1>2
<1>4. NextIn(other, others[p - 1], p) = in
  BY <1>2, <1>3 DEF NextIn
<1>5. place[place[p - 1].in].in \in 0 .. p - 1
  BY <1>2
<1>6. in \in 0 .. p - 1
  BY <1>2, <1>5, <1>1 DEF NextIn
<1>7. in # 0 => others[in] = events[in]
  BY <1>6
<1> HIDE DEF in
<1> QED BY <1>2, <1>4, <1>7 DEF NextPlace, InMapping, in

LEMMA PlacesAre ==
    ASSUME NEW events, Len(events) \in Nat
    PROVE  ArePlaces(Places(events), events, Len(events) + 1)
<1> DEFINE S == {n \in Nat : \E f : ArePlaces(f, events, n)}
<1>1. 0 \in S
  <2> DEFINE f == [p \in 0 .. 0 |-> Outside]
  <2>1. ArePlaces(f, events, 0)
    BY DEF ArePlaces, Outside
  <2> QED BY <2>1
<1>2. ASSUME NEW n \in Nat, n \in S
      PROVE  n + 1 \in S
  <2>1. PICK f : ArePlaces(f, events, n)
    BY <1>2
  <2> DEFINE last == IF n + 1 <= 1 THEN Outside ELSE NextPlace(f, events, n + 1)
             g == [p \in 0 .. n + 1 |-> IF p = n + 1 THEN last ELSE f[p]]
  <2>2. \A q \in 0 .. n : /\ f[q] \in [in : Nat, key : BOOLEAN]
                          /\ f[q].in = 0 \/ f[q].in < q
    BY <2>1 DEF ArePlaces
  <2>3. /\ last \in [in : Nat, key : BOOLEAN]
        /\ last.in = 0 \/ last.in < n + 1
    <3>1. CASE n + 1 <= 1
      BY <3>1 DEF Outside
    <3>2. CASE ~(n + 1 <= 1)
      <4>1. (n + 1) - 1 = n /\ n + 1 >= 2 /\ n + 1 \in Nat
        BY <3>2
      <4>2. /\ NextPlace(f, events, n + 1) \in [in : Nat, key : BOOLEAN]
            /\ NextPlace(f, events, n + 1).in < n + 1
        BY <2>2, <4>1, NextPlaceIs
      <4> QED BY <3>2, <4>2
    <3> QED BY <3>1, <3>2
  <2>4. g[n + 1] = last /\ \A q \in 0 .. n : g[q] = f[q]
    OBVIOUS
  <2>5. ASSUME NEW p \in 0 .. n + 1, p > 1
        PROVE  NextPlace(g, events, p) = NextPlace(f, events, p)
    <3>1. \A q \in 0 .. p - 1 : /\ f[q] \in [in : Nat, key : BOOLEAN]
                                /\ f[q].in = 0 \/ f[q].in < q
                                /\ g[q] = f[q]
      BY <2>2, <2>4
    <3> HIDE DEF g
    <3> QED BY <2>5, <3>1, NextPlaceSame
  <2>6. g = [p \in 0 .. n + 1 |-> g[p]]
    OBVIOUS
  <2> HIDE DEF g
  <2>7. ASSUME NEW p \in 0 .. n + 1
        PROVE  /\ g[p] = IF p <= 1 THEN Outside ELSE NextPlace(g, events, p)
               /\ g[p] \in [in : Nat, key : BOOLEAN]
               /\ g[p].in = 0 \/ g[p].in < p
    <3>1. CASE p = n + 1
      BY <2>3, <2>4, <2>5, <3>1
    <3>2. CASE p # n + 1
      <4>1. p \in 0 .. n
        BY <3>2
      <4>2. f[p] = IF p <= 1 THEN Outside ELSE NextPlace(f, events, p)
        BY <2>1, <4>1 DEF ArePlaces
      <4>3. p > 1 \/ p <= 1
        OBVIOUS
      <4> QED BY <2>2, <2>4, <2>5, <4>1, <4>2, <4>3
    <3> QED BY <3>1, <3>2
  <2>8. ArePlaces(g, events, n + 1)
    BY <2>6, <2>7 DEF ArePlaces
  <2> QED BY <2>8
<1>3. Nat \subseteq S
  <2> HIDE DEF S
  <2> QED BY <1>1, <1>2, SetInduction
<1>4. Len(events) + 1 \in S
  BY <1>3
<1>5. PICK f : ArePlaces(f, events, Len(events) + 1)
  BY <1>4
<1> DEFINE body(place, p) ==
             IF p <= 1 THEN [in |-> 0, key |-> FALSE]
             ELSE LET event  == events[p - 1]
                      before == place[p - 1]
                      in     == IF event.type \in Starts THEN p - 1
                                ELSE IF event.type \in Ends THEN place[before.in].in
                                ELSE before.in
                  IN [in  |-> in,
                      key |-> /\ InMapping(events, in)
                              /\ ~(before.key /\ event.type = "SCALAR")]
           all == 0 .. Len(events) + 1
<1>6. Places(events) = CHOOSE place : place = [p \in all |-> body(place, p)]
  BY DEF Places
<1>7. \A place : \A p : body(place, p) = IF p <= 1 THEN Outside ELSE NextPlace(place, events, p)
  BY DEF NextPlace, NextIn, Outside
<1> HIDE DEF body
<1>8. f = [p \in all |-> body(f, p)]
  BY <1>5, <1>7 DEF ArePlaces
<1>9. Places(events) = [p \in all |-> body(Places(events), p)]
  BY <1>6, <1>8
<1> DEFINE place == Places(events)
<1> HIDE DEF place
<1>10. place = [p \in all |-> body(place, p)]
  BY <1>9 DEF place
<1>11. place = [p \in all |-> place[p]]
  BY <1>10
<1>12. \A p \in all : place[p] = IF p <= 1 THEN Outside ELSE NextPlace(place, events, p)
  BY <1>7, <1>10
<1> DEFINE T == {n \in Nat : \A p \in 0 .. n : p \in all =>
                    /\ place[p] \in [in : Nat, key : BOOLEAN]
                    /\ place[p].in = 0 \/ place[p].in < p}
<1>13. 0 \in T
  <2>1. 0 \in all => place[0] = Outside
    BY <1>12
  <2>2. Outside \in [in : Nat, key : BOOLEAN] /\ Outside.in = 0
    BY DEF Outside
  <2> QED BY <2>1, <2>2
<1>14. ASSUME NEW n \in Nat, n \in T
       PROVE  n + 1 \in T
  <2> SUFFICES ASSUME NEW p \in 0 .. n + 1, p \in all
               PROVE  /\ place[p] \in [in : Nat, key : BOOLEAN]
                      /\ place[p].in = 0 \/ place[p].in < p
    OBVIOUS
  <2>1. CASE p <= n
    BY <1>14, <2>1
  <2>2. CASE p <= 1
    <3>1. place[p] = Outside
      BY <1>12, <2>2
    <3> QED BY <3>1 DEF Outside
  <2>3. CASE p = n + 1 /\ p > 1
    <3>1. \A q \in 0 .. p - 1 : /\ place[q] \in [in : Nat, key : BOOLEAN]
                                /\ place[q].in = 0 \/ place[q].in < q
      BY <1>14, <2>3
    <3>2. place[p] = NextPlace(place, events, p) /\ p \in Nat /\ p >= 2
      BY <1>12, <2>3
    <3> QED BY <3>1, <3>2, NextPlaceIs
  <2> QED BY <2>1, <2>2, <2>3
<1>15. Nat \subseteq T
  <2> HIDE DEF T
  <2> QED BY <1>13, <1>14, SetInduction
<1>16. Len(events) + 1 \in T
  BY <1>15
<1> QED BY <1>11, <1>12, <1>16 DEF ArePlaces, place
-----------------------------------------------------------------------------
(***************************************************************************)
(* One more event: the places of those before it stay.                     *)
(***************************************************************************)
LEMMA PlaceType ==
    ASSUME NEW s, Len(s) \in Nat, NEW p \in 0 .. Len(s) + 1
    PROVE  /\ Places(s)[p] \in [in : Nat, key : BOOLEAN]
           /\ Places(s)[p].in \in 0 .. Len(s) /\ Places(s)[p].in <= p
           /\ p >= 1 => Places(s)[p].in < p
<1>1. ArePlaces(Places(s), s, Len(s) + 1)
  BY PlacesAre
<1>2. /\ Places(s)[p] \in [in : Nat, key : BOOLEAN]
      /\ Places(s)[p].in = 0 \/ Places(s)[p].in < p
  BY <1>1 DEF ArePlaces
<1> QED BY <1>2

LEMMA PlacesKept ==
    ASSUME NEW s \in Seq(Events), NEW e \in Events, NEW p \in 0 .. Len(s) + 1
    PROVE  Places(Append(s, e))[p] = Places(s)[p]
<1> DEFINE t == Append(s, e)
           n == Len(s)
           at == Places(s)
           later == Places(t)
           S == {m \in Nat : \A q \in 0 .. m : q <= n + 1 => later[q] = at[q]}
<1>1. Len(t) = n + 1 /\ n \in Nat /\ \A q \in 1 .. n : t[q] = s[q]
  OBVIOUS
<1>2. ArePlaces(at, s, n + 1) /\ ArePlaces(later, t, n + 2)
  <2>1. Len(t) + 1 = n + 2
    BY <1>1
  <2>2. Len(s) \in Nat /\ Len(t) \in Nat
    BY <1>1
  <2>3. ArePlaces(at, s, Len(s) + 1)
    BY <2>2, PlacesAre
  <2>4. ArePlaces(later, t, Len(t) + 1)
    BY <2>2, PlacesAre
  <2> QED BY <2>1, <2>3, <2>4
<1> HIDE DEF t, at, later, n
<1>3. \A q \in 0 .. n + 1 :
         /\ at[q] = IF q <= 1 THEN Outside ELSE NextPlace(at, s, q)
         /\ later[q] = IF q <= 1 THEN Outside ELSE NextPlace(later, t, q)
         /\ at[q] \in [in : Nat, key : BOOLEAN]
         /\ at[q].in = 0 \/ at[q].in < q
  <2> TAKE q \in 0 .. n + 1
  <2>1. q \in 0 .. n + 2
    BY <1>1
  <2>2. later[q] = IF q <= 1 THEN Outside ELSE NextPlace(later, t, q)
    BY <1>2, <2>1 DEF ArePlaces
  <2> QED BY <1>2, <2>2 DEF ArePlaces
<1>4. 0 \in S
  BY <1>1, <1>3
<1>5. ASSUME NEW m \in Nat, m \in S
      PROVE  m + 1 \in S
  <2> SUFFICES ASSUME NEW q \in 0 .. m + 1, q <= n + 1
               PROVE  later[q] = at[q]
    OBVIOUS
  <2>1. CASE q <= m
    BY <1>5, <2>1
  <2>2. CASE q <= 1
    BY <1>1, <1>3, <2>2
  <2>3. CASE q = m + 1 /\ q > 1
    <3>1. \A r \in 0 .. q - 1 : /\ at[r] \in [in : Nat, key : BOOLEAN]
                                /\ at[r].in = 0 \/ at[r].in < r
                                /\ later[r] = at[r]
      BY <1>1, <1>3, <1>5, <2>3
    <3>2. \A r \in 1 .. q - 1 : t[r] = s[r]
      BY <1>1
    <3>3. NextPlace(later, t, q) = NextPlace(at, s, q)
      BY <2>3, <3>1, <3>2, NextPlaceSame
    <3> QED BY <1>1, <1>3, <2>3, <3>3
  <2> QED BY <2>1, <2>2, <2>3
<1>6. Nat \subseteq S
  <2> HIDE DEF S
  <2> QED BY <1>4, <1>5, SetInduction
<1>7. p \in S /\ p <= n + 1 /\ p \in 0 .. p
  BY <1>1, <1>6 DEF n
<1> QED BY <1>7 DEF t, at, later, n

\* What an event stands in has begun before, and is a collection.
LEMMA InsideStarts ==
    ASSUME NEW s, Len(s) \in Nat, NEW p \in 0 .. Len(s) + 1, Places(s)[p].in # 0
    PROVE  Places(s)[p].in \in 1 .. Len(s) /\ s[Places(s)[p].in].type \in Starts
<1> DEFINE at == Places(s)
           n == Len(s)
           S == {m \in Nat : \A q \in 0 .. m :
                    q <= n + 1 /\ at[q].in # 0 => s[at[q].in].type \in Starts}
<1>1. ArePlaces(at, s, n + 1)
  BY PlacesAre
<1>2. \A q \in 0 .. n + 1 : /\ at[q] \in [in : Nat, key : BOOLEAN]
                            /\ at[q].in <= q
                            /\ q >= 1 => at[q].in < q
                            /\ at[q] = IF q <= 1 THEN Outside ELSE NextPlace(at, s, q)
  <2> TAKE q \in 0 .. n + 1
  <2>1. /\ at[q] \in [in : Nat, key : BOOLEAN]
        /\ at[q].in = 0 \/ at[q].in < q
        /\ at[q] = IF q <= 1 THEN Outside ELSE NextPlace(at, s, q)
    BY <1>1 DEF ArePlaces
  <2> HIDE DEF at
  <2> QED BY <2>1
<1> HIDE DEF at, n
<1>3. 0 \in S
  BY <1>2 DEF Outside, n
<1>4. ASSUME NEW m \in Nat, m \in S
      PROVE  m + 1 \in S
  <2> SUFFICES ASSUME NEW q \in 0 .. m + 1, q <= n + 1, at[q].in # 0
               PROVE  s[at[q].in].type \in Starts
    OBVIOUS
  <2>1. CASE q <= m
    BY <1>4, <2>1
  <2>2. CASE q <= 1
    <3>1. at[q] = Outside
      BY <1>2, <2>2 DEF n
    <3> QED BY <3>1 DEF Outside
  <2>3. CASE q = m + 1 /\ q > 1
    <3>1. at[q].in = NextIn(at, s[q - 1], q)
      <4>1. at[q] = NextPlace(at, s, q)
        BY <1>2, <2>3 DEF n
      <4> QED BY <4>1 DEF NextPlace
    <3>2. q - 1 \in 0 .. m /\ q - 1 <= n + 1 /\ q - 1 \in 0 .. n + 1
      BY <2>3 DEF n
    <3>3. at[q - 1].in \in 0 .. m /\ at[q - 1].in <= n + 1
      BY <1>2, <2>3, <3>2 DEF n
    <3> QED BY <1>4, <3>1, <3>2, <3>3 DEF NextIn
  <2> QED BY <2>1, <2>2, <2>3
<1>5. Nat \subseteq S
  <2> HIDE DEF S
  <2> QED BY <1>3, <1>4, SetInduction
<1>6. p \in S
  BY <1>5
<1>7. s[at[p].in].type \in Starts
  BY <1>6 DEF at, n
<1> QED BY <1>7, PlaceType DEF at

\* A collection is a sequence or a mapping; before the event e and after it.
LEMMA InsideOf ==
    ASSUME NEW s \in Seq(Events), NEW e \in Events, NEW c \in 0 .. Len(s)
    PROVE  /\ InMapping(Append(s, e), c) <=> InMapping(s, c)
           /\ InSequence(Append(s, e), c) <=> InSequence(s, c)
  BY DEF InMapping, InSequence

LEMMA OneOfBoth ==
    ASSUME NEW s \in Seq(Events), NEW p \in 0 .. Len(s) + 1
    PROVE  LET c == Places(s)[p].in
           IN IF c = 0 THEN ~InMapping(s, c) /\ ~InSequence(s, c)
                       ELSE InMapping(s, c) <=> ~InSequence(s, c)
<1>1. Len(s) \in Nat
  OBVIOUS
<1>2. Places(s)[p].in # 0 => s[Places(s)[p].in].type \in Starts
  BY <1>1, InsideStarts
<1> QED BY <1>2 DEF InMapping, InSequence, Starts

LEMMA KeyInMapping ==
    ASSUME NEW s \in Seq(Events), NEW p \in 0 .. Len(s) + 1, Places(s)[p].key
    PROVE  InMapping(s, Places(s)[p].in)
<1>1. ArePlaces(Places(s), s, Len(s) + 1)
  BY PlacesAre
<1>2. Places(s)[p] = IF p <= 1 THEN Outside ELSE NextPlace(Places(s), s, p)
  BY <1>1 DEF ArePlaces
<1> QED BY <1>2 DEF Outside, NextPlace

(***************************************************************************)
(* The place after an event e.                                             *)
(***************************************************************************)
PlaceAfter(s, e) == Places(Append(s, e))[Len(s) + 2]

LEMMA AfterIs ==
    ASSUME NEW s \in Seq(Events), NEW e \in Events
    PROVE  LET here == Places(s)[Len(s) + 1]
               in   == IF e.type \in Starts THEN Len(s) + 1
                       ELSE IF e.type \in Ends THEN Places(s)[here.in].in
                       ELSE here.in
           IN PlaceAfter(s, e) = [in  |-> in,
                                  key |-> /\ InMapping(Append(s, e), in)
                                          /\ ~(here.key /\ e.type = "SCALAR")]
<1> DEFINE t == Append(s, e)
           n == Len(s)
<1>1. Len(t) = n + 1 /\ n \in Nat /\ t[n + 1] = e
  OBVIOUS
<1>2. ArePlaces(Places(t), t, n + 2)
  <2>1. Len(t) + 1 = n + 2 /\ Len(t) \in Nat
    BY <1>1
  <2>2. ArePlaces(Places(t), t, Len(t) + 1)
    BY <2>1, PlacesAre
  <2> QED BY <2>1, <2>2
<1>3. Places(t)[n + 2] = NextPlace(Places(t), t, n + 2)
  BY <1>1, <1>2 DEF ArePlaces
<1>4. Places(t)[n + 1] = Places(s)[n + 1]
  BY <1>1, PlacesKept
<1>5. Places(s)[n + 1].in \in 0 .. n + 1
  BY <1>1, PlaceType
<1>6. Places(t)[Places(s)[n + 1].in] = Places(s)[Places(s)[n + 1].in]
  BY <1>1, <1>5, PlacesKept
<1>7. (n + 2) - 1 = n + 1
  BY <1>1
<1> HIDE DEF t, n
<1>8. Places(t)[n + 2] =
         LET in == NextIn(Places(t), e, n + 2)
         IN [in |-> in,
             key |-> InMapping(t, in) /\ ~(Places(s)[n + 1].key /\ e.type = "SCALAR")]
  BY <1>1, <1>3, <1>4, <1>7 DEF NextPlace
<1>9. NextIn(Places(t), e, n + 2) =
         IF e.type \in Starts THEN n + 1
         ELSE IF e.type \in Ends THEN Places(s)[Places(s)[n + 1].in].in
         ELSE Places(s)[n + 1].in
  BY <1>4, <1>6, <1>7 DEF NextIn
<1> QED BY <1>8, <1>9 DEF PlaceAfter, t, n
-----------------------------------------------------------------------------
(***************************************************************************)
(* One more event: what is described before it stays, and what it adds.    *)
(***************************************************************************)
Here(s) == Places(s)[Len(s) + 1]

Adds(s, e) ==
    \/ e.type \in Starts
    \/ /\ e.type = "SCALAR" /\ ~Here(s).key
       /\ InSequence(s, Here(s).in) => Inner(e.value) # <<>>

Allows(s, e) ==
    /\ e.type # "ALIAS"
    /\ e.type = "DOCUMENT_START" <=> Len(s) = 1
    /\ e.type \in NodeEvents /\ Here(s).in = 0 => e.type = "MAPPING_START"
    /\ e.type \in NodeEvents /\ Here(s).key => e.type = "SCALAR"
    /\ InSequence(s, Here(s).in) =>
          e.type # "SEQUENCE_START" /\ (e.type = "SCALAR" => ~Padded(e.value))

LEMMA Appended ==
    ASSUME NEW s \in Seq(Events), NEW e \in Events
    PROVE  /\ Len(s) \in Nat
           /\ Append(s, e) \in Seq(Events) /\ Len(Append(s, e)) = Len(s) + 1
           /\ \A p \in 1 .. Len(s) : Append(s, e)[p] = s[p]
           /\ Append(s, e)[Len(s) + 1] = e
           /\ \A p \in 1 .. Len(s) + 1 : Places(Append(s, e))[p] = Places(s)[p]
           /\ \A p \in 1 .. Len(s) + 1 : Places(s)[p].in \in 0 .. Len(s)
           /\ \A p \in 1 .. Len(s) + 1 : Places(s)[p].in < p
<1>1. Len(s) \in Nat
  OBVIOUS
<1>2. \A p \in 1 .. Len(s) + 1 : Places(Append(s, e))[p] = Places(s)[p]
  BY <1>1, PlacesKept
<1>3. \A p \in 1 .. Len(s) + 1 : Places(s)[p].in \in 0 .. Len(s) /\ Places(s)[p].in < p
  <2> TAKE p \in 1 .. Len(s) + 1
  <2>1. p \in 0 .. Len(s) + 1 /\ p >= 1
    BY <1>1
  <2> QED BY <1>1, <2>1, PlaceType
<1> QED BY <1>1, <1>2, <1>3

LEMMA DatumAfter ==
    ASSUME NEW s \in Seq(Events), NEW e \in Events
    PROVE  LET t == Append(s, e)
           IN /\ \A p \in 1 .. Len(s) :
                    IsDatum(t, Places(t)[p], p) <=> IsDatum(s, Places(s)[p], p)
              /\ IsDatum(t, Places(t)[Len(s) + 1], Len(s) + 1) <=> Adds(s, e)
<1> DEFINE t == Append(s, e)
<1>1. ASSUME NEW p \in 1 .. Len(s)
      PROVE  IsDatum(t, Places(t)[p], p) <=> IsDatum(s, Places(s)[p], p)
  <2>1. /\ p \in 1 .. Len(s) + 1 /\ t[p] = s[p] /\ Places(t)[p] = Places(s)[p]
        /\ Places(s)[p].in \in 0 .. Len(s)
    BY Appended
  <2>2. InSequence(t, Places(s)[p].in) <=> InSequence(s, Places(s)[p].in)
    BY <2>1, InsideOf
  <2> HIDE DEF t
  <2> QED BY <2>1, <2>2 DEF IsDatum
<1>2. IsDatum(t, Places(t)[Len(s) + 1], Len(s) + 1) <=> Adds(s, e)
  <2>1. /\ Len(s) + 1 \in 1 .. Len(s) + 1 /\ t[Len(s) + 1] = e
        /\ Places(t)[Len(s) + 1] = Here(s) /\ Here(s).in \in 0 .. Len(s)
    BY Appended DEF Here
  <2>2. InSequence(t, Here(s).in) <=> InSequence(s, Here(s).in)
    BY <2>1, InsideOf
  <2> HIDE DEF t
  <2> QED BY <2>1, <2>2 DEF IsDatum, Adds
<1> QED BY <1>1, <1>2

LEMMA DataAfter ==
    ASSUME NEW s \in Seq(Events), NEW e \in Events
    PROVE  /\ Data(s) \subseteq 1 .. Len(s)
           /\ Data(Append(s, e)) = IF Adds(s, e) THEN Data(s) \cup {Len(s) + 1} ELSE Data(s)
<1> DEFINE t == Append(s, e)
           n == Len(s)
<1>1. /\ Data(s) = {p \in 1 .. n : IsDatum(s, Places(s)[p], p)}
      /\ Data(t) = {p \in 1 .. n + 1 : IsDatum(t, Places(t)[p], p)}
  BY Appended DEF Data
<1>2. /\ \A p \in 1 .. n : IsDatum(t, Places(t)[p], p) <=> IsDatum(s, Places(s)[p], p)
      /\ IsDatum(t, Places(t)[n + 1], n + 1) <=> Adds(s, e)
  BY DatumAfter
<1>3. n \in Nat
  OBVIOUS
<1> HIDE DEF t, n
<1>4. ASSUME NEW p
      PROVE  p \in 1 .. n + 1 <=> p \in 1 .. n \/ p = n + 1
  BY <1>3
<1>5. n + 1 \notin 1 .. n
  BY <1>3
<1>6. \A p : p \in Data(t) <=> p \in Data(s) \/ (p = n + 1 /\ Adds(s, e))
  BY <1>1, <1>2, <1>4, <1>5
<1>7. Data(t) = IF Adds(s, e) THEN Data(s) \cup {n + 1} ELSE Data(s)
  BY <1>6
<1> QED BY <1>1, <1>7 DEF t, n

LEMMA WithinAfter ==
    ASSUME NEW s \in Seq(Events), NEW e \in Events, NEW c
    PROVE  /\ Within(s, c) \subseteq Data(s)
           /\ Within(Append(s, e), c) = IF Adds(s, e) /\ Here(s).in = c
                                        THEN Within(s, c) \cup {Len(s) + 1} ELSE Within(s, c)
<1> DEFINE t == Append(s, e)
           n == Len(s)
<1>1. /\ Within(s, c) = {p \in Data(s) : Places(s)[p].in = c}
      /\ Within(t, c) = {p \in Data(t) : Places(t)[p].in = c}
  BY DEF Within
<1>2. /\ Data(s) \subseteq 1 .. n
      /\ Data(t) = IF Adds(s, e) THEN Data(s) \cup {n + 1} ELSE Data(s)
  BY DataAfter
<1>3. \A p \in 1 .. n + 1 : Places(t)[p] = Places(s)[p]
  BY Appended
<1>4. n \in Nat
  OBVIOUS
<1>5. Here(s) = Places(s)[n + 1]
  BY DEF Here
<1> HIDE DEF t, n
<1>6. \A p \in Data(s) : Places(t)[p] = Places(s)[p]
  <2> TAKE p \in Data(s)
  <2>1. p \in 1 .. n + 1
    BY <1>2, <1>4
  <2> QED BY <1>3, <2>1
<1>7. Places(t)[n + 1] = Here(s)
  BY <1>3, <1>4, <1>5
<1>8. \A p : p \in Within(t, c) <=>
                p \in Within(s, c) \/ (p = n + 1 /\ Adds(s, e) /\ Here(s).in = c)
  BY <1>1, <1>2, <1>6, <1>7
<1>9. Within(t, c) = IF Adds(s, e) /\ Here(s).in = c THEN Within(s, c) \cup {n + 1}
                                                     ELSE Within(s, c)
  BY <1>8
<1> QED BY <1>1, <1>9 DEF t, n

LEMMA ReadableAfter ==
    ASSUME NEW s \in Seq(Events), NEW e \in Events, Readable(Append(s, e))
    PROVE  Readable(s) /\ Allows(s, e)
<1> DEFINE t == Append(s, e)
           n == Len(s)
<1>1. ASSUME NEW p \in 1 .. n
      PROVE  ReadableAt(s, Places(s), p)
  <2>1. /\ p \in 1 .. n + 1 /\ t[p] = s[p] /\ Places(t)[p] = Places(s)[p]
        /\ Places(s)[p].in \in 0 .. n
    BY Appended
  <2>2. InSequence(t, Places(s)[p].in) <=> InSequence(s, Places(s)[p].in)
    BY <2>1, InsideOf
  <2>3. ReadableAt(t, Places(t), p)
    BY <2>1, Appended DEF Readable
  <2> HIDE DEF t
  <2> QED BY <2>1, <2>2, <2>3 DEF ReadableAt
<1>2. Allows(s, e)
  <2>1. /\ n + 1 \in 1 .. n + 1 /\ t[n + 1] = e /\ Len(t) = n + 1 /\ n \in Nat
        /\ Places(t)[n + 1] = Here(s) /\ Here(s).in \in 0 .. n
    BY Appended DEF Here
  <2>2. InSequence(t, Here(s).in) <=> InSequence(s, Here(s).in)
    BY <2>1, InsideOf
  <2>3. ReadableAt(t, Places(t), n + 1)
    BY <2>1 DEF Readable
  <2>4. \A k \in Nat : (k + 1 = 2) <=> (k = 1)
    OBVIOUS
  <2>5. (Len(s) + 1 = 2) <=> (Len(s) = 1)
    BY <2>1, <2>4
  <2> HIDE DEF t
  <2> QED BY <2>1, <2>2, <2>3, <2>5 DEF ReadableAt, Allows
<1> QED BY <1>1, <1>2 DEF Readable

LEMMA DescribedAfter ==
    ASSUME NEW s \in Seq(Events), NEW e \in Events, NEW p \in 1 .. Len(s), NEW in \in 0 .. Len(s)
    PROVE  Described(Append(s, e), in, p) = Described(s, in, p)
<1>1. Append(s, e)[p] = s[p]
  BY Appended
<1>2. InSequence(Append(s, e), in) <=> InSequence(s, in)
  BY InsideOf
<1> QED BY <1>1, <1>2 DEF Described

\* The key of a value is before it.
LEMMA KeyAfter ==
    ASSUME NEW s \in Seq(Events), NEW e \in Events, NEW c, NEW q \in 1 .. Len(s) + 1,
           Places(s)[q].in = c
    PROVE  KeyOf(Append(s, e), c, q) = IF InMapping(s, c) THEN s[q - 1].value ELSE NULL
<1>1. c \in 0 .. Len(s) /\ c < q /\ Len(s) \in Nat
  BY Appended
<1>2. InMapping(Append(s, e), c) <=> InMapping(s, c)
  BY <1>1, InsideOf
<1>3. InMapping(s, c) => c # 0
  BY DEF InMapping
<1>4. InMapping(s, c) => q - 1 \in 1 .. Len(s)
  BY <1>1, <1>3
<1> QED BY <1>2, <1>4, Appended DEF KeyOf
-----------------------------------------------------------------------------
(***************************************************************************)
(* The node that p begins is as described.                                 *)
(***************************************************************************)
IsAsDescribed(store, events, p) ==
    LET all    == Data(events)
        node   == store[Rank(all, p)]
        within == Within(events, p)
        what   == Described(events, Places(events)[p].in, p)
    IN /\ node.type = what.type /\ node.text = what.text
       /\ Len(node.cells) = Cardinality(within)
       /\ \A q \in within :
             node.cells[Rank(within, q)] = [key |-> KeyOf(events, p, q), value |-> Rank(all, q)]

LEMMA EachIsDescribed ==
    ASSUME NEW store, NEW events
    PROVE  AreDescribed(store, events) <=>
              /\ Len(store) = Cardinality(Data(events))
              /\ \A p \in Data(events) : IsAsDescribed(store, events, p)
  BY DEF AreDescribed, IsAsDescribed

\* What is the same of an event p before and after e.
LEMMA SameAfter ==
    ASSUME NEW s \in Seq(Events), NEW e \in Events, NEW p \in Data(s)
    PROVE  /\ p \in 1 .. Len(s) /\ p \in Data(Append(s, e))
           /\ Places(Append(s, e))[p] = Places(s)[p]
           /\ Rank(Data(Append(s, e)), p) = Rank(Data(s), p)
           /\ Rank(Data(s), p) \in 1 .. Cardinality(Data(s))
           /\ Described(Append(s, e), Places(s)[p].in, p) = Described(s, Places(s)[p].in, p)
           /\ \A q \in Within(s, p) :
                 /\ q \in Data(s)
                 /\ KeyOf(Append(s, e), p, q) = KeyOf(s, p, q)
                 /\ Rank(Within(Append(s, e), p), q) = Rank(Within(s, p), q)
                 /\ Rank(Within(s, p), q) \in 1 .. Cardinality(Within(s, p))
<1> DEFINE t == Append(s, e)
           n == Len(s)
<1>1. /\ n \in Nat /\ Data(s) \in SUBSET (1 .. n)
      /\ Data(t) = Data(s) \/ Data(t) = Data(s) \cup {n + 1}
  BY Appended, DataAfter
<1>2. p \in 1 .. n /\ p \in 1 .. n + 1
  BY <1>1
<1>3. Places(t)[p] = Places(s)[p] /\ Places(s)[p].in \in 0 .. n
  BY <1>2, Appended
<1>4. Rank(Data(t), p) = Rank(Data(s), p)
  BY <1>1, <1>2, RankAdded
<1>5. Rank(Data(s), p) \in 1 .. Cardinality(Data(s))
  BY <1>1, RankIn
<1>6. Described(t, Places(s)[p].in, p) = Described(s, Places(s)[p].in, p)
  BY <1>2, <1>3, DescribedAfter
<1>7. ASSUME NEW q \in Within(s, p)
      PROVE  /\ q \in Data(s)
             /\ KeyOf(t, p, q) = KeyOf(s, p, q)
             /\ Rank(Within(t, p), q) = Rank(Within(s, p), q)
             /\ Rank(Within(s, p), q) \in 1 .. Cardinality(Within(s, p))
  <2>1. /\ Within(s, p) \in SUBSET (1 .. n) /\ q \in Data(s)
        /\ Within(t, p) = Within(s, p) \/ Within(t, p) = Within(s, p) \cup {n + 1}
    BY <1>1, WithinAfter
  <2>2. q \in 1 .. n /\ q \in 1 .. n + 1
    BY <1>1, <2>1
  <2>3. Rank(Within(t, p), q) = Rank(Within(s, p), q)
    <3>1. Rank(Within(s, p) \cup {n + 1}, q) = Rank(Within(s, p), q)
      BY <1>1, <2>1, <2>2, RankAdded
    <3> QED BY <2>1, <3>1
  <2>4. Rank(Within(s, p), q) \in 1 .. Cardinality(Within(s, p))
    BY <1>1, <2>1, RankIn
  <2>5. Places(s)[q].in = p
    BY DEF Within
  <2>6. KeyOf(t, p, q) = KeyOf(s, p, q)
    BY <2>2, <2>5, KeyAfter DEF KeyOf
  <2> QED BY <2>1, <2>3, <2>4, <2>6
<1> QED BY <1>1, <1>2, <1>3, <1>4, <1>5, <1>6, <1>7

LEMMA NothingAdded ==
    ASSUME NEW s \in Seq(Events), NEW e \in Events, NEW store,
           AreDescribed(store, s), ~Adds(s, e)
    PROVE  AreDescribed(store, Append(s, e))
<1> DEFINE t == Append(s, e)
<1>1. Data(t) = Data(s)
  BY DataAfter
<1>2. ASSUME NEW p \in Data(s)
      PROVE  IsAsDescribed(store, t, p)
  <2>1. IsAsDescribed(store, s, p)
    BY EachIsDescribed
  <2>2. Within(t, p) = Within(s, p)
    BY WithinAfter
  <2>3. /\ Places(t)[p] = Places(s)[p]
        /\ Described(t, Places(s)[p].in, p) = Described(s, Places(s)[p].in, p)
        /\ \A q \in Within(s, p) : KeyOf(t, p, q) = KeyOf(s, p, q)
    BY SameAfter
  <2> HIDE DEF t
  <2> QED BY <1>1, <2>1, <2>2, <2>3 DEF IsAsDescribed
<1> QED BY <1>1, <1>2, EachIsDescribed

(***************************************************************************)
(* A node for e, the last cell of the collection c.                        *)
(***************************************************************************)
Extends(store, next, h, node, under) ==
    LET new == Len(store) + 1 IN
    /\ Len(next) = new /\ next[new] = node
    /\ \A k \in 1 .. Len(store) :
          /\ next[k].type = store[k].type /\ next[k].text = store[k].text
          /\ k # h => next[k].cells = store[k].cells
    /\ h # 0 => next[h].cells = Append(store[h].cells, [key |-> under, value |-> new])

LEMMA NodeAdded ==
    ASSUME NEW s \in Seq(Events), NEW e \in Events, NEW store \in Seq(Node), NEW next, NEW node,
           AreDescribed(store, s), Adds(s, e),
           Here(s).in # 0 => Here(s).in \in Data(s),
           node.type = Described(Append(s, e), Here(s).in, Len(s) + 1).type,
           node.text = Described(Append(s, e), Here(s).in, Len(s) + 1).text,
           node.cells = <<>>,
           Extends(store, next, IF Here(s).in = 0 THEN 0 ELSE Rank(Data(s), Here(s).in), node,
                   KeyOf(Append(s, e), Here(s).in, Len(s) + 1))
    PROVE  AreDescribed(next, Append(s, e))
<1> DEFINE t == Append(s, e)
           n == Len(s)
           c == Here(s).in
           h == IF c = 0 THEN 0 ELSE Rank(Data(s), c)
           under == KeyOf(t, c, n + 1)
           new == Len(store) + 1
<1>1. /\ n \in Nat /\ Data(s) \in SUBSET (1 .. n) /\ Data(t) = Data(s) \cup {n + 1}
      /\ n + 1 \notin Data(s)
  <2>1. Data(s) \subseteq 1 .. n /\ Data(t) = Data(s) \cup {n + 1} /\ n \in Nat
    BY Appended, DataAfter
  <2>2. n + 1 \notin 1 .. n
    OBVIOUS
  <2> QED BY <2>1, <2>2
<1>2. /\ Len(store) = Cardinality(Data(s)) /\ Len(store) \in Nat
      /\ Cardinality(Data(t)) = new /\ Rank(Data(t), n + 1) = new
  <2>1. Len(store) = Cardinality(Data(s)) /\ Len(store) \in Nat
    BY EachIsDescribed
  <2>2. /\ Cardinality(Data(s) \cup {n + 1}) = Cardinality(Data(s)) + 1
        /\ Rank(Data(s) \cup {n + 1}, n + 1) = Cardinality(Data(s)) + 1
    BY <1>1, RankAdded
  <2> QED BY <1>1, <2>1, <2>2
<1>3. Extends(store, next, h, node, under)
  OBVIOUS
<1>4. c # n + 1 /\ Places(t)[n + 1].in = c
  <2>1. n + 1 \in 1 .. n + 1
    BY <1>1
  <2>2. Places(s)[n + 1].in < n + 1 /\ Places(t)[n + 1] = Places(s)[n + 1]
    BY <2>1, Appended
  <2>3. Places(s)[n + 1].in \in 0 .. n
    BY <2>1, Appended
  <2> QED BY <1>1, <2>2, <2>3 DEF Here
<1>5. ASSUME NEW p \in Data(s), p # c
      PROVE  IsAsDescribed(next, t, p)
  <2>1. IsAsDescribed(store, s, p)
    BY EachIsDescribed
  <2>2. Within(t, p) = Within(s, p)
    BY <1>5, WithinAfter
  <2>3. /\ Places(t)[p] = Places(s)[p]
        /\ Rank(Data(t), p) = Rank(Data(s), p)
        /\ Rank(Data(s), p) \in 1 .. Cardinality(Data(s))
        /\ Described(t, Places(s)[p].in, p) = Described(s, Places(s)[p].in, p)
        /\ \A q \in Within(s, p) : q \in Data(s) /\ KeyOf(t, p, q) = KeyOf(s, p, q)
    BY SameAfter
  <2>4. \A q \in Within(s, p) : Rank(Data(t), q) = Rank(Data(s), q)
    BY <2>3, SameAfter
  <2>5. Rank(Data(s), p) # h
    <3>1. CASE c = 0
      BY <1>2, <2>3, <3>1
    <3>2. CASE c # 0
      <4>1. c \in Data(s) /\ h = Rank(Data(s), c)
        BY <3>2
      <4> QED BY <1>1, <1>5, <4>1, RankIsUnique
    <3> QED BY <3>1, <3>2
  <2>6. LET k == Rank(Data(s), p)
        IN /\ next[k].type = store[k].type /\ next[k].text = store[k].text
           /\ next[k].cells = store[k].cells
    BY <1>2, <1>3, <2>3, <2>5 DEF Extends
  <2> HIDE DEF t, n, c, h, under, new
  <2> QED BY <2>1, <2>2, <2>3, <2>4, <2>6 DEF IsAsDescribed
<1>6. ASSUME c \in Data(s)
      PROVE  IsAsDescribed(next, t, c)
  <2>1. IsAsDescribed(store, s, c)
    BY <1>6, EachIsDescribed
  <2>2. Within(t, c) = Within(s, c) \cup {n + 1}
    BY WithinAfter
  <2>3. /\ c \in 1 .. n /\ c # 0 /\ h = Rank(Data(s), c)
        /\ Places(t)[c] = Places(s)[c]
        /\ Rank(Data(t), c) = Rank(Data(s), c)
        /\ Rank(Data(s), c) \in 1 .. Cardinality(Data(s))
        /\ Described(t, Places(s)[c].in, c) = Described(s, Places(s)[c].in, c)
    <3>1. c \in 1 .. n /\ c # 0 /\ h = Rank(Data(s), c)
      BY <1>1, <1>6
    <3> QED BY <1>6, <3>1, SameAfter
  <2>4. \A q \in Within(s, c) :
           /\ KeyOf(t, c, q) = KeyOf(s, c, q)
           /\ Rank(Data(t), q) = Rank(Data(s), q)
           /\ Rank(Within(t, c), q) = Rank(Within(s, c), q)
           /\ Rank(Within(s, c), q) \in 1 .. Cardinality(Within(s, c))
    <3> TAKE q \in Within(s, c)
    <3>1. /\ q \in Data(s) /\ KeyOf(t, c, q) = KeyOf(s, c, q)
          /\ Rank(Within(t, c), q) = Rank(Within(s, c), q)
          /\ Rank(Within(s, c), q) \in 1 .. Cardinality(Within(s, c))
      BY <1>6, SameAfter
    <3> QED BY <3>1, SameAfter
  <2>5. Within(s, c) \in SUBSET (1 .. n)
    BY <1>1, WithinAfter
  <2>6. /\ Cardinality(Within(t, c)) = Cardinality(Within(s, c)) + 1
        /\ Rank(Within(t, c), n + 1) = Cardinality(Within(s, c)) + 1
        /\ Cardinality(Within(s, c)) \in Nat
    <3> DEFINE S == Within(s, c)
    <3>1. n \in Nat /\ S \in SUBSET (1 .. n) /\ Within(t, c) = S \cup {n + 1}
      BY <1>1, <2>2, <2>5
    <3> HIDE DEF S, n, t
    <3>2. Cardinality(S \cup {n + 1}) = Cardinality(S) + 1
      BY <3>1, RankAdded
    <3>3. Rank(S \cup {n + 1}, n + 1) = Cardinality(S) + 1
      BY <3>1, RankAdded
    <3>4. Cardinality(S) \in Nat
      BY <3>1, FiniteUpTo
    <3> QED BY <3>1, <3>2, <3>3, <3>4 DEF S
  <2> DEFINE Cell == [key : Text \cup {NULL}, value : Nat]
             cells == store[h].cells
             cell == [key |-> under, value |-> new]
  <2>7. h \in 1 .. Len(store) /\ cells \in Seq(Cell)
    <3>1. h \in 1 .. Len(store)
      BY <1>2, <2>3
    <3>2. store[h] \in Node
      BY <3>1
    <3> QED BY <3>1, <3>2 DEF Node
  <2>8. /\ next[h].cells = Append(cells, cell)
        /\ next[h].type = store[h].type /\ next[h].text = store[h].text
    BY <1>3, <2>3, <2>7 DEF Extends
  <2>9. /\ Len(cells) = Cardinality(Within(s, c))
        /\ \A q \in Within(s, c) :
              cells[Rank(Within(s, c), q)] = [key |-> KeyOf(s, c, q), value |-> Rank(Data(s), q)]
    BY <2>1, <2>3 DEF IsAsDescribed
  <2> HIDE DEF cell, cells, Cell
  <2>10. /\ Len(Append(cells, cell)) = Len(cells) + 1
         /\ \A k \in 1 .. Len(cells) : Append(cells, cell)[k] = cells[k]
         /\ Append(cells, cell)[Len(cells) + 1] = cell
    BY <2>7
  <2>11. ASSUME NEW q \in Within(t, c)
         PROVE  next[h].cells[Rank(Within(t, c), q)] =
                   [key |-> KeyOf(t, c, q), value |-> Rank(Data(t), q)]
    <3>1. CASE q = n + 1
      <4>1. next[h].cells[Rank(Within(t, c), q)] = cell
        BY <2>6, <2>8, <2>9, <2>10, <3>1
      <4> HIDE DEF t, n, c, h, new
      <4> QED BY <1>2, <3>1, <4>1 DEF cell, under
    <3>2. CASE q \in Within(s, c)
      <4>1. Rank(Within(t, c), q) \in 1 .. Len(cells)
        BY <2>4, <2>9, <3>2
      <4>2. next[h].cells[Rank(Within(t, c), q)] = cells[Rank(Within(s, c), q)]
        BY <2>4, <2>8, <2>10, <3>2, <4>1
      <4> QED BY <2>4, <2>9, <3>2, <4>2
    <3> QED BY <2>2, <3>1, <3>2
  <2>12. Len(next[h].cells) = Cardinality(Within(t, c))
    BY <2>6, <2>8, <2>9, <2>10
  <2> HIDE DEF t, n, c, h, under, new
  <2> QED BY <2>1, <2>3, <2>8, <2>11, <2>12 DEF IsAsDescribed
<1>7. IsAsDescribed(next, t, n + 1)
  <2>1. Within(s, n + 1) = {}
    <3> SUFFICES ASSUME NEW q \in Within(s, n + 1) PROVE FALSE
      OBVIOUS
    <3>1. q \in Data(s) /\ Places(s)[q].in = n + 1
      BY DEF Within
    <3>2. q \in 1 .. n /\ q \in 1 .. n + 1
      BY <1>1, <3>1
    <3>3. Places(s)[q].in \in 0 .. n
      BY <3>2, Appended
    <3> QED BY <1>1, <3>1, <3>3
  <2>2. Within(t, n + 1) = {}
    BY <1>4, <2>1, WithinAfter
  <2>3. Cardinality(Within(t, n + 1)) = 0 /\ Len(<<>>) = 0
    BY <2>2, FS_EmptySet
  <2>4. next[new] = node
    BY <1>3 DEF Extends
  <2>5. /\ node.type = Described(t, c, n + 1).type /\ node.text = Described(t, c, n + 1).text
        /\ node.cells = <<>>
    OBVIOUS
  <2> HIDE DEF t, n, c, h, under, new
  <2> QED BY <1>2, <1>4, <2>2, <2>3, <2>4, <2>5 DEF IsAsDescribed
<1>8. Len(next) = Cardinality(Data(t))
  BY <1>2, <1>3 DEF Extends
<1>9. \A p \in Data(t) : IsAsDescribed(next, t, p)
  <2> HIDE DEF t, n, c, h, under, new
  <2> QED BY <1>1, <1>5, <1>6, <1>7
<1> HIDE DEF t
<1>10. AreDescribed(next, t)
  BY <1>8, <1>9, EachIsDescribed
<1> QED BY <1>10 DEF t
-----------------------------------------------------------------------------
(***************************************************************************)
(* What is trimmed is what is between the first and the last word.         *)
(***************************************************************************)
LEMMA Smallest ==
    ASSUME NEW S, S \subseteq Nat, S # {}
    PROVE  \E k \in S : \A j \in S : k <= j
<1>1. \E k \in S : \A j \in S : ~(<<j, k>> \in OpToRel(<, Nat))
  BY NatLessThanWellFounded, WFMin
<1>2. PICK k \in S : \A j \in S : ~(<<j, k>> \in OpToRel(<, Nat))
  BY <1>1
<1>3. \A j \in S : ~(j < k)
  BY <1>2 DEF OpToRel
<1>4. \A j \in S : j \in Nat
  OBVIOUS
<1> QED BY <1>3, <1>4

LEMMA Largest ==
    ASSUME NEW n \in Nat, NEW S, S \subseteq 1 .. n, S # {}
    PROVE  \E k \in S : \A j \in S : j <= k
<1> DEFINE T == {n - k : k \in S}
<1>1. T \subseteq Nat /\ T # {}
  <2>1. \A k \in S : k \in 1 .. n /\ n - k \in Nat
    OBVIOUS
  <2>2. T \subseteq Nat
    BY <2>1
  <2>3. PICK k \in S : TRUE
    OBVIOUS
  <2>4. n - k \in T
    OBVIOUS
  <2> QED BY <2>2, <2>4
<1>2. PICK m \in T : \A j \in T : m <= j
  <2> HIDE DEF T
  <2> QED BY <1>1, Smallest
<1>3. PICK k \in S : m = n - k
  OBVIOUS
<1>4. ASSUME NEW j \in S
      PROVE  j <= k
  <2>1. n - j \in T
    OBVIOUS
  <2>2. n - k <= n - j
    BY <1>2, <1>3, <2>1
  <2>3. j \in 1 .. n /\ k \in 1 .. n
    OBVIOUS
  <2> QED BY <2>2, <2>3
<1> QED BY <1>4

LEMMA Counted ==
    ASSUME NEW a \in Int, NEW b \in Int, a <= b + 1
    PROVE  Cardinality(a .. b) = b - a + 1
<1>1. Cardinality(a .. b) = IF a > b THEN 0 ELSE b - a + 1
  BY FS_Interval
<1> QED BY <1>1

LEMMA Trimmed ==
    ASSUME NEW value \in Text
    PROVE  /\ Inner(value) \in Text
           /\ yaml_strtrim(value) = IF Inner(value) = <<>> THEN NULL ELSE Inner(value)
           /\ ReadsBeyond(value) <=> Padded(value)
<1> DEFINE n == Len(value)
           words == {k \in 1 .. n : value[k] # BLANK}
           first == CHOOSE k \in words : \A j \in words : k <= j
           last  == CHOOSE k \in words : \A j \in words : j <= k
           Front == {m \in 1 .. n : \A k \in 1 .. m : value[k] = BLANK}
           Back  == {m \in 1 .. n : \A k \in m .. n : value[k] = BLANK}
<1>1. value \in Seq(Words \cup {BLANK}) /\ n \in Nat
  BY DEF Text
<1>2. Inner(value) = IF words = {} THEN <<>> ELSE SubSeq(value, first, last)
  BY DEF Inner
<1>3. Leading(value) = Cardinality(Front) /\ Trailing(value) = Cardinality(Back)
  BY DEF Leading, Trailing
<1>4. <<>> \in Text
  BY DEF Text
<1>5. CASE words = {}
  <2>1. \A k \in 1 .. n : value[k] = BLANK
    BY <1>5
  <2>2. Front = 1 .. n /\ Back = 1 .. n
    <3>1. \A m \in 1 .. n : \A k \in 1 .. m : k \in 1 .. n
      BY <1>1
    <3>2. \A m \in 1 .. n : \A k \in m .. n : k \in 1 .. n
      BY <1>1
    <3> QED BY <2>1, <3>1, <3>2
  <2>3. Cardinality(1 .. n) = n
    BY <1>1, Counted
  <2> HIDE DEF n, words, first, last, Front, Back
  <2>4. Leading(value) = n /\ Trailing(value) = n
    BY <1>3, <2>2, <2>3
  <2>5. ~(n - n - n > 0)
    BY <1>1
  <2>6. yaml_strtrim(value) = NULL
    BY <2>4, <2>5 DEF yaml_strtrim, n
  <2> QED BY <1>2, <1>4, <1>5, <2>6 DEF ReadsBeyond, Padded
<1>6. CASE words # {}
  <2>1. words \subseteq 1 .. n /\ words \subseteq Nat
    OBVIOUS
  <2>2. first \in words /\ \A j \in words : first <= j
    <3> HIDE DEF words
    <3>1. \E k \in words : \A j \in words : k <= j
      BY <1>6, <2>1, Smallest
    <3> QED BY <3>1
  <2>3. last \in words /\ \A j \in words : j <= last
    <3> HIDE DEF words
    <3>1. \E k \in words : \A j \in words : j <= k
      BY <1>1, <1>6, <2>1, Largest
    <3> QED BY <3>1
  <2>4. \A k \in 1 .. n : k \in words <=> value[k] # BLANK
    OBVIOUS
  <2> HIDE DEF words, first, last
  <2>5. first \in 1 .. n /\ last \in 1 .. n /\ first <= last
    BY <2>1, <2>2, <2>3
  <2>6. Front = 1 .. first - 1
    <3>1. ASSUME NEW m \in Front PROVE m \in 1 .. first - 1
      <4>1. m \in 1 .. n /\ \A k \in 1 .. m : value[k] = BLANK
        OBVIOUS
      <4>2. ~(first <= m)
        BY <2>2, <2>4, <2>5, <4>1
      <4> QED BY <2>5, <4>1, <4>2
    <3>2. ASSUME NEW m \in 1 .. first - 1 PROVE m \in Front
      <4>1. m \in 1 .. n
        BY <1>1, <2>5
      <4>2. \A k \in 1 .. m : k \in 1 .. n /\ k < first
        BY <1>1, <2>5
      <4>3. \A k \in 1 .. m : k \notin words
        BY <2>2, <2>5, <4>2
      <4> QED BY <2>4, <4>1, <4>2, <4>3
    <3> HIDE DEF Front
    <3> QED BY <3>1, <3>2
  <2>7. Back = last + 1 .. n
    <3>1. ASSUME NEW m \in Back PROVE m \in last + 1 .. n
      <4>1. m \in 1 .. n /\ \A k \in m .. n : value[k] = BLANK
        OBVIOUS
      <4>2. ~(m <= last)
        BY <2>3, <2>4, <2>5, <4>1
      <4> QED BY <2>5, <4>1, <4>2
    <3>2. ASSUME NEW m \in last + 1 .. n PROVE m \in Back
      <4>1. m \in 1 .. n
        BY <1>1, <2>5
      <4>2. \A k \in m .. n : k \in 1 .. n /\ last < k
        BY <1>1, <2>5
      <4>3. \A k \in m .. n : k \notin words
        BY <2>3, <2>5, <4>2
      <4> QED BY <2>4, <4>1, <4>2, <4>3
    <3> HIDE DEF Back
    <3> QED BY <3>1, <3>2
  <2>8. Leading(value) = first - 1 /\ Trailing(value) = n - last
    <3>1. Cardinality(1 .. first - 1) = first - 1
      <4>1. 1 \in Int /\ first - 1 \in Int /\ 1 <= (first - 1) + 1
        BY <2>5
      <4>2. Cardinality(1 .. first - 1) = (first - 1) - 1 + 1
        BY <4>1, Counted
      <4> QED BY <2>5, <4>2
    <3>2. Cardinality(last + 1 .. n) = n - last
      <4>1. last + 1 \in Int /\ n \in Int /\ last + 1 <= n + 1
        BY <1>1, <2>5
      <4>2. Cardinality(last + 1 .. n) = n - (last + 1) + 1
        BY <4>1, Counted
      <4> QED BY <1>1, <2>5, <4>2
    <3> QED BY <1>3, <2>6, <2>7, <3>1, <3>2
  <2>9. LET length == n - (first - 1) - (n - last)
        IN length > 0 /\ (first - 1) + length = last /\ (first - 1) + 1 = first
    BY <1>1, <2>5
  <2>10. Inner(value) = SubSeq(value, first, last)
    BY <1>2, <1>6
  <2>11. yaml_strtrim(value) = SubSeq(value, first, last)
    <3> HIDE DEF Front, Back
    <3> QED BY <2>8, <2>9 DEF yaml_strtrim
  <2>12. SubSeq(value, first, last) \in Text /\ Len(SubSeq(value, first, last)) = last - first + 1
    BY <1>1, <2>5 DEF Text
  <2>13. SubSeq(value, first, last) # <<>> /\ SubSeq(value, first, last) # NULL
    <3>1. last - first + 1 # 0
      BY <2>5
    <3> QED BY <2>12, <3>1, NullAssumption
  <2> QED BY <2>10, <2>11, <2>12, <2>13 DEF ReadsBeyond, Padded
<1> QED BY <1>5, <1>6
-----------------------------------------------------------------------------
\* What is put before a sequence, instead of its head, and what is left of it.
LEMMA PutBefore ==
    ASSUME NEW S, NEW x \in S, NEW o \in Seq(S)
    PROVE  /\ <<x>> \o o \in Seq(S) /\ Len(<<x>> \o o) = Len(o) + 1 /\ (<<x>> \o o)[1] = x
           /\ \A k \in 2 .. Len(o) + 1 : (<<x>> \o o)[k] = o[k - 1]
  OBVIOUS

LEMMA LeftOf ==
    ASSUME NEW S, NEW o \in Seq(S), o # <<>>
    PROVE  /\ Tail(o) \in Seq(S) /\ Len(Tail(o)) = Len(o) - 1 /\ Len(o) \in Nat \ {0}
           /\ \A k \in 1 .. Len(o) - 1 : Tail(o)[k] = o[k + 1]
           /\ Head(o) = o[1]
  OBVIOUS

LEMMA PutInstead ==
    ASSUME NEW S, NEW x \in S, NEW o \in Seq(S), o # <<>>
    PROVE  LET u == <<x>> \o Tail(o)
           IN /\ u \in Seq(S) /\ Len(u) = Len(o) /\ u[1] = x
              /\ \A k \in 2 .. Len(o) : u[k] = o[k]
  OBVIOUS
-----------------------------------------------------------------------------
(***************************************************************************)
(* The collections that are open, innermost first; that their nodes are    *)
(* the one being filled and those on the stack; and what libyaml has open. *)
(***************************************************************************)
IsPath(s, path) ==
    /\ path \in Seq(1 .. Len(s)) /\ path # <<>>
    /\ path[1] = Here(s).in
    /\ \A k \in 1 .. Len(path) - 1 : Places(s)[path[k]].in = path[k + 1]
    /\ Places(s)[path[Len(path)]].in = 0

IsFilled(s, path, filled, stack) ==
    /\ filled = Rank(Data(s), path[1])
    /\ stack \in Seq(Nat) /\ Len(stack) = Len(path) - 1
    /\ \A k \in 1 .. Len(path) - 1 : stack[k] = Rank(Data(s), path[k + 1])

PlaceIn(s, c, due) ==
    IF InSequence(s, c) THEN "sequence" ELSE IF due THEN "key" ELSE "value"

OpenPlaces == {"start", "stream", "document", "ended", "sequence", "key", "value"}

IsOpen(s, path, where) ==
    /\ where \in Seq(OpenPlaces) /\ Len(where) = Len(path) + 2
    /\ where[1] = PlaceIn(s, path[1], Here(s).key)
    /\ \A k \in 2 .. Len(path) : where[k] = PlaceIn(s, path[k], TRUE)
    /\ where[Len(path) + 1] = "ended" /\ where[Len(path) + 2] = "stream"

LEMMA PathStarts ==
    ASSUME NEW s \in Seq(Events), NEW path, IsPath(s, path), NEW k \in 1 .. Len(path)
    PROVE  /\ path[k] \in 1 .. Len(s) /\ path[k] \in Data(s) /\ s[path[k]].type \in Starts
           /\ InMapping(s, path[k]) <=> ~InSequence(s, path[k])
<1>1. /\ path \in Seq(1 .. Len(s)) /\ path[k] \in 1 .. Len(s) /\ Len(s) \in Nat
      /\ Len(path) \in Nat
  BY DEF IsPath
<1>2. CASE k = 1
  <2>1. path[k] = Places(s)[Len(s) + 1].in /\ path[k] # 0 /\ Len(s) + 1 \in 0 .. Len(s) + 1
    BY <1>1, <1>2 DEF IsPath, Here
  <2>2. s[path[k]].type \in Starts
    BY <1>1, <2>1, InsideStarts
  <2> QED BY <1>1, <2>2 DEF Data, IsDatum, InMapping, InSequence, Starts
<1>3. CASE k # 1
  <2>1. k - 1 \in 1 .. Len(path) - 1 /\ (k - 1) + 1 = k
    BY <1>1, <1>3
  <2>2. path[k] = Places(s)[path[k - 1]].in /\ path[k - 1] \in 1 .. Len(s)
    BY <1>1, <2>1 DEF IsPath
  <2>3. path[k] # 0 /\ path[k - 1] \in 0 .. Len(s) + 1
    BY <1>1, <2>2
  <2>4. s[path[k]].type \in Starts
    BY <1>1, <2>2, <2>3, InsideStarts
  <2> QED BY <1>1, <2>4 DEF Data, IsDatum, InMapping, InSequence, Starts
<1> QED BY <1>2, <1>3

\* What an event leaves as it is of the path.
LEMMA PathKept ==
    ASSUME NEW s \in Seq(Events), NEW e \in Events, NEW path, IsPath(s, path),
           NEW k \in 1 .. Len(path)
    PROVE  /\ Places(Append(s, e))[path[k]] = Places(s)[path[k]]
           /\ Rank(Data(Append(s, e)), path[k]) = Rank(Data(s), path[k])
           /\ Rank(Data(s), path[k]) \in Nat
           /\ \A due : PlaceIn(Append(s, e), path[k], due) = PlaceIn(s, path[k], due)
<1>1. path[k] \in 1 .. Len(s) /\ path[k] \in Data(s)
  BY PathStarts
<1>2. Len(s) \in Nat /\ Data(s) \in SUBSET (1 .. Len(s))
  BY DataAfter
<1>3. Cardinality(Data(s)) \in Nat
  BY <1>2, FiniteUpTo
<1>4. path[k] \in 0 .. Len(s)
  BY <1>1
<1>5. InSequence(Append(s, e), path[k]) <=> InSequence(s, path[k])
  BY <1>4, InsideOf
<1>6. Rank(Data(s), path[k]) \in 1 .. Cardinality(Data(s))
  BY <1>1, SameAfter
<1> QED BY <1>1, <1>3, <1>5, <1>6, SameAfter DEF PlaceIn

\* The next place, of what neither begins nor ends.
LEMMA HereKept ==
    ASSUME NEW s \in Seq(Events), NEW e \in Events, e.type \notin Starts, e.type \notin Ends
    PROVE  /\ Here(Append(s, e)).in = Here(s).in
           /\ Here(Append(s, e)).key <=>
                 InMapping(s, Here(s).in) /\ ~(Here(s).key /\ e.type = "SCALAR")
<1>1. /\ Len(s) \in Nat /\ Len(Append(s, e)) = Len(s) + 1
      /\ Here(s).in \in 0 .. Len(s)
  <2>1. Len(s) + 1 \in 1 .. Len(s) + 1
    OBVIOUS
  <2> QED BY <2>1, Appended DEF Here
<1>2. Here(Append(s, e)) = PlaceAfter(s, e)
  <2>1. (Len(s) + 1) + 1 = Len(s) + 2
    BY <1>1
  <2> QED BY <1>1, <2>1 DEF Here, PlaceAfter
<1>3. InMapping(Append(s, e), Here(s).in) <=> InMapping(s, Here(s).in)
  BY <1>1, InsideOf
<1> QED BY <1>2, <1>3, AfterIs DEF Here

LEMMA HereStarts ==
    ASSUME NEW s \in Seq(Events), NEW e \in Events, e.type \in Starts
    PROVE  /\ Here(Append(s, e)).in = Len(s) + 1
           /\ Here(Append(s, e)).key <=> e.type = "MAPPING_START"
<1>1. /\ Len(s) \in Nat /\ Len(Append(s, e)) = Len(s) + 1 /\ Append(s, e)[Len(s) + 1] = e
      /\ (Len(s) + 1) + 1 = Len(s) + 2 /\ Len(s) + 1 # 0
  BY Appended
<1>2. Here(Append(s, e)) = PlaceAfter(s, e)
  BY <1>1 DEF Here, PlaceAfter
<1>3. InMapping(Append(s, e), Len(s) + 1) <=> e.type = "MAPPING_START"
  BY <1>1 DEF InMapping
<1>4. e.type # "SCALAR"
  BY DEF Starts
<1> QED BY <1>2, <1>3, <1>4, AfterIs

LEMMA HereEnds ==
    ASSUME NEW s \in Seq(Events), NEW e \in Events, e.type \in Ends
    PROVE  LET in == Places(s)[Here(s).in].in
           IN /\ Here(Append(s, e)).in = in
              /\ Here(Append(s, e)).key <=> InMapping(s, in)
<1>1. /\ Len(s) \in Nat /\ Len(Append(s, e)) = Len(s) + 1
      /\ (Len(s) + 1) + 1 = Len(s) + 2 /\ Here(s).in \in 0 .. Len(s)
  <2>1. Len(s) + 1 \in 1 .. Len(s) + 1
    OBVIOUS
  <2> QED BY <2>1, Appended DEF Here
<1>2. Here(Append(s, e)) = PlaceAfter(s, e)
  BY <1>1 DEF Here, PlaceAfter
<1>3. Places(s)[Here(s).in].in \in 0 .. Len(s)
  <2>1. Here(s).in \in 0 .. Len(s) + 1
    BY <1>1
  <2> QED BY <1>1, <2>1, PlaceType
<1>4. InMapping(Append(s, e), Places(s)[Here(s).in].in) <=> InMapping(s, Places(s)[Here(s).in].in)
  BY <1>3, InsideOf
<1>5. e.type # "SCALAR" /\ e.type \notin Starts
  BY DEF Starts, Ends
<1> QED BY <1>2, <1>4, <1>5, AfterIs DEF Here
-----------------------------------------------------------------------------
LEMMA AtLeastTwo ==
    ASSUME NEW S, NEW q \in Seq(S), q # <<>>, Len(q) # 1
    PROVE  Len(q) \in Nat /\ Len(q) >= 2
<1>1. Len(q) \in Nat /\ Len(q) # 0
  OBVIOUS
<1>2. \A n \in Nat : n # 0 /\ n # 1 => n >= 2
  OBVIOUS
<1> QED BY <1>1, <1>2

LEMMA TailOfThree ==
    ASSUME NEW S, NEW q \in Seq(S), Len(q) = 3
    PROVE  /\ Tail(q) \in Seq(S) /\ Len(Tail(q)) = 2
           /\ Tail(q)[1] = q[2] /\ Tail(q)[2] = q[3]
<1>1. q # <<>> /\ Len(q) - 1 = 2
  OBVIOUS
<1>2. /\ Len(Tail(q)) = 2 /\ Tail(q) \in Seq(S)
      /\ \A k \in 1 .. 2 : Tail(q)[k] = q[k + 1]
  BY <1>1, LeftOf
<1>3. 1 \in 1 .. 2 /\ 2 \in 1 .. 2 /\ 1 + 1 = 2 /\ 2 + 1 = 3
  OBVIOUS
<1>4. Tail(q)[1] = q[1 + 1] /\ Tail(q)[2] = q[2 + 1]
  BY <1>2
<1> QED BY <1>2, <1>3, <1>4

LEMMA PairIs ==
    ASSUME NEW S, NEW q \in Seq(S), Len(q) = 2
    PROVE  q = <<q[1], q[2]>>
  OBVIOUS

\* The path is the same in t as in s.
SamePath(s, t, path) ==
    \A k \in 1 .. Len(path) :
       /\ path[k] \in 1 .. Len(s)
       /\ Places(t)[path[k]] = Places(s)[path[k]]
       /\ Rank(Data(t), path[k]) = Rank(Data(s), path[k]) /\ Rank(Data(s), path[k]) \in Nat
       /\ \A due : PlaceIn(t, path[k], due) = PlaceIn(s, path[k], due)

LEMMA PathIsSame ==
    ASSUME NEW s \in Seq(Events), NEW e \in Events, NEW path, IsPath(s, path)
    PROVE  SamePath(s, Append(s, e), path)
<1>1. \A k \in 1 .. Len(path) : path[k] \in 1 .. Len(s)
  BY PathStarts
<1>2. \A k \in 1 .. Len(path) :
         /\ Places(Append(s, e))[path[k]] = Places(s)[path[k]]
         /\ Rank(Data(Append(s, e)), path[k]) = Rank(Data(s), path[k])
         /\ Rank(Data(s), path[k]) \in Nat
         /\ \A due : PlaceIn(Append(s, e), path[k], due) = PlaceIn(s, path[k], due)
  <2> TAKE k \in 1 .. Len(path)
  <2>1. \A due : PlaceIn(Append(s, e), path[k], due) = PlaceIn(s, path[k], due)
    BY PathKept
  <2> QED BY <2>1, PathKept
<1> QED BY <1>1, <1>2 DEF SamePath

(***************************************************************************)
(* The path through an event.  A scalar stays in the innermost collection. *)
(***************************************************************************)
LEMMA PathStays ==
    ASSUME NEW s \in Seq(Events), NEW e \in Events, e.type = "SCALAR",
           NEW path, NEW filled, NEW stack, NEW where,
           IsPath(s, path), IsFilled(s, path, filled, stack), IsOpen(s, path, where)
    PROVE  LET t == Append(s, e)
           IN /\ IsPath(t, path) /\ IsFilled(t, path, filled, stack)
              /\ IsOpen(t, path, <<AfterNode[Head(where)]>> \o Tail(where))
<1> DEFINE t == Append(s, e)
           next == <<AfterNode[Head(where)]>> \o Tail(where)
<1>1. /\ path \in Seq(1 .. Len(s)) /\ path # <<>> /\ Len(path) \in Nat \ {0}
      /\ 1 \in 1 .. Len(path) /\ Len(path) \in 1 .. Len(path)
      /\ Len(s) \in Nat /\ Len(t) = Len(s) + 1
  BY DEF IsPath
<1>2. e.type \notin Starts /\ e.type \notin Ends
  BY DEF Starts, Ends
<1>3. /\ Here(t).in = Here(s).in
      /\ Here(t).key <=> InMapping(s, Here(s).in) /\ ~Here(s).key
  BY <1>2, HereKept
<1>4. path[1] = Here(s).in
  BY DEF IsPath
<1>5. \A k \in 1 .. Len(path) :
         /\ Places(t)[path[k]] = Places(s)[path[k]]
         /\ Rank(Data(t), path[k]) = Rank(Data(s), path[k])
         /\ \A due : PlaceIn(t, path[k], due) = PlaceIn(s, path[k], due)
  BY PathKept
<1> HIDE DEF t
<1>6. IsPath(t, path)
  <2>1. path \in Seq(1 .. Len(t))
    BY <1>1
  <2>2. \A k \in 1 .. Len(path) - 1 : Places(t)[path[k]].in = path[k + 1]
    <3> TAKE k \in 1 .. Len(path) - 1
    <3>1. k \in 1 .. Len(path)
      BY <1>1
    <3> QED BY <1>5, <3>1 DEF IsPath
  <2>3. Places(t)[path[Len(path)]].in = 0
    BY <1>1, <1>5 DEF IsPath
  <2> QED BY <1>1, <1>3, <1>4, <2>1, <2>2, <2>3 DEF IsPath
<1>7. IsFilled(t, path, filled, stack)
  BY <1>1, <1>5 DEF IsFilled
<1>8. /\ where \in Seq(OpenPlaces) /\ where # <<>> /\ Len(where) = Len(path) + 2
      /\ Head(where) = where[1] /\ where[1] = PlaceIn(s, path[1], Here(s).key)
  BY <1>1 DEF IsOpen
<1>9. AfterNode[Head(where)] = PlaceIn(t, path[1], Here(t).key)
  <2>1. InMapping(s, path[1]) <=> ~InSequence(s, path[1])
    BY <1>1, PathStarts
  <2>2. PlaceIn(t, path[1], Here(t).key) = PlaceIn(s, path[1], Here(t).key)
    BY <1>1, <1>5
  <2> QED BY <1>3, <1>4, <1>8, <2>1, <2>2 DEF PlaceIn, AfterNode
<1>10. AfterNode[Head(where)] \in OpenPlaces
  BY <1>9 DEF PlaceIn, OpenPlaces
<1>11. /\ next \in Seq(OpenPlaces) /\ Len(next) = Len(where) /\ next[1] = AfterNode[Head(where)]
       /\ \A k \in 2 .. Len(where) : next[k] = where[k]
  BY <1>8, <1>10, PutInstead
<1>12. IsOpen(t, path, next)
  <2> HIDE DEF next
  <2>1. ASSUME NEW k \in 2 .. Len(path)
        PROVE  next[k] = PlaceIn(t, path[k], TRUE)
    <3>1. k \in 1 .. Len(path) /\ k \in 2 .. Len(where)
      BY <1>1, <1>8
    <3> QED BY <1>5, <1>11, <3>1 DEF IsOpen
  <2>2. /\ Len(path) + 1 \in 2 .. Len(where) /\ Len(path) + 2 \in 2 .. Len(where)
    BY <1>1, <1>8
  <2> QED BY <1>8, <1>9, <1>11, <2>1, <2>2 DEF IsOpen
<1> QED BY <1>6, <1>7, <1>12 DEF t

\* The root, from "DOCUMENT_START" on.
LEMMA PathBegins ==
    ASSUME NEW s \in Seq(Events), NEW e \in Events, e.type = "MAPPING_START",
           Here(s).in = 0, Data(s) = {}
    PROVE  LET t    == Append(s, e)
               path == <<Len(s) + 1>>
           IN /\ IsPath(t, path) /\ IsFilled(t, path, 1, <<>>)
              /\ IsOpen(t, path, <<"key", "ended", "stream">>)
<1> DEFINE t == Append(s, e)
           path == <<Len(s) + 1>>
<1>1. /\ Len(s) \in Nat /\ Len(t) = Len(s) + 1 /\ t[Len(s) + 1] = e
      /\ Places(t)[Len(s) + 1] = Here(s)
  BY Appended DEF Here
<1>2. e.type \in Starts /\ e.type \notin Ends
  BY DEF Starts, Ends
<1>3. Here(t).in = Len(s) + 1 /\ Here(t).key
  BY <1>2, HereStarts
<1>4. Rank(Data(t), Len(s) + 1) = 1
  <2>1. Data(t) = Data(s) \cup {Len(s) + 1}
    BY <1>2, DataAfter DEF Adds
  <2>2. Cardinality(Data(s)) = 0
    BY FS_EmptySet
  <2>3. Data(s) \in SUBSET (1 .. Len(s))
    BY DataAfter
  <2>4. Rank(Data(s) \cup {Len(s) + 1}, Len(s) + 1) = Cardinality(Data(s)) + 1
    BY <1>1, <2>3, RankAdded
  <2> QED BY <2>1, <2>2, <2>4
<1>5. ~InSequence(t, Len(s) + 1)
  BY <1>1 DEF InSequence
<1> HIDE DEF t
<1>6. IsPath(t, path)
  BY <1>1, <1>3 DEF IsPath
<1>7. IsFilled(t, path, 1, <<>>)
  BY <1>1, <1>4 DEF IsFilled
<1>8. IsOpen(t, path, <<"key", "ended", "stream">>)
  <2> DEFINE next == <<"key", "ended", "stream">>
  <2>1. /\ next \in Seq(OpenPlaces) /\ Len(next) = 3
        /\ next[1] = "key" /\ next[2] = "ended" /\ next[3] = "stream"
    BY DEF OpenPlaces
  <2>2. Len(path) = 1 /\ path[1] = Len(s) + 1
    OBVIOUS
  <2>3. PlaceIn(t, path[1], Here(t).key) = "key"
    BY <1>3, <1>5, <2>2 DEF PlaceIn
  <2> HIDE DEF next, path
  <2>4. \A k \in 2 .. Len(path) : next[k] = PlaceIn(t, path[k], TRUE)
    BY <2>2
  <2> QED BY <2>1, <2>2, <2>3, <2>4 DEF IsOpen, next
<1> QED BY <1>6, <1>7, <1>8 DEF t

\* A collection in another.
LEMMA PathGrows ==
    ASSUME NEW s \in Seq(Events), NEW e \in Events, e.type \in Starts, Allows(s, e),
           NEW path, NEW filled, NEW stack, NEW where,
           IsPath(s, path), IsFilled(s, path, filled, stack), IsOpen(s, path, where)
    PROVE  LET t == Append(s, e)
               longer == <<Len(s) + 1>> \o path
           IN /\ IsPath(t, longer)
              /\ IsFilled(t, longer, Cardinality(Data(s)) + 1, <<filled>> \o stack)
              /\ IsOpen(t, longer, Opening(e.type) \o (<<AfterNode[Head(where)]>> \o Tail(where)))
<1> DEFINE t == Append(s, e)
           longer == <<Len(s) + 1>> \o path
           below == <<AfterNode[Head(where)]>> \o Tail(where)
           top == IF e.type = "MAPPING_START" THEN "key" ELSE "sequence"
           next == <<top>> \o below
<1>1. /\ path \in Seq(1 .. Len(s)) /\ path # <<>> /\ Len(path) \in Nat \ {0}
      /\ 1 \in 1 .. Len(path) /\ Len(path) \in 1 .. Len(path)
      /\ Len(s) \in Nat /\ Len(t) = Len(s) + 1 /\ t[Len(s) + 1] = e
      /\ Places(t)[Len(s) + 1] = Here(s)
  BY Appended DEF IsPath, Here
<1>2. /\ e.type \in NodeEvents /\ e.type # "SCALAR"
      /\ e.type = "MAPPING_START" \/ e.type = "SEQUENCE_START"
  BY DEF Starts, NodeEvents
<1>3. Here(t).in = Len(s) + 1 /\ (Here(t).key <=> e.type = "MAPPING_START")
  BY HereStarts
<1>4. path[1] = Here(s).in /\ ~Here(s).key
  BY <1>2 DEF IsPath, Allows
<1>5. \A k \in 1 .. Len(path) :
         /\ path[k] \in 1 .. Len(s)
         /\ Places(t)[path[k]] = Places(s)[path[k]]
         /\ Rank(Data(t), path[k]) = Rank(Data(s), path[k]) /\ Rank(Data(s), path[k]) \in Nat
         /\ \A due : PlaceIn(t, path[k], due) = PlaceIn(s, path[k], due)
  <2>1. SamePath(s, t, path)
    BY PathIsSame
  <2> QED BY <2>1 DEF SamePath
<1>6. /\ Rank(Data(t), Len(s) + 1) = Cardinality(Data(s)) + 1
  <2>1. Data(t) = Data(s) \cup {Len(s) + 1} /\ Data(s) \in SUBSET (1 .. Len(s))
    BY DataAfter DEF Adds
  <2> QED BY <1>1, <2>1, RankAdded
<1>7. /\ InSequence(t, Len(s) + 1) <=> e.type = "SEQUENCE_START"
  BY <1>1 DEF InSequence
<1> HIDE DEF t
<1>8. /\ longer \in Seq(1 .. Len(t)) /\ Len(longer) = Len(path) + 1 /\ longer[1] = Len(s) + 1
      /\ \A k \in 2 .. Len(path) + 1 : longer[k] = path[k - 1]
  <2>1. Len(s) + 1 \in 1 .. Len(t) /\ path \in Seq(1 .. Len(t))
    BY <1>1
  <2> QED BY <2>1, PutBefore
<1>9. IsPath(t, longer)
  <2> HIDE DEF longer
  <2>1. ASSUME NEW k \in 1 .. Len(longer) - 1
        PROVE  Places(t)[longer[k]].in = longer[k + 1]
    <3>1. CASE k = 1
      <4>1. longer[k + 1] = path[1]
        BY <1>1, <1>8, <3>1
      <4> QED BY <1>1, <1>4, <1>8, <3>1, <4>1
    <3>2. CASE k # 1
      <4>1. /\ k - 1 \in 1 .. Len(path) - 1 /\ k - 1 \in 1 .. Len(path) /\ (k - 1) + 1 = k
            /\ k \in 2 .. Len(path) + 1 /\ k + 1 \in 2 .. Len(path) + 1 /\ (k + 1) - 1 = k
        BY <1>1, <1>8, <3>2
      <4>2. longer[k] = path[k - 1] /\ longer[k + 1] = path[k]
        BY <1>8, <4>1
      <4>3. Places(s)[path[k - 1]].in = path[(k - 1) + 1]
        BY <4>1 DEF IsPath
      <4> QED BY <1>5, <4>1, <4>2, <4>3
    <3> QED BY <3>1, <3>2
  <2>2. Places(t)[longer[Len(longer)]].in = 0
    <3>1. Len(longer) \in 2 .. Len(path) + 1 /\ Len(longer) - 1 = Len(path)
      BY <1>1, <1>8
    <3>2. longer[Len(longer)] = path[Len(path)]
      BY <1>8, <3>1
    <3> QED BY <1>1, <1>5, <3>2 DEF IsPath
  <2>3. longer # <<>>
    BY <1>1, <1>8
  <2> QED BY <1>3, <1>8, <2>1, <2>2, <2>3 DEF IsPath
<1>10. IsFilled(t, longer, Cardinality(Data(s)) + 1, <<filled>> \o stack)
  <2>1. /\ stack \in Seq(Nat) /\ filled \in Nat /\ Len(stack) = Len(path) - 1
        /\ filled = Rank(Data(s), path[1])
    BY <1>1, <1>5 DEF IsFilled
  <2> DEFINE deeper == <<filled>> \o stack
  <2>2. /\ deeper \in Seq(Nat) /\ Len(deeper) = Len(stack) + 1 /\ deeper[1] = filled
        /\ \A k \in 2 .. Len(stack) + 1 : deeper[k] = stack[k - 1]
    BY <2>1, PutBefore
  <2> HIDE DEF longer, deeper
  <2>3. ASSUME NEW k \in 1 .. Len(longer) - 1
        PROVE  deeper[k] = Rank(Data(t), longer[k + 1])
    <3>1. k \in 1 .. Len(path) /\ k + 1 \in 2 .. Len(path) + 1 /\ (k + 1) - 1 = k
      BY <1>1, <1>8
    <3>2. longer[k + 1] = path[k] /\ Rank(Data(t), path[k]) = Rank(Data(s), path[k])
      BY <1>5, <1>8, <3>1
    <3>3. CASE k = 1
      BY <2>1, <2>2, <3>2, <3>3
    <3>4. CASE k # 1
      <4>1. /\ k \in 2 .. Len(stack) + 1 /\ k - 1 \in 1 .. Len(path) - 1 /\ (k - 1) + 1 = k
        BY <1>1, <2>1, <3>1, <3>4
      <4>2. stack[k - 1] = Rank(Data(s), path[(k - 1) + 1])
        BY <4>1 DEF IsFilled
      <4> QED BY <2>2, <3>2, <4>1, <4>2
    <3> QED BY <3>3, <3>4
  <2>4. Len(deeper) = Len(longer) - 1
    BY <1>1, <1>8, <2>1, <2>2
  <2> QED BY <1>6, <1>8, <2>2, <2>3, <2>4 DEF IsFilled, deeper
<1>11. /\ where \in Seq(OpenPlaces) /\ where # <<>> /\ Len(where) = Len(path) + 2
       /\ Head(where) = where[1] /\ where[1] = PlaceIn(s, path[1], Here(s).key)
  BY <1>1 DEF IsOpen
<1>12. AfterNode[Head(where)] = PlaceIn(t, path[1], TRUE)
  <2>1. PlaceIn(t, path[1], TRUE) = PlaceIn(s, path[1], TRUE)
    BY <1>1, <1>5
  <2> QED BY <1>4, <1>11, <2>1 DEF PlaceIn, AfterNode
<1>13. AfterNode[Head(where)] \in OpenPlaces
  BY <1>12 DEF PlaceIn, OpenPlaces
<1>14. /\ below \in Seq(OpenPlaces) /\ Len(below) = Len(where) /\ below[1] = AfterNode[Head(where)]
       /\ \A k \in 2 .. Len(where) : below[k] = where[k]
  BY <1>11, <1>13, PutInstead
<1>15. Opening(e.type) = <<top>>
  BY <1>2 DEF Opening
<1>16. IsOpen(t, longer, next)
  <2> HIDE DEF below
  <2>1. /\ next \in Seq(OpenPlaces) /\ Len(next) = Len(below) + 1 /\ next[1] = top
        /\ \A k \in 2 .. Len(below) + 1 : next[k] = below[k - 1]
    <3>1. top \in OpenPlaces
      BY DEF OpenPlaces
    <3> HIDE DEF top
    <3> QED BY <1>14, <3>1, PutBefore
  <2> HIDE DEF next, longer
  <2>2. ASSUME NEW k \in 2 .. Len(longer)
        PROVE  next[k] = PlaceIn(t, longer[k], TRUE)
    <3>1. /\ k \in 2 .. Len(path) + 1 /\ k \in 2 .. Len(below) + 1 /\ k - 1 \in 1 .. Len(path)
      BY <1>1, <1>8, <1>11, <1>14
    <3>2. next[k] = below[k - 1] /\ longer[k] = path[k - 1]
      BY <1>8, <2>1, <3>1
    <3>3. CASE k = 2
      <4>1. next[k] = below[1] /\ longer[k] = path[1]
        BY <3>2, <3>3
      <4> QED BY <1>12, <1>14, <4>1
    <3>4. CASE k # 2
      <4>1. k - 1 \in 2 .. Len(where) /\ k - 1 \in 2 .. Len(path)
        BY <1>1, <1>11, <3>1, <3>4
      <4>2. where[k - 1] = PlaceIn(s, path[k - 1], TRUE)
        BY <4>1 DEF IsOpen
      <4> QED BY <1>5, <1>14, <3>1, <3>2, <4>1, <4>2
    <3> QED BY <3>3, <3>4
  <2>3. /\ next[Len(longer) + 1] = "ended" /\ next[Len(longer) + 2] = "stream"
    <3>1. /\ Len(longer) + 1 \in 2 .. Len(below) + 1 /\ Len(longer) + 2 \in 2 .. Len(below) + 1
          /\ (Len(longer) + 1) - 1 = Len(path) + 1 /\ (Len(longer) + 2) - 1 = Len(path) + 2
          /\ Len(path) + 1 \in 2 .. Len(where) /\ Len(path) + 2 \in 2 .. Len(where)
      BY <1>1, <1>8, <1>11, <1>14
    <3> QED BY <1>14, <2>1, <3>1 DEF IsOpen
  <2>4. next[1] = PlaceIn(t, longer[1], Here(t).key)
    BY <1>2, <1>3, <1>7, <1>8, <2>1 DEF PlaceIn
  <2>5. Len(next) = Len(longer) + 2
    BY <1>1, <1>8, <1>11, <1>14, <2>1
  <2> QED BY <2>1, <2>2, <2>3, <2>4, <2>5 DEF IsOpen
<1> QED BY <1>9, <1>10, <1>15, <1>16 DEF t

\* The end of a collection in another.
LEMMA PathShrinks ==
    ASSUME NEW s \in Seq(Events), NEW e \in Events, e.type \in Ends,
           NEW path, NEW filled, NEW stack, NEW where, Len(path) # 1,
           IsPath(s, path), IsFilled(s, path, filled, stack), IsOpen(s, path, where)
    PROVE  LET t == Append(s, e)
           IN /\ IsPath(t, Tail(path)) /\ Len(stack) > 0
              /\ IsFilled(t, Tail(path), Head(stack), Tail(stack))
              /\ IsOpen(t, Tail(path), Tail(where))
<1> DEFINE t == Append(s, e)
<1>1. /\ path \in Seq(1 .. Len(s)) /\ path # <<>> /\ Len(path) \in Nat /\ Len(path) >= 2
      /\ 1 \in 1 .. Len(path) /\ 2 \in 1 .. Len(path) /\ Len(path) \in 1 .. Len(path)
      /\ Len(s) \in Nat /\ Len(t) = Len(s) + 1
  <2>1. path \in Seq(1 .. Len(s)) /\ path # <<>>
    BY DEF IsPath
  <2>2. Len(path) \in Nat /\ Len(path) >= 2
    BY <2>1, AtLeastTwo
  <2>4. Len(s) \in Nat /\ Len(t) = Len(s) + 1
    BY Appended
  <2> QED BY <2>1, <2>2, <2>4
<1>2. \A k \in 1 .. Len(path) :
         /\ path[k] \in 1 .. Len(s)
         /\ Places(t)[path[k]] = Places(s)[path[k]]
         /\ Rank(Data(t), path[k]) = Rank(Data(s), path[k])
         /\ \A due : PlaceIn(t, path[k], due) = PlaceIn(s, path[k], due)
  <2>1. SamePath(s, t, path)
    BY PathIsSame
  <2> QED BY <2>1 DEF SamePath
<1>3. path[1] = Here(s).in /\ Places(s)[path[1]].in = path[2]
  <2>1. 1 \in 1 .. Len(path) - 1
    BY <1>1
  <2> QED BY <2>1 DEF IsPath
<1>4. Here(t).in = path[2] /\ (Here(t).key <=> InMapping(s, path[2]))
  BY <1>3, HereEnds
<1> HIDE DEF t
<1> DEFINE rest == Tail(path)
<1>5. /\ rest \in Seq(1 .. Len(s)) /\ Len(rest) = Len(path) - 1
      /\ \A k \in 1 .. Len(path) - 1 : rest[k] = path[k + 1]
  BY <1>1, LeftOf
<1> HIDE DEF rest
<1>6. IsPath(t, rest)
  <2>1. rest \in Seq(1 .. Len(t)) /\ rest # <<>>
    BY <1>1, <1>5
  <2>2. rest[1] = Here(t).in
    BY <1>1, <1>4, <1>5
  <2>3. ASSUME NEW k \in 1 .. Len(rest) - 1
        PROVE  Places(t)[rest[k]].in = rest[k + 1]
    <3>1. /\ k \in 1 .. Len(path) - 1 /\ k + 1 \in 1 .. Len(path) - 1 /\ k + 1 \in 1 .. Len(path)
      BY <1>1, <1>5
    <3>2. rest[k] = path[k + 1] /\ rest[k + 1] = path[(k + 1) + 1]
      BY <1>5, <3>1
    <3> QED BY <1>2, <3>1, <3>2 DEF IsPath
  <2>4. Places(t)[rest[Len(rest)]].in = 0
    <3>1. rest[Len(rest)] = path[Len(path)]
      BY <1>1, <1>5
    <3> QED BY <1>1, <1>2, <3>1 DEF IsPath
  <2> QED BY <2>1, <2>2, <2>3, <2>4 DEF IsPath
<1>7. stack \in Seq(Nat) /\ Len(stack) = Len(path) - 1 /\ stack # <<>> /\ Len(stack) > 0
  BY <1>1 DEF IsFilled
<1>8. IsFilled(t, rest, Head(stack), Tail(stack))
  <2> DEFINE left == Tail(stack)
  <2>1. /\ left \in Seq(Nat) /\ Len(left) = Len(stack) - 1 /\ Head(stack) = stack[1]
        /\ \A k \in 1 .. Len(stack) - 1 : left[k] = stack[k + 1]
    BY <1>7, LeftOf
  <2> HIDE DEF left
  <2>2. ASSUME NEW k \in 1 .. Len(path) - 1
        PROVE  stack[k] = Rank(Data(t), rest[k])
    <3>1. k + 1 \in 1 .. Len(path)
      BY <1>1
    <3> QED BY <1>2, <1>5, <3>1 DEF IsFilled
  <2>3. ASSUME NEW k \in 1 .. Len(rest) - 1
        PROVE  left[k] = Rank(Data(t), rest[k + 1])
    <3>1. k \in 1 .. Len(stack) - 1 /\ k + 1 \in 1 .. Len(path) - 1
      BY <1>1, <1>5, <1>7
    <3> QED BY <2>1, <2>2, <3>1
  <2>4. Head(stack) = Rank(Data(t), rest[1]) /\ Len(left) = Len(rest) - 1
    BY <1>1, <1>5, <1>7, <2>1, <2>2
  <2> QED BY <2>1, <2>3, <2>4 DEF IsFilled, left
<1>9. IsOpen(t, rest, Tail(where))
  <2> DEFINE next == Tail(where)
  <2>1. where \in Seq(OpenPlaces) /\ Len(where) = Len(path) + 2 /\ where # <<>>
    BY <1>1 DEF IsOpen
  <2>2. /\ next \in Seq(OpenPlaces) /\ Len(next) = Len(where) - 1
        /\ \A k \in 1 .. Len(where) - 1 : next[k] = where[k + 1]
    BY <2>1, LeftOf
  <2> HIDE DEF next
  <2>3. ASSUME NEW k \in 1 .. Len(rest)
        PROVE  next[k] = PlaceIn(t, rest[k], TRUE)
    <3>1. /\ k \in 1 .. Len(path) - 1 /\ k \in 1 .. Len(where) - 1
          /\ k + 1 \in 2 .. Len(path) /\ k + 1 \in 1 .. Len(path)
      BY <1>1, <1>5, <2>1
    <3>2. where[k + 1] = PlaceIn(s, path[k + 1], TRUE)
      BY <3>1 DEF IsOpen
    <3>3. PlaceIn(t, path[k + 1], TRUE) = PlaceIn(s, path[k + 1], TRUE)
      BY <1>2, <3>1
    <3> QED BY <1>5, <2>2, <3>1, <3>2, <3>3
  <2>4. PlaceIn(t, rest[1], TRUE) = PlaceIn(t, rest[1], Here(t).key)
    <3>1. rest[1] = path[2]
      BY <1>1, <1>5
    <3>2. PlaceIn(t, path[2], TRUE) = PlaceIn(s, path[2], TRUE)
      BY <1>1, <1>2
    <3>3. PlaceIn(t, path[2], Here(t).key) = PlaceIn(s, path[2], Here(t).key)
      BY <1>1, <1>2
    <3>4. InMapping(s, path[2]) <=> ~InSequence(s, path[2])
      BY <1>1, PathStarts
    <3> QED BY <1>4, <3>1, <3>2, <3>3, <3>4 DEF PlaceIn
  <2>5. next[1] = PlaceIn(t, rest[1], Here(t).key)
    <3>1. 1 \in 1 .. Len(rest)
      BY <1>1, <1>5
    <3> QED BY <2>3, <2>4, <3>1
  <2>6. next[Len(rest) + 1] = "ended" /\ next[Len(rest) + 2] = "stream"
    <3>1. /\ Len(rest) + 1 \in 1 .. Len(where) - 1 /\ Len(rest) + 2 \in 1 .. Len(where) - 1
          /\ (Len(rest) + 1) + 1 = Len(path) + 1 /\ (Len(rest) + 2) + 1 = Len(path) + 2
      BY <1>1, <1>5, <2>1
    <3> QED BY <2>2, <3>1 DEF IsOpen
  <2>7. \A k \in 2 .. Len(rest) : next[k] = PlaceIn(t, rest[k], TRUE)
    <3> TAKE k \in 2 .. Len(rest)
    <3>1. k \in 1 .. Len(rest)
      OBVIOUS
    <3> QED BY <2>3, <3>1
  <2>8. Len(next) = Len(rest) + 2
    BY <1>1, <1>5, <2>1, <2>2
  <2> QED BY <2>2, <2>5, <2>6, <2>7, <2>8 DEF IsOpen, next
<1> QED BY <1>6, <1>7, <1>8, <1>9 DEF t, rest

\* The end of the root.
LEMMA PathCloses ==
    ASSUME NEW s \in Seq(Events), NEW e \in Events, e.type \in Ends,
           NEW path, NEW filled, NEW stack, NEW where, Len(path) = 1,
           IsPath(s, path), IsFilled(s, path, filled, stack), IsOpen(s, path, where)
    PROVE  Here(Append(s, e)).in = 0 /\ stack = <<>> /\ Tail(where) = <<"ended", "stream">>
<1>1. path[1] = Here(s).in /\ Places(s)[path[1]].in = 0
  BY DEF IsPath
<1>2. Here(Append(s, e)).in = 0
  BY <1>1, HereEnds
<1>3. stack = <<>>
  BY DEF IsFilled
<1>4. where \in Seq(OpenPlaces) /\ Len(where) = 3 /\ where[2] = "ended" /\ where[3] = "stream"
  <2>1. /\ where \in Seq(OpenPlaces) /\ Len(where) = Len(path) + 2
        /\ where[Len(path) + 1] = "ended" /\ where[Len(path) + 2] = "stream"
    BY DEF IsOpen
  <2>2. Len(path) + 1 = 2 /\ Len(path) + 2 = 3
    OBVIOUS
  <2> QED BY <2>1, <2>2
<1>5. /\ Tail(where) \in Seq(OpenPlaces) /\ Len(Tail(where)) = 2
      /\ Tail(where)[1] = "ended" /\ Tail(where)[2] = "stream"
  BY <1>4, TailOfThree
<1>6. Tail(where) = <<"ended", "stream">>
  BY <1>5, PairIs
<1> QED BY <1>2, <1>3, <1>6
-----------------------------------------------------------------------------
(***************************************************************************)
(* The invariant under IsRead.  Outside of all collections the reader is   *)
(* before the root or after it; inside, data and data_stack are the nodes  *)
(* of the collections that are open, libyaml has the same ones open, and a *)
(* key is pending exactly when a value is due.                             *)
(***************************************************************************)
KeyIsPending ==
    pc = "reading" /\ InMapping(stream, Here(stream).in) =>
       IF Here(stream).key THEN key = NULL
       ELSE key # NULL /\ key = stream[Len(stream)].value

Inside(path) ==
    /\ IsPath(stream, path) /\ IsFilled(stream, path, data, data_stack)
    /\ IsOpen(stream, path, open) /\ KeyIsPending
    /\ Len(stream) > 2 /\ stream[Len(stream)].type # "STREAM_END"

Before ==
    /\ data = 0 /\ nodes = <<>> /\ data_stack = <<>>
    /\ \/ Len(stream) = 0 /\ open = <<"start">>
       \/ Len(stream) = 1 /\ open = <<"stream">>
       \/ Len(stream) = 2 /\ open = <<"document", "stream">>
    /\ ~Complete(stream)

After ==
    /\ Len(stream) > 2 /\ data = 1 /\ data_stack = <<>>
    /\ open \in {<<"ended", "stream">>, <<"stream">>, <<>>}
    /\ pc = "reading" => open # <<>>

IsWhere ==
    IF Here(stream).in = 0 THEN Before \/ After ELSE \E path : Inside(path)

ReadInv ==
    /\ stream \in Seq(Events)
    /\ Readable(stream) =>
          /\ pc \in {"reading", "returned"}
          /\ AreDescribed(nodes, stream)
          /\ IsWhere
-----------------------------------------------------------------------------
LEMMA PairOf ==
    ASSUME NEW S, NEW x \in S, NEW y \in S
    PROVE  <<x>> \o <<y>> = <<x, y>>
<1> DEFINE q == <<x>> \o <<y>>
<1>1. <<y>> \in Seq(S) /\ Len(<<y>>) = 1 /\ <<y>>[1] = y
  OBVIOUS
<1>2. q \in Seq(S) /\ Len(q) = 2 /\ q[1] = x /\ q[2] = y
  OBVIOUS
<1> HIDE DEF q
<1>3. q = <<q[1], q[2]>>
  BY <1>2, PairIs
<1> QED BY <1>2, <1>3 DEF q

LEMMA TripleOf ==
    ASSUME NEW S, NEW x \in S, NEW y \in S, NEW z \in S
    PROVE  <<x>> \o (<<y>> \o <<z>>) = <<x, y, z>>
<1> DEFINE p == <<y>> \o <<z>>
           q == <<x>> \o p
<1>1. p = <<y, z>>
  BY PairOf
<1>2. p \in Seq(S) /\ Len(p) = 2 /\ p[1] = y /\ p[2] = z
  BY <1>1
<1> HIDE DEF p
<1>3. q \in Seq(S) /\ Len(q) = 3 /\ q[1] = x /\ q[2] = y /\ q[3] = z
  <2>1. /\ q \in Seq(S) /\ Len(q) = Len(p) + 1 /\ q[1] = x
        /\ \A k \in 2 .. Len(p) + 1 : q[k] = p[k - 1]
    <3>1. p \in Seq(S)
      BY <1>2
    <3> QED BY <3>1, PutBefore
  <2>2. 2 \in 2 .. Len(p) + 1 /\ 3 \in 2 .. Len(p) + 1 /\ 2 - 1 = 1 /\ 3 - 1 = 2
    BY <1>2
  <2>3. q[2] = p[2 - 1] /\ q[3] = p[3 - 1]
    BY <2>1, <2>2
  <2> QED BY <1>2, <2>1, <2>2, <2>3
<1> HIDE DEF q
<1>4. q = <<q[1], q[2], q[3]>>
  BY <1>3
<1> QED BY <1>3, <1>4 DEF p, q

(***************************************************************************)
(* What libyaml may find next, and what it has open then.                  *)
(***************************************************************************)
LEMMA BeforeAllows ==
    ASSUME NEW e, Before, Here(stream).in = 0,
           Allowed(Head(open), e.type), Allows(stream, e)
    PROVE  \/ e.type = "STREAM_START" /\ Len(stream) = 0 /\ Opened(open, e.type) = <<"stream">>
           \/ /\ e.type = "DOCUMENT_START" /\ Len(stream) = 1
              /\ Opened(open, e.type) = <<"document", "stream">>
           \/ /\ e.type = "MAPPING_START" /\ Len(stream) = 2
              /\ Opened(open, e.type) = <<"key", "ended", "stream">>
<1>1. CASE Len(stream) = 0
  <2>1. open = <<"start">> /\ Head(open) = "start"
    BY <1>1 DEF Before
  <2>2. e.type = "STREAM_START"
    BY <2>1 DEF Allowed, AfterNode
  <2>3. Opened(open, e.type) = <<"stream">>
    BY <2>1, <2>2 DEF Opened, Opening, Remaining, NodeEvents
  <2> QED BY <1>1, <2>2, <2>3
<1>2. CASE Len(stream) = 1
  <2>1. open = <<"stream">> /\ e.type = "DOCUMENT_START"
    BY <1>2 DEF Before, Allows
  <2>2. Opening(e.type) = <<"document">> /\ Remaining(open, e.type) = <<"stream">>
    BY <2>1 DEF Opening, Remaining, NodeEvents
  <2>3. <<"document">> \o <<"stream">> = <<"document", "stream">>
    <3>1. "document" \in OpenPlaces /\ "stream" \in OpenPlaces
      BY DEF OpenPlaces
    <3> QED BY <3>1, PairOf
  <2>4. Opened(open, e.type) = <<"document", "stream">>
    BY <2>2, <2>3 DEF Opened
  <2> QED BY <1>2, <2>1, <2>4
<1>3. CASE Len(stream) = 2
  <2>0. open = <<"document", "stream">>
    BY <1>3 DEF Before
  <2>1. Head(open) = "document" /\ Tail(open) = <<"stream">>
    BY <2>0
  <2>2. e.type \in NodeEvents
    BY <2>1 DEF Allowed
  <2>3. e.type = "MAPPING_START"
    BY <2>2 DEF Allows
  <2>4. AfterNode[Head(open)] = "ended"
    BY <2>1 DEF AfterNode
  <2>5. Opening(e.type) = <<"key">>
    BY <2>3 DEF Opening
  <2>6. Remaining(open, e.type) = <<"ended">> \o <<"stream">>
    BY <2>1, <2>2, <2>4 DEF Remaining
  <2>7. <<"key">> \o (<<"ended">> \o <<"stream">>) = <<"key", "ended", "stream">>
    <3>1. "key" \in OpenPlaces /\ "ended" \in OpenPlaces /\ "stream" \in OpenPlaces
      BY DEF OpenPlaces
    <3> QED BY <3>1, TripleOf
  <2>8. Opened(open, e.type) = <<"key", "ended", "stream">>
    BY <2>5, <2>6, <2>7 DEF Opened
  <2> QED BY <1>3, <2>3, <2>8
<1> QED BY <1>1, <1>2, <1>3 DEF Before

LEMMA AfterAllows ==
    ASSUME NEW e, After, pc = "reading", Here(stream).in = 0,
           Allowed(Head(open), e.type), Allows(stream, e)
    PROVE  \/ e.type = "DOCUMENT_END" /\ Opened(open, e.type) = <<"stream">>
           \/ e.type = "STREAM_END" /\ Opened(open, e.type) = <<>>
<1>1. e.type # "DOCUMENT_START"
  BY DEF After, Allows
<1>2. CASE open = <<"ended", "stream">>
  <2>1. Head(open) = "ended" /\ Tail(open) = <<"stream">>
    BY <1>2
  <2>2. e.type = "DOCUMENT_END"
    BY <2>1 DEF Allowed, AfterNode
  <2> QED BY <2>1, <2>2 DEF Opened, Opening, Remaining, NodeEvents
<1>3. CASE open = <<"stream">>
  <2>1. Head(open) = "stream" /\ Tail(open) = <<>>
    BY <1>3
  <2>2. e.type = "STREAM_END"
    BY <1>1, <2>1 DEF Allowed, AfterNode
  <2> QED BY <2>1, <2>2 DEF Opened, Opening, Remaining, NodeEvents
<1> QED BY <1>2, <1>3 DEF After

LEMMA InsideAllows ==
    ASSUME stream \in Seq(Events), NEW e, NEW path, Inside(path),
           Allowed(Head(open), e.type), Allows(stream, e)
    PROVE  /\ e.type \in Starts \cup Ends \cup {"SCALAR"}
           /\ e.type \in Ends => Opened(open, e.type) = Tail(open)
           /\ e.type \notin Ends =>
                 Opened(open, e.type) = Opening(e.type) \o (<<AfterNode[Head(open)]>> \o Tail(open))
<1>1. /\ open \in Seq(OpenPlaces) /\ Len(open) # 0
      /\ open[1] = PlaceIn(stream, path[1], Here(stream).key)
  BY DEF Inside, IsOpen, IsPath
<1>2. Head(open) \in {"sequence", "key", "value"}
  BY <1>1 DEF PlaceIn
<1>3. e.type # "ALIAS"
  BY DEF Allows
<1>4. e.type \in Starts \cup Ends \cup {"SCALAR"}
  BY <1>2, <1>3 DEF Allowed, AfterNode, NodeEvents, Starts, Ends
<1>5. ASSUME e.type \in Ends
      PROVE  Opened(open, e.type) = Tail(open)
  <2>1. Opening(e.type) = <<>> /\ Remaining(open, e.type) = Tail(open)
    BY <1>5 DEF Opening, Remaining, NodeEvents, Ends
  <2>2. Tail(open) \in Seq(OpenPlaces)
    BY <1>1
  <2> QED BY <2>1, <2>2 DEF Opened
<1>6. ASSUME e.type \notin Ends
      PROVE  e.type \in NodeEvents
  BY <1>4, <1>6 DEF NodeEvents, Starts
<1> QED BY <1>4, <1>5, <1>6 DEF Opened, Remaining
-----------------------------------------------------------------------------
\* The node being filled is the innermost collection.
LEMMA FillingIs ==
    ASSUME stream \in Seq(Events), NEW path, Inside(path), AreDescribed(nodes, stream),
           nodes \in Seq(Node)
    PROVE  /\ data \in 1 .. Len(nodes)
           /\ Here(stream).in \in Data(stream) /\ data = Rank(Data(stream), Here(stream).in)
           /\ Here(stream).in # 0 /\ Here(stream).in \in 1 .. Len(stream)
           /\ Filling("hash") <=> InMapping(stream, Here(stream).in)
           /\ Filling("array") <=> InSequence(stream, Here(stream).in)
           /\ InMapping(stream, Here(stream).in) <=> ~InSequence(stream, Here(stream).in)
<1> DEFINE c == Here(stream).in
<1>1. path # <<>> /\ path \in Seq(1 .. Len(stream)) /\ path[1] = c /\ data = Rank(Data(stream), c)
  BY DEF Inside, IsPath, IsFilled
<1>2. 1 \in 1 .. Len(path)
  BY <1>1
<1>3. /\ c \in 1 .. Len(stream) /\ c \in Data(stream) /\ stream[c].type \in Starts
      /\ InMapping(stream, c) <=> ~InSequence(stream, c)
  BY <1>1, <1>2, PathStarts DEF Inside
<1>4. IsAsDescribed(nodes, stream, c) /\ Len(nodes) = Cardinality(Data(stream))
  BY <1>3, EachIsDescribed
<1>5. data \in 1 .. Len(nodes)
  <2>1. Len(stream) \in Nat /\ Data(stream) \in SUBSET (1 .. Len(stream))
    BY DEF Data
  <2> QED BY <1>1, <1>3, <1>4, <2>1, RankIn
<1>6. nodes[data].type = IF stream[c].type = "MAPPING_START" THEN "hash" ELSE "array"
  <2>1. nodes[data].type = Described(stream, Places(stream)[c].in, c).type
    BY <1>1, <1>4 DEF IsAsDescribed
  <2>2. stream[c].type = "MAPPING_START" \/ stream[c].type = "SEQUENCE_START"
    BY <1>3 DEF Starts
  <2>3. CASE stream[c].type = "MAPPING_START"
    <3>1. Described(stream, Places(stream)[c].in, c) = New("hash", <<>>)
      BY <2>3 DEF Described
    <3>2. New("hash", <<>>).type = "hash"
      BY DEF New
    <3> QED BY <2>1, <2>3, <3>1, <3>2
  <2>4. CASE stream[c].type = "SEQUENCE_START"
    <3>1. Described(stream, Places(stream)[c].in, c) = New("array", <<>>)
      BY <2>4 DEF Described
    <3>2. New("array", <<>>).type = "array"
      BY DEF New
    <3> QED BY <2>1, <2>4, <3>1, <3>2
  <2> QED BY <2>2, <2>3, <2>4
<1>7. c # 0 /\ data # 0
  <2>1. Len(stream) \in Nat /\ Len(nodes) \in Nat
    OBVIOUS
  <2> QED BY <1>3, <1>5, <2>1
<1>8. /\ InMapping(stream, c) <=> stream[c].type = "MAPPING_START"
      /\ InSequence(stream, c) <=> stream[c].type = "SEQUENCE_START"
  BY <1>7 DEF InMapping, InSequence
<1>9. /\ Filling("hash") <=> InMapping(stream, c)
      /\ Filling("array") <=> InSequence(stream, c)
  <2>1. stream[c].type = "MAPPING_START" \/ stream[c].type = "SEQUENCE_START"
    BY <1>3 DEF Starts
  <2> QED BY <1>6, <1>7, <1>8, <2>1 DEF Filling
<1> QED BY <1>1, <1>3, <1>5, <1>7, <1>9

LEMMA AttachedExtends ==
    ASSUME TypeOK, data # 0, NEW node \in Node, NEW under \in Text \cup {NULL}
    PROVE  Extends(nodes, Attached(node, under), data, node, under)
<1> DEFINE cell == [key |-> under, value |-> Len(nodes) + 1]
           grown == [nodes EXCEPT ![data].cells = Append(@, cell)]
<1>1. data \in 1 .. Len(nodes) /\ nodes \in Seq(Node)
  BY DEF TypeOK
<1>2. nodes[data] \in Node
  BY <1>1
<1>3. /\ nodes[data].cells \in Seq([key : Text \cup {NULL}, value : Nat])
      /\ cell \in [key : Text \cup {NULL}, value : Nat]
  BY <1>1, <1>2 DEF Node
<1>4. Append(nodes[data].cells, cell) \in Seq([key : Text \cup {NULL}, value : Nat])
  BY <1>3
<1>5. [nodes[data] EXCEPT !.cells = Append(@, cell)] \in Node
  BY <1>2, <1>4 DEF Node
<1>6. grown \in Seq(Node) /\ Len(grown) = Len(nodes)
  BY <1>1, <1>5
<1>7. /\ \A n \in 1 .. Len(nodes) : n # data => grown[n] = nodes[n]
      /\ grown[data].cells = Append(nodes[data].cells, cell)
      /\ grown[data].type = nodes[data].type /\ grown[data].text = nodes[data].text
  BY <1>1, <1>2 DEF Node
<1>8. Attached(node, under) = Append(grown, node)
  BY DEF Attached, AttachedTo
<1> HIDE DEF grown
<1> DEFINE next == Append(grown, node)
<1>9. /\ Len(next) = Len(nodes) + 1 /\ next[Len(nodes) + 1] = node
      /\ \A n \in 1 .. Len(nodes) : next[n] = grown[n]
  BY <1>6
<1> HIDE DEF next, cell
<1>10. \A k \in 1 .. Len(nodes) :
          /\ next[k].type = nodes[k].type /\ next[k].text = nodes[k].text
          /\ k # data => next[k].cells = nodes[k].cells
  <2> TAKE k \in 1 .. Len(nodes)
  <2> QED BY <1>7, <1>9
<1>11. next[data].cells = Append(nodes[data].cells, cell)
  BY <1>1, <1>7, <1>9
<1> QED BY <1>8, <1>9, <1>10, <1>11 DEF Extends, next, cell
-----------------------------------------------------------------------------
LEMMA EventIs ==
    ASSUME NEW type \in EventTypes, NEW value \in Text
    PROVE  /\ Event(type, value) \in Events
           /\ Event(type, value).type = type /\ Event(type, value).value = value
  BY DEF Event, Events

LEMMA PlainIs ==
    ASSUME NEW type \in EventTypes
    PROVE  Plain(type) \in Events /\ Plain(type).type = type
<1>1. <<>> \in Text
  BY DEF Text
<1> QED BY <1>1, EventIs DEF Plain

\* The next event, e, of a file that is readable so far.
Proceeds(e) ==
    /\ e \in Events /\ stream \in Seq(Events) /\ pc = "reading"
    /\ stream' = Append(stream, e) /\ open' = Opened(open, e.type)
    /\ Allowed(Head(open), e.type) /\ Allows(stream, e)
    /\ AreDescribed(nodes, stream)

LEMMA ParsedProceeds ==
    ASSUME ReadInv, NEW e \in Events, Parsed(e), Readable(stream')
    PROVE  Proceeds(e) /\ IsWhere
<1>1. stream \in Seq(Events) /\ stream' = Append(stream, e)
  BY DEF ReadInv, Parsed
<1>2. Readable(stream) /\ Allows(stream, e)
  BY <1>1, ReadableAfter
<1> QED BY <1>1, <1>2 DEF Proceeds, Parsed, ReadInv

LEMMA StreamAfter ==
    ASSUME NEW e, Proceeds(e)
    PROVE  /\ stream' \in Seq(Events) /\ Len(stream) \in Nat /\ Len(stream') = Len(stream) + 1
           /\ stream'[Len(stream')] = e /\ stream'[Len(stream) + 1] = e
<1>1. stream \in Seq(Events) /\ e \in Events /\ stream' = Append(stream, e)
  BY DEF Proceeds
<1> QED BY <1>1, Appended

\* To be inside, or outside, after a step.
LEMMA NowInside ==
    ASSUME NEW e, Proceeds(e), NEW path,
           IsPath(stream', path), IsFilled(stream', path, data', data_stack'),
           IsOpen(stream', path, open'), KeyIsPending', Len(stream) >= 2,
           e.type # "STREAM_END", pc' = pc, AreDescribed(nodes', stream')
    PROVE  ReadInv'
<1>1. Len(stream') > 2 /\ stream'[Len(stream')].type # "STREAM_END"
  BY StreamAfter
<1>2. Inside(path)'
  BY <1>1 DEF Inside
<1>3. Here(stream').in # 0
  <2>1. path \in Seq(1 .. Len(stream')) /\ path # <<>> /\ path[1] = Here(stream').in
    BY DEF IsPath
  <2>2. 1 \in 1 .. Len(path)
    BY <2>1
  <2>3. path[1] \in 1 .. Len(stream')
    BY <2>1, <2>2
  <2> QED BY <2>1, <2>3
<1>4. IsWhere'
  BY <1>2, <1>3 DEF IsWhere
<1>5. stream' \in Seq(Events) /\ pc' \in {"reading", "returned"}
  BY StreamAfter DEF Proceeds
<1> QED BY <1>4, <1>5 DEF ReadInv

LEMMA NowOutside ==
    ASSUME NEW e, Proceeds(e), Here(stream').in = 0, Before' \/ After',
           pc' \in {"reading", "returned"}, AreDescribed(nodes', stream')
    PROVE  ReadInv'
<1>1. IsWhere'
  BY DEF IsWhere
<1>2. stream' \in Seq(Events)
  BY StreamAfter
<1> QED BY <1>1, <1>2 DEF ReadInv
-----------------------------------------------------------------------------
(***************************************************************************)
(* Outside of all collections.                                             *)
(***************************************************************************)
LEMMA HereStays ==
    ASSUME NEW e, Proceeds(e), e.type \notin Starts, e.type \notin Ends, e.type # "SCALAR"
    PROVE  /\ Here(stream').in = Here(stream).in
           /\ AreDescribed(nodes, stream')
<1>1. stream \in Seq(Events) /\ e \in Events /\ stream' = Append(stream, e)
      /\ AreDescribed(nodes, stream)
  BY DEF Proceeds
<1>2. ~Adds(stream, e)
  BY DEF Adds
<1> QED BY <1>1, <1>2, HereKept, NothingAdded

LEMMA NoneBefore ==
    ASSUME NEW e, Proceeds(e), Here(stream).in = 0, Before,
           UNCHANGED <<nodes, data, data_stack>>, pc' = pc, e.type \notin Starts
    PROVE  ReadInv'
<1>1. \/ e.type = "STREAM_START" /\ Len(stream) = 0 /\ open' = <<"stream">>
      \/ e.type = "DOCUMENT_START" /\ Len(stream) = 1 /\ open' = <<"document", "stream">>
  BY BeforeAllows DEF Proceeds, Starts
<1>2. Here(stream').in = 0 /\ AreDescribed(nodes', stream')
  BY <1>1, HereStays DEF Starts, Ends
<1>3. Before'
  <2>1. stream'[Len(stream')].type # "STREAM_END"
    BY <1>1, StreamAfter
  <2>2. \/ Len(stream') = 1 /\ open' = <<"stream">>
        \/ Len(stream') = 2 /\ open' = <<"document", "stream">>
    <3>1. Len(stream') = Len(stream) + 1
      BY StreamAfter
    <3>2. ASSUME Len(stream) = 0 PROVE Len(stream') = 1
      BY <3>1, <3>2
    <3>3. ASSUME Len(stream) = 1 PROVE Len(stream') = 2
      BY <3>1, <3>3
    <3> QED BY <1>1, <3>2, <3>3
  <2> QED BY <2>1, <2>2 DEF Before, Complete
<1> QED BY <1>2, <1>3, NowOutside DEF Proceeds

LEMMA NoneAfter ==
    ASSUME NEW e, Proceeds(e), Here(stream).in = 0, After,
           UNCHANGED <<nodes, data, data_stack>>,
           pc' = IF e.type = "STREAM_END" THEN "returned" ELSE pc
    PROVE  ReadInv'
<1>1. \/ e.type = "DOCUMENT_END" /\ open' = <<"stream">>
      \/ e.type = "STREAM_END" /\ open' = <<>>
  BY AfterAllows DEF Proceeds
<1>2. Here(stream').in = 0 /\ AreDescribed(nodes', stream')
  BY <1>1, HereStays DEF Starts, Ends
<1>3. After'
  <2>1. Len(stream') > 2
    BY StreamAfter DEF After
  <2>2. pc' = "reading" => open' # <<>>
    BY <1>1
  <2> QED BY <1>1, <2>1, <2>2 DEF After
<1>4. pc' \in {"reading", "returned"}
  BY DEF Proceeds
<1> QED BY <1>2, <1>3, <1>4, NowOutside

LEMMA RootBegins ==
    ASSUME NEW e, Proceeds(e), Here(stream).in = 0, Before, e.type = "MAPPING_START",
           nodes' = <<New("hash", <<>>)>>, data' = 1, data_stack' = data_stack,
           key' = NULL, pc' = pc
    PROVE  ReadInv'
<1> DEFINE path == <<Len(stream) + 1>>
           node == New("hash", <<>>)
<1>1. /\ stream \in Seq(Events) /\ e \in Events /\ stream' = Append(stream, e)
      /\ AreDescribed(nodes, stream) /\ nodes = <<>> /\ data_stack' = <<>>
  BY DEF Proceeds, Before
<1>2. Len(stream) = 2 /\ open' = <<"key", "ended", "stream">>
  BY BeforeAllows DEF Proceeds
<1>3. Data(stream) = {}
  <2>1. Cardinality(Data(stream)) = 0
    BY <1>1, EachIsDescribed
  <2>2. Len(stream) \in Nat /\ Data(stream) \in SUBSET (1 .. Len(stream))
    BY <1>1 DEF Data
  <2>3. IsFiniteSet(Data(stream))
    BY <2>2, FiniteUpTo
  <2> QED BY <2>1, <2>3, FS_EmptySet
<1>4. /\ IsPath(stream', path) /\ IsFilled(stream', path, data', data_stack')
      /\ IsOpen(stream', path, open')
  BY <1>1, <1>2, <1>3, PathBegins
<1>5. KeyIsPending'
  <2>1. Here(stream').key
    <3>1. e.type \in Starts
      BY DEF Starts
    <3> QED BY <1>1, <3>1, HereStarts
  <2> QED BY <2>1 DEF KeyIsPending
<1>6. AreDescribed(nodes', stream')
  <2>1. Adds(stream, e)
    BY DEF Adds, Starts
  <2>2. stream'[Len(stream) + 1] = e
    BY StreamAfter
  <2>3. Described(stream', Here(stream).in, Len(stream) + 1) = node
    BY <2>2 DEF Described
  <2>4. node.cells = <<>>
    BY DEF New
  <2>5. Extends(nodes, nodes', 0, node, KeyOf(stream', Here(stream).in, Len(stream) + 1))
    <3> HIDE DEF node
    <3>1. Len(nodes) = 0 /\ Len(nodes') = 1 /\ nodes'[1] = node
      BY <1>1 DEF node
    <3> QED BY <3>1 DEF Extends
  <2>6. nodes \in Seq(Node)
    BY <1>1
  <2> HIDE DEF node
  <2> QED BY <1>1, <2>1, <2>3, <2>4, <2>5, <2>6, NodeAdded
<1> QED BY <1>2, <1>4, <1>5, <1>6, NowInside
-----------------------------------------------------------------------------
(***************************************************************************)
(* In a collection: a scalar, what begins, and what ends.                  *)
(***************************************************************************)
\* The collection that a scalar is in is the same after it; after an end a key is due.
LEMMA ScalarStays ==
    ASSUME NEW s \in Seq(Events), NEW e \in Events, e.type = "SCALAR",
           InMapping(Append(s, e), Here(Append(s, e)).in)
    PROVE  InMapping(s, Here(s).in)
<1>1. e.type \notin Starts /\ e.type \notin Ends
  BY DEF Starts, Ends
<1>2. Here(Append(s, e)).in = Here(s).in
  BY <1>1, HereKept
<1>3. Here(s).in \in 0 .. Len(s)
  <2>1. Len(s) \in Nat /\ Len(s) + 1 \in 1 .. Len(s) + 1
    OBVIOUS
  <2> QED BY <2>1, Appended DEF Here
<1> QED BY <1>2, <1>3, InsideOf

LEMMA EndsBeforeKey ==
    ASSUME NEW s \in Seq(Events), NEW e \in Events, e.type \in Ends,
           InMapping(Append(s, e), Here(Append(s, e)).in)
    PROVE  Here(Append(s, e)).key
<1> DEFINE in == Places(s)[Here(s).in].in
<1>1. Here(Append(s, e)).in = in /\ (Here(Append(s, e)).key <=> InMapping(s, in))
  BY HereEnds
<1>2. in \in 0 .. Len(s)
  <2>1. Len(s) \in Nat /\ Len(s) + 1 \in 1 .. Len(s) + 1
    OBVIOUS
  <2>2. Here(s).in \in 0 .. Len(s)
    BY <2>1, Appended DEF Here
  <2>3. Here(s).in \in 0 .. Len(s) + 1
    BY <2>1, <2>2
  <2> QED BY <2>1, <2>3, PlaceType
<1> QED BY <1>1, <1>2, InsideOf

LEMMA InsideProceeds ==
    ASSUME IInv, NEW e, Proceeds(e), NEW path, Inside(path)
    PROVE  LET in == Here(stream).in
           IN /\ IsPath(stream, path) /\ IsFilled(stream, path, data, data_stack)
              /\ IsOpen(stream, path, open) /\ Len(stream) > 2
              /\ e.type \in Starts \cup Ends \cup {"SCALAR"}
              /\ data \in 1 .. Len(nodes) /\ data # 0 /\ nodes \in Seq(Node)
              /\ in \in Data(stream) /\ data = Rank(Data(stream), in) /\ in # 0
              /\ Filling("hash") <=> InMapping(stream, in)
              /\ Filling("array") <=> InSequence(stream, in)
              /\ InMapping(stream, in) <=> ~InSequence(stream, in)
              /\ InMapping(stream, in) =>
                    IF Here(stream).key THEN key = NULL
                    ELSE key # NULL /\ key = stream[Len(stream)].value
<1>1. stream \in Seq(Events) /\ nodes \in Seq(Node) /\ AreDescribed(nodes, stream) /\ pc = "reading"
  BY DEF Proceeds, IInv, TypeOK
<1>2. e.type \in Starts \cup Ends \cup {"SCALAR"}
  BY InsideAllows DEF Proceeds
<1>3. data # 0
  <2>1. data \in 1 .. Len(nodes) /\ Len(nodes) \in Nat
    BY <1>1, FillingIs
  <2> QED BY <2>1
<1> QED BY <1>1, <1>2, <1>3, FillingIs DEF Inside, KeyIsPending

\* What a scalar, or what begins, leaves open.
LEMMA OpenAfter ==
    ASSUME NEW e, Proceeds(e), NEW path, Inside(path), e.type = "SCALAR"
    PROVE  /\ IsPath(stream', path) /\ IsFilled(stream', path, data, data_stack)
           /\ IsOpen(stream', path, open')
<1> DEFINE below == <<AfterNode[Head(open)]>> \o Tail(open)
<1>1. /\ stream \in Seq(Events) /\ e \in Events /\ stream' = Append(stream, e)
      /\ e.type \notin Ends
  BY DEF Proceeds, Ends
<1>2. open' = Opening(e.type) \o below
  BY <1>1, InsideAllows DEF Proceeds
<1>3. /\ IsPath(stream', path) /\ IsFilled(stream', path, data, data_stack)
      /\ IsOpen(stream', path, below)
  BY <1>1, PathStays DEF Inside
<1>4. open' = below
  <2>1. below \in Seq(OpenPlaces)
    BY <1>3 DEF IsOpen
  <2> HIDE DEF below
  <2>2. Opening(e.type) = <<>> /\ <<>> \o below = below
    BY <2>1 DEF Opening
  <2> QED BY <1>2, <2>2
<1> QED BY <1>3, <1>4

\* A scalar that is no datum: a key, or blanks.
LEMMA ScalarSkipped ==
    ASSUME IInv, NEW e, Proceeds(e), NEW path, Inside(path), e.type = "SCALAR", ~Adds(stream, e),
           UNCHANGED <<nodes, data, data_stack, pc>>,
           InMapping(stream, Here(stream).in) => key' = e.value
    PROVE  ReadInv'
<1>1. /\ stream \in Seq(Events) /\ e \in Events /\ stream' = Append(stream, e)
      /\ AreDescribed(nodes, stream) /\ e.type \notin Starts /\ e.type \notin Ends
  BY DEF Proceeds, Starts, Ends
<1>2. AreDescribed(nodes', stream')
  BY <1>1, NothingAdded
<1>3. /\ IsPath(stream', path) /\ IsFilled(stream', path, data', data_stack')
      /\ IsOpen(stream', path, open')
  BY OpenAfter
<1>4. KeyIsPending'
  <2> SUFFICES ASSUME InMapping(stream', Here(stream').in)
               PROVE  ~Here(stream').key /\ key' # NULL /\ key' = stream'[Len(stream')].value
    BY DEF KeyIsPending
  <2>1. InMapping(stream, Here(stream).in)
    BY <1>1, ScalarStays
  <2>2. Here(stream).key
    BY <2>1, InsideProceeds DEF Adds
  <2>3. key' = e.value /\ e.value \in Text
    BY <1>1, <2>1 DEF Events
  <2> QED BY <1>1, <2>2, <2>3, StreamAfter, HereKept, NullAssumption
<1>5. Len(stream) >= 2
  BY <1>1, InsideProceeds
<1> QED BY <1>2, <1>3, <1>4, <1>5, NowInside

\* A node for e, in the collection that is being filled.
LEMMA NodeAttached ==
    ASSUME IInv, NEW e, Proceeds(e), NEW path, Inside(path), Adds(stream, e), ~Here(stream).key,
           NEW node \in Node, node.cells = <<>>,
           node.type = Described(stream', Here(stream).in, Len(stream) + 1).type,
           node.text = Described(stream', Here(stream).in, Len(stream) + 1).text,
           nodes' = Attached(node, IF InMapping(stream, Here(stream).in) THEN key ELSE NULL)
    PROVE  AreDescribed(nodes', stream')
<1> DEFINE in == Here(stream).in
           under == IF InMapping(stream, in) THEN key ELSE NULL
<1>1. /\ stream \in Seq(Events) /\ e \in Events /\ stream' = Append(stream, e)
      /\ AreDescribed(nodes, stream) /\ Len(stream) \in Nat
  BY StreamAfter DEF Proceeds
<1>2. /\ in \in Data(stream) /\ data = Rank(Data(stream), in) /\ in # 0 /\ data # 0
      /\ nodes \in Seq(Node)
      /\ InMapping(stream, in) => key = stream[Len(stream)].value
  BY InsideProceeds
<1>3. under = KeyOf(stream', in, Len(stream) + 1)
  <2>1. Len(stream) + 1 \in 1 .. Len(stream) + 1 /\ (Len(stream) + 1) - 1 = Len(stream)
    BY <1>1
  <2>2. KeyOf(stream', in, Len(stream) + 1)
           = IF InMapping(stream, in) THEN stream[(Len(stream) + 1) - 1].value ELSE NULL
    BY <1>1, <2>1, KeyAfter DEF Here
  <2> QED BY <1>2, <2>1, <2>2
<1>4. under \in Text \cup {NULL}
  BY DEF IInv, TypeOK
<1>5. Extends(nodes, nodes', data, node, under)
  BY <1>2, <1>4, AttachedExtends DEF IInv
<1>6. Extends(nodes, nodes', IF in = 0 THEN 0 ELSE Rank(Data(stream), in), node,
              KeyOf(stream', in, Len(stream) + 1))
  BY <1>2, <1>3, <1>5
<1> HIDE DEF under, in
<1> QED BY <1>1, <1>2, <1>6, NodeAdded DEF in

LEMMA ScalarAttached ==
    ASSUME IInv, NEW e, Proceeds(e), NEW path, Inside(path), e.type = "SCALAR", Adds(stream, e),
           NEW node \in Node, node.cells = <<>>,
           node.type = Described(stream', Here(stream).in, Len(stream) + 1).type,
           node.text = Described(stream', Here(stream).in, Len(stream) + 1).text,
           nodes' = Attached(node, IF InMapping(stream, Here(stream).in) THEN key ELSE NULL),
           UNCHANGED <<data, data_stack, pc>>,
           InMapping(stream, Here(stream).in) => key' = NULL
    PROVE  ReadInv'
<1>1. /\ stream \in Seq(Events) /\ e \in Events /\ stream' = Append(stream, e)
      /\ e.type \notin Starts /\ e.type \notin Ends
  BY DEF Proceeds, Starts, Ends
<1>2. ~Here(stream).key
  BY <1>1 DEF Adds
<1>3. AreDescribed(nodes', stream')
  BY <1>2, NodeAttached
<1>4. /\ IsPath(stream', path) /\ IsFilled(stream', path, data', data_stack')
      /\ IsOpen(stream', path, open')
  BY OpenAfter
<1>5. KeyIsPending'
  <2> SUFFICES ASSUME InMapping(stream', Here(stream').in)
               PROVE  Here(stream').key /\ key' = NULL
    BY DEF KeyIsPending
  <2>1. InMapping(stream, Here(stream).in)
    BY <1>1, ScalarStays
  <2> QED BY <1>1, <1>2, <2>1, HereKept
<1>6. Len(stream) >= 2
  BY <1>1, InsideProceeds
<1> QED BY <1>3, <1>4, <1>5, <1>6, NowInside
-----------------------------------------------------------------------------
\* A collection begins in another.
LEMMA CollectionBegins ==
    ASSUME IInv, NEW e, Proceeds(e), NEW path, Inside(path), e.type \in Starts,
           Descend(New(IF e.type = "MAPPING_START" THEN "hash" ELSE "array", <<>>),
                   IF InMapping(stream, Here(stream).in) THEN key ELSE NULL),
           pc' = pc, e.type = "MAPPING_START" => key' = NULL
    PROVE  ReadInv'
<1> DEFINE node == New(IF e.type = "MAPPING_START" THEN "hash" ELSE "array", <<>>)
           longer == <<Len(stream) + 1>> \o path
<1>1. /\ stream \in Seq(Events) /\ e \in Events /\ stream' = Append(stream, e)
      /\ AreDescribed(nodes, stream) /\ Allows(stream, e) /\ e.type \notin Ends
      /\ stream'[Len(stream) + 1] = e
  BY StreamAfter DEF Proceeds, Starts, Ends
<1>2. ~Here(stream).key /\ Adds(stream, e)
  BY <1>1 DEF Allows, Starts, NodeEvents, Adds
<1>3. AreDescribed(nodes', stream')
  <2>1. node \in Node /\ node.cells = <<>>
    <3>1. <<>> \in Text /\ (IF e.type = "MAPPING_START" THEN "hash" ELSE "array") \in Types
      BY DEF Text, Types
    <3> QED BY <3>1, NewNode
  <2>2. Described(stream', Here(stream).in, Len(stream) + 1) = node
    <3>1. e.type = "MAPPING_START" \/ e.type = "SEQUENCE_START"
      BY DEF Starts
    <3> QED BY <1>1, <3>1 DEF Described
  <2>3. nodes' = Attached(node, IF InMapping(stream, Here(stream).in) THEN key ELSE NULL)
    BY DEF Descend
  <2> HIDE DEF node
  <2> QED BY <1>2, <2>1, <2>2, <2>3, NodeAttached
<1>4. data' = Cardinality(Data(stream)) + 1 /\ data_stack' = <<data>> \o data_stack
  <2>1. Len(nodes) = Cardinality(Data(stream))
    BY <1>1, EachIsDescribed
  <2> QED BY <2>1 DEF Descend, Pushed
<1>5. open' = Opening(e.type) \o (<<AfterNode[Head(open)]>> \o Tail(open))
  BY <1>1, InsideAllows DEF Proceeds
<1>6. /\ IsPath(stream', longer) /\ IsFilled(stream', longer, data', data_stack')
      /\ IsOpen(stream', longer, open')
  BY <1>1, <1>4, <1>5, PathGrows DEF Inside
<1>7. KeyIsPending'
  <2> SUFFICES ASSUME InMapping(stream', Here(stream').in)
               PROVE  Here(stream').key /\ key' = NULL
    BY DEF KeyIsPending
  <2>1. Here(stream').in = Len(stream) + 1 /\ (Here(stream').key <=> e.type = "MAPPING_START")
    BY <1>1, HereStarts
  <2>2. e.type = "MAPPING_START"
    BY <1>1, <2>1 DEF InMapping
  <2> QED BY <2>1, <2>2
<1>8. Len(stream) >= 2 /\ e.type # "STREAM_END"
  BY <1>1, InsideProceeds DEF Starts
<1> HIDE DEF longer
<1> QED BY <1>3, <1>6, <1>7, <1>8, NowInside

\* A collection ends: the one around it goes on, or it was the root.
LEMMA CollectionEnds ==
    ASSUME IInv, NEW e, Proceeds(e), NEW path, Inside(path), e.type \in Ends,
           Ascend, nodes' = nodes, key' = NULL, pc' = pc
    PROVE  ReadInv'
<1>1. /\ stream \in Seq(Events) /\ e \in Events /\ stream' = Append(stream, e)
      /\ AreDescribed(nodes, stream) /\ e.type # "STREAM_END"
  BY DEF Proceeds, Ends
<1>2. AreDescribed(nodes', stream')
  <2>1. ~Adds(stream, e)
    BY DEF Adds, Ends, Starts
  <2> QED BY <1>1, <2>1, NothingAdded
<1>3. open' = Tail(open)
  BY <1>1, InsideAllows DEF Proceeds
<1>4. /\ IsPath(stream, path) /\ IsFilled(stream, path, data, data_stack)
      /\ IsOpen(stream, path, open) /\ Len(stream) > 2 /\ data # 0
  BY InsideProceeds
<1>5. Len(stream) >= 2
  BY <1>1, <1>4
<1>6. CASE Len(path) # 1
  <2>1. /\ IsPath(stream', Tail(path)) /\ Len(data_stack) > 0
        /\ IsFilled(stream', Tail(path), Head(data_stack), Tail(data_stack))
        /\ IsOpen(stream', Tail(path), Tail(open))
    BY <1>1, <1>4, <1>6, PathShrinks
  <2>2. data' = Head(data_stack) /\ data_stack' = Tail(data_stack)
    BY <2>1 DEF Ascend
  <2>3. KeyIsPending'
    <3> SUFFICES ASSUME InMapping(stream', Here(stream').in)
                 PROVE  Here(stream').key
      BY DEF KeyIsPending
    <3> QED BY <1>1, EndsBeforeKey
  <2> QED BY <1>1, <1>2, <1>3, <1>5, <2>1, <2>2, <2>3, NowInside
<1>7. CASE Len(path) = 1
  <2>1. Here(stream').in = 0 /\ data_stack = <<>> /\ open' = <<"ended", "stream">>
    BY <1>1, <1>3, <1>4, <1>7, PathCloses
  <2>2. data' = data /\ data_stack' = <<>>
    BY <2>1 DEF Ascend
  <2>3. data = 1
    BY <1>4, <2>1 DEF IInv, StackLeads
  <2>4. Len(stream') > 2
    BY <1>4, StreamAfter
  <2>5. After'
    BY <2>1, <2>2, <2>3, <2>4 DEF After
  <2> QED BY <1>2, <2>1, <2>5, NowOutside DEF Proceeds
<1> QED BY <1>6, <1>7
-----------------------------------------------------------------------------
LEMMA OutsideAllows ==
    ASSUME NEW e, Proceeds(e), Here(stream).in = 0, Before \/ After
    PROVE  \/ Before /\ e.type \in {"STREAM_START", "DOCUMENT_START", "MAPPING_START"}
           \/ After /\ e.type \in {"DOCUMENT_END", "STREAM_END"}
  BY BeforeAllows, AfterAllows DEF Proceeds

\* Nothing is to be shown of a file that the reader is not made for.
LEMMA ReadOn ==
    ASSUME ReadInv, NEW e \in Events, Parsed(e),
           Proceeds(e) /\ Here(stream).in = 0 /\ (Before \/ After) => ReadInv',
           \A path : Proceeds(e) /\ Inside(path) => ReadInv'
    PROVE  ReadInv'
<1>1. stream' \in Seq(Events)
  BY Appended DEF ReadInv, Parsed
<1>2. CASE ~Readable(stream')
  BY <1>1, <1>2 DEF ReadInv
<1>3. CASE Readable(stream')
  BY <1>3, ParsedProceeds DEF IsWhere
<1> QED BY <1>2, <1>3

LEMMA MappingRead ==
    ASSUME IInv, ReadInv,
           \/ RootMapping \/ MappingInHash \/ MappingInArray \/ MappingWithoutKey
    PROVE  ReadInv'
<1> DEFINE e == Plain("MAPPING_START")
<1>1. e \in Events /\ e.type = "MAPPING_START"
  BY PlainIs DEF EventTypes, NodeEvents
<1>2. Parsed(e)
  BY DEF RootMapping, MappingInHash, MappingInArray, MappingWithoutKey
<1> HIDE DEF e
<1>3. ASSUME Proceeds(e), Here(stream).in = 0, Before \/ After
      PROVE  ReadInv'
  <2>1. Before /\ data = 0
    BY <1>1, <1>3, OutsideAllows DEF Before
  <2>2. RootMapping
    BY <2>1 DEF MappingInHash, MappingInArray, MappingWithoutKey, Filling
  <2> QED BY <1>1, <1>3, <2>1, <2>2, RootBegins DEF RootMapping
<1>4. ASSUME NEW path, Proceeds(e), Inside(path)
      PROVE  ReadInv'
  <2>1. /\ data # 0
        /\ Filling("hash") <=> InMapping(stream, Here(stream).in)
        /\ Filling("array") <=> InSequence(stream, Here(stream).in)
        /\ InMapping(stream, Here(stream).in) <=> ~InSequence(stream, Here(stream).in)
        /\ InMapping(stream, Here(stream).in) /\ ~Here(stream).key => key # NULL
    BY <1>4, InsideProceeds
  <2>2. ~Here(stream).key
    BY <1>1, <1>4 DEF Proceeds, Allows, NodeEvents
  <2>3. MappingInHash \/ MappingInArray
    BY <2>1, <2>2 DEF RootMapping, MappingWithoutKey
  <2>4. /\ Descend(New("hash", <<>>), IF InMapping(stream, Here(stream).in) THEN key ELSE NULL)
        /\ key' = NULL /\ pc' = pc
    BY <2>1, <2>3 DEF MappingInHash, MappingInArray
  <2> QED BY <1>1, <1>4, <2>4, CollectionBegins DEF Starts
<1> QED BY <1>1, <1>2, <1>3, <1>4, ReadOn

LEMMA SequenceRead ==
    ASSUME IInv, ReadInv,
           SequenceInHash \/ SequenceWithoutKey \/ SequenceInArray
    PROVE  ReadInv'
<1> DEFINE e == Plain("SEQUENCE_START")
<1>1. e \in Events /\ e.type = "SEQUENCE_START"
  BY PlainIs DEF EventTypes, NodeEvents
<1>2. Parsed(e)
  BY DEF SequenceInHash, SequenceWithoutKey, SequenceInArray
<1> HIDE DEF e
<1>3. ASSUME Proceeds(e), Here(stream).in = 0, Before \/ After
      PROVE  ReadInv'
  BY <1>1, <1>3, OutsideAllows
<1>4. ASSUME NEW path, Proceeds(e), Inside(path)
      PROVE  ReadInv'
  <2>1. /\ data # 0
        /\ Filling("hash") <=> InMapping(stream, Here(stream).in)
        /\ Filling("array") <=> InSequence(stream, Here(stream).in)
        /\ InMapping(stream, Here(stream).in) <=> ~InSequence(stream, Here(stream).in)
        /\ InMapping(stream, Here(stream).in) /\ ~Here(stream).key => key # NULL
    BY <1>4, InsideProceeds
  <2>2. ~Here(stream).key /\ ~InSequence(stream, Here(stream).in)
    BY <1>1, <1>4 DEF Proceeds, Allows, NodeEvents
  <2>3. SequenceInHash
    BY <2>1, <2>2 DEF SequenceWithoutKey, SequenceInArray
  <2>4. /\ Descend(New("array", <<>>), IF InMapping(stream, Here(stream).in) THEN key ELSE NULL)
        /\ pc' = pc
    BY <2>1, <2>3 DEF SequenceInHash
  <2> QED BY <1>1, <1>4, <2>4, CollectionBegins DEF Starts
<1> QED BY <1>1, <1>2, <1>3, <1>4, ReadOn

LEMMA EndRead ==
    ASSUME IInv, ReadInv, MappingEnd \/ SequenceEnd
    PROVE  ReadInv'
<1>1. ASSUME NEW e \in Events, e.type \in Ends, Parsed(e), Ascend, nodes' = nodes, key' = NULL,
             pc' = pc
      PROVE  ReadInv'
  <2>1. ASSUME Proceeds(e), Here(stream).in = 0, Before \/ After
        PROVE  ReadInv'
    BY <1>1, <2>1, OutsideAllows DEF Ends
  <2>2. ASSUME NEW path, Proceeds(e), Inside(path)
        PROVE  ReadInv'
    BY <1>1, <2>2, CollectionEnds
  <2> QED BY <1>1, <2>1, <2>2, ReadOn
<1>2. \A type \in Ends : Plain(type) \in Events /\ Plain(type).type = type
  BY PlainIs DEF EventTypes, Ends
<1> QED BY <1>1, <1>2 DEF MappingEnd, SequenceEnd, KeyAfterSequence, Ends

LEMMA ScalarRead ==
    ASSUME IInv, ReadInv, NEW value \in Scalars,
           \/ ScalarKey(value) \/ ScalarValue(value) \/ ScalarBeforeData(value)
           \/ Element(value) \/ ElementBeyond(value) \/ BlankElement(value)
    PROVE  ReadInv'
<1> DEFINE e == Event("SCALAR", value)
<1>0. value \in Text
  BY ScalarsAssumption
<1>1. e \in Events /\ e.type = "SCALAR" /\ e.value = value
  BY <1>0, EventIs DEF EventTypes, NodeEvents
<1>2. Parsed(e)
  BY DEF ScalarKey, ScalarValue, ScalarBeforeData, Element, ElementBeyond, BlankElement
<1> HIDE DEF e
<1>3. ASSUME Proceeds(e), Here(stream).in = 0, Before \/ After
      PROVE  ReadInv'
  BY <1>1, <1>3, OutsideAllows
<1>4. ASSUME NEW path, Proceeds(e), Inside(path)
      PROVE  ReadInv'
  <2> DEFINE in == Here(stream).in
  <2>1. /\ data # 0
        /\ Filling("hash") <=> InMapping(stream, in)
        /\ Filling("array") <=> InSequence(stream, in)
        /\ InMapping(stream, in) <=> ~InSequence(stream, in)
        /\ InMapping(stream, in) => IF Here(stream).key THEN key = NULL ELSE key # NULL
    BY <1>4, InsideProceeds
  <2>2. /\ stream'[Len(stream) + 1] = e /\ stream \in Seq(Events) /\ Len(stream) \in Nat
        /\ stream' = Append(stream, e) /\ e \in Events
    BY <1>4, StreamAfter DEF Proceeds
  <2>3. InSequence(stream', in) <=> InSequence(stream, in)
    <3>1. in \in 0 .. Len(stream)
      <4>1. Len(stream) + 1 \in 1 .. Len(stream) + 1
        BY <2>2
      <4> QED BY <2>2, <4>1, Appended DEF Here
    <3> QED BY <2>2, <3>1, InsideOf
  <2>4. Here(stream).key => InMapping(stream, in)
    <3>1. Len(stream) + 1 \in 0 .. Len(stream) + 1
      BY <2>2
    <3> QED BY <2>2, <3>1, KeyInMapping DEF Here
  <2>5. /\ yaml_strtrim(value) = IF Inner(value) = <<>> THEN NULL ELSE Inner(value)
        /\ Inner(value) \in Text /\ (ReadsBeyond(value) <=> Padded(value))
    BY <1>0, Trimmed
  <2>6. InSequence(stream, in) => ~Padded(value)
    BY <1>1, <1>4 DEF Proceeds, Allows
  <2> HIDE DEF in
  <2>7. CASE ScalarKey(value)
    <3>1. ~Adds(stream, e)
      BY <1>1, <2>1, <2>7 DEF Adds, ScalarKey, Starts, in
    <3> QED BY <1>1, <1>4, <2>7, <3>1, ScalarSkipped DEF ScalarKey
  <2>8. CASE ScalarValue(value)
    <3>1. InMapping(stream, in) /\ ~Here(stream).key
      BY <2>1, <2>8 DEF ScalarValue
    <3>2. Adds(stream, e)
      BY <1>1, <2>1, <3>1 DEF Adds, in
    <3>3. Described(stream', in, Len(stream) + 1) = ScalarNode(value)
      <4>1. ~InSequence(stream', in)
        BY <2>1, <2>3, <3>1
      <4> QED BY <1>1, <2>2, <4>1 DEF Described, ScalarNode
    <3>4. ScalarNode(value) \in Node /\ ScalarNode(value).cells = <<>>
      BY <1>0, ScalarNodeIsNode
    <3>5. nodes' = Attached(ScalarNode(value), IF InMapping(stream, in) THEN key ELSE NULL)
      BY <2>8, <3>1 DEF ScalarValue
    <3>6. UNCHANGED <<data, data_stack, pc>> /\ key' = NULL
      BY <2>8 DEF ScalarValue
    <3> QED BY <1>1, <1>4, <3>2, <3>3, <3>4, <3>5, <3>6, ScalarAttached DEF in
  <2>9. CASE ScalarBeforeData(value)
    BY <2>1, <2>9 DEF ScalarBeforeData
  <2>10. CASE Element(value)
    <3>1. InSequence(stream, in) /\ ~InMapping(stream, in) /\ ~Here(stream).key
      BY <2>1, <2>4, <2>10 DEF Element
    <3>2. Inner(value) # <<>> /\ yaml_strtrim(value) = Inner(value)
      BY <2>5, <2>10 DEF Element
    <3>3. Adds(stream, e)
      BY <1>1, <3>1, <3>2 DEF Adds, in
    <3>4. Described(stream', in, Len(stream) + 1) = New("string", Inner(value))
      BY <1>1, <2>2, <2>3, <3>1 DEF Described
    <3>5. New("string", Inner(value)) \in Node /\ New("string", Inner(value)).cells = <<>>
      BY <2>5, NewNode DEF Types
    <3>6. nodes' = Attached(New("string", Inner(value)),
                            IF InMapping(stream, in) THEN key ELSE NULL)
      BY <2>10, <3>1, <3>2 DEF Element
    <3>7. UNCHANGED <<data, data_stack, pc>>
      BY <2>10 DEF Element
    <3> QED BY <1>1, <1>4, <3>1, <3>3, <3>4, <3>5, <3>6, <3>7, ScalarAttached DEF in
  <2>11. CASE ElementBeyond(value)
    BY <2>1, <2>5, <2>6, <2>11 DEF ElementBeyond
  <2>12. CASE BlankElement(value)
    <3>1. InSequence(stream, in) /\ ~InMapping(stream, in)
      BY <2>1, <2>12 DEF BlankElement
    <3>2. Inner(value) = <<>>
      BY <2>5, <2>12, NullAssumption DEF BlankElement
    <3>3. ~Adds(stream, e)
      BY <1>1, <3>1, <3>2 DEF Adds, Starts, in
    <3> QED BY <1>1, <1>4, <2>12, <3>1, <3>3, ScalarSkipped DEF BlankElement, in
  <2> QED BY <2>7, <2>8, <2>9, <2>10, <2>11, <2>12
<1> QED BY <1>1, <1>2, <1>3, <1>4, ReadOn

LEMMA OtherRead ==
    ASSUME IInv, ReadInv, IgnoredEvent \/ StreamEnd
    PROVE  ReadInv'
<1> DEFINE types == {"STREAM_START", "DOCUMENT_START", "DOCUMENT_END", "ALIAS", "STREAM_END"}
<1>1. PICK type \in types :
         /\ Parsed(Plain(type)) /\ UNCHANGED <<nodes, data, data_stack>>
         /\ pc' = IF type = "STREAM_END" THEN "returned" ELSE pc
  BY DEF IgnoredEvent, StreamEnd
<1> DEFINE e == Plain(type)
<1>2. e \in Events /\ e.type = type
  BY PlainIs DEF EventTypes, NodeEvents
<1> HIDE DEF e
<1>3. ASSUME Proceeds(e), Here(stream).in = 0, Before \/ After
      PROVE  ReadInv'
  <2>1. CASE Before /\ e.type \in {"STREAM_START", "DOCUMENT_START", "MAPPING_START"}
    <3>1. e.type \notin Starts /\ pc' = pc
      BY <1>1, <1>2, <2>1 DEF Starts
    <3> QED BY <1>1, <1>3, <2>1, <3>1, NoneBefore
  <2>2. CASE After /\ e.type \in {"DOCUMENT_END", "STREAM_END"}
    BY <1>1, <1>2, <1>3, <2>2, NoneAfter
  <2> QED BY <1>3, <2>1, <2>2, OutsideAllows
<1>4. ASSUME NEW path, Proceeds(e), Inside(path)
      PROVE  ReadInv'
  BY <1>2, <1>4, InsideProceeds DEF Starts, Ends
<1> QED BY <1>1, <1>2, <1>3, <1>4, ReadOn DEF e

\* The file is no YAML from here on, or nothing happens.
LEMMA StreamKept ==
    ASSUME ReadInv, UNCHANGED <<stream, open, nodes, data, data_stack>>,
           pc' = "returned" \/ UNCHANGED <<pc, key>>
    PROVE  ReadInv'
<1>1. ASSUME NEW path, Inside(path)
      PROVE  Inside(path)'
  BY <1>1 DEF Inside, KeyIsPending
<1>2. Before => Before'
  BY DEF Before
<1>3. After => After'
  BY DEF After
<1>4. IsWhere => IsWhere'
  BY <1>1, <1>2, <1>3 DEF IsWhere
<1> QED BY <1>4 DEF ReadInv

LEMMA ReadStep ==
    ASSUME IInv, ReadInv, [Next]_vars
    PROVE  ReadInv'
<1>1. CASE RootMapping \/ MappingInHash \/ MappingInArray \/ MappingWithoutKey
  BY <1>1, MappingRead
<1>2. CASE SequenceInHash \/ SequenceWithoutKey \/ SequenceInArray
  BY <1>2, SequenceRead
<1>3. CASE MappingEnd \/ SequenceEnd
  BY <1>3, EndRead
<1>4. CASE Scalar
  BY <1>4, ScalarRead DEF Scalar
<1>5. CASE IgnoredEvent \/ StreamEnd
  BY <1>5, OtherRead
<1>6. CASE ParseFails
  BY <1>6, StreamKept DEF ParseFails
<1>7. CASE UNCHANGED vars
  BY <1>7, StreamKept DEF vars
<1> QED BY <1>1, <1>2, <1>3, <1>4, <1>5, <1>6, <1>7 DEF Next, Stopped

LEMMA ReadBase == Init => ReadInv
<1> SUFFICES ASSUME Init PROVE ReadInv
  OBVIOUS
<1>1. /\ stream = <<>> /\ open = <<"start">> /\ nodes = <<>> /\ data = 0 /\ data_stack = <<>>
      /\ pc = "reading"
  BY DEF Init
<1>2. stream \in Seq(Events) /\ Len(stream) = 0
  BY <1>1
<1>3. Here(stream).in = 0
  <2>1. ArePlaces(Places(stream), stream, 1)
    BY <1>2, PlacesAre
  <2>2. 1 \in 0 .. 1
    OBVIOUS
  <2> QED BY <1>2, <2>1, <2>2 DEF ArePlaces, Outside, Here
<1>4. AreDescribed(nodes, stream)
  <2>1. Data(stream) = {}
    BY <1>2 DEF Data
  <2>2. Cardinality(Data(stream)) = 0
    BY <2>1, FS_EmptySet
  <2> QED BY <1>1, <2>1, <2>2, EachIsDescribed
<1>5. Before
  BY <1>1, <1>2 DEF Before, Complete
<1> QED BY <1>1, <1>2, <1>3, <1>4, <1>5 DEF ReadInv, IsWhere

LEMMA ReadMeans ==
    ASSUME ReadInv
    PROVE  IsRead
<1> SUFFICES ASSUME Readable(stream)
             PROVE  /\ pc \in {"reading", "returned"} /\ AreDescribed(nodes, stream)
                    /\ Complete(stream) => data = 1
  BY DEF IsRead
<1>1. Complete(stream) => data = 1
  BY DEF ReadInv, IsWhere, Before, After, Inside, Complete
<1> QED BY <1>1 DEF ReadInv

(***************************************************************************)
(* Of every file that it is made for, whatever nests in what and however   *)
(* deep, the reader builds the data described, all of it and in order, at  *)
(* every moment; it never stops before the end, and returns the root.      *)
(***************************************************************************)
THEOREM ReadsWhatIsDescribed == Spec => []IsRead
<1>1. Init => ReadInv
  BY ReadBase
<1>2. IInv /\ ReadInv /\ [Next]_vars => ReadInv'
  BY ReadStep
<1>3. ReadInv => IsRead
  BY ReadMeans
<1> QED BY <1>1, <1>2, <1>3, Invariant, PTL DEF Spec
=============================================================================
