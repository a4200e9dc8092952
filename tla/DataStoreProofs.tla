--------------------------- MODULE DataStoreProofs ---------------------------
(***************************************************************************)
(* Proofs about DataStore, for any number of nodes, blocks and cells: the  *)
(* destructors use and free each piece of memory once, counts are numbers  *)
(* of references, nothing leaks and no array outgrows its buffer.          *)
(*                                                                         *)
(* What a destruction has counted down, released or freed so far is not in *)
(* step with the counts until it ends.  The inductive invariant IInv says  *)
(* how it is: the cells of what is being destroyed no longer count, but    *)
(* the steps still to be done for them do, and each piece of memory that a *)
(* step is going to use is kept by another step further down in todo.      *)
(***************************************************************************)
EXTENDS DataStore, FiniteSetTheorems, SequenceTheorems, WellFoundedInduction, TLAPS

(***************************************************************************)
(* todo, read from its end: what is left to do keeps its place while steps *)
(* are put before it and taken away.                                       *)
(***************************************************************************)
Depth == Len(todo)
Stack == [p \in 1 .. Depth |-> todo[Depth + 1 - p]]

Entries == [do : {"destroy", "release", "free_node"}, arg : NodeIds]
           \cup [do : {"free_block"}, arg : BlockIds]

\* The data of the node is being destroyed, or has been.
Spent(n) == nodes[n].refcount = -1

\* A block whose node is not being destroyed.
Kept(b) == \E o \in NodeIds : nodes[o].data = b /\ ~Spent(o)

\* The cells that hold a node and are not being destroyed, and the steps to come
\* that were cells of it.
Held(n) == {c \in BlockIds \X (1 .. MaxCells) :
               /\ c[2] \in DOMAIN blocks[c[1]].cells
               /\ blocks[c[1]].cells[c[2]].value = n
               /\ Kept(c[1])}
Releases(n) == {p \in 1 .. Depth : Stack[p] = Do("release", n)}

Awaits(n) == \E p \in 1 .. Depth : Stack[p] = Do("destroy", n)

NodeShape ==
    \A n \in NodeIds :
        /\ ~IsLive(n) => nodes[n].data = NULL /\ nodes[n].refcount = 0
        /\ nodes[n].data = NULL <=> nodes[n].type = "scalar"
        /\ nodes[n].data # NULL => blocks[nodes[n].data].place # "new"
        /\ nodes[n].data # NULL /\ ~Spent(n) => BlockIsLive(nodes[n].data)
        /\ nodes[n].type = "string" => blocks[nodes[n].data].cells = <<>>

BlockShape ==
    \A b \in BlockIds :
        /\ Len(blocks[b].cells) <= MaxCells
        /\ ~BlockIsLive(b) => blocks[b].cells = <<>>
        /\ BlockIsLive(b) => \E n \in NodeIds : nodes[n].data = b

Unshared ==
    \A m, n \in NodeIds : nodes[m].data = nodes[n].data /\ nodes[m].data # NULL => m = n

\* A node in a buffer is an element of an array, once.
CellsHeld ==
    \A n \in NodeIds : nodes[n].place = "cell" =>
        /\ nodes[n].refcount \in {0, -1}
        /\ \E b \in BlockIds : n \in Values(b)

HeldOnce ==
    \A b, d \in BlockIds : \A c \in DOMAIN blocks[b].cells, e \in DOMAIN blocks[d].cells :
        /\ blocks[b].cells[c].value = blocks[d].cells[e].value
        /\ nodes[blocks[b].cells[c].value].place = "cell"
        => b = d /\ c = e

ArrayElements ==
    \A a \in NodeIds : nodes[a].type = "array" =>
        \A v \in Values(nodes[a].data) :
            /\ nodes[v].place = "cell"
            /\ ~Spent(a) => nodes[v].refcount = 0 /\ ~Awaits(v)
            /\ Spent(a) => Spent(v) \/ Awaits(v)

HashElements ==
    \A h \in NodeIds : nodes[h].type = "hash" =>
        \A v \in Values(nodes[h].data) :
            /\ nodes[v].place \in {"heap", "gone"}
            /\ ~Spent(h) => nodes[v].place = "heap" /\ ~Spent(v)

\* Nothing but a release is to be done twice.
Once ==
    \A p, q \in 1 .. Depth : Stack[p] = Stack[q] /\ Stack[p].do # "release" => p = q

\* An element is destroyed before the buffer in which it stands is freed.
Destroys ==
    \A p \in 1 .. Depth, n \in NodeIds : Stack[p] = Do("destroy", n) =>
        /\ IsLive(n) /\ nodes[n].refcount = 0
        /\ nodes[n].place = "cell" =>
              \E q \in 1 .. p - 1, b \in BlockIds :
                  Stack[q] = Do("free_block", b) /\ n \in Values(b)

Releasing ==
    \A p \in 1 .. Depth, n \in NodeIds : Stack[p] = Do("release", n) =>
        nodes[n].place = "heap" /\ ~Spent(n)

FreesNodes ==
    \A p \in 1 .. Depth, n \in NodeIds : Stack[p] = Do("free_node", n) =>
        nodes[n].place = "heap" /\ Spent(n)

FreesBlocks ==
    \A p \in 1 .. Depth, b \in BlockIds : Stack[p] = Do("free_block", b) =>
        BlockIsLive(b) /\ ~Kept(b)

\* A spent node is freed, by itself or with its buffer, but its data before it.
DataFirst(n, p) ==
    nodes[n].data # NULL /\ BlockIsLive(nodes[n].data) =>
        \E q \in p + 1 .. Depth : Stack[q] = Do("free_block", nodes[n].data)

SpentNodes ==
    /\ \A n \in NodeIds : Spent(n) /\ nodes[n].place = "heap" =>
          \E p \in 1 .. Depth : Stack[p] = Do("free_node", n) /\ DataFirst(n, p)
    /\ \A n \in NodeIds : Spent(n) /\ nodes[n].place = "cell" =>
          \E p \in 1 .. Depth, b \in BlockIds :
              Stack[p] = Do("free_block", b) /\ n \in Values(b) /\ DataFirst(n, p)

Counts ==
    \A n \in NodeIds : nodes[n].place = "heap" /\ ~Spent(n) =>
        nodes[n].refcount = Cardinality(Held(n)) + Cardinality(Releases(n))

Shape == NodeShape /\ BlockShape /\ Unshared
Elements == CellsHeld /\ HeldOnce /\ ArrayElements /\ HashElements
Steps == Once /\ Destroys /\ Releasing /\ FreesNodes /\ FreesBlocks /\ SpentNodes

IInv == TypeOK /\ Shape /\ Elements /\ Steps /\ Counts
-----------------------------------------------------------------------------
LEMMA StackType ==
    ASSUME TypeOK
    PROVE  /\ Depth \in Nat /\ todo \in Seq(Entries) /\ (Idle <=> Depth = 0)
           /\ Stack \in [1 .. Depth -> Entries]
<1>1. todo \in Seq(Entries)
  BY DEF TypeOK, Entries
<1>2. Depth \in Nat /\ (Idle <=> Depth = 0)
  BY <1>1 DEF Depth, Idle
<1>3. \A p \in 1 .. Depth : Depth + 1 - p \in 1 .. Depth
  BY <1>2
<1>4. \A p \in 1 .. Depth : todo[p] \in Entries
  BY <1>1 DEF Depth
<1>5. \A p \in 1 .. Depth : todo[Depth + 1 - p] \in Entries
  BY <1>3, <1>4
<1> QED BY <1>1, <1>2, <1>5 DEF Stack

LEMMA Concat ==
    ASSUME NEW S, NEW s \in Seq(S), NEW t \in Seq(S)
    PROVE  /\ s \o t \in Seq(S) /\ Len(s \o t) = Len(s) + Len(t) /\ Len(s) \in Nat
           /\ \A c \in 1 .. Len(s) : (s \o t)[c] = s[c]
           /\ \A c \in 1 .. Len(t) : (s \o t)[Len(s) + c] = t[c]
<1>1. s \o t \in Seq(S) /\ Len(s \o t) = Len(s) + Len(t) /\ Len(s) \in Nat /\ Len(t) \in Nat
  OBVIOUS
<1>2. \A c \in 1 .. Len(s) : (s \o t)[c] = s[c]
  BY <1>1
<1>3. \A c \in 1 .. Len(t) : (s \o t)[Len(s) + c] = t[c]
  BY <1>1
<1> QED BY <1>1, <1>2, <1>3

\* The head of todo is taken away, and new steps are put before the rest.
LEMMA PopPush ==
    ASSUME TypeOK, ~Idle, NEW new \in Seq(Entries), todo' = new \o Tail(todo)
    PROVE  /\ Depth \in Nat \ {0} /\ Len(new) \in Nat
           /\ Depth' = Depth - 1 + Len(new)
           /\ \A p \in 1 .. Depth - 1 : Stack'[p] = Stack[p]
           /\ \A c \in 1 .. Len(new) : Stack'[Depth' + 1 - c] = new[c]
           /\ Stack[Depth] = Head(todo)
           /\ Depth' \in Nat /\ todo' \in Seq(Entries)
<1>1. /\ Depth \in Nat \ {0} /\ todo \in Seq(Entries) /\ todo # <<>> /\ Len(todo) = Depth
  BY StackType DEF Idle, Depth
<1> DEFINE rest == Tail(todo)
<1>2. /\ rest \in Seq(Entries) /\ Len(rest) = Depth - 1 /\ todo' = new \o rest
      /\ \A c \in 1 .. Depth - 1 : rest[c] = todo[c + 1]
  BY <1>1
<1> HIDE DEF rest
<1>3. /\ todo' \in Seq(Entries) /\ Len(todo') = Len(new) + Depth - 1 /\ Len(new) \in Nat
      /\ \A c \in 1 .. Len(new) : todo'[c] = new[c]
      /\ \A c \in 1 .. Depth - 1 : todo'[Len(new) + c] = rest[c]
  <2>1. /\ new \o rest \in Seq(Entries) /\ Len(new \o rest) = Len(new) + Len(rest) /\ Len(new) \in Nat
        /\ \A c \in 1 .. Len(new) : (new \o rest)[c] = new[c]
        /\ \A c \in 1 .. Len(rest) : (new \o rest)[Len(new) + c] = rest[c]
    BY <1>2, Concat
  <2> QED BY <2>1, <1>1, <1>2
<1>4. Depth' = Depth - 1 + Len(new) /\ Depth' \in Nat
  BY <1>1, <1>3 DEF Depth
<1>5. Stack' = [p \in 1 .. Depth' |-> todo'[Depth' + 1 - p]]
  BY DEF Stack
<1>6. \A p \in 1 .. Depth - 1 : Stack'[p] = Stack[p]
  <2> TAKE p \in 1 .. Depth - 1
  <2>1. p \in 1 .. Depth' /\ p \in 1 .. Depth /\ Depth - p \in 1 .. Depth - 1
        /\ Depth' + 1 - p = Len(new) + (Depth - p) /\ Depth - p + 1 = Depth + 1 - p
    BY <1>1, <1>3, <1>4
  <2>2. Stack'[p] = todo'[Len(new) + (Depth - p)]
    BY <2>1, <1>5
  <2>3. todo'[Len(new) + (Depth - p)] = todo[Depth - p + 1]
    BY <2>1, <1>2, <1>3
  <2> QED BY <2>1, <2>2, <2>3 DEF Stack
<1>7. \A c \in 1 .. Len(new) : Stack'[Depth' + 1 - c] = new[c]
  <2> TAKE c \in 1 .. Len(new)
  <2>1. Depth' + 1 - c \in 1 .. Depth' /\ Depth' + 1 - (Depth' + 1 - c) = c
    BY <1>1, <1>3, <1>4
  <2> QED BY <2>1, <1>3, <1>5
<1>8. Stack[Depth] = Head(todo)
  <2>1. Depth \in 1 .. Depth /\ Depth + 1 - Depth = 1
    BY <1>1
  <2> QED BY <2>1, <1>1 DEF Stack
<1> QED BY <1>1, <1>3, <1>4, <1>6, <1>7, <1>8

LEMMA Pop ==
    ASSUME TypeOK, ~Idle, todo' = Tail(todo)
    PROVE  /\ Depth \in Nat \ {0} /\ Depth' = Depth - 1
           /\ \A p \in 1 .. Depth - 1 : Stack'[p] = Stack[p]
           /\ Stack[Depth] = Head(todo)
           /\ todo' \in Seq(Entries)
<1>1. todo \in Seq(Entries) /\ todo # <<>>
  BY StackType DEF Idle
<1>2. Tail(todo) \in Seq(Entries)
  BY <1>1
<1> DEFINE new == <<>>
<1>3. todo' = new \o Tail(todo) /\ new \in Seq(Entries) /\ Len(new) = 0
  BY <1>2, ConcatEmptySeq
<1> HIDE DEF new
<1>4. /\ Depth \in Nat \ {0} /\ Depth' = Depth - 1 + 0
      /\ \A p \in 1 .. Depth - 1 : Stack'[p] = Stack[p]
      /\ Stack[Depth] = Head(todo) /\ todo' \in Seq(Entries)
  BY <1>3, PopPush
<1> QED BY <1>4

\* A single step is put before the rest.
LEMMA Replace ==
    ASSUME TypeOK, ~Idle, NEW entry \in Entries, todo' = <<entry>> \o Tail(todo)
    PROVE  /\ Depth \in Nat \ {0} /\ Depth' = Depth
           /\ \A p \in 1 .. Depth - 1 : Stack'[p] = Stack[p]
           /\ Stack'[Depth] = entry
           /\ Stack[Depth] = Head(todo)
           /\ todo' \in Seq(Entries)
<1>1. <<entry>> \in Seq(Entries) /\ Len(<<entry>>) = 1 /\ <<entry>>[1] = entry
  OBVIOUS
<1> DEFINE new == <<entry>>
<1>2. new \in Seq(Entries) /\ Len(new) = 1 /\ new[1] = entry /\ todo' = new \o Tail(todo)
  BY <1>1
<1> HIDE DEF new
<1>3. /\ Depth \in Nat \ {0} /\ Depth' = Depth - 1 + 1
      /\ \A p \in 1 .. Depth - 1 : Stack'[p] = Stack[p]
      /\ \A c \in 1 .. 1 : Stack'[Depth' + 1 - c] = new[c]
      /\ Stack[Depth] = Head(todo) /\ todo' \in Seq(Entries)
  BY <1>2, PopPush
<1> QED BY <1>2, <1>3

LEMMA Doable ==
    /\ \A w, a : Do(w, a).do = w /\ Do(w, a).arg = a
    /\ \A a, b : /\ Do("destroy", a) # Do("release", b) /\ Do("destroy", a) # Do("free_node", b)
                 /\ Do("destroy", a) # Do("free_block", b) /\ Do("release", a) # Do("free_node", b)
                 /\ Do("release", a) # Do("free_block", b) /\ Do("free_node", a) # Do("free_block", b)
                 /\ Do("destroy", a) = Do("destroy", b) => a = b
                 /\ Do("release", a) = Do("release", b) => a = b
                 /\ Do("free_node", a) = Do("free_node", b) => a = b
                 /\ Do("free_block", a) = Do("free_block", b) => a = b
<1>1. \A w, a : Do(w, a).do = w /\ Do(w, a).arg = a
  BY DEF Do
<1>2. \A a, b : /\ Do("destroy", a) # Do("release", b) /\ Do("destroy", a) # Do("free_node", b)
                /\ Do("destroy", a) # Do("free_block", b) /\ Do("release", a) # Do("free_node", b)
                /\ Do("release", a) # Do("free_block", b) /\ Do("free_node", a) # Do("free_block", b)
  BY DEF Do
<1>3. \A a, b : /\ Do("destroy", a) = Do("destroy", b) => a = b
                /\ Do("release", a) = Do("release", b) => a = b
                /\ Do("free_node", a) = Do("free_node", b) => a = b
                /\ Do("free_block", a) = Do("free_block", b) => a = b
  BY DEF Do
<1> QED BY <1>1, <1>2, <1>3

LEMMA Top ==
    ASSUME TypeOK, ~Idle
    PROVE  /\ Depth \in Nat \ {0} /\ Stack[Depth] = Do(Head(todo).do, Arg)
           /\ Head(todo).do # "free_block" => Arg \in NodeIds
           /\ Head(todo).do = "free_block" => Arg \in BlockIds
<1>1. Depth \in Nat \ {0} /\ Stack \in [1 .. Depth -> Entries]
  BY StackType
<1>2. Stack[Depth] = todo[1]
  BY <1>1 DEF Stack
<1>3. Head(todo) = todo[1]
  BY StackType DEF Idle
<1>4. Head(todo) \in Entries
  BY <1>1, <1>2, <1>3
<1> QED BY <1>1, <1>2, <1>3, <1>4 DEF Entries, Do, Arg

LEMMA Typed ==
    ASSUME TypeOK
    PROVE  /\ \A n \in NodeIds :
                 /\ nodes[n] \in Node
                 /\ nodes[n].type \in Types /\ nodes[n].refcount \in Nat \cup {-1}
                 /\ nodes[n].data \in BlockIds \cup {NULL} /\ nodes[n].place \in Places
                 /\ nodes[n].height \in 0 .. MaxHeight
           /\ \A b \in BlockIds :
                 /\ blocks[b] \in Block /\ blocks[b].cells \in Seq(Cell)
                 /\ Len(blocks[b].cells) \in Nat
                 /\ DOMAIN blocks[b].cells = 1 .. Len(blocks[b].cells)
                 /\ \A k \in DOMAIN blocks[b].cells : blocks[b].cells[k].value \in NodeIds
                 /\ Values(b) \subseteq NodeIds
<1>1. \A n \in NodeIds : nodes[n] \in Node
  BY DEF TypeOK
<1>2. \A b \in BlockIds : blocks[b] \in Block /\ blocks[b].cells \in Seq(Cell)
  BY DEF TypeOK, Block
<1>3. \A b \in BlockIds : /\ Len(blocks[b].cells) \in Nat
                          /\ DOMAIN blocks[b].cells = 1 .. Len(blocks[b].cells)
                          /\ \A k \in DOMAIN blocks[b].cells : blocks[b].cells[k] \in Cell
  BY <1>2
<1>4. \A b \in BlockIds : \A k \in DOMAIN blocks[b].cells : blocks[b].cells[k].value \in NodeIds
  BY <1>3 DEF Cell
<1>5. \A b \in BlockIds : Values(b) \subseteq NodeIds
  BY <1>4 DEF Values
<1> QED BY <1>1, <1>2, <1>3, <1>4, <1>5 DEF Node

\* What is counted is finite.
LEMMA Finite ==
    ASSUME TypeOK
    PROVE  \A n \in NodeIds : /\ IsFiniteSet(Held(n)) /\ Cardinality(Held(n)) \in Nat
                              /\ IsFiniteSet(Releases(n)) /\ Cardinality(Releases(n)) \in Nat
                              /\ (Held(n) # {} => Cardinality(Held(n)) > 0)
                              /\ (Releases(n) # {} => Cardinality(Releases(n)) > 0)
<1>1. IsFiniteSet(BlockIds \X (1 .. MaxCells))
  <2>1. IsFiniteSet(BlockIds) /\ IsFiniteSet(1 .. MaxCells)
    BY MemoryAssumption, FS_Interval
  <2> QED BY <2>1, FS_Product
<1>2. IsFiniteSet(1 .. Depth)
  BY StackType, FS_Interval
<1> SUFFICES ASSUME NEW n \in NodeIds
             PROVE  /\ IsFiniteSet(Held(n)) /\ Cardinality(Held(n)) \in Nat
                    /\ IsFiniteSet(Releases(n)) /\ Cardinality(Releases(n)) \in Nat
                    /\ (Held(n) # {} => Cardinality(Held(n)) > 0)
                    /\ (Releases(n) # {} => Cardinality(Releases(n)) > 0)
  OBVIOUS
<1>3. Held(n) \subseteq BlockIds \X (1 .. MaxCells) /\ Releases(n) \subseteq 1 .. Depth
  BY DEF Held, Releases
<1>4. IsFiniteSet(Held(n)) /\ IsFiniteSet(Releases(n))
  BY <1>1, <1>2, <1>3, FS_Subset
<1> QED BY <1>4, FS_CardinalityType, FS_EmptySet
-----------------------------------------------------------------------------
(***************************************************************************)
(* A cell of a destroyed hash counts its value down.                       *)
(***************************************************************************)
LEMMA ReleaseStep ==
    ASSUME IInv, ReleaseCell
    PROVE  IInv'
<1>0. /\ TypeOK /\ NodeShape /\ BlockShape /\ Unshared /\ Counts
      /\ CellsHeld /\ HeldOnce /\ ArrayElements /\ HashElements
      /\ Once /\ Destroys /\ Releasing /\ FreesNodes /\ FreesBlocks /\ SpentNodes
  BY DEF IInv, Shape, Elements, Steps
<1>1. PICK n \in NodeIds : n = Arg /\ Stack[Depth] = Do("release", n) /\ Depth \in Nat \ {0} /\ ~Idle
  BY <1>0, Top DEF ReleaseCell, Doing
<1>2. nodes[n].place = "heap" /\ nodes[n].refcount \in Nat \ {0}
  <2>1. nodes[n].place = "heap" /\ ~Spent(n)
    BY <1>0, <1>1 DEF Releasing
  <2>2. Depth \in Releases(n)
    BY <1>1 DEF Releases
  <2> QED BY <1>0, <2>1, <2>2, Finite DEF Counts
<1>3. nodes' = [nodes EXCEPT ![n].refcount = @ - 1] /\ blocks' = blocks
  BY <1>1 DEF ReleaseCell, Discounted
<1>4. \A m \in NodeIds :
         /\ nodes'[m].type = nodes[m].type /\ nodes'[m].data = nodes[m].data
         /\ nodes'[m].place = nodes[m].place
         /\ nodes'[m].refcount = IF m = n THEN nodes[n].refcount - 1 ELSE nodes[m].refcount
  BY <1>0, <1>3, Typed DEF TypeOK, Node
<1>5. /\ Depth' \in {Depth - 1, Depth} /\ todo' \in Seq(Entries)
      /\ \A p \in 1 .. Depth - 1 : Stack'[p] = Stack[p]
      /\ Depth' = Depth => Stack'[Depth] = Do("destroy", n) /\ nodes'[n].refcount = 0
  <2>1. CASE InUse
    <3>1. todo' = <<>> \o Tail(todo)
      BY <2>1 DEF ReleaseCell, Released
    <3>2. Tail(todo) \in Seq(Entries)
      BY <1>0, <1>1, StackType DEF Idle
    <3>3. todo' = Tail(todo)
      BY <3>1, <3>2, ConcatEmptySeq
    <3> QED BY <1>0, <3>3, <1>1, Pop
  <2>2. CASE ~InUse
    <3>1. todo' = <<Do("destroy", n)>> \o Tail(todo)
      BY <2>2, <1>1 DEF ReleaseCell, Released
    <3>2. Do("destroy", n) \in Entries
      BY DEF Entries, Do
    <3>3. nodes'[n].refcount = 0
      BY <2>2, <1>1, <1>2, <1>4 DEF InUse
    <3> QED BY <1>0, <3>1, <3>2, <3>3, <1>1, Replace
  <2> QED BY <2>1, <2>2
<1>5a. Depth \in Nat /\ Depth' \in Nat
  <2>1. Depth' \in {Depth - 1, Depth}
    BY <1>5
  <2> QED BY <2>1, <1>1
<1>6. /\ \A m \in NodeIds : /\ Spent(m)' <=> Spent(m)
                            /\ IsLive(m)' <=> IsLive(m)
      /\ \A b \in BlockIds : /\ Kept(b)' <=> Kept(b)
                             /\ BlockIsLive(b)' <=> BlockIsLive(b)
                             /\ Values(b)' = Values(b)
  <2>1. \A m \in NodeIds : /\ Spent(m)' <=> Spent(m)
                           /\ IsLive(m)' <=> IsLive(m)
    BY <1>2, <1>4 DEF Spent, IsLive
  <2> QED BY <2>1, <1>3, <1>4 DEF Kept, BlockIsLive, Values
<1>7. /\ \A p \in 1 .. Depth' : p < Depth => p \in 1 .. Depth /\ Stack'[p] = Stack[p]
      /\ \A p \in 1 .. Depth : p < Depth => p \in 1 .. Depth' /\ Stack'[p] = Stack[p]
      /\ \A p \in 1 .. Depth : p < Depth \/ p = Depth
      /\ \A p \in 1 .. Depth' : p < Depth \/ (p = Depth /\ p = Depth')
  BY <1>1, <1>5
<1>8. TypeOK'
  <2>1. [nodes[n] EXCEPT !.refcount = @ - 1] \in Node
    BY <1>0, <1>2, Typed DEF Node
  <2>2. nodes' \in [NodeIds -> Node]
    BY <1>0, <2>1, <1>3 DEF TypeOK
  <2> QED BY <1>0, <2>2, <1>3, <1>5 DEF TypeOK, Entries
<1>9. Shape'
  <2>1. NodeShape'
    BY <1>0, <1>3, <1>4, <1>6, <1>2 DEF NodeShape, BlockIsLive, Spent, IsLive
  <2>2. BlockShape'
    BY <1>0, <1>3, <1>4 DEF BlockShape, BlockIsLive
  <2>3. Unshared'
    BY <1>0, <1>4 DEF Unshared
  <2> QED BY <2>1, <2>2, <2>3 DEF Shape
<1>10. \A m \in NodeIds : m # n => (Awaits(m)' <=> Awaits(m))
  <2>1. \A m \in NodeIds : m # n => /\ Stack[Depth] # Do("destroy", m)
                                    /\ Depth' = Depth => Stack'[Depth] # Do("destroy", m)
    BY <1>1, <1>5, Doable
  <2> SUFFICES ASSUME NEW m \in NodeIds, m # n
               PROVE  Awaits(m)' <=> Awaits(m)
    OBVIOUS
  <2>2. ASSUME NEW p \in 1 .. Depth, Stack[p] = Do("destroy", m)
        PROVE  p \in 1 .. Depth' /\ Stack'[p] = Do("destroy", m)
    <3>1. p # Depth
      <4>1. Stack[Depth] # Do("destroy", m)
        BY <2>1
      <4> QED BY <4>1, <2>2
    <3>2. p < Depth
      BY <3>1, <1>5a
    <3> QED BY <3>2, <2>2, <1>7
  <2>3. ASSUME NEW p \in 1 .. Depth', Stack'[p] = Do("destroy", m)
        PROVE  p \in 1 .. Depth /\ Stack[p] = Do("destroy", m)
    BY <2>1, <2>3, <1>7
  <2> QED BY <2>2, <2>3 DEF Awaits
<1>11. Elements'
  <2>1. CellsHeld' /\ HeldOnce'
    BY <1>0, <1>2, <1>3, <1>4, <1>6 DEF CellsHeld, HeldOnce
  <2>2. ArrayElements'
    <3>1. \A a \in NodeIds : nodes[a].type = "array" => nodes[a].data \in BlockIds
      BY <1>0, Typed DEF NodeShape
    <3>2. \A a \in NodeIds : nodes'[a].type = "array" => nodes'[a].data = nodes[a].data
                                                        /\ Values(nodes[a].data)' = Values(nodes[a].data)
      BY <3>1, <1>4, <1>6
    <3> QED BY <1>0, <3>1, <3>2, <1>2, <1>3, <1>4, <1>6, <1>10, Typed DEF ArrayElements
  <2>3. HashElements'
    BY <1>0, <1>3, <1>4, <1>6, Typed DEF HashElements, Values, Spent, NodeShape
  <2> QED BY <2>1, <2>2, <2>3 DEF Elements
<1>12. \A p \in 1 .. Depth : Stack[p] # Do("destroy", n)
  BY <1>0, <1>2 DEF Destroys
<1>13. Once'
  BY <1>0, <1>5, <1>7, <1>12 DEF Once
<1>14. Destroys'
  <2> SUFFICES ASSUME NEW p \in 1 .. Depth', NEW m \in NodeIds, Stack'[p] = Do("destroy", m)
               PROVE  /\ IsLive(m)' /\ nodes'[m].refcount = 0
                      /\ nodes'[m].place = "cell" =>
                           \E q \in 1 .. p - 1, b \in BlockIds :
                               Stack'[q] = Do("free_block", b) /\ m \in Values(b)'
    BY <1>0 DEF Destroys
  <2>1. CASE p < Depth
    <3>1. p \in 1 .. Depth /\ Stack[p] = Do("destroy", m) /\ m # n
      BY <2>1, <1>7, <1>12
    <3>2. \A q \in 1 .. p - 1 : Stack'[q] = Stack[q]
      BY <2>1, <1>5, <1>1
    <3>3. IsLive(m)' /\ nodes'[m].refcount = 0
      BY <1>0, <3>1, <1>4, <1>6 DEF Destroys
    <3>4. ASSUME nodes'[m].place = "cell"
          PROVE  \E q \in 1 .. p - 1, b \in BlockIds :
                     Stack'[q] = Do("free_block", b) /\ m \in Values(b)'
      <4>1. PICK q \in 1 .. p - 1, b \in BlockIds : Stack[q] = Do("free_block", b) /\ m \in Values(b)
        BY <1>0, <3>1, <3>4, <1>4 DEF Destroys
      <4> QED BY <4>1, <3>2, <1>6
    <3> QED BY <3>3, <3>4
  <2>2. CASE p = Depth /\ p = Depth'
    <3>1. m = n /\ nodes'[n].refcount = 0
      BY <2>2, <1>5, Doable
    <3> QED BY <3>1, <1>2, <1>4 DEF IsLive
  <2> QED BY <2>1, <2>2, <1>7
<1>15. Releasing' /\ FreesNodes' /\ FreesBlocks'
  <2>1. \A p \in 1 .. Depth', m \in NodeIds :
           /\ Stack'[p] = Do("release", m) => p \in 1 .. Depth /\ Stack[p] = Do("release", m)
           /\ Stack'[p] = Do("free_node", m) => p \in 1 .. Depth /\ Stack[p] = Do("free_node", m)
    BY <1>5, <1>7, Doable
  <2>2. \A p \in 1 .. Depth', b \in BlockIds :
           Stack'[p] = Do("free_block", b) => p \in 1 .. Depth /\ Stack[p] = Do("free_block", b)
    BY <1>5, <1>7, Doable
  <2>3. Releasing' /\ FreesNodes'
    BY <1>0, <2>1, <1>4, <1>6 DEF Releasing, FreesNodes
  <2>4. FreesBlocks'
    BY <1>0, <2>2, <1>6 DEF FreesBlocks
  <2> QED BY <2>3, <2>4
<1>16. SpentNodes'
  <2>1. \A p \in 1 .. Depth, m \in NodeIds :
           Stack[p] = Do("free_node", m) => p \in 1 .. Depth' /\ Stack'[p] = Do("free_node", m)
    BY <1>1, <1>7, Doable
  <2>2. \A p \in 1 .. Depth, b \in BlockIds :
           Stack[p] = Do("free_block", b) => p \in 1 .. Depth' /\ Stack'[p] = Do("free_block", b)
    BY <1>1, <1>7, Doable
  <2>3. ASSUME NEW m \in NodeIds, NEW p \in 1 .. Depth, DataFirst(m, p)
        PROVE  DataFirst(m, p)'
    <3> SUFFICES ASSUME nodes[m].data \in BlockIds, BlockIsLive(nodes[m].data), nodes[m].data # NULL
                 PROVE  \E q \in p + 1 .. Depth' : Stack'[q] = Do("free_block", nodes[m].data)
      BY <1>0, <1>3, <1>4, Typed DEF DataFirst, BlockIsLive
    <3>1. PICK q \in p + 1 .. Depth : Stack[q] = Do("free_block", nodes[m].data)
      BY <2>3 DEF DataFirst
    <3>2. q \in 1 .. Depth
      <4>1. Depth \in Nat
        BY <1>1
      <4> QED BY <4>1
    <3>3. q \in 1 .. Depth' /\ Stack'[q] = Do("free_block", nodes[m].data)
      BY <3>1, <3>2, <2>2
    <3>4. q \in p + 1 .. Depth'
      <4>1. q \in 1 .. Depth'
        BY <3>3
      <4>2. Depth \in Nat /\ Depth' \in Nat
        BY <1>5a
      <4> QED BY <4>1, <4>2
    <3> QED BY <3>3, <3>4
  <2>4. \A m \in NodeIds : Spent(m)' /\ nodes'[m].place = "heap" =>
           \E p \in 1 .. Depth' : Stack'[p] = Do("free_node", m) /\ DataFirst(m, p)'
    <3> SUFFICES ASSUME NEW m \in NodeIds, Spent(m)', nodes'[m].place = "heap"
                 PROVE  \E p \in 1 .. Depth' : Stack'[p] = Do("free_node", m) /\ DataFirst(m, p)'
      OBVIOUS
    <3>1. PICK p \in 1 .. Depth : Stack[p] = Do("free_node", m) /\ DataFirst(m, p)
      BY <1>0, <1>4, <1>6 DEF SpentNodes
    <3> QED BY <3>1, <2>1, <2>3
  <2>5. \A m \in NodeIds : Spent(m)' /\ nodes'[m].place = "cell" =>
           \E p \in 1 .. Depth', b \in BlockIds :
              Stack'[p] = Do("free_block", b) /\ m \in Values(b)' /\ DataFirst(m, p)'
    <3> SUFFICES ASSUME NEW m \in NodeIds, Spent(m)', nodes'[m].place = "cell"
                 PROVE  \E p \in 1 .. Depth', b \in BlockIds :
                           Stack'[p] = Do("free_block", b) /\ m \in Values(b)' /\ DataFirst(m, p)'
      OBVIOUS
    <3>1. PICK p \in 1 .. Depth, b \in BlockIds :
             Stack[p] = Do("free_block", b) /\ m \in Values(b) /\ DataFirst(m, p)
      BY <1>0, <1>4, <1>6 DEF SpentNodes
    <3> QED BY <3>1, <2>2, <2>3, <1>6
  <2> QED BY <1>0, <2>4, <2>5 DEF SpentNodes
<1>17. Counts'
  <2> SUFFICES ASSUME NEW m \in NodeIds, nodes'[m].place = "heap", ~Spent(m)'
               PROVE  nodes'[m].refcount = Cardinality(Held(m)') + Cardinality(Releases(m)')
    BY <1>0 DEF Counts
  <2>1. Held(m)' = Held(m)
    BY <1>3, <1>6 DEF Held
  <2>2. nodes[m].refcount = Cardinality(Held(m)) + Cardinality(Releases(m))
    BY <1>0, <1>4, <1>6 DEF Counts
  <2>3. CASE m = n
    <3>1. Releases(m)' = Releases(m) \ {Depth} /\ Depth \in Releases(m)
      <4>1. Stack[Depth] = Do("release", m) /\ Depth \in 1 .. Depth
        BY <2>3, <1>1
      <4>2. Depth' = Depth => Stack'[Depth] # Do("release", m)
        BY <1>5, Doable
      <4> QED BY <4>1, <4>2, <1>7 DEF Releases
    <3>2. Cardinality(Releases(m)') = Cardinality(Releases(m)) - 1
      BY <1>0, <3>1, Finite, FS_RemoveElement
    <3> QED BY <1>0, <3>2, <2>1, <2>2, <2>3, <1>4, Finite
  <2>4. CASE m # n
    <3>1. Releases(m)' = Releases(m)
      <4>1. Stack[Depth] # Do("release", m)
        BY <2>4, <1>1, Doable
      <4>2. Depth' = Depth => Stack'[Depth] # Do("release", m)
        BY <1>5, Doable
      <4> QED BY <4>1, <4>2, <1>7 DEF Releases
    <3> QED BY <3>1, <2>1, <2>2, <2>4, <1>4
  <2> QED BY <2>3, <2>4
<1> QED BY <1>8, <1>9, <1>11, <1>13, <1>14, <1>15, <1>16, <1>17 DEF IInv, Steps

LEMMA Popped ==
    ASSUME TypeOK, ~Idle, todo' = Tail(todo)
    PROVE  /\ Depth \in Nat /\ Depth' \in Nat /\ Depth' = Depth - 1 /\ todo' \in Seq(Entries)
           /\ \A p \in 1 .. Depth' : p \in 1 .. Depth /\ p # Depth /\ Stack'[p] = Stack[p]
           /\ \A p \in 1 .. Depth : p # Depth => p \in 1 .. Depth' /\ Stack'[p] = Stack[p]
<1>1. /\ Depth \in Nat \ {0} /\ Depth' = Depth - 1 /\ todo' \in Seq(Entries)
      /\ \A p \in 1 .. Depth - 1 : Stack'[p] = Stack[p]
  BY Pop
<1>2. ASSUME NEW p \in 1 .. Depth'
      PROVE  p \in 1 .. Depth /\ p # Depth /\ Stack'[p] = Stack[p]
  BY <1>1
<1>3. ASSUME NEW p \in 1 .. Depth, p # Depth
      PROVE  p \in 1 .. Depth' /\ Stack'[p] = Stack[p]
  BY <1>1, <1>3
<1> QED BY <1>1, <1>2, <1>3

LEMMA Above ==
    ASSUME TypeOK, ~Idle, todo' = Tail(todo),
           NEW p \in 1 .. Depth, NEW q \in p + 1 .. Depth, Stack[q] # Stack[Depth]
    PROVE  q \in p + 1 .. Depth' /\ Stack'[q] = Stack[q]
<1>1. Depth \in Nat /\ q \in 1 .. Depth /\ q # Depth
  BY StackType
<1> QED BY <1>1, Popped

(***************************************************************************)
(* The block on top is freed.  Elements standing in it have been destroyed *)
(* by then: those that had still to be were above it.                      *)
(***************************************************************************)
LEMMA FreedElements ==
    ASSUME IInv, NEW b \in BlockIds, Depth \in Nat \ {0}, Stack[Depth] = Do("free_block", b),
           NEW v \in Values(b), nodes[v].place = "cell"
    PROVE  /\ v \in NodeIds /\ Spent(v)
           /\ nodes[v].data # NULL => ~BlockIsLive(nodes[v].data)
<1>0. /\ TypeOK /\ NodeShape /\ BlockShape /\ Unshared /\ Counts
      /\ CellsHeld /\ HeldOnce /\ ArrayElements /\ HashElements
      /\ Once /\ Destroys /\ Releasing /\ FreesNodes /\ FreesBlocks /\ SpentNodes
  BY DEF IInv, Shape, Elements, Steps
<1>1. v \in NodeIds
  BY <1>0, Typed
<1>2. BlockIsLive(b) /\ ~Kept(b) /\ Depth \in 1 .. Depth
  BY <1>0 DEF FreesBlocks
<1>3. PICK o \in NodeIds : nodes[o].data = b /\ Spent(o)
  BY <1>0, <1>2 DEF BlockShape, Kept
<1>4. nodes[o].type = "array"
  <2>1. nodes[o].type # "string"
    BY <1>0, <1>3 DEF NodeShape, Values
  <2>2. nodes[o].type # "scalar"
    BY <1>0, <1>3, NullAssumption DEF NodeShape
  <2>3. nodes[o].type # "hash"
    BY <1>0, <1>3 DEF HashElements
  <2> QED BY <2>1, <2>2, <2>3, <1>0, Typed DEF Types
<1>5. \A d \in BlockIds : v \in Values(d) => d = b
  BY <1>0 DEF HeldOnce, Values
<1>6. ~Awaits(v)
  <2> SUFFICES ASSUME NEW p \in 1 .. Depth, Stack[p] = Do("destroy", v)
               PROVE  FALSE
    BY DEF Awaits
  <2>1. PICK q \in 1 .. p - 1, d \in BlockIds : Stack[q] = Do("free_block", d) /\ v \in Values(d)
    BY <1>0, <1>1 DEF Destroys
  <2>2. Stack[q] = Stack[Depth] /\ Stack[q].do # "release"
    BY <2>1, <1>5, Doable
  <2>3. q \in 1 .. Depth /\ q # Depth
    OBVIOUS
  <2> QED BY <2>2, <2>3, <1>0, <1>2 DEF Once
<1>7. Spent(v)
  BY <1>0, <1>3, <1>4, <1>6 DEF ArrayElements
<1>8. PICK p \in 1 .. Depth, d \in BlockIds :
         Stack[p] = Do("free_block", d) /\ v \in Values(d) /\ DataFirst(v, p)
  BY <1>0, <1>1, <1>7 DEF SpentNodes
<1>9. p = Depth
  <2>1. Stack[p] = Stack[Depth] /\ Stack[p].do # "release"
    BY <1>5, <1>8, Doable
  <2> QED BY <2>1, <1>0, <1>2 DEF Once
<1>10. Depth + 1 .. Depth = {}
  OBVIOUS
<1> QED BY <1>1, <1>7, <1>8, <1>9, <1>10 DEF DataFirst

LEMMA FreeBlockStep ==
    ASSUME IInv, DestroyBlock
    PROVE  IInv'
<1>0. /\ TypeOK /\ NodeShape /\ BlockShape /\ Unshared /\ Counts
      /\ CellsHeld /\ HeldOnce /\ ArrayElements /\ HashElements
      /\ Once /\ Destroys /\ Releasing /\ FreesNodes /\ FreesBlocks /\ SpentNodes
  BY DEF IInv, Shape, Elements, Steps
<1>1. PICK b \in BlockIds : b = Arg /\ Stack[Depth] = Do("free_block", b) /\ Depth \in Nat \ {0} /\ ~Idle
  BY <1>0, Top DEF DestroyBlock, Doing
<1>2. BlockIsLive(b) /\ ~Kept(b)
  <2>1. Depth \in 1 .. Depth
    BY <1>1
  <2> QED BY <2>1, <1>0, <1>1 DEF FreesBlocks
<1> DEFINE G == {v \in Values(b) : nodes[v].place = "cell"}
<1>3. \A v \in G : /\ v \in NodeIds /\ Spent(v)
                   /\ nodes[v].data # NULL => ~BlockIsLive(nodes[v].data)
  BY <1>1, FreedElements
<1>4. /\ \A m \in NodeIds : nodes'[m] = IF m \in G THEN NoNode("gone") ELSE nodes[m]
      /\ \A d \in BlockIds : blocks'[d] = IF d = b THEN NoBlock("gone") ELSE blocks[d]
  BY <1>0, <1>1 DEF DestroyBlock, TypeOK
<1> HIDE DEF G
<1>5. /\ \A m \in NodeIds : m \in G => nodes'[m] = NoNode("gone")
      /\ \A m \in NodeIds : m \notin G => nodes'[m] = nodes[m]
      /\ blocks'[b] = NoBlock("gone")
      /\ \A d \in BlockIds : d # b => blocks'[d] = blocks[d]
  BY <1>4
<1>6. \A m \in NodeIds : m \in Values(b) /\ nodes[m].place = "cell" => m \in G
  BY DEF G
<1>7. \A m \in G : m \in NodeIds /\ m \in Values(b) /\ nodes[m].place = "cell"
  BY <1>3 DEF G
<1>8. todo' = Tail(todo)
  BY DEF DestroyBlock
<1>9. /\ Depth \in Nat /\ Depth' \in Nat /\ Depth' = Depth - 1 /\ todo' \in Seq(Entries)
      /\ \A p \in 1 .. Depth' : p \in 1 .. Depth /\ p # Depth /\ Stack'[p] = Stack[p]
      /\ \A p \in 1 .. Depth : p # Depth => p \in 1 .. Depth' /\ Stack'[p] = Stack[p]
  BY <1>0, <1>1, <1>8, Popped
<1>10. /\ \A m \in NodeIds : m \in G => /\ nodes'[m].place = "gone" /\ nodes'[m].data = NULL
                                        /\ nodes'[m].refcount = 0 /\ nodes'[m].type = "scalar"
       /\ blocks'[b].place = "gone" /\ blocks'[b].cells = <<>> /\ Values(b)' = {}
       /\ \A d \in BlockIds : d # b => Values(d)' = Values(d)
  BY <1>5 DEF NoNode, NoBlock, Values
<1>11. \A d \in BlockIds : Kept(d)' <=> Kept(d)
  <2> SUFFICES ASSUME NEW d \in BlockIds, NEW o \in NodeIds
               PROVE  nodes'[o].data = d /\ ~Spent(o)' <=> nodes[o].data = d /\ ~Spent(o)
    BY DEF Kept
  <2> QED BY <1>3, <1>5, <1>10, NullAssumption DEF Spent
<1>12. \A m \in NodeIds : nodes[m].data = b => Spent(m)
  BY <1>2 DEF Kept
<1>13. \A m \in NodeIds, d \in BlockIds : m \in G /\ m \in Values(d) => d = b
  BY <1>0, <1>7 DEF HeldOnce, Values
<1>14. TypeOK'
  <2>1. \A m \in NodeIds : nodes'[m] \in Node
    <3>1. NoNode("gone") \in Node
      BY HeightAssumption DEF NoNode, Node, Types, Places
    <3> QED BY <3>1, <1>0, <1>5, Typed
  <2>2. \A d \in BlockIds : blocks'[d] \in Block
    <3>1. NoBlock("gone") \in Block
      BY DEF NoBlock, Block, Places
    <3> QED BY <3>1, <1>0, <1>5, Typed
  <2>3. /\ nodes' = [m \in NodeIds |-> nodes'[m]]
        /\ blocks' = [d \in BlockIds |-> blocks'[d]]
    BY <1>0, <1>1 DEF DestroyBlock, TypeOK
  <2>4. nodes' \in [NodeIds -> Node] /\ blocks' \in [BlockIds -> Block]
    BY <2>1, <2>2, <2>3
  <2> QED BY <2>4, <1>9 DEF TypeOK, Entries
<1>15. Shape'
  <2>1. NodeShape'
    <3> SUFFICES ASSUME NEW m \in NodeIds
                 PROVE  /\ ~IsLive(m)' => nodes'[m].data = NULL /\ nodes'[m].refcount = 0
                        /\ nodes'[m].data = NULL <=> nodes'[m].type = "scalar"
                        /\ nodes'[m].data # NULL => blocks'[nodes'[m].data].place # "new"
                        /\ nodes'[m].data # NULL /\ ~Spent(m)' => blocks'[nodes'[m].data].place = "heap"
                        /\ nodes'[m].type = "string" => blocks'[nodes'[m].data].cells = <<>>
      BY DEF NodeShape, BlockIsLive
    <3>1. CASE m \in G
      BY <3>1, <1>10
    <3>2. CASE m \notin G
      <4>1. nodes'[m] = nodes[m] /\ nodes[m].data \in BlockIds \cup {NULL}
        BY <3>2, <1>0, <1>5, Typed
      <4> QED BY <4>1, <1>0, <1>5, <1>10, <1>12 DEF NodeShape, BlockIsLive, Spent, IsLive
    <3> QED BY <3>1, <3>2
  <2>2. BlockShape'
    <3> SUFFICES ASSUME NEW d \in BlockIds
                 PROVE  /\ Len(blocks'[d].cells) <= MaxCells
                        /\ ~BlockIsLive(d)' => blocks'[d].cells = <<>>
                        /\ BlockIsLive(d)' => \E m \in NodeIds : nodes'[m].data = d
      BY DEF BlockShape
    <3>1. CASE d = b
      BY <3>1, <1>10, MemoryAssumption DEF BlockIsLive
    <3>2. CASE d # b
      <4>1. blocks'[d] = blocks[d]
        BY <3>2, <1>5
      <4>2. \A m \in NodeIds : nodes[m].data = d /\ BlockIsLive(d) => nodes'[m].data = d
        BY <1>3, <1>5, NullAssumption
      <4> QED BY <4>1, <4>2, <1>0 DEF BlockShape, BlockIsLive
    <3> QED BY <3>1, <3>2
  <2>3. Unshared'
    BY <1>0, <1>5, <1>10 DEF Unshared
  <2> QED BY <2>1, <2>2, <2>3 DEF Shape
<1>16. Elements'
  <2>1. CellsHeld'
    <3> SUFFICES ASSUME NEW m \in NodeIds, nodes'[m].place = "cell"
                 PROVE  nodes'[m].refcount \in {0, -1} /\ \E d \in BlockIds : m \in Values(d)'
      BY DEF CellsHeld
    <3>1. m \notin G /\ nodes'[m] = nodes[m]
      BY <1>5, <1>10
    <3>2. PICK d \in BlockIds : m \in Values(d)
      BY <3>1, <1>0 DEF CellsHeld
    <3>3. d # b
      BY <3>1, <3>2, <1>6
    <3> QED BY <3>1, <3>2, <3>3, <1>0, <1>10 DEF CellsHeld
  <2>2. HeldOnce'
    <3> SUFFICES ASSUME NEW x \in BlockIds, NEW y \in BlockIds,
                        NEW c \in DOMAIN blocks'[x].cells, NEW e \in DOMAIN blocks'[y].cells,
                        blocks'[x].cells[c].value = blocks'[y].cells[e].value,
                        nodes'[blocks'[x].cells[c].value].place = "cell"
                 PROVE  x = y /\ c = e
      BY DEF HeldOnce
    <3>1. x # b /\ y # b
      BY <1>10
    <3>2. blocks'[x] = blocks[x] /\ blocks'[y] = blocks[y]
      BY <3>1, <1>5
    <3>3. blocks[x].cells[c].value \in NodeIds
      BY <3>2, <1>0, Typed
    <3>4. nodes[blocks[x].cells[c].value].place = "cell"
      BY <3>2, <3>3, <1>5, <1>10
    <3> QED BY <3>2, <3>4, <1>0 DEF HeldOnce
  <2>3. \A m \in NodeIds : Awaits(m)' <=> Awaits(m)
    <3>1. \A m \in NodeIds : Stack[Depth] # Do("destroy", m)
      BY <1>1, Doable
    <3> QED BY <3>1, <1>9 DEF Awaits
  <2>4. ArrayElements'
    <3> SUFFICES ASSUME NEW a \in NodeIds, nodes'[a].type = "array", NEW v \in Values(nodes[a].data)'
                 PROVE  /\ nodes'[v].place = "cell"
                        /\ ~Spent(a)' => nodes'[v].refcount = 0 /\ ~Awaits(v)'
                        /\ Spent(a)' => Spent(v)' \/ Awaits(v)'
      BY DEF ArrayElements
    <3>1. a \notin G /\ nodes'[a] = nodes[a]
      BY <1>5, <1>10
    <3>2. nodes[a].data \in BlockIds
      BY <3>1, <1>0, Typed DEF NodeShape
    <3>3. nodes[a].data # b /\ v \in Values(nodes[a].data)
      BY <3>1, <3>2, <1>10
    <3>4. v \in NodeIds /\ v \notin G
      BY <3>2, <3>3, <1>0, <1>13, Typed
    <3>5. nodes'[v] = nodes[v]
      BY <3>4, <1>5
    <3> QED BY <3>1, <3>3, <3>4, <3>5, <2>3, <1>0 DEF ArrayElements, Spent
  <2>5. HashElements'
    <3> SUFFICES ASSUME NEW h \in NodeIds, nodes'[h].type = "hash", NEW v \in Values(nodes[h].data)'
                 PROVE  /\ nodes'[v].place \in {"heap", "gone"}
                        /\ ~Spent(h)' => nodes'[v].place = "heap" /\ ~Spent(v)'
      BY DEF HashElements
    <3>1. h \notin G /\ nodes'[h] = nodes[h]
      BY <1>5, <1>10
    <3>2. nodes[h].data \in BlockIds
      BY <3>1, <1>0, Typed DEF NodeShape
    <3>3. nodes[h].data # b /\ v \in Values(nodes[h].data)
      BY <3>1, <3>2, <1>10
    <3>4. v \in NodeIds /\ v \notin G
      BY <3>2, <3>3, <1>0, <1>13, Typed
    <3>5. nodes'[v] = nodes[v]
      BY <3>4, <1>5
    <3> QED BY <3>1, <3>3, <3>5, <1>0 DEF HashElements, Spent
  <2> QED BY <2>1, <2>2, <2>4, <2>5 DEF Elements
<1>17. \A p \in 1 .. Depth' : Stack[p] # Do("free_block", b)
  <2> SUFFICES ASSUME NEW p \in 1 .. Depth', Stack[p] = Do("free_block", b)
               PROVE  FALSE
    OBVIOUS
  <2>1. p \in 1 .. Depth /\ p # Depth /\ Depth \in 1 .. Depth
    BY <1>1, <1>9
  <2>2. Stack[p] = Stack[Depth] /\ Stack[p].do # "release"
    BY <1>1, Doable
  <2> QED BY <2>1, <2>2, <1>0 DEF Once
<1>18. Once' /\ Releasing' /\ FreesNodes' /\ FreesBlocks'
  <2>1. Once'
    BY <1>0, <1>9 DEF Once
  <2>2. Releasing'
    BY <1>0, <1>5, <1>7, <1>9 DEF Releasing, Spent
  <2>3. FreesNodes'
    BY <1>0, <1>5, <1>7, <1>9 DEF FreesNodes, Spent
  <2>4. FreesBlocks'
    BY <1>0, <1>5, <1>9, <1>11, <1>17 DEF FreesBlocks, BlockIsLive
  <2> QED BY <2>1, <2>2, <2>3, <2>4
<1>19. Destroys'
  <2> SUFFICES ASSUME NEW p \in 1 .. Depth', NEW m \in NodeIds, Stack'[p] = Do("destroy", m)
               PROVE  /\ IsLive(m)' /\ nodes'[m].refcount = 0
                      /\ nodes'[m].place = "cell" =>
                           \E q \in 1 .. p - 1, d \in BlockIds :
                               Stack'[q] = Do("free_block", d) /\ m \in Values(d)'
    BY DEF Destroys
  <2>1. p \in 1 .. Depth /\ Stack[p] = Do("destroy", m)
    BY <1>9
  <2>2. IsLive(m) /\ nodes[m].refcount = 0
    BY <2>1, <1>0 DEF Destroys
  <2>3. nodes'[m] = nodes[m]
    BY <2>2, <1>3, <1>5 DEF Spent
  <2>4. ASSUME nodes[m].place = "cell"
        PROVE  \E q \in 1 .. p - 1, d \in BlockIds :
                  Stack'[q] = Do("free_block", d) /\ m \in Values(d)'
    <3>1. PICK q \in 1 .. p - 1, d \in BlockIds : Stack[q] = Do("free_block", d) /\ m \in Values(d)
      BY <2>1, <2>4, <1>0 DEF Destroys
    <3>2. q \in 1 .. Depth'
      BY <1>9
    <3>3. Stack'[q] = Stack[q] /\ d # b
      BY <3>1, <3>2, <1>9, <1>17
    <3> QED BY <3>1, <3>3, <1>10
  <2> QED BY <2>2, <2>3, <2>4 DEF IsLive
<1>20. SpentNodes'
  <2>1. ASSUME NEW m \in NodeIds, NEW p \in 1 .. Depth, nodes'[m] = nodes[m], DataFirst(m, p)
        PROVE  DataFirst(m, p)'
    <3> SUFFICES ASSUME nodes[m].data \in BlockIds, BlockIsLive(nodes[m].data), nodes[m].data # b
                 PROVE  \E q \in p + 1 .. Depth' : Stack'[q] = Do("free_block", nodes[m].data)
      BY <2>1, <1>0, <1>5, <1>10, Typed DEF DataFirst, BlockIsLive
    <3>1. PICK q \in p + 1 .. Depth : Stack[q] = Do("free_block", nodes[m].data)
      BY <2>1, NullAssumption DEF DataFirst
    <3>2. Stack[Depth] # Stack[q]
      BY <3>1, <1>1, Doable
    <3>3. q \in p + 1 .. Depth' /\ Stack'[q] = Stack[q]
      BY <3>2, <1>0, <1>1, <1>8, Above
    <3> QED BY <3>1, <3>3
  <2>2. \A m \in NodeIds : Spent(m)' /\ nodes'[m].place = "heap" =>
           \E p \in 1 .. Depth' : Stack'[p] = Do("free_node", m) /\ DataFirst(m, p)'
    <3> SUFFICES ASSUME NEW m \in NodeIds, Spent(m)', nodes'[m].place = "heap"
                 PROVE  \E p \in 1 .. Depth' : Stack'[p] = Do("free_node", m) /\ DataFirst(m, p)'
      OBVIOUS
    <3>1. nodes'[m] = nodes[m] /\ Spent(m)
      BY <1>5, <1>10 DEF Spent
    <3>2. PICK p \in 1 .. Depth : Stack[p] = Do("free_node", m) /\ DataFirst(m, p)
      BY <3>1, <1>0 DEF SpentNodes
    <3>3. p # Depth
      BY <3>2, <1>1, Doable
    <3> QED BY <3>1, <3>2, <3>3, <2>1, <1>9
  <2>3. \A m \in NodeIds : Spent(m)' /\ nodes'[m].place = "cell" =>
           \E p \in 1 .. Depth', d \in BlockIds :
              Stack'[p] = Do("free_block", d) /\ m \in Values(d)' /\ DataFirst(m, p)'
    <3> SUFFICES ASSUME NEW m \in NodeIds, Spent(m)', nodes'[m].place = "cell"
                 PROVE  \E p \in 1 .. Depth', d \in BlockIds :
                           Stack'[p] = Do("free_block", d) /\ m \in Values(d)' /\ DataFirst(m, p)'
      OBVIOUS
    <3>1. nodes'[m] = nodes[m] /\ Spent(m) /\ m \notin G
      BY <1>5, <1>10 DEF Spent
    <3>2. PICK p \in 1 .. Depth, d \in BlockIds :
             Stack[p] = Do("free_block", d) /\ m \in Values(d) /\ DataFirst(m, p)
      BY <3>1, <1>0 DEF SpentNodes
    <3>3. d # b
      BY <3>1, <3>2, <1>6
    <3>4. p # Depth
      BY <3>2, <3>3, <1>1, Doable
    <3> QED BY <3>1, <3>2, <3>3, <3>4, <2>1, <1>9, <1>10
  <2> QED BY <2>2, <2>3 DEF SpentNodes
<1>21. Counts'
  <2> SUFFICES ASSUME NEW m \in NodeIds, nodes'[m].place = "heap", ~Spent(m)'
               PROVE  nodes'[m].refcount = Cardinality(Held(m)') + Cardinality(Releases(m)')
    BY DEF Counts
  <2>1. nodes'[m] = nodes[m]
    BY <1>5, <1>10
  <2>2. Held(m)' = Held(m)
    <3>1. \A c \in BlockIds \X (1 .. MaxCells) : c[1] \in BlockIds
      OBVIOUS
    <3>2. \A c \in BlockIds \X (1 .. MaxCells) : Kept(c[1])' => blocks'[c[1]] = blocks[c[1]]
      BY <3>1, <1>2, <1>5, <1>11
    <3>3. \A c \in BlockIds \X (1 .. MaxCells) : Kept(c[1])' <=> Kept(c[1])
      BY <3>1, <1>11
    <3> QED BY <3>2, <3>3 DEF Held
  <2>3. Releases(m)' = Releases(m)
    <3>1. Stack[Depth] # Do("release", m)
      BY <1>1, Doable
    <3> QED BY <3>1, <1>9 DEF Releases
  <2> QED BY <2>1, <2>2, <2>3, <1>0 DEF Counts, Spent
<1> QED BY <1>14, <1>15, <1>16, <1>18, <1>19, <1>20, <1>21 DEF IInv, Steps

(***************************************************************************)
(* A node is freed when its data has been: the block was above it.         *)
(***************************************************************************)
LEMMA FreeNodeStep ==
    ASSUME IInv, DestroyNode
    PROVE  IInv'
<1>0. /\ TypeOK /\ NodeShape /\ BlockShape /\ Unshared /\ Counts
      /\ CellsHeld /\ HeldOnce /\ ArrayElements /\ HashElements
      /\ Once /\ Destroys /\ Releasing /\ FreesNodes /\ FreesBlocks /\ SpentNodes
  BY DEF IInv, Shape, Elements, Steps
<1>1. PICK n \in NodeIds : n = Arg /\ Stack[Depth] = Do("free_node", n) /\ Depth \in Nat \ {0} /\ ~Idle
  BY <1>0, Top DEF DestroyNode, Doing
<1>2. /\ nodes[n].place = "heap" /\ Spent(n)
      /\ nodes[n].data # NULL => ~BlockIsLive(nodes[n].data)
  <2>1. Depth \in 1 .. Depth /\ Depth + 1 .. Depth = {}
    BY <1>1
  <2>2. nodes[n].place = "heap" /\ Spent(n)
    BY <2>1, <1>0, <1>1 DEF FreesNodes
  <2>3. PICK p \in 1 .. Depth : Stack[p] = Do("free_node", n) /\ DataFirst(n, p)
    BY <2>2, <1>0 DEF SpentNodes
  <2>4. Stack[p] = Stack[Depth] /\ Stack[p].do # "release"
    BY <2>3, <1>1, Doable
  <2>5. p = Depth
    BY <2>1, <2>4, <1>0 DEF Once
  <2> QED BY <2>1, <2>2, <2>3, <2>5 DEF DataFirst
<1>3. /\ nodes'[n] = NoNode("gone")
      /\ \A m \in NodeIds : m # n => nodes'[m] = nodes[m]
      /\ blocks' = blocks
  BY <1>0, <1>1 DEF DestroyNode, TypeOK
<1>4. /\ nodes'[n].place = "gone" /\ nodes'[n].data = NULL
      /\ nodes'[n].refcount = 0 /\ nodes'[n].type = "scalar"
  BY <1>3 DEF NoNode
<1>5. todo' = Tail(todo)
  BY DEF DestroyNode
<1>6. /\ Depth \in Nat /\ Depth' \in Nat /\ Depth' = Depth - 1 /\ todo' \in Seq(Entries)
      /\ \A p \in 1 .. Depth' : p \in 1 .. Depth /\ p # Depth /\ Stack'[p] = Stack[p]
      /\ \A p \in 1 .. Depth : p # Depth => p \in 1 .. Depth' /\ Stack'[p] = Stack[p]
  BY <1>0, <1>1, <1>5, Popped
<1>7. \A d \in BlockIds : /\ Kept(d)' <=> Kept(d)
                          /\ Values(d)' = Values(d)
                          /\ BlockIsLive(d)' <=> BlockIsLive(d)
  <2>1. ASSUME NEW d \in BlockIds, NEW o \in NodeIds
        PROVE  nodes'[o].data = d /\ ~Spent(o)' <=> nodes[o].data = d /\ ~Spent(o)
    BY <1>2, <1>3, <1>4, NullAssumption DEF Spent
  <2> QED BY <2>1, <1>3 DEF Kept, Values, BlockIsLive
<1>8. TypeOK'
  <2>1. NoNode("gone") \in Node
    BY HeightAssumption DEF NoNode, Node, Types, Places
  <2> QED BY <2>1, <1>0, <1>1, <1>3, <1>6 DEF TypeOK, Entries, DestroyNode
<1>9. Shape'
  <2>1. NodeShape'
    <3> SUFFICES ASSUME NEW m \in NodeIds
                 PROVE  /\ ~IsLive(m)' => nodes'[m].data = NULL /\ nodes'[m].refcount = 0
                        /\ nodes'[m].data = NULL <=> nodes'[m].type = "scalar"
                        /\ nodes'[m].data # NULL => blocks'[nodes'[m].data].place # "new"
                        /\ nodes'[m].data # NULL /\ ~Spent(m)' => blocks'[nodes'[m].data].place = "heap"
                        /\ nodes'[m].type = "string" => blocks'[nodes'[m].data].cells = <<>>
      BY DEF NodeShape, BlockIsLive
    <3>1. CASE m = n
      BY <3>1, <1>4
    <3>2. CASE m # n
      BY <3>2, <1>0, <1>3 DEF NodeShape, BlockIsLive, Spent, IsLive
    <3> QED BY <3>1, <3>2
  <2>2. BlockShape'
    BY <1>0, <1>2, <1>3, NullAssumption DEF BlockShape, BlockIsLive
  <2>3. Unshared'
    BY <1>0, <1>3, <1>4 DEF Unshared
  <2> QED BY <2>1, <2>2, <2>3 DEF Shape
<1>10. \A m \in NodeIds : Awaits(m)' <=> Awaits(m)
  <2>1. \A m \in NodeIds : Stack[Depth] # Do("destroy", m)
    BY <1>1, Doable
  <2> QED BY <2>1, <1>6 DEF Awaits
<1>11. Elements'
  <2>1. CellsHeld'
    BY <1>0, <1>3, <1>4, <1>7 DEF CellsHeld
  <2>2. HeldOnce'
    BY <1>0, <1>3, <1>4, Typed DEF HeldOnce
  <2>3. ArrayElements'
    <3> SUFFICES ASSUME NEW a \in NodeIds, nodes'[a].type = "array", NEW v \in Values(nodes[a].data)'
                 PROVE  /\ nodes'[v].place = "cell"
                        /\ ~Spent(a)' => nodes'[v].refcount = 0 /\ ~Awaits(v)'
                        /\ Spent(a)' => Spent(v)' \/ Awaits(v)'
      BY DEF ArrayElements
    <3>1. a # n /\ nodes'[a] = nodes[a]
      BY <1>3, <1>4
    <3>2. nodes[a].data \in BlockIds
      BY <3>1, <1>0, Typed DEF NodeShape
    <3>3. v \in Values(nodes[a].data) /\ v \in NodeIds
      BY <3>1, <3>2, <1>0, <1>7, Typed
    <3>4. v # n /\ nodes'[v] = nodes[v]
      BY <3>1, <3>3, <1>0, <1>2, <1>3 DEF ArrayElements
    <3> QED BY <3>1, <3>3, <3>4, <1>0, <1>10 DEF ArrayElements, Spent
  <2>4. HashElements'
    <3> SUFFICES ASSUME NEW h \in NodeIds, nodes'[h].type = "hash", NEW v \in Values(nodes[h].data)'
                 PROVE  /\ nodes'[v].place \in {"heap", "gone"}
                        /\ ~Spent(h)' => nodes'[v].place = "heap" /\ ~Spent(v)'
      BY DEF HashElements
    <3>1. h # n /\ nodes'[h] = nodes[h]
      BY <1>3, <1>4
    <3>2. nodes[h].data \in BlockIds
      BY <3>1, <1>0, Typed DEF NodeShape
    <3>3. v \in Values(nodes[h].data) /\ v \in NodeIds
      BY <3>1, <3>2, <1>0, <1>7, Typed
    <3>4. Spent(h) \/ v # n
      BY <3>1, <3>3, <1>0, <1>2 DEF HashElements
    <3> QED BY <3>1, <3>3, <3>4, <1>0, <1>3, <1>4 DEF HashElements, Spent
  <2> QED BY <2>1, <2>2, <2>3, <2>4 DEF Elements
<1>12. \A p \in 1 .. Depth' : Stack[p] # Do("free_node", n)
  <2> SUFFICES ASSUME NEW p \in 1 .. Depth', Stack[p] = Do("free_node", n)
               PROVE  FALSE
    OBVIOUS
  <2>1. p \in 1 .. Depth /\ p # Depth /\ Depth \in 1 .. Depth
    BY <1>1, <1>6
  <2>2. Stack[p] = Stack[Depth] /\ Stack[p].do # "release"
    BY <1>1, Doable
  <2> QED BY <2>1, <2>2, <1>0 DEF Once
<1>13. Once' /\ Releasing' /\ FreesNodes' /\ FreesBlocks'
  <2>1. Once'
    BY <1>0, <1>6 DEF Once
  <2>2. Releasing'
    BY <1>0, <1>2, <1>3, <1>6 DEF Releasing, Spent
  <2>3. FreesNodes'
    BY <1>0, <1>3, <1>6, <1>12 DEF FreesNodes, Spent
  <2>4. FreesBlocks'
    BY <1>0, <1>6, <1>7 DEF FreesBlocks
  <2> QED BY <2>1, <2>2, <2>3, <2>4
<1>14. Destroys'
  <2> SUFFICES ASSUME NEW p \in 1 .. Depth', NEW m \in NodeIds, Stack'[p] = Do("destroy", m)
               PROVE  /\ IsLive(m)' /\ nodes'[m].refcount = 0
                      /\ nodes'[m].place = "cell" =>
                           \E q \in 1 .. p - 1, d \in BlockIds :
                               Stack'[q] = Do("free_block", d) /\ m \in Values(d)'
    BY DEF Destroys
  <2>1. p \in 1 .. Depth /\ Stack[p] = Do("destroy", m)
    BY <1>6
  <2>2. IsLive(m) /\ nodes[m].refcount = 0
    BY <2>1, <1>0 DEF Destroys
  <2>3. nodes'[m] = nodes[m]
    BY <2>2, <1>2, <1>3 DEF Spent
  <2>4. ASSUME nodes[m].place = "cell"
        PROVE  \E q \in 1 .. p - 1, d \in BlockIds :
                  Stack'[q] = Do("free_block", d) /\ m \in Values(d)'
    <3>1. PICK q \in 1 .. p - 1, d \in BlockIds : Stack[q] = Do("free_block", d) /\ m \in Values(d)
      BY <2>1, <2>4, <1>0 DEF Destroys
    <3>2. q \in 1 .. Depth'
      BY <1>6
    <3> QED BY <3>1, <3>2, <1>6, <1>7
  <2> QED BY <2>2, <2>3, <2>4 DEF IsLive
<1>15. SpentNodes'
  <2>1. ASSUME NEW m \in NodeIds, NEW p \in 1 .. Depth, nodes'[m] = nodes[m], DataFirst(m, p)
        PROVE  DataFirst(m, p)'
    <3> SUFFICES ASSUME nodes[m].data # NULL, BlockIsLive(nodes[m].data)
                 PROVE  \E q \in p + 1 .. Depth' : Stack'[q] = Do("free_block", nodes[m].data)
      BY <2>1, <1>3 DEF DataFirst, BlockIsLive
    <3>1. PICK q \in p + 1 .. Depth : Stack[q] = Do("free_block", nodes[m].data)
      BY <2>1 DEF DataFirst
    <3>2. Stack[q] # Stack[Depth]
      BY <3>1, <1>1, Doable
    <3>3. q \in p + 1 .. Depth' /\ Stack'[q] = Stack[q]
      BY <3>2, <1>0, <1>1, <1>5, Above
    <3> QED BY <3>1, <3>3
  <2>2. \A m \in NodeIds : Spent(m)' /\ nodes'[m].place = "heap" =>
           \E p \in 1 .. Depth' : Stack'[p] = Do("free_node", m) /\ DataFirst(m, p)'
    <3> SUFFICES ASSUME NEW m \in NodeIds, Spent(m)', nodes'[m].place = "heap"
                 PROVE  \E p \in 1 .. Depth' : Stack'[p] = Do("free_node", m) /\ DataFirst(m, p)'
      OBVIOUS
    <3>1. m # n /\ nodes'[m] = nodes[m] /\ Spent(m)
      BY <1>3, <1>4 DEF Spent
    <3>2. PICK p \in 1 .. Depth : Stack[p] = Do("free_node", m) /\ DataFirst(m, p)
      BY <3>1, <1>0 DEF SpentNodes
    <3>3. p # Depth
      BY <3>1, <3>2, <1>1, Doable
    <3> QED BY <3>1, <3>2, <3>3, <2>1, <1>6
  <2>3. \A m \in NodeIds : Spent(m)' /\ nodes'[m].place = "cell" =>
           \E p \in 1 .. Depth', d \in BlockIds :
              Stack'[p] = Do("free_block", d) /\ m \in Values(d)' /\ DataFirst(m, p)'
    <3> SUFFICES ASSUME NEW m \in NodeIds, Spent(m)', nodes'[m].place = "cell"
                 PROVE  \E p \in 1 .. Depth', d \in BlockIds :
                           Stack'[p] = Do("free_block", d) /\ m \in Values(d)' /\ DataFirst(m, p)'
      OBVIOUS
    <3>1. nodes'[m] = nodes[m] /\ Spent(m)
      BY <1>3, <1>4 DEF Spent
    <3>2. PICK p \in 1 .. Depth, d \in BlockIds :
             Stack[p] = Do("free_block", d) /\ m \in Values(d) /\ DataFirst(m, p)
      BY <3>1, <1>0 DEF SpentNodes
    <3>3. p # Depth
      BY <3>2, <1>1, Doable
    <3> QED BY <3>1, <3>2, <3>3, <2>1, <1>6, <1>7
  <2> QED BY <2>2, <2>3 DEF SpentNodes
<1>16. Counts'
  <2> SUFFICES ASSUME NEW m \in NodeIds, nodes'[m].place = "heap", ~Spent(m)'
               PROVE  nodes'[m].refcount = Cardinality(Held(m)') + Cardinality(Releases(m)')
    BY DEF Counts
  <2>1. nodes'[m] = nodes[m]
    BY <1>3, <1>4
  <2>2. Held(m)' = Held(m)
    <3>1. \A c \in BlockIds \X (1 .. MaxCells) : c[1] \in BlockIds
      OBVIOUS
    <3>2. \A c \in BlockIds \X (1 .. MaxCells) : Kept(c[1])' <=> Kept(c[1])
      BY <3>1, <1>7
    <3> QED BY <3>2, <1>3 DEF Held
  <2>3. Releases(m)' = Releases(m)
    <3>1. Stack[Depth] # Do("release", m)
      BY <1>1, Doable
    <3> QED BY <3>1, <1>6 DEF Releases
  <2> QED BY <2>1, <2>2, <2>3, <1>0 DEF Counts, Spent
<1> QED BY <1>8, <1>9, <1>11, <1>13, <1>14, <1>15, <1>16 DEF IInv, Steps

(***************************************************************************)
(* What destroying the data of a node puts on the stack, from below: the   *)
(* node unless it stands in a buffer, its block if it has one, and on top  *)
(* of these its cells if they are to be followed, the first uppermost.     *)
(***************************************************************************)
Kind(n) == IF nodes[n].type = "hash" THEN "release" ELSE "destroy"
Followed(n) == IF nodes[n].type \in {"hash", "array"} THEN Len(Cells(n)) ELSE 0
HasBlock(n) == IF nodes[n].data = NULL THEN 0 ELSE 1
HasStruct(n) == IF nodes[n].place = "heap" THEN 1 ELSE 0

LEMMA Layout ==
    ASSUME IInv, ~Idle, NEW n \in NodeIds, IsLive(n),
           todo' = ForCells(n) \o ForBlock(n) \o ForNode(n) \o Tail(todo)
    PROVE  /\ Followed(n) \in Nat /\ HasBlock(n) \in {0, 1} /\ HasStruct(n) \in {0, 1}
           /\ Depth \in Nat \ {0} /\ todo' \in Seq(Entries)
           /\ Depth' = Depth - 1 + Followed(n) + HasBlock(n) + HasStruct(n)
           /\ \A p \in 1 .. Depth - 1 : Stack'[p] = Stack[p]
           /\ HasStruct(n) = 1 => Stack'[Depth] = Do("free_node", n)
           /\ HasBlock(n) = 1 => Stack'[Depth + HasStruct(n)] = Do("free_block", nodes[n].data)
           /\ \A k \in 1 .. Followed(n) : Stack'[Depth' + 1 - k] = Do(Kind(n), Cells(n)[k].value)
<1>0. /\ TypeOK /\ NodeShape /\ BlockShape /\ Unshared /\ Counts
      /\ CellsHeld /\ HeldOnce /\ ArrayElements /\ HashElements
      /\ Once /\ Destroys /\ Releasing /\ FreesNodes /\ FreesBlocks /\ SpentNodes
  BY DEF IInv, Shape, Elements, Steps
<1> DEFINE f == ForCells(n)
           g == ForBlock(n)
           h == ForNode(n)
<1>1. /\ f \in Seq(Entries) /\ Len(f) = Followed(n) /\ Followed(n) \in Nat
      /\ \A k \in 1 .. Followed(n) : f[k] = Do(Kind(n), Cells(n)[k].value)
  <2>1. CASE nodes[n].type \in {"hash", "array"}
    <3>1. nodes[n].data \in BlockIds
      BY <2>1, <1>0, Typed DEF NodeShape
    <3>2. /\ Len(Cells(n)) \in Nat /\ DOMAIN Cells(n) = 1 .. Len(Cells(n))
          /\ \A k \in DOMAIN Cells(n) : Cells(n)[k].value \in NodeIds
      BY <3>1, <1>0, Typed DEF Cells
    <3>3. f = [k \in 1 .. Len(Cells(n)) |-> Do(Kind(n), Cells(n)[k].value)]
      BY <2>1, <3>2 DEF ForCells, Kind
    <3>4. \A v \in NodeIds : Do(Kind(n), v) \in Entries
      BY DEF Do, Kind, Entries
    <3>5. \A k \in 1 .. Len(Cells(n)) : Do(Kind(n), Cells(n)[k].value) \in Entries
      BY <3>2, <3>4
    <3>6. f \in [1 .. Len(Cells(n)) -> Entries]
      BY <3>3, <3>5
    <3>7. f \in Seq(Entries) /\ Len(f) = Len(Cells(n))
      BY <3>2, <3>6
    <3> QED BY <2>1, <3>2, <3>3, <3>7 DEF Followed
  <2>2. CASE nodes[n].type \notin {"hash", "array"}
    BY <2>2 DEF ForCells, Followed
  <2> QED BY <2>1, <2>2
<1>2. /\ g \in Seq(Entries) /\ Len(g) = HasBlock(n) /\ HasBlock(n) \in {0, 1}
      /\ HasBlock(n) = 1 => g[1] = Do("free_block", nodes[n].data)
  <2>1. nodes[n].data = NULL <=> nodes[n].type = "scalar"
    BY <1>0 DEF NodeShape
  <2>2. nodes[n].data # NULL => Do("free_block", nodes[n].data) \in Entries
    BY <1>0, Typed DEF Do, Entries
  <2> QED BY <2>1, <2>2 DEF ForBlock, HasBlock
<1>3. /\ h \in Seq(Entries) /\ Len(h) = HasStruct(n) /\ HasStruct(n) \in {0, 1}
      /\ HasStruct(n) = 1 => h[1] = Do("free_node", n)
  <2>1. Do("free_node", n) \in Entries
    BY DEF Do, Entries
  <2>2. nodes[n].place = "heap" <=> nodes[n].place # "cell"
    BY DEF IsLive
  <2> QED BY <2>1, <2>2 DEF ForNode, HasStruct
<1> HIDE DEF f, g, h
<1>4. /\ f \o g \in Seq(Entries) /\ Len(f \o g) = Followed(n) + HasBlock(n)
      /\ \A c \in 1 .. Followed(n) : (f \o g)[c] = f[c]
      /\ \A c \in 1 .. HasBlock(n) : (f \o g)[Followed(n) + c] = g[c]
  BY <1>1, <1>2, Concat
<1> DEFINE fg == f \o g
<1>5. /\ fg \in Seq(Entries) /\ Len(fg) = Followed(n) + HasBlock(n)
      /\ \A c \in 1 .. Followed(n) : fg[c] = f[c]
      /\ \A c \in 1 .. HasBlock(n) : fg[Followed(n) + c] = g[c]
  BY <1>4
<1> HIDE DEF fg
<1>6. /\ fg \o h \in Seq(Entries) /\ Len(fg \o h) = Len(fg) + HasStruct(n)
      /\ \A c \in 1 .. Len(fg) : (fg \o h)[c] = fg[c]
      /\ \A c \in 1 .. HasStruct(n) : (fg \o h)[Len(fg) + c] = h[c]
  BY <1>3, <1>5, Concat
<1> DEFINE new == fg \o h
<1>7. /\ new \in Seq(Entries)
      /\ Len(new) = Followed(n) + HasBlock(n) + HasStruct(n)
      /\ \A c \in 1 .. Followed(n) : new[c] = f[c]
      /\ HasBlock(n) = 1 => new[Followed(n) + 1] = g[1]
      /\ HasStruct(n) = 1 => new[Followed(n) + HasBlock(n) + 1] = h[1]
  <2>1. /\ new \in Seq(Entries) /\ Len(new) = Len(fg) + HasStruct(n)
        /\ \A c \in 1 .. Len(fg) : new[c] = fg[c]
        /\ \A c \in 1 .. HasStruct(n) : new[Len(fg) + c] = h[c]
    BY <1>6
  <2> HIDE DEF new
  <2>2. Len(fg) = Followed(n) + HasBlock(n) /\ Followed(n) \in Nat
        /\ HasBlock(n) \in {0, 1} /\ HasStruct(n) \in {0, 1}
    BY <1>1, <1>2, <1>3, <1>5
  <2>3. ASSUME NEW c \in 1 .. Followed(n) PROVE new[c] = f[c]
    BY <2>1, <2>2, <1>5
  <2>4. HasBlock(n) = 1 => new[Followed(n) + 1] = g[1]
    BY <2>1, <2>2, <1>5
  <2>5. HasStruct(n) = 1 => new[Followed(n) + HasBlock(n) + 1] = h[1]
    BY <2>1, <2>2
  <2> QED BY <2>1, <2>2, <2>3, <2>4, <2>5
<1>8. todo' = new \o Tail(todo)
  BY DEF f, g, h, fg
<1> HIDE DEF new
<1>9. /\ Depth \in Nat \ {0} /\ todo' \in Seq(Entries)
      /\ Depth' = Depth - 1 + Len(new)
      /\ \A p \in 1 .. Depth - 1 : Stack'[p] = Stack[p]
      /\ \A c \in 1 .. Len(new) : Stack'[Depth' + 1 - c] = new[c]
  BY <1>0, <1>7, <1>8, PopPush
<1>9a. /\ Followed(n) \in Nat /\ HasBlock(n) \in {0, 1} /\ HasStruct(n) \in {0, 1}
       /\ Depth \in Nat \ {0} /\ Len(new) = Followed(n) + HasBlock(n) + HasStruct(n)
       /\ Depth' = Depth - 1 + Followed(n) + HasBlock(n) + HasStruct(n)
  BY <1>1, <1>2, <1>3, <1>7, <1>9
<1>10. HasStruct(n) = 1 => Stack'[Depth] = Do("free_node", n)
  <2> SUFFICES ASSUME HasStruct(n) = 1 PROVE Stack'[Depth] = Do("free_node", n)
    OBVIOUS
  <2>1. /\ Followed(n) + HasBlock(n) + 1 \in 1 .. Len(new)
        /\ Depth' + 1 - (Followed(n) + HasBlock(n) + 1) = Depth
    BY <1>9a
  <2> QED BY <2>1, <1>3, <1>7, <1>9
<1>11. HasBlock(n) = 1 => Stack'[Depth + HasStruct(n)] = Do("free_block", nodes[n].data)
  <2> SUFFICES ASSUME HasBlock(n) = 1
               PROVE  Stack'[Depth + HasStruct(n)] = Do("free_block", nodes[n].data)
    OBVIOUS
  <2>1. /\ Followed(n) + 1 \in 1 .. Len(new)
        /\ Depth' + 1 - (Followed(n) + 1) = Depth + HasStruct(n)
    BY <1>9a
  <2> QED BY <2>1, <1>2, <1>7, <1>9
<1>12. ASSUME NEW k \in 1 .. Followed(n)
       PROVE  Stack'[Depth' + 1 - k] = Do(Kind(n), Cells(n)[k].value)
  <2>1. k \in 1 .. Len(new)
    BY <1>1, <1>2, <1>3, <1>7
  <2> QED BY <2>1, <1>1, <1>7, <1>9
<1> QED BY <1>1, <1>2, <1>3, <1>7, <1>9, <1>10, <1>11, <1>12

\* As many cells of a block as there are indices, and as many places on the stack.
LEMMA Paired ==
    ASSUME NEW S, IsFiniteSet(S), NEW d
    PROVE  /\ IsFiniteSet({<<d, k>> : k \in S})
           /\ Cardinality({<<d, k>> : k \in S}) = Cardinality(S)
<1> DEFINE T == {<<d, k>> : k \in S}
           f == [k \in S |-> <<d, k>>]
<1>1. f \in Bijection(S, T)
  BY DEF Bijection, Injection, Surjection, IsInjective
<1> QED BY <1>1, FS_Bijection DEF ExistsBijection

LEMMA Mirrored ==
    ASSUME NEW S \in SUBSET Int, IsFiniteSet(S), NEW e \in Int
    PROVE  /\ IsFiniteSet({e - k : k \in S})
           /\ Cardinality({e - k : k \in S}) = Cardinality(S)
<1> DEFINE T == {e - k : k \in S}
           f == [k \in S |-> e - k]
<1>1. f \in Bijection(S, T)
  BY DEF Bijection, Injection, Surjection, IsInjective
<1> QED BY <1>1, FS_Bijection DEF ExistsBijection

LEMMA Added ==
    ASSUME NEW S, IsFiniteSet(S), NEW T, IsFiniteSet(T), S \cap T = {}
    PROVE  IsFiniteSet(S \cup T) /\ Cardinality(S \cup T) = Cardinality(S) + Cardinality(T)
<1>1. Cardinality(S \cap T) = 0 /\ Cardinality(S) \in Nat /\ Cardinality(T) \in Nat
  BY FS_EmptySet, FS_CardinalityType
<1>2. /\ IsFiniteSet(S \cup T)
      /\ Cardinality(S \cup T) = Cardinality(S) + Cardinality(T) - Cardinality(S \cap T)
  BY FS_Union
<1> QED BY <1>1, <1>2

\* A node that nothing counts is held by no hash, nor is it to be released.
LEMMA Unheld ==
    ASSUME IInv, NEW n \in NodeIds, nodes[n].place = "heap", nodes[n].refcount = 0
    PROVE  /\ Held(n) = {} /\ Releases(n) = {}
           /\ \A h \in NodeIds : nodes[h].type = "hash" /\ ~Spent(h) => n \notin Values(nodes[h].data)
<1>0. /\ TypeOK /\ NodeShape /\ BlockShape /\ Unshared /\ Counts
      /\ CellsHeld /\ HeldOnce /\ ArrayElements /\ HashElements
      /\ Once /\ Destroys /\ Releasing /\ FreesNodes /\ FreesBlocks /\ SpentNodes
  BY DEF IInv, Shape, Elements, Steps
<1>1. Cardinality(Held(n)) = 0 /\ Cardinality(Releases(n)) = 0
  <2>1. ~Spent(n)
    BY DEF Spent
  <2> QED BY <2>1, <1>0, Finite DEF Counts
<1>2. Held(n) = {} /\ Releases(n) = {}
  BY <1>0, <1>1, Finite
<1>3. ASSUME NEW h \in NodeIds, nodes[h].type = "hash", ~Spent(h), n \in Values(nodes[h].data)
      PROVE  FALSE
  <2> DEFINE d == nodes[h].data
  <2>1. d \in BlockIds
    BY <1>3, <1>0, Typed DEF NodeShape
  <2>2. PICK k \in DOMAIN blocks[d].cells : blocks[d].cells[k].value = n
    BY <1>3 DEF Values
  <2>3. k \in 1 .. MaxCells
    <3>1. k \in 1 .. Len(blocks[d].cells) /\ Len(blocks[d].cells) \in Nat
      BY <2>1, <2>2, <1>0, Typed
    <3>2. Len(blocks[d].cells) <= MaxCells
      BY <2>1, <1>0 DEF BlockShape
    <3> QED BY <3>1, <3>2, MemoryAssumption
  <2>4. Kept(d)
    BY <1>3 DEF Kept
  <2> HIDE DEF d
  <2>5. <<d, k>> \in Held(n)
    BY <2>1, <2>2, <2>3, <2>4 DEF Held
  <2> QED BY <2>5, <1>2
<1> QED BY <1>2, <1>3

(***************************************************************************)
(* The data of a node is about to be destroyed: what its steps lead to.    *)
(***************************************************************************)
LEMMA DestroyDataFacts ==
    ASSUME IInv, DestroyData, NEW n \in NodeIds, n = Arg
    PROVE  /\ ~Idle /\ Depth \in Nat \ {0} /\ Stack[Depth] = Do("destroy", n)
           /\ IsLive(n) /\ nodes[n].refcount = 0 /\ blocks' = blocks
           /\ todo' = ForCells(n) \o ForBlock(n) \o ForNode(n) \o Tail(todo)
           /\ \A m \in NodeIds :
                 /\ nodes'[m].type = nodes[m].type /\ nodes'[m].data = nodes[m].data
                 /\ nodes'[m].place = nodes[m].place
                 /\ nodes'[m].refcount = IF m = n THEN -1 ELSE nodes[m].refcount
           /\ nodes' \in [NodeIds -> Node]
           /\ nodes[n].data # NULL => nodes[n].data \in BlockIds /\ BlockIsLive(nodes[n].data)
<1>0. /\ TypeOK /\ NodeShape /\ BlockShape /\ Unshared /\ Counts
      /\ CellsHeld /\ HeldOnce /\ ArrayElements /\ HashElements
      /\ Once /\ Destroys /\ Releasing /\ FreesNodes /\ FreesBlocks /\ SpentNodes
  BY DEF IInv, Shape, Elements, Steps
<1>1. ~Idle /\ Depth \in Nat \ {0} /\ Stack[Depth] = Do("destroy", n)
  BY <1>0, Top DEF DestroyData, Doing
<1>2. IsLive(n) /\ nodes[n].refcount = 0
  <2>1. Depth \in 1 .. Depth
    BY <1>1
  <2> QED BY <2>1, <1>0, <1>1 DEF Destroys
<1>3. ~InUse
  BY <1>2 DEF InUse
<1>4. /\ todo' = ForCells(n) \o ForBlock(n) \o ForNode(n) \o Tail(todo)
      /\ nodes' = [nodes EXCEPT ![n].refcount = -1] /\ blocks' = blocks
  <2>1. todo' = ForCells(n) \o ForBlock(n) \o ForNode(n) \o Tail(todo)
    BY <1>3 DEF DestroyData
  <2>2. nodes' = [nodes EXCEPT ![n].refcount = nodes[n].refcount - 1] /\ blocks' = blocks
    BY <1>0 DEF DestroyData, Discounted, TypeOK
  <2>3. nodes[n].refcount - 1 = -1
    BY <1>2
  <2> QED BY <2>1, <2>2, <2>3
<1>5. \A m \in NodeIds :
         /\ nodes'[m].type = nodes[m].type /\ nodes'[m].data = nodes[m].data
         /\ nodes'[m].place = nodes[m].place
         /\ nodes'[m].refcount = IF m = n THEN -1 ELSE nodes[m].refcount
  BY <1>0, <1>4, Typed DEF TypeOK, Node
<1>6. nodes' \in [NodeIds -> Node]
  <2>1. [nodes[n] EXCEPT !.refcount = -1] \in Node
    BY <1>0, Typed DEF Node
  <2> QED BY <2>1, <1>0, <1>4 DEF TypeOK
<1>7. nodes[n].data # NULL => nodes[n].data \in BlockIds /\ BlockIsLive(nodes[n].data)
  BY <1>0, <1>2, Typed DEF NodeShape, Spent
<1> QED BY <1>1, <1>2, <1>4, <1>5, <1>6, <1>7

LEMMA Elems ==
    ASSUME IInv, NEW n \in NodeIds, IsLive(n), nodes[n].refcount = 0, Awaits(n)
    PROVE  /\ nodes[n].type \in {"hash", "array"} => nodes[n].data \in BlockIds
           /\ Followed(n) \in Nat
           /\ \A k \in 1 .. Followed(n) :
                 /\ nodes[n].type \in {"hash", "array"}
                 /\ k \in DOMAIN blocks[nodes[n].data].cells /\ k <= MaxCells
                 /\ Cells(n)[k].value = blocks[nodes[n].data].cells[k].value
                 /\ Cells(n)[k].value \in Values(nodes[n].data)
           /\ nodes[n].type = "array" => \A v \in Values(nodes[n].data) :
                 /\ v \in NodeIds /\ v # n /\ nodes[v].place = "cell" /\ nodes[v].refcount = 0
                 /\ ~Awaits(v)
           /\ nodes[n].type = "hash" => \A v \in Values(nodes[n].data) :
                 v \in NodeIds /\ v # n /\ nodes[v].place = "heap" /\ ~Spent(v)
<1>0. /\ TypeOK /\ NodeShape /\ BlockShape /\ Unshared /\ Counts
      /\ CellsHeld /\ HeldOnce /\ ArrayElements /\ HashElements
      /\ Once /\ Destroys /\ Releasing /\ FreesNodes /\ FreesBlocks /\ SpentNodes
  BY DEF IInv, Shape, Elements, Steps
<1>1. nodes[n].type \in {"hash", "array"} => nodes[n].data \in BlockIds
  BY <1>0, Typed DEF NodeShape
<1>2. nodes[n].type \in {"hash", "array"} =>
        /\ Len(Cells(n)) \in Nat /\ DOMAIN blocks[nodes[n].data].cells = 1 .. Len(Cells(n))
        /\ Len(Cells(n)) <= MaxCells
        /\ Values(nodes[n].data) \subseteq NodeIds
  BY <1>0, <1>1, Typed DEF Cells, BlockShape
<1>3. Followed(n) \in Nat
  BY <1>2 DEF Followed
<1>4. ASSUME NEW k \in 1 .. Followed(n)
      PROVE  /\ nodes[n].type \in {"hash", "array"}
             /\ k \in DOMAIN blocks[nodes[n].data].cells /\ k <= MaxCells
             /\ Cells(n)[k].value = blocks[nodes[n].data].cells[k].value
             /\ Cells(n)[k].value \in Values(nodes[n].data)
  <2>1. nodes[n].type \in {"hash", "array"} /\ k \in 1 .. Len(Cells(n))
    BY DEF Followed
  <2>2. k \in DOMAIN blocks[nodes[n].data].cells /\ k <= MaxCells
    BY <2>1, <1>2, MemoryAssumption
  <2> QED BY <2>1, <2>2 DEF Cells, Values
<1>5. ~Spent(n)
  BY DEF Spent
<1>6. ASSUME nodes[n].type = "array", NEW v \in Values(nodes[n].data)
      PROVE  /\ v \in NodeIds /\ v # n /\ nodes[v].place = "cell" /\ nodes[v].refcount = 0
             /\ ~Awaits(v)
  BY <1>0, <1>2, <1>5, <1>6 DEF ArrayElements
<1>7. ASSUME nodes[n].type = "hash", NEW v \in Values(nodes[n].data)
      PROVE  v \in NodeIds /\ v # n /\ nodes[v].place = "heap" /\ ~Spent(v)
  <2>1. v \in NodeIds /\ nodes[v].place = "heap" /\ ~Spent(v)
    BY <1>0, <1>2, <1>5, <1>7 DEF HashElements
  <2>2. v # n
    BY <2>1, <1>5, <1>7, Unheld
  <2> QED BY <2>1, <2>2
<1> QED BY <1>1, <1>3, <1>4, <1>6, <1>7

\* Where the steps on the stack are after it, and where they come from.
LEMMA Origin ==
    ASSUME IInv, DestroyData, NEW n \in NodeIds, n = Arg
    PROVE  /\ Depth' \in Nat /\ todo' \in Seq(Entries)
           /\ \A p \in 1 .. Depth - 1 : p \in 1 .. Depth /\ p \in 1 .. Depth' /\ Stack'[p] = Stack[p]
           /\ \A p \in 1 .. Depth : p \in 1 .. Depth - 1 \/ p = Depth
           /\ HasStruct(n) = 1 => Depth \in 1 .. Depth' /\ Stack'[Depth] = Do("free_node", n)
           /\ HasBlock(n) = 1 => /\ Depth + HasStruct(n) \in 1 .. Depth'
                                 /\ Stack'[Depth + HasStruct(n)] = Do("free_block", nodes[n].data)
           /\ \A k \in 1 .. Followed(n) :
                 /\ Depth' + 1 - k \in 1 .. Depth' /\ Depth' + 1 - k >= Depth + HasStruct(n) + HasBlock(n)
                 /\ Stack'[Depth' + 1 - k] = Do(Kind(n), Cells(n)[k].value)
           /\ \A p \in 1 .. Depth' :
                 \/ p \in 1 .. Depth - 1 /\ Stack'[p] = Stack[p]
                 \/ HasStruct(n) = 1 /\ p = Depth
                 \/ HasBlock(n) = 1 /\ p = Depth + HasStruct(n)
                 \/ \E k \in 1 .. Followed(n) : p = Depth' + 1 - k
<1>1. /\ Followed(n) \in Nat /\ HasBlock(n) \in {0, 1} /\ HasStruct(n) \in {0, 1}
      /\ Depth \in Nat \ {0} /\ todo' \in Seq(Entries)
      /\ Depth' = Depth - 1 + Followed(n) + HasBlock(n) + HasStruct(n)
      /\ \A p \in 1 .. Depth - 1 : Stack'[p] = Stack[p]
      /\ HasStruct(n) = 1 => Stack'[Depth] = Do("free_node", n)
      /\ HasBlock(n) = 1 => Stack'[Depth + HasStruct(n)] = Do("free_block", nodes[n].data)
      /\ \A k \in 1 .. Followed(n) : Stack'[Depth' + 1 - k] = Do(Kind(n), Cells(n)[k].value)
  BY DestroyDataFacts, Layout
<1> DEFINE F == Followed(n)
           B == HasBlock(n)
           S == HasStruct(n)
<1>2. /\ F \in Nat /\ B \in {0, 1} /\ S \in {0, 1} /\ Depth \in Nat \ {0}
      /\ Depth' = Depth - 1 + F + B + S
  BY <1>1
<1> HIDE DEF F, B, S
<1>3. Depth' \in Nat
  BY <1>2
<1>4. \A p \in 1 .. Depth - 1 : p \in 1 .. Depth /\ p \in 1 .. Depth'
  BY <1>2
<1>5. \A p \in 1 .. Depth : p \in 1 .. Depth - 1 \/ p = Depth
  BY <1>2
<1>6. (S = 1 => Depth \in 1 .. Depth') /\ (B = 1 => Depth + S \in 1 .. Depth')
  BY <1>2
<1>7. \A k \in 1 .. F : Depth' + 1 - k \in 1 .. Depth' /\ Depth' + 1 - k >= Depth + S + B
  BY <1>2
<1>8. \A p \in 1 .. Depth' :
         \/ p \in 1 .. Depth - 1
         \/ S = 1 /\ p = Depth
         \/ B = 1 /\ p = Depth + S
         \/ \E k \in 1 .. F : p = Depth' + 1 - k
  <2> SUFFICES ASSUME NEW p \in 1 .. Depth', p \notin 1 .. Depth - 1,
                      ~(S = 1 /\ p = Depth), ~(B = 1 /\ p = Depth + S)
               PROVE  \E k \in 1 .. F : p = Depth' + 1 - k
    OBVIOUS
  <2>1. p >= Depth + S + B
    BY <1>2
  <2>2. Depth' + 1 - p \in 1 .. F /\ p = Depth' + 1 - (Depth' + 1 - p)
    BY <2>1, <1>2
  <2> QED BY <2>2
<1> QED BY <1>1, <1>3, <1>4, <1>5, <1>6, <1>7, <1>8 DEF F, B, S

\* The same by what is to be done.
LEMMA OriginOf ==
    ASSUME IInv, DestroyData, NEW n \in NodeIds, n = Arg, NEW p \in 1 .. Depth'
    PROVE  /\ \A m \in NodeIds :
                 /\ Stack'[p] = Do("free_node", m) =>
                       \/ p \in 1 .. Depth - 1 /\ Stack[p] = Do("free_node", m)
                       \/ HasStruct(n) = 1 /\ p = Depth /\ m = n
                 /\ Stack'[p] = Do("destroy", m) =>
                       \/ p \in 1 .. Depth - 1 /\ Stack[p] = Do("destroy", m)
                       \/ /\ nodes[n].type = "array"
                          /\ \E k \in 1 .. Followed(n) : p = Depth' + 1 - k /\ m = Cells(n)[k].value
                 /\ Stack'[p] = Do("release", m) =>
                       \/ p \in 1 .. Depth - 1 /\ Stack[p] = Do("release", m)
                       \/ /\ nodes[n].type = "hash"
                          /\ \E k \in 1 .. Followed(n) : p = Depth' + 1 - k /\ m = Cells(n)[k].value
           /\ \A b \in BlockIds :
                 Stack'[p] = Do("free_block", b) =>
                       \/ p \in 1 .. Depth - 1 /\ Stack[p] = Do("free_block", b)
                       \/ HasBlock(n) = 1 /\ p = Depth + HasStruct(n) /\ b = nodes[n].data
<1>1. \/ p \in 1 .. Depth - 1 /\ Stack'[p] = Stack[p]
      \/ HasStruct(n) = 1 /\ p = Depth /\ Stack'[p] = Do("free_node", n)
      \/ HasBlock(n) = 1 /\ p = Depth + HasStruct(n) /\ Stack'[p] = Do("free_block", nodes[n].data)
      \/ \E k \in 1 .. Followed(n) : p = Depth' + 1 - k /\ Stack'[p] = Do(Kind(n), Cells(n)[k].value)
  <2>1. \/ p \in 1 .. Depth - 1 /\ Stack'[p] = Stack[p]
        \/ HasStruct(n) = 1 /\ p = Depth
        \/ HasBlock(n) = 1 /\ p = Depth + HasStruct(n)
        \/ \E k \in 1 .. Followed(n) : p = Depth' + 1 - k
    BY Origin
  <2>2. /\ HasStruct(n) = 1 => Stack'[Depth] = Do("free_node", n)
        /\ HasBlock(n) = 1 => Stack'[Depth + HasStruct(n)] = Do("free_block", nodes[n].data)
        /\ \A k \in 1 .. Followed(n) : Stack'[Depth' + 1 - k] = Do(Kind(n), Cells(n)[k].value)
    BY Origin
  <2> QED BY <2>1, <2>2
<1>2. \A k \in 1 .. Followed(n) : nodes[n].type \in {"hash", "array"}
  BY DEF Followed
<1>3. CASE p \in 1 .. Depth - 1 /\ Stack'[p] = Stack[p]
  BY <1>3
<1>4. CASE HasStruct(n) = 1 /\ p = Depth /\ Stack'[p] = Do("free_node", n)
  BY <1>4, Doable
<1>5. CASE HasBlock(n) = 1 /\ p = Depth + HasStruct(n) /\ Stack'[p] = Do("free_block", nodes[n].data)
  BY <1>5, Doable
<1>6. CASE \E k \in 1 .. Followed(n) : p = Depth' + 1 - k /\ Stack'[p] = Do(Kind(n), Cells(n)[k].value)
  <2>1. PICK k \in 1 .. Followed(n) : p = Depth' + 1 - k /\ Stack'[p] = Do(Kind(n), Cells(n)[k].value)
    BY <1>6
  <2>2. \/ nodes[n].type = "hash" /\ Stack'[p] = Do("release", Cells(n)[k].value)
        \/ nodes[n].type = "array" /\ Stack'[p] = Do("destroy", Cells(n)[k].value)
    BY <2>1, <1>2 DEF Kind
  <2> QED BY <2>1, <2>2, Doable
<1> QED BY <1>1, <1>3, <1>4, <1>5, <1>6

LEMMA DestroyDataShape ==
    ASSUME IInv, DestroyData
    PROVE  TypeOK' /\ Shape' /\ Elements'
<1>0. /\ TypeOK /\ NodeShape /\ BlockShape /\ Unshared /\ Counts
      /\ CellsHeld /\ HeldOnce /\ ArrayElements /\ HashElements
      /\ Once /\ Destroys /\ Releasing /\ FreesNodes /\ FreesBlocks /\ SpentNodes
  BY DEF IInv, Shape, Elements, Steps
<1>1. PICK n \in NodeIds : n = Arg
  BY <1>0, Top DEF DestroyData, Doing
<1>2. /\ ~Idle /\ Depth \in Nat \ {0} /\ Stack[Depth] = Do("destroy", n)
      /\ IsLive(n) /\ nodes[n].refcount = 0 /\ blocks' = blocks
      /\ nodes' \in [NodeIds -> Node]
      /\ nodes[n].data # NULL => nodes[n].data \in BlockIds /\ BlockIsLive(nodes[n].data)
  BY <1>1, DestroyDataFacts
<1>3. \A m \in NodeIds :
         /\ nodes'[m].type = nodes[m].type /\ nodes'[m].data = nodes[m].data
         /\ nodes'[m].place = nodes[m].place
         /\ nodes'[m].refcount = IF m = n THEN -1 ELSE nodes[m].refcount
  BY <1>1, DestroyDataFacts
<1>4. Depth \in 1 .. Depth /\ Awaits(n)
  <2>1. Depth \in 1 .. Depth
    BY <1>2
  <2> QED BY <2>1, <1>2 DEF Awaits
<1>5. /\ ~Spent(n) /\ Spent(n)'
      /\ \A m \in NodeIds : m # n => (Spent(m)' <=> Spent(m))
      /\ \A m \in NodeIds : IsLive(m)' <=> IsLive(m)
  BY <1>2, <1>3 DEF Spent, IsLive
<1>6. \A b \in BlockIds : Kept(b)' <=> Kept(b) /\ b # nodes[n].data
  <2> SUFFICES ASSUME NEW b \in BlockIds
               PROVE  Kept(b)' <=> Kept(b) /\ b # nodes[n].data
    OBVIOUS
  <2>1. b # NULL
    BY NullAssumption
  <2>2. \A o \in NodeIds : nodes'[o].data = b /\ ~Spent(o)' <=> nodes[o].data = b /\ ~Spent(o) /\ o # n
    BY <1>3, <1>5
  <2>3. nodes[n].data = b => \A o \in NodeIds : nodes[o].data = b => o = n
    BY <2>1, <1>0 DEF Unshared
  <2> QED BY <2>2, <2>3 DEF Kept
<1>7. TypeOK'
  <2>1. todo' \in Seq(Entries)
    BY <1>1, Origin
  <2> QED BY <2>1, <1>0, <1>2 DEF TypeOK, Entries
<1>8. Shape'
  <2>1. NodeShape'
    <3> SUFFICES ASSUME NEW m \in NodeIds
                 PROVE  /\ ~IsLive(m)' => nodes'[m].data = NULL /\ nodes'[m].refcount = 0
                        /\ nodes'[m].data = NULL <=> nodes'[m].type = "scalar"
                        /\ nodes'[m].data # NULL => blocks'[nodes'[m].data].place # "new"
                        /\ nodes'[m].data # NULL /\ ~Spent(m)' => blocks'[nodes'[m].data].place = "heap"
                        /\ nodes'[m].type = "string" => blocks'[nodes'[m].data].cells = <<>>
      BY DEF NodeShape, BlockIsLive
    <3> QED BY <1>0, <1>2, <1>3, <1>5 DEF NodeShape, BlockIsLive
  <2>2. BlockShape'
    BY <1>0, <1>2, <1>3 DEF BlockShape, BlockIsLive
  <2>3. Unshared'
    BY <1>0, <1>3 DEF Unshared
  <2> QED BY <2>1, <2>2, <2>3 DEF Shape
<1>9. CellsHeld' /\ HeldOnce'
  <2>1. CellsHeld'
    BY <1>0, <1>2, <1>3 DEF CellsHeld, Values
  <2>2. HeldOnce'
    BY <1>0, <1>2, <1>3, Typed DEF HeldOnce
  <2> QED BY <2>1, <2>2
<1>10. \A m \in NodeIds : m # n /\ Awaits(m) => Awaits(m)'
  <2> SUFFICES ASSUME NEW m \in NodeIds, m # n, NEW p \in 1 .. Depth, Stack[p] = Do("destroy", m)
               PROVE  Awaits(m)'
    BY DEF Awaits
  <2>1. p # Depth
    BY <1>2, Doable
  <2>2. p \in 1 .. Depth - 1
    BY <2>1, <1>2
  <2>3. p \in 1 .. Depth' /\ Stack'[p] = Do("destroy", m)
    BY <2>2, <1>1, Origin
  <2> QED BY <2>3 DEF Awaits
<1>11. \A m \in NodeIds : Awaits(m)' => Awaits(m) \/ (nodes[n].type = "array" /\ m \in Values(nodes[n].data))
  <2> SUFFICES ASSUME NEW m \in NodeIds, NEW p \in 1 .. Depth', Stack'[p] = Do("destroy", m)
               PROVE  Awaits(m) \/ (nodes[n].type = "array" /\ m \in Values(nodes[n].data))
    BY DEF Awaits
  <2>1. \/ p \in 1 .. Depth - 1 /\ Stack[p] = Do("destroy", m)
        \/ /\ nodes[n].type = "array"
           /\ \E k \in 1 .. Followed(n) : p = Depth' + 1 - k /\ m = Cells(n)[k].value
    BY <1>1, OriginOf
  <2>2. \A k \in 1 .. Followed(n) : Cells(n)[k].value \in Values(nodes[n].data)
    BY <1>2, <1>4, Elems
  <2>3. p \in 1 .. Depth - 1 => p \in 1 .. Depth
    BY <1>2
  <2> QED BY <2>1, <2>2, <2>3 DEF Awaits
<1>12. nodes[n].type = "array" => \A v \in Values(nodes[n].data) : Awaits(v)'
  <2> SUFFICES ASSUME nodes[n].type = "array", NEW v \in Values(nodes[n].data)
               PROVE  Awaits(v)'
    OBVIOUS
  <2>1. PICK k \in DOMAIN Cells(n) : Cells(n)[k].value = v
    BY DEF Values, Cells
  <2>2. k \in 1 .. Followed(n)
    <3>1. nodes[n].data \in BlockIds
      BY <1>2, <1>4, Elems
    <3> QED BY <3>1, <1>0, Typed DEF Followed, Cells
  <2>3. Depth' + 1 - k \in 1 .. Depth' /\ Stack'[Depth' + 1 - k] = Do("destroy", v)
    BY <2>1, <2>2, <1>1, Origin DEF Kind
  <2> QED BY <2>3 DEF Awaits
<1>13. \A d \in BlockIds : Values(d)' = Values(d)
  BY <1>2 DEF Values
<1>14. ArrayElements'
  <2> SUFFICES ASSUME NEW a \in NodeIds, nodes'[a].type = "array", NEW v \in Values(nodes[a].data)'
               PROVE  /\ nodes'[v].place = "cell"
                      /\ ~Spent(a)' => nodes'[v].refcount = 0 /\ ~Awaits(v)'
                      /\ Spent(a)' => Spent(v)' \/ Awaits(v)'
    BY DEF ArrayElements
  <2>1. nodes[a].type = "array" /\ nodes[a].data \in BlockIds /\ nodes'[a].data = nodes[a].data
    BY <1>0, <1>3, Typed DEF NodeShape
  <2>2. v \in Values(nodes[a].data) /\ v \in NodeIds
    BY <2>1, <1>0, <1>13, Typed
  <2>3. /\ nodes[v].place = "cell"
        /\ ~Spent(a) => nodes[v].refcount = 0 /\ ~Awaits(v)
        /\ Spent(a) => Spent(v) \/ Awaits(v)
    BY <2>1, <2>2, <1>0 DEF ArrayElements
  <2>4. CASE a = n
    BY <2>1, <2>2, <2>3, <2>4, <1>3, <1>5, <1>12
  <2>5. CASE a # n /\ v = n
    BY <2>3, <2>5, <1>3, <1>4, <1>5
  <2>6. CASE a # n /\ v # n
    <3>1. v \notin Values(nodes[n].data) \/ nodes[n].type # "array"
      <4> SUFFICES ASSUME v \in Values(nodes[n].data), nodes[n].type = "array"
                   PROVE  FALSE
        OBVIOUS
      <4>1. nodes[n].data \in BlockIds
        BY <1>2, <1>4, Elems
      <4>2. nodes[n].data = nodes[a].data
        BY <4>1, <2>1, <2>2, <2>3, <1>0 DEF HeldOnce, Values
      <4> QED BY <4>1, <4>2, <2>6, <1>0, NullAssumption DEF Unshared
    <3>2. Awaits(v)' <=> Awaits(v)
      BY <3>1, <2>2, <2>6, <1>10, <1>11
    <3> QED BY <3>2, <2>2, <2>3, <2>6, <1>3, <1>5
  <2> QED BY <2>4, <2>5, <2>6
<1>15. HashElements'
  <2> SUFFICES ASSUME NEW h \in NodeIds, nodes'[h].type = "hash", NEW v \in Values(nodes[h].data)'
               PROVE  /\ nodes'[v].place \in {"heap", "gone"}
                      /\ ~Spent(h)' => nodes'[v].place = "heap" /\ ~Spent(v)'
    BY DEF HashElements
  <2>1. nodes[h].type = "hash" /\ nodes[h].data \in BlockIds /\ nodes'[h].data = nodes[h].data
    BY <1>0, <1>3, Typed DEF NodeShape
  <2>2. v \in Values(nodes[h].data) /\ v \in NodeIds
    BY <2>1, <1>0, <1>13, Typed
  <2>3. /\ nodes[v].place \in {"heap", "gone"}
        /\ ~Spent(h) => nodes[v].place = "heap" /\ ~Spent(v)
    BY <2>1, <2>2, <1>0 DEF HashElements
  <2>4. ~Spent(h)' => ~Spent(h) /\ v # n
    <3>1. ~Spent(h)' => ~Spent(h)
      BY <1>5
    <3>2. ~Spent(h) /\ v = n => FALSE
      BY <2>1, <2>2, <2>3, <1>2, Unheld
    <3> QED BY <3>1, <3>2
  <2> QED BY <2>2, <2>3, <2>4, <1>3, <1>5
<1> QED BY <1>7, <1>8, <1>9, <1>14, <1>15 DEF Elements

LEMMA DestroyDataSteps ==
    ASSUME IInv, DestroyData
    PROVE  Steps'
<1>0. /\ TypeOK /\ NodeShape /\ BlockShape /\ Unshared /\ Counts
      /\ CellsHeld /\ HeldOnce /\ ArrayElements /\ HashElements
      /\ Once /\ Destroys /\ Releasing /\ FreesNodes /\ FreesBlocks /\ SpentNodes
  BY DEF IInv, Shape, Elements, Steps
<1>1. PICK n \in NodeIds : n = Arg
  BY <1>0, Top DEF DestroyData, Doing
<1>2. /\ ~Idle /\ Depth \in Nat \ {0} /\ Stack[Depth] = Do("destroy", n)
      /\ IsLive(n) /\ nodes[n].refcount = 0 /\ blocks' = blocks
      /\ nodes' \in [NodeIds -> Node]
      /\ nodes[n].data # NULL => nodes[n].data \in BlockIds /\ BlockIsLive(nodes[n].data)
  BY <1>1, DestroyDataFacts
<1>3. \A m \in NodeIds :
         /\ nodes'[m].type = nodes[m].type /\ nodes'[m].data = nodes[m].data
         /\ nodes'[m].place = nodes[m].place
         /\ nodes'[m].refcount = IF m = n THEN -1 ELSE nodes[m].refcount
  BY <1>1, DestroyDataFacts
<1>4. Depth \in 1 .. Depth /\ Awaits(n)
  <2>1. Depth \in 1 .. Depth
    BY <1>2
  <2> QED BY <2>1, <1>2 DEF Awaits
<1>5. /\ ~Spent(n) /\ Spent(n)'
      /\ \A m \in NodeIds : m # n => (Spent(m)' <=> Spent(m))
      /\ \A m \in NodeIds : IsLive(m)' <=> IsLive(m)
  BY <1>2, <1>3 DEF Spent, IsLive
<1>6. \A b \in BlockIds : Kept(b)' <=> Kept(b) /\ b # nodes[n].data
  <2> SUFFICES ASSUME NEW b \in BlockIds
               PROVE  Kept(b)' <=> Kept(b) /\ b # nodes[n].data
    OBVIOUS
  <2>1. b # NULL
    BY NullAssumption
  <2>2. \A o \in NodeIds : nodes'[o].data = b /\ ~Spent(o)' <=> nodes[o].data = b /\ ~Spent(o) /\ o # n
    BY <1>3, <1>5
  <2>3. nodes[n].data = b => \A o \in NodeIds : nodes[o].data = b => o = n
    BY <2>1, <1>0 DEF Unshared
  <2> QED BY <2>2, <2>3 DEF Kept
<1>7. \A p \in 1 .. Depth - 1 : p \in 1 .. Depth /\ p \in 1 .. Depth' /\ Stack'[p] = Stack[p]
  BY <1>1, Origin
<1>8. \A d \in BlockIds : Values(d)' = Values(d)
  BY <1>2 DEF Values
<1>9. \A p \in 1 .. Depth : p # Depth => p \in 1 .. Depth - 1
  BY <1>2
<1>10. \A p \in 1 .. Depth - 1 : Stack[p] # Do("destroy", n) /\ Stack[p] # Do("release", n)
  <2> SUFFICES ASSUME NEW p \in 1 .. Depth - 1
               PROVE  Stack[p] # Do("destroy", n) /\ Stack[p] # Do("release", n)
    OBVIOUS
  <2>1. p \in 1 .. Depth /\ p # Depth
    BY <1>2
  <2>2. Stack[p] # Do("destroy", n)
    BY <2>1, <1>0, <1>2, <1>4, Doable DEF Once
  <2>3. ASSUME Stack[p] = Do("release", n) PROVE FALSE
    <3>1. nodes[n].place = "heap" /\ p \in Releases(n)
      BY <2>1, <2>3, <1>0 DEF Releasing, Releases
    <3> QED BY <3>1, <1>2, Unheld
  <2> QED BY <2>2, <2>3
<1>11. Destroys'
  <2> SUFFICES ASSUME NEW p \in 1 .. Depth', NEW m \in NodeIds, Stack'[p] = Do("destroy", m)
               PROVE  /\ IsLive(m)' /\ nodes'[m].refcount = 0
                      /\ nodes'[m].place = "cell" =>
                           \E q \in 1 .. p - 1, d \in BlockIds :
                               Stack'[q] = Do("free_block", d) /\ m \in Values(d)'
    BY DEF Destroys
  <2>1. CASE p \in 1 .. Depth - 1 /\ Stack[p] = Do("destroy", m)
    <3>1. m # n /\ p \in 1 .. Depth
      BY <2>1, <1>7, <1>10
    <3>2. IsLive(m)' /\ nodes'[m].refcount = 0
      BY <2>1, <3>1, <1>0, <1>3, <1>5 DEF Destroys
    <3>3. ASSUME nodes'[m].place = "cell"
          PROVE  \E q \in 1 .. p - 1, d \in BlockIds :
                    Stack'[q] = Do("free_block", d) /\ m \in Values(d)'
      <4>1. PICK q \in 1 .. p - 1, d \in BlockIds : Stack[q] = Do("free_block", d) /\ m \in Values(d)
        BY <2>1, <3>1, <3>3, <1>0, <1>3 DEF Destroys
      <4>2. q \in 1 .. Depth - 1
        BY <2>1, <1>2
      <4> QED BY <4>1, <4>2, <1>7, <1>8
    <3> QED BY <3>2, <3>3
  <2>2. CASE /\ nodes[n].type = "array"
             /\ \E k \in 1 .. Followed(n) : p = Depth' + 1 - k /\ m = Cells(n)[k].value
    <3>1. PICK k \in 1 .. Followed(n) : p = Depth' + 1 - k /\ m = Cells(n)[k].value
      BY <2>2
    <3>2. m \in Values(nodes[n].data) /\ nodes[n].data \in BlockIds
      BY <2>2, <3>1, <1>2, <1>4, Elems
    <3>3. m # n /\ nodes[m].place = "cell" /\ nodes[m].refcount = 0
      BY <2>2, <3>2, <1>2, <1>4, Elems
    <3>4. HasBlock(n) = 1 /\ HasStruct(n) \in {0, 1}
      BY <3>2, NullAssumption DEF HasBlock, HasStruct
    <3>5. /\ Depth + HasStruct(n) \in 1 .. Depth' /\ p >= Depth + HasStruct(n) + HasBlock(n)
          /\ Stack'[Depth + HasStruct(n)] = Do("free_block", nodes[n].data)
      BY <3>1, <3>4, <1>1, Origin
    <3>6. Depth + HasStruct(n) \in 1 .. p - 1
      BY <3>4, <3>5, <1>2
    <3>7. IsLive(m)' /\ nodes'[m].refcount = 0
      BY <3>3, <1>3 DEF IsLive
    <3> QED BY <3>2, <3>5, <3>6, <3>7, <1>8
  <2> QED BY <2>1, <2>2, <1>1, OriginOf
<1>12. Releasing'
  <2> SUFFICES ASSUME NEW p \in 1 .. Depth', NEW m \in NodeIds, Stack'[p] = Do("release", m)
               PROVE  nodes'[m].place = "heap" /\ ~Spent(m)'
    BY DEF Releasing
  <2>1. CASE p \in 1 .. Depth - 1 /\ Stack[p] = Do("release", m)
    BY <2>1, <1>0, <1>3, <1>5, <1>7, <1>10 DEF Releasing
  <2>2. CASE /\ nodes[n].type = "hash"
             /\ \E k \in 1 .. Followed(n) : p = Depth' + 1 - k /\ m = Cells(n)[k].value
    <3>1. m \in Values(nodes[n].data)
      BY <2>2, <1>2, <1>4, Elems
    <3>2. m # n /\ nodes[m].place = "heap" /\ ~Spent(m)
      BY <2>2, <3>1, <1>2, <1>4, Elems
    <3> QED BY <3>2, <1>3, <1>5
  <2> QED BY <2>1, <2>2, <1>1, OriginOf
<1>13. FreesNodes'
  <2> SUFFICES ASSUME NEW p \in 1 .. Depth', NEW m \in NodeIds, Stack'[p] = Do("free_node", m)
               PROVE  nodes'[m].place = "heap" /\ Spent(m)'
    BY DEF FreesNodes
  <2>1. CASE p \in 1 .. Depth - 1 /\ Stack[p] = Do("free_node", m)
    BY <2>1, <1>0, <1>3, <1>5, <1>7 DEF FreesNodes
  <2>2. CASE HasStruct(n) = 1 /\ p = Depth /\ m = n
    BY <2>2, <1>3, <1>5 DEF HasStruct
  <2> QED BY <2>1, <2>2, <1>1, OriginOf
<1>14. FreesBlocks'
  <2> SUFFICES ASSUME NEW p \in 1 .. Depth', NEW b \in BlockIds, Stack'[p] = Do("free_block", b)
               PROVE  blocks[b].place = "heap" /\ ~Kept(b)'
    BY <1>2 DEF FreesBlocks, BlockIsLive
  <2>1. CASE p \in 1 .. Depth - 1 /\ Stack[p] = Do("free_block", b)
    BY <2>1, <1>0, <1>6, <1>7 DEF FreesBlocks, BlockIsLive
  <2>2. CASE HasBlock(n) = 1 /\ p = Depth + HasStruct(n) /\ b = nodes[n].data
    BY <2>2, <1>2, <1>6, NullAssumption DEF BlockIsLive
  <2> QED BY <2>1, <2>2, <1>1, OriginOf
<1>15. SpentNodes'
  <2>1. ASSUME NEW m \in NodeIds, NEW p \in 1 .. Depth, DataFirst(m, p)
        PROVE  DataFirst(m, p)'
    <3> SUFFICES ASSUME nodes[m].data # NULL, BlockIsLive(nodes[m].data)
                 PROVE  \E q \in p + 1 .. Depth' : Stack'[q] = Do("free_block", nodes[m].data)
      BY <2>1, <1>2, <1>3 DEF DataFirst, BlockIsLive
    <3>1. PICK q \in p + 1 .. Depth : Stack[q] = Do("free_block", nodes[m].data)
      BY <2>1 DEF DataFirst
    <3>2. q # Depth
      BY <3>1, <1>2, Doable
    <3>3. q \in 1 .. Depth - 1
      BY <3>2, <1>2
    <3>4. q \in 1 .. Depth' /\ Stack'[q] = Stack[q]
      BY <3>3, <1>7
    <3>5. q \in p + 1 .. Depth'
      BY <3>4
    <3> QED BY <3>1, <3>4, <3>5
  <2>2. ASSUME NEW p \in 1 .. Depth', p < Depth + HasStruct(n)
        PROVE  DataFirst(n, p)'
    <3> SUFFICES ASSUME nodes[n].data # NULL
                 PROVE  \E q \in p + 1 .. Depth' : Stack'[q] = Do("free_block", nodes[n].data)
      BY <1>3 DEF DataFirst
    <3>1. HasBlock(n) = 1 /\ HasStruct(n) \in {0, 1}
      BY DEF HasBlock, HasStruct
    <3>2. /\ Depth + HasStruct(n) \in 1 .. Depth'
          /\ Stack'[Depth + HasStruct(n)] = Do("free_block", nodes[n].data)
      BY <3>1, <1>1, Origin
    <3>3. Depth + HasStruct(n) \in p + 1 .. Depth'
      BY <2>2, <3>1, <3>2, <1>2
    <3> QED BY <3>2, <3>3
  <2>3. ASSUME NEW m \in NodeIds, Spent(m)', nodes'[m].place = "heap"
        PROVE  \E p \in 1 .. Depth' : Stack'[p] = Do("free_node", m) /\ DataFirst(m, p)'
    <3>1. CASE m = n
      <4>1. HasStruct(n) = 1
        BY <2>3, <3>1, <1>3 DEF HasStruct
      <4>2. Depth \in 1 .. Depth' /\ Stack'[Depth] = Do("free_node", n)
        BY <4>1, <1>1, Origin
      <4>3. Depth < Depth + HasStruct(n)
        BY <4>1, <1>2
      <4> QED BY <3>1, <4>2, <4>3, <2>2
    <3>2. CASE m # n
      <4>1. PICK p \in 1 .. Depth : Stack[p] = Do("free_node", m) /\ DataFirst(m, p)
        BY <2>3, <3>2, <1>0, <1>3, <1>5 DEF SpentNodes
      <4>2. p # Depth
        BY <4>1, <1>2, Doable
      <4>3. p \in 1 .. Depth - 1
        BY <4>2, <1>9
      <4> QED BY <4>1, <4>3, <2>1, <1>7
    <3> QED BY <3>1, <3>2
  <2>4. ASSUME NEW m \in NodeIds, Spent(m)', nodes'[m].place = "cell"
        PROVE  \E p \in 1 .. Depth', d \in BlockIds :
                  Stack'[p] = Do("free_block", d) /\ m \in Values(d)' /\ DataFirst(m, p)'
    <3>1. CASE m = n
      <4>1. PICK q \in 1 .. Depth - 1, d \in BlockIds : Stack[q] = Do("free_block", d) /\ n \in Values(d)
        BY <2>4, <3>1, <1>0, <1>2, <1>3, <1>4 DEF Destroys
      <4>2. q \in 1 .. Depth' /\ Stack'[q] = Do("free_block", d)
        BY <4>1, <1>7
      <4>3. q < Depth + HasStruct(n)
        BY <1>2 DEF HasStruct
      <4> QED BY <3>1, <4>1, <4>2, <4>3, <2>2, <1>8
    <3>2. CASE m # n
      <4>1. PICK p \in 1 .. Depth, d \in BlockIds :
               Stack[p] = Do("free_block", d) /\ m \in Values(d) /\ DataFirst(m, p)
        BY <2>4, <3>2, <1>0, <1>3, <1>5 DEF SpentNodes
      <4>2. p # Depth
        BY <4>1, <1>2, Doable
      <4>3. p \in 1 .. Depth - 1
        BY <4>2, <1>9
      <4> QED BY <4>1, <4>3, <2>1, <1>7, <1>8
    <3> QED BY <3>1, <3>2
  <2> QED BY <2>3, <2>4 DEF SpentNodes
<1>16. Once'
  <2> SUFFICES ASSUME NEW p \in 1 .. Depth', NEW q \in 1 .. Depth',
                      Stack'[p] = Stack'[q], Stack'[p].do # "release"
               PROVE  p = q
    BY DEF Once
  <2>1. ASSUME NEW i \in 1 .. Depth - 1, NEW j \in 1 .. Depth', j \notin 1 .. Depth - 1,
               Stack'[i] = Stack'[j], Stack'[j].do # "release"
        PROVE  FALSE
    <3>1. i \in 1 .. Depth /\ Stack[i] = Stack'[j]
      BY <2>1, <1>7
    <3>2. CASE HasStruct(n) = 1 /\ j = Depth
      <4>1. Stack[i] = Do("free_node", n)
        BY <3>1, <3>2, <1>1, Origin
      <4> QED BY <4>1, <3>1, <1>0, <1>5 DEF FreesNodes
    <3>3. CASE HasBlock(n) = 1 /\ j = Depth + HasStruct(n)
      <4>1. Stack[i] = Do("free_block", nodes[n].data) /\ nodes[n].data # NULL
        BY <3>1, <3>3, <1>1, Origin DEF HasBlock
      <4> QED BY <4>1, <3>1, <1>0, <1>2, <1>5 DEF FreesBlocks, Kept
    <3>4. CASE \E k \in 1 .. Followed(n) : j = Depth' + 1 - k
      <4>1. PICK k \in 1 .. Followed(n) : j = Depth' + 1 - k
        BY <3>4
      <4>2. Stack[i] = Do(Kind(n), Cells(n)[k].value)
        BY <3>1, <4>1, <1>1, Origin
      <4>3. nodes[n].type = "array" /\ Kind(n) = "destroy"
        BY <2>1, <3>1, <4>2, <1>2, <1>4, Elems, Doable DEF Kind
      <4>4. Cells(n)[k].value \in Values(nodes[n].data)
        BY <1>2, <1>4, Elems
      <4>5. ~Awaits(Cells(n)[k].value)
        BY <4>3, <4>4, <1>2, <1>4, Elems
      <4> QED BY <3>1, <4>2, <4>3, <4>5 DEF Awaits
    <3> QED BY <2>1, <3>2, <3>3, <3>4, <1>1, Origin
  <2>2. ASSUME p \in 1 .. Depth - 1, q \in 1 .. Depth - 1
        PROVE  p = q
    BY <2>2, <1>0, <1>7 DEF Once
  <2>3. ASSUME p \notin 1 .. Depth - 1, q \notin 1 .. Depth - 1
        PROVE  p = q
    <3>1. /\ \/ HasStruct(n) = 1 /\ p = Depth
             \/ HasBlock(n) = 1 /\ p = Depth + HasStruct(n)
             \/ \E k \in 1 .. Followed(n) : p = Depth' + 1 - k
          /\ \/ HasStruct(n) = 1 /\ q = Depth
             \/ HasBlock(n) = 1 /\ q = Depth + HasStruct(n)
             \/ \E k \in 1 .. Followed(n) : q = Depth' + 1 - k
      BY <2>3, <1>1, Origin
    <3>2. /\ HasStruct(n) = 1 => Stack'[Depth] = Do("free_node", n)
          /\ HasBlock(n) = 1 => Stack'[Depth + HasStruct(n)] = Do("free_block", nodes[n].data)
          /\ \A k \in 1 .. Followed(n) : Stack'[Depth' + 1 - k] = Do(Kind(n), Cells(n)[k].value)
      BY <1>1, Origin
    <3>3. Kind(n) \in {"release", "destroy"}
      BY DEF Kind
    <3>4. CASE Stack'[p].do = "free_node"
      BY <3>1, <3>2, <3>3, <3>4, Doable
    <3>5. CASE Stack'[p].do = "free_block"
      BY <3>1, <3>2, <3>3, <3>5, Doable
    <3>6. CASE Stack'[p].do \notin {"free_node", "free_block"}
      <4>1. PICK i \in 1 .. Followed(n) : p = Depth' + 1 - i
        BY <3>1, <3>2, <3>6, Doable
      <4>2. PICK j \in 1 .. Followed(n) : q = Depth' + 1 - j
        BY <3>1, <3>2, <3>6, Doable
      <4>3. Kind(n) = "destroy" /\ Cells(n)[i].value = Cells(n)[j].value
        BY <4>1, <4>2, <3>2, <3>3, Doable
      <4>4. nodes[n].type = "array"
        BY <4>3, <1>2, <1>4, Elems DEF Kind
      <4>5. /\ nodes[n].data \in BlockIds
            /\ i \in DOMAIN blocks[nodes[n].data].cells /\ j \in DOMAIN blocks[nodes[n].data].cells
            /\ Cells(n)[i].value = blocks[nodes[n].data].cells[i].value
            /\ Cells(n)[j].value = blocks[nodes[n].data].cells[j].value
        BY <4>4, <1>2, <1>4, Elems
      <4>6. nodes[blocks[nodes[n].data].cells[i].value].place = "cell"
        BY <4>4, <4>5, <1>2, <1>4, Elems
      <4>7. i = j
        <5>1. PICK b \in BlockIds : b = nodes[n].data
          BY <4>5
        <5>2. /\ i \in DOMAIN blocks[b].cells /\ j \in DOMAIN blocks[b].cells
              /\ blocks[b].cells[i].value = blocks[b].cells[j].value
              /\ nodes[blocks[b].cells[i].value].place = "cell"
          BY <5>1, <4>3, <4>5, <4>6
        <5> QED BY <5>2, <1>0 DEF HeldOnce
      <4> QED BY <4>1, <4>2, <4>7
    <3> QED BY <3>4, <3>5, <3>6
  <2> QED BY <2>1, <2>2, <2>3
<1> QED BY <1>11, <1>12, <1>13, <1>14, <1>15, <1>16 DEF Steps

LEMMA DestroyDataCounts ==
    ASSUME IInv, DestroyData
    PROVE  Counts'
<1>0. /\ TypeOK /\ NodeShape /\ BlockShape /\ Unshared /\ Counts
      /\ CellsHeld /\ HeldOnce /\ ArrayElements /\ HashElements
      /\ Once /\ Destroys /\ Releasing /\ FreesNodes /\ FreesBlocks /\ SpentNodes
  BY DEF IInv, Shape, Elements, Steps
<1>1. PICK n \in NodeIds : n = Arg
  BY <1>0, Top DEF DestroyData, Doing
<1>2. /\ ~Idle /\ Depth \in Nat \ {0} /\ Stack[Depth] = Do("destroy", n)
      /\ IsLive(n) /\ nodes[n].refcount = 0 /\ blocks' = blocks
      /\ nodes' \in [NodeIds -> Node]
      /\ nodes[n].data # NULL => nodes[n].data \in BlockIds /\ BlockIsLive(nodes[n].data)
  BY <1>1, DestroyDataFacts
<1>3. \A m \in NodeIds :
         /\ nodes'[m].type = nodes[m].type /\ nodes'[m].data = nodes[m].data
         /\ nodes'[m].place = nodes[m].place
         /\ nodes'[m].refcount = IF m = n THEN -1 ELSE nodes[m].refcount
  BY <1>1, DestroyDataFacts
<1>4. Depth \in 1 .. Depth /\ Awaits(n)
  <2>1. Depth \in 1 .. Depth
    BY <1>2
  <2> QED BY <2>1, <1>2 DEF Awaits
<1>5. /\ ~Spent(n) /\ Spent(n)'
      /\ \A m \in NodeIds : m # n => (Spent(m)' <=> Spent(m))
      /\ \A m \in NodeIds : IsLive(m)' <=> IsLive(m)
  BY <1>2, <1>3 DEF Spent, IsLive
<1>6. \A b \in BlockIds : Kept(b)' <=> Kept(b) /\ b # nodes[n].data
  <2> SUFFICES ASSUME NEW b \in BlockIds
               PROVE  Kept(b)' <=> Kept(b) /\ b # nodes[n].data
    OBVIOUS
  <2>1. b # NULL
    BY NullAssumption
  <2>2. \A o \in NodeIds : nodes'[o].data = b /\ ~Spent(o)' <=> nodes[o].data = b /\ ~Spent(o) /\ o # n
    BY <1>3, <1>5
  <2>3. nodes[n].data = b => \A o \in NodeIds : nodes[o].data = b => o = n
    BY <2>1, <1>0 DEF Unshared
  <2> QED BY <2>2, <2>3 DEF Kept
<1> SUFFICES ASSUME NEW m \in NodeIds, nodes'[m].place = "heap", ~Spent(m)'
             PROVE  nodes'[m].refcount = Cardinality(Held(m)') + Cardinality(Releases(m)')
  BY DEF Counts
<1>7. /\ m # n /\ nodes[m].place = "heap" /\ nodes'[m].refcount = nodes[m].refcount
      /\ nodes[m].refcount = Cardinality(Held(m)) + Cardinality(Releases(m))
  BY <1>0, <1>3, <1>5 DEF Counts
<1>8. PICK d : d = nodes[n].data
  OBVIOUS
<1>9. \A c \in BlockIds \X (1 .. MaxCells) : c[1] \in BlockIds /\ c[2] \in 1 .. MaxCells /\ c = <<c[1], c[2]>>
  OBVIOUS
<1>10. Held(m)' = {c \in Held(m) : c[1] # d}
  <2>1. \A c \in BlockIds \X (1 .. MaxCells) : Kept(c[1])' <=> Kept(c[1]) /\ c[1] # d
    BY <1>6, <1>8, <1>9
  <2> QED BY <2>1, <1>2 DEF Held
<1>11. CASE nodes[n].type # "hash"
  <2>1. \A c \in Held(m) : c[1] # d
    <3> SUFFICES ASSUME NEW c \in Held(m), c[1] = d
                 PROVE  FALSE
      OBVIOUS
    <3>1. d \in BlockIds /\ m \in Values(d)
      BY <1>9 DEF Held, Values
    <3>2. nodes[n].type = "array"
      BY <3>1, <1>0, <1>8, <1>11, NullAssumption, Typed DEF NodeShape, Types, Values
    <3> QED BY <3>1, <3>2, <1>0, <1>7, <1>8 DEF ArrayElements
  <2>2. Held(m)' = Held(m)
    BY <2>1, <1>10
  <2>3. Releases(m)' = Releases(m)
    <3>1. ASSUME NEW p \in 1 .. Depth, Stack[p] = Do("release", m)
          PROVE  p \in 1 .. Depth' /\ Stack'[p] = Do("release", m)
      <4>1. p # Depth
        BY <3>1, <1>2, Doable
      <4>2. p \in 1 .. Depth - 1
        BY <4>1, <1>2
      <4> QED BY <3>1, <4>2, <1>1, Origin
    <3>2. ASSUME NEW p \in 1 .. Depth', Stack'[p] = Do("release", m)
          PROVE  p \in 1 .. Depth /\ Stack[p] = Do("release", m)
      <4>1. p \in 1 .. Depth - 1 /\ Stack[p] = Do("release", m)
        BY <3>2, <1>1, <1>11, OriginOf
      <4> QED BY <4>1, <1>2
    <3> QED BY <3>1, <3>2 DEF Releases
  <2> QED BY <2>2, <2>3, <1>7
<1>12. CASE nodes[n].type = "hash"
  <2> DEFINE S == {k \in 1 .. Followed(n) : Cells(n)[k].value = m}
             X == {<<d, k>> : k \in S}
             e == Depth' + 1
             Y == {e - k : k \in S}
  <2>1. d \in BlockIds /\ Kept(d) /\ Followed(n) \in Nat
    BY <1>2, <1>4, <1>5, <1>8, <1>12, Elems DEF Kept
  <2>2. /\ IsFiniteSet(S) /\ S \in SUBSET Int
        /\ IsFiniteSet(1 .. Followed(n))
    <3>1. IsFiniteSet(1 .. Followed(n))
      BY <2>1, FS_Interval
    <3> QED BY <2>1, <3>1, FS_Subset
  <2>3. IsFiniteSet(X) /\ Cardinality(X) = Cardinality(S)
    BY <2>2, Paired
  <2>4. e \in Int
    BY <1>1, Origin
  <2>5. IsFiniteSet(Y) /\ Cardinality(Y) = Cardinality(S)
    <3> HIDE DEF e, S
    <3> QED BY <2>2, <2>4, Mirrored
  <2>6. Held(m) = Held(m)' \cup X /\ Held(m)' \cap X = {}
    <3>1. ASSUME NEW k \in S
          PROVE  <<d, k>> \in Held(m)
      <4>1. /\ k \in DOMAIN blocks[d].cells /\ k <= MaxCells /\ blocks[d].cells[k].value = m
            /\ k \in Nat \ {0}
        BY <1>2, <1>4, <1>8, <2>1, Elems
      <4>2. k \in 1 .. MaxCells
        BY <4>1, MemoryAssumption
      <4> QED BY <4>1, <4>2, <2>1 DEF Held
    <3>2. ASSUME NEW c \in Held(m), c[1] = d
          PROVE  c \in X
      <4>1. c = <<d, c[2]>> /\ c[2] \in DOMAIN blocks[d].cells /\ blocks[d].cells[c[2]].value = m
        BY <3>2, <1>9 DEF Held
      <4>2. c[2] \in S
        BY <4>1, <1>0, <1>8, <1>12, <2>1, Typed DEF Followed, Cells
      <4> QED BY <4>1, <4>2
    <3>3. \A c \in X : c[1] = d
      OBVIOUS
    <3> HIDE DEF S
    <3> QED BY <3>1, <3>2, <3>3, <1>10
  <2>7. Releases(m)' = Releases(m) \cup Y /\ Releases(m) \cap Y = {}
    <3>1. ASSUME NEW p \in 1 .. Depth, Stack[p] = Do("release", m)
          PROVE  p \in 1 .. Depth - 1 /\ p \in 1 .. Depth' /\ Stack'[p] = Do("release", m)
      <4>1. p # Depth
        BY <3>1, <1>2, Doable
      <4>2. p \in 1 .. Depth - 1
        BY <4>1, <1>2
      <4> QED BY <3>1, <4>2, <1>1, Origin
    <3>2. ASSUME NEW k \in S
          PROVE  e - k \in 1 .. Depth' /\ Stack'[e - k] = Do("release", m) /\ e - k \notin 1 .. Depth - 1
      <4>1. /\ Depth' + 1 - k \in 1 .. Depth' /\ Depth' + 1 - k >= Depth + HasStruct(n) + HasBlock(n)
            /\ Stack'[Depth' + 1 - k] = Do(Kind(n), Cells(n)[k].value)
        BY <1>1, Origin
      <4>2. Kind(n) = "release" /\ HasStruct(n) \in {0, 1} /\ HasBlock(n) \in {0, 1}
        BY <1>12 DEF Kind, HasStruct, HasBlock
      <4>3. e - k = Depth' + 1 - k /\ Cells(n)[k].value = m
        <5>1. k \in 1 .. Followed(n) /\ Cells(n)[k].value = m
          OBVIOUS
        <5>2. e - k = Depth' + 1 - k
          <6>1. Depth' \in Nat /\ k \in Nat
            BY <5>1, <2>1, <1>1, Origin
          <6> QED BY <6>1
        <5> QED BY <5>1, <5>2
      <4>4. Depth' + 1 - k \notin 1 .. Depth - 1
        <5>1. Depth \in Nat /\ Depth' \in Nat /\ k \in Nat
          BY <2>1, <1>1, <1>2, Origin
        <5> QED BY <5>1, <4>1, <4>2
      <4> HIDE DEF e, S
      <4> QED BY <4>1, <4>2, <4>3, <4>4
    <3>3. ASSUME NEW p \in 1 .. Depth', Stack'[p] = Do("release", m)
          PROVE  p \in Releases(m) \/ p \in Y
      <4>1. \/ p \in 1 .. Depth - 1 /\ Stack[p] = Do("release", m)
            \/ \E k \in 1 .. Followed(n) : p = Depth' + 1 - k /\ m = Cells(n)[k].value
        BY <3>3, <1>1, OriginOf
      <4>2. p \in 1 .. Depth - 1 => p \in 1 .. Depth
        BY <1>2
      <4>3. ASSUME NEW k \in 1 .. Followed(n), p = Depth' + 1 - k, m = Cells(n)[k].value
            PROVE  p \in Y
        <5>1. k \in S
          BY <4>3
        <5>2. p = e - k
          <6>1. Depth' \in Nat /\ k \in Nat
            BY <2>1, <1>1, Origin
          <6> QED BY <4>3, <6>1
        <5> HIDE DEF e, S
        <5> QED BY <5>1, <5>2
      <4> HIDE DEF Y
      <4> QED BY <4>1, <4>2, <4>3 DEF Releases
    <3>4. \A p \in Y : p \in Releases(m)' /\ p \notin Releases(m)
      <4> HIDE DEF e, S
      <4> QED BY <3>1, <3>2 DEF Releases
    <3>5. \A p \in Releases(m) : p \in Releases(m)'
      BY <3>1 DEF Releases
    <3>6. \A p \in Releases(m)' : p \in Releases(m) \/ p \in Y
      BY <3>3 DEF Releases
    <3> HIDE DEF Y
    <3> QED BY <3>4, <3>5, <3>6
  <2>8. /\ IsFiniteSet(Held(m)) /\ IsFiniteSet(Releases(m)) /\ IsFiniteSet(Held(m)')
        /\ Cardinality(Held(m)') \in Nat /\ Cardinality(Releases(m)) \in Nat /\ Cardinality(S) \in Nat
    <3>1. IsFiniteSet(Held(m)) /\ IsFiniteSet(Releases(m)) /\ Cardinality(Releases(m)) \in Nat
      BY <1>0, Finite
    <3>2. IsFiniteSet(Held(m)')
      BY <3>1, <1>10, FS_Subset
    <3> QED BY <2>2, <3>1, <3>2, FS_CardinalityType
  <2> HIDE DEF X, Y, S
  <2>9. Cardinality(Held(m)) = Cardinality(Held(m)') + Cardinality(X)
    BY <2>3, <2>6, <2>8, Added
  <2>10. Cardinality(Releases(m)') = Cardinality(Releases(m)) + Cardinality(Y)
    BY <2>5, <2>7, <2>8, Added
  <2> QED BY <2>3, <2>5, <2>8, <2>9, <2>10, <1>7
<1> QED BY <1>11, <1>12

LEMMA DestroyDataStep ==
    ASSUME IInv, DestroyData
    PROVE  IInv'
BY DestroyDataShape, DestroyDataSteps, DestroyDataCounts DEF IInv
-----------------------------------------------------------------------------
(***************************************************************************)
(* Between calls nothing is being destroyed, and the counts are over all   *)
(* cells.                                                                  *)
(***************************************************************************)
CellsOf(n) == {c \in BlockIds \X (1 .. MaxCells) :
                  /\ c[2] \in DOMAIN blocks[c[1]].cells
                  /\ blocks[c[1]].cells[c[2]].value = n}

LEMMA AtRest ==
    ASSUME IInv, Idle
    PROVE  /\ \A n \in NodeIds : ~Spent(n) /\ nodes[n].refcount \in Nat
           /\ \A n \in NodeIds : nodes[n].place = "heap" => nodes[n].refcount = Cardinality(CellsOf(n))
           /\ \A n \in NodeIds : IsFiniteSet(CellsOf(n)) /\ Cardinality(CellsOf(n)) \in Nat
           /\ \A n \in NodeIds : nodes[n].data # NULL => BlockIsLive(nodes[n].data)
           /\ \A a \in NodeIds : nodes[a].type = "array" =>
                 \A v \in Values(nodes[a].data) :
                    v \in NodeIds /\ nodes[v].place = "cell" /\ nodes[v].refcount = 0
           /\ \A h \in NodeIds : nodes[h].type = "hash" =>
                 \A v \in Values(nodes[h].data) : v \in NodeIds /\ nodes[v].place = "heap"
           /\ \A b \in BlockIds : \A v \in Values(b) :
                 /\ IsLive(v)
                 /\ \E o \in NodeIds : nodes[o].data = b /\ nodes[o].type \in {"hash", "array"}
<1>0. /\ TypeOK /\ NodeShape /\ BlockShape /\ Unshared /\ Counts
      /\ CellsHeld /\ HeldOnce /\ ArrayElements /\ HashElements
      /\ Once /\ Destroys /\ Releasing /\ FreesNodes /\ FreesBlocks /\ SpentNodes
  BY DEF IInv, Shape, Elements, Steps
<1>1. Depth = 0
  BY <1>0, StackType
<1>2. \A n \in NodeIds : ~Spent(n) /\ nodes[n].refcount \in Nat
  <2>1. ASSUME NEW n \in NodeIds, Spent(n) PROVE FALSE
    <3>1. nodes[n].place \in {"heap", "cell"}
      BY <2>1, <1>0 DEF NodeShape, Spent, IsLive
    <3> QED BY <2>1, <3>1, <1>0, <1>1 DEF SpentNodes
  <2> QED BY <2>1, <1>0, Typed DEF Spent
<1>3. \A n \in NodeIds : nodes[n].data # NULL => BlockIsLive(nodes[n].data)
  BY <1>0, <1>2 DEF NodeShape
<1>4. \A a \in NodeIds : nodes[a].type = "array" =>
         \A v \in Values(nodes[a].data) :
            v \in NodeIds /\ nodes[v].place = "cell" /\ nodes[v].refcount = 0
  <2> SUFFICES ASSUME NEW a \in NodeIds, nodes[a].type = "array", NEW v \in Values(nodes[a].data)
               PROVE  v \in NodeIds /\ nodes[v].place = "cell" /\ nodes[v].refcount = 0
    OBVIOUS
  <2>1. nodes[a].data \in BlockIds
    BY <1>0, Typed DEF NodeShape
  <2> QED BY <2>1, <1>0, <1>2, Typed DEF ArrayElements
<1>5. \A h \in NodeIds : nodes[h].type = "hash" =>
         \A v \in Values(nodes[h].data) : v \in NodeIds /\ nodes[v].place = "heap"
  <2> SUFFICES ASSUME NEW h \in NodeIds, nodes[h].type = "hash", NEW v \in Values(nodes[h].data)
               PROVE  v \in NodeIds /\ nodes[v].place = "heap"
    OBVIOUS
  <2>1. nodes[h].data \in BlockIds
    BY <1>0, Typed DEF NodeShape
  <2> QED BY <2>1, <1>0, <1>2, Typed DEF HashElements
<1>6. ASSUME NEW b \in BlockIds, NEW v \in Values(b)
      PROVE  /\ IsLive(v)
             /\ \E o \in NodeIds : nodes[o].data = b /\ nodes[o].type \in {"hash", "array"}
  <2>1. PICK o \in NodeIds : nodes[o].data = b
    BY <1>0 DEF BlockShape, Values
  <2>2. nodes[o].type \in {"hash", "array"}
    BY <2>1, <1>0, NullAssumption, Typed DEF NodeShape, Types, Values
  <2> QED BY <2>1, <2>2, <1>4, <1>5 DEF IsLive
<1>7. \A b \in BlockIds : \A k \in DOMAIN blocks[b].cells : Kept(b)
  BY <1>0, <1>2 DEF BlockShape, Kept
<1>8. \A n \in NodeIds : CellsOf(n) = Held(n) /\ Releases(n) = {}
  <2>1. \A c \in BlockIds \X (1 .. MaxCells) : c[1] \in BlockIds
    OBVIOUS
  <2> QED BY <2>1, <1>1, <1>7 DEF CellsOf, Held, Releases
<1>9. \A n \in NodeIds : IsFiniteSet(CellsOf(n)) /\ Cardinality(CellsOf(n)) \in Nat
  BY <1>0, <1>8, Finite
<1>10. \A n \in NodeIds : nodes[n].place = "heap" => nodes[n].refcount = Cardinality(CellsOf(n))
  <2>1. Cardinality({}) = 0
    BY FS_EmptySet
  <2> QED BY <2>1, <1>0, <1>2, <1>8, <1>9 DEF Counts
<1> QED BY <1>2, <1>3, <1>4, <1>5, <1>6, <1>9, <1>10

LEMMA RestStep ==
    ASSUME TypeOK', Idle', Shape', CellsHeld', HeldOnce',
           \A n \in NodeIds : nodes'[n].refcount # -1,
           \A a \in NodeIds : nodes'[a].type = "array" =>
              \A v \in Values(nodes[a].data)' : nodes'[v].place = "cell" /\ nodes'[v].refcount = 0,
           \A h \in NodeIds : nodes'[h].type = "hash" =>
              \A v \in Values(nodes[h].data)' :
                 nodes'[v].place = "heap" /\ nodes'[v].refcount # -1,
           \A n \in NodeIds : nodes'[n].place = "heap" =>
              nodes'[n].refcount = Cardinality(CellsOf(n)') /\ nodes'[n].refcount \in Nat
    PROVE  IInv'
<1>1. Depth' = 0 /\ 1 .. Depth' = {}
  BY DEF Depth, Idle
<1>2. \A n \in NodeIds : ~Spent(n)'
  BY DEF Spent
<1>3. ArrayElements'
  BY <1>1, <1>2 DEF ArrayElements, Awaits
<1>4. HashElements'
  BY DEF HashElements, Spent
<1>5. Steps'
  BY <1>1, <1>2 DEF Steps, Once, Destroys, Releasing, FreesNodes, FreesBlocks, SpentNodes
<1>6. \A b \in BlockIds : \A k \in DOMAIN blocks'[b].cells : Kept(b)'
  BY <1>2 DEF Shape, BlockShape, Kept
<1>7. \A n \in NodeIds : CellsOf(n)' = Held(n)' /\ Releases(n)' = {}
  <2>1. \A c \in BlockIds \X (1 .. MaxCells) : c[1] \in BlockIds
    OBVIOUS
  <2> QED BY <2>1, <1>1, <1>6 DEF CellsOf, Held, Releases
<1>8. Counts'
  <2>1. Cardinality({}) = 0
    BY FS_EmptySet
  <2> QED BY <2>1, <1>7 DEF Counts
<1> QED BY <1>3, <1>4, <1>5, <1>8 DEF IInv, Elements
-----------------------------------------------------------------------------
LEMMA Start == Init => IInv
<1> SUFFICES ASSUME Init
             PROVE  IInv
  OBVIOUS
<1>1. /\ nodes \in [NodeIds -> Node] /\ blocks \in [BlockIds -> Block] /\ todo = <<>>
  BY HeightAssumption DEF Init, NoNode, NoBlock, Node, Block, Types, Places
<1>2. /\ \A n \in NodeIds : /\ nodes[n].type = "scalar" /\ nodes[n].refcount = 0
                            /\ nodes[n].data = NULL /\ nodes[n].place = "new"
      /\ \A b \in BlockIds : blocks[b].cells = <<>> /\ blocks[b].place = "new" /\ Values(b) = {}
  BY DEF Init, NoNode, NoBlock, Values
<1>3. TypeOK
  <2>1. todo \in Seq(Entries)
    BY <1>1
  <2> QED BY <1>1, <2>1 DEF TypeOK, Entries
<1>4. Depth = 0 /\ 1 .. Depth = {}
  BY <1>1 DEF Depth
<1>5. Shape
  BY <1>2, MemoryAssumption DEF Shape, NodeShape, BlockShape, Unshared, IsLive, BlockIsLive
<1>6. Elements
  BY <1>2 DEF Elements, CellsHeld, HeldOnce, ArrayElements, HashElements
<1>7. Steps
  BY <1>2, <1>4 DEF Steps, Once, Destroys, Releasing, FreesNodes, FreesBlocks, SpentNodes
<1>8. Counts
  BY <1>2 DEF Counts
<1> QED BY <1>3, <1>5, <1>6, <1>7, <1>8 DEF IInv

LEMMA DestroyCall ==
    ASSUME IInv, NEW n \in NodeIds, ctache_data_destroy(n)
    PROVE  IInv'
<1>0. /\ TypeOK /\ NodeShape /\ BlockShape /\ Unshared /\ Counts
      /\ CellsHeld /\ HeldOnce /\ ArrayElements /\ HashElements
      /\ Once /\ Destroys /\ Releasing /\ FreesNodes /\ FreesBlocks /\ SpentNodes
  BY DEF IInv, Shape, Elements, Steps
<1>1. /\ Idle /\ nodes[n].place = "heap" /\ Holders(n) = {}
      /\ todo' = <<Do("destroy", n)>> /\ nodes' = nodes /\ blocks' = blocks
  BY DEF ctache_data_destroy, Owned
<1>2. nodes[n].refcount = 0
  <2>1. CellsOf(n) = {}
    <3>1. \A c \in BlockIds \X (1 .. MaxCells) : c[1] \in BlockIds
      OBVIOUS
    <3> QED BY <3>1, <1>1 DEF CellsOf, Holders, Values
  <2>2. Cardinality({}) = 0
    BY FS_EmptySet
  <2> QED BY <2>1, <2>2, <1>1, AtRest
<1>3. /\ Depth' = 1 /\ todo' \in Seq(Entries)
      /\ \A p \in 1 .. Depth' : p = 1 /\ Stack'[p] = Do("destroy", n)
  <2>1. Do("destroy", n) \in Entries
    BY DEF Do, Entries
  <2>2. Depth' = 1 /\ todo' \in Seq(Entries) /\ todo'[1] = Do("destroy", n)
    BY <2>1, <1>1 DEF Depth
  <2> QED BY <2>2 DEF Stack
<1>4. \A m \in NodeIds : ~Spent(m) /\ nodes[m].refcount \in Nat
  BY <1>1, AtRest
<1>5. /\ \A m \in NodeIds : (Spent(m)' <=> Spent(m)) /\ (IsLive(m)' <=> IsLive(m))
      /\ \A b \in BlockIds : (Kept(b)' <=> Kept(b)) /\ Values(b)' = Values(b)
  BY <1>1 DEF Spent, IsLive, Kept, Values
<1>6. TypeOK'
  BY <1>0, <1>1, <1>3 DEF TypeOK, Entries
<1>7. Shape'
  BY <1>0, <1>1 DEF Shape, NodeShape, BlockShape, Unshared, IsLive, BlockIsLive, Spent
<1>8. CellsHeld' /\ HeldOnce'
  BY <1>0, <1>1, <1>5 DEF CellsHeld, HeldOnce
<1>9. \A m \in NodeIds : Awaits(m)' => m = n
  BY <1>3, Doable DEF Awaits
<1>10. ArrayElements'
  <2> SUFFICES ASSUME NEW a \in NodeIds, nodes[a].type = "array", NEW v \in Values(nodes[a].data)'
               PROVE  /\ nodes[v].place = "cell"
                      /\ nodes[v].refcount = 0 /\ ~Awaits(v)'
    BY <1>1, <1>4, <1>5 DEF ArrayElements
  <2>1. v \in Values(nodes[a].data)
    BY <1>1 DEF Values
  <2>2. v \in NodeIds /\ nodes[v].place = "cell" /\ nodes[v].refcount = 0
    BY <2>1, <1>1, AtRest
  <2> QED BY <2>2, <1>1, <1>9
<1>11. HashElements'
  <2> SUFFICES ASSUME NEW h \in NodeIds, nodes[h].type = "hash", NEW v \in Values(nodes[h].data)'
               PROVE  nodes[v].place = "heap" /\ nodes[v].refcount # -1
    BY <1>1 DEF HashElements, Spent
  <2>1. v \in Values(nodes[h].data)
    BY <1>1 DEF Values
  <2> QED BY <2>1, <1>1, <1>4, AtRest DEF Spent
<1>12. Steps'
  <2>1. Once'
    BY <1>3 DEF Once
  <2>2. Destroys'
    <3>1. IsLive(n)'
      BY <1>1 DEF IsLive
    <3> QED BY <3>1, <1>1, <1>2, <1>3, Doable DEF Destroys
  <2>3. Releasing' /\ FreesNodes' /\ FreesBlocks'
    BY <1>3, Doable DEF Releasing, FreesNodes, FreesBlocks
  <2>4. SpentNodes'
    BY <1>4, <1>5 DEF SpentNodes
  <2> QED BY <2>1, <2>2, <2>3, <2>4 DEF Steps
<1>13. Counts'
  <2> SUFFICES ASSUME NEW m \in NodeIds, nodes[m].place = "heap"
               PROVE  nodes[m].refcount = Cardinality(Held(m)') + Cardinality(Releases(m)')
    BY <1>1 DEF Counts
  <2>1. Held(m)' = Held(m)
    <3>1. \A c \in BlockIds \X (1 .. MaxCells) : c[1] \in BlockIds
      OBVIOUS
    <3> QED BY <3>1, <1>1, <1>5 DEF Held
  <2>2. Releases(m)' = {}
    BY <1>3, Doable DEF Releases
  <2>3. Releases(m) = {}
    <3>1. Depth = 0
      BY <1>0, <1>1, StackType
    <3> QED BY <3>1 DEF Releases
  <2> QED BY <2>1, <2>2, <2>3, <1>0, <1>4 DEF Counts
<1> QED BY <1>6, <1>7, <1>8, <1>10, <1>11, <1>12, <1>13 DEF IInv, Elements

LEMMA CreateCall ==
    ASSUME IInv, NEW type \in Types, NEW height \in 0 .. MaxHeight,
           ctache_data_create(type, height)
    PROVE  IInv'
<1>0. /\ TypeOK /\ NodeShape /\ BlockShape /\ Unshared /\ Counts
      /\ CellsHeld /\ HeldOnce /\ ArrayElements /\ HashElements
      /\ Once /\ Destroys /\ Releasing /\ FreesNodes /\ FreesBlocks /\ SpentNodes
  BY DEF IInv, Shape, Elements, Steps
<1>1. PICK n \in NodeIds, b \in BlockIds \cup {NULL} :
         /\ Idle /\ todo' = todo /\ nodes[n].place = "new"
         /\ b # NULL => blocks[b].place = "new"
         /\ type = "scalar" <=> b = NULL
         /\ nodes' = [nodes EXCEPT ![n] = NewNode(type, height, b)]
         /\ blocks' = [x \in BlockIds |-> IF x = b THEN EmptyBlock ELSE blocks[x]]
  <2> DEFINE n == CHOOSE n \in NewNodes : TRUE
             new == CHOOSE b \in NewBlocks : TRUE
             b == IF type = "scalar" THEN NULL ELSE new
  <2>1. n \in NodeIds /\ nodes[n].place = "new"
    BY DEF ctache_data_create, NewNodes
  <2>2. new \in BlockIds /\ blocks[new].place = "new"
    BY DEF ctache_data_create, NewBlocks
  <2>3. /\ nodes' = [nodes EXCEPT ![n] = NewNode(type, height, b)]
        /\ blocks' = [x \in BlockIds |-> IF x = b THEN EmptyBlock ELSE blocks[x]]
        /\ Idle /\ todo' = todo
    BY DEF ctache_data_create
  <2>4. b \in BlockIds \cup {NULL} /\ (b # NULL => blocks[b].place = "new")
        /\ (type = "scalar" <=> b = NULL)
    BY <2>2, NullAssumption
  <2> HIDE DEF n, b
  <2> QED BY <2>1, <2>3, <2>4
<1>2. /\ nodes'[n] = NewNode(type, height, b)
      /\ \A m \in NodeIds : m # n => nodes'[m] = nodes[m]
      /\ \A x \in BlockIds : x = b => blocks'[x] = EmptyBlock
      /\ \A x \in BlockIds : x # b => blocks'[x] = blocks[x]
  BY <1>0, <1>1 DEF TypeOK
<1>3. /\ nodes'[n].type = type /\ nodes'[n].refcount = 0 /\ nodes'[n].data = b
      /\ nodes'[n].place = "heap"
      /\ \A x \in BlockIds : x = b =>
            blocks'[x].cells = <<>> /\ blocks'[x].place = "heap" /\ Values(x)' = {}
      /\ \A x \in BlockIds : x # b => Values(x)' = Values(x)
  BY <1>2 DEF NewNode, EmptyBlock, Values
<1>4. TypeOK'
  <2>1. NewNode(type, height, b) \in Node /\ EmptyBlock \in Block
    BY BufSizeAssumption DEF NewNode, Node, EmptyBlock, Block, Places
  <2>2. nodes' \in [NodeIds -> Node]
    BY <2>1, <1>0, <1>1 DEF TypeOK
  <2>3. blocks' \in [BlockIds -> Block]
    BY <2>1, <1>0, <1>1 DEF TypeOK
  <2> QED BY <2>2, <2>3, <1>0, <1>1 DEF TypeOK
<1>5. \A m \in NodeIds : nodes[m].data # NULL => nodes[m].data \in BlockIds /\ nodes[m].data # b
  BY <1>0, <1>1, Typed DEF NodeShape
<1>6. \A x \in BlockIds : x = b => blocks[x].cells = <<>> /\ Values(x) = {}
  BY <1>0, <1>1, NullAssumption DEF BlockShape, BlockIsLive, Values
<1>7. Shape'
  <2>1. NodeShape'
    <3> SUFFICES ASSUME NEW m \in NodeIds
                 PROVE  /\ ~IsLive(m)' => nodes'[m].data = NULL /\ nodes'[m].refcount = 0
                        /\ nodes'[m].data = NULL <=> nodes'[m].type = "scalar"
                        /\ nodes'[m].data # NULL => blocks'[nodes'[m].data].place # "new"
                        /\ nodes'[m].data # NULL /\ ~Spent(m)' => blocks'[nodes'[m].data].place = "heap"
                        /\ nodes'[m].type = "string" => blocks'[nodes'[m].data].cells = <<>>
      BY DEF NodeShape, BlockIsLive
    <3>1. CASE m = n
      BY <3>1, <1>1, <1>3 DEF IsLive
    <3>2. CASE m # n
      BY <3>2, <1>0, <1>2, <1>5 DEF NodeShape, BlockIsLive, Spent, IsLive
    <3> QED BY <3>1, <3>2
  <2>2. BlockShape'
    <3> SUFFICES ASSUME NEW x \in BlockIds
                 PROVE  /\ Len(blocks'[x].cells) <= MaxCells
                        /\ blocks'[x].place # "heap" => blocks'[x].cells = <<>>
                        /\ blocks'[x].place = "heap" => \E m \in NodeIds : nodes'[m].data = x
      BY DEF BlockShape, BlockIsLive
    <3>1. CASE x = b
      BY <3>1, <1>3, MemoryAssumption
    <3>2. CASE x # b
      <4>1. nodes[n].data = NULL /\ x # NULL
        BY <1>0, <1>1, NullAssumption DEF NodeShape, IsLive
      <4> QED BY <3>2, <4>1, <1>0, <1>2 DEF BlockShape, BlockIsLive
    <3> QED BY <3>1, <3>2
  <2>3. Unshared'
    BY <1>0, <1>2, <1>3, <1>5 DEF Unshared
  <2> QED BY <2>1, <2>2, <2>3 DEF Shape
<1>8. \A x \in BlockIds : n \notin Values(x)
  BY <1>1, AtRest DEF IsLive
<1>9. \A x \in BlockIds : Values(x)' = Values(x) /\ blocks'[x].cells = blocks[x].cells
  BY <1>2, <1>3, <1>6
<1>10. CellsHeld'
  BY <1>0, <1>2, <1>3, <1>9 DEF CellsHeld
<1>11. HeldOnce'
  <2>1. \A x \in BlockIds : \A k \in DOMAIN blocks[x].cells :
           blocks[x].cells[k].value \in NodeIds /\ blocks[x].cells[k].value # n
    BY <1>0, <1>8, Typed DEF Values
  <2> QED BY <2>1, <1>0, <1>2, <1>9 DEF HeldOnce
<1>12. ASSUME NEW a \in NodeIds, nodes'[a].type = "array", NEW v \in Values(nodes[a].data)'
       PROVE  nodes'[v].place = "cell" /\ nodes'[v].refcount = 0
  <2>1. nodes'[a].data \in BlockIds
    BY <1>4, <1>7, <1>12 DEF Shape, NodeShape, TypeOK, Node
  <2>2. v \in Values(nodes'[a].data)
    BY <2>1, <1>9 DEF Values
  <2>3. a # n /\ nodes'[a] = nodes[a]
    BY <2>1, <2>2, <1>2, <1>3, <1>6
  <2>4. v \in NodeIds /\ v # n /\ nodes[v].place = "cell" /\ nodes[v].refcount = 0
    BY <2>1, <2>2, <2>3, <1>1, <1>8, <1>12, AtRest
  <2> QED BY <2>4, <1>2
<1>13. ASSUME NEW h \in NodeIds, nodes'[h].type = "hash", NEW v \in Values(nodes[h].data)'
       PROVE  nodes'[v].place = "heap" /\ nodes'[v].refcount # -1
  <2>1. nodes'[h].data \in BlockIds
    BY <1>4, <1>7, <1>13 DEF Shape, NodeShape, TypeOK, Node
  <2>2. v \in Values(nodes'[h].data)
    BY <2>1, <1>9 DEF Values
  <2>3. h # n /\ nodes'[h] = nodes[h]
    BY <2>1, <2>2, <1>2, <1>3, <1>6
  <2>4. v \in NodeIds /\ v # n /\ nodes[v].place = "heap" /\ nodes[v].refcount \in Nat
    BY <2>1, <2>2, <2>3, <1>1, <1>8, <1>13, AtRest
  <2> QED BY <2>4, <1>2
<1>14. ASSUME NEW m \in NodeIds, nodes'[m].place = "heap"
       PROVE  nodes'[m].refcount = Cardinality(CellsOf(m)') /\ nodes'[m].refcount \in Nat
  <2>1. CellsOf(m)' = CellsOf(m)
    <3>1. \A c \in BlockIds \X (1 .. MaxCells) : c[1] \in BlockIds
      OBVIOUS
    <3> QED BY <3>1, <1>9 DEF CellsOf
  <2>2. CASE m = n
    <3>1. \A c \in BlockIds \X (1 .. MaxCells) : c[1] \in BlockIds
      OBVIOUS
    <3>2. CellsOf(m) = {}
      BY <2>2, <3>1, <1>8 DEF CellsOf, Values
    <3>3. Cardinality({}) = 0
      BY FS_EmptySet
    <3> QED BY <2>1, <2>2, <3>2, <3>3, <1>3
  <2>3. CASE m # n
    BY <2>1, <2>3, <1>1, <1>2, <1>14, AtRest
  <2> QED BY <2>2, <2>3
<1>15. \A m \in NodeIds : nodes'[m].refcount # -1
  BY <1>1, <1>2, <1>3, AtRest
<1>16. Idle'
  BY <1>1 DEF Idle
<1> QED BY <1>4, <1>7, <1>10, <1>11, <1>12, <1>13, <1>14, <1>15, <1>16, RestStep

LEMMA WithOneMore ==
    ASSUME NEW cells \in Seq(Cell), NEW key \in Keys \cup {NULL}, NEW value \in NodeIds
    PROVE  /\ WithCell(cells, key, value) \in Seq(Cell) /\ Len(cells) \in Nat
           /\ Len(WithCell(cells, key, value)) = Len(cells) + 1
           /\ DOMAIN WithCell(cells, key, value) = DOMAIN cells \cup {Len(cells) + 1}
           /\ Len(cells) + 1 \notin DOMAIN cells
           /\ \A k \in DOMAIN cells : WithCell(cells, key, value)[k] = cells[k]
           /\ WithCell(cells, key, value)[Len(cells) + 1].value = value
<1> DEFINE c == [key |-> key, value |-> value]
<1>1. c \in Cell /\ c.value = value
  BY DEF Cell
<1> HIDE DEF c
<1>2. /\ Append(cells, c) \in Seq(Cell) /\ Len(cells) \in Nat
      /\ Len(Append(cells, c)) = Len(cells) + 1
      /\ \A k \in 1 .. Len(cells) : Append(cells, c)[k] = cells[k]
      /\ Append(cells, c)[Len(cells) + 1] = c
  BY <1>1, AppendProperties
<1>3. DOMAIN cells = 1 .. Len(cells) /\ DOMAIN Append(cells, c) = 1 .. Len(cells) + 1
  BY <1>2
<1>4. WithCell(cells, key, value) = Append(cells, c)
  BY DEF WithCell, c
<1>5. 1 .. Len(cells) + 1 = (1 .. Len(cells)) \cup {Len(cells) + 1} /\ Len(cells) + 1 \notin 1 .. Len(cells)
  BY <1>2
<1> QED BY <1>1, <1>2, <1>3, <1>4, <1>5

LEMMA SetCall ==
    ASSUME IInv, NEW h \in NodeIds, NEW value \in NodeIds, NEW key \in Keys,
           ctache_data_hash_table_set(h, key, value)
    PROVE  IInv'
<1>0. /\ TypeOK /\ NodeShape /\ BlockShape /\ Unshared /\ Counts
      /\ CellsHeld /\ HeldOnce /\ ArrayElements /\ HashElements
      /\ Once /\ Destroys /\ Releasing /\ FreesNodes /\ FreesBlocks /\ SpentNodes
  BY DEF IInv, Shape, Elements, Steps
<1>1. PICK d \in BlockIds :
         /\ d = nodes[h].data /\ Idle /\ todo' = todo /\ nodes[h].type = "hash"
         /\ BlockIsLive(d)
         /\ Len(blocks[d].cells) < MaxCells /\ nodes[value].place = "heap"
         /\ nodes' = [nodes EXCEPT ![value].refcount = @ + 1]
         /\ blocks' = [blocks EXCEPT ![d].cells = WithCell(@, key, value)]
  <2>1. nodes[h].type = "hash" /\ Idle /\ todo' = todo
    BY DEF ctache_data_hash_table_set, Is
  <2>2. nodes[h].data \in BlockIds
    BY <2>1, <1>0, Typed DEF NodeShape
  <2>3. BlockIsLive(nodes[h].data)
    BY <2>1, <2>2, NullAssumption, AtRest
  <2> QED BY <2>1, <2>2, <2>3 DEF ctache_data_hash_table_set, Counted, Cells
<1> DEFINE cells == blocks[d].cells
           more == WithCell(cells, key, value)
           len == Len(cells)
<1>2. /\ cells \in Seq(Cell) /\ more \in Seq(Cell) /\ len \in Nat /\ Len(more) = len + 1
      /\ DOMAIN more = DOMAIN cells \cup {len + 1} /\ len + 1 \notin DOMAIN cells
      /\ \A k \in DOMAIN cells : more[k] = cells[k] /\ cells[k].value \in NodeIds
      /\ more[len + 1].value = value
      /\ len + 1 \in 1 .. MaxCells
  <2>1. cells \in Seq(Cell) /\ \A k \in DOMAIN cells : cells[k].value \in NodeIds
    BY <1>0, Typed
  <2>2. Len(cells) \in Nat /\ Len(cells) < MaxCells
    BY <1>0, <1>1, Typed
  <2>3. Len(cells) + 1 \in 1 .. MaxCells
    BY <2>2, MemoryAssumption
  <2>5. key \in Keys \cup {NULL}
    OBVIOUS
  <2> HIDE DEF cells
  <2>4. /\ more \in Seq(Cell) /\ Len(cells) \in Nat /\ Len(more) = Len(cells) + 1
        /\ DOMAIN more = DOMAIN cells \cup {Len(cells) + 1} /\ Len(cells) + 1 \notin DOMAIN cells
        /\ \A k \in DOMAIN cells : more[k] = cells[k]
        /\ more[Len(cells) + 1].value = value
    BY <2>1, <2>5, WithOneMore
  <2> HIDE DEF more
  <2> QED BY <2>1, <2>3, <2>4
<1>3. /\ \A m \in NodeIds :
            /\ nodes'[m].type = nodes[m].type /\ nodes'[m].data = nodes[m].data
            /\ nodes'[m].place = nodes[m].place
            /\ nodes'[m].refcount = IF m = value THEN nodes[m].refcount + 1 ELSE nodes[m].refcount
      /\ blocks'[d].cells = more
      /\ \A x \in BlockIds : blocks'[x].place = blocks[x].place /\ (x # d => blocks'[x] = blocks[x])
  BY <1>0, <1>1, Typed DEF TypeOK, Node, Block
<1>4. TypeOK'
  <2>1. nodes[value].refcount + 1 \in Nat
    BY <1>0, <1>1, AtRest
  <2>2. nodes' \in [NodeIds -> Node]
    <3>1. [nodes[value] EXCEPT !.refcount = @ + 1] \in Node
      BY <2>1, <1>0, Typed DEF Node
    <3> QED BY <3>1, <1>0, <1>1 DEF TypeOK
  <2>3. blocks' \in [BlockIds -> Block]
    <3>1. [blocks[d] EXCEPT !.cells = more] \in Block
      BY <1>0, <1>2, Typed DEF Block
    <3> QED BY <3>1, <1>0, <1>1 DEF TypeOK
  <2> QED BY <2>2, <2>3, <1>0, <1>1 DEF TypeOK
<1> HIDE DEF more, cells, len
<1>5. /\ Values(d)' = Values(d) \cup {value}
      /\ \A x \in BlockIds : x # d => Values(x)' = Values(x)
  <2>1. Values(d) = {cells[k].value : k \in DOMAIN cells}
    BY DEF Values, cells
  <2>2. Values(d)' = {more[k].value : k \in DOMAIN more}
    BY <1>3 DEF Values
  <2>3. ASSUME NEW v
        PROVE  (\E k \in DOMAIN more : v = more[k].value) <=>
                  (\E k \in DOMAIN cells : v = cells[k].value) \/ v = value
    BY <1>2
  <2>4. Values(d)' = Values(d) \cup {value}
    BY <2>1, <2>2, <2>3
  <2>5. \A x \in BlockIds : x # d => Values(x)' = Values(x)
    BY <1>3 DEF Values
  <2> QED BY <2>4, <2>5
<1>6. \A m \in NodeIds : nodes[m].refcount \in Nat /\ nodes'[m].refcount # -1
  BY <1>1, <1>3, AtRest
<1>7. Shape'
  <2>1. NodeShape'
    <3> SUFFICES ASSUME NEW m \in NodeIds
                 PROVE  /\ ~IsLive(m)' => nodes'[m].data = NULL /\ nodes'[m].refcount = 0
                        /\ nodes'[m].data = NULL <=> nodes'[m].type = "scalar"
                        /\ nodes'[m].data # NULL => blocks'[nodes'[m].data].place # "new"
                        /\ nodes'[m].data # NULL /\ ~Spent(m)' => blocks'[nodes'[m].data].place = "heap"
                        /\ nodes'[m].type = "string" => blocks'[nodes'[m].data].cells = <<>>
      BY DEF NodeShape, BlockIsLive
    <3>1. nodes[m].data # NULL => nodes[m].data \in BlockIds /\ BlockIsLive(nodes[m].data)
      BY <1>0, <1>1, AtRest, Typed
    <3>2. nodes[m].data = d => m = h
      BY <1>0, <1>1, NullAssumption DEF Unshared
    <3> QED BY <3>1, <3>2, <1>0, <1>1, <1>3 DEF NodeShape, BlockIsLive, IsLive
  <2>2. BlockShape'
    <3> SUFFICES ASSUME NEW x \in BlockIds
                 PROVE  /\ Len(blocks'[x].cells) <= MaxCells
                        /\ blocks'[x].place # "heap" => blocks'[x].cells = <<>>
                        /\ blocks'[x].place = "heap" => \E m \in NodeIds : nodes'[m].data = x
      BY DEF BlockShape, BlockIsLive
    <3>1. CASE x = d
      <4>1. Len(more) <= MaxCells
        BY <1>2, MemoryAssumption
      <4> QED BY <3>1, <4>1, <1>1, <1>3 DEF BlockIsLive
    <3>2. CASE x # d
      BY <3>2, <1>0, <1>3 DEF BlockShape, BlockIsLive
    <3> QED BY <3>1, <3>2
  <2>3. Unshared'
    BY <1>0, <1>3 DEF Unshared
  <2> QED BY <2>1, <2>2, <2>3 DEF Shape
<1>8. CellsHeld'
  BY <1>0, <1>1, <1>3, <1>5 DEF CellsHeld
<1>9. HeldOnce'
  <2>1. \A x \in BlockIds : \A k \in DOMAIN blocks'[x].cells :
           \/ x = d /\ k = len + 1 /\ blocks'[x].cells[k].value = value
           \/ /\ k \in DOMAIN blocks[x].cells /\ blocks'[x].cells[k].value = blocks[x].cells[k].value
              /\ blocks[x].cells[k].value \in NodeIds
    <3> SUFFICES ASSUME NEW x \in BlockIds, NEW k \in DOMAIN blocks'[x].cells
                 PROVE  \/ x = d /\ k = len + 1 /\ blocks'[x].cells[k].value = value
                        \/ /\ k \in DOMAIN blocks[x].cells
                           /\ blocks'[x].cells[k].value = blocks[x].cells[k].value
                           /\ blocks[x].cells[k].value \in NodeIds
      OBVIOUS
    <3>1. CASE x = d
      <4>1. blocks'[x].cells = more /\ blocks[x].cells = cells /\ k \in DOMAIN more
        BY <3>1, <1>3 DEF cells
      <4>2. k \in DOMAIN cells \/ k = len + 1
        BY <4>1, <1>2
      <4> QED BY <3>1, <4>1, <4>2, <1>2
    <3>2. CASE x # d
      BY <3>2, <1>0, <1>3, Typed
    <3> QED BY <3>1, <3>2
  <2>2. nodes'[value].place # "cell"
    BY <1>1, <1>3
  <2> QED BY <2>1, <2>2, <1>0, <1>3 DEF HeldOnce
<1>10. ASSUME NEW a \in NodeIds, nodes'[a].type = "array", NEW v \in Values(nodes[a].data)'
       PROVE  nodes'[v].place = "cell" /\ nodes'[v].refcount = 0
  <2>1. nodes[a].type = "array" /\ nodes'[a].data = nodes[a].data /\ nodes[a].data \in BlockIds
    BY <1>0, <1>3, <1>10, Typed DEF NodeShape
  <2>2. nodes[a].data # d
    BY <2>1, <1>0, <1>1, NullAssumption DEF Unshared
  <2>3. v \in Values(nodes[a].data)
    BY <2>1, <2>2, <1>5
  <2>4. v \in NodeIds /\ nodes[v].place = "cell" /\ nodes[v].refcount = 0
    BY <2>1, <2>3, <1>1, AtRest
  <2> QED BY <2>4, <1>1, <1>3
<1>11. ASSUME NEW o \in NodeIds, nodes'[o].type = "hash", NEW v \in Values(nodes[o].data)'
       PROVE  nodes'[v].place = "heap" /\ nodes'[v].refcount # -1
  <2>1. nodes[o].type = "hash" /\ nodes'[o].data = nodes[o].data /\ nodes[o].data \in BlockIds
    BY <1>0, <1>3, <1>11, Typed DEF NodeShape
  <2>2. v \in Values(nodes[o].data) \/ v = value
    BY <2>1, <1>5
  <2>3. v \in NodeIds /\ nodes[v].place = "heap"
    BY <2>1, <2>2, <1>1, AtRest
  <2> QED BY <2>3, <1>3, <1>6
<1>12. ASSUME NEW m \in NodeIds, nodes'[m].place = "heap"
       PROVE  nodes'[m].refcount = Cardinality(CellsOf(m)') /\ nodes'[m].refcount \in Nat
  <2>1. \A c \in BlockIds \X (1 .. MaxCells) : c[1] \in BlockIds /\ c = <<c[1], c[2]>>
    OBVIOUS
  <2>2. nodes[m].refcount = Cardinality(CellsOf(m)) /\ nodes[m].refcount \in Nat /\ IsFiniteSet(CellsOf(m))
    BY <1>1, <1>3, <1>12, AtRest
  <2>3. CASE m = value
    <3>1. <<d, len + 1>> \notin CellsOf(m)
      BY <1>2 DEF CellsOf, cells
    <3>2. CellsOf(m)' = CellsOf(m) \cup {<<d, len + 1>>}
      <4>1. \A c \in BlockIds \X (1 .. MaxCells) :
               c[2] \in DOMAIN blocks'[c[1]].cells /\ blocks'[c[1]].cells[c[2]].value = m <=>
                 \/ c[2] \in DOMAIN blocks[c[1]].cells /\ blocks[c[1]].cells[c[2]].value = m
                 \/ c = <<d, len + 1>>
        BY <2>1, <2>3, <1>2, <1>3 DEF cells
      <4>2. <<d, len + 1>> \in BlockIds \X (1 .. MaxCells)
        BY <1>2
      <4> QED BY <4>1, <4>2 DEF CellsOf
    <3>3. Cardinality(CellsOf(m)') = Cardinality(CellsOf(m)) + 1
      BY <2>2, <3>1, <3>2, FS_AddElement
    <3> QED BY <2>2, <2>3, <3>3, <1>3
  <2>4. CASE m # value
    <3>1. CellsOf(m)' = CellsOf(m)
      <4>1. \A c \in BlockIds \X (1 .. MaxCells) :
               c[2] \in DOMAIN blocks'[c[1]].cells /\ blocks'[c[1]].cells[c[2]].value = m <=>
                 c[2] \in DOMAIN blocks[c[1]].cells /\ blocks[c[1]].cells[c[2]].value = m
        BY <2>1, <2>4, <1>2, <1>3 DEF cells
      <4> QED BY <4>1 DEF CellsOf
    <3> QED BY <2>2, <2>4, <3>1, <1>3
  <2> QED BY <2>3, <2>4
<1>13. Idle'
  BY <1>1 DEF Idle
<1> QED BY <1>4, <1>6, <1>7, <1>8, <1>9, <1>10, <1>11, <1>12, <1>13, RestStep

LEMMA GrownShape ==
    ASSUME NEW array \in Block, NEW value \in NodeIds
    PROVE  /\ Stored(array, value).cells = WithCell(array.cells, NULL, value)
           /\ Stored(array, value).place = array.place
           /\ Stored(array, value).bufsize \in Nat
           /\ Stored(array, value) =
                 [cells |-> Stored(array, value).cells, bufsize |-> Stored(array, value).bufsize,
                  place |-> Stored(array, value).place]
<1>1. array.bufsize \in Nat /\ array.bufsize * 2 \in Nat
  BY DEF Block
<1>2. /\ Grown(array) \in [cells : Seq(Cell), bufsize : Nat, place : Places \ {"cell"}]
      /\ Grown(array).cells = array.cells /\ Grown(array).place = array.place
  <2>1. CASE Full(array)
    <3>1. Grown(array) = [array EXCEPT !.bufsize = array.bufsize * 2]
      BY <2>1 DEF Grown
    <3> QED BY <3>1, <1>1 DEF Block
  <2>2. CASE ~Full(array)
    <3>1. Grown(array) = array
      BY <2>2 DEF Grown
    <3> QED BY <3>1 DEF Block
  <2> QED BY <2>1, <2>2
<1> DEFINE grown == Grown(array)
<1> HIDE DEF grown
<1>3. grown \in [cells : Seq(Cell), bufsize : Nat, place : Places \ {"cell"}]
      /\ grown.cells = array.cells /\ grown.place = array.place
      /\ Stored(array, value) = [grown EXCEPT !.cells = WithCell(grown.cells, NULL, value)]
  BY <1>2 DEF grown, Stored
<1> QED BY <1>3

LEMMA AppendCall ==
    ASSUME IInv, NEW a \in NodeIds, NEW value \in NodeIds, NEW b \in BlockIds,
           ctache_data_array_append(a, value, b)
    PROVE  IInv'
<1>0. /\ TypeOK /\ NodeShape /\ BlockShape /\ Unshared /\ Counts
      /\ CellsHeld /\ HeldOnce /\ ArrayElements /\ HashElements
      /\ Once /\ Destroys /\ Releasing /\ FreesNodes /\ FreesBlocks /\ SpentNodes
  BY DEF IInv, Shape, Elements, Steps
<1>1. PICK old \in BlockIds :
         /\ old = nodes[a].data /\ Idle /\ todo' = todo /\ nodes[a].type = "array"
         /\ IsLive(a) /\ BlockIsLive(old)
         /\ Len(blocks[old].cells) < MaxCells
         /\ nodes[value].place = "heap" /\ Holders(value) = {} /\ value # a
         /\ b = old \/ blocks[b].place = "new"
         /\ nodes' = [[nodes EXCEPT ![a].data = b] EXCEPT ![value].place = "cell"]
         /\ blocks' = [blocks EXCEPT ![old] = NoBlock("gone"), ![b] = Stored(blocks[old], value)]
  <2>1. nodes[a].type = "array" /\ IsLive(a) /\ Idle /\ todo' = todo
    BY DEF ctache_data_array_append, Is
  <2>2. nodes[a].data \in BlockIds
    BY <2>1, <1>0, Typed DEF NodeShape
  <2>3. BlockIsLive(nodes[a].data)
    BY <2>1, <2>2, NullAssumption, AtRest
  <2>4. value # a
    <3>1. nodes[value].height < nodes[a].height
      BY DEF ctache_data_array_append
    <3>2. nodes[a].height \in Int
      BY <1>0, HeightAssumption, Typed
    <3> QED BY <3>1, <3>2
  <2>5. nodes[value].place = "heap" /\ Holders(value) = {} /\ Len(Cells(a)) < MaxCells
    BY DEF ctache_data_array_append, Owned
  <2>6. b = nodes[a].data \/ blocks[b].place = "new"
    BY DEF ctache_data_array_append, NewBlocks
  <2>7. /\ nodes' = [[nodes EXCEPT ![a].data = b] EXCEPT ![value].place = "cell"]
        /\ blocks' = [blocks EXCEPT ![nodes[a].data] = NoBlock("gone"),
                                    ![b] = Stored(blocks[nodes[a].data], value)]
    BY DEF ctache_data_array_append, Redirected
  <2> QED BY <2>1, <2>2, <2>3, <2>4, <2>5, <2>6, <2>7 DEF Cells
<1> DEFINE cells == blocks[old].cells
           more == WithCell(cells, NULL, value)
           len == Len(cells)
<1>2. /\ cells \in Seq(Cell) /\ more \in Seq(Cell) /\ len \in Nat /\ Len(more) = len + 1
      /\ DOMAIN more = DOMAIN cells \cup {len + 1} /\ len + 1 \notin DOMAIN cells
      /\ \A k \in DOMAIN cells : more[k] = cells[k] /\ cells[k].value \in NodeIds
      /\ more[len + 1].value = value
      /\ len + 1 \in 1 .. MaxCells
  <2>1. cells \in Seq(Cell) /\ \A k \in DOMAIN cells : cells[k].value \in NodeIds
    BY <1>0, Typed
  <2>2. Len(cells) \in Nat /\ Len(cells) < MaxCells
    BY <1>0, <1>1, Typed
  <2>3. Len(cells) + 1 \in 1 .. MaxCells
    BY <2>2, MemoryAssumption
  <2>5. NULL \in Keys \cup {NULL}
    OBVIOUS
  <2> HIDE DEF cells
  <2>4. /\ more \in Seq(Cell) /\ Len(cells) \in Nat /\ Len(more) = Len(cells) + 1
        /\ DOMAIN more = DOMAIN cells \cup {Len(cells) + 1} /\ Len(cells) + 1 \notin DOMAIN cells
        /\ \A k \in DOMAIN cells : more[k] = cells[k]
        /\ more[Len(cells) + 1].value = value
    BY <2>1, <2>5, WithOneMore
  <2> HIDE DEF more
  <2> QED BY <2>1, <2>3, <2>4
<1> DEFINE stored == Stored(blocks[old], value)
<1>3. stored.cells = more /\ stored.place = "heap" /\ stored \in Block
  <2>1. blocks[old] \in Block
    BY <1>0, Typed
  <2>2. /\ stored.cells = more /\ stored.place = "heap" /\ stored.bufsize \in Nat
        /\ stored = [cells |-> stored.cells, bufsize |-> stored.bufsize, place |-> stored.place]
    BY <2>1, <1>1, GrownShape DEF BlockIsLive
  <2> HIDE DEF stored, more
  <2>3. "heap" \in Places \ {"cell"}
    BY DEF Places
  <2> QED BY <2>2, <2>3, <1>2 DEF Block
<1> HIDE DEF stored
<1>4. /\ \A m \in NodeIds :
            /\ nodes'[m].type = nodes[m].type /\ nodes'[m].refcount = nodes[m].refcount
            /\ nodes'[m].data = IF m = a THEN b ELSE nodes[m].data
            /\ nodes'[m].place = IF m = value THEN "cell" ELSE nodes[m].place
      /\ blocks'[b] = stored
      /\ \A x \in BlockIds : x = old /\ x # b => blocks'[x] = NoBlock("gone")
      /\ \A x \in BlockIds : x # old /\ x # b => blocks'[x] = blocks[x]
  <2>1. \A m \in NodeIds :
            /\ nodes'[m].type = nodes[m].type /\ nodes'[m].refcount = nodes[m].refcount
            /\ nodes'[m].data = IF m = a THEN b ELSE nodes[m].data
            /\ nodes'[m].place = IF m = value THEN "cell" ELSE nodes[m].place
    BY <1>0, <1>1, Typed DEF TypeOK, Node
  <2>2. blocks' = [blocks EXCEPT ![old] = NoBlock("gone"), ![b] = stored]
    BY <1>1 DEF stored
  <2>3. DOMAIN blocks = BlockIds
    BY <1>0 DEF TypeOK
  <2> QED BY <2>1, <2>2, <2>3
<1>5. TypeOK'
  <2>2. nodes' \in [NodeIds -> Node]
    <3>1. [nodes EXCEPT ![a].data = b] \in [NodeIds -> Node]
      BY <1>0 DEF TypeOK, Node
    <3> DEFINE redirected == [nodes EXCEPT ![a].data = b]
    <3>2. nodes' = [redirected EXCEPT ![value].place = "cell"]
      BY <1>1
    <3> HIDE DEF redirected
    <3>3. redirected[value] \in Node
      BY <3>1 DEF redirected
    <3>4. [redirected[value] EXCEPT !.place = "cell"] \in Node
      BY <3>3 DEF Node, Places
    <3> QED BY <3>1, <3>2, <3>4 DEF redirected
  <2>3. blocks' \in [BlockIds -> Block]
    <3>1. NoBlock("gone") \in Block
      BY DEF NoBlock, Block, Places
    <3> QED BY <3>1, <1>0, <1>1, <1>3 DEF TypeOK, stored
  <2> QED BY <2>2, <2>3, <1>0, <1>1 DEF TypeOK
<1> HIDE DEF more, cells, len
<1>6. /\ \A x \in BlockIds : value \notin Values(x)
      /\ b # old => blocks[b].cells = <<>> /\ Values(b) = {}
      /\ nodes[value].refcount = 0
  <2>1. \A x \in BlockIds : value \notin Values(x)
    BY <1>1 DEF Holders
  <2>2. b # old => blocks[b].cells = <<>> /\ Values(b) = {}
    BY <1>0, <1>1 DEF BlockShape, BlockIsLive, Values
  <2>3. CellsOf(value) = {}
    <3>1. \A c \in BlockIds \X (1 .. MaxCells) : c[1] \in BlockIds
      OBVIOUS
    <3> QED BY <3>1, <2>1 DEF CellsOf, Values
  <2>4. Cardinality({}) = 0
    BY FS_EmptySet
  <2>5. nodes[value].refcount = Cardinality(CellsOf(value))
    BY <1>1, AtRest
  <2> QED BY <2>1, <2>2, <2>3, <2>4, <2>5
<1>7. /\ Values(b)' = Values(old) \cup {value}
      /\ \A x \in BlockIds : x = old /\ x # b => Values(x)' = {}
      /\ \A x \in BlockIds : x # old /\ x # b => Values(x)' = Values(x)
  <2>1. Values(old) = {cells[k].value : k \in DOMAIN cells}
    BY DEF Values, cells
  <2>2. Values(b)' = {more[k].value : k \in DOMAIN more}
    BY <1>3, <1>4 DEF Values
  <2>3. ASSUME NEW v
        PROVE  (\E k \in DOMAIN more : v = more[k].value) <=>
                  (\E k \in DOMAIN cells : v = cells[k].value) \/ v = value
    BY <1>2
  <2>4. Values(b)' = Values(old) \cup {value}
    BY <2>1, <2>2, <2>3
  <2>5. \A x \in BlockIds : x # old /\ x # b => Values(x)' = Values(x)
    BY <1>4 DEF Values
  <2>6. \A x \in BlockIds : x = old /\ x # b => Values(x)' = {}
    BY <1>4 DEF Values, NoBlock
  <2> QED BY <2>4, <2>5, <2>6
<1>17. \A m \in NodeIds : nodes[m].refcount \in Nat /\ nodes'[m].refcount # -1
  <2>1. \A m \in NodeIds : nodes[m].refcount \in Nat
    BY <1>1, AtRest
  <2> QED BY <2>1, <1>4
<1>8. \A m \in NodeIds : /\ nodes[m].refcount \in Nat /\ nodes'[m].refcount # -1
                         /\ m # a /\ nodes[m].data # NULL =>
                               /\ nodes[m].data \in BlockIds /\ BlockIsLive(nodes[m].data)
                               /\ nodes[m].data # old /\ nodes[m].data # b
  <2> SUFFICES ASSUME NEW m \in NodeIds, m # a, nodes[m].data # NULL
               PROVE  /\ nodes[m].data \in BlockIds /\ BlockIsLive(nodes[m].data)
                      /\ nodes[m].data # old /\ nodes[m].data # b
    BY <1>17
  <2>1. nodes[m].data \in BlockIds /\ BlockIsLive(nodes[m].data)
    BY <1>0, <1>1, AtRest, Typed
  <2>2. nodes[m].data # old
    BY <1>0, <1>1 DEF Unshared
  <2> QED BY <2>1, <2>2, <1>1 DEF BlockIsLive
<1>9. Shape'
  <2>1. NodeShape'
    <3> SUFFICES ASSUME NEW m \in NodeIds
                 PROVE  /\ ~IsLive(m)' => nodes'[m].data = NULL /\ nodes'[m].refcount = 0
                        /\ nodes'[m].data = NULL <=> nodes'[m].type = "scalar"
                        /\ nodes'[m].data # NULL => blocks'[nodes'[m].data].place # "new"
                        /\ nodes'[m].data # NULL /\ ~Spent(m)' => blocks'[nodes'[m].data].place = "heap"
                        /\ nodes'[m].type = "string" => blocks'[nodes'[m].data].cells = <<>>
      BY DEF NodeShape, BlockIsLive
    <3>1. CASE m = a
      <4>1. IsLive(m)'
        BY <3>1, <1>1, <1>4 DEF IsLive
      <4>2. nodes'[m].data = b /\ nodes'[m].type = "array" /\ b # NULL
        BY <3>1, <1>1, <1>4, NullAssumption
      <4>3. blocks'[b].place = "heap"
        BY <1>3, <1>4
      <4> QED BY <4>1, <4>2, <4>3
    <3>2. CASE m # a
      <4>1. IsLive(m)' <=> IsLive(m)
        BY <1>1, <1>4 DEF IsLive
      <4>2. nodes'[m].data = nodes[m].data
        BY <3>2, <1>4
      <4>3. nodes[m].data # NULL => blocks'[nodes[m].data] = blocks[nodes[m].data]
        BY <3>2, <1>4, <1>8
      <4>4. nodes[m].type = "string" => nodes[m].data # NULL
        BY <1>0 DEF NodeShape
      <4> QED BY <4>1, <4>2, <4>3, <4>4, <3>2, <1>0, <1>4, <1>8 DEF NodeShape, BlockIsLive
    <3> QED BY <3>1, <3>2
  <2>2. BlockShape'
    <3> SUFFICES ASSUME NEW x \in BlockIds
                 PROVE  /\ Len(blocks'[x].cells) <= MaxCells
                        /\ blocks'[x].place # "heap" => blocks'[x].cells = <<>>
                        /\ blocks'[x].place = "heap" => \E m \in NodeIds : nodes'[m].data = x
      BY DEF BlockShape, BlockIsLive
    <3>1. CASE x = b
      <4>1. Len(more) <= MaxCells
        BY <1>2, MemoryAssumption
      <4> QED BY <3>1, <4>1, <1>3, <1>4
    <3>2. CASE x = old /\ x # b
      BY <3>2, <1>4, MemoryAssumption DEF NoBlock
    <3>3. CASE x # old /\ x # b
      <4>1. blocks'[x] = blocks[x]
        BY <3>3, <1>4
      <4>2. \A m \in NodeIds : nodes[m].data = x => nodes'[m].data = x
        BY <3>3, <1>1, <1>4
      <4> QED BY <4>1, <4>2, <1>0 DEF BlockShape, BlockIsLive
    <3> QED BY <3>1, <3>2, <3>3
  <2>3. Unshared'
    <3> SUFFICES ASSUME NEW m \in NodeIds, NEW o \in NodeIds,
                        nodes'[m].data = nodes'[o].data, nodes'[m].data # NULL
                 PROVE  m = o
      BY DEF Unshared
    <3> QED BY <1>0, <1>4, <1>8 DEF Unshared
  <2> QED BY <2>1, <2>2, <2>3 DEF Shape
<1>10. CellsHeld'
  <2> SUFFICES ASSUME NEW m \in NodeIds, nodes'[m].place = "cell"
               PROVE  /\ nodes'[m].refcount \in {0, -1}
                      /\ \E x \in BlockIds : m \in Values(x)'
    BY DEF CellsHeld
  <2>1. CASE m = value
    BY <2>1, <1>4, <1>6, <1>7
  <2>2. CASE m # value
    <3>1. nodes[m].place = "cell"
      BY <2>2, <1>4
    <3>2. PICK x \in BlockIds : m \in Values(x)
      BY <3>1, <1>0 DEF CellsHeld
    <3>3. \E y \in BlockIds : m \in Values(y)'
      BY <3>2, <1>6, <1>7
    <3> QED BY <3>1, <3>3, <1>0, <1>4 DEF CellsHeld
  <2> QED BY <2>1, <2>2
<1> DEFINE Before(x) == IF x = b THEN old ELSE x
<1>11. \A x \in BlockIds : \A k \in DOMAIN blocks'[x].cells :
           \/ x = b /\ k = len + 1 /\ blocks'[x].cells[k].value = value
           \/ /\ Before(x) \in BlockIds /\ k \in DOMAIN blocks[Before(x)].cells
              /\ blocks'[x].cells[k].value = blocks[Before(x)].cells[k].value
              /\ blocks[Before(x)].cells[k].value \in NodeIds \ {value}
              /\ x = b \/ x # old
  <2> SUFFICES ASSUME NEW x \in BlockIds, NEW k \in DOMAIN blocks'[x].cells
               PROVE  \/ x = b /\ k = len + 1 /\ blocks'[x].cells[k].value = value
                      \/ /\ Before(x) \in BlockIds /\ k \in DOMAIN blocks[Before(x)].cells
                         /\ blocks'[x].cells[k].value = blocks[Before(x)].cells[k].value
                         /\ blocks[Before(x)].cells[k].value \in NodeIds \ {value}
                         /\ x = b \/ x # old
    OBVIOUS
  <2>1. \A y \in BlockIds : \A j \in DOMAIN blocks[y].cells : blocks[y].cells[j].value \in NodeIds \ {value}
    BY <1>0, <1>6, Typed DEF Values
  <2>2. CASE x = b
    <3>1. blocks'[x].cells = more /\ k \in DOMAIN more /\ blocks[Before(x)].cells = cells
      BY <2>2, <1>3, <1>4 DEF cells
    <3>2. k \in DOMAIN cells \/ k = len + 1
      BY <3>1, <1>2
    <3>3. CASE k = len + 1
      BY <2>2, <3>1, <3>3, <1>2
    <3>4. CASE k \in DOMAIN cells
      <4>1. more[k] = cells[k]
        BY <3>4, <1>2
      <4>2. cells[k].value \in NodeIds \ {value}
        BY <3>4, <2>1 DEF cells
      <4>3. Before(x) \in BlockIds
        BY <2>2
      <4> HIDE DEF Before
      <4> QED BY <2>2, <3>1, <3>4, <4>1, <4>2, <4>3
    <3> QED BY <3>2, <3>3, <3>4
  <2>3. CASE x = old /\ x # b
    BY <2>3, <1>4 DEF NoBlock
  <2>4. CASE x # old /\ x # b
    BY <2>1, <2>4, <1>4
  <2> QED BY <2>2, <2>3, <2>4
<1>12. HeldOnce'
  <2> SUFFICES ASSUME NEW x \in BlockIds, NEW y \in BlockIds,
                      NEW k \in DOMAIN blocks'[x].cells, NEW j \in DOMAIN blocks'[y].cells,
                      blocks'[x].cells[k].value = blocks'[y].cells[j].value,
                      nodes'[blocks'[x].cells[k].value].place = "cell"
               PROVE  x = y /\ k = j
    BY DEF HeldOnce
  <2>1. CASE blocks'[x].cells[k].value = value
    <3>1. x = b /\ k = len + 1
      <4> HIDE DEF Before
      <4> QED BY <2>1, <1>11
    <3>2. y = b /\ j = len + 1
      <4>1. blocks'[y].cells[j].value = value
        BY <2>1
      <4> HIDE DEF Before
      <4> QED BY <4>1, <1>11
    <3> QED BY <3>1, <3>2
  <2>2. CASE blocks'[x].cells[k].value # value
    <3>1. /\ Before(x) \in BlockIds /\ k \in DOMAIN blocks[Before(x)].cells
          /\ blocks'[x].cells[k].value = blocks[Before(x)].cells[k].value
          /\ blocks[Before(x)].cells[k].value \in NodeIds \ {value}
          /\ x = b \/ x # old
      BY <2>2, <1>11
    <3>2. /\ Before(y) \in BlockIds /\ j \in DOMAIN blocks[Before(y)].cells
          /\ blocks'[y].cells[j].value = blocks[Before(y)].cells[j].value
          /\ y = b \/ y # old
      BY <2>2, <1>11
    <3>3. nodes[blocks[Before(x)].cells[k].value].place = "cell"
      BY <3>1, <1>4
    <3>4. Before(x) = Before(y) /\ k = j
      <4>1. \A p, q \in BlockIds : \A c \in DOMAIN blocks[p].cells, e \in DOMAIN blocks[q].cells :
               /\ blocks[p].cells[c].value = blocks[q].cells[e].value
               /\ nodes[blocks[p].cells[c].value].place = "cell"
               => p = q /\ c = e
        BY <1>0 DEF HeldOnce
      <4>2. blocks[Before(x)].cells[k].value = blocks[Before(y)].cells[j].value
        <5> HIDE DEF Before
        <5> QED BY <3>1, <3>2
      <4> HIDE DEF Before
      <4> QED BY <3>1, <3>2, <3>3, <4>1, <4>2
    <3> QED BY <3>1, <3>2, <3>4
  <2> QED BY <2>1, <2>2
<1>13. ASSUME NEW o \in NodeIds, nodes'[o].type = "array", NEW v \in Values(nodes[o].data)'
       PROVE  nodes'[v].place = "cell" /\ nodes'[v].refcount = 0
  <2>1. CASE o = a
    <3>1. v \in Values(old) \/ v = value
      BY <2>1, <1>4, <1>7
    <3>2. v \in Values(old) => v \in NodeIds /\ nodes[v].place = "cell" /\ nodes[v].refcount = 0
      BY <1>1, AtRest
    <3> QED BY <3>1, <3>2, <1>4, <1>6
  <2>2. CASE o # a
    <3>1. nodes[o].type = "array" /\ nodes'[o].data = nodes[o].data /\ nodes[o].data # NULL
      BY <2>2, <1>0, <1>4, <1>13 DEF NodeShape
    <3>2. v \in Values(nodes[o].data)
      BY <2>2, <3>1, <1>7, <1>8
    <3>3. v \in NodeIds /\ nodes[v].place = "cell" /\ nodes[v].refcount = 0
      BY <3>1, <3>2, <1>1, AtRest
    <3> QED BY <3>3, <1>4
  <2> QED BY <2>1, <2>2
<1>14. ASSUME NEW o \in NodeIds, nodes'[o].type = "hash", NEW v \in Values(nodes[o].data)'
       PROVE  nodes'[v].place = "heap" /\ nodes'[v].refcount # -1
  <2>1. o # a
    BY <1>1, <1>4, <1>14
  <2>2. nodes[o].type = "hash" /\ nodes'[o].data = nodes[o].data /\ nodes[o].data # NULL
    BY <2>1, <1>0, <1>4, <1>14 DEF NodeShape
  <2>3. v \in Values(nodes[o].data) /\ nodes[o].data \in BlockIds
    BY <2>1, <2>2, <1>7, <1>8
  <2>4. v \in NodeIds /\ nodes[v].place = "heap" /\ v # value
    BY <2>2, <2>3, <1>1, <1>6, AtRest
  <2> QED BY <2>4, <1>4, <1>8
<1>15. ASSUME NEW m \in NodeIds, nodes'[m].place = "heap"
       PROVE  nodes'[m].refcount = Cardinality(CellsOf(m)') /\ nodes'[m].refcount \in Nat
  <2>1. \A c \in BlockIds \X (1 .. MaxCells) : c[1] \in BlockIds
    OBVIOUS
  <2>2. m # value /\ nodes[m].place = "heap"
    BY <1>4, <1>15
  <2>3. m \notin Values(old)
    BY <2>2, <1>1, AtRest
  <2>4. \A x \in BlockIds : x = old \/ x = b => m \notin Values(x) /\ m \notin Values(x)'
    BY <2>2, <2>3, <1>6, <1>7
  <2>5. ASSUME NEW x \in BlockIds, NEW k
        PROVE  k \in DOMAIN blocks'[x].cells /\ blocks'[x].cells[k].value = m <=>
                  k \in DOMAIN blocks[x].cells /\ blocks[x].cells[k].value = m
    <3>1. CASE x = old \/ x = b
      BY <3>1, <2>4 DEF Values
    <3>2. CASE x # old /\ x # b
      BY <3>2, <1>4
    <3> QED BY <3>1, <3>2
  <2>6. CellsOf(m)' = CellsOf(m)
    BY <2>1, <2>5 DEF CellsOf
  <2>7. nodes[m].refcount = Cardinality(CellsOf(m))
    BY <2>2, <1>1, AtRest
  <2> QED BY <2>6, <2>7, <1>4, <1>17
<1>16. Idle'
  BY <1>1 DEF Idle
<1> QED BY <1>5, <1>8, <1>9, <1>10, <1>12, <1>13, <1>14, <1>15, <1>16, RestStep

LEMMA Least ==
    ASSUME NEW S \in SUBSET Nat, S # {}
    PROVE  \E m \in S : \A k \in S : m <= k
<1>1. PICK n \in S : TRUE
  OBVIOUS
<1> DEFINE I == {1 .. k : k \in S}
           F == FiniteSubsetsOf(Nat)
<1>2. I \subseteq F /\ I # {}
  <2>1. \A k \in S : IsFiniteSet(1 .. k)
    BY FS_Interval
  <2> QED BY <2>1, <1>1 DEF FiniteSubsetsOf
<1>3. IsWellFoundedOn(StrictSubsetOrdering(Nat), FiniteSubsetsOf(Nat))
  BY FS_StrictSubsetOrderingWellFounded
<1>4. PICK x \in I : \A y \in I : ~ (<<y, x>> \in StrictSubsetOrdering(Nat))
  BY <1>2, <1>3, WFMin
<1>5. PICK m \in S : x = 1 .. m
  OBVIOUS
<1>6. \A k \in S : m <= k
  <2> SUFFICES ASSUME NEW k \in S, k < m PROVE FALSE
    OBVIOUS
  <2>1. 1 .. k \subseteq 1 .. m /\ 1 .. k # 1 .. m
    <3>1. m \in 1 .. m /\ m \notin 1 .. k
      OBVIOUS
    <3> QED BY <3>1
  <2>2. <<1 .. k, 1 .. m>> \in StrictSubsetOrdering(Nat)
    BY <2>1 DEF StrictSubsetOrdering
  <2> QED BY <1>4, <1>5, <2>2
<1> QED BY <1>6

\* What a hash returns for a key of its own is a value of its own.
LEMMA GetIsThere ==
    ASSUME NEW cells \in Seq(Cell), NEW k \in DOMAIN cells
    PROVE  \E j \in DOMAIN cells : Get(cells, cells[k].key) = cells[j].value
<1> DEFINE key == cells[k].key
           S == {j \in DOMAIN cells : cells[j].key = key}
           IsFirst(i) == cells[i].key = key /\ \A j \in 1 .. i - 1 : cells[j].key # key
<1>1. DOMAIN cells = 1 .. Len(cells) /\ Len(cells) \in Nat
  OBVIOUS
<1>2. S \in SUBSET Nat /\ k \in S
  BY <1>1
<1>3. PICK m \in S : \A j \in S : m <= j
  <2> HIDE DEF S
  <2> QED BY <1>2, Least
<1>4. m \in DOMAIN cells /\ IsFirst(m)
  BY <1>1, <1>3
<1> DEFINE first == CHOOSE i \in DOMAIN cells : IsFirst(i)
<1>5. first \in DOMAIN cells
  <2> HIDE DEF IsFirst
  <2> QED BY <1>4
<1>6. Get(cells, key) = cells[first].value
  BY DEF Get
<1> QED BY <1>5, <1>6

LEMMA CopiedShape ==
    ASSUME TypeOK, NEW h \in NodeIds, nodes[h].data \in BlockIds
    PROVE  /\ Copied(h) \in Seq(Cell)
           /\ \A k \in DOMAIN Copied(h) : Copied(h)[k].value \in Values(nodes[h].data)
<1> DEFINE cells == blocks[nodes[h].data].cells
<1>1. cells \in Seq(Cell) /\ Len(cells) \in Nat /\ DOMAIN cells = 1 .. Len(cells)
      /\ Cells(h) = cells /\ Values(nodes[h].data) = {cells[k].value : k \in DOMAIN cells}
  BY Typed DEF Cells, Values
<1> HIDE DEF cells
<1>2. Copied(h) = [k \in DOMAIN cells |->
                     [key |-> cells[k].key, value |-> Get(cells, cells[k].key)]]
  BY <1>1 DEF Copied
<1>3. \A k \in DOMAIN cells : \E j \in DOMAIN cells : Get(cells, cells[k].key) = cells[j].value
  BY <1>1, GetIsThere
<1>4. \A k \in DOMAIN cells : cells[k].value \in NodeIds /\ cells[k].key \in Keys \cup {NULL}
  <2>1. \A k \in DOMAIN cells : cells[k] \in Cell
    BY <1>1
  <2> QED BY <2>1 DEF Cell
<1>5. \A k \in DOMAIN cells : Copied(h)[k] \in Cell /\ Copied(h)[k].value \in {cells[j].value : j \in DOMAIN cells}
  <2> TAKE k \in DOMAIN cells
  <2>1. PICK j \in DOMAIN cells : Get(cells, cells[k].key) = cells[j].value
    BY <1>3
  <2>2. Copied(h)[k] = [key |-> cells[k].key, value |-> cells[j].value]
    BY <2>1, <1>2
  <2> QED BY <2>2, <1>4 DEF Cell
<1>6. DOMAIN Copied(h) = 1 .. Len(cells)
  BY <1>1, <1>2
<1>7. Copied(h) \in [1 .. Len(cells) -> Cell]
  <2>1. DOMAIN cells = 1 .. Len(cells)
    BY <1>1
  <2>2. \A k \in DOMAIN cells :
           [key |-> cells[k].key, value |-> Get(cells, cells[k].key)] \in Cell
    BY <1>2, <1>5
  <2> QED BY <2>1, <2>2, <1>2
<1> QED BY <1>1, <1>5, <1>6, <1>7

LEMMA MergeCall ==
    ASSUME IInv, NEW first \in NodeIds, NEW second \in NodeIds,
           ctache_data_merge_hashes(first, second)
    PROVE  IInv'
<1>0. /\ TypeOK /\ NodeShape /\ BlockShape /\ Unshared /\ Counts
      /\ CellsHeld /\ HeldOnce /\ ArrayElements /\ HashElements
      /\ Once /\ Destroys /\ Releasing /\ FreesNodes /\ FreesBlocks /\ SpentNodes
  BY DEF IInv, Shape, Elements, Steps
<1>1. PICK n \in NodeIds, b \in BlockIds, height \in 0 .. MaxHeight, cells \in Seq(Cell) :
         /\ Idle /\ todo' = todo /\ nodes[n].place = "new" /\ blocks[b].place = "new"
         /\ Len(cells) <= MaxCells
         /\ \A k \in DOMAIN cells : \E o \in NodeIds :
               nodes[o].type = "hash" /\ cells[k].value \in Values(nodes[o].data)
         /\ nodes' = [Recounted(cells) EXCEPT ![n] = NewNode("hash", height, b)]
         /\ blocks' = [blocks EXCEPT ![b] = [EmptyBlock EXCEPT !.cells = cells]]
  <2> DEFINE cells == Copied(first) \o Copied(second)
             n == CHOOSE n \in NewNodes : TRUE
             b == CHOOSE b \in NewBlocks : TRUE
             height == nodes[IF nodes[first].height > nodes[second].height THEN first ELSE second].height
  <2>1. n \in NodeIds /\ nodes[n].place = "new"
    BY DEF ctache_data_merge_hashes, NewNodes
  <2>2. b \in BlockIds /\ blocks[b].place = "new"
    BY DEF ctache_data_merge_hashes, NewBlocks
  <2>3. height \in 0 .. MaxHeight
    BY <1>0, Typed
  <2>4. /\ Idle /\ todo' = todo /\ Len(cells) <= MaxCells
        /\ nodes[first].type = "hash" /\ nodes[second].type = "hash"
        /\ nodes' = [Recounted(cells) EXCEPT ![n] = NewNode("hash", height, b)]
        /\ blocks' = [blocks EXCEPT ![b] = [EmptyBlock EXCEPT !.cells = cells]]
    BY DEF ctache_data_merge_hashes, Is
  <2>5. nodes[first].data \in BlockIds /\ nodes[second].data \in BlockIds
    BY <2>4, <1>0, Typed DEF NodeShape
  <2>6. /\ Copied(first) \in Seq(Cell) /\ Copied(second) \in Seq(Cell)
        /\ \A k \in DOMAIN Copied(first) : Copied(first)[k].value \in Values(nodes[first].data)
        /\ \A k \in DOMAIN Copied(second) : Copied(second)[k].value \in Values(nodes[second].data)
    BY <2>5, <1>0, CopiedShape
  <2> DEFINE c1 == Copied(first)
             c2 == Copied(second)
  <2> HIDE DEF n, b, height, c1, c2
  <2>7. /\ c1 \in Seq(Cell) /\ c2 \in Seq(Cell) /\ cells = c1 \o c2
        /\ \A k \in DOMAIN c1 : c1[k].value \in Values(nodes[first].data)
        /\ \A k \in DOMAIN c2 : c2[k].value \in Values(nodes[second].data)
    BY <2>6 DEF c1, c2
  <2> HIDE DEF cells
  <2>8. /\ cells \in Seq(Cell) /\ Len(cells) = Len(c1) + Len(c2) /\ Len(c1) \in Nat /\ Len(c2) \in Nat
        /\ \A k \in 1 .. Len(c1) : cells[k] = c1[k]
        /\ \A k \in 1 .. Len(c2) : cells[Len(c1) + k] = c2[k]
    BY <2>7, Concat
  <2>9. ASSUME NEW k \in DOMAIN cells
        PROVE  \E o \in NodeIds : nodes[o].type = "hash" /\ cells[k].value \in Values(nodes[o].data)
    <3>1. k \in 1 .. Len(c1) \/ k - Len(c1) \in 1 .. Len(c2)
      BY <2>8
    <3>2. CASE k \in 1 .. Len(c1)
      BY <3>2, <2>4, <2>7, <2>8
    <3>3. CASE k - Len(c1) \in 1 .. Len(c2)
      <4>1. cells[k] = c2[k - Len(c1)]
        <5>1. Len(c1) + (k - Len(c1)) = k
          BY <2>8
        <5> QED BY <3>3, <5>1, <2>8
      <4> QED BY <3>3, <4>1, <2>4, <2>7
    <3> QED BY <3>1, <3>2, <3>3
  <2> QED BY <2>1, <2>2, <2>3, <2>4, <2>8, <2>9
<1>2. /\ DOMAIN cells = 1 .. Len(cells) /\ Len(cells) \in Nat
      /\ \A k \in DOMAIN cells : /\ cells[k].value \in NodeIds /\ nodes[cells[k].value].place = "heap"
                                 /\ cells[k].value # n
  <2>1. DOMAIN cells = 1 .. Len(cells) /\ Len(cells) \in Nat
    OBVIOUS
  <2>2. ASSUME NEW k \in DOMAIN cells
        PROVE  cells[k].value \in NodeIds /\ nodes[cells[k].value].place = "heap"
    <3>1. PICK o \in NodeIds : nodes[o].type = "hash" /\ cells[k].value \in Values(nodes[o].data)
      BY <1>1
    <3> QED BY <3>1, <1>1, AtRest
  <2> QED BY <2>1, <2>2, <1>1
<1> DEFINE Occ(m) == Occurrences(cells, m)
<1>3. \A m \in NodeIds : /\ Occ(m) \subseteq 1 .. MaxCells /\ IsFiniteSet(Occ(m))
                         /\ Cardinality(Occ(m)) \in Nat
                         /\ (nodes[m].place # "heap" => Cardinality(Occ(m)) = 0)
  <2> SUFFICES ASSUME NEW m \in NodeIds
               PROVE  /\ Occ(m) \subseteq 1 .. MaxCells /\ IsFiniteSet(Occ(m))
                      /\ Cardinality(Occ(m)) \in Nat
                      /\ (nodes[m].place # "heap" => Cardinality(Occ(m)) = 0)
    OBVIOUS
  <2>1. Occ(m) \subseteq 1 .. MaxCells
    BY <1>1, <1>2, MemoryAssumption DEF Occurrences
  <2>2. IsFiniteSet(1 .. MaxCells)
    BY MemoryAssumption, FS_Interval
  <2>3. nodes[m].place # "heap" => Occ(m) = {}
    BY <1>2 DEF Occurrences
  <2> HIDE DEF Occ
  <2>4. IsFiniteSet(Occ(m))
    BY <2>1, <2>2, FS_Subset
  <2> QED BY <2>1, <2>3, <2>4, FS_CardinalityType, FS_EmptySet
<1>4. \A m \in NodeIds : nodes[m].refcount \in Nat
  BY <1>1, AtRest
<1>5. /\ nodes'[n].type = "hash" /\ nodes'[n].refcount = 0 /\ nodes'[n].data = b
      /\ nodes'[n].place = "heap"
      /\ \A m \in NodeIds : m # n =>
            /\ nodes'[m].type = nodes[m].type /\ nodes'[m].data = nodes[m].data
            /\ nodes'[m].place = nodes[m].place
            /\ nodes'[m].refcount = nodes[m].refcount + Cardinality(Occ(m))
      /\ blocks'[b].cells = cells /\ blocks'[b].place = "heap"
      /\ \A x \in BlockIds : x # b => blocks'[x] = blocks[x]
  <2> DEFINE R == Recounted(cells)
  <2>1. R = [m \in NodeIds |-> [nodes[m] EXCEPT !.refcount = nodes[m].refcount + Cardinality(Occ(m))]]
    BY DEF Recounted
  <2>2. nodes' = [R EXCEPT ![n] = NewNode("hash", height, b)]
    BY <1>1
  <2> HIDE DEF R, Occ
  <2>3. nodes'[n] = NewNode("hash", height, b) /\ \A m \in NodeIds : m # n => nodes'[m] = R[m]
    BY <2>1, <2>2
  <2>4. \A m \in NodeIds : R[m] = [nodes[m] EXCEPT !.refcount = nodes[m].refcount + Cardinality(Occ(m))]
    BY <2>1
  <2>5. \A m \in NodeIds : nodes[m] \in [type : Types, refcount : Nat \cup {-1}, data : BlockIds \cup {NULL},
                                         place : Places, height : 0 .. MaxHeight]
    BY <1>0, Typed DEF Node
  <2>6. \A m \in NodeIds : /\ R[m].type = nodes[m].type /\ R[m].data = nodes[m].data
                           /\ R[m].place = nodes[m].place
                           /\ R[m].refcount = nodes[m].refcount + Cardinality(Occ(m))
    BY <2>4, <2>5
  <2>7. DOMAIN blocks = BlockIds
    BY <1>0 DEF TypeOK
  <2>8. blocks'[b] = [EmptyBlock EXCEPT !.cells = cells] /\ \A x \in BlockIds : x # b => blocks'[x] = blocks[x]
    BY <2>7, <1>1
  <2> QED BY <2>3, <2>6, <2>8 DEF NewNode, EmptyBlock
<1>6. TypeOK'
  <2>1. NewNode("hash", height, b) \in Node
    BY DEF NewNode, Node, Places, Types
  <2>2. [EmptyBlock EXCEPT !.cells = cells] \in Block
    BY BufSizeAssumption DEF EmptyBlock, Block, Places
  <2>3. Recounted(cells) \in [NodeIds -> Node]
    <3>1. Recounted(cells) = [m \in NodeIds |-> [nodes[m] EXCEPT !.refcount = nodes[m].refcount + Cardinality(Occ(m))]]
      BY DEF Recounted
    <3>2. \A m \in NodeIds : nodes[m].refcount + Cardinality(Occ(m)) \in Nat
      BY <1>3, <1>4
    <3> HIDE DEF Occ
    <3>3. ASSUME NEW m \in NodeIds
          PROVE  [nodes[m] EXCEPT !.refcount = nodes[m].refcount + Cardinality(Occ(m))] \in Node
      <4> DEFINE c == nodes[m].refcount + Cardinality(Occ(m))
      <4>1. c \in Nat /\ nodes[m] \in Node
        BY <3>2, <1>0, Typed
      <4> HIDE DEF c
      <4>2. [nodes[m] EXCEPT !.refcount = c] \in Node
        BY <4>1 DEF Node
      <4> QED BY <4>2 DEF c
    <3> QED BY <3>1, <3>3
  <2>4. nodes' \in [NodeIds -> Node]
    BY <2>1, <2>3, <1>1
  <2>5. blocks' \in [BlockIds -> Block]
    BY <2>2, <1>0, <1>1 DEF TypeOK
  <2> QED BY <2>4, <2>5, <1>0, <1>1 DEF TypeOK
<1> HIDE DEF Occ
<1>7. /\ \A m \in NodeIds : nodes[m].data # NULL => nodes[m].data \in BlockIds /\ nodes[m].data # b
      /\ \A x \in BlockIds : n \notin Values(x)
      /\ blocks[b].cells = <<>> /\ Values(b) = {}
  <2>1. \A m \in NodeIds : nodes[m].data # NULL => nodes[m].data \in BlockIds /\ nodes[m].data # b
    BY <1>0, <1>1, Typed DEF NodeShape
  <2>2. \A x \in BlockIds : n \notin Values(x)
    BY <1>1, AtRest DEF IsLive
  <2>3. blocks[b].cells = <<>> /\ Values(b) = {}
    BY <1>0, <1>1 DEF BlockShape, BlockIsLive, Values
  <2> QED BY <2>1, <2>2, <2>3
<1>8. /\ Values(b)' = {cells[k].value : k \in DOMAIN cells}
      /\ \A x \in BlockIds : x # b => Values(x)' = Values(x)
  BY <1>5 DEF Values
<1>9. Shape'
  <2>1. NodeShape'
    <3> SUFFICES ASSUME NEW m \in NodeIds
                 PROVE  /\ ~IsLive(m)' => nodes'[m].data = NULL /\ nodes'[m].refcount = 0
                        /\ nodes'[m].data = NULL <=> nodes'[m].type = "scalar"
                        /\ nodes'[m].data # NULL => blocks'[nodes'[m].data].place # "new"
                        /\ nodes'[m].data # NULL /\ ~Spent(m)' => blocks'[nodes'[m].data].place = "heap"
                        /\ nodes'[m].type = "string" => blocks'[nodes'[m].data].cells = <<>>
      BY DEF NodeShape, BlockIsLive
    <3>1. CASE m = n
      BY <3>1, <1>5, NullAssumption DEF IsLive
    <3>2. CASE m # n
      <4>1. IsLive(m)' <=> IsLive(m)
        BY <3>2, <1>5 DEF IsLive
      <4>2. nodes'[m].data = nodes[m].data /\ nodes'[m].type = nodes[m].type
        BY <3>2, <1>5
      <4>3. nodes[m].data # NULL => blocks'[nodes[m].data] = blocks[nodes[m].data] /\ BlockIsLive(nodes[m].data)
        BY <1>1, <1>5, <1>7, AtRest
      <4>4. nodes[m].type = "string" => nodes[m].data # NULL
        BY <1>0 DEF NodeShape
      <4>5. ~IsLive(m)' => nodes'[m].refcount = 0
        <5>1. ~IsLive(m)' => Cardinality(Occ(m)) = 0 /\ nodes[m].refcount = 0
          BY <4>1, <1>0, <1>3 DEF NodeShape, IsLive
        <5> QED BY <5>1, <3>2, <1>5
      <4> QED BY <4>1, <4>2, <4>3, <4>4, <4>5, <1>0 DEF NodeShape, BlockIsLive
    <3> QED BY <3>1, <3>2
  <2>2. BlockShape'
    <3> SUFFICES ASSUME NEW x \in BlockIds
                 PROVE  /\ Len(blocks'[x].cells) <= MaxCells
                        /\ blocks'[x].place # "heap" => blocks'[x].cells = <<>>
                        /\ blocks'[x].place = "heap" => \E m \in NodeIds : nodes'[m].data = x
      BY DEF BlockShape, BlockIsLive
    <3>1. CASE x = b
      BY <3>1, <1>1, <1>5
    <3>2. CASE x # b
      <4>1. nodes[n].data = NULL /\ x # NULL
        BY <1>0, <1>1, NullAssumption DEF NodeShape, IsLive
      <4> QED BY <3>2, <4>1, <1>0, <1>5 DEF BlockShape, BlockIsLive
    <3> QED BY <3>1, <3>2
  <2>3. Unshared'
    <3> SUFFICES ASSUME NEW m \in NodeIds, NEW o \in NodeIds,
                        nodes'[m].data = nodes'[o].data, nodes'[m].data # NULL
                 PROVE  m = o
      BY DEF Unshared
    <3> QED BY <1>0, <1>5, <1>7 DEF Unshared
  <2> QED BY <2>1, <2>2, <2>3 DEF Shape
<1>10. \A m \in NodeIds : nodes'[m].refcount \in Nat
  BY <1>3, <1>4, <1>5
<1>11. CellsHeld'
  <2> SUFFICES ASSUME NEW m \in NodeIds, nodes'[m].place = "cell"
               PROVE  /\ nodes'[m].refcount \in {0, -1}
                      /\ \E x \in BlockIds : m \in Values(x)'
    BY DEF CellsHeld
  <2>1. m # n /\ nodes[m].place = "cell"
    BY <1>5
  <2>2. Cardinality(Occ(m)) = 0 /\ nodes[m].refcount = 0
    BY <2>1, <1>0, <1>3, <1>4 DEF CellsHeld
  <2>3. PICK x \in BlockIds : m \in Values(x)
    BY <2>1, <1>0 DEF CellsHeld
  <2> QED BY <2>1, <2>2, <2>3, <1>5, <1>7, <1>8
<1>12. HeldOnce'
  <2> SUFFICES ASSUME NEW x \in BlockIds, NEW y \in BlockIds,
                      NEW k \in DOMAIN blocks'[x].cells, NEW j \in DOMAIN blocks'[y].cells,
                      blocks'[x].cells[k].value = blocks'[y].cells[j].value,
                      nodes'[blocks'[x].cells[k].value].place = "cell"
               PROVE  x = y /\ k = j
    BY DEF HeldOnce
  <2>1. \A z \in BlockIds : \A c \in DOMAIN blocks'[z].cells :
           nodes'[blocks'[z].cells[c].value].place = "cell" =>
              /\ z # b /\ blocks'[z].cells = blocks[z].cells
              /\ nodes[blocks[z].cells[c].value].place = "cell"
    <3> SUFFICES ASSUME NEW z \in BlockIds, NEW c \in DOMAIN blocks'[z].cells,
                        nodes'[blocks'[z].cells[c].value].place = "cell"
                 PROVE  /\ z # b /\ blocks'[z].cells = blocks[z].cells
                        /\ nodes[blocks[z].cells[c].value].place = "cell"
      OBVIOUS
    <3>1. z # b
      <4>1. SUFFICES ASSUME z = b PROVE FALSE
        OBVIOUS
      <4>2. c \in DOMAIN cells /\ blocks'[z].cells[c].value = cells[c].value
        BY <4>1, <1>5
      <4> QED BY <4>2, <1>2, <1>5
    <3>2. blocks'[z].cells = blocks[z].cells
      BY <3>1, <1>5
    <3>3. blocks[z].cells[c].value \in NodeIds \ {n}
      BY <3>2, <1>0, <1>7, Typed DEF Values
    <3> QED BY <3>1, <3>2, <3>3, <1>5
  <2> QED BY <2>1, <1>0 DEF HeldOnce
<1>13. ASSUME NEW a \in NodeIds, nodes'[a].type = "array", NEW v \in Values(nodes[a].data)'
       PROVE  nodes'[v].place = "cell" /\ nodes'[v].refcount = 0
  <2>1. a # n
    BY <1>5, <1>13
  <2>2. nodes[a].type = "array" /\ nodes'[a].data = nodes[a].data /\ nodes[a].data # NULL
    BY <2>1, <1>0, <1>5, <1>13 DEF NodeShape
  <2>3. v \in Values(nodes[a].data) /\ nodes[a].data \in BlockIds
    BY <2>2, <1>7, <1>8
  <2>4. v \in NodeIds /\ v # n /\ nodes[v].place = "cell" /\ nodes[v].refcount = 0
    BY <2>2, <2>3, <1>1, <1>7, AtRest
  <2>5. Cardinality(Occ(v)) = 0
    BY <2>4, <1>3
  <2> QED BY <2>4, <2>5, <1>5
<1>14. ASSUME NEW h \in NodeIds, nodes'[h].type = "hash", NEW v \in Values(nodes[h].data)'
       PROVE  nodes'[v].place = "heap" /\ nodes'[v].refcount # -1
  <2>1. CASE h = n
    <3>1. PICK k \in DOMAIN cells : v = cells[k].value
      BY <2>1, <1>5, <1>8
    <3>2. v \in NodeIds /\ v # n /\ nodes[v].place = "heap"
      BY <3>1, <1>2
    <3> QED BY <3>2, <1>5, <1>10
  <2>2. CASE h # n
    <3>1. nodes[h].type = "hash" /\ nodes'[h].data = nodes[h].data /\ nodes[h].data # NULL
      BY <2>2, <1>0, <1>5, <1>14 DEF NodeShape
    <3>2. v \in Values(nodes[h].data) /\ nodes[h].data \in BlockIds
      BY <3>1, <1>7, <1>8
    <3>3. v \in NodeIds /\ v # n /\ nodes[v].place = "heap"
      BY <3>1, <3>2, <1>1, <1>7, AtRest
    <3> QED BY <3>3, <1>5, <1>10
  <2> QED BY <2>1, <2>2
<1>15. ASSUME NEW m \in NodeIds, nodes'[m].place = "heap"
       PROVE  nodes'[m].refcount = Cardinality(CellsOf(m)') /\ nodes'[m].refcount \in Nat
  <2>1. \A c \in BlockIds \X (1 .. MaxCells) : c[1] \in BlockIds /\ c[2] \in 1 .. MaxCells /\ c = <<c[1], c[2]>>
    OBVIOUS
  <2>2. CASE m = n
    <3>1. \A x \in BlockIds : n \notin Values(x)'
      BY <1>2, <1>7, <1>8
    <3>2. CellsOf(m)' = {}
      BY <2>1, <2>2, <3>1 DEF CellsOf, Values
    <3>3. Cardinality({}) = 0
      BY FS_EmptySet
    <3> QED BY <2>2, <3>2, <3>3, <1>5
  <2>3. CASE m # n
    <3> DEFINE New == {<<b, k>> : k \in Occ(m)}
    <3>1. IsFiniteSet(New) /\ Cardinality(New) = Cardinality(Occ(m))
      BY <1>3, Paired
    <3>2. CellsOf(m) \cap New = {}
      BY <2>1, <1>7 DEF CellsOf
    <3>3. CellsOf(m)' = CellsOf(m) \cup New
      <4>1. \A k : <<b, k>> \in New <=> k \in DOMAIN cells /\ cells[k].value = m
        BY DEF Occ, Occurrences
      <4>2. \A c \in New : c \in BlockIds \X (1 .. MaxCells) /\ c[1] = b
        BY <1>3
      <4> HIDE DEF New
      <4>3. ASSUME NEW c \in BlockIds \X (1 .. MaxCells)
            PROVE  c[2] \in DOMAIN blocks'[c[1]].cells /\ blocks'[c[1]].cells[c[2]].value = m <=>
                     \/ c[2] \in DOMAIN blocks[c[1]].cells /\ blocks[c[1]].cells[c[2]].value = m
                     \/ c \in New
        <5>1. CASE c[1] = b
          <6>1. c = <<b, c[2]>>
            BY <2>1, <5>1
          <6>2. blocks'[c[1]].cells = cells /\ DOMAIN blocks[c[1]].cells = {}
            BY <5>1, <1>5, <1>7
          <6> QED BY <4>1, <6>1, <6>2
        <5>2. CASE c[1] # b
          <6>1. c \notin New
            BY <4>2, <5>2
          <6>2. blocks'[c[1]] = blocks[c[1]]
            BY <2>1, <5>2, <1>5
          <6> QED BY <6>1, <6>2
        <5> QED BY <5>1, <5>2
      <4> QED BY <4>2, <4>3 DEF CellsOf
    <3>4. IsFiniteSet(CellsOf(m)) /\ nodes[m].refcount = Cardinality(CellsOf(m))
      BY <2>3, <1>1, <1>5, <1>15, AtRest
    <3> HIDE DEF New
    <3>5. Cardinality(CellsOf(m)') = Cardinality(CellsOf(m)) + Cardinality(Occ(m))
      BY <3>1, <3>2, <3>3, <3>4, Added
    <3> QED BY <2>3, <3>4, <3>5, <1>5, <1>10
  <2> QED BY <2>2, <2>3
<1>16. Idle'
  BY <1>1 DEF Idle
<1>17. \A m \in NodeIds : nodes'[m].refcount # -1
  BY <1>10
<1> QED BY <1>6, <1>9, <1>11, <1>12, <1>13, <1>14, <1>15, <1>16, <1>17, RestStep
-----------------------------------------------------------------------------
LEMMA QuietCall ==
    ASSUME IInv, UNCHANGED vars
    PROVE  IInv'
<1>1. nodes' = nodes /\ blocks' = blocks /\ todo' = todo
  BY DEF vars
<1>2. TypeOK' = TypeOK
  BY <1>1 DEF TypeOK
<1>3. Depth' = Depth /\ Stack' = Stack
  BY <1>1 DEF Depth, Stack
<1>4. \A n : (Spent(n)' <=> Spent(n)) /\ (Kept(n)' <=> Kept(n)) /\ (IsLive(n)' <=> IsLive(n))
             /\ (Awaits(n)' <=> Awaits(n)) /\ Values(n)' = Values(n)
             /\ (BlockIsLive(n)' <=> BlockIsLive(n))
  BY <1>1, <1>3 DEF Spent, Kept, IsLive, Awaits, Values, BlockIsLive
<1>5. Shape'
  BY <1>1 DEF IInv, Shape, NodeShape, BlockShape, Unshared, IsLive, Spent, BlockIsLive
<1>6. CellsHeld' /\ HeldOnce'
  BY <1>1, <1>4 DEF IInv, Elements, CellsHeld, HeldOnce
<1>7. ArrayElements' /\ HashElements'
  <2>1. \A n : Values(nodes[n].data)' = Values(nodes[n].data)
    BY <1>1 DEF Values
  <2> QED BY <1>1, <1>4, <2>1 DEF IInv, Elements, ArrayElements, HashElements
<1>8. Once' /\ Destroys' /\ Releasing' /\ FreesNodes' /\ FreesBlocks'
  BY <1>1, <1>3, <1>4 DEF IInv, Steps, Once, Destroys, Releasing, FreesNodes, FreesBlocks
<1>9. SpentNodes'
  BY <1>1, <1>3, <1>4 DEF IInv, Steps, SpentNodes, DataFirst, BlockIsLive
<1>10. Counts'
  <2>1. \A n : Held(n)' = Held(n) /\ Releases(n)' = Releases(n)
    BY <1>1, <1>3, <1>4 DEF Held, Releases
  <2> QED BY <1>1, <1>4, <2>1 DEF IInv, Counts
<1> QED BY <1>2, <1>5, <1>6, <1>7, <1>8, <1>9, <1>10 DEF IInv, Elements, Steps

LEMMA EachStep ==
    ASSUME IInv, [Next]_vars
    PROVE  IInv'
<1>1. CASE Create
  BY <1>1, CreateCall DEF Create
<1>2. CASE Set
  BY <1>2, SetCall DEF Set
<1>3. CASE AppendTo
  BY <1>3, AppendCall DEF AppendTo
<1>4. CASE Merge
  BY <1>4, MergeCall DEF Merge
<1>5. CASE Destroy
  BY <1>5, DestroyCall DEF Destroy
<1>6. CASE DestroyData
  BY <1>6, DestroyDataStep
<1>7. CASE ReleaseCell
  BY <1>7, ReleaseStep
<1>8. CASE DestroyBlock
  BY <1>8, FreeBlockStep
<1>9. CASE DestroyNode
  BY <1>9, FreeNodeStep
<1>10. CASE Stopped \/ UNCHANGED vars
  BY <1>10, QuietCall DEF Stopped
<1> QED BY <1>1, <1>2, <1>3, <1>4, <1>5, <1>6, <1>7, <1>8, <1>9, <1>10 DEF Next

(***************************************************************************)
(* The inductive invariant holds in every state that is reached.           *)
(***************************************************************************)
LEMMA MemoryInvariant == Spec => []IInv
BY Start, EachStep, PTL DEF Spec

\* Nodes, blocks and the steps to be done are of their types: a count never
\* goes below -1, the count of a node being destroyed, and todo names what exists.
THEOREM TypeCorrect == Spec => []TypeOK
<1>1. IInv => TypeOK
  BY DEF IInv
<1> QED BY <1>1, MemoryInvariant, PTL

(***************************************************************************)
(* Whatever hashes share their values, and in whatever order owners        *)
(* destroy what is theirs: no step of ctache_data_destroy or ctache_hash_  *)
(* table_destroy reads, counts down or frees what has been freed           *)
(* (lib/ctache_data.c:112-158, lib/hash_table.c:46-70).                  *)
(***************************************************************************)
THEOREM FreedIsUnused == Spec => []NothingFreedIsUsed
<1>1. ASSUME IInv PROVE NothingFreedIsUsed
  <2>1. /\ TypeOK /\ NodeShape /\ Destroys /\ Releasing /\ FreesNodes /\ FreesBlocks
    BY <1>1 DEF IInv, Shape, Steps
  <2>2. ASSUME ~Idle
        PROVE  Depth \in 1 .. Depth /\ Stack[Depth] = Do(Head(todo).do, Arg)
    BY <2>1, <2>2, Top
  <2>3. Doing("destroy") => IsLive(Arg) /\ (InUse \/ DataIsLive)
    <3> SUFFICES ASSUME Doing("destroy") PROVE IsLive(Arg) /\ DataIsLive
      OBVIOUS
    <3>1. Arg \in NodeIds /\ Stack[Depth] = Do("destroy", Arg) /\ Depth \in 1 .. Depth
      BY <2>1, <2>2, Top DEF Doing
    <3>2. IsLive(Arg) /\ nodes[Arg].refcount = 0
      BY <3>1, <2>1 DEF Destroys
    <3> QED BY <3>1, <3>2, <2>1 DEF NodeShape, Spent, DataIsLive
  <2>4. Doing("release") => IsLive(Arg)
    <3> SUFFICES ASSUME Doing("release") PROVE IsLive(Arg)
      OBVIOUS
    <3>1. Arg \in NodeIds /\ Stack[Depth] = Do("release", Arg) /\ Depth \in 1 .. Depth
      BY <2>1, <2>2, Top DEF Doing
    <3> QED BY <3>1, <2>1 DEF Releasing, IsLive
  <2>5. Doing("free_block") => BlockIsLive(Arg)
    <3> SUFFICES ASSUME Doing("free_block") PROVE BlockIsLive(Arg)
      OBVIOUS
    <3>1. Arg \in BlockIds /\ Stack[Depth] = Do("free_block", Arg) /\ Depth \in 1 .. Depth
      BY <2>1, <2>2, Top DEF Doing
    <3> QED BY <3>1, <2>1 DEF FreesBlocks
  <2>6. Doing("free_node") => nodes[Arg].place = "heap"
    <3> SUFFICES ASSUME Doing("free_node") PROVE nodes[Arg].place = "heap"
      OBVIOUS
    <3>1. Arg \in NodeIds /\ Stack[Depth] = Do("free_node", Arg) /\ Depth \in 1 .. Depth
      BY <2>1, <2>2, Top DEF Doing
    <3> QED BY <3>1, <2>1 DEF FreesNodes
  <2> QED BY <2>3, <2>4, <2>5, <2>6 DEF NothingFreedIsUsed
<1> QED BY <1>1, MemoryInvariant, PTL

(***************************************************************************)
(* Between calls the count of a node is the number of cells that hold it,  *)
(* after any sequence of setting, appending, merging and destroying.       *)
(***************************************************************************)
THEOREM CountsCorrect == Spec => []CountsAreReferences
<1>1. ASSUME IInv PROVE CountsAreReferences
  <2> SUFFICES ASSUME Idle, NEW n \in NodeIds, nodes[n].place = "heap"
               PROVE  nodes[n].refcount = References(n)
    BY DEF CountsAreReferences
  <2>1. nodes[n].refcount = Cardinality(CellsOf(n))
    BY <1>1, AtRest
  <2>2. References(n) = Cardinality(CellsOf(n))
    BY DEF References, CellsOf
  <2> QED BY <2>1, <2>2
<1> QED BY <1>1, MemoryInvariant, PTL

(***************************************************************************)
(* Between calls every block that is allocated belongs to exactly one      *)
(* node, and a node that stands in a buffer stands in exactly one.         *)
(***************************************************************************)
THEOREM LeakFree == Spec => []NothingLeaks
<1>1. ASSUME IInv PROVE NothingLeaks
  <2> SUFFICES ASSUME Idle
               PROVE  /\ \A b \in BlockIds :
                            Cardinality({n \in NodeIds : nodes[n].data = b})
                               = IF BlockIsLive(b) THEN 1 ELSE 0
                      /\ \A n \in NodeIds :
                            nodes[n].place = "cell" => Cardinality(Holders(n)) = 1
    BY DEF NothingLeaks
  <2>1. /\ TypeOK /\ NodeShape /\ BlockShape /\ Unshared /\ CellsHeld /\ HeldOnce
    BY <1>1 DEF IInv, Shape, Elements
  <2>2. ASSUME NEW b \in BlockIds
        PROVE  Cardinality({n \in NodeIds : nodes[n].data = b}) = IF BlockIsLive(b) THEN 1 ELSE 0
    <3> DEFINE owners == {n \in NodeIds : nodes[n].data = b}
    <3>1. CASE BlockIsLive(b)
      <4>1. PICK n \in NodeIds : nodes[n].data = b
        BY <3>1, <2>1 DEF BlockShape
      <4>2. owners = {n}
        BY <4>1, <2>1, NullAssumption DEF Unshared
      <4> QED BY <3>1, <4>2, FS_Singleton
    <3>2. CASE ~BlockIsLive(b)
      <4>1. owners = {}
        BY <3>2, <1>1, NullAssumption, AtRest
      <4> QED BY <3>2, <4>1, FS_EmptySet
    <3> QED BY <3>1, <3>2
  <2>3. ASSUME NEW n \in NodeIds, nodes[n].place = "cell"
        PROVE  Cardinality(Holders(n)) = 1
    <3>1. PICK b \in BlockIds : n \in Values(b)
      BY <2>1, <2>3 DEF CellsHeld
    <3>2. \A d \in BlockIds : n \in Values(d) => d = b
      BY <2>1, <2>3, <3>1 DEF HeldOnce, Values
    <3>3. Holders(n) = {b}
      BY <3>1, <3>2 DEF Holders
    <3> QED BY <3>3, FS_Singleton
  <2> QED BY <2>2, <2>3
<1> QED BY <1>1, MemoryInvariant, PTL
-----------------------------------------------------------------------------
\* A full buffer is doubled before it is stored into.
LEMMA StoredFits ==
    ASSUME NEW array \in Block, NEW value \in NodeIds, Len(array.cells) < array.bufsize
    PROVE  Len(Stored(array, value).cells) < Stored(array, value).bufsize
<1> DEFINE len == Len(array.cells)
<1>1. /\ array.cells \in Seq(Cell) /\ array.bufsize \in Nat /\ len \in Nat
      /\ array \in [cells : Seq(Cell), bufsize : Nat, place : Places \ {"cell"}]
  BY DEF Block
<1>2. Len(Stored(array, value).cells) = len + 1
  <2>1. Stored(array, value).cells = WithCell(array.cells, NULL, value)
    BY GrownShape
  <2>2. NULL \in Keys \cup {NULL}
    OBVIOUS
  <2> DEFINE cells == array.cells
  <2>3. cells \in Seq(Cell)
    BY <1>1
  <2> HIDE DEF cells
  <2>4. Len(WithCell(cells, NULL, value)) = Len(cells) + 1
    BY <2>2, <2>3, WithOneMore
  <2> QED BY <2>1, <2>4 DEF cells
<1>3. Stored(array, value).bufsize = IF len + 1 >= array.bufsize THEN array.bufsize * 2 ELSE array.bufsize
  <2>1. Stored(array, value) = [Grown(array) EXCEPT !.cells = WithCell(Grown(array).cells, NULL, value)]
    BY DEF Stored
  <2>2. CASE Full(array)
    <3>1. Grown(array) = [array EXCEPT !.bufsize = array.bufsize * 2]
      BY <2>2 DEF Grown
    <3> QED BY <1>1, <2>1, <2>2, <3>1 DEF Full
  <2>3. CASE ~Full(array)
    <3>1. Grown(array) = array
      BY <2>3 DEF Grown
    <3> QED BY <1>1, <2>1, <2>3, <3>1 DEF Full
  <2> QED BY <2>2, <2>3
<1> HIDE DEF len
<1>4. len \in Nat /\ array.bufsize \in Nat /\ len < array.bufsize
  BY <1>1 DEF len
<1>5. CASE len + 1 >= array.bufsize
  BY <1>2, <1>3, <1>4, <1>5
<1>6. CASE ~(len + 1 >= array.bufsize)
  BY <1>2, <1>3, <1>4, <1>6
<1> QED BY <1>5, <1>6

LEMMA RoomStep ==
    ASSUME IInv, BuffersHold, [Next]_vars
    PROVE  BuffersHold'
<1>0. /\ TypeOK /\ NodeShape /\ Unshared /\ TypeOK' /\ NodeShape'
  BY EachStep DEF IInv, Shape
<1> SUFFICES ASSUME NEW a \in NodeIds, IsLive(a)', nodes'[a].type = "array",
                    BlockIsLive(nodes[a].data)'
             PROVE  Len(Cells(a)') < blocks'[nodes'[a].data].bufsize
  BY DEF BuffersHold, Is
<1>1. PICK b \in BlockIds : b = nodes'[a].data
  BY <1>0 DEF TypeOK, Node, NodeShape
<1> SUFFICES Len(blocks'[b].cells) < blocks'[b].bufsize
  BY <1>1 DEF Cells
<1>2. blocks'[b].place = "heap"
  BY <1>1 DEF BlockIsLive
<1>3. ASSUME nodes[a].type = "array", nodes[a].data = b, blocks'[b] = blocks[b]
      PROVE  Len(blocks'[b].cells) < blocks'[b].bufsize
  <2>1. IsLive(a) /\ b # NULL
    BY <1>3, <1>0, NullAssumption DEF NodeShape
  <2> QED BY <1>2, <1>3, <2>1 DEF BuffersHold, Is, BlockIsLive, Cells
<1>4. \A m \in NodeIds : nodes[m].data # NULL =>
         nodes[m].data \in BlockIds /\ blocks[nodes[m].data].place # "new"
  BY <1>0, Typed DEF NodeShape
<1>5. nodes[a].type = "array" => nodes[a].data # NULL
  BY <1>0 DEF NodeShape
<1>6. CASE Create
  <2>1. PICK type \in Types, height \in 0 .. MaxHeight : ctache_data_create(type, height)
    BY <1>6 DEF Create
  <2> DEFINE n == CHOOSE n \in NewNodes : TRUE
             new == CHOOSE x \in NewBlocks : TRUE
             block == IF type = "scalar" THEN NULL ELSE new
  <2>2. new \in BlockIds /\ blocks[new].place = "new"
    BY <2>1 DEF ctache_data_create, NewBlocks
  <2>3. /\ nodes' = [nodes EXCEPT ![n] = NewNode(type, height, block)]
        /\ blocks' = [x \in BlockIds |-> IF x = block THEN EmptyBlock ELSE blocks[x]]
    BY <2>1 DEF ctache_data_create
  <2>4. block = NULL \/ blocks[block].place = "new"
    BY <2>2
  <2> HIDE DEF n, block
  <2>5. CASE a = n
    <3>1. b = block
      BY <2>3, <2>5, <1>0, <1>1 DEF NewNode, TypeOK
    <3> QED BY <2>3, <3>1, BufSizeAssumption DEF EmptyBlock
  <2>6. CASE a # n
    <3>1. nodes'[a] = nodes[a]
      BY <2>3, <2>6, <1>0 DEF TypeOK
    <3>2. b # block
      BY <2>4, <3>1, <1>1, <1>4, NullAssumption
    <3> QED BY <2>3, <3>1, <3>2, <1>1, <1>3
  <2> QED BY <2>5, <2>6
<1>7. CASE Set
  <2>1. PICK h \in NodeIds, value \in NodeIds, key \in Keys : ctache_data_hash_table_set(h, key, value)
    BY <1>7 DEF Set
  <2>2. /\ nodes[h].type = "hash"
        /\ nodes' = [nodes EXCEPT ![value].refcount = @ + 1]
        /\ blocks' = [blocks EXCEPT ![nodes[h].data].cells = WithCell(@, key, value)]
    BY <2>1 DEF ctache_data_hash_table_set, Is, Counted
  <2>3. nodes'[a].type = nodes[a].type /\ nodes'[a].data = nodes[a].data
    BY <2>2, <1>0, Typed DEF TypeOK, Node
  <2>4. nodes[h].data # b
    BY <2>2, <2>3, <1>0, <1>1, NullAssumption DEF Unshared
  <2> QED BY <2>2, <2>3, <2>4, <1>0, <1>1, <1>3 DEF TypeOK
<1>8. CASE AppendTo
  <2>1. PICK o \in NodeIds, value \in NodeIds, to \in BlockIds : ctache_data_array_append(o, value, to)
    BY <1>8 DEF AppendTo
  <2> DEFINE old == nodes[o].data
             stored == Stored(blocks[old], value)
  <2>2. /\ nodes[o].type = "array" /\ IsLive(o)
        /\ to = old \/ blocks[to].place = "new"
        /\ nodes' = [[nodes EXCEPT ![o].data = to] EXCEPT ![value].place = "cell"]
        /\ blocks' = [blocks EXCEPT ![old] = NoBlock("gone"), ![to] = stored]
    BY <2>1 DEF ctache_data_array_append, Is, Redirected, NewBlocks
  <2>3. old \in BlockIds
    BY <2>2, <1>0, <1>4 DEF NodeShape
  <2>4. nodes'[a].type = nodes[a].type /\ nodes'[a].data = IF a = o THEN to ELSE nodes[a].data
    BY <2>2, <1>0, Typed DEF TypeOK, Node
  <2> HIDE DEF stored, old
  <2>5. /\ blocks'[to] = stored /\ (old # to => blocks'[old] = NoBlock("gone"))
        /\ \A x \in BlockIds : x # old /\ x # to => blocks'[x] = blocks[x]
    BY <2>2, <2>3, <1>0 DEF TypeOK
  <2>6. CASE a = o
    <3>1. BlockIsLive(old)
      BY <1>8, <2>1, <2>3, NullAssumption, AtRest DEF ctache_data_array_append, old
    <3>2. Len(blocks[old].cells) < blocks[old].bufsize
      BY <2>2, <3>1 DEF BuffersHold, Is, Cells, old
    <3>3. blocks[old] \in Block
      BY <2>3, <1>0, Typed
    <3>4. Len(stored.cells) < stored.bufsize
      BY <3>2, <3>3, StoredFits DEF stored
    <3> QED BY <2>4, <2>5, <2>6, <3>4, <1>1
  <2>7. CASE a # o
    <3>1. nodes[a].type = "array" /\ nodes[a].data = b
      BY <2>4, <2>7, <1>1
    <3>2. b # old
      BY <2>2, <2>7, <3>1, <1>0, <1>5 DEF Unshared, old
    <3>3. b # to
      BY <2>2, <3>1, <3>2, <1>4, <1>5
    <3> QED BY <2>5, <3>1, <3>2, <3>3, <1>3
  <2> QED BY <2>6, <2>7
<1>9. CASE Merge
  <2>1. PICK first \in NodeIds, second \in NodeIds : ctache_data_merge_hashes(first, second)
    BY <1>9 DEF Merge
  <2> DEFINE cells == Copied(first) \o Copied(second)
             n == CHOOSE n \in NewNodes : TRUE
             new == CHOOSE x \in NewBlocks : TRUE
             height == nodes[IF nodes[first].height > nodes[second].height THEN first ELSE second].height
  <2>2. new \in BlockIds /\ blocks[new].place = "new"
    BY <2>1 DEF ctache_data_merge_hashes, NewBlocks
  <2>3. /\ nodes' = [Recounted(cells) EXCEPT ![n] = NewNode("hash", height, new)]
        /\ blocks' = [blocks EXCEPT ![new] = [EmptyBlock EXCEPT !.cells = cells]]
    BY <2>1 DEF ctache_data_merge_hashes
  <2> DEFINE R == Recounted(cells)
  <2>4. R = [m \in NodeIds |-> [nodes[m] EXCEPT !.refcount = @ + Cardinality(Occurrences(cells, m))]]
    BY DEF Recounted
  <2>5. DOMAIN R = NodeIds /\ R[a].type = nodes[a].type /\ R[a].data = nodes[a].data
    <3>1. nodes[a] \in [type : Types, refcount : Nat \cup {-1}, data : BlockIds \cup {NULL},
                        place : Places, height : 0 .. MaxHeight]
      BY <1>0, Typed DEF Node
    <3> HIDE DEF R, cells
    <3> QED BY <2>4, <3>1
  <2> HIDE DEF n, new, height, R
  <2>6. nodes' = [R EXCEPT ![n] = NewNode("hash", height, new)]
    BY <2>3 DEF R
  <2>7. a # n
    <3>1. a = n => nodes'[a] = NewNode("hash", height, new)
      BY <2>5, <2>6
    <3> QED BY <3>1 DEF NewNode
  <2>8. nodes[a].type = "array" /\ nodes[a].data = b
    BY <2>5, <2>6, <2>7, <1>1
  <2>9. b # new
    BY <2>2, <2>8, <1>4, <1>5
  <2> QED BY <2>3, <2>8, <2>9, <1>0, <1>3 DEF TypeOK
<1>10. CASE Destroy \/ Stopped \/ UNCHANGED vars
  BY <1>1, <1>3, <1>10 DEF Destroy, ctache_data_destroy, Stopped, vars
<1>11. CASE DestroyData \/ ReleaseCell
  <2>1. nodes' = [nodes EXCEPT ![Arg].refcount = @ - 1] /\ blocks' = blocks
    BY <1>11 DEF DestroyData, ReleaseCell, Discounted
  <2>2. nodes'[a].type = nodes[a].type /\ nodes'[a].data = nodes[a].data
    BY <2>1, <1>0, Typed DEF TypeOK, Node
  <2> QED BY <2>1, <2>2, <1>1, <1>3
<1>12. CASE DestroyBlock \/ DestroyNode
  <2>1. nodes'[a] = nodes[a] \/ nodes'[a] = NoNode("gone")
    BY <1>12, <1>0 DEF DestroyBlock, DestroyNode, TypeOK
  <2>2. blocks'[b] = blocks[b] \/ blocks'[b] = NoBlock("gone")
    BY <1>12, <1>0 DEF DestroyBlock, DestroyNode, TypeOK
  <2>3. nodes'[a] = nodes[a] /\ blocks'[b] = blocks[b]
    BY <2>1, <2>2, <1>2 DEF NoNode, NoBlock
  <2> QED BY <2>3, <1>1, <1>3
<1> QED BY <1>6, <1>7, <1>8, <1>9, <1>10, <1>11, <1>12 DEF Next

(***************************************************************************)
(* Arrays of any size and any capacity to start with: an array has more    *)
(* places than elements, however often its buffer is doubled and moved and *)
(* whatever hashes and arrays are destroyed in between                     *)
(* (lib/ctache_array.c:71).                                                *)
(***************************************************************************)
THEOREM ArraysFit == Spec => []BuffersHold
<1>1. Init => BuffersHold
  BY DEF Init, BuffersHold, Is, IsLive, NoNode
<1>2. IInv /\ BuffersHold /\ [Next]_vars => BuffersHold'
  BY RoomStep
<1> QED BY <1>1, <1>2, MemoryInvariant, PTL DEF Spec
=============================================================================
