----------------------------- MODULE DataStore -----------------------------
(***************************************************************************)
(* The memory behind ctache_data_t: lib/ctache_data.c with the hash table, *)
(* the array and the string that it stores its values in.                  *)
(*                                                                         *)
(* A node is a struct ctache_data, allocated by itself or standing in an   *)
(* array's buffer; a block is what its data pointer leads to.  Strings     *)
(* have a block that is only allocated and freed; numbers, booleans and    *)
(* times are "scalar" and have none.  The hash function and its buckets    *)
(* are left out: cells are in the order in which a bucket has them.        *)
(*                                                                         *)
(* The callers follow the discipline of the readers and of the tests:      *)
(*   - what is put into a hash or an array stands below it, and is no      *)
(*     element of an array; several hashes may share a value;              *)
(*   - a node is appended to an array at most once, before anything else   *)
(*     refers to it, and not used afterwards;                              *)
(*   - a node that nothing refers to is destroyed by its owner, once.      *)
(***************************************************************************)
EXTENDS Integers, Sequences, FiniteSets

CONSTANTS
    Keys,               \* the keys of hashes
    NULL,
    NodeIds, BlockIds,  \* the addresses that nodes and blocks are given
    BUF_SIZE,           \* 10 in the code: the least capacity of an array
    MaxHeight,          \* how deep hashes and arrays are nested
    MaxCells            \* bound on the cells of a block

ASSUME BufSizeAssumption == BUF_SIZE \in Nat \ {0}
ASSUME HeightAssumption  == MaxHeight \in Nat
ASSUME NullAssumption    == NULL \notin Keys \cup NodeIds \cup BlockIds
ASSUME MemoryAssumption  == IsFiniteSet(BlockIds) /\ MaxCells \in Nat

VARIABLES
    nodes,              \* address -> [type, refcount, data, place, height]
    blocks,             \* address -> [cells, bufsize, place]
    todo                \* what a running ctache_data_destroy has still to do

vars == <<nodes, blocks, todo>>

Types == {"hash", "array", "string", "scalar"}

(***************************************************************************)
(* Where a node is: "heap" if allocated by itself, "cell" in an array's    *)
(* buffer, "new" if not yet allocated and "gone" if freed: an address is   *)
(* not given out twice.  Its height is how deep its owner means to build   *)
(* below it; the code has no such field.  A count of -1 is that of a node  *)
(* being destroyed.                                                        *)
(***************************************************************************)
Places == {"new", "heap", "cell", "gone"}

Node == [type : Types, refcount : Nat \cup {-1}, data : BlockIds \cup {NULL},
         place : Places, height : 0 .. MaxHeight]

\* A hash's cell holds a key, an array's holds NULL for it.
Cell == [key : Keys \cup {NULL}, value : NodeIds]

Block == [cells : Seq(Cell), bufsize : Nat, place : Places \ {"cell"}]

NoNode(place)  == [type |-> "scalar", refcount |-> 0, data |-> NULL,
                   place |-> place, height |-> 0]
NoBlock(place) == [cells |-> <<>>, bufsize |-> 0, place |-> place]

Idle == todo = <<>>

IsLive(n) == nodes[n].place \in {"heap", "cell"}
Is(n, type) == IsLive(n) /\ nodes[n].type = type

NewNodes  == {n \in NodeIds : nodes[n].place = "new"}
NewBlocks == {b \in BlockIds : blocks[b].place = "new"}

BlockIsLive(b) == blocks[b].place = "heap"

Cells(n) == blocks[nodes[n].data].cells
Values(b) == {blocks[b].cells[k].value : k \in DOMAIN blocks[b].cells}
Holders(n) == {b \in BlockIds : n \in Values(b)}

\* Nothing refers to the node but its owner.
Owned(n) == nodes[n].place = "heap" /\ Holders(n) = {}
-----------------------------------------------------------------------------
(***************************************************************************)
(* What callers do.  An operator whose name ends in _Slip is a plausible   *)
(* slip in the operator after it, kept to show that a property would       *)
(* notice.                                                                 *)
(***************************************************************************)
Init == /\ nodes = [n \in NodeIds |-> NoNode("new")]
        /\ blocks = [b \in BlockIds |-> NoBlock("new")]
        /\ todo = <<>>

\* An array for fewer elements than BUF_SIZE; only arrays use the size.
EmptyBlock == [cells |-> <<>>, bufsize |-> BUF_SIZE, place |-> "heap"]

\* Data starts with a count of zero.
NewNode(type, height, b) ==
    [type |-> type, refcount |-> 0, data |-> b, place |-> "heap", height |-> height]

ctache_data_create(type, height) ==
    /\ Idle /\ NewNodes # {} /\ NewBlocks # {}
    /\ height = 0 <=> type \in {"string", "scalar"}
    /\ LET n == CHOOSE n \in NewNodes : TRUE
           b == IF type = "scalar" THEN NULL ELSE CHOOSE b \in NewBlocks : TRUE
       IN /\ nodes' = [nodes EXCEPT ![n] = NewNode(type, height, b)]
          /\ blocks' = [x \in BlockIds |-> IF x = b THEN EmptyBlock ELSE blocks[x]]
    /\ UNCHANGED todo

Counted_TypeSlip(n) == nodes
Counted_Slip(n) == [nodes EXCEPT ![n].refcount = IF @ = 0 THEN 1 ELSE @]
Counted(n) == [nodes EXCEPT ![n].refcount = @ + 1]

\* Another cell, also for a key that the hash already has.
WithCell(cells, key, value) == Append(cells, [key |-> key, value |-> value])

ctache_data_hash_table_set(h, key, value) ==
    /\ Idle /\ Is(h, "hash") /\ Len(Cells(h)) < MaxCells
    /\ nodes[value].place = "heap" /\ nodes[value].height < nodes[h].height
    /\ nodes' = Counted(value)
    /\ blocks' = [blocks EXCEPT ![nodes[h].data].cells = WithCell(@, key, value)]
    /\ UNCHANGED todo

\* The last place of the buffer is not used.
Full_Slip(array) == Len(array.cells) > array.bufsize
Full(array) == Len(array.cells) + 1 >= array.bufsize

Grown(array) == IF Full(array) THEN [array EXCEPT !.bufsize = @ * 2] ELSE array

Stored(array, value) == [Grown(array) EXCEPT !.cells = WithCell(@, NULL, value)]

(***************************************************************************)
(* ctache_array_append copies the node, count and data pointer, into the   *)
(* buffer, which realloc may have moved to b: then the array's node points *)
(* there.  The copy takes over the name of the original, which the caller  *)
(* frees (yaml_data.c) or forgets.                                         *)
(***************************************************************************)
Redirected_Slip(a, b) == nodes
Redirected(a, b) == [nodes EXCEPT ![a].data = b]

ctache_data_array_append(a, value, b) ==
    LET old == nodes[a].data IN
    /\ Idle /\ Is(a, "array") /\ Len(Cells(a)) < MaxCells
    /\ Owned(value) /\ nodes[value].height < nodes[a].height
    /\ b = old \/ (Full(blocks[old]) /\ b \in NewBlocks)
    /\ nodes' = [Redirected(a, b) EXCEPT ![value].place = "cell"]
    /\ blocks' = [blocks EXCEPT ![old] = NoBlock("gone"), ![b] = Stored(blocks[old], value)]
    /\ UNCHANGED todo

\* ctache_hash_table_get: the first cell that has the key.
Get(cells, key) ==
    LET first == CHOOSE k \in DOMAIN cells :
                    cells[k].key = key /\ \A j \in 1 .. k - 1 : cells[j].key # key
    IN cells[first].value

\* The cells that copying a hash key by key makes.
Copied(h) == [k \in DOMAIN Cells(h) |->
                [key |-> Cells(h)[k].key, value |-> Get(Cells(h), Cells(h)[k].key)]]

Occurrences(cells, n) == {k \in DOMAIN cells : cells[k].value = n}

Recounted_Slip(cells) == nodes
Recounted(cells) ==
    [n \in NodeIds |->
        [nodes[n] EXCEPT !.refcount = @ + Cardinality(Occurrences(cells, n))]]

\* The keys are listed in two arrays that are destroyed at the end.
ctache_data_merge_hashes(first, second) ==
    LET cells  == Copied(first) \o Copied(second)
        n      == CHOOSE n \in NewNodes : TRUE
        b      == CHOOSE b \in NewBlocks : TRUE
        higher == IF nodes[first].height > nodes[second].height THEN first ELSE second
    IN
    /\ Idle /\ Is(first, "hash") /\ Is(second, "hash")
    /\ NewNodes # {} /\ NewBlocks # {} /\ Len(cells) <= MaxCells
    /\ nodes' = [Recounted(cells) EXCEPT ![n] = NewNode("hash", nodes[higher].height, b)]
    /\ blocks' = [blocks EXCEPT ![b] = [EmptyBlock EXCEPT !.cells = cells]]
    /\ UNCHANGED todo
-----------------------------------------------------------------------------
(***************************************************************************)
(* ctache_data_destroy recurs through hashes and arrays.  A step of it is  *)
(* the head of todo; what a step calls comes before what is left to do.    *)
(***************************************************************************)
Do(what, arg) == [do |-> what, arg |-> arg]

Doing(what) == ~Idle /\ Head(todo).do = what
Arg == Head(todo).arg

ctache_data_destroy(n) ==
    /\ Idle /\ Owned(n)
    /\ todo' = <<Do("destroy", n)>>
    /\ UNCHANGED <<nodes, blocks>>

\* What the data of node n calls for, and the freeing of the node itself
\* unless it stands in a buffer.
ForCells(n) ==
    IF nodes[n].type \in {"hash", "array"}
    THEN [k \in DOMAIN Cells(n) |->
            Do(IF nodes[n].type = "hash" THEN "release" ELSE "destroy", Cells(n)[k].value)]
    ELSE <<>>

ForBlock(n) == IF nodes[n].type = "scalar" THEN <<>> ELSE <<Do("free_block", nodes[n].data)>>

ForNode(n) == IF nodes[n].place = "cell" THEN <<>> ELSE <<Do("free_node", n)>>

Discounted == nodes' = [nodes EXCEPT ![Arg].refcount = @ - 1]

InUse == nodes[Arg].refcount - 1 > 0

DataIsLive == nodes[Arg].data # NULL => BlockIsLive(nodes[Arg].data)

\* The count goes down; while it is positive that is all.
DestroyData ==
    /\ Doing("destroy") /\ IsLive(Arg) /\ (InUse \/ DataIsLive)
    /\ Discounted
    /\ todo' = (IF InUse THEN <<>> ELSE ForCells(Arg) \o ForBlock(Arg) \o ForNode(Arg))
               \o Tail(todo)
    /\ UNCHANGED blocks

\* ctache_hash_table_destroy counts down by itself and then lets
\* ctache_data_destroy do it once more.
Released_Slip == <<Do("destroy", Arg)>>
Released == IF InUse THEN <<>> ELSE <<Do("destroy", Arg)>>

ReleaseCell ==
    /\ Doing("release") /\ IsLive(Arg)
    /\ Discounted
    /\ todo' = Released \o Tail(todo)
    /\ UNCHANGED blocks

\* With an array's buffer go the nodes in it.
DestroyBlock ==
    /\ Doing("free_block") /\ BlockIsLive(Arg)
    /\ blocks' = [blocks EXCEPT ![Arg] = NoBlock("gone")]
    /\ nodes' = [n \in NodeIds |-> IF n \in Values(Arg) /\ nodes[n].place = "cell"
                                   THEN NoNode("gone") ELSE nodes[n]]
    /\ todo' = Tail(todo)

DestroyNode ==
    /\ Doing("free_node") /\ nodes[Arg].place = "heap"
    /\ nodes' = [nodes EXCEPT ![Arg] = NoNode("gone")]
    /\ todo' = Tail(todo)
    /\ UNCHANGED blocks

\* The caller may leave it at that.
Stopped == Idle /\ UNCHANGED vars

Create  == \E type \in Types, height \in 0 .. MaxHeight : ctache_data_create(type, height)
Set     == \E h, value \in NodeIds, key \in Keys : ctache_data_hash_table_set(h, key, value)
AppendTo == \E a, value \in NodeIds, b \in BlockIds : ctache_data_array_append(a, value, b)
Merge   == \E first, second \in NodeIds : ctache_data_merge_hashes(first, second)
Destroy == \E n \in NodeIds : ctache_data_destroy(n)

Next ==
    \/ Create \/ Set \/ AppendTo \/ Merge \/ Destroy
    \/ DestroyData \/ ReleaseCell \/ DestroyBlock \/ DestroyNode
    \/ Stopped

Spec == Init /\ [][Next]_vars
-----------------------------------------------------------------------------
TypeOK ==
    /\ nodes \in [NodeIds -> Node] /\ blocks \in [BlockIds -> Block]
    /\ todo \in Seq([do : {"destroy", "release", "free_node"}, arg : NodeIds]
                    \cup [do : {"free_block"}, arg : BlockIds])

(***************************************************************************)
(* No sequence of calls that keeps to the discipline makes the destructors *)
(* use freed memory or free it twice, whatever hashes share their values   *)
(* and in whatever order their owners destroy them: ctache_hash_table_     *)
(* destroy counts a value down and hands it to ctache_data_destroy, which  *)
(* counts it down again and reads it.                                      *)
(***************************************************************************)
NothingFreedIsUsed ==
    /\ Doing("destroy") => IsLive(Arg) /\ (InUse \/ DataIsLive)
    /\ Doing("release") => IsLive(Arg)
    /\ Doing("free_block") => BlockIsLive(Arg)
    /\ Doing("free_node") => nodes[Arg].place = "heap"

References(n) ==
    Cardinality({cell \in BlockIds \X (1 .. MaxCells) :
                    LET cells == blocks[cell[1]].cells IN
                    cell[2] \in DOMAIN cells /\ cells[cell[2]].value = n})

(***************************************************************************)
(* Between calls, the count of a node is the number of cells of hashes     *)
(* that hold it (tests/test_hash_table.c:106-109): merging adds, arrays do *)
(* not count, and what destruction has counted down is right for those     *)
(* that still hold it.                                                     *)
(***************************************************************************)
CountsAreReferences ==
    Idle => \A n \in NodeIds :
        nodes[n].place = "heap" => nodes[n].refcount = References(n)

(***************************************************************************)
(* Between calls, all that is allocated is still wanted: a live block      *)
(* belongs to exactly one node, and a node in an array stands in a live    *)
(* buffer.  So when all owners have destroyed what is theirs, nothing is   *)
(* left but the structs whose contents were appended to an array: freeing  *)
(* these is up to the caller, and not followed here.  An array that moves  *)
(* takes its elements along, and destroying it frees the data of each      *)
(* once.                                                                   *)
(***************************************************************************)
NothingLeaks ==
    Idle =>
        /\ \A b \in BlockIds :
              Cardinality({n \in NodeIds : nodes[n].data = b}) = IF BlockIsLive(b) THEN 1 ELSE 0
        /\ \A n \in NodeIds :
              nodes[n].place = "cell" => Cardinality(Holders(n)) = 1

(***************************************************************************)
(* However often its buffer has been doubled or moved, an array has more   *)
(* places than elements, at every step and also while it is destroyed      *)
(* (ctache_array_append, lib/ctache_array.c:71).                           *)
(***************************************************************************)
BuffersHold ==
    \A a \in NodeIds : Is(a, "array") /\ BlockIsLive(nodes[a].data) =>
        Len(Cells(a)) < blocks[nodes[a].data].bufsize
=============================================================================
