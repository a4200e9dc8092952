----------------------------- MODULE YamlReader -----------------------------
(***************************************************************************)
(* data_from_yaml of src/yaml_data.c: a machine over the events that       *)
(* libyaml makes of a file, one action per branch of its switch.           *)
(*                                                                         *)
(* libyaml is external.  Its events nest as its documentation has them: a  *)
(* stream holds documents, a document one node, a mapping pairs of nodes;  *)
(* and at any point it may find that the file is no YAML.                  *)
(***************************************************************************)
EXTENDS Integers, Sequences, FiniteSets

CONSTANTS
    Words,              \* what scalars are made of, besides blanks
    Scalars,            \* the scalars of files
    NULL,
    MaxEvents           \* bound on the events of a file

BLANK == " "

Text == Seq(Words \cup {BLANK})

ASSUME ScalarsAssumption == Scalars \subseteq Text
ASSUME NullAssumption == NULL \notin Text
ASSUME MaxEventsAssumption == MaxEvents \in Nat

VARIABLES
    stream,             \* the events so far
    open,               \* libyaml: what is open in the file, innermost first
    nodes,              \* the data built so far; a pointer is an index
    data,               \* the node that is being filled, 0 for NULL
    data_stack,         \* those around it, innermost first
    key,                \* the pending key of a hash
    pc                  \* "reading", or how it ended

vars == <<stream, open, nodes, data, data_stack, key, pc>>

Outcomes == {"reading", "returned", "aborted", "crashed", "undefined"}

\* A boolean is a node of the type "true" or "false".
Types == {"hash", "array", "string", "true", "false"}

Node == [type : Types, text : Text,
         cells : Seq([key : Text \cup {NULL}, value : Nat])]

New(type, text) == [type |-> type, text |-> text, cells |-> <<>>]
-----------------------------------------------------------------------------
(***************************************************************************)
(* The events of libyaml.  What is open is a document before or after its  *)
(* node, a sequence, or a mapping before a key or before a value.          *)
(***************************************************************************)
Event(type, value) == [type |-> type, value |-> value]
Plain(type) == Event(type, <<>>)

NodeEvents == {"ALIAS", "SCALAR", "SEQUENCE_START", "MAPPING_START"}

AfterNode == [document |-> "ended", sequence |-> "sequence", key |-> "value", value |-> "key"]

Allowed(where, type) ==
    \/ type \in NodeEvents /\ where \in DOMAIN AfterNode
    \/ <<where, type>> \in {<<"start", "STREAM_START">>, <<"stream", "DOCUMENT_START">>,
                            <<"stream", "STREAM_END">>, <<"ended", "DOCUMENT_END">>,
                            <<"sequence", "SEQUENCE_END">>, <<"key", "MAPPING_END">>}

\* What an event opens.
Opening(type) ==
    CASE type = "STREAM_START"   -> <<"stream">>
      [] type = "DOCUMENT_START" -> <<"document">>
      [] type = "SEQUENCE_START" -> <<"sequence">>
      [] type = "MAPPING_START"  -> <<"key">>
      [] OTHER -> <<>>

\* What is left open of what was.
Remaining(places, type) ==
    IF type \in NodeEvents THEN <<AfterNode[Head(places)]>> \o Tail(places)
    ELSE IF type = "DOCUMENT_START" THEN places
    ELSE Tail(places)

Opened(places, type) == Opening(type) \o Remaining(places, type)

\* The bound leaves room for closing what is open.
Room(type) == Len(stream) + 1 + Len(Opened(open, type)) <= MaxEvents

Parsed(event) ==
    /\ pc = "reading" /\ Allowed(Head(open), event.type) /\ Room(event.type)
    /\ stream' = Append(stream, event)
    /\ open' = Opened(open, event.type)
-----------------------------------------------------------------------------
(***************************************************************************)
(* What the reader does with them.  An operator whose name ends in _Slip   *)
(* is a plausible slip in the operator after it, kept to show that a       *)
(* property would notice.                                                  *)
(***************************************************************************)
Filling(type) == data # 0 /\ nodes[data].type = type

\* The lengths are computed apart; blanks alone are counted twice.
Leading(value) ==
    Cardinality({n \in 1 .. Len(value) : \A k \in 1 .. n : value[k] = BLANK})
Trailing(value) ==
    Cardinality({n \in 1 .. Len(value) : \A k \in n .. Len(value) : value[k] = BLANK})

yaml_strtrim_Slip(value) == SubSeq(value, Leading(value) + 1, Len(value))
yaml_strtrim(value) ==
    LET trimmed_length == Len(value) - Leading(value) - Trailing(value) IN
    IF trimmed_length > 0
    THEN SubSeq(value, Leading(value) + 1, Leading(value) + trimmed_length)
    ELSE NULL

\* An element of an array is copied with the length it had before it was
\* trimmed; its buffer has room for the terminator only.
ReadsBeyond(value) ==
    yaml_strtrim(value) # NULL /\ Len(value) > Len(yaml_strtrim(value)) + 1

\* The values of hashes that are no strings.
ScalarNode(value) ==
    IF value = <<"true">> THEN New("true", <<>>)
    ELSE IF value = <<"false">> THEN New("false", <<>>)
    ELSE New("string", value)

\* A new node becomes the last cell of the one being filled.
AttachedTo(h, node, under) ==
    Append([nodes EXCEPT ![h].cells = Append(@, [key |-> under, value |-> Len(nodes) + 1])],
           node)

Attached_Slip(node, under) == Append(nodes, node)
Attached(node, under) == AttachedTo(data, node, under)

\* The new node is filled next.
Pushed_Slip == Append(data_stack, data)
Pushed == <<data>> \o data_stack

Descend(node, under) ==
    /\ nodes' = Attached(node, under)
    /\ data_stack' = Pushed
    /\ data' = Len(nodes) + 1

Ascend ==
    IF Len(data_stack) > 0 THEN data' = Head(data_stack) /\ data_stack' = Tail(data_stack)
                           ELSE UNCHANGED <<data, data_stack>>

\* abort(), or what the C standard leaves open.
Stop(how) == pc' = how /\ UNCHANGED <<nodes, data, data_stack, key>>
-----------------------------------------------------------------------------
Init ==
    /\ stream = <<>> /\ open = <<"start">>
    /\ nodes = <<>> /\ data = 0 /\ data_stack = <<>> /\ key = NULL
    /\ pc = "reading"

RootMapping ==
    /\ Parsed(Plain("MAPPING_START")) /\ data = 0
    /\ nodes' = <<New("hash", <<>>)>> /\ data' = 1 /\ key' = NULL
    /\ UNCHANGED <<data_stack, pc>>

MappingInHash ==
    /\ Parsed(Plain("MAPPING_START")) /\ Filling("hash") /\ key # NULL
    /\ Descend(New("hash", <<>>), key)
    /\ key' = NULL
    /\ UNCHANGED pc

\* The array has a copy, which is filled next.
MappingInArray ==
    /\ Parsed(Plain("MAPPING_START")) /\ Filling("array")
    /\ Descend(New("hash", <<>>), NULL)
    /\ key' = NULL
    /\ UNCHANGED pc

MappingWithoutKey ==
    /\ Parsed(Plain("MAPPING_START")) /\ Filling("hash") /\ key = NULL
    /\ Stop("aborted")

ScalarKey(value) ==
    /\ Parsed(Event("SCALAR", value)) /\ Filling("hash") /\ key = NULL
    /\ key' = value
    /\ UNCHANGED <<nodes, data, data_stack, pc>>

ScalarValue_TypeSlip(value) ==
    /\ Parsed(Event("SCALAR", value)) /\ Filling("hash") /\ key # NULL
    /\ Descend(ScalarNode(value), key)
    /\ key' = NULL
    /\ UNCHANGED pc
ScalarValue_StackSlip(value) ==
    /\ Parsed(Event("SCALAR", value)) /\ Filling("hash") /\ key # NULL
    /\ nodes' = AttachedTo(IF data_stack = <<>> THEN data ELSE Head(data_stack),
                           ScalarNode(value), key)
    /\ key' = NULL
    /\ UNCHANGED <<data, data_stack, pc>>
ScalarValue(value) ==
    /\ Parsed(Event("SCALAR", value)) /\ Filling("hash") /\ key # NULL
    /\ nodes' = Attached(ScalarNode(value), key)
    /\ key' = NULL
    /\ UNCHANGED <<data, data_stack, pc>>

\* The terminator follows the trimmed text, whatever is copied after it.
Element(value) ==
    /\ Parsed(Event("SCALAR", value)) /\ Filling("array") /\ yaml_strtrim(value) # NULL
    /\ nodes' = Attached(New("string", yaml_strtrim(value)), NULL)
    /\ UNCHANGED <<data, data_stack, key, pc>>

ElementBeyond(value) ==
    /\ Parsed(Event("SCALAR", value)) /\ Filling("array") /\ ReadsBeyond(value)
    /\ Stop("undefined")

BlankElement(value) ==
    /\ Parsed(Event("SCALAR", value)) /\ Filling("array") /\ yaml_strtrim(value) = NULL
    /\ UNCHANGED <<nodes, data, data_stack, key, pc>>

ScalarBeforeData(value) ==
    /\ Parsed(Event("SCALAR", value)) /\ data = 0
    /\ Stop("crashed")

\* The pending key of a mapping that ends is lost.
MappingEnd ==
    /\ Parsed(Plain("MAPPING_END"))
    /\ Ascend
    /\ key' = NULL
    /\ UNCHANGED <<nodes, pc>>

\* The key stays pending in the sequence.
SequenceInHash ==
    /\ Parsed(Plain("SEQUENCE_START")) /\ Filling("hash") /\ key # NULL
    /\ Descend(New("array", <<>>), key)
    /\ UNCHANGED <<key, pc>>

SequenceWithoutKey ==
    /\ Parsed(Plain("SEQUENCE_START")) /\ key = NULL
    /\ Stop("aborted")

\* An array is taken for a hash table.
SequenceInArray ==
    /\ Parsed(Plain("SEQUENCE_START")) /\ Filling("array") /\ key # NULL
    /\ Stop("undefined")

KeyAfterSequence == NULL

SequenceEnd ==
    /\ Parsed(Plain("SEQUENCE_END"))
    /\ Ascend
    /\ key' = KeyAfterSequence
    /\ UNCHANGED <<nodes, pc>>

IgnoredEvent ==
    /\ \E type \in {"STREAM_START", "DOCUMENT_START", "DOCUMENT_END", "ALIAS"} :
          Parsed(Plain(type))
    /\ UNCHANGED <<nodes, data, data_stack, key, pc>>

\* What is returned is the node being filled.
StreamEnd ==
    /\ Parsed(Plain("STREAM_END"))
    /\ pc' = "returned" /\ key' = NULL
    /\ UNCHANGED <<nodes, data, data_stack>>

\* The file is no YAML from here on.
ParseFails ==
    /\ pc = "reading"
    /\ pc' = "returned" /\ key' = NULL
    /\ UNCHANGED <<stream, open, nodes, data, data_stack>>

Stopped == pc # "reading" /\ UNCHANGED vars

Scalar == \E value \in Scalars :
    \/ ScalarKey(value) \/ ScalarValue(value) \/ ScalarBeforeData(value)
    \/ Element(value) \/ ElementBeyond(value) \/ BlankElement(value)

Next ==
    \/ RootMapping \/ MappingInHash \/ MappingInArray \/ MappingWithoutKey \/ MappingEnd
    \/ Scalar
    \/ SequenceInHash \/ SequenceWithoutKey \/ SequenceInArray \/ SequenceEnd
    \/ IgnoredEvent \/ StreamEnd \/ ParseFails \/ Stopped

Spec == Init /\ [][Next]_vars
-----------------------------------------------------------------------------
(***************************************************************************)
(* The reader's variables keep their types.  In particular a scalar, a     *)
(* mapping or a sequence finds nothing but a hash or an array being        *)
(* filled: the branches for an "Invalid data type" and an "Unexpected data *)
(* type" are dead.                                                         *)
(***************************************************************************)
TypeOK ==
    /\ nodes \in Seq(Node)
    /\ data \in 0 .. Len(nodes) /\ data_stack \in Seq(1 .. Len(nodes))
    /\ key \in Text \cup {NULL}
    /\ pc \in Outcomes
    /\ data # 0 => nodes[data].type \in {"hash", "array"}

Cells(n) == nodes[n].cells

\* The node being filled and those around it.
Path == <<data>> \o data_stack

(***************************************************************************)
(* Whatever events come in whatever order, the stack leads from the root   *)
(* to the node being filled, each node the last cell of the one below it:  *)
(* what ends is what began last.                                           *)
(***************************************************************************)
StackIsPath ==
    IF data = 0 THEN nodes = <<>> /\ data_stack = <<>>
    ELSE /\ Path[Len(Path)] = 1
         /\ \A k \in 1 .. Len(Path) - 1 :
               LET cells == Cells(Path[k + 1])
               IN Len(cells) > 0 /\ cells[Len(cells)].value = Path[k]

(***************************************************************************)
(* All that is built is one tree: every node but the root is the value of  *)
(* exactly one cell, of a node made earlier.  So destroying the root frees *)
(* everything once; this is the discipline that DataStore asks of callers. *)
(***************************************************************************)
IsTree ==
    /\ \A n \in 2 .. Len(nodes) :
          \E h \in 1 .. n - 1 : \E k \in 1 .. Len(Cells(h)) : Cells(h)[k].value = n
    /\ \A h \in 1 .. Len(nodes) : \A k \in 1 .. Len(Cells(h)) :
          Cells(h)[k].value \in h + 1 .. Len(nodes)
    /\ \A g, h \in 1 .. Len(nodes) :
          \A j \in 1 .. Len(Cells(g)), k \in 1 .. Len(Cells(h)) :
             Cells(g)[j].value = Cells(h)[k].value => g = h /\ j = k

\* The pointers that the reader holds.
Held == {data} \cup {data_stack[k] : k \in 1 .. Len(data_stack)}

(***************************************************************************)
(* data and the stack hold pointers into the buffers of arrays             *)
(* (yaml_data.c:146), which an append may move: nothing is appended to an  *)
(* array while a pointer to one of its elements is held.                   *)
(***************************************************************************)
PointersStay ==
    [][\A a \in 1 .. Len(nodes) :
          nodes[a].type = "array" /\ Len(nodes'[a].cells) > Len(Cells(a)) =>
             \A k \in 1 .. Len(Cells(a)) : Cells(a)[k].value \notin Held]_vars
=============================================================================
