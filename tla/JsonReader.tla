----------------------------- MODULE JsonReader -----------------------------
(***************************************************************************)
(* data_from_json of src/json_data.c: read_object and read_array, which    *)
(* call each other, over the tokens of JsonParser.  An action is what is   *)
(* done with one token, up to the next call of json_next_token.  The cells *)
(* of a hash are what was set, in order: that a key set twice has one      *)
(* value, and who owns the struct that an array copies, is of DataStore.   *)
(* The parser and the file are never released; that is left out.           *)
(***************************************************************************)
EXTENDS JsonParser, FiniteSets

CONSTANTS
    Texts,              \* the files
    UninitTypes,        \* what the type of a token may be that was never set
    NULL

ASSUME NullAssumption == NULL # JUNK

\* The texts are C strings, and junk is none.
ASSUME TextsAssumption ==
    Texts \subseteq Seq(STRING) /\ NUL \notin STRING /\ JUNK \notin Seq(STRING)

VARIABLES
    token_type,         \* of the parser's token
    calls,              \* the calls of read_object and read_array, innermost first
    nodes,              \* the data made so far; a pointer is an index, 0 is NULL
    destroyed,          \* those given to ctache_data_destroy, with all below
    data,               \* what is returned
    pc                  \* "reading", or how it ended

vars == <<json, json_p, token_type, calls, nodes, destroyed, data, pc>>

\* A boolean is a node of the type "true" or "false".
New(type, text) == [type |-> type, text |-> text, cells |-> <<>>]

\* A call: what it reads, its data, its key, and which token it needs next;
\* "last" instead of "more" when the array's loop ends after it.
CallOf(what, n) ==
    [what |-> what, data |-> n, key |-> NULL,
     needs |-> IF what = "object" THEN "key" ELSE "element"]

Running == calls[1]
Needs(what, token) == calls # <<>> /\ Running.what = what /\ Running.needs = token

\* What ctache_data_destroy reaches from n: the least set that has n and all
\* that is in the cells of its members.
IsWhole(S) == \A m \in S : \A k \in DOMAIN nodes[m].cells : nodes[m].cells[k].value \in S
Below(n) == {m \in DOMAIN nodes :
                \A S \in SUBSET DOMAIN nodes : n \in S /\ IsWhole(S) => m \in S}
-----------------------------------------------------------------------------
(***************************************************************************)
(* Reading a token.  The first call of json_next_token frees what the      *)
(* parser's token has, if its type happens to be that of a string.         *)
(***************************************************************************)
Unlucky == json_p = 1 /\ token_type = "STRING"

Tok == json_next_token

CanRead == pc = "reading" /\ IsInside /\ ~Unlucky

Reads(types) ==
    /\ CanRead /\ Tok.type \in types
    /\ json_p' = Tok.next /\ token_type' = Tok.type
    /\ UNCHANGED json

\* What the C standard leaves open.
Undefined ==
    /\ pc' = "undefined"
    /\ UNCHANGED <<calls, nodes, destroyed, data>>

ReadsBeyond ==
    /\ pc = "reading" /\ ~CanRead
    /\ Undefined
    /\ UNCHANGED <<json, json_p, token_type>>

Continue(token) == calls' = [calls EXCEPT ![1].needs = token]

\* A string or boolean is stored at once; a call is made for what is deeper.
Leaf(node) ==
    /\ nodes' = Append([nodes EXCEPT ![Running.data].cells =
                           Append(@, [key |-> Running.key, value |-> Len(nodes) + 1])], node)
    /\ Continue("more")
    /\ UNCHANGED <<destroyed, data, pc>>

Begin(what) ==
    /\ nodes' = Append(nodes, New(IF what = "object" THEN "hash" ELSE "array", <<>>))
    /\ calls' = <<CallOf(what, Len(nodes) + 1)>> \o
                IF calls = <<>> THEN <<>> ELSE [calls EXCEPT ![1].needs = "more"]
    /\ UNCHANGED <<destroyed, data, pc>>

\* To the caller with data, which it stores.
Returned_Slip == [key |-> Running.key, value |-> Running.data]
Returned == [key |-> calls[2].key, value |-> Running.data]

ReturnData ==
    /\ calls' = Tail(calls)
    /\ IF Len(calls) = 1
       THEN data' = Running.data /\ pc' = "returned" /\ UNCHANGED nodes
       ELSE /\ nodes' = [nodes EXCEPT ![calls[2].data].cells = Append(@, Returned)]
            /\ UNCHANGED <<data, pc>>
    /\ UNCHANGED destroyed

\* To the caller with NULL: an array leaves it out, a hash follows it.
Destroyed_Slip == destroyed \cup {Running.data}
Destroyed == destroyed \cup Below(Running.data)

ReturnNull ==
    /\ destroyed' = Destroyed
    /\ calls' = Tail(calls)
    /\ pc' = IF Len(calls) = 1 THEN "returned"
             ELSE IF calls[2].what = "object" THEN "crashed" ELSE "reading"
    /\ UNCHANGED <<nodes, data>>
-----------------------------------------------------------------------------
Init ==
    /\ json \in Texts /\ json_p = 1
    /\ token_type \in UninitTypes
    /\ calls = <<>> /\ nodes = <<>> /\ destroyed = {} /\ data = 0
    /\ pc = "reading"

AllTypes == {Mark[c] : c \in DOMAIN Mark} \cup {"STRING", "NUMBER", "BOOLEAN", "NONE", "END"}

FirstBrace == calls = <<>> /\ Reads({"BRACE_LEFT"}) /\ Begin("object")

BadData ==
    /\ calls = <<>> /\ Reads(AllTypes \ {"BRACE_LEFT"})
    /\ pc' = "returned"
    /\ UNCHANGED <<calls, nodes, destroyed, data>>

ObjectKey ==
    /\ Needs("object", "key") /\ Reads({"STRING"}) /\ Tok.value # JUNK
    /\ calls' = [calls EXCEPT ![1].key = Tok.value, ![1].needs = "colon"]
    /\ UNCHANGED <<nodes, destroyed, data, pc>>

ObjectColon ==
    /\ Needs("object", "colon") /\ Reads({"COLON"})
    /\ Continue("value")
    /\ UNCHANGED <<nodes, destroyed, data, pc>>

ObjectValue ==
    /\ Needs("object", "value")
    /\ \/ Reads({"STRING"}) /\ Tok.value # JUNK /\ Leaf(New("string", Tok.value))
       \/ Reads({"BOOLEAN"}) /\ Leaf(New(Tok.value[1], <<>>))
       \/ Reads({"BRACE_LEFT"}) /\ Begin("object")
       \/ Reads({"BRACKET_LEFT"}) /\ Begin("array")

ObjectComma ==
    /\ Needs("object", "more") /\ Reads({"COMMA"})
    /\ Continue("key")
    /\ UNCHANGED <<nodes, destroyed, data, pc>>

ObjectEnd == Needs("object", "more") /\ Reads({"BRACE_RIGHT"}) /\ ReturnData

ArrayElement ==
    /\ Needs("array", "element")
    /\ \/ Reads({"STRING"}) /\ Tok.value # JUNK /\ Leaf(New("string", Tok.value))
       \/ Reads({"BRACE_LEFT"}) /\ Begin("object")

\* Where an element could be, a bracket ends the loop after one more token.
ArrayClosedAtOnce ==
    /\ Needs("array", "element") /\ Reads({"BRACKET_RIGHT"})
    /\ Continue("last")
    /\ UNCHANGED <<nodes, destroyed, data, pc>>

ArrayComma ==
    /\ Needs("array", "more") /\ Reads({"COMMA"})
    /\ Continue("element")
    /\ UNCHANGED <<nodes, destroyed, data, pc>>

ArrayEnd ==
    \/ Needs("array", "more") /\ Reads({"BRACKET_RIGHT"}) /\ ReturnData
    \/ Needs("array", "last") /\ Reads({"BRACKET_RIGHT", "COMMA"}) /\ ReturnData

\* What a call can go on with.
Expected(call) ==
    CASE call.needs = "key"     -> AllTypes
      [] call.needs = "colon"   -> {"COLON"}
      [] call.needs = "value"   -> {"STRING", "BOOLEAN", "BRACE_LEFT", "BRACKET_LEFT"}
      [] call.needs = "element" -> {"STRING", "BRACE_LEFT", "BRACKET_RIGHT"}
      [] call.needs = "more"    -> {"COMMA", IF call.what = "object" THEN "BRACE_RIGHT"
                                                                      ELSE "BRACKET_RIGHT"}
      [] call.needs = "last"    -> {"COMMA", "BRACKET_RIGHT"}

\* An array that goes on to the next token instead.
Unexpected_Slip ==
    /\ pc = "reading" /\ calls # <<>>
    /\ Reads(AllTypes \ Expected(Running))
    /\ IF Running.what = "object" THEN ReturnNull
       ELSE UNCHANGED <<calls, nodes, destroyed, data, pc>>

Unexpected ==
    /\ pc = "reading" /\ calls # <<>>
    /\ Reads(AllTypes \ Expected(Running))
    /\ ReturnNull

\* The value of the token is read as a string and is none: a key is taken
\* from any token, and a string may be unterminated.
NoString ==
    /\ pc = "reading" /\ calls # <<>>
    /\ \/ Running.needs = "key" /\ Reads(AllTypes) /\ (Tok.type = "STRING" => Tok.value = JUNK)
       \/ Running.needs \in {"value", "element"} /\ Reads({"STRING"}) /\ Tok.value = JUNK
    /\ Undefined

Ended == pc # "reading" /\ UNCHANGED vars

Next ==
    \/ FirstBrace \/ BadData \/ ReadsBeyond
    \/ ObjectKey \/ ObjectColon \/ ObjectValue \/ ObjectComma \/ ObjectEnd
    \/ ArrayElement \/ ArrayClosedAtOnce \/ ArrayComma \/ ArrayEnd
    \/ Unexpected \/ NoString \/ Ended

Spec == Init /\ [][Next]_vars /\ WF_vars(Next)
-----------------------------------------------------------------------------
\* A key or a value, which has been between quotes.
Text == Seq({json[p] : p \in DOMAIN json} \ {QUOTE})

TypeOK ==
    /\ json_p \in 1 .. Len(json) + 2
    /\ \A k \in DOMAIN calls :
          /\ calls[k].data \in DOMAIN nodes
          /\ nodes[calls[k].data].type = IF calls[k].what = "object" THEN "hash" ELSE "array"
    /\ \A n \in DOMAIN nodes :
          /\ nodes[n].type \in {"hash", "array", "string", "true", "false"}
          /\ nodes[n].text \in Text
          /\ \A k \in DOMAIN nodes[n].cells :
                /\ nodes[n].cells[k].key \in IF nodes[n].type = "hash" THEN Text ELSE {NULL}
                /\ nodes[n].cells[k].value \in n + 1 .. Len(nodes)
    /\ destroyed \subseteq DOMAIN nodes
    /\ data \in 0 .. Len(nodes)
    /\ pc \in {"reading", "returned", "crashed", "undefined"}

(***************************************************************************)
(* Every error path destroys what it has built, once, and nothing that is  *)
(* still used: what the calls under way or the result can reach is intact, *)
(* and in the end all else has been destroyed.                             *)
(***************************************************************************)
InUse == (UNION {Below(calls[k].data) : k \in DOMAIN calls})
         \cup (IF data = 0 THEN {} ELSE Below(data))

KeptOrDestroyed ==
    pc \in {"reading", "returned"} => destroyed = DOMAIN nodes \ InUse

(***************************************************************************)
(* Every text is read to an end, however wrong it is (read_object loops    *)
(* until it finds a brace).                                                *)
(***************************************************************************)
Ends == <>(pc # "reading")
=============================================================================
