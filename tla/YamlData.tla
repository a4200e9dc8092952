------------------------------ MODULE YamlData ------------------------------
(***************************************************************************)
(* What the events of a file describe, without a stack: each event stands  *)
(* in a collection, the event that began it, and each collection, element  *)
(* and value is a node of the data, in the order of the events.            *)
(***************************************************************************)
EXTENDS YamlReader

Starts == {"SEQUENCE_START", "MAPPING_START"}
Ends   == {"SEQUENCE_END", "MAPPING_END"}

InSequence(events, in) == in # 0 /\ events[in].type = "SEQUENCE_START"
InMapping(events, in)  == in # 0 /\ events[in].type = "MAPPING_START"

(***************************************************************************)
(* For each event, and for the one to come, what it stands in, 0 outside   *)
(* of all collections, and whether a key is due: in a mapping, unless what *)
(* is before it is a key.  What ended is followed by what follows it in    *)
(* the collection that it was in.                                          *)
(***************************************************************************)
Places(events) ==
    LET place[p \in 0 .. Len(events) + 1] ==
            IF p <= 1 THEN [in |-> 0, key |-> FALSE]
            ELSE LET event  == events[p - 1]
                     before == place[p - 1]
                     in     == IF event.type \in Starts THEN p - 1
                               ELSE IF event.type \in Ends THEN place[before.in].in
                               ELSE before.in
                 IN [in  |-> in,
                     key |-> /\ InMapping(events, in)
                             /\ ~(before.key /\ event.type = "SCALAR")]
    IN place

\* From the first word to the last.
Inner(value) ==
    LET words == {k \in 1 .. Len(value) : value[k] # BLANK}
        first == CHOOSE k \in words : \A j \in words : k <= j
        last  == CHOOSE k \in words : \A j \in words : j <= k
    IN IF words = {} THEN <<>> ELSE SubSeq(value, first, last)

Padded(value) == Inner(value) # <<>> /\ Len(value) > Len(Inner(value)) + 1
-----------------------------------------------------------------------------
(***************************************************************************)
(* What the reader is made for: one document, a mapping with scalars for   *)
(* keys, no sequence directly in a sequence, no alias, and no element      *)
(* padded with more than one blank.                                        *)
(***************************************************************************)
ReadableAt(events, at, p) ==
    LET type == events[p].type
        in   == at[p].in
    IN /\ type # "ALIAS"
       /\ type = "DOCUMENT_START" <=> p = 2
       /\ type \in NodeEvents /\ in = 0 => type = "MAPPING_START"
       /\ type \in NodeEvents /\ at[p].key => type = "SCALAR"
       /\ InSequence(events, in) =>
             type # "SEQUENCE_START" /\ (type = "SCALAR" => ~Padded(events[p].value))

Readable(events) ==
    LET at == Places(events)
    IN \A p \in 1 .. Len(events) : ReadableAt(events, at, p)

Complete(events) == events # <<>> /\ events[Len(events)].type = "STREAM_END"
-----------------------------------------------------------------------------
\* The events that begin nodes: neither keys nor blank elements.
IsDatum(events, place, p) ==
    \/ events[p].type \in Starts
    \/ /\ events[p].type = "SCALAR" /\ ~place.key
       /\ InSequence(events, place.in) => Inner(events[p].value) # <<>>

Data(events) ==
    LET at == Places(events)
    IN {p \in 1 .. Len(events) : IsDatum(events, at[p], p)}

\* The nodes in a collection.
Within(events, c) ==
    LET at == Places(events)
    IN {p \in Data(events) : at[p].in = c}

\* An element is always a string; a value can be a boolean.
Described(events, in, p) ==
    LET value == events[p].value IN
    IF events[p].type = "MAPPING_START" THEN New("hash", <<>>)
    ELSE IF events[p].type = "SEQUENCE_START" THEN New("array", <<>>)
    ELSE IF InSequence(events, in) THEN New("string", Inner(value))
    ELSE IF value = <<"true">> THEN New("true", <<>>)
    ELSE IF value = <<"false">> THEN New("false", <<>>)
    ELSE New("string", value)

\* The key is the event before the value.
KeyOf(events, in, p) ==
    IF InMapping(events, in) THEN events[p - 1].value ELSE NULL

\* The position of q in S.
Rank(S, q) == Cardinality({r \in S : r <= q})

(***************************************************************************)
(* The nodes of a store are those described: each has its type and text,   *)
(* and in its cells those within it, in order and under their keys.        *)
(***************************************************************************)
AreDescribed(store, events) ==
    LET at  == Places(events)
        all == Data(events)
    IN /\ Len(store) = Cardinality(all)
       /\ \A p \in all :
             LET node   == store[Rank(all, p)]
                 within == Within(events, p)
             IN /\ node.type = Described(events, at[p].in, p).type
                /\ node.text = Described(events, at[p].in, p).text
                /\ Len(node.cells) = Cardinality(within)
                /\ \A q \in within :
                      node.cells[Rank(within, q)] =
                         [key |-> KeyOf(events, p, q), value |-> Rank(all, q)]

(***************************************************************************)
(* Of a file that it is made for, the reader builds the data described,    *)
(* all of it and in order, at every moment, and returns the root; before   *)
(* that it never stops, whatever nests in what.                            *)
(***************************************************************************)
IsRead ==
    Readable(stream) =>
        /\ pc \in {"reading", "returned"}
        /\ AreDescribed(nodes, stream)
        /\ Complete(stream) => data = 1
=============================================================================
