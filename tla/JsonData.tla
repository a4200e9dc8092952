------------------------------ MODULE JsonData ------------------------------
(***************************************************************************)
(* What a text describes, without tokens and without calls: each character *)
(* stands in an object or an array, the brace or bracket that began it,    *)
(* and each object, array, string and boolean that is no key is a node of  *)
(* the data, in the order of the text.                                     *)
(***************************************************************************)
EXTENDS JsonReader

Words == {"true", "false"}

InObject(text, in) == in # 0 /\ text[in] = "{"

\* What comes first in an object or an array, and after each comma.
Item(text, in) == IF InObject(text, in) THEN "key" ELSE "element"

(***************************************************************************)
(* For each character, and for the end: what it stands in, 0 outside; the  *)
(* quote that began the string it is in, or 0; the quote that began the    *)
(* last key, or 0; and what is due next.                                   *)
(***************************************************************************)
Place(in, quote, key, due) == [in |-> in, quote |-> quote, key |-> key, due |-> due]

\* Within a string, at a space, and after the root.
Stays(before, ch) ==
    \/ before.due = "nothing"
    \/ before.quote # 0 /\ ch # QUOTE
    \/ before.quote = 0 /\ ch = SPACE

AfterString(before) ==
    IF before.due = "key" THEN Place(before.in, 0, before.quote, "colon")
                          ELSE Place(before.in, 0, before.key, "more")

\* What was closed is followed by what follows it in that which it was in.
AfterClosed(outer) ==
    Place(outer.in, outer.quote, outer.key, IF outer.due = "root" THEN "nothing" ELSE "more")

AfterOther(text, before, ch) ==
    Place(before.in, 0, before.key, IF ch = ":" THEN "value"
                                    ELSE IF ch = "," THEN Item(text, before.in)
                                    ELSE "more")

NextPlace(place, text, p) ==
    LET ch     == text[p - 1]
        before == place[p - 1]
    IN IF Stays(before, ch) THEN before
       ELSE IF before.quote # 0 THEN AfterString(before)
       ELSE IF ch = QUOTE THEN Place(before.in, p - 1, before.key, before.due)
       ELSE IF ch \in {"{", "["} THEN Place(p - 1, 0, 0, Item(text, p - 1))
       ELSE IF ch \in {"}", "]"} THEN AfterClosed(place[before.in])
       ELSE AfterOther(text, before, ch)

Places(text) ==
    LET place[p \in 0 .. Len(text) + 1] ==
            IF p <= 1 THEN Place(0, 0, 0, "root") ELSE NextPlace(place, text, p)
    IN place

\* Outside of strings, what is no space counts.
Counts(text, place, p) == place.quote = 0 /\ text[p] # SPACE
-----------------------------------------------------------------------------
(***************************************************************************)
(* What the reader supports: objects and arrays that are not empty,        *)
(* strings, and outside of arrays booleans and arrays.                     *)
(***************************************************************************)
Allowed(text, place) ==
    CASE place.due = "root"    -> {"{"}
      [] place.due = "key"     -> {QUOTE}
      [] place.due = "colon"   -> {":"}
      [] place.due = "value"   -> {QUOTE, "{", "["} \cup Words
      [] place.due = "element" -> {QUOTE, "{"}
      [] place.due = "more"    -> {",", IF InObject(text, place.in) THEN "}" ELSE "]"}

SupportedAt(text, place, p) ==
    Counts(text, place, p) /\ place.due # "nothing" =>
        /\ text[p] \in Allowed(text, place)
        /\ text[p] \in Words /\ p < Len(text) => text[p + 1] \notin Letters

\* An object, and after it anything.
Supported(text) ==
    LET at == Places(text)
    IN /\ at[Len(text) + 1].due = "nothing"
       /\ \A p \in 1 .. Len(text) : SupportedAt(text, at[p], p)
NoArrays(text) == \A p \in DOMAIN text : text[p] # "["
-----------------------------------------------------------------------------
\* Where nodes begin.
IsDatum(text, place, p) ==
    Counts(text, place, p) /\ place.due \in {"root", "value", "element"}

Data(text) ==
    LET at == Places(text)
    IN {p \in 1 .. Len(text) : IsDatum(text, at[p], p)}

\* The nodes in an object or array.
Within(text, c) ==
    LET at == Places(text)
    IN {p \in Data(text) : at[p].in = c}

\* From a quote to the next.
Quoted(text, p) ==
    LET end == CHOOSE q \in p + 1 .. Len(text) :
                  text[q] = QUOTE /\ \A r \in p + 1 .. q - 1 : text[r] # QUOTE
    IN SubSeq(text, p + 1, end - 1)

Described(text, p) ==
    IF text[p] = "{" THEN New("hash", <<>>)
    ELSE IF text[p] = "[" THEN New("array", <<>>)
    ELSE IF text[p] = QUOTE THEN New("string", Quoted(text, p))
    ELSE New(text[p], <<>>)

KeyOf(text, place) == IF place.key = 0 THEN NULL ELSE Quoted(text, place.key)

\* The position of q in S.
Rank(S, q) == Cardinality({r \in S : r <= q})

(***************************************************************************)
(* The nodes of a store are those described: each has its type and text,   *)
(* and in its cells those within it, in order and under their keys.        *)
(***************************************************************************)
AreDescribed(store, text) ==
    LET at  == Places(text)
        all == Data(text)
    IN /\ Len(store) = Cardinality(all)
       /\ \A p \in all :
             LET node   == store[Rank(all, p)]
                 within == Within(text, p)
             IN /\ node.type = Described(text, p).type
                /\ node.text = Described(text, p).text
                /\ Len(node.cells) = Cardinality(within)
                /\ \A q \in within :
                      node.cells[Rank(within, q)] =
                         [key |-> KeyOf(text, at[q]), value |-> Rank(all, q)]

(***************************************************************************)
(* Of a text that begins with an object that it supports, the reader       *)
(* builds the data described, all of it and in order, and returns the      *)
(* root, whatever nests in what and wherever spaces are.  Where there are  *)
(* no arrays, nothing else is read as data: every other text ends with     *)
(* NULL, in a crash, or undefined.  (In an array, an object that is        *)
(* refused is left out and reading goes on.)  This is unless the first     *)
(* call frees an uninitialized pointer.                                    *)
(***************************************************************************)
IsRead ==
    ~Unlucky /\ pc # "reading" =>
        /\ Supported(json) => pc = "returned" /\ data = 1 /\ AreDescribed(nodes, json)
        /\ pc = "returned" /\ data # 0 /\ NoArrays(json) => Supported(json)
=============================================================================
