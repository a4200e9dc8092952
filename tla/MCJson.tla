------------------------------- MODULE MCJson -------------------------------
(***************************************************************************)
(* The JSON reader on short texts, against what JsonData says that they    *)
(* describe, and against a grammar of JSON that knows nothing of tokens.   *)
(***************************************************************************)
EXTENDS JsonData, SequencesExt

CONSTANTS MaxAny,       \* the pieces of a text
          MaxValue,     \* of what follows a key and a colon
          MaxNested     \* of Nestings, after a key and a colon

MCDigits  == {"1"}
MCLetters == {"true", "false", "a"}
MCWordStarts == {"true", "false"}

String(letter) == <<QUOTE, letter, QUOTE>>

Pieces == {<<"{">>, <<"}">>, <<"[">>, <<"]">>, <<":">>, <<",">>, <<"true">>, <<"1">>,
           <<QUOTE>>, String("a")}
Other  == {<<"-">>, <<".">>, <<SPACE>>, <<"a">>}

Nestings == {<<"{">> \o String("a") \o <<":">>, <<"}">>, <<"[">>, <<"]">>, <<",">>, String("a")}

Concatenated(pieces) == FoldLeft(LAMBDA text, piece : text \o piece, <<>>, pieces)

Starting(prefix, pieces, length) ==
    {prefix \o Concatenated(s) : s \in BoundedSeq(pieces, length)}

AnObject == <<"{">> \o String("a") \o <<":">>
AnArray  == AnObject \o <<"[">>
Both     == AnArray \o AnObject
-----------------------------------------------------------------------------
(***************************************************************************)
(* Values(p, wide) is what can be read from p on, as pairs of a tree and   *)
(* the place after it: none or one, since JSON has no ambiguity.  What the *)
(* reader supports are objects and arrays that are not empty, strings, and *)
(* outside of arrays booleans and arrays.  "wide" is JSON with its         *)
(* numbers, the empty object and the empty array.                          *)
(***************************************************************************)
Tree(type, text, cells) == [type |-> type, text |-> text, cells |-> cells]

Found(tree, next) == [tree |-> tree, next |-> next]

\* The place of the first character that is no space.
Spaced(p) == CHOOSE q \in p .. Len(json) + 1 :
                Char(q) # SPACE /\ \A r \in p .. q - 1 : Char(r) = SPACE

Is(p, ch) == p <= Len(json) /\ json[p] = ch

Strings(p) ==
    {Found(Tree("string", SubSeq(json, p + 1, q - 1), <<>>), q + 1) :
        q \in {r \in p + 1 .. Len(json) :
                  Is(p, QUOTE) /\ Is(r, QUOTE) /\ \A s \in p + 1 .. r - 1 : ~Is(s, QUOTE)}}

Booleans(p) ==
    {Found(Tree(word, <<>>, <<>>), p + 1) :
        word \in {w \in {"true", "false"} : Is(p, w) /\ Char(p + 1) \notin Letters}}

\* Digits that nothing continues, after a minus or not, and before decimals
\* or not.
Numbers(p) ==
    {Found(Tree("number", SubSeq(json, p, q), <<>>), q + 1) :
        q \in {r \in p .. Len(json) :
                 \E minus \in {0, 1}, point \in p .. r + 1 :
                    /\ minus = 1 => Is(p, "-")
                    /\ p + minus <= r /\ point > p + minus /\ point # r
                    /\ \A s \in p + minus .. r : s # point => Char(s) \in Digits
                    /\ point <= r => Is(point, ".")
                    /\ Char(r + 1) \notin Digits \cup {"."}}}

RECURSIVE Values(_, _), Pairs(_, _, _), Elements(_, _, _)

Values(p, wide) ==
    Strings(p) \cup Booleans(p) \cup (IF wide THEN Numbers(p) ELSE {})
    \cup (IF Is(p, "{") THEN Pairs(p + 1, wide, <<>>) ELSE {})
    \cup (IF Is(p, "[") THEN Elements(p + 1, wide, <<>>) ELSE {})
    \cup (IF wide /\ Is(p, "{") /\ Is(Spaced(p + 1), "}")
          THEN {Found(Tree("hash", <<>>, <<>>), Spaced(p + 1) + 1)} ELSE {})
    \cup (IF wide /\ Is(p, "[") /\ Is(Spaced(p + 1), "]")
          THEN {Found(Tree("array", <<>>, <<>>), Spaced(p + 1) + 1)} ELSE {})

\* The rest of an object after some of its cells, and of an array.
Pairs(p, wide, cells) ==
    UNION {
        LET colon == Spaced(key.next) IN
        IF ~Is(colon, ":") THEN {}
        ELSE UNION {
            LET end == Spaced(value.next)
                all == Append(cells, [key |-> key.tree.text, value |-> value.tree])
            IN IF Is(end, "}") THEN {Found(Tree("hash", <<>>, all), end + 1)}
               ELSE IF Is(end, ",") THEN Pairs(end + 1, wide, all)
               ELSE {}
          : value \in Values(Spaced(colon + 1), wide)}
      : key \in Strings(Spaced(p))}

Elements(p, wide, cells) ==
    UNION {
        LET end == Spaced(element.next)
            all == Append(cells, [key |-> NULL, value |-> element.tree])
        IN IF Is(end, "]") THEN {Found(Tree("array", <<>>, all), end + 1)}
           ELSE IF Is(end, ",") THEN Elements(end + 1, wide, all)
           ELSE {}
      : element \in {e \in Values(Spaced(p), wide) : wide \/ e.tree.type \in {"string", "hash"}}}

\* The objects that the text begins with.
Objects(wide) == IF Is(Spaced(1), "{") THEN Values(Spaced(1), wide) ELSE {}
-----------------------------------------------------------------------------
RECURSIVE TreeOf(_)
TreeOf(n) ==
    [nodes[n] EXCEPT !.cells = [k \in DOMAIN @ |-> [@[k] EXCEPT !.value = TreeOf(@)]]]

\* Unless the first call frees an uninitialized pointer.
AreReadAs(objects) ==
    \A object \in objects : ~Unlucky =>
        /\ pc \in {"reading", "returned"}
        /\ pc = "returned" => data # 0 /\ TreeOf(data) = object.tree

(***************************************************************************)
(* A text that begins with an object that the reader supports is read as   *)
(* the grammar has it, whatever nests in what and wherever spaces are.     *)
(* Where there are no arrays, nothing else is read as data.                *)
(***************************************************************************)
SupportedIsRead ==
    pc # "reading" =>
        /\ AreReadAs(Objects(FALSE))
        /\ pc = "returned" /\ data # 0 /\ NoArrays(json) =>
              TreeOf(data) \in {object.tree : object \in Objects(FALSE)}

(***************************************************************************)
(* Every JSON object is read: -j takes "a JSON file that contains the data *)
(* for insertion into the template" (man/ctache.1:42), and a test gives    *)
(* the parser the empty object (tests/test_json.c:17).                     *)
(***************************************************************************)
ObjectsAreRead == pc # "reading" => AreReadAs(Objects(TRUE))
-----------------------------------------------------------------------------
(***************************************************************************)
(* The texts: everything short, and everything of some length after the    *)
(* beginnings that lead into an object, an array and an array's object.    *)
(***************************************************************************)
MCTexts ==
    Starting(<<>>, Pieces \cup Other, MaxAny)
    \cup Starting(AnObject, Pieces \cup Other, MaxValue)
    \cup Starting(AnArray, Pieces \cup Other, MaxValue)
    \cup Starting(Both, Pieces, MaxValue)
    \cup Starting(AnObject, Nestings, MaxNested)
    \cup Starting(Both, Nestings, MaxNested)
=============================================================================
