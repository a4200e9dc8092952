-------------------------- MODULE JsonReaderProofs --------------------------
(***************************************************************************)
(* Proofs about JsonReader, for all texts and whatever the first token's   *)
(* type happens to be: the calls fill nodes of their own kind, no two of   *)
(* them reach the same node, and so an error path can destroy all that it  *)
(* has built and nothing else.  Then, that what is built is what JsonData  *)
(* says the text describes.                                                *)
(***************************************************************************)
EXTENDS JsonData, FiniteSetTheorems, SequenceTheorems, WellFoundedInduction, TLAPS

\* A set of numbers has a least one: their intervals from 1 have a least.
LEMMA Least ==
    ASSUME NEW S \in SUBSET Nat, S # {}
    PROVE  \E m \in S : \A k \in S : m <= k
<1>1. PICK n \in S : TRUE
    OBVIOUS
<1> DEFINE I == {1 .. k : k \in S}
<1>2. I \subseteq FiniteSubsetsOf(Nat) /\ I # {}
    <2>1. \A k \in S : IsFiniteSet(1 .. k)
        BY FS_Interval
    <2>2. QED
        BY <2>1, <1>1 DEF FiniteSubsetsOf
<1>3. IsWellFoundedOn(StrictSubsetOrdering(Nat), FiniteSubsetsOf(Nat))
    BY FS_StrictSubsetOrderingWellFounded
<1>4. PICK x \in I : \A y \in I : ~ (<<y, x>> \in StrictSubsetOrdering(Nat))
    BY <1>2, <1>3, WFMin
<1>5. PICK m \in S : x = 1 .. m
    OBVIOUS
<1>6. ASSUME NEW k \in S, k < m PROVE FALSE
    <2>1. 1 .. k \subseteq 1 .. m /\ 1 .. k # 1 .. m
        <3>1. m \in 1 .. m /\ m \notin 1 .. k
            BY <1>6
        <3>2. QED
            BY <1>6, <3>1
    <2>2. <<1 .. k, 1 .. m>> \in StrictSubsetOrdering(Nat)
        BY <2>1 DEF StrictSubsetOrdering
    <2>3. QED
        BY <1>4, <1>5, <1>6, <2>2
<1>7. QED
    BY <1>6
-----------------------------------------------------------------------------
(***************************************************************************)
(* The tokens.                                                             *)
(***************************************************************************)

\* A search ends at the terminator at the latest.
LEMMA AfterIsFirst ==
    ASSUME json \in Seq(STRING), NEW p \in 1 .. Len(json) + 1, NEW S, NUL \notin S
    PROVE  /\ After(p, S) \in p .. Len(json) + 1
           /\ Char(After(p, S)) \notin S
           /\ \A r \in p .. After(p, S) - 1 : Char(r) \in S
<1> DEFINE E == {q \in p .. Len(json) + 1 : Char(q) \notin S}
           IsFirst(q) == Char(q) \notin S /\ \A r \in p .. q - 1 : Char(r) \in S
<1>1. Len(json) \in Nat
    OBVIOUS
<1>2. Len(json) + 1 \in E
    BY <1>1 DEF Char
<1>3. PICK q \in E : \A k \in E : q <= k
    <2>1. E \in SUBSET Nat
        BY <1>1
    <2> HIDE DEF E
    <2>2. QED
        BY <1>2, <2>1, Least
<1>4. q \in p .. Len(json) + 1 /\ IsFirst(q)
    BY <1>1, <1>3
<1>5. After(p, S) = CHOOSE x \in p .. Len(json) + 1 : IsFirst(x)
    BY DEF After
<1>6. After(p, S) \in p .. Len(json) + 1 /\ IsFirst(After(p, S))
    <2> HIDE DEF IsFirst
    <2>1. QED
        BY <1>4, <1>5
<1>7. QED
    BY <1>6

\* A string's value has no quote, or is not there.
LEMMA StringToken ==
    ASSUME json \in Seq(STRING), NUL \notin STRING, NEW p \in 1 .. Len(json) + 1
    PROVE  /\ parse_string(p).type = "STRING"
           /\ parse_string(p).next \in 1 .. Len(json) + 2
           /\ parse_string(p).value # JUNK => parse_string(p).value \in Text
<1> DEFINE S == {json[q] : q \in 1 .. Len(json)} \ {QUOTE}
           end == After(p, S)
<1>1. Len(json) \in Nat /\ DOMAIN json = 1 .. Len(json) /\ \A q \in 1 .. Len(json) : json[q] \in STRING
    OBVIOUS
<1>2. NUL \notin S
    BY <1>1
<1>3. /\ end \in p .. Len(json) + 1
      /\ \A r \in p .. end - 1 : Char(r) \in S
    <2> HIDE DEF S
    <2>1. QED
        BY <1>2, AfterIsFirst
<1>4. parse_string(p) =
          Token("STRING", IF Char(end) = QUOTE THEN SubSeq(json, p, end - 1) ELSE JUNK, end + 1)
    BY DEF parse_string
<1> HIDE DEF end
<1>5. end + 1 \in 1 .. Len(json) + 2
    BY <1>1, <1>3
<1>6. SubSeq(json, p, end - 1) \in Text
    <2> DEFINE n == end - p
               text == SubSeq(json, p, end - 1)
    <2>1. n \in Nat /\ text = [i \in 1 .. n |-> json[i + p - 1]]
        BY <1>1, <1>3
    <2>2. \A i \in 1 .. n : json[i + p - 1] \in S
        <3> SUFFICES ASSUME NEW i \in 1 .. n PROVE json[i + p - 1] \in S
            OBVIOUS
        <3>1. PICK r \in p .. end - 1 : r = i + p - 1
            BY <1>1, <1>3, <2>1
        <3>2. Char(r) = json[r]
            BY <1>1, <1>3, <3>1 DEF Char
        <3>3. QED
            BY <1>3, <3>1, <3>2
    <2> HIDE DEF n, text
    <2>3. text \in Seq(S)
        <3> HIDE DEF S
        <3>1. QED
            BY <2>1, <2>2
    <2>4. QED
        BY <1>1, <2>3 DEF Text, text
<1>7. QED
    BY <1>4, <1>5, <1>6 DEF Token

\* A number ends within the text, with or without decimals.
LEMMA NumberToken ==
    ASSUME json \in Seq(STRING), NUL \notin STRING, NEW p \in 1 .. Len(json) + 1
    PROVE  parse_number(p).type = "NUMBER" /\ parse_number(p).next \in 1 .. Len(json) + 2
<1> DEFINE end == After(p, Digits)
           decimals == After(end + 1, Digits)
<1>1. Len(json) \in Nat /\ NUL \notin Digits /\ NUL # "."
    <2>1. Len(json) \in Nat
        OBVIOUS
    <2>2. QED
        BY <2>1, CharsAssumption
<1>2. end \in p .. Len(json) + 1
    BY <1>1, AfterIsFirst
<1>3. Char(end) = "." => decimals \in end + 1 .. Len(json) + 1
    <2> HIDE DEF end
    <2>1. SUFFICES ASSUME Char(end) = "." PROVE decimals \in end + 1 .. Len(json) + 1
        OBVIOUS
    <2>2. end + 1 \in 1 .. Len(json) + 1
        BY <1>1, <1>2, <2>1 DEF Char
    <2>3. QED
        BY <1>1, <2>2, AfterIsFirst
<1>4. parse_number(p) = Token("NUMBER", <<>>, 1 + IF Char(end) = "." THEN decimals ELSE end)
    BY DEF parse_number
<1> HIDE DEF end, decimals
<1>5. 1 + (IF Char(end) = "." THEN decimals ELSE end) \in 1 .. Len(json) + 2
    BY <1>1, <1>2, <1>3
<1>6. QED
    BY <1>4, <1>5 DEF Token

\* A word is a boolean only if it is true or false.
LEMMA BooleanToken ==
    ASSUME json \in Seq(STRING), NEW p \in 1 .. Len(json) + 1
    PROVE  /\ parse_boolean(p).type \in {"BOOLEAN", "NONE"}
           /\ parse_boolean(p).next \in 1 .. Len(json) + 2
           /\ parse_boolean(p).type = "BOOLEAN" => parse_boolean(p).value[1] \in {"true", "false"}
<1>1. After(p, Letters) \in 1 .. Len(json) + 2
    <2>1. NUL \notin Letters /\ Len(json) \in Nat
        BY CharsAssumption
    <2>2. QED
        BY <2>1, AfterIsFirst
<1> DEFINE word == SubSeq(json, p, After(p, Letters) - 1)
<1>2. parse_boolean(p) = Token(IF word \in {<<"true">>, <<"false">>} THEN "BOOLEAN" ELSE "NONE",
                               word, After(p, Letters))
    BY DEF parse_boolean
<1> HIDE DEF word
<1>3. word \in {<<"true">>, <<"false">>} => word[1] \in {"true", "false"}
    OBVIOUS
<1>4. QED
    BY <1>1, <1>2, <1>3 DEF Token

\* What a token leaves behind, and what its value is.
LEMMA TokenFacts ==
    ASSUME json \in Seq(STRING), NUL \notin STRING, json_p \in 1 .. Len(json) + 1
    PROVE  /\ Tok.next \in 1 .. Len(json) + 2
           /\ Tok.type = "STRING" /\ Tok.value # JUNK => Tok.value \in Text
           /\ Tok.type = "BOOLEAN" => Tok.value[1] \in {"true", "false"}
<1> DEFINE p == After(json_p, {SPACE})
           ch == Char(p)
<1>1. Len(json) \in Nat
    OBVIOUS
<1>2. p \in 1 .. Len(json) + 1
    <2>1. NUL \notin {SPACE}
        BY CharsAssumption
    <2>2. QED
        BY <1>1, <2>1, AfterIsFirst
<1>3. ch # NUL => p + 1 \in 1 .. Len(json) + 1
    BY <1>1, <1>2 DEF Char
<1>4. Tok = CASE ch = NUL -> Token("END", <<>>, p)
              [] ch \in DOMAIN Mark -> Token(Mark[ch], <<>>, p + 1)
              [] ch = QUOTE -> parse_string(p + 1)
              [] ch = "-" \/ ch \in Digits -> parse_number(p)
              [] ch \in WordStarts -> parse_boolean(p)
              [] OTHER -> Token("NONE", <<>>, p + 1)
    BY DEF Tok, json_next_token
<1>5. \A c \in DOMAIN Mark : Mark[c] \notin {"STRING", "BOOLEAN"}
    BY DEF Mark
<1> HIDE DEF p, ch
<1>0. ch = NUL => ch \notin DOMAIN Mark /\ ch # QUOTE
    BY CharsAssumption
<1> DEFINE isDigit == ch = "-" \/ ch \in Digits
           isWord == ch \in WordStarts
           isMark == ch \in DOMAIN Mark
<1> HIDE DEF isDigit, isWord, isMark
<1>6. \/ Tok = Token("END", <<>>, p)
      \/ ch \in DOMAIN Mark /\ ch # NUL /\ Tok = Token(Mark[ch], <<>>, p + 1)
      \/ ch # NUL /\ Tok = parse_string(p + 1)
      \/ Tok = parse_number(p)
      \/ Tok = parse_boolean(p)
      \/ ch # NUL /\ Tok = Token("NONE", <<>>, p + 1)
    BY <1>0, <1>4
<1>7. CASE Tok = Token("END", <<>>, p) \/ Tok = Token("NONE", <<>>, p + 1)
    BY <1>1, <1>2, <1>7 DEF Token
<1>8. CASE ch \in DOMAIN Mark /\ Tok = Token(Mark[ch], <<>>, p + 1)
    BY <1>1, <1>2, <1>5, <1>8 DEF Token
<1>9. CASE ch # NUL /\ Tok = parse_string(p + 1)
    BY <1>3, <1>9, StringToken
<1>10. CASE Tok = parse_number(p)
    BY <1>2, <1>10, NumberToken
<1>11. CASE Tok = parse_boolean(p)
    BY <1>2, <1>11, BooleanToken
<1>12. QED
    BY <1>6, <1>7, <1>8, <1>9, <1>10, <1>11
-----------------------------------------------------------------------------
(***************************************************************************)
(* The trees, for any nodes: what is in the cells of one, what is below    *)
(* it, when a node is added, and when one is put into a cell.              *)
(***************************************************************************)
PartsOf(cells) == {cells[k].value : k \in DOMAIN cells}

Parts(ns, m) == PartsOf(ns[m].cells)

\* IsWhole and Below, of any nodes.
WholeIn(ns, S) == \A m \in S : Parts(ns, m) \subseteq S

BelowIn(ns, n) ==
    {m \in DOMAIN ns : \A S \in SUBSET DOMAIN ns : n \in S /\ WholeIn(ns, S) => m \in S}

\* No cell has what is no node.
IsForest(ns) == WholeIn(ns, DOMAIN ns)

\* What ctache_data_destroy reaches is what is below.
LEMMA BelowIsIn == \A n : Below(n) = BelowIn(nodes, n)
<1>1. \A S : IsWhole(S) <=> WholeIn(nodes, S)
    BY DEF IsWhole, WholeIn, Parts, PartsOf
<1>2. QED
    BY <1>1 DEF Below, BelowIn

\* A node is below itself, all that is in cells of what is below it is, too,
\* and nothing that a set with these properties does not have.
LEMMA BelowIsLeast ==
    ASSUME NEW ns, IsForest(ns), NEW n \in DOMAIN ns
    PROVE  /\ n \in BelowIn(ns, n)
           /\ BelowIn(ns, n) \subseteq DOMAIN ns
           /\ WholeIn(ns, BelowIn(ns, n))
           /\ \A S \in SUBSET DOMAIN ns : n \in S /\ WholeIn(ns, S) => BelowIn(ns, n) \subseteq S
<1>1. WholeIn(ns, BelowIn(ns, n))
    <2> SUFFICES ASSUME NEW m \in BelowIn(ns, n), NEW v \in Parts(ns, m)
                 PROVE  v \in BelowIn(ns, n)
        BY DEF WholeIn
    <2>1. v \in DOMAIN ns
        BY DEF IsForest, WholeIn, BelowIn
    <2>2. ASSUME NEW S \in SUBSET DOMAIN ns, n \in S, WholeIn(ns, S) PROVE v \in S
        BY <2>2 DEF BelowIn, WholeIn
    <2>3. QED
        BY <2>1, <2>2 DEF BelowIn
<1>2. QED
    BY <1>1 DEF BelowIn

\* A new node without cells is below itself only.
LEMMA Grown ==
    ASSUME NEW ns, NEW grown, IsForest(ns), NEW new, new \notin DOMAIN ns,
           DOMAIN grown = DOMAIN ns \cup {new}, Parts(grown, new) = {},
           \A m \in DOMAIN ns : Parts(grown, m) = Parts(ns, m)
    PROVE  /\ IsForest(grown)
           /\ BelowIn(grown, new) = {new}
           /\ \A n \in DOMAIN ns : BelowIn(grown, n) = BelowIn(ns, n)
<1>1. IsForest(grown)
    BY DEF IsForest, WholeIn
<1>2. BelowIn(grown, new) = {new}
    <2>1. WholeIn(grown, {new})
        BY DEF WholeIn
    <2>2. QED
        BY <1>1, <2>1, BelowIsLeast
<1>3. ASSUME NEW n \in DOMAIN ns PROVE BelowIn(grown, n) = BelowIn(ns, n)
    <2>1. BelowIn(grown, n) \subseteq BelowIn(ns, n)
        <3>1. WholeIn(grown, BelowIn(ns, n)) /\ BelowIn(ns, n) \subseteq DOMAIN grown
            BY BelowIsLeast DEF WholeIn
        <3>2. QED
            BY <1>1, <3>1, BelowIsLeast
    <2>2. BelowIn(ns, n) \subseteq BelowIn(grown, n)
        <3> DEFINE S == BelowIn(grown, n) \cap DOMAIN ns
        <3>1. WholeIn(ns, S)
            BY <1>1, BelowIsLeast DEF WholeIn, IsForest
        <3>2. n \in S
            BY <1>1, BelowIsLeast
        <3> HIDE DEF S
        <3>3. S \in SUBSET DOMAIN ns /\ S \subseteq BelowIn(grown, n)
            BY DEF S
        <3>4. QED
            BY <3>1, <3>2, <3>3, BelowIsLeast
    <2>3. QED
        BY <2>1, <2>2
<1>4. QED
    BY <1>1, <1>2, <1>3

\* What is put into a cell comes with all below it, to all that its owner is below.
LEMMA Linked ==
    ASSUME NEW ns, NEW linked, IsForest(ns), NEW owner \in DOMAIN ns, NEW v \in DOMAIN ns,
           DOMAIN linked = DOMAIN ns, Parts(linked, owner) = Parts(ns, owner) \cup {v},
           \A m \in DOMAIN ns \ {owner} : Parts(linked, m) = Parts(ns, m)
    PROVE  /\ IsForest(linked)
           /\ \A n \in DOMAIN ns :
                 BelowIn(linked, n) = BelowIn(ns, n) \cup
                                      IF owner \in BelowIn(ns, n) THEN BelowIn(ns, v) ELSE {}
<1>1. IsForest(linked)
    BY DEF IsForest, WholeIn
<1>2. ASSUME NEW n \in DOMAIN ns
      PROVE  BelowIn(linked, n) = BelowIn(ns, n) \cup
                                  IF owner \in BelowIn(ns, n) THEN BelowIn(ns, v) ELSE {}
    <2> DEFINE all == BelowIn(ns, n) \cup IF owner \in BelowIn(ns, n) THEN BelowIn(ns, v) ELSE {}
    <2>1. /\ v \in BelowIn(ns, v) /\ n \in BelowIn(ns, n)
          /\ BelowIn(ns, v) \subseteq DOMAIN ns /\ BelowIn(ns, n) \subseteq DOMAIN ns
          /\ WholeIn(ns, BelowIn(ns, v)) /\ WholeIn(ns, BelowIn(ns, n))
        BY BelowIsLeast
    <2>2. BelowIn(linked, n) \subseteq all
        <3>1. WholeIn(linked, all)
            <4> SUFFICES ASSUME NEW m \in all PROVE Parts(linked, m) \subseteq all
                BY DEF WholeIn
            <4>1. CASE m = owner
                <5>1. owner \in BelowIn(ns, n) \/ owner \in BelowIn(ns, v)
                    BY <4>1
                <5>2. BelowIn(ns, v) \subseteq all
                    BY <4>1, <5>1
                <5>3. Parts(ns, m) \subseteq all
                    BY <2>1 DEF WholeIn
                <5>4. QED
                    BY <2>1, <4>1, <5>2, <5>3
            <4>2. CASE m # owner
                <5>1. m \in DOMAIN ns /\ Parts(ns, m) \subseteq all
                    BY <2>1 DEF WholeIn
                <5>2. QED
                    BY <4>2, <5>1
            <4>3. QED
                BY <4>1, <4>2
        <3>2. n \in all /\ all \in SUBSET DOMAIN linked
            BY <2>1
        <3> HIDE DEF all
        <3>3. QED
            BY <1>1, <3>1, <3>2, BelowIsLeast
    <2>3. /\ n \in BelowIn(linked, n) /\ BelowIn(linked, n) \subseteq DOMAIN ns
          /\ WholeIn(linked, BelowIn(linked, n))
        BY <1>1, BelowIsLeast
    <2>4. WholeIn(ns, BelowIn(linked, n))
        BY <2>3 DEF WholeIn
    <2>5. BelowIn(ns, n) \subseteq BelowIn(linked, n)
        BY <2>3, <2>4, BelowIsLeast
    <2>6. ASSUME owner \in BelowIn(ns, n) PROVE BelowIn(ns, v) \subseteq BelowIn(linked, n)
        <3>1. v \in BelowIn(linked, n)
            BY <2>3, <2>5, <2>6 DEF WholeIn
        <3>2. QED
            BY <2>3, <2>4, <3>1, BelowIsLeast
    <2>7. QED
        BY <2>2, <2>5, <2>6
<1>3. QED
    BY <1>1, <1>2
-----------------------------------------------------------------------------
(***************************************************************************)
(* The invariant: what a call, a cell and a node can be, and how they fit. *)
(***************************************************************************)
Call == [what : {"object", "array"}, data : Nat, key : Text \cup {NULL},
         needs : {"key", "colon", "value", "more", "element", "last"}]

Cell == [key : Text \cup {NULL}, value : Nat]

Node == [type : {"hash", "array", "string", "true", "false"}, text : Text, cells : Seq(Cell)]

\* The values of the variables, by themselves.
Typed ==
    /\ json \in Texts /\ json_p \in 1 .. Len(json) + 2
    /\ calls \in Seq(Call) /\ nodes \in Seq(Node)
    /\ destroyed \subseteq DOMAIN nodes
    /\ data \in 0 .. Len(nodes)
    /\ pc \in {"reading", "returned", "crashed", "undefined"}

\* A call fills a node of its own kind; an object has a key once it needs something else.
CallFits(call) ==
    /\ call.data \in DOMAIN nodes
    /\ nodes[call.data].type = IF call.what = "object" THEN "hash" ELSE "array"
    /\ call.what = "object" =>
          /\ call.needs \in {"key", "colon", "value", "more"}
          /\ call.needs # "key" => call.key \in Text
    /\ call.what = "array" => call.needs \in {"element", "more", "last"} /\ call.key = NULL

\* A caller waits to go on, and its node is older.
CallsFit ==
    /\ \A k \in DOMAIN calls : CallFits(calls[k]) /\ (k > 1 => calls[k].needs = "more")
    /\ \A j, k \in DOMAIN calls : j < k => calls[k].data < calls[j].data

\* What is in a node's cells is newer.
NodesFit ==
    \A n \in DOMAIN nodes : \A k \in DOMAIN nodes[n].cells :
        /\ nodes[n].cells[k].key \in IF nodes[n].type = "hash" THEN Text ELSE {NULL}
        /\ nodes[n].cells[k].value \in n + 1 .. Len(nodes)

\* InUse, of any nodes, calls and result.
InUseIn(ns, cs, d) ==
    (UNION {BelowIn(ns, cs[k].data) : k \in DOMAIN cs}) \cup (IF d = 0 THEN {} ELSE BelowIn(ns, d))

\* The calls have nothing in common, so that one can destroy its own.
ApartIn(ns, cs) ==
    \A j, k \in DOMAIN cs : j # k => BelowIn(ns, cs[j].data) \cap BelowIn(ns, cs[k].data) = {}

\* While calls are made there is no result, and all that is not in use is destroyed.
Owned ==
    /\ pc = "reading" => data = 0 /\ ApartIn(nodes, calls)
    /\ pc \in {"reading", "returned"} => destroyed = DOMAIN nodes \ InUseIn(nodes, calls, data)

\* The inductive invariant.
IInv == Typed /\ CallsFit /\ NodesFit /\ Owned
-----------------------------------------------------------------------------
\* What follows from the invariant.
LEMMA Facts ==
    ASSUME IInv
    PROVE  /\ json \in Seq(STRING) /\ NUL \notin STRING /\ Len(json) \in Nat
           /\ Len(nodes) \in Nat /\ DOMAIN nodes = 1 .. Len(nodes)
           /\ Len(calls) \in Nat /\ DOMAIN calls = 1 .. Len(calls)
           /\ \A k \in DOMAIN calls : calls[k] \in Call
           /\ \A n \in DOMAIN nodes : nodes[n] \in Node
           /\ IsForest(nodes)
<1>1. json \in Seq(STRING) /\ NUL \notin STRING
    BY TextsAssumption DEF IInv, Typed
<1>2. Len(json) \in Nat
    BY <1>1
<1>3. calls \in Seq(Call) /\ nodes \in Seq(Node)
    BY DEF IInv, Typed
<1>4. /\ Len(nodes) \in Nat /\ DOMAIN nodes = 1 .. Len(nodes)
      /\ Len(calls) \in Nat /\ DOMAIN calls = 1 .. Len(calls)
      /\ \A k \in DOMAIN calls : calls[k] \in Call
      /\ \A n \in DOMAIN nodes : nodes[n] \in Node
    BY <1>3
<1>5. IsForest(nodes)
    <2> SUFFICES ASSUME NEW n \in DOMAIN nodes, NEW k \in DOMAIN nodes[n].cells
                 PROVE  nodes[n].cells[k].value \in DOMAIN nodes
        BY DEF IsForest, WholeIn, Parts, PartsOf
    <2>1. nodes[n].cells[k].value \in n + 1 .. Len(nodes)
        BY DEF IInv, NodesFit
    <2>2. QED
        BY <1>4, <2>1
<1>6. QED
    BY <1>1, <1>2, <1>4, <1>5

\* The empty text is a text.
LEMMA Empty == <<>> \in Text /\ <<>> \in Seq(Cell)
    BY DEF Text

\* What New makes has its type and no cells.
LEMMA NewIsNode ==
    ASSUME NEW type \in {"hash", "array", "string", "true", "false"}, NEW text \in Text
    PROVE  /\ New(type, text) \in Node
           /\ New(type, text).type = type /\ New(type, text).cells = <<>>
    BY Empty DEF New, Node

\* What CallOf makes fits the node that it is made for.
LEMMA NewIsCall ==
    ASSUME NEW what \in {"object", "array"}, NEW n \in Nat
    PROVE  /\ CallOf(what, n) \in Call
           /\ CallOf(what, n).what = what /\ CallOf(what, n).data = n
           /\ CallOf(what, n).key = NULL
           /\ CallOf(what, n).needs = IF what = "object" THEN "key" ELSE "element"
    BY DEF CallOf, Call

\* Reading a token moves on within the text and its terminator.
LEMMA ReadsMoves ==
    ASSUME IInv, NEW types, Reads(types)
    PROVE  /\ pc = "reading" /\ Tok.type \in types
           /\ json' = json /\ json_p' \in 1 .. Len(json) + 2
           /\ Tok.type = "STRING" /\ Tok.value # JUNK => Tok.value \in Text
           /\ Tok.type = "BOOLEAN" => Tok.value[1] \in {"true", "false"}
<1>1. json_p \in 1 .. Len(json) + 1
    BY Facts DEF IInv, Typed, Reads, CanRead, IsInside
<1>2. QED
    BY <1>1, Facts, TokenFacts DEF Reads, CanRead

\* An invariant part is about the text that does not change.
LEMMA SameText ==
    ASSUME json' = json
    PROVE  Text' = Text /\ Call' = Call /\ Cell' = Cell /\ Node' = Node
    BY DEF Text, Call, Cell, Node
-----------------------------------------------------------------------------
(***************************************************************************)
(* One lemma for each thing that is done with a token.                     *)
(***************************************************************************)

\* The innermost call goes on, an object with its key.
LEMMA GoesOn ==
    ASSUME IInv, calls # <<>>, json' = json, json_p' \in 1 .. Len(json) + 2,
           UNCHANGED <<nodes, destroyed, data, pc>>,
           NEW call \in Call, calls' = [calls EXCEPT ![1] = call],
           call.data = calls[1].data, CallFits(call)
    PROVE  IInv'
<1>1. 1 \in DOMAIN calls /\ calls' \in Seq(Call) /\ DOMAIN calls' = DOMAIN calls
    BY Facts DEF IInv, Typed
<1>2. \A k \in DOMAIN calls :
          /\ calls'[k].data = calls[k].data
          /\ k # 1 => calls'[k] = calls[k]
          /\ k = 1 => calls'[k] = call
    BY <1>1
<1>3. Typed'
    BY <1>1, SameText DEF IInv, Typed
<1>4. CallsFit'
    <2>1. \A c : CallFits(c)' <=> CallFits(c)
        BY SameText DEF CallFits
    <2>2. ASSUME NEW k \in DOMAIN calls PROVE CallFits(calls'[k])
        BY <1>2 DEF IInv, CallsFit
    <2>3. ASSUME NEW k \in DOMAIN calls PROVE CallFits(calls[k])'
        BY <2>2, SameText DEF CallFits
    <2>4. ASSUME NEW k \in DOMAIN calls, k > 1 PROVE calls'[k].needs = "more"
        BY <1>2, <2>4 DEF IInv, CallsFit
    <2>5. ASSUME NEW j \in DOMAIN calls, NEW k \in DOMAIN calls, j < k
          PROVE  calls'[k].data < calls'[j].data
        BY <1>2, <2>5 DEF IInv, CallsFit
    <2>6. QED
        BY <1>1, <2>3, <2>4, <2>5 DEF CallsFit
<1>5. NodesFit'
    BY SameText DEF IInv, NodesFit
<1>6. Owned'
    <2>1. InUseIn(nodes, calls', data) = InUseIn(nodes, calls, data)
        BY <1>1, <1>2 DEF InUseIn
    <2>2. ApartIn(nodes, calls) => ApartIn(nodes, calls')
        BY <1>1, <1>2 DEF ApartIn
    <2>3. QED
        BY <2>1, <2>2 DEF IInv, Owned
<1>7. QED
    BY <1>3, <1>4, <1>5, <1>6 DEF IInv

\* So with what Continue does.
LEMMA Continues ==
    ASSUME IInv, calls # <<>>, json' = json, json_p' \in 1 .. Len(json) + 2,
           UNCHANGED <<nodes, destroyed, data, pc>>,
           NEW token \in {"key", "colon", "value", "more", "element", "last"}, Continue(token),
           Running.what = "object" => /\ token \in {"key", "colon", "value", "more"}
                                      /\ Running.needs # "key",
           Running.what = "array" => token \in {"element", "more", "last"}
    PROVE  IInv'
<1> DEFINE call == [calls[1] EXCEPT !.needs = token]
<1>1. 1 \in DOMAIN calls /\ calls[1] \in Call
    BY Facts DEF IInv, Typed
<1>2. /\ call \in Call /\ call.needs = token
      /\ call.data = calls[1].data /\ call.what = calls[1].what /\ call.key = calls[1].key
    BY <1>1 DEF Call
<1>3. calls' = [calls EXCEPT ![1] = call]
    BY DEF Continue
<1> HIDE DEF call
<1>4. CallFits(call)
    BY <1>1, <1>2 DEF IInv, CallsFit, CallFits, Running
<1>5. QED
    BY <1>2, <1>3, <1>4, GoesOn
-----------------------------------------------------------------------------
\* What a step does to the nodes: a cell more in one of them, or a node more.
WithCell(ns, d, cell) == [ns EXCEPT ![d].cells = Append(@, cell)]

WithNode(ns, node) == Append(ns, node)

\* A cell more, and nothing else changes.
LEMMA CellAdded ==
    ASSUME NEW ns \in Seq(Node), NEW d \in DOMAIN ns, NEW cell \in Cell
    PROVE  LET ext == WithCell(ns, d, cell) IN
           /\ ext \in Seq(Node) /\ DOMAIN ext = DOMAIN ns /\ Len(ext) = Len(ns)
           /\ \A m \in DOMAIN ns \ {d} : ext[m] = ns[m]
           /\ ext[d].type = ns[d].type /\ ext[d].text = ns[d].text
           /\ ext[d].cells = Append(ns[d].cells, cell)
           /\ Parts(ext, d) = Parts(ns, d) \cup {cell.value}
           /\ \A m \in DOMAIN ns \ {d} : Parts(ext, m) = Parts(ns, m)
<1> DEFINE ext == WithCell(ns, d, cell)
<1>1. ns[d] \in Node /\ ns[d].cells \in Seq(Cell)
    <2>1. ns[d] \in Node
        OBVIOUS
    <2>2. QED
        BY <2>1 DEF Node
<1> DEFINE new == [ns[d] EXCEPT !.cells = Append(ns[d].cells, cell)]
<1>2. Append(ns[d].cells, cell) \in Seq(Cell)
    BY <1>1
<1>3. new \in Node /\ new.type = ns[d].type /\ new.text = ns[d].text
      /\ new.cells = Append(ns[d].cells, cell)
    BY <1>1, <1>2 DEF Node
<1>4. ext = [ns EXCEPT ![d] = new]
    BY DEF WithCell
<1> HIDE DEF new, ext
<1>5. /\ ext \in Seq(Node) /\ DOMAIN ext = DOMAIN ns /\ Len(ext) = Len(ns)
      /\ ext[d] = new /\ \A m \in DOMAIN ns \ {d} : ext[m] = ns[m]
    <2>1. DOMAIN ns = 1 .. Len(ns) /\ Len(ns) \in Nat /\ \A m \in DOMAIN ns : ns[m] \in Node
        OBVIOUS
    <2>2. DOMAIN ext = DOMAIN ns /\ ext[d] = new /\ \A m \in DOMAIN ns \ {d} : ext[m] = ns[m]
        BY <1>4
    <2>3. ext \in [1 .. Len(ns) -> Node]
        BY <1>3, <1>4, <2>1
    <2>4. ext \in Seq(Node) /\ Len(ext) = Len(ns)
        BY <2>1, <2>3
    <2>5. QED
        BY <2>2, <2>4
<1>6. Parts(ext, d) = Parts(ns, d) \cup {cell.value}
    <2>1. \A old \in Seq(Cell) : PartsOf(Append(old, cell)) = PartsOf(old) \cup {cell.value}
        <3> SUFFICES ASSUME NEW old \in Seq(Cell)
                     PROVE  PartsOf(Append(old, cell)) = PartsOf(old) \cup {cell.value}
            OBVIOUS
        <3> DEFINE more == Append(old, cell)
        <3>1. /\ DOMAIN old = 1 .. Len(old) /\ Len(old) \in Nat
              /\ DOMAIN more = 1 .. Len(old) + 1
              /\ \A k \in 1 .. Len(old) : more[k] = old[k]
              /\ more[Len(old) + 1] = cell
            OBVIOUS
        <3> HIDE DEF more
        <3>2. DOMAIN more = DOMAIN old \cup {Len(old) + 1} /\ \A k \in DOMAIN old : more[k] = old[k]
            BY <3>1
        <3>3. PartsOf(more) = PartsOf(old) \cup {cell.value}
            BY <3>1, <3>2 DEF PartsOf
        <3>4. QED
            BY <3>3 DEF more
    <2>2. ext[d].cells = Append(ns[d].cells, cell)
        BY <1>3, <1>5
    <2>3. QED
        BY <1>1, <2>1, <2>2 DEF Parts
<1>7. \A m \in DOMAIN ns \ {d} : Parts(ext, m) = Parts(ns, m)
    BY <1>5 DEF Parts
<1>8. QED
    BY <1>3, <1>5, <1>6, <1>7 DEF ext

\* A node more, without cells.
LEMMA NodeAdded ==
    ASSUME NEW ns \in Seq(Node), NEW node \in Node, node.cells = <<>>
    PROVE  LET grown == WithNode(ns, node)
               new   == Len(ns) + 1
           IN
           /\ grown \in Seq(Node) /\ Len(grown) = new /\ new \notin DOMAIN ns
           /\ DOMAIN grown = DOMAIN ns \cup {new}
           /\ grown[new] = node /\ \A m \in DOMAIN ns : grown[m] = ns[m]
           /\ Parts(grown, new) = {}
           /\ \A m \in DOMAIN ns : Parts(grown, m) = Parts(ns, m)
<1> DEFINE grown == WithNode(ns, node)
           new   == Len(ns) + 1
<1>1. /\ grown \in Seq(Node) /\ Len(grown) = new /\ new \notin DOMAIN ns
      /\ DOMAIN grown = DOMAIN ns \cup {new}
      /\ grown[new] = node /\ \A m \in DOMAIN ns : grown[m] = ns[m]
    BY DEF WithNode
<1> HIDE DEF grown, new
<1>2. Parts(grown, new) = {}
    <2>1. PartsOf(<<>>) = {}
        BY DEF PartsOf
    <2>2. QED
        BY <1>1, <2>1 DEF Parts
<1>3. \A m \in DOMAIN ns : Parts(grown, m) = Parts(ns, m)
    BY <1>1 DEF Parts
<1>4. QED
    BY <1>1, <1>2, <1>3 DEF grown, new

\* A string or a boolean is stored in the node that the innermost call fills.
LEMMA Stores ==
    ASSUME IInv, calls # <<>>, pc = "reading", json' = json, json_p' \in 1 .. Len(json) + 2,
           Running.what = "object" => Running.needs = "value",
           NEW node \in Node, node.cells = <<>>, Leaf(node)
    PROVE  IInv'
<1> DEFINE d == calls[1].data
           new == Len(nodes) + 1
           cell == [key |-> calls[1].key, value |-> new]
           ext == WithCell(nodes, d, cell)
           call == [calls[1] EXCEPT !.needs = "more"]
<1>1. 1 \in DOMAIN calls /\ calls[1] \in Call /\ CallFits(calls[1])
    BY Facts DEF IInv, Typed, CallsFit
<1>2. /\ d \in DOMAIN nodes /\ d < new /\ new \in Nat
      /\ calls[1].key \in IF nodes[d].type = "hash" THEN Text ELSE {NULL}
    BY <1>1, Facts DEF CallFits, Running, Call
<1>3. cell \in Cell /\ cell.value = new /\ cell.key = calls[1].key
    BY <1>2 DEF Cell
<1>4. nodes \in Seq(Node)
    BY DEF IInv, Typed
<1>5. nodes' = WithNode(ext, node) /\ calls' = [calls EXCEPT ![1] = call]
      /\ UNCHANGED <<destroyed, data, pc>>
    BY DEF Leaf, Continue, Running, WithCell, WithNode
<1>6. /\ call \in Call /\ call.needs = "more"
      /\ call.data = calls[1].data /\ call.what = calls[1].what /\ call.key = calls[1].key
    BY <1>1 DEF Call
<1> HIDE DEF cell, ext, call
<1>7. /\ ext \in Seq(Node) /\ DOMAIN ext = DOMAIN nodes /\ Len(ext) = Len(nodes)
      /\ \A m \in DOMAIN nodes \ {d} : ext[m] = nodes[m]
      /\ ext[d].type = nodes[d].type
      /\ ext[d].cells = Append(nodes[d].cells, cell)
      /\ Parts(ext, d) = Parts(nodes, d) \cup {new}
      /\ \A m \in DOMAIN nodes \ {d} : Parts(ext, m) = Parts(nodes, m)
    <2> HIDE DEF d, new
    <2>1. QED
        BY <1>2, <1>3, <1>4, CellAdded DEF ext
<1>8. /\ nodes' \in Seq(Node) /\ Len(nodes') = new /\ new \notin DOMAIN nodes
      /\ DOMAIN nodes' = DOMAIN nodes \cup {new}
      /\ nodes'[new] = node /\ \A m \in DOMAIN nodes : nodes'[m] = ext[m]
      /\ Parts(nodes', new) = {}
      /\ \A m \in DOMAIN nodes : Parts(nodes', m) = Parts(ext, m)
    <2>1. new = Len(ext) + 1 /\ nodes' = WithNode(ext, node) /\ ext \in Seq(Node)
        BY <1>5, <1>7
    <2> HIDE DEF d, new
    <2>2. /\ nodes' \in Seq(Node) /\ Len(nodes') = new /\ new \notin DOMAIN ext
          /\ DOMAIN nodes' = DOMAIN ext \cup {new}
          /\ nodes'[new] = node /\ \A m \in DOMAIN ext : nodes'[m] = ext[m]
          /\ Parts(nodes', new) = {}
          /\ \A m \in DOMAIN ext : Parts(nodes', m) = Parts(ext, m)
        <3> DEFINE grown == WithNode(ext, node)
        <3>1. /\ grown \in Seq(Node) /\ Len(grown) = Len(ext) + 1 /\ Len(ext) + 1 \notin DOMAIN ext
              /\ DOMAIN grown = DOMAIN ext \cup {Len(ext) + 1}
              /\ grown[Len(ext) + 1] = node /\ \A m \in DOMAIN ext : grown[m] = ext[m]
              /\ Parts(grown, Len(ext) + 1) = {}
              /\ \A m \in DOMAIN ext : Parts(grown, m) = Parts(ext, m)
            BY <2>1, NodeAdded
        <3> HIDE DEF grown
        <3>2. nodes' = grown
            BY <2>1 DEF grown
        <3>3. QED
            BY <2>1, <3>1, <3>2
    <2>3. QED
        BY <1>7, <2>2
<1>9. /\ DOMAIN calls' = DOMAIN calls /\ calls' \in Seq(Call)
      /\ calls'[1] = call /\ \A k \in DOMAIN calls \ {1} : calls'[k] = calls[k]
      /\ \A k \in DOMAIN calls : calls'[k].data = calls[k].data
    <2>1. calls \in Seq(Call)
        BY DEF IInv, Typed
    <2> HIDE DEF Call
    <2>2. QED
        BY <1>1, <1>5, <1>6, <2>1
<1>10. \A m \in DOMAIN nodes : nodes'[m].type = nodes[m].type
    BY <1>7, <1>8
<1>11. Typed'
    BY <1>2, <1>5, <1>8, <1>9, SameText, Facts DEF IInv, Typed
<1>12. CallsFit'
    <2>1. ASSUME NEW k \in DOMAIN calls PROVE CallFits(calls'[k])
        <3>1. CASE k = 1
            BY <1>1, <1>6, <1>9, <3>1 DEF CallFits, Running
        <3>2. CASE k # 1
            BY <1>9, <3>2 DEF IInv, CallsFit
        <3>3. QED
            BY <3>1, <3>2
    <2>2. ASSUME NEW k \in DOMAIN calls PROVE CallFits(calls[k])'
        BY <2>1, <1>8, <1>10, SameText DEF CallFits
    <2>3. \A k \in DOMAIN calls : k > 1 => calls'[k].needs = "more"
        BY <1>9 DEF IInv, CallsFit
    <2>4. \A j, k \in DOMAIN calls : j < k => calls'[k].data < calls'[j].data
        BY <1>9 DEF IInv, CallsFit
    <2>5. QED
        BY <1>9, <2>2, <2>3, <2>4 DEF CallsFit
<1>13. NodesFit'
    <2> SUFFICES ASSUME NEW n \in DOMAIN nodes', NEW k \in DOMAIN nodes'[n].cells
                 PROVE  /\ nodes'[n].cells[k].key \in IF nodes'[n].type = "hash" THEN Text ELSE {NULL}
                        /\ nodes'[n].cells[k].value \in n + 1 .. new
        BY <1>8, SameText DEF NodesFit
    <2>0. n # new /\ n \in DOMAIN nodes
        BY <1>8
    <2>1. CASE n # d
        <3>1. nodes'[n] = nodes[n]
            BY <1>7, <1>8, <2>0, <2>1
        <3>2. QED
            BY <2>0, <3>1, Facts DEF IInv, NodesFit
    <2>2. CASE n = d
        <3> DEFINE old == nodes[d].cells
        <3>1. nodes'[n].cells = Append(old, cell) /\ nodes'[n].type = nodes[d].type
            BY <1>7, <1>8, <2>0, <2>2
        <3>2. old \in Seq(Cell)
            BY <1>2, Facts DEF Node
        <3>3. CASE k \in DOMAIN old
            <4>1. nodes'[n].cells[k] = old[k]
                BY <3>1, <3>2, <3>3
            <4>2. /\ old[k].key \in IF nodes[d].type = "hash" THEN Text ELSE {NULL}
                  /\ old[k].value \in d + 1 .. Len(nodes)
                BY <1>2, <3>3 DEF IInv, NodesFit
            <4>3. QED
                <5>1. Len(nodes) \in Nat /\ d \in Nat
                    BY <1>2, Facts
                <5>2. d + 1 .. Len(nodes) \subseteq d + 1 .. new
                    BY <5>1
                <5> HIDE DEF old, new, d
                <5>3. QED
                    BY <2>2, <3>1, <4>1, <4>2, <5>2
        <3>4. CASE k \notin DOMAIN old
            <4>1. nodes'[n].cells[k] = cell
                BY <3>1, <3>2, <3>4
            <4>2. QED
                BY <1>2, <1>3, <2>2, <3>1, <4>1, Facts
        <3>5. QED
            BY <3>3, <3>4
    <2>3. QED
        BY <2>1, <2>2
<1>14. Owned'
    <2> DEFINE grown == WithNode(nodes, node)
    <2>1. /\ new \notin DOMAIN nodes /\ DOMAIN grown = DOMAIN nodes \cup {new}
          /\ Parts(grown, new) = {} /\ \A m \in DOMAIN nodes : Parts(grown, m) = Parts(nodes, m)
        <3>1. new = Len(nodes) + 1
            OBVIOUS
        <3> HIDE DEF new
        <3>2. QED
            BY <1>4, <3>1, NodeAdded
    <2> HIDE DEF grown, new
    <2>2. /\ IsForest(grown) /\ BelowIn(grown, new) = {new}
          /\ \A n \in DOMAIN nodes : BelowIn(grown, n) = BelowIn(nodes, n)
        BY <2>1, Facts, Grown
    <2>3. \A n \in DOMAIN grown :
              BelowIn(nodes', n) = BelowIn(grown, n) \cup
                                   IF d \in BelowIn(grown, n) THEN BelowIn(grown, new) ELSE {}
        <3>1. d \in DOMAIN grown /\ new \in DOMAIN grown /\ DOMAIN nodes' = DOMAIN grown
            BY <1>2, <1>8, <2>1
        <3>2. Parts(nodes', d) = Parts(grown, d) \cup {new}
            BY <1>2, <1>7, <1>8, <2>1
        <3>3. \A m \in DOMAIN grown \ {d} : Parts(nodes', m) = Parts(grown, m)
            BY <1>2, <1>7, <1>8, <2>1
        <3> HIDE DEF d
        <3>4. QED
            BY <2>2, <3>1, <3>2, <3>3, Linked
    <2>4. \A n \in DOMAIN nodes :
              BelowIn(nodes', n) = BelowIn(nodes, n) \cup
                                   IF d \in BelowIn(nodes, n) THEN {new} ELSE {}
        BY <2>1, <2>2, <2>3
    <2>5. \A k \in DOMAIN calls : calls[k].data \in DOMAIN nodes
        BY DEF IInv, CallsFit, CallFits
    <2>6. \A n \in DOMAIN nodes : n \in BelowIn(nodes, n) /\ BelowIn(nodes, n) \subseteq DOMAIN nodes
        BY Facts, BelowIsLeast
    <2>7. data = 0 /\ ApartIn(nodes, calls) /\ destroyed = DOMAIN nodes \ InUseIn(nodes, calls, 0)
        BY DEF IInv, Owned
    <2>8. InUseIn(nodes', calls', 0) = InUseIn(nodes, calls, 0) \cup {new}
        <3>1. new \in BelowIn(nodes', calls'[1].data)
            BY <1>1, <1>2, <1>9, <2>4, <2>6
        <3>2. \A k \in DOMAIN calls :
                  /\ BelowIn(nodes, calls[k].data) \subseteq BelowIn(nodes', calls'[k].data)
                  /\ BelowIn(nodes', calls'[k].data) \subseteq BelowIn(nodes, calls[k].data) \cup {new}
            BY <1>9, <2>4, <2>5
        <3> DEFINE Old(k) == BelowIn(nodes, calls[k].data)
                   Now(k) == BelowIn(nodes', calls'[k].data)
        <3>3. /\ InUseIn(nodes, calls, 0) = UNION {Old(k) : k \in DOMAIN calls}
              /\ InUseIn(nodes', calls', 0) = UNION {Now(k) : k \in DOMAIN calls}
            BY <1>9 DEF InUseIn
        <3>4. new \in Now(1) /\ \A k \in DOMAIN calls : Old(k) \subseteq Now(k) /\ Now(k) \subseteq Old(k) \cup {new}
            BY <3>1, <3>2
        <3> HIDE DEF Old, Now
        <3>5. QED
            BY <1>1, <3>3, <3>4
    <2>9. ApartIn(nodes', calls')
        <3> SUFFICES ASSUME NEW j \in DOMAIN calls, NEW k \in DOMAIN calls, j # k
                     PROVE  BelowIn(nodes', calls[j].data) \cap BelowIn(nodes', calls[k].data) = {}
            BY <1>9 DEF ApartIn
        <3>1. BelowIn(nodes, calls[j].data) \cap BelowIn(nodes, calls[k].data) = {}
            BY <2>7 DEF ApartIn
        <3>2. QED
            BY <2>1, <2>4, <2>5, <2>6, <3>1
    <2>10. DOMAIN nodes' \ InUseIn(nodes', calls', 0) = DOMAIN nodes \ InUseIn(nodes, calls, 0)
        BY <1>8, <2>1, <2>8
    <2>11. QED
        BY <1>5, <2>7, <2>9, <2>10 DEF Owned
<1>15. QED
    BY <1>11, <1>12, <1>13, <1>14 DEF IInv

\* A call is made, for a node of its own.
LEMMA Begins ==
    ASSUME IInv, pc = "reading", json' = json, json_p' \in 1 .. Len(json) + 2,
           calls # <<>> /\ Running.what = "object" => Running.needs = "value",
           NEW what \in {"object", "array"}, Begin(what)
    PROVE  IInv'
<1> DEFINE new  == Len(nodes) + 1
           node == New(IF what = "object" THEN "hash" ELSE "array", <<>>)
           rest == IF calls = <<>> THEN <<>> ELSE [calls EXCEPT ![1].needs = "more"]
           call == CallOf(what, new)
<1>1. /\ nodes' = WithNode(nodes, node) /\ calls' = <<call>> \o rest
      /\ UNCHANGED <<destroyed, data, pc>>
    BY DEF Begin, WithNode
<1>2. nodes \in Seq(Node) /\ calls \in Seq(Call) /\ new \in Nat
    BY Facts DEF IInv, Typed
<1>3. node \in Node /\ node.cells = <<>> /\ node.type = IF what = "object" THEN "hash" ELSE "array"
    BY NewIsNode, Empty
<1>4. /\ call \in Call /\ call.what = what /\ call.data = new /\ call.key = NULL
      /\ call.needs = IF what = "object" THEN "key" ELSE "element"
    BY <1>2, NewIsCall
<1> HIDE DEF node, call
<1>5. /\ nodes' \in Seq(Node) /\ Len(nodes') = new /\ new \notin DOMAIN nodes
      /\ DOMAIN nodes' = DOMAIN nodes \cup {new}
      /\ nodes'[new] = node /\ \A m \in DOMAIN nodes : nodes'[m] = nodes[m]
      /\ Parts(nodes', new) = {}
      /\ \A m \in DOMAIN nodes : Parts(nodes', m) = Parts(nodes, m)
    <2> DEFINE grown == WithNode(nodes, node)
    <2>1. /\ grown \in Seq(Node) /\ Len(grown) = Len(nodes) + 1
          /\ Len(nodes) + 1 \notin DOMAIN nodes
          /\ DOMAIN grown = DOMAIN nodes \cup {Len(nodes) + 1}
          /\ grown[Len(nodes) + 1] = node /\ \A m \in DOMAIN nodes : grown[m] = nodes[m]
          /\ Parts(grown, Len(nodes) + 1) = {}
          /\ \A m \in DOMAIN nodes : Parts(grown, m) = Parts(nodes, m)
        BY <1>2, <1>3, NodeAdded
    <2> HIDE DEF grown
    <2>2. nodes' = grown
        BY <1>1 DEF grown
    <2>3. QED
        BY <2>1, <2>2
<1>6. /\ rest \in Seq(Call) /\ Len(rest) = Len(calls)
      /\ \A k \in DOMAIN calls : /\ rest[k].data = calls[k].data /\ rest[k].needs = "more"
                                 /\ CallFits(rest[k])
    <2>1. CASE calls = <<>>
        BY <2>1
    <2>2. CASE calls # <<>>
        <3> DEFINE first == [calls[1] EXCEPT !.needs = "more"]
        <3>1. 1 \in DOMAIN calls /\ calls[1] \in Call /\ CallFits(calls[1])
            BY <2>2, Facts DEF IInv, CallsFit
        <3>2. /\ first \in Call /\ first.needs = "more"
              /\ first.data = calls[1].data /\ first.what = calls[1].what /\ first.key = calls[1].key
            BY <3>1 DEF Call
        <3>3. rest = [calls EXCEPT ![1] = first]
            BY <2>2
        <3> HIDE DEF first, rest
        <3>4. /\ rest \in Seq(Call) /\ Len(rest) = Len(calls) /\ rest[1] = first
              /\ \A k \in DOMAIN calls \ {1} : rest[k] = calls[k]
            BY <1>2, <3>1, <3>2, <3>3
        <3>5. CallFits(first)
            BY <2>2, <3>1, <3>2 DEF CallFits, Running
        <3>6. \A k \in DOMAIN calls \ {1} : CallFits(calls[k]) /\ calls[k].needs = "more"
            BY Facts DEF IInv, CallsFit
        <3>7. QED
            BY <3>2, <3>4, <3>5, <3>6
    <2>3. QED
        BY <2>1, <2>2
<1> HIDE DEF rest
<1>7. /\ calls' \in Seq(Call) /\ DOMAIN calls' = 1 .. Len(calls) + 1
      /\ calls'[1] = call /\ \A k \in DOMAIN calls' \ {1} : k - 1 \in DOMAIN calls /\ calls'[k] = rest[k - 1]
    <2>1. Len(calls) \in Nat /\ DOMAIN calls = 1 .. Len(calls) /\ Len(rest) = Len(calls)
        BY <1>2, <1>6
    <2>2. <<call>> \in Seq(Call) /\ rest \in Seq(Call)
        BY <1>4, <1>6
    <2>3. QED
        BY <1>1, <2>1, <2>2
<1>8. \A k \in DOMAIN calls' \ {1} : calls'[k].data = calls[k - 1].data /\ calls'[k].needs = "more"
    BY <1>6, <1>7
<1>9. \A k \in DOMAIN calls : calls[k].data \in DOMAIN nodes
    BY DEF IInv, CallsFit, CallFits
<1>10. Typed'
    BY <1>1, <1>2, <1>5, <1>7, SameText, Facts DEF IInv, Typed
<1>11. CallsFit'
    <2>1. ASSUME NEW c, CallFits(c) PROVE CallFits(c)'
        BY <2>1, <1>5, SameText DEF CallFits
    <2>2. CallFits(calls[1])'
        BY <1>3, <1>4, <1>5, <1>7, SameText DEF CallFits
    <2>3. \A k \in DOMAIN calls' \ {1} : CallFits(rest[k - 1])
        BY <1>6, <1>7
    <2>4. ASSUME NEW k \in DOMAIN calls' PROVE CallFits(calls[k])' /\ (k > 1 => calls'[k].needs = "more")
        <3>1. CASE k = 1
            BY <2>2, <3>1
        <3>2. CASE k # 1
            <4>1. PICK c : c = calls'[k] /\ CallFits(c)
                BY <1>7, <2>3, <3>2
            <4>2. CallFits(c)'
                BY <2>1, <4>1
            <4>3. QED
                BY <1>8, <3>2, <4>1, <4>2 DEF CallFits
        <3>3. QED
            BY <3>1, <3>2
    <2>5. ASSUME NEW j \in DOMAIN calls', NEW k \in DOMAIN calls', j < k
          PROVE  calls'[k].data < calls'[j].data
        <3>1. k # 1 /\ k - 1 \in DOMAIN calls /\ calls'[k].data = calls[k - 1].data
            BY <1>7, <1>8, <2>5, Facts
        <3>2. CASE j = 1
            BY <1>2, <1>4, <1>7, <1>9, <3>1, <3>2, Facts
        <3>3. CASE j # 1
            <4>1. j - 1 \in DOMAIN calls /\ calls'[j].data = calls[j - 1].data /\ j - 1 < k - 1
                BY <1>7, <1>8, <2>5, <3>3, Facts
            <4>2. QED
                BY <3>1, <4>1 DEF IInv, CallsFit
        <3>4. QED
            BY <3>2, <3>3
    <2>6. QED
        BY <2>4, <2>5 DEF CallsFit
<1>12. NodesFit'
    <2> SUFFICES ASSUME NEW n \in DOMAIN nodes', NEW k \in DOMAIN nodes'[n].cells
                 PROVE  /\ nodes'[n].cells[k].key \in IF nodes'[n].type = "hash" THEN Text ELSE {NULL}
                        /\ nodes'[n].cells[k].value \in n + 1 .. new
        BY <1>5, SameText DEF NodesFit
    <2>1. n \in DOMAIN nodes /\ nodes'[n] = nodes[n]
        BY <1>3, <1>5
    <2>2. QED
        BY <2>1, Facts DEF IInv, NodesFit
<1>13. Owned'
    <2> HIDE DEF new
    <2>1. /\ BelowIn(nodes', new) = {new}
          /\ \A n \in DOMAIN nodes : BelowIn(nodes', n) = BelowIn(nodes, n)
        BY <1>5, Facts, Grown
    <2>2. data = 0 /\ ApartIn(nodes, calls) /\ destroyed = DOMAIN nodes \ InUseIn(nodes, calls, 0)
        BY DEF IInv, Owned
    <2> DEFINE Old(k) == BelowIn(nodes, calls[k].data)
               Now(k) == BelowIn(nodes', calls'[k].data)
    <2>3. Now(1) = {new} /\ \A k \in DOMAIN calls' \ {1} : Now(k) = Old(k - 1)
        BY <1>4, <1>7, <1>8, <1>9, <2>1
    <2>4. \A k \in DOMAIN calls : new \notin Old(k)
        BY <1>5 DEF BelowIn
    <2>5. \A j, k \in DOMAIN calls : j # k => Old(j) \cap Old(k) = {}
        BY <2>2 DEF ApartIn
    <2>6. /\ InUseIn(nodes, calls, 0) = UNION {Old(k) : k \in DOMAIN calls}
          /\ InUseIn(nodes', calls', 0) = UNION {Now(k) : k \in DOMAIN calls'}
        BY DEF InUseIn
    <2>7. ApartIn(nodes', calls') <=> \A j, k \in DOMAIN calls' : j # k => Now(j) \cap Now(k) = {}
        BY DEF ApartIn
    <2>8. /\ Len(calls) \in Nat /\ DOMAIN calls = 1 .. Len(calls)
          /\ DOMAIN calls' = 1 .. Len(calls) + 1
        BY <1>7, Facts
    <2> HIDE DEF Old, Now
    <2>9. \A j, k \in DOMAIN calls' : j # k => Now(j) \cap Now(k) = {}
        <3> SUFFICES ASSUME NEW j \in DOMAIN calls', NEW k \in DOMAIN calls', j < k
                     PROVE  Now(j) \cap Now(k) = {}
            BY <2>8
        <3>1. k # 1 /\ k - 1 \in DOMAIN calls /\ Now(k) = Old(k - 1)
            BY <2>3, <2>8
        <3>2. CASE j = 1
            BY <2>3, <2>4, <3>1, <3>2
        <3>3. CASE j # 1
            <4>1. j - 1 \in DOMAIN calls /\ Now(j) = Old(j - 1) /\ j - 1 # k - 1
                BY <2>3, <2>8, <3>3
            <4>2. QED
                BY <2>5, <3>1, <4>1
        <3>4. QED
            BY <3>2, <3>3
    <2>10. InUseIn(nodes', calls', 0) = InUseIn(nodes, calls, 0) \cup {new}
        <3>1. \A k \in DOMAIN calls : k + 1 \in DOMAIN calls' \ {1} /\ Now(k + 1) = Old(k)
            <4>1. \A k \in DOMAIN calls : k + 1 \in DOMAIN calls' \ {1} /\ (k + 1) - 1 = k
                BY <2>8
            <4>2. QED
                BY <2>3, <4>1
        <3>2. \A k \in DOMAIN calls' : Now(k) = {new} \/ \E i \in DOMAIN calls : Now(k) = Old(i)
            BY <2>3, <2>8
        <3>3. 1 \in DOMAIN calls'
            BY <2>8
        <3>4. \A x : x \in InUseIn(nodes', calls', 0) => x \in InUseIn(nodes, calls, 0) \cup {new}
            BY <2>6, <3>2
        <3>5. \A x : x \in InUseIn(nodes, calls, 0) => x \in InUseIn(nodes', calls', 0)
            BY <2>6, <3>1
        <3>6. new \in InUseIn(nodes', calls', 0)
            BY <2>3, <2>6, <3>3
        <3>7. QED
            BY <3>4, <3>5, <3>6
    <2>11. DOMAIN nodes' \ InUseIn(nodes', calls', 0) = DOMAIN nodes \ InUseIn(nodes, calls, 0)
        BY <1>5, <2>10
    <2>12. QED
        BY <1>1, <2>2, <2>7, <2>9, <2>11 DEF Owned
<1>14. QED
    BY <1>10, <1>11, <1>12, <1>13 DEF IInv

\* Without the innermost call.
LEMMA TailFits ==
    ASSUME IInv, calls # <<>>, json' = json, calls' = Tail(calls),
           DOMAIN nodes \subseteq DOMAIN nodes',
           \A n \in DOMAIN nodes : nodes'[n].type = nodes[n].type
    PROVE  /\ calls' \in Seq(Call) /\ CallsFit'
           /\ \A k \in DOMAIN calls' : k + 1 \in DOMAIN calls \ {1} /\ calls'[k] = calls[k + 1]
           /\ \A k \in DOMAIN calls \ {1} : k - 1 \in DOMAIN calls' /\ calls'[k - 1] = calls[k]
<1>1. /\ calls' \in Seq(Call)
      /\ \A k \in DOMAIN calls' : k + 1 \in DOMAIN calls \ {1} /\ calls'[k] = calls[k + 1]
      /\ \A k \in DOMAIN calls \ {1} : k - 1 \in DOMAIN calls' /\ calls'[k - 1] = calls[k]
      /\ DOMAIN calls' \subseteq Nat \ {0}
    <2>1. calls \in Seq(Call)
        BY DEF IInv, Typed
    <2>2. /\ calls' \in Seq(Call) /\ Len(calls) \in Nat \ {0} /\ DOMAIN calls = 1 .. Len(calls)
          /\ DOMAIN calls' = 1 .. Len(calls) - 1
          /\ \A k \in 1 .. Len(calls) - 1 : calls'[k] = calls[k + 1]
        BY <2>1
    <2> HIDE DEF Call
    <2>3. ASSUME NEW k \in DOMAIN calls' PROVE k + 1 \in DOMAIN calls \ {1} /\ calls'[k] = calls[k + 1]
        BY <2>2
    <2>4. ASSUME NEW k \in DOMAIN calls \ {1} PROVE k - 1 \in DOMAIN calls' /\ calls'[k - 1] = calls[k]
        BY <2>2
    <2>5. QED
        BY <2>2, <2>3, <2>4
<1>2. ASSUME NEW c, CallFits(c) PROVE CallFits(c)'
    BY <1>2, SameText DEF CallFits
<1>3. ASSUME NEW k \in DOMAIN calls' PROVE CallFits(calls[k])' /\ calls'[k].needs = "more"
    <2>1. PICK c : c = calls'[k] /\ CallFits(c) /\ c.needs = "more"
        BY <1>1, Facts DEF IInv, CallsFit
    <2>2. CallFits(c)'
        BY <1>2, <2>1
    <2>3. QED
        BY <2>1, <2>2 DEF CallFits
<1>4. ASSUME NEW j \in DOMAIN calls', NEW k \in DOMAIN calls', j < k
      PROVE  calls'[k].data < calls'[j].data
    <2>1. j + 1 \in DOMAIN calls /\ k + 1 \in DOMAIN calls /\ j + 1 < k + 1
        BY <1>1, <1>4
    <2>2. QED
        BY <1>1, <2>1 DEF IInv, CallsFit
<1>5. QED
    BY <1>1, <1>3, <1>4 DEF CallsFit

\* Without calls, what the result reaches is in use.
LEMMA NoCallInUse ==
    ASSUME NEW ns, NEW cs, DOMAIN cs = {}, NEW d, d # 0
    PROVE  InUseIn(ns, cs, d) = BelowIn(ns, d)
<1> DEFINE none == UNION {BelowIn(ns, cs[k].data) : k \in DOMAIN cs}
           all == IF d = 0 THEN {} ELSE BelowIn(ns, d)
<1>1. none = {}
    OBVIOUS
<1>2. all = BelowIn(ns, d)
    OBVIOUS
<1>3. InUseIn(ns, cs, d) = none \cup all
    BY DEF InUseIn
<1> HIDE DEF none, all
<1>4. QED
    BY <1>1, <1>2, <1>3

\* What the outermost call returns is the result, all of it.
LEMMA Finishes ==
    ASSUME IInv, pc = "reading", json' = json, json_p' \in 1 .. Len(json) + 2,
           calls # <<>>, Len(calls) = 1, ReturnData
    PROVE  IInv'
<1>1. /\ calls' = Tail(calls) /\ data' = calls[1].data /\ pc' = "returned"
      /\ UNCHANGED <<nodes, destroyed>>
    BY DEF ReturnData, Running
<1>2. calls' \in Seq(Call) /\ CallsFit'
    BY <1>1, TailFits
<1>3. DOMAIN calls = {1} /\ DOMAIN calls' = {}
    <2>1. calls \in Seq(Call)
        BY DEF IInv, Typed
    <2>2. QED
        BY <1>1, <2>1
<1>4. calls[1].data \in DOMAIN nodes /\ calls[1].data # 0 /\ DOMAIN nodes = 1 .. Len(nodes)
    BY <1>3, Facts DEF IInv, CallsFit, CallFits
<1>5. Typed'
    BY <1>1, <1>2, <1>4, SameText DEF IInv, Typed
<1>6. NodesFit'
    BY <1>1, SameText DEF IInv, NodesFit
<1>7. InUseIn(nodes', calls', data') = InUseIn(nodes, calls, 0)
    <2>1. InUseIn(nodes, calls, 0) = BelowIn(nodes, calls[1].data)
        BY <1>3 DEF InUseIn
    <2>2. InUseIn(nodes, calls', calls[1].data) = BelowIn(nodes, calls[1].data)
        BY <1>3, <1>4, NoCallInUse
    <2>3. QED
        BY <1>1, <2>1, <2>2
<1>8. Owned'
    BY <1>1, <1>7 DEF IInv, Owned
<1>9. QED
    BY <1>2, <1>5, <1>6, <1>8 DEF IInv

\* What another call returns goes into a cell of its caller's.
LEMMA ReturnsData ==
    ASSUME IInv, pc = "reading", json' = json, json_p' \in 1 .. Len(json) + 2,
           calls # <<>>, Len(calls) # 1, ReturnData
    PROVE  IInv'
<1> DEFINE o == calls[2].data
           v == calls[1].data
           cell == [key |-> calls[2].key, value |-> v]
<1>1. /\ nodes' = WithCell(nodes, o, cell) /\ calls' = Tail(calls)
      /\ UNCHANGED <<destroyed, data, pc>>
    BY DEF ReturnData, Returned, Running, WithCell
<1>2. 1 \in DOMAIN calls /\ 2 \in DOMAIN calls
    <2>1. calls \in Seq(Call)
        BY DEF IInv, Typed
    <2>2. Len(calls) # 0 /\ Len(calls) \in Nat /\ DOMAIN calls = 1 .. Len(calls)
        BY <2>1
    <2>3. QED
        BY <2>2
<1>3. /\ o \in DOMAIN nodes /\ v \in DOMAIN nodes /\ o < v
      /\ calls[2].key \in IF nodes[o].type = "hash" THEN Text ELSE {NULL}
    <2>1. CallFits(calls[1]) /\ CallFits(calls[2]) /\ calls[2].needs = "more"
        BY <1>2 DEF IInv, CallsFit
    <2>2. calls[2].what \in {"object", "array"}
        BY <1>2, Facts DEF Call
    <2>3. QED
        BY <1>2, <2>1, <2>2 DEF IInv, CallsFit, CallFits
<1>4. cell \in Cell /\ cell.value = v /\ cell.key = calls[2].key
    BY <1>3, Facts DEF Cell
<1>5. nodes \in Seq(Node)
    BY DEF IInv, Typed
<1> HIDE DEF cell
<1>6. /\ nodes' \in Seq(Node) /\ DOMAIN nodes' = DOMAIN nodes /\ Len(nodes') = Len(nodes)
      /\ \A m \in DOMAIN nodes \ {o} : nodes'[m] = nodes[m]
      /\ nodes'[o].type = nodes[o].type
      /\ nodes'[o].cells = Append(nodes[o].cells, cell)
      /\ Parts(nodes', o) = Parts(nodes, o) \cup {v}
      /\ \A m \in DOMAIN nodes \ {o} : Parts(nodes', m) = Parts(nodes, m)
    <2> HIDE DEF o, v
    <2> DEFINE ext == WithCell(nodes, o, cell)
    <2>1. /\ ext \in Seq(Node) /\ DOMAIN ext = DOMAIN nodes /\ Len(ext) = Len(nodes)
          /\ \A m \in DOMAIN nodes \ {o} : ext[m] = nodes[m]
          /\ ext[o].type = nodes[o].type
          /\ ext[o].cells = Append(nodes[o].cells, cell)
          /\ Parts(ext, o) = Parts(nodes, o) \cup {cell.value}
          /\ \A m \in DOMAIN nodes \ {o} : Parts(ext, m) = Parts(nodes, m)
        BY <1>3, <1>4, <1>5, CellAdded
    <2>2. nodes' = ext
        BY <1>1
    <2> HIDE DEF ext
    <2>3. QED
        BY <1>4, <2>1, <2>2
<1>7. \A n \in DOMAIN nodes : nodes'[n].type = nodes[n].type
    BY <1>6
<1>8. /\ calls' \in Seq(Call) /\ CallsFit'
      /\ \A k \in DOMAIN calls' : k + 1 \in DOMAIN calls \ {1} /\ calls'[k] = calls[k + 1]
      /\ \A k \in DOMAIN calls \ {1} : k - 1 \in DOMAIN calls' /\ calls'[k - 1] = calls[k]
    BY <1>1, <1>6, <1>7, TailFits
<1>9. Typed'
    BY <1>1, <1>6, <1>8, SameText DEF IInv, Typed
<1>10. NodesFit'
    <2> SUFFICES ASSUME NEW n \in DOMAIN nodes, NEW k \in DOMAIN nodes'[n].cells
                 PROVE  /\ nodes'[n].cells[k].key \in IF nodes[n].type = "hash" THEN Text ELSE {NULL}
                        /\ nodes'[n].cells[k].value \in n + 1 .. Len(nodes)
        BY <1>6, <1>7, SameText DEF NodesFit
    <2>1. CASE n # o
        BY <1>6, <2>1 DEF IInv, NodesFit
    <2>2. CASE n = o
        <3> DEFINE old == nodes[o].cells
        <3>1. nodes'[n].cells = Append(old, cell)
            BY <1>6, <2>2
        <3>2. old \in Seq(Cell)
            BY <1>3, Facts DEF Node
        <3>3. CASE k \in DOMAIN old
            <4>1. nodes'[n].cells[k] = old[k]
                BY <3>1, <3>2, <3>3
            <4>2. QED
                BY <1>3, <2>2, <3>3, <4>1 DEF IInv, NodesFit
        <3>4. CASE k \notin DOMAIN old
            <4>1. nodes'[n].cells[k] = cell
                BY <3>1, <3>2, <3>4
            <4>2. v \in o + 1 .. Len(nodes)
                BY <1>3, Facts
            <4> HIDE DEF o, v
            <4>3. QED
                BY <1>3, <1>4, <2>2, <4>1, <4>2
        <3>5. QED
            BY <3>3, <3>4
    <2>3. QED
        BY <2>1, <2>2
<1>11. Owned'
    <2>1. \A n \in DOMAIN nodes :
              BelowIn(nodes', n) = BelowIn(nodes, n) \cup
                                   IF o \in BelowIn(nodes, n) THEN BelowIn(nodes, v) ELSE {}
        <3> HIDE DEF o, v
        <3>1. IsForest(nodes) /\ o \in DOMAIN nodes /\ v \in DOMAIN nodes
            BY <1>3, Facts
        <3>2. /\ DOMAIN nodes' = DOMAIN nodes /\ Parts(nodes', o) = Parts(nodes, o) \cup {v}
              /\ \A m \in DOMAIN nodes \ {o} : Parts(nodes', m) = Parts(nodes, m)
            BY <1>6
        <3>3. QED
            BY <3>1, <3>2, Linked
    <2>2. data = 0 /\ ApartIn(nodes, calls) /\ destroyed = DOMAIN nodes \ InUseIn(nodes, calls, 0)
        BY DEF IInv, Owned
    <2> DEFINE Old(k) == BelowIn(nodes, calls[k].data)
               Now(k) == BelowIn(nodes', calls'[k].data)
    <2>3. /\ o \in Old(2)
          /\ \A j, k \in DOMAIN calls : j # k => Old(j) \cap Old(k) = {}
        BY <1>3, <2>2, Facts, BelowIsLeast DEF ApartIn
    <2>4. \A k \in DOMAIN calls' : Now(k) = Old(k + 1) \cup IF o \in Old(k + 1) THEN Old(1) ELSE {}
        <3>1. \A k \in DOMAIN calls : calls[k].data \in DOMAIN nodes
            BY DEF IInv, CallsFit, CallFits
        <3>2. QED
            BY <1>8, <2>1, <3>1
    <2>5. /\ InUseIn(nodes, calls, 0) = UNION {Old(k) : k \in DOMAIN calls}
          /\ InUseIn(nodes', calls', 0) = UNION {Now(k) : k \in DOMAIN calls'}
        BY DEF InUseIn
    <2>6. ApartIn(nodes', calls') <=> \A j, k \in DOMAIN calls' : j # k => Now(j) \cap Now(k) = {}
        BY DEF ApartIn
    <2> HIDE DEF Old, Now, o, v
    <2>7. /\ \A k \in DOMAIN calls' : k + 1 \in DOMAIN calls \ {1} /\ k \in Int
          /\ 1 \in DOMAIN calls' /\ 1 \in DOMAIN calls /\ 2 \in DOMAIN calls
        BY <1>2, <1>8, Facts
    <2>8. \A k \in DOMAIN calls' : o \in Old(k + 1) <=> k = 1
        <3>1. \A k \in DOMAIN calls' : k + 1 = 2 <=> k = 1
            BY <2>7
        <3>2. QED
            BY <2>3, <2>7, <3>1
    <2>9. Now(1) = Old(2) \cup Old(1) /\ \A k \in DOMAIN calls' \ {1} : Now(k) = Old(k + 1)
        <3>1. 1 + 1 = 2
            OBVIOUS
        <3>2. Now(1) = Old(1 + 1) \cup Old(1)
            BY <2>4, <2>7, <2>8
        <3>3. \A k \in DOMAIN calls' \ {1} : Now(k) = Old(k + 1)
            BY <2>4, <2>8
        <3>4. QED
            BY <3>1, <3>2, <3>3
    <2>10. ASSUME NEW j \in DOMAIN calls', NEW k \in DOMAIN calls' \ {1}, j # k
           PROVE  Now(j) \cap Now(k) = {}
        <3>1. /\ k + 1 \in DOMAIN calls /\ k + 1 # 1 /\ k + 1 # 2 /\ j + 1 # k + 1
              /\ j + 1 \in DOMAIN calls
            BY <2>7, <2>10
        <3>2. /\ Old(1) \cap Old(k + 1) = {} /\ Old(2) \cap Old(k + 1) = {}
              /\ Old(j + 1) \cap Old(k + 1) = {}
            BY <2>3, <2>7, <3>1
        <3>3. Now(k) = Old(k + 1) /\ (Now(j) = Old(j + 1) \/ Now(j) = Old(2) \cup Old(1))
            BY <2>9, <2>10
        <3>4. QED
            BY <3>2, <3>3
    <2>11. \A j, k \in DOMAIN calls' : j # k => Now(j) \cap Now(k) = {}
        BY <2>10
    <2>12. InUseIn(nodes', calls', 0) = InUseIn(nodes, calls, 0)
        <3>1. ASSUME NEW x \in InUseIn(nodes', calls', 0) PROVE x \in InUseIn(nodes, calls, 0)
            <4>1. PICK k \in DOMAIN calls' : x \in Now(k)
                BY <2>5, <3>1
            <4>2. x \in Old(k + 1) \/ x \in Old(1)
                BY <2>4, <4>1
            <4>3. QED
                BY <2>5, <2>7, <4>2
        <3>2. ASSUME NEW x \in InUseIn(nodes, calls, 0) PROVE x \in InUseIn(nodes', calls', 0)
            <4>1. PICK k \in DOMAIN calls : x \in Old(k)
                BY <2>5, <3>2
            <4>2. CASE k = 1
                BY <2>5, <2>7, <2>9, <4>1, <4>2
            <4>3. CASE k # 1
                <5>1. PICK i \in DOMAIN calls' : i + 1 = k
                    BY <1>8, <4>3, Facts
                <5>2. x \in Now(i)
                    BY <2>4, <4>1, <5>1
                <5>3. QED
                    BY <2>5, <5>2
            <4>4. QED
                BY <4>2, <4>3
        <3>3. QED
            BY <3>1, <3>2
    <2>13. QED
        BY <1>1, <1>6, <2>2, <2>6, <2>11, <2>12 DEF Owned
<1>12. QED
    BY <1>8, <1>9, <1>10, <1>11 DEF IInv

\* With NULL, a call destroys all that it has built, and nothing else.
LEMMA ReturnsNull ==
    ASSUME IInv, pc = "reading", json' = json, json_p' \in 1 .. Len(json) + 2,
           calls # <<>>, ReturnNull
    PROVE  IInv'
<1>1. /\ destroyed' = destroyed \cup BelowIn(nodes, calls[1].data) /\ calls' = Tail(calls)
      /\ pc' \in {"returned", "crashed", "reading"} /\ UNCHANGED <<nodes, data>>
    BY BelowIsIn DEF ReturnNull, Destroyed, Running
<1>2. /\ calls' \in Seq(Call) /\ CallsFit'
      /\ \A k \in DOMAIN calls' : k + 1 \in DOMAIN calls \ {1} /\ calls'[k] = calls[k + 1]
      /\ \A k \in DOMAIN calls \ {1} : k - 1 \in DOMAIN calls' /\ calls'[k - 1] = calls[k]
    BY <1>1, TailFits
<1>3. 1 \in DOMAIN calls
    BY Facts DEF IInv, Typed
<1>4. Typed'
    BY <1>1, <1>2, SameText DEF IInv, Typed, BelowIn
<1>5. NodesFit'
    BY <1>1, SameText DEF IInv, NodesFit
<1>6. Owned'
    <2>1. data = 0 /\ ApartIn(nodes, calls) /\ destroyed = DOMAIN nodes \ InUseIn(nodes, calls, 0)
        BY DEF IInv, Owned
    <2> DEFINE Old(k) == BelowIn(nodes, calls[k].data)
               Now(k) == BelowIn(nodes, calls'[k].data)
    <2>2. \A j, k \in DOMAIN calls : j # k => Old(j) \cap Old(k) = {}
        BY <2>1 DEF ApartIn
    <2>3. \A k \in DOMAIN calls' : Now(k) = Old(k + 1)
        BY <1>2
    <2>4. /\ InUseIn(nodes, calls, 0) = UNION {Old(k) : k \in DOMAIN calls}
          /\ InUseIn(nodes, calls', 0) = UNION {Now(k) : k \in DOMAIN calls'}
        BY DEF InUseIn
    <2>5. ApartIn(nodes, calls') <=> \A j, k \in DOMAIN calls' : j # k => Now(j) \cap Now(k) = {}
        BY DEF ApartIn
    <2>6. destroyed' = destroyed \cup Old(1) /\ \A k \in DOMAIN calls : Old(k) \subseteq DOMAIN nodes
        BY <1>1 DEF BelowIn
    <2> HIDE DEF Old, Now
    <2>7. ApartIn(nodes, calls')
        <3>1. ASSUME NEW j \in DOMAIN calls', NEW k \in DOMAIN calls', j # k
              PROVE  Now(j) \cap Now(k) = {}
            <4>1. j + 1 \in DOMAIN calls /\ k + 1 \in DOMAIN calls /\ j + 1 # k + 1
                BY <1>2, <3>1, Facts
            <4>2. QED
                BY <2>2, <2>3, <4>1
        <3>2. QED
            BY <2>5, <3>1
    <2>8. InUseIn(nodes, calls', 0) = InUseIn(nodes, calls, 0) \ Old(1)
        <3>1. ASSUME NEW x \in InUseIn(nodes, calls', 0)
              PROVE  x \in InUseIn(nodes, calls, 0) /\ x \notin Old(1)
            <4>1. PICK k \in DOMAIN calls' : x \in Now(k)
                BY <2>4, <3>1
            <4>2. k + 1 \in DOMAIN calls \ {1} /\ x \in Old(k + 1)
                BY <1>2, <2>3, <4>1
            <4>3. QED
                BY <1>3, <2>2, <2>4, <4>2
        <3>2. ASSUME NEW x \in InUseIn(nodes, calls, 0), x \notin Old(1)
              PROVE  x \in InUseIn(nodes, calls', 0)
            <4>1. PICK k \in DOMAIN calls \ {1} : x \in Old(k)
                BY <2>4, <3>2
            <4>2. PICK i \in DOMAIN calls' : i + 1 = k
                BY <1>2, Facts
            <4>3. x \in Now(i)
                BY <2>3, <4>1, <4>2
            <4>4. QED
                BY <2>4, <4>3
        <3>3. QED
            BY <3>1, <3>2
    <2>9. destroyed' = DOMAIN nodes \ InUseIn(nodes, calls', 0)
        BY <1>3, <2>1, <2>6, <2>8
    <2>10. QED
        BY <1>1, <2>1, <2>7, <2>9 DEF Owned
<1>7. QED
    BY <1>2, <1>4, <1>5, <1>6 DEF IInv
-----------------------------------------------------------------------------
\* The reading ends, with nothing changed.
LEMMA Stops ==
    ASSUME IInv, json' = json, json_p' \in 1 .. Len(json) + 2,
           UNCHANGED <<calls, nodes, destroyed, data>>,
           pc' = "undefined" \/ (pc = "reading" /\ pc' = "returned")
    PROVE  IInv'
<1>1. Typed' /\ NodesFit'
    BY SameText DEF IInv, Typed, NodesFit
<1>2. CallsFit'
    <2>1. ASSUME NEW k \in DOMAIN calls PROVE CallFits(calls[k])'
        <3>1. CallFits(calls[k])
            BY DEF IInv, CallsFit
        <3>2. QED
            BY <3>1, SameText DEF CallFits
    <2>2. QED
        BY <2>1 DEF IInv, CallsFit
<1>3. Owned'
    BY DEF IInv, Owned
<1>4. QED
    BY <1>1, <1>2, <1>3 DEF IInv

\* The invariant holds initially, and is kept by every step.
LEMMA Initial == Init => IInv
<1> SUFFICES ASSUME Init PROVE IInv
    OBVIOUS
<1>1. json \in Seq(STRING) /\ Len(json) \in Nat
    <2>1. json \in Seq(STRING)
        BY TextsAssumption DEF Init
    <2>2. QED
        BY <2>1
<1>2. DOMAIN calls = {} /\ DOMAIN nodes = {}
    BY DEF Init
<1>3. Typed
    BY <1>1, <1>2 DEF Init, Typed
<1>4. Owned
    BY <1>2 DEF Init, Owned, ApartIn, InUseIn
<1>5. QED
    BY <1>2, <1>3, <1>4 DEF IInv, CallsFit, NodesFit

LEMMA Step == IInv /\ [Next]_vars => IInv'
<1> SUFFICES ASSUME IInv, [Next]_vars PROVE IInv'
    OBVIOUS
<1>0. /\ calls # <<>> => /\ 1 \in DOMAIN calls /\ calls[1] \in Call /\ CallFits(calls[1])
                         /\ Running = calls[1]
      /\ json_p \in 1 .. Len(json) + 2
    BY Facts DEF IInv, Typed, CallsFit, Running
<1>1. CASE FirstBrace
    BY <1>1, ReadsMoves, Begins DEF FirstBrace
<1>2. CASE BadData
    BY <1>2, ReadsMoves, Stops DEF BadData
<1>3. CASE ReadsBeyond
    BY <1>3, <1>0, Stops DEF ReadsBeyond, Undefined
<1>4. CASE ObjectKey
    <2> DEFINE call == [calls[1] EXCEPT !.key = Tok.value, !.needs = "colon"]
    <2>1. calls # <<>> /\ calls[1].what = "object" /\ Reads({"STRING"}) /\ Tok.value # JUNK
        BY <1>4 DEF ObjectKey, Needs, Running
    <2>2. Tok.value \in Text
        BY <2>1, ReadsMoves
    <2>3. /\ call \in Call /\ call.needs = "colon" /\ call.key \in Text
          /\ call.data = calls[1].data /\ call.what = calls[1].what
        BY <1>0, <2>1, <2>2 DEF Call
    <2>4. calls' = [calls EXCEPT ![1] = call]
        BY <1>4 DEF ObjectKey
    <2> HIDE DEF call
    <2>5. CallFits(call)
        BY <1>0, <2>1, <2>3 DEF CallFits
    <2>6. QED
        BY <1>4, <2>1, <2>3, <2>4, <2>5, ReadsMoves, GoesOn DEF ObjectKey
<1>5. CASE ObjectColon
    BY <1>5, ReadsMoves, Continues DEF ObjectColon, Needs
<1>6. CASE ObjectValue
    <2>0. calls # <<>> /\ Running.what = "object" /\ Running.needs = "value"
        BY <1>6 DEF ObjectValue, Needs
    <2>1. CASE Reads({"STRING"}) /\ Tok.value # JUNK /\ Leaf(New("string", Tok.value))
        <3>1. New("string", Tok.value) \in Node /\ New("string", Tok.value).cells = <<>>
            BY <2>1, ReadsMoves, NewIsNode
        <3>2. QED
            BY <2>0, <2>1, <3>1, ReadsMoves, Stores
    <2>2. CASE Reads({"BOOLEAN"}) /\ Leaf(New(Tok.value[1], <<>>))
        <3>1. New(Tok.value[1], <<>>) \in Node /\ New(Tok.value[1], <<>>).cells = <<>>
            BY <2>2, Empty, ReadsMoves, NewIsNode
        <3>2. QED
            BY <2>0, <2>2, <3>1, ReadsMoves, Stores
    <2>3. CASE Reads({"BRACE_LEFT"}) /\ Begin("object")
        BY <2>0, <2>3, ReadsMoves, Begins
    <2>4. CASE Reads({"BRACKET_LEFT"}) /\ Begin("array")
        BY <2>0, <2>4, ReadsMoves, Begins
    <2>5. QED
        BY <1>6, <2>1, <2>2, <2>3, <2>4 DEF ObjectValue
<1>7. CASE ObjectComma
    <2>1. calls # <<>> /\ Running.what = "object" /\ Running.needs = "more"
        BY <1>7 DEF ObjectComma, Needs
    <2> DEFINE call == [calls[1] EXCEPT !.needs = "key"]
    <2>2. /\ call \in Call /\ call.needs = "key"
          /\ call.data = calls[1].data /\ call.what = calls[1].what /\ call.key = calls[1].key
        BY <1>0, <2>1 DEF Call
    <2>3. calls' = [calls EXCEPT ![1] = call]
        BY <1>7 DEF ObjectComma, Continue
    <2> HIDE DEF call
    <2>4. CallFits(call)
        BY <1>0, <2>1, <2>2 DEF CallFits
    <2>5. QED
        BY <1>7, <2>1, <2>2, <2>3, <2>4, ReadsMoves, GoesOn DEF ObjectComma
<1>8. CASE ObjectEnd
    <2>1. calls # <<>>
        BY <1>8 DEF ObjectEnd, Needs
    <2>2. QED
        BY <1>8, <2>1, ReadsMoves, Finishes, ReturnsData DEF ObjectEnd
<1>9. CASE ArrayElement
    <2>0. calls # <<>> /\ Running.what = "array"
        BY <1>9 DEF ArrayElement, Needs
    <2>1. CASE Reads({"STRING"}) /\ Tok.value # JUNK /\ Leaf(New("string", Tok.value))
        <3>1. New("string", Tok.value) \in Node /\ New("string", Tok.value).cells = <<>>
            BY <2>1, ReadsMoves, NewIsNode
        <3>2. QED
            BY <2>0, <2>1, <3>1, ReadsMoves, Stores
    <2>2. CASE Reads({"BRACE_LEFT"}) /\ Begin("object")
        BY <2>0, <2>2, ReadsMoves, Begins
    <2>3. QED
        BY <1>9, <2>1, <2>2 DEF ArrayElement
<1>10. CASE ArrayClosedAtOnce
    BY <1>10, ReadsMoves, Continues DEF ArrayClosedAtOnce, Needs
<1>11. CASE ArrayComma
    BY <1>11, ReadsMoves, Continues DEF ArrayComma, Needs
<1>12. CASE ArrayEnd
    <2>1. calls # <<>> /\ ReturnData /\ \E types : Reads(types)
        BY <1>12 DEF ArrayEnd, Needs
    <2>2. QED
        BY <2>1, ReadsMoves, Finishes, ReturnsData
<1>13. CASE Unexpected
    BY <1>13, ReadsMoves, ReturnsNull DEF Unexpected
<1>14. CASE NoString
    <2>1. \E types : Reads(types)
        BY <1>14 DEF NoString
    <2>2. QED
        BY <1>14, <2>1, ReadsMoves, Stops DEF NoString, Undefined
<1>15. CASE Ended \/ UNCHANGED vars
    <2>1. UNCHANGED vars
        BY <1>15 DEF Ended
    <2>2. \A c : CallFits(c)' <=> CallFits(c)
        BY <2>1, SameText DEF CallFits, vars
    <2>3. CallsFit'
        <3>1. ASSUME NEW k \in DOMAIN calls PROVE CallFits(calls[k])'
            <4>1. CallFits(calls[k])
                BY DEF IInv, CallsFit
            <4>2. QED
                BY <2>1, <4>1, SameText DEF CallFits, vars
        <3>2. QED
            BY <2>1, <3>1 DEF IInv, CallsFit, vars
    <2>4. Typed' /\ NodesFit' /\ Owned'
        BY <2>1, SameText DEF IInv, Typed, NodesFit, Owned, vars
    <2>5. QED
        BY <2>3, <2>4 DEF IInv
<1>16. QED
    BY <1>1, <1>2, <1>3, <1>4, <1>5, <1>6, <1>7, <1>8, <1>9, <1>10, <1>11, <1>12, <1>13,
        <1>14, <1>15 DEF Next

LEMMA Invariance == Spec => []IInv
    BY Initial, Step, PTL DEF Spec

(***************************************************************************)
(* Whatever the text, the calls and the nodes that they fill agree: an     *)
(* object fills a hash, an array an array, cells of hashes have keys that  *)
(* stood between quotes, and what is in a cell is newer than the node.     *)
(***************************************************************************)
THEOREM TypeCorrect == Spec => []TypeOK
<1>1. IInv => TypeOK
    <2> SUFFICES ASSUME IInv PROVE TypeOK
        OBVIOUS
    <2>1. \A k \in DOMAIN calls :
              /\ calls[k].data \in DOMAIN nodes
              /\ nodes[calls[k].data].type = IF calls[k].what = "object" THEN "hash" ELSE "array"
        BY DEF IInv, CallsFit, CallFits
    <2>2. \A n \in DOMAIN nodes :
              /\ nodes[n].type \in {"hash", "array", "string", "true", "false"}
              /\ nodes[n].text \in Text
        BY Facts DEF Node
    <2>3. QED
        BY <2>1, <2>2 DEF IInv, Typed, NodesFit, TypeOK
<1>2. QED
    BY <1>1, Invariance, PTL

(***************************************************************************)
(* Whatever the text, and however deep it nests: every error path destroys *)
(* all that it has built, once, and nothing that is still used.            *)
(***************************************************************************)
THEOREM ErrorsDestroyAll == Spec => []KeptOrDestroyed
<1>1. IInv => KeptOrDestroyed
    <2> SUFFICES ASSUME IInv PROVE KeptOrDestroyed
        OBVIOUS
    <2>1. InUse = InUseIn(nodes, calls, data)
        BY BelowIsIn DEF InUse, InUseIn
    <2>2. QED
        BY <2>1 DEF IInv, Owned, KeptOrDestroyed
<1>2. QED
    BY <1>1, Invariance, PTL
-----------------------------------------------------------------------------
(***************************************************************************)
(* That the reader builds what JsonData describes.  First, what is known   *)
(* of positions in a set of numbers, and of sets that are closed under     *)
(* the next number.                                                        *)
(***************************************************************************)

\* The data are a finite set.
LEMMA FiniteUpTo ==
    ASSUME NEW n \in Nat, NEW S \in SUBSET (1 .. n)
    PROVE  IsFiniteSet(S) /\ Cardinality(S) \in Nat
<1>1. IsFiniteSet(1 .. n)
  BY FS_Interval
<1>2. IsFiniteSet(S)
  BY <1>1, FS_Subset
<1> QED BY <1>2, FS_CardinalityType

\* A position is one of the nodes.
LEMMA RankIn ==
    ASSUME NEW n \in Nat, NEW S \in SUBSET (1 .. n), NEW q \in S
    PROVE  Rank(S, q) \in 1 .. Cardinality(S)
<1> DEFINE T == {r \in S : r <= q}
<1>1. IsFiniteSet(S) /\ Cardinality(S) \in Nat
  BY FiniteUpTo
<1>2. T \subseteq S /\ q \in T
  OBVIOUS
<1>3. IsFiniteSet(T) /\ Cardinality(T) \in Nat /\ Cardinality(T) <= Cardinality(S)
  BY <1>1, <1>2, FS_Subset, FS_CardinalityType
<1>4. Cardinality(T) # 0
  BY <1>2, <1>3, FS_EmptySet
<1>5. Rank(S, q) = Cardinality(T)
  BY DEF Rank
<1> QED BY <1>1, <1>3, <1>4, <1>5

\* Of two members, the greater has the greater position.
LEMMA RankApart ==
    ASSUME NEW n \in Nat, NEW S \in SUBSET (1 .. n), NEW q \in S, NEW r \in S, q < r
    PROVE  Rank(S, q) < Rank(S, r)
<1> DEFINE T == {k \in S : k <= q}
           U == {k \in S : k <= r}
<1>1. IsFiniteSet(S)
  BY FiniteUpTo
<1>0. S \subseteq 1 .. n
  OBVIOUS
<1>2. T \subseteq U /\ U \subseteq S /\ r \in U /\ r \notin T
  <2>1. q \in Int /\ r \in Int /\ \A k \in S : k \in Int
    BY <1>0
  <2>2. ASSUME NEW k \in T PROVE k \in U
    BY <2>1, <2>2
  <2>3. r \notin T /\ r \in U
    BY <2>1
  <2> QED BY <2>2, <2>3
<1>3. T # U
  BY <1>2
<1>4. IsFiniteSet(U)
  BY <1>1, <1>2, FS_Subset
<1>5. Cardinality(T) < Cardinality(U)
  <2> HIDE DEF T, U
  <2>1. T \in SUBSET U
    BY <1>2
  <2>2. /\ Cardinality(T) <= Cardinality(U) /\ Cardinality(T) # Cardinality(U)
        /\ IsFiniteSet(T)
    BY <1>3, <1>4, <2>1, FS_Subset
  <2>3. Cardinality(T) \in Nat /\ Cardinality(U) \in Nat
    BY <1>4, <2>2, FS_CardinalityType
  <2> QED BY <2>2, <2>3
<1> QED BY <1>5 DEF Rank

\* No two members have the same position.
LEMMA RankIsUnique ==
    ASSUME NEW n \in Nat, NEW S \in SUBSET (1 .. n), NEW q \in S, NEW r \in S,
           Rank(S, q) = Rank(S, r)
    PROVE  q = r
<1>1. /\ Rank(S, q) \in 1 .. Cardinality(S) /\ Rank(S, r) \in 1 .. Cardinality(S)
      /\ Cardinality(S) \in Nat
  BY RankIn, FiniteUpTo
<1>2. q \in 1 .. n /\ r \in 1 .. n
  OBVIOUS
<1>3. ASSUME q < r
      PROVE  FALSE
  <2>1. Rank(S, q) < Rank(S, r)
    BY <1>3, RankApart
  <2> QED BY <1>1, <2>1
<1>4. ASSUME r < q
      PROVE  FALSE
  <2>1. Rank(S, r) < Rank(S, q)
    BY <1>4, RankApart
  <2> QED BY <1>1, <2>1
<1> QED BY <1>2, <1>3, <1>4

\* A number that is larger than all others is the last.
LEMMA RankAdded ==
    ASSUME NEW n \in Nat, NEW S \in SUBSET (1 .. n)
    PROVE  /\ Cardinality(S \cup {n + 1}) = Cardinality(S) + 1
           /\ Rank(S \cup {n + 1}, n + 1) = Cardinality(S) + 1
           /\ \A q \in 1 .. n : Rank(S \cup {n + 1}, q) = Rank(S, q)
<1>1. IsFiniteSet(S) /\ n + 1 \notin S
  <2>1. S \subseteq 1 .. n /\ n + 1 \notin 1 .. n
    OBVIOUS
  <2> QED BY <2>1, FiniteUpTo
<1>2. Cardinality(S \cup {n + 1}) = Cardinality(S) + 1
  BY <1>1, FS_AddElement
<1>3. {r \in S \cup {n + 1} : r <= n + 1} = S \cup {n + 1}
  <2>1. \A r \in S : r \in 1 .. n
    OBVIOUS
  <2>2. \A r \in S \cup {n + 1} : r <= n + 1
    BY <2>1
  <2> QED BY <2>2
<1>4. ASSUME NEW q \in 1 .. n
      PROVE  {r \in S \cup {n + 1} : r <= q} = {r \in S : r <= q}
  OBVIOUS
<1> QED BY <1>2, <1>3, <1>4 DEF Rank

\* Induction, as a statement about sets.
LEMMA SetInduction ==
    ASSUME NEW S, 0 \in S, \A n \in Nat : n \in S => n + 1 \in S
    PROVE  Nat \subseteq S
<1> DEFINE T == Nat \ S
<1> SUFFICES ASSUME T # {} PROVE FALSE
  OBVIOUS
<1>1. \E x \in T : \A y \in T : ~(<<y, x>> \in OpToRel(<, Nat))
  <2>1. T \subseteq Nat
    OBVIOUS
  <2> HIDE DEF T
  <2> QED
    BY <2>1, NatLessThanWellFounded, WFMin
<1>2. PICK x \in T : \A y \in T : ~(<<y, x>> \in OpToRel(<, Nat))
  BY <1>1
<1>3. x \in Nat \ {0}
  OBVIOUS
<1>4. x - 1 \in Nat /\ x - 1 < x
  BY <1>3
<1>5. x - 1 \in T
  <2>1. x - 1 \notin S
    BY <1>3, <1>4
  <2> QED
    BY <1>4, <2>1
<1>6. <<x - 1, x>> \in OpToRel(<, Nat)
  BY <1>3, <1>4 DEF OpToRel
<1> QED
  BY <1>2, <1>5, <1>6

-----------------------------------------------------------------------------
(***************************************************************************)
(* The place of a character follows from those before it.                  *)
(***************************************************************************)
AllPlaces == [in : Nat, quote : Nat, key : Nat,
              due : {"root", "key", "colon", "value", "element", "more", "nothing"}]

Start == Place(0, 0, 0, "root")

\* What the places up to n are.
ArePlaces(place, text, n) ==
    /\ place = [p \in 0 .. n |-> place[p]]
    /\ \A p \in 0 .. n : place[p] = IF p <= 1 THEN Start ELSE NextPlace(place, text, p)
    /\ \A p \in 0 .. n : place[p] \in AllPlaces /\ (place[p].in = 0 \/ place[p].in < p)

\* A place after others is a place.
LEMMA NextPlaceIs ==
    ASSUME NEW text, NEW place, NEW p \in Nat, p >= 2,
           \A q \in 0 .. p - 1 : place[q] \in AllPlaces /\ (place[q].in = 0 \/ place[q].in < q)
    PROVE  NextPlace(place, text, p) \in AllPlaces /\ NextPlace(place, text, p).in < p
<1> DEFINE ch == text[p - 1]
           before == place[p - 1]
           outer == place[before.in]
<1>1. before \in AllPlaces /\ before.in \in 0 .. p - 1
  <2>1. p - 1 \in 0 .. p - 1
    OBVIOUS
  <2> QED BY <2>1 DEF AllPlaces
<1>2. outer \in AllPlaces /\ outer.in < p
  <2>1. outer \in AllPlaces /\ (outer.in = 0 \/ outer.in < before.in)
    BY <1>1
  <2> QED BY <1>1, <2>1 DEF AllPlaces
<1>3. \A q : Item(text, q) \in {"key", "element"}
  BY DEF Item
<1> DEFINE Fine(place_) == place_ \in AllPlaces /\ place_.in < p
<1>4. NextPlace(place, text, p) =
         IF Stays(before, ch) THEN before
         ELSE IF before.quote # 0 THEN AfterString(before)
         ELSE IF ch = QUOTE THEN Place(before.in, p - 1, before.key, before.due)
         ELSE IF ch \in {"{", "["} THEN Place(p - 1, 0, 0, Item(text, p - 1))
         ELSE IF ch \in {"}", "]"} THEN AfterClosed(outer)
         ELSE AfterOther(text, before, ch)
  BY DEF NextPlace
<1> HIDE DEF before, outer, ch
<1>5. Fine(before)
  BY <1>1
<1>6. Fine(AfterString(before))
  BY <1>1 DEF AfterString, Place, AllPlaces
<1>7. Fine(Place(before.in, p - 1, before.key, before.due))
  BY <1>1 DEF Place, AllPlaces
<1>8. Fine(Place(p - 1, 0, 0, Item(text, p - 1)))
  <2>1. p - 1 \in Nat /\ Item(text, p - 1) \in {"key", "element"}
    BY <1>3
  <2> QED BY <2>1 DEF Place, AllPlaces
<1>9. Fine(AfterClosed(outer))
  BY <1>2 DEF AfterClosed, Place, AllPlaces
<1>10. Fine(AfterOther(text, before, ch))
  <2>1. Item(text, before.in) \in {"key", "element"}
    BY <1>3
  <2> DEFINE due == IF ch = ":" THEN "value"
                    ELSE IF ch = "," THEN Item(text, before.in) ELSE "more"
  <2>2. due \in {"value", "key", "element", "more"}
    BY <2>1
  <2>3. AfterOther(text, before, ch) = Place(before.in, 0, before.key, due)
    BY DEF AfterOther
  <2> HIDE DEF due
  <2> QED BY <1>1, <2>2, <2>3 DEF Place, AllPlaces
<1> HIDE DEF Fine
<1>11. Fine(NextPlace(place, text, p))
  BY <1>4, <1>5, <1>6, <1>7, <1>8, <1>9, <1>10
<1> QED BY <1>11 DEF Fine

\* It is the same for places that are the same before.
LEMMA NextPlaceSame ==
    ASSUME NEW text, NEW place, NEW other, NEW p \in Nat, p >= 2,
           \A q \in 0 .. p - 1 : /\ place[q] \in AllPlaces /\ (place[q].in = 0 \/ place[q].in < q)
                                 /\ other[q] = place[q]
    PROVE  NextPlace(other, text, p) = NextPlace(place, text, p)
<1>1. other[p - 1] = place[p - 1]
  OBVIOUS
<1>2. place[p - 1].in \in 0 .. p - 1
  <2>1. place[p - 1] \in AllPlaces /\ (place[p - 1].in = 0 \/ place[p - 1].in < p - 1)
    OBVIOUS
  <2> QED BY <2>1 DEF AllPlaces
<1>3. other[place[p - 1].in] = place[place[p - 1].in]
  BY <1>2
<1> QED BY <1>1, <1>3 DEF NextPlace

\* The recursive function has, for each character, what its body says.
LEMMA PlacesAre ==
    ASSUME NEW text, Len(text) \in Nat
    PROVE  ArePlaces(Places(text), text, Len(text) + 1)
<1> DEFINE S == {n \in Nat : \E f : ArePlaces(f, text, n)}
           Fits(f, q) == f[q] \in AllPlaces /\ (f[q].in = 0 \/ f[q].in < q)
<1>0. Start \in AllPlaces /\ Start.in = 0
  BY DEF Start, Place, AllPlaces
<1>1. 0 \in S
  <2> DEFINE f == [p \in 0 .. 0 |-> Start]
  <2>1. ArePlaces(f, text, 0)
    BY <1>0 DEF ArePlaces
  <2> QED BY <2>1
<1>2. ASSUME NEW n \in Nat, n \in S
      PROVE  n + 1 \in S
  <2>1. PICK f : ArePlaces(f, text, n)
    BY <1>2
  <2> DEFINE last == IF n + 1 <= 1 THEN Start ELSE NextPlace(f, text, n + 1)
             g == [p \in 0 .. n + 1 |-> IF p = n + 1 THEN last ELSE f[p]]
  <2>2. \A q \in 0 .. n : Fits(f, q)
    BY <2>1 DEF ArePlaces
  <2>3. last \in AllPlaces /\ (last.in = 0 \/ last.in < n + 1)
    <3>1. CASE n + 1 <= 1
      BY <1>0, <3>1
    <3>2. CASE ~(n + 1 <= 1)
      <4>1. (n + 1) - 1 = n /\ n + 1 >= 2 /\ n + 1 \in Nat
        BY <3>2
      <4>2. NextPlace(f, text, n + 1) \in AllPlaces /\ NextPlace(f, text, n + 1).in < n + 1
        BY <2>2, <4>1, NextPlaceIs
      <4> QED BY <3>2, <4>2
    <3> QED BY <3>1, <3>2
  <2>4. g[n + 1] = last /\ \A q \in 0 .. n : g[q] = f[q]
    OBVIOUS
  <2>5. ASSUME NEW p \in 0 .. n + 1, p > 1
        PROVE  NextPlace(g, text, p) = NextPlace(f, text, p)
    <3>1. \A q \in 0 .. p - 1 : Fits(f, q) /\ g[q] = f[q]
      BY <2>2, <2>4
    <3> HIDE DEF g
    <3> QED BY <2>5, <3>1, NextPlaceSame
  <2>6. g = [p \in 0 .. n + 1 |-> g[p]]
    OBVIOUS
  <2> HIDE DEF g
  <2>7. ASSUME NEW p \in 0 .. n + 1
        PROVE  /\ g[p] = IF p <= 1 THEN Start ELSE NextPlace(g, text, p)
               /\ Fits(g, p)
    <3>1. CASE p = n + 1
      BY <2>3, <2>4, <2>5, <3>1
    <3>2. CASE p # n + 1
      <4>1. p \in 0 .. n
        BY <3>2
      <4>2. f[p] = IF p <= 1 THEN Start ELSE NextPlace(f, text, p)
        BY <2>1, <4>1 DEF ArePlaces
      <4>3. p > 1 \/ p <= 1
        OBVIOUS
      <4> QED BY <2>2, <2>4, <2>5, <4>1, <4>2, <4>3
    <3> QED BY <3>1, <3>2
  <2>8. ArePlaces(g, text, n + 1)
    BY <2>6, <2>7 DEF ArePlaces
  <2> QED BY <2>8
<1>3. Nat \subseteq S
  <2> HIDE DEF S
  <2> QED BY <1>1, <1>2, SetInduction
<1>4. Len(text) + 1 \in S
  BY <1>3
<1>5. PICK f : ArePlaces(f, text, Len(text) + 1)
  BY <1>4
<1> DEFINE body(place, p) == IF p <= 1 THEN Start ELSE NextPlace(place, text, p)
           all == 0 .. Len(text) + 1
<1>6. Places(text) = CHOOSE place : place = [p \in all |-> body(place, p)]
  BY DEF Places, Start
<1>8. f = [p \in all |-> body(f, p)]
  BY <1>5 DEF ArePlaces
<1> HIDE DEF body
<1>9. Places(text) = [p \in all |-> body(Places(text), p)]
  BY <1>6, <1>8
<1> DEFINE place == Places(text)
<1> HIDE DEF place
<1>10. place = [p \in all |-> body(place, p)]
  BY <1>9 DEF place
<1>11. place = [p \in all |-> place[p]]
  BY <1>10
<1>12. \A p \in all : place[p] = IF p <= 1 THEN Start ELSE NextPlace(place, text, p)
  BY <1>10 DEF body
<1> DEFINE T == {n \in Nat : \A p \in 0 .. n : p \in all => Fits(place, p)}
<1>13. 0 \in T
  <2>1. 0 \in all => place[0] = Start
    BY <1>12
  <2> QED BY <1>0, <2>1
<1>14. ASSUME NEW n \in Nat, n \in T
       PROVE  n + 1 \in T
  <2> SUFFICES ASSUME NEW p \in 0 .. n + 1, p \in all
               PROVE  Fits(place, p)
    OBVIOUS
  <2>1. CASE p <= n
    BY <1>14, <2>1
  <2>2. CASE p <= 1
    <3>1. place[p] = Start
      BY <1>12, <2>2
    <3> QED BY <1>0, <3>1
  <2>3. CASE p = n + 1 /\ p > 1
    <3>1. \A q \in 0 .. p - 1 : Fits(place, q)
      BY <1>14, <2>3
    <3>2. place[p] = NextPlace(place, text, p) /\ p \in Nat /\ p >= 2
      BY <1>12, <2>3
    <3> QED BY <3>1, <3>2, NextPlaceIs
  <2> QED BY <2>1, <2>2, <2>3
<1>15. Nat \subseteq T
  <2> HIDE DEF T
  <2> QED BY <1>13, <1>14, SetInduction
<1>16. Len(text) + 1 \in T
  BY <1>15
<1> QED BY <1>11, <1>12, <1>16 DEF ArePlaces, place

\* So for what is asked of a place below.
LEMMA PlaceIs ==
    ASSUME NEW text \in Seq(STRING), NEW p \in 1 .. Len(text) + 1
    PROVE  /\ Len(text) \in Nat
           /\ Places(text)[1] = Start
           /\ Places(text)[p] \in AllPlaces
           /\ Places(text)[p].in \in 0 .. p - 1
           /\ p <= Len(text) => Places(text)[p + 1] = NextPlace(Places(text), text, p + 1)
<1>1. Len(text) \in Nat
  OBVIOUS
<1>2. ArePlaces(Places(text), text, Len(text) + 1)
  BY <1>1, PlacesAre
<1>3. Places(text)[p] \in AllPlaces /\ (Places(text)[p].in = 0 \/ Places(text)[p].in < p)
  BY <1>1, <1>2 DEF ArePlaces
<1>6. Places(text)[1] = Start
  <2>1. 1 \in 0 .. Len(text) + 1 /\ 1 <= 1
    BY <1>1
  <2> QED BY <1>2, <2>1 DEF ArePlaces
<1>4. Places(text)[p].in \in Nat
  BY <1>3 DEF AllPlaces
<1>5. p <= Len(text) => Places(text)[p + 1] = NextPlace(Places(text), text, p + 1)
  BY <1>1, <1>2 DEF ArePlaces
<1> QED BY <1>1, <1>3, <1>4, <1>5, <1>6

(***************************************************************************)
(* What the places are between two tokens, and after each.                 *)
(***************************************************************************)

\* While nothing changes the place, it stays.
LEMMA PlaceStays ==
    ASSUME NEW text \in Seq(STRING), NEW a \in 1 .. Len(text) + 1, NEW b \in a .. Len(text) + 1,
           \A r \in a .. b - 1 : Stays(Places(text)[a], text[r])
    PROVE  \A r \in a .. b : Places(text)[r] = Places(text)[a]
<1> DEFINE S == {i \in Nat : a + i <= b => Places(text)[a + i] = Places(text)[a]}
<1>1. 0 \in S
  OBVIOUS
<1>2. ASSUME NEW i \in Nat, i \in S
      PROVE  i + 1 \in S
  <2> SUFFICES ASSUME a + (i + 1) <= b
               PROVE  Places(text)[a + (i + 1)] = Places(text)[a]
    OBVIOUS
  <2> DEFINE r == a + i
  <2>1. /\ r \in 1 .. Len(text) + 1 /\ r \in a .. b - 1 /\ r <= Len(text)
        /\ a + (i + 1) = r + 1 /\ (r + 1) - 1 = r
    OBVIOUS
  <2>2. Places(text)[r] = Places(text)[a] /\ Stays(Places(text)[a], text[r])
    BY <1>2, <2>1
  <2>3. Places(text)[r + 1] = NextPlace(Places(text), text, r + 1)
    BY <2>1, PlaceIs
  <2> HIDE DEF r
  <2>4. Places(text)[r + 1] = Places(text)[r]
    BY <2>1, <2>2, <2>3 DEF NextPlace
  <2> QED BY <2>1, <2>2, <2>4
<1>3. Nat \subseteq S
  <2> HIDE DEF S
  <2> QED BY <1>1, <1>2, SetInduction
<1>4. ASSUME NEW r \in a .. b
      PROVE  Places(text)[r] = Places(text)[a]
  <2>1. r - a \in Nat /\ a + (r - a) = r /\ r <= b
    OBVIOUS
  <2>2. r - a \in S
    BY <1>3, <2>1
  <2> QED BY <2>1, <2>2
<1> QED BY <1>4

\* A mark and the first letter of a word are followed by what they say.
LEMMA PlaceAfter ==
    ASSUME NEW text \in Seq(STRING), NEW p \in 1 .. Len(text),
           Counts(text, Places(text)[p], p), Places(text)[p].due # "nothing"
    PROVE  LET before == Places(text)[p]
               next   == Places(text)[p + 1]
           IN /\ text[p] = QUOTE => next = Place(before.in, p, before.key, before.due)
              /\ text[p] \in {"{", "["} => next = Place(p, 0, 0, Item(text, p))
              /\ text[p] \in {"}", "]"} => next = AfterClosed(Places(text)[before.in])
              /\ text[p] \notin {QUOTE, "{", "[", "}", "]"} =>
                    next = AfterOther(text, before, text[p])
<1>1. /\ p \in 1 .. Len(text) + 1 /\ (p + 1) - 1 = p
      /\ Places(text)[p + 1] = NextPlace(Places(text), text, p + 1)
  <2>1. p \in 1 .. Len(text) + 1 /\ (p + 1) - 1 = p /\ p <= Len(text)
    OBVIOUS
  <2> QED BY <2>1, PlaceIs
<1>2. ~Stays(Places(text)[p], text[p]) /\ Places(text)[p].quote = 0
  BY DEF Counts, Stays
<1>3. Places(text)[p + 1] =
         IF text[p] = QUOTE
         THEN Place(Places(text)[p].in, p, Places(text)[p].key, Places(text)[p].due)
         ELSE IF text[p] \in {"{", "["} THEN Place(p, 0, 0, Item(text, p))
         ELSE IF text[p] \in {"}", "]"} THEN AfterClosed(Places(text)[Places(text)[p].in])
         ELSE AfterOther(text, Places(text)[p], text[p])
  BY <1>1, <1>2 DEF NextPlace
<1> QED BY <1>3 DEF QUOTE

\* From a quote on: the same place up to the next quote, or to the end.
LEMMA PlaceInString ==
    ASSUME NEW text \in Seq(STRING), NEW p \in 1 .. Len(text),
           Counts(text, Places(text)[p], p), Places(text)[p].due # "nothing", text[p] = QUOTE,
           NEW end \in p + 1 .. Len(text) + 1, \A r \in p + 1 .. end - 1 : text[r] # QUOTE
    PROVE  LET before == Places(text)[p]
               within == Place(before.in, p, before.key, before.due)
           IN /\ \A r \in p + 1 .. end : Places(text)[r] = within
              /\ end <= Len(text) /\ text[end] = QUOTE =>
                    /\ Places(text)[end + 1] = AfterString(within)
                    /\ Quoted(text, p) = SubSeq(text, p + 1, end - 1)
<1> DEFINE before == Places(text)[p]
           within == Place(before.in, p, before.key, before.due)
<1>0. Len(text) \in Nat /\ before.due # "nothing"
  OBVIOUS
<1>1. Places(text)[p + 1] = within
  BY PlaceAfter
<1>2. within.quote = p /\ within.due = before.due /\ p # 0
  BY DEF Place
<1> HIDE DEF within, before
<1>3. \A r \in p + 1 .. end - 1 : Stays(Places(text)[p + 1], text[r])
  BY <1>1, <1>2 DEF Stays
<1>4. \A r \in p + 1 .. end : Places(text)[r] = within
  <2>1. p + 1 \in 1 .. Len(text) + 1
    OBVIOUS
  <2> QED BY <1>1, <1>3, <2>1, PlaceStays
<1>5. ASSUME end <= Len(text), text[end] = QUOTE
      PROVE  /\ Places(text)[end + 1] = AfterString(within)
             /\ Quoted(text, p) = SubSeq(text, p + 1, end - 1)
  <2>1. /\ end \in 1 .. Len(text) + 1 /\ end \in p + 1 .. end /\ (end + 1) - 1 = end
        /\ end \in p + 1 .. Len(text)
    BY <1>0, <1>5
  <2>2. Places(text)[end] = within
    BY <1>4, <2>1
  <2>3. Places(text)[end + 1] = NextPlace(Places(text), text, end + 1)
    BY <1>5, <2>1, PlaceIs
  <2>4. ~Stays(within, text[end])
    BY <1>0, <1>2, <1>5 DEF Stays
  <2>5. Places(text)[end + 1] = AfterString(within)
    BY <1>2, <2>1, <2>2, <2>3, <2>4 DEF NextPlace
  <2> DEFINE IsEnd(q) == text[q] = QUOTE /\ \A r \in p + 1 .. q - 1 : text[r] # QUOTE
             found == CHOOSE q \in p + 1 .. Len(text) : IsEnd(q)
  <2>6. \A q \in p + 1 .. Len(text) : IsEnd(q) => q = end
    <3> SUFFICES ASSUME NEW q \in p + 1 .. Len(text), IsEnd(q), q # end
                 PROVE  FALSE
      OBVIOUS
    <3>1. q \in p + 1 .. end - 1 \/ end \in p + 1 .. q - 1
      BY <2>1
    <3> QED BY <1>5, <3>1
  <2>7. IsEnd(end)
    BY <1>5
  <2>8. Quoted(text, p) = SubSeq(text, p + 1, found - 1)
    BY DEF Quoted
  <2> HIDE DEF IsEnd
  <2>9. found = end
    BY <2>1, <2>6, <2>7
  <2> QED BY <2>5, <2>8, <2>9
<1> QED BY <1>4, <1>5 DEF within, before
-----------------------------------------------------------------------------
(***************************************************************************)
(* The data before a place, and what is supported.                         *)
(***************************************************************************)
DataTo(text, n) == {p \in Data(text) : p < n}

SupportedTo(text, n) == \A p \in 1 .. n - 1 : SupportedAt(text, Places(text)[p], p)

\* The data before n are characters before n.
LEMMA DataIn ==
    ASSUME NEW text \in Seq(STRING), NEW n \in 1 .. Len(text) + 1
    PROVE  /\ DataTo(text, n) \in SUBSET (1 .. n - 1) /\ n - 1 \in Nat
           /\ DataTo(text, n) \in SUBSET (1 .. Len(text))
           /\ \A p \in DataTo(text, n) : IsDatum(text, Places(text)[p], p)
  BY DEF DataTo, Data

\* No data are added where none are.
LEMMA DataSame ==
    ASSUME NEW text \in Seq(STRING), NEW n \in 1 .. Len(text) + 1, NEW m \in n .. Len(text) + 1,
           \A r \in n .. m - 1 : ~IsDatum(text, Places(text)[r], r)
    PROVE  DataTo(text, m) = DataTo(text, n)
<1>1. ASSUME NEW r \in DataTo(text, m)
      PROVE  r \in DataTo(text, n)
  <2>1. r \in Data(text) /\ r < m /\ r \in 1 .. Len(text) /\ IsDatum(text, Places(text)[r], r)
    BY DEF DataTo, Data
  <2>2. r \notin n .. m - 1
    BY <2>1
  <2>3. r < n
    BY <2>1, <2>2
  <2> QED BY <2>1, <2>3 DEF DataTo
<1>2. ASSUME NEW r \in DataTo(text, n)
      PROVE  r \in DataTo(text, m)
  <2>1. r \in Data(text) /\ r < n /\ r \in 1 .. Len(text)
    BY DEF DataTo, Data
  <2>2. r < m
    BY <2>1
  <2> QED BY <2>1, <2>2 DEF DataTo
<1> QED BY <1>1, <1>2

\* One is added where it is.
LEMMA DataMore ==
    ASSUME NEW text \in Seq(STRING), NEW p \in 1 .. Len(text), NEW m \in p + 1 .. Len(text) + 1,
           IsDatum(text, Places(text)[p], p),
           \A r \in p + 1 .. m - 1 : ~IsDatum(text, Places(text)[r], r)
    PROVE  DataTo(text, m) = DataTo(text, p) \cup {p} /\ p \notin DataTo(text, p)
<1>1. DataTo(text, m) = DataTo(text, p + 1)
  <2>1. p + 1 \in 1 .. Len(text) + 1
    OBVIOUS
  <2> QED BY <2>1, DataSame
<1>2. p \in Data(text)
  BY DEF Data
<1>3. Data(text) \subseteq Int
  BY DEF Data
<1>4. ASSUME NEW q \in Data(text)
      PROVE  q < p + 1 <=> q < p \/ q = p
  BY <1>3
<1>5. \A q : q \in DataTo(text, p + 1) <=> q \in DataTo(text, p) \cup {p}
  BY <1>2, <1>4 DEF DataTo
<1>6. p \notin DataTo(text, p)
  BY DEF DataTo
<1> QED BY <1>1, <1>5, <1>6

\* What is within a string, or is a space, is no datum and is supported.
LEMMA OnlyCountedAre ==
    ASSUME NEW text, NEW p, ~Counts(text, Places(text)[p], p)
    PROVE  ~IsDatum(text, Places(text)[p], p) /\ SupportedAt(text, Places(text)[p], p)
  BY DEF IsDatum, SupportedAt

\* What is supported up to n, and from there to m, is supported up to m.
LEMMA SupportedMore ==
    ASSUME NEW text \in Seq(STRING), NEW n \in 1 .. Len(text) + 1, NEW m \in n .. Len(text) + 1,
           SupportedTo(text, n), \A r \in n .. m - 1 : SupportedAt(text, Places(text)[r], r)
    PROVE  SupportedTo(text, m)
<1> SUFFICES ASSUME NEW p \in 1 .. m - 1
             PROVE  SupportedAt(text, Places(text)[p], p)
  BY DEF SupportedTo
<1>1. p \in 1 .. n - 1 \/ p \in n .. m - 1
  OBVIOUS
<1> QED BY <1>1 DEF SupportedTo

(***************************************************************************)
(* The nodes while objects and arrays are open: those for the data so far, *)
(* where what is open is in no cell yet.                                   *)
(***************************************************************************)
StoredIn(text, all, opened, p) == {q \in all : Places(text)[q].in = p} \ opened

NodeIs(store, text, all, opened, p) ==
    LET node   == store[Rank(all, p)]
        stored == StoredIn(text, all, opened, p)
    IN /\ node.type = Described(text, p).type
       /\ node.text = Described(text, p).text
       /\ Len(node.cells) = Cardinality(stored)
       /\ \A q \in stored :
             node.cells[Rank(stored, q)] =
                [key |-> KeyOf(text, Places(text)[q]), value |-> Rank(all, q)]

AreBuilt(store, text, all, opened) ==
    /\ Len(store) = Cardinality(all)
    /\ \A p \in all : NodeIs(store, text, all, opened, p)

\* A node for the datum at p, in no cell yet.
LEMMA NodeOpened ==
    ASSUME NEW text \in Seq(STRING), NEW p \in 1 .. Len(text), NEW all \in SUBSET (1 .. p - 1),
           NEW opened, NEW store, NEW next, NEW node, AreBuilt(store, text, all, opened),
           Places(text)[p].in # p, \A q \in all : Places(text)[q].in # p,
           node.type = Described(text, p).type, node.text = Described(text, p).text,
           node.cells = <<>>,
           Len(next) = Len(store) + 1, next[Len(store) + 1] = node,
           \A k \in 1 .. Len(store) : next[k] = store[k]
    PROVE  AreBuilt(next, text, all \cup {p}, opened \cup {p})
<1> DEFINE more == all \cup {p}
<1>1. p - 1 \in Nat /\ (p - 1) + 1 = p /\ p \notin all
  OBVIOUS
<1>2. Cardinality(all) \in Nat /\ Len(store) = Cardinality(all)
  BY <1>1, FiniteUpTo DEF AreBuilt
<1>3. /\ Cardinality(more) = Cardinality(all) + 1
      /\ Rank(more, p) = Cardinality(all) + 1
      /\ \A q \in all : Rank(more, q) = Rank(all, q)
  <2> DEFINE n == p - 1
  <2>0. n \in Nat /\ all \in SUBSET (1 .. n) /\ n + 1 = p
    OBVIOUS
  <2> HIDE DEF n
  <2>1. /\ Cardinality(all \cup {n + 1}) = Cardinality(all) + 1
        /\ Rank(all \cup {n + 1}, n + 1) = Cardinality(all) + 1
        /\ \A q \in 1 .. n : Rank(all \cup {n + 1}, q) = Rank(all, q)
    BY <2>0, RankAdded
  <2> QED BY <2>0, <2>1
<1> HIDE DEF more
<1>4. ASSUME NEW q \in all
      PROVE  NodeIs(next, text, more, opened \cup {p}, q)
  <2>1. NodeIs(store, text, all, opened, q)
    BY DEF AreBuilt
  <2>2. StoredIn(text, more, opened \cup {p}, q) = StoredIn(text, all, opened, q)
    BY <1>1 DEF StoredIn, more
  <2>3. Rank(all, q) \in 1 .. Len(store)
    BY <1>1, <1>2, RankIn
  <2>4. next[Rank(more, q)] = store[Rank(all, q)]
    BY <1>3, <2>3
  <2>5. \A r \in StoredIn(text, all, opened, q) : Rank(more, r) = Rank(all, r)
    BY <1>3 DEF StoredIn
  <2> QED BY <2>1, <2>2, <2>4, <2>5 DEF NodeIs
<1>5. NodeIs(next, text, more, opened \cup {p}, p)
  <2>1. StoredIn(text, more, opened \cup {p}, p) = {}
    BY DEF StoredIn, more
  <2>2. Cardinality({}) = 0 /\ Len(<<>>) = 0
    BY FS_EmptySet
  <2>3. next[Rank(more, p)] = node
    BY <1>2, <1>3
  <2> QED BY <2>1, <2>2, <2>3 DEF NodeIs
<1>6. Len(next) = Cardinality(more)
  BY <1>2, <1>3
<1>7. AreBuilt(next, text, more, opened \cup {p})
  BY <1>4, <1>5, <1>6 DEF AreBuilt, more
<1> QED BY <1>7 DEF more

\* One cell more, in the node h.
Links(store, next, h, cell) ==
    /\ Len(next) = Len(store)
    /\ \A k \in 1 .. Len(store) : /\ next[k].type = store[k].type
                                  /\ next[k].text = store[k].text
                                  /\ k # h => next[k].cells = store[k].cells
    /\ next[h].cells = Append(store[h].cells, cell)

\* What was open is complete and goes into a cell, after all that is before it.
LEMMA NodeLinked ==
    ASSUME NEW text \in Seq(STRING), NEW n \in Nat, NEW all \in SUBSET (1 .. n),
           NEW opened, NEW store \in Seq(Node), NEW next,
           AreBuilt(store, text, all, opened),
           NEW p \in all, p \in opened, Places(text)[p].in \in all,
           \A q \in all : Places(text)[q].in = Places(text)[p].in => q <= p,
           Links(store, next, Rank(all, Places(text)[p].in),
                 [key |-> KeyOf(text, Places(text)[p]), value |-> Rank(all, p)])
    PROVE  AreBuilt(next, text, all, opened \ {p})
<1> DEFINE c == Places(text)[p].in
           h == Rank(all, c)
           cell == [key |-> KeyOf(text, Places(text)[p]), value |-> Rank(all, p)]
           old == StoredIn(text, all, opened, c)
           new == StoredIn(text, all, opened \ {p}, c)
<1>1. Links(store, next, h, cell) /\ c \in all
  OBVIOUS
<1>2. Len(store) = Cardinality(all) /\ Len(store) \in Nat
  BY DEF AreBuilt
<1>3. h \in 1 .. Len(store) /\ \A q \in all : Rank(all, q) \in 1 .. Len(store)
  BY <1>1, <1>2, RankIn
<1>4. ASSUME NEW q \in all, q # c
      PROVE  NodeIs(next, text, all, opened \ {p}, q)
  <2>1. NodeIs(store, text, all, opened, q)
    BY DEF AreBuilt
  <2>2. StoredIn(text, all, opened \ {p}, q) = StoredIn(text, all, opened, q)
    BY <1>4 DEF StoredIn
  <2>3. Rank(all, q) # h
    BY <1>1, <1>4, RankIsUnique
  <2> HIDE DEF h, c, cell
  <2>4. LET k == Rank(all, q)
        IN /\ next[k].type = store[k].type /\ next[k].text = store[k].text
           /\ next[k].cells = store[k].cells
    BY <1>1, <1>3, <2>3 DEF Links
  <2> QED BY <2>1, <2>2, <2>4 DEF NodeIs
<1>5. /\ new = old \cup {p} /\ p \notin old
      /\ old \in SUBSET (1 .. p - 1) /\ p - 1 \in Nat /\ (p - 1) + 1 = p
  <2>1. p \in 1 .. n
    OBVIOUS
  <2>2. new = old \cup {p} /\ p \notin old
    BY DEF StoredIn
  <2>3. ASSUME NEW q \in old
        PROVE  q \in 1 .. p - 1
    <3>1. q \in all /\ q <= p /\ q # p
      BY <2>2 DEF StoredIn
    <3>2. q \in 1 .. n
      BY <3>1
    <3> QED BY <2>1, <3>1, <3>2
  <2>4. p - 1 \in Nat /\ (p - 1) + 1 = p
    BY <2>1
  <2> HIDE DEF new, old
  <2> QED BY <2>2, <2>3, <2>4
<1> HIDE DEF new, old
<1>6. /\ Cardinality(new) = Cardinality(old) + 1
      /\ Rank(new, p) = Cardinality(old) + 1
      /\ \A q \in old : Rank(new, q) = Rank(old, q)
      /\ Cardinality(old) \in Nat
      /\ \A q \in old : Rank(old, q) \in 1 .. Cardinality(old)
  <2> DEFINE m == p - 1
  <2>0. m \in Nat /\ old \in SUBSET (1 .. m) /\ m + 1 = p
    BY <1>5
  <2> HIDE DEF m
  <2>1. /\ Cardinality(old \cup {m + 1}) = Cardinality(old) + 1
        /\ Rank(old \cup {m + 1}, m + 1) = Cardinality(old) + 1
        /\ \A q \in 1 .. m : Rank(old \cup {m + 1}, q) = Rank(old, q)
    BY <2>0, RankAdded
  <2>2. Cardinality(old) \in Nat /\ \A q \in old : Rank(old, q) \in 1 .. Cardinality(old)
    BY <2>0, FiniteUpTo, RankIn
  <2> QED BY <1>5, <2>0, <2>1, <2>2
<1> DEFINE cells == store[h].cells
<1>7. cells \in Seq(Cell)
  <2>1. store[h] \in Node
    BY <1>3
  <2> QED BY <2>1 DEF Node
<1>8. NodeIs(store, text, all, opened, c)
  BY <1>1 DEF AreBuilt
<1>9. /\ Len(cells) = Cardinality(old)
      /\ \A q \in old :
            cells[Rank(old, q)] = [key |-> KeyOf(text, Places(text)[q]), value |-> Rank(all, q)]
      /\ store[h].type = Described(text, c).type /\ store[h].text = Described(text, c).text
  BY <1>8 DEF NodeIs, old
<1> HIDE DEF h
<1>10. /\ next[h].cells = Append(cells, cell)
       /\ next[h].type = store[h].type /\ next[h].text = store[h].text
  BY <1>1, <1>3 DEF Links
<1> HIDE DEF cells
<1>11. /\ Len(Append(cells, cell)) = Len(cells) + 1
       /\ \A k \in 1 .. Len(cells) : Append(cells, cell)[k] = cells[k]
       /\ Append(cells, cell)[Len(cells) + 1] = cell
  <2> HIDE DEF cell
  <2> QED BY <1>7
<1>12. ASSUME NEW q \in new
       PROVE  next[h].cells[Rank(new, q)] =
                 [key |-> KeyOf(text, Places(text)[q]), value |-> Rank(all, q)]
  <2>1. CASE q = p
    <3>1. next[h].cells[Rank(new, q)] = cell
      BY <1>6, <1>9, <1>10, <1>11, <2>1
    <3> QED BY <2>1, <3>1
  <2>2. CASE q \in old
    <3>1. Rank(old, q) \in 1 .. Len(cells) /\ Rank(new, q) = Rank(old, q)
      BY <1>6, <1>9, <2>2
    <3>2. next[h].cells[Rank(new, q)] = cells[Rank(old, q)]
      BY <1>10, <1>11, <3>1
    <3> QED BY <1>9, <2>2, <3>2
  <2> QED BY <1>5, <2>1, <2>2
<1>13. Len(next[h].cells) = Cardinality(new)
  BY <1>6, <1>9, <1>10, <1>11
<1>14. NodeIs(next, text, all, opened \ {p}, c)
  <2> HIDE DEF c, cell
  <2> QED BY <1>9, <1>10, <1>12, <1>13 DEF NodeIs, h, new
<1>15. Len(next) = Cardinality(all)
  BY <1>1, <1>2 DEF Links
<1> QED BY <1>4, <1>14, <1>15 DEF AreBuilt

(***************************************************************************)
(* What the tokens are, by the first character that is no space.           *)
(***************************************************************************)
Here == After(json_p, {SPACE})

\* Before the next token there are only spaces.
LEMMA HereIs ==
    ASSUME json \in Seq(STRING), NUL \notin STRING, json_p \in 1 .. Len(json) + 1
    PROVE  /\ Len(json) \in Nat
           /\ Here \in json_p .. Len(json) + 1 /\ Here \in 1 .. Len(json) + 1
           /\ \A r \in json_p .. Here - 1 : json[r] = SPACE
           /\ Here <= Len(json) => Char(Here) = json[Here] /\ json[Here] # SPACE
           /\ Here > Len(json) => Char(Here) = NUL
<1>1. Len(json) \in Nat /\ NUL \notin {SPACE}
  BY CharsAssumption
<1>2. /\ Here \in json_p .. Len(json) + 1
      /\ Char(Here) # SPACE
      /\ \A r \in json_p .. Here - 1 : Char(r) = SPACE
  <2>1. /\ After(json_p, {SPACE}) \in json_p .. Len(json) + 1
        /\ Char(After(json_p, {SPACE})) \notin {SPACE}
        /\ \A r \in json_p .. After(json_p, {SPACE}) - 1 : Char(r) \in {SPACE}
    BY <1>1, AfterIsFirst
  <2> QED BY <2>1 DEF Here
<1>3. ASSUME NEW r \in json_p .. Here - 1
      PROVE  json[r] = SPACE
  <2>1. r <= Len(json) /\ Char(r) = SPACE
    BY <1>1, <1>2
  <2> QED BY <2>1 DEF Char
<1>4. Here \in 1 .. Len(json) + 1
  BY <1>1, <1>2
<1>5. Here > Len(json) => ~(Here <= Len(json))
  BY <1>1, <1>4
<1> QED BY <1>1, <1>2, <1>3, <1>4, <1>5 DEF Char

\* A string ends before the next quote, or has none.
LEMMA StringIs ==
    ASSUME json \in Seq(STRING), NUL \notin STRING, JUNK \notin Seq(STRING),
           NEW p \in 1 .. Len(json)
    PROVE  LET token == parse_string(p + 1) IN
           \E end \in p + 1 .. Len(json) + 1 :
              /\ \A r \in p + 1 .. end - 1 : json[r] # QUOTE
              /\ token.type = "STRING" /\ token.next = end + 1
              /\ end <= Len(json) => json[end] = QUOTE /\ token.value = SubSeq(json, p + 1, end - 1)
              /\ end > Len(json) => token.value = JUNK
              /\ token.value # JUNK <=> end <= Len(json)
<1> DEFINE S == {json[q] : q \in 1 .. Len(json)} \ {QUOTE}
           end == After(p + 1, S)
           value == IF Char(end) = QUOTE THEN SubSeq(json, p + 1, end - 1) ELSE JUNK
<1>1. /\ Len(json) \in Nat /\ p + 1 \in 1 .. Len(json) + 1 /\ NUL # QUOTE
      /\ \A q \in 1 .. Len(json) : json[q] \in STRING
  <2>1. \A q \in 1 .. Len(json) : json[q] \in STRING
    OBVIOUS
  <2>2. Len(json) \in Nat /\ p + 1 \in 1 .. Len(json) + 1
    OBVIOUS
  <2> QED BY <2>1, <2>2, CharsAssumption
<1>2. NUL \notin S
  BY <1>1
<1>3. /\ end \in p + 1 .. Len(json) + 1 /\ Char(end) \notin S
      /\ \A r \in p + 1 .. end - 1 : Char(r) \in S
  <2> HIDE DEF S
  <2> QED BY <1>1, <1>2, AfterIsFirst
<1>4. parse_string(p + 1) = Token("STRING", value, end + 1)
  BY DEF parse_string
<1> HIDE DEF end
<1>5. ASSUME NEW r \in p + 1 .. end - 1
      PROVE  json[r] # QUOTE
  <2>1. Char(r) = json[r] /\ Char(r) \in S
    BY <1>1, <1>3 DEF Char
  <2> QED BY <2>1
<1>6. end <= Len(json) => json[end] = QUOTE /\ Char(end) = QUOTE
  <2> SUFFICES ASSUME end <= Len(json)
               PROVE  json[end] = QUOTE /\ Char(end) = QUOTE
    OBVIOUS
  <2>1. Char(end) = json[end] /\ end \in 1 .. Len(json)
    BY <1>1, <1>3 DEF Char
  <2> QED BY <1>3, <2>1
<1>7. end > Len(json) => Char(end) # QUOTE
  <2>1. end > Len(json) => ~(end <= Len(json))
    BY <1>1, <1>3
  <2> QED BY <1>1, <2>1 DEF Char
<1>8. SubSeq(json, p + 1, end - 1) \in Seq(STRING)
  BY <1>1, <1>3
<1> DEFINE text == SubSeq(json, p + 1, end - 1)
<1>9. /\ end <= Len(json) => value = text
      /\ end > Len(json) => value = JUNK
      /\ text # JUNK
  BY <1>6, <1>7, <1>8
<1> HIDE DEF value, text
<1>10. value # JUNK <=> end <= Len(json)
  <2>1. end <= Len(json) \/ end > Len(json)
    BY <1>1, <1>3
  <2> QED BY <1>9, <2>1
<1>11. /\ parse_string(p + 1).type = "STRING" /\ parse_string(p + 1).next = end + 1
       /\ parse_string(p + 1).value = value
  BY <1>4 DEF Token
<1> QED BY <1>3, <1>5, <1>6, <1>9, <1>10, <1>11 DEF text

\* A sequence of one.
LEMMA OneWord ==
    ASSUME NEW word \in Seq(STRING), NEW letter
    PROVE  word = <<letter>> <=> Len(word) = 1 /\ word[1] = letter
<1>1. ASSUME word = <<letter>>
      PROVE  Len(word) = 1 /\ word[1] = letter
  BY <1>1
<1>2. ASSUME Len(word) = 1, word[1] = letter
      PROVE  word = <<letter>>
  <2>1. word = [i \in 1 .. 1 |-> word[i]]
    BY <1>2
  <2>2. word = [i \in 1 .. 1 |-> letter]
    BY <1>2, <2>1
  <2>3. <<letter>> = [i \in 1 .. 1 |-> letter]
    OBVIOUS
  <2> QED BY <2>2, <2>3
<1> QED BY <1>1, <1>2

\* A boolean is a word that no letter follows.
LEMMA BooleanIs ==
    ASSUME json \in Seq(STRING), NUL \notin STRING, NEW p \in 1 .. Len(json), json[p] \in Letters
    PROVE  LET token == parse_boolean(p) IN
           /\ token.type \in {"BOOLEAN", "NONE"}
           /\ token.type = "BOOLEAN" <=> json[p] \in Words /\ Char(p + 1) \notin Letters
           /\ token.type = "BOOLEAN" => token.next = p + 1 /\ token.value[1] = json[p]
<1> DEFINE end == After(p, Letters)
           word == SubSeq(json, p, end - 1)
<1>1. Len(json) \in Nat /\ p \in 1 .. Len(json) + 1 /\ NUL \notin Letters
  <2>1. Len(json) \in Nat /\ p \in 1 .. Len(json) + 1
    OBVIOUS
  <2> QED BY <2>1, CharsAssumption
<1>2. /\ end \in p .. Len(json) + 1 /\ Char(end) \notin Letters
      /\ \A r \in p .. end - 1 : Char(r) \in Letters
  BY <1>1, AfterIsFirst
<1>3. parse_boolean(p) = Token(IF word \in {<<"true">>, <<"false">>} THEN "BOOLEAN" ELSE "NONE",
                               word, end)
  BY DEF parse_boolean
<1> HIDE DEF end
<1>4. end # p
  <2>1. Char(p) = json[p]
    BY <1>1 DEF Char
  <2> QED BY <1>2, <2>1
<1>5. word \in Seq(STRING) /\ Len(word) = end - p /\ word[1] = json[p]
  <2>0. p \in Int /\ end \in Int /\ 1 <= p
    BY <1>1, <1>2
  <2>1. p \in 1 .. Len(json) /\ end - 1 \in p .. Len(json) /\ p <= end - 1
    BY <1>1, <1>2, <1>4
  <2>2. word = [i \in 1 .. (end - 1) - p + 1 |-> json[i + p - 1]]
    BY <1>1, <2>1
  <2>3. (end - 1) - p + 1 = end - p /\ 1 \in 1 .. end - p /\ end - p \in Nat /\ 1 + p - 1 = p
    BY <2>0, <2>1
  <2>4. word = [i \in 1 .. end - p |-> json[i + p - 1]]
    BY <2>2, <2>3
  <2>5. \A i \in 1 .. end - p : json[i + p - 1] \in STRING
    <3> SUFFICES ASSUME NEW i \in 1 .. end - p
                 PROVE  json[i + p - 1] \in STRING
      OBVIOUS
    <3>1. i + p - 1 \in 1 .. Len(json)
      BY <1>1, <2>0, <2>1
    <3> QED BY <3>1
  <2> HIDE DEF word
  <2> QED BY <2>3, <2>4, <2>5
<1> HIDE DEF word
<1>6. word \in {<<"true">>, <<"false">>} <=> json[p] \in Words /\ end = p + 1
  <2>1. word \in {<<"true">>, <<"false">>} <=> Len(word) = 1 /\ word[1] \in Words
    BY <1>5, OneWord DEF Words
  <2>2. Len(word) = 1 <=> end = p + 1
    BY <1>1, <1>2, <1>5
  <2> QED BY <1>5, <2>1, <2>2
<1>7. end = p + 1 <=> Char(p + 1) \notin Letters
  <2>1. ASSUME end # p + 1
        PROVE  p + 1 \in p .. end - 1
    BY <1>1, <1>2, <1>4, <2>1
  <2> QED BY <1>2, <2>1
<1> QED BY <1>3, <1>5, <1>6, <1>7 DEF Token

\* What the first character says about the token.
LEMMA TokenIs ==
    ASSUME json \in Seq(STRING), NUL \notin STRING, json_p \in 1 .. Len(json) + 1
    PROVE  /\ \A c \in DOMAIN Mark : Char(Here) = c => Tok = Token(Mark[c], <<>>, Here + 1)
           /\ Char(Here) = QUOTE => Tok = parse_string(Here + 1)
           /\ Char(Here) \in WordStarts => Tok = parse_boolean(Here)
           /\ Char(Here) \notin DOMAIN Mark \cup {QUOTE} \cup WordStarts =>
                 Tok.type \in {"END", "NUMBER", "NONE"}
<1> DEFINE ch == Char(Here)
           isDigit == ch = "-" \/ ch \in Digits
<1>1. Tok = CASE ch = NUL -> Token("END", <<>>, Here)
              [] ch \in DOMAIN Mark -> Token(Mark[ch], <<>>, Here + 1)
              [] ch = QUOTE -> parse_string(Here + 1)
              [] isDigit -> parse_number(Here)
              [] ch \in WordStarts -> parse_boolean(Here)
              [] OTHER -> Token("NONE", <<>>, Here + 1)
  BY DEF Tok, json_next_token, Here
<1>2. /\ NUL \notin DOMAIN Mark \cup {QUOTE, "-"} \cup Digits \cup WordStarts
      /\ QUOTE \notin DOMAIN Mark
      /\ \A c \in DOMAIN Mark \cup {QUOTE} : c # "-" /\ c \notin Digits \cup WordStarts
      /\ \A c \in WordStarts : c # "-" /\ c \notin Digits
  <2>1. QUOTE \notin DOMAIN Mark /\ "-" \notin DOMAIN Mark \cup {QUOTE}
    BY DEF Mark, QUOTE
  <2> DEFINE others == DOMAIN Mark \cup {SPACE, QUOTE, "-", "."}
  <2>2. /\ WordStarts \subseteq Letters /\ Digits \cap Letters = {}
        /\ others \cap (Digits \cup Letters) = {}
        /\ NUL \notin Digits \cup Letters \cup others
    BY CharsAssumption
  <2>3. DOMAIN Mark \cup {QUOTE} \subseteq others /\ "-" \in others
    OBVIOUS
  <2> HIDE DEF others
  <2> QED BY <2>1, <2>2, <2>3
<1>3. parse_number(Here).type = "NUMBER"
  BY DEF parse_number, Token
<1> HIDE DEF ch
<1>4. \A c \in DOMAIN Mark : ch = c => Tok = Token(Mark[c], <<>>, Here + 1)
  BY <1>1, <1>2
<1>5. ch = QUOTE => Tok = parse_string(Here + 1)
  BY <1>1, <1>2
<1>6. ch \in WordStarts => Tok = parse_boolean(Here)
  BY <1>1, <1>2
<1>7. ASSUME ch \notin DOMAIN Mark \cup {QUOTE} \cup WordStarts
      PROVE  Tok.type \in {"END", "NUMBER", "NONE"}
  <2>1. CASE ch = NUL
    <3>1. Tok = Token("END", <<>>, Here)
      BY <1>1, <1>2, <2>1
    <3> QED BY <3>1 DEF Token
  <2>2. CASE ch # NUL /\ isDigit
    <3>1. Tok = parse_number(Here)
      BY <1>1, <1>7, <2>2
    <3> QED BY <1>3, <3>1
  <2>3. CASE ch # NUL /\ ~isDigit
    <3>1. Tok = Token("NONE", <<>>, Here + 1)
      BY <1>1, <1>7, <2>3
    <3> QED BY <3>1 DEF Token
  <2> QED BY <2>1, <2>2, <2>3
<1> QED BY <1>4, <1>5, <1>6, <1>7 DEF ch

\* The type of a token says what stands there.
LEMMA TypeMeans ==
    ASSUME json \in Seq(STRING), NUL \notin STRING, JUNK \notin Seq(STRING),
           json_p \in 1 .. Len(json) + 1
    PROVE  /\ Tok.type \in AllTypes
           /\ Tok.type = "BRACE_LEFT" <=> Char(Here) = "{"
           /\ Tok.type = "BRACE_RIGHT" <=> Char(Here) = "}"
           /\ Tok.type = "BRACKET_LEFT" <=> Char(Here) = "["
           /\ Tok.type = "BRACKET_RIGHT" <=> Char(Here) = "]"
           /\ Tok.type = "COLON" <=> Char(Here) = ":"
           /\ Tok.type = "COMMA" <=> Char(Here) = ","
           /\ Tok.type = "STRING" <=> Char(Here) = QUOTE
           /\ Tok.type = "BOOLEAN" <=> Char(Here) \in Words /\ Char(Here + 1) \notin Letters
<1>0. /\ Here \in 1 .. Len(json) + 1
      /\ Here <= Len(json) => Char(Here) = json[Here]
      /\ Here > Len(json) => Char(Here) = NUL
      /\ Len(json) \in Nat
  BY HereIs
<1>1. /\ DOMAIN Mark = {"{", "}", "[", "]", ":", ","}
      /\ Mark["{"] = "BRACE_LEFT" /\ Mark["}"] = "BRACE_RIGHT"
      /\ Mark["["] = "BRACKET_LEFT" /\ Mark["]"] = "BRACKET_RIGHT"
      /\ Mark[":"] = "COLON" /\ Mark[","] = "COMMA"
  BY DEF Mark
<1>2. /\ {"STRING", "NUMBER", "BOOLEAN", "NONE", "END", "BRACE_LEFT", "BRACE_RIGHT",
          "BRACKET_LEFT", "BRACKET_RIGHT", "COLON", "COMMA"} \subseteq AllTypes
  BY <1>1 DEF AllTypes
<1>3. /\ Words \subseteq WordStarts /\ WordStarts \subseteq Letters
      /\ DOMAIN Mark \cap WordStarts = {} /\ QUOTE \notin WordStarts \cup DOMAIN Mark
      /\ NUL \notin DOMAIN Mark \cup {QUOTE} \cup WordStarts
  <2>1. QUOTE \notin DOMAIN Mark
    BY <1>1 DEF QUOTE
  <2> DEFINE others == DOMAIN Mark \cup {SPACE, QUOTE, "-", "."}
  <2>2. /\ {"true", "false"} \subseteq WordStarts /\ WordStarts \subseteq Letters
        /\ others \cap (Digits \cup Letters) = {} /\ NUL \notin Digits \cup Letters \cup others
    BY CharsAssumption
  <2>3. DOMAIN Mark \cup {QUOTE} \subseteq others
    OBVIOUS
  <2> HIDE DEF others
  <2> QED BY <2>1, <2>2, <2>3 DEF Words
<1>4. CASE Char(Here) \in DOMAIN Mark
  <2>1. Tok = Token(Mark[Char(Here)], <<>>, Here + 1)
    BY <1>4, TokenIs
  <2>2. Tok.type = Mark[Char(Here)]
    BY <2>1 DEF Token
  <2>3. Char(Here) # QUOTE /\ Char(Here) \notin Words
    BY <1>3, <1>4
  <2> HIDE DEF Tok
  <2> QED BY <1>1, <1>2, <1>4, <2>2, <2>3
<1>5. CASE Char(Here) = QUOTE
  <2>1. Tok = parse_string(Here + 1) /\ Here \in 1 .. Len(json)
    BY <1>0, <1>3, <1>5, TokenIs
  <2>2. parse_string(Here + 1).type = "STRING"
    BY <2>1, StringIs
  <2>3. Char(Here) \notin DOMAIN Mark \cup Words
    BY <1>3, <1>5
  <2> HIDE DEF Tok
  <2> QED BY <1>1, <1>2, <1>5, <2>1, <2>2, <2>3
<1>6. CASE Char(Here) \in WordStarts
  <2>1. Tok = parse_boolean(Here) /\ Here \in 1 .. Len(json) /\ json[Here] = Char(Here)
    BY <1>0, <1>3, <1>6, TokenIs
  <2>2. /\ parse_boolean(Here).type \in {"BOOLEAN", "NONE"}
        /\ parse_boolean(Here).type = "BOOLEAN" <=>
              Char(Here) \in Words /\ Char(Here + 1) \notin Letters
    BY <1>3, <1>6, <2>1, BooleanIs
  <2>3. Char(Here) \notin DOMAIN Mark \cup {QUOTE}
    BY <1>3, <1>6
  <2> HIDE DEF Tok
  <2> QED BY <1>1, <1>2, <2>1, <2>2, <2>3
<1>7. CASE Char(Here) \notin DOMAIN Mark \cup {QUOTE} \cup WordStarts
  <2>1. Tok.type \in {"END", "NUMBER", "NONE"}
    BY <1>7, TokenIs
  <2>2. Char(Here) \notin Words
    BY <1>3, <1>7
  <2> HIDE DEF Tok
  <2> QED BY <1>1, <1>2, <1>7, <2>1, <2>2
<1> QED BY <1>4, <1>5, <1>6, <1>7

\* Where an object or array begins, and what it is.
Opens(text, p) == text[p] \in {"{", "["}

Kind(text, p) == IF text[p] = "{" THEN "object" ELSE "array"

(***************************************************************************)
(* The objects and arrays that are open, innermost first, and the calls    *)
(* that read them.                                                         *)
(***************************************************************************)
IsOpen(text, n, open) ==
    LET at == Places(text)
        outermost == open[Len(open)]
    IN /\ open \in Seq(DataTo(text, n))
       /\ at[n].in = IF open = <<>> THEN 0 ELSE open[1]
       /\ at[n].in = 0 <=> at[n].due = "root"
       /\ \A k \in 1 .. Len(open) :
             /\ at[open[k]].in = IF k = Len(open) THEN 0 ELSE open[k + 1]
             /\ at[open[k]].in = 0 <=> at[open[k]].due = "root"
             /\ at[open[k]].quote = 0 /\ Opens(text, open[k])
             /\ \A q \in DataTo(text, n) : at[q].in = at[open[k]].in => q <= open[k]
             /\ \A j \in 1 .. k - 1 : open[k] < open[j]
       /\ \A q \in DataTo(text, n) : open # <<>> /\ outermost <= q

Opened(open) == {open[k] : k \in 1 .. Len(open)}

\* Each call has the node of its object or array, the key under which the
\* next inner one belongs, and needs what is due: a comma or an end, once
\* the one that is inside has returned.
AreCalls(cs, text, n, open) ==
    LET at == Places(text)
    IN /\ Len(cs) = Len(open)
       /\ \A k \in 1 .. Len(open) :
             /\ cs[k].what = Kind(text, open[k])
             /\ cs[k].data = Rank(DataTo(text, n), open[k])
             /\ cs[k].key = KeyOf(text, at[IF k = 1 THEN n ELSE open[k - 1]])
             /\ cs[k].needs = IF k = 1 THEN at[n].due ELSE "more"

\* Between two tokens, in or before the root.
IsAt(text, n) ==
    /\ n \in 1 .. Len(text) + 1
    /\ Places(text)[n].quote = 0 /\ Places(text)[n].due # "nothing"
    /\ SupportedTo(text, n)

\* Read up to the place n: what is open, and all that is before n.
IsReadTo(text, n, open, cs, store) ==
    /\ IsAt(text, n)
    /\ IsOpen(text, n, open)
    /\ AreCalls(cs, text, n, open)
    /\ AreBuilt(store, text, DataTo(text, n), Opened(open))

\* What is open is a datum before the place.
LEMMA OpenAre ==
    ASSUME NEW text \in Seq(STRING), NEW n \in 1 .. Len(text) + 1, NEW open, IsOpen(text, n, open)
    PROVE  /\ Len(open) \in Nat /\ Opened(open) \subseteq DataTo(text, n)
           /\ open # <<>> <=> Len(open) > 0
           /\ \A k \in 1 .. Len(open) : /\ open[k] \in DataTo(text, n)
                                        /\ open[k] \in 1 .. n - 1 /\ open[k] \in 1 .. Len(text)
                                        /\ Places(text)[open[k]].in < open[k]
<1>1. open \in Seq(DataTo(text, n))
  BY DEF IsOpen
<1>2. Len(open) \in Nat /\ \A k \in 1 .. Len(open) : open[k] \in DataTo(text, n)
  BY <1>1
<1>3. open # <<>> <=> Len(open) > 0
  BY <1>1
<1>4. ASSUME NEW k \in 1 .. Len(open)
      PROVE  /\ open[k] \in 1 .. n - 1 /\ open[k] \in 1 .. Len(text)
             /\ Places(text)[open[k]].in < open[k]
  <2>1. open[k] \in 1 .. n - 1 /\ open[k] \in 1 .. Len(text)
    BY <1>2, DataIn
  <2>2. open[k] \in 1 .. Len(text) + 1
    BY <2>1
  <2>3. Places(text)[open[k]].in \in 0 .. open[k] - 1
    BY <2>2, PlaceIs
  <2> QED BY <2>1, <2>3
<1> QED BY <1>2, <1>3, <1>4 DEF Opened

\* On the same level, with a datum more or none.
LEMMA OpenStays ==
    ASSUME NEW text \in Seq(STRING), NEW n \in 1 .. Len(text) + 1, NEW m \in 1 .. Len(text) + 1,
           NEW open, IsOpen(text, n, open),
           Places(text)[m].in = Places(text)[n].in,
           Places(text)[m].due = "root" <=> Places(text)[n].due = "root",
           \/ DataTo(text, m) = DataTo(text, n)
           \/ /\ DataTo(text, m) = DataTo(text, n) \cup {n}
              /\ open # <<>>
    PROVE  IsOpen(text, m, open)
<1> DEFINE at == Places(text)
<1>1. /\ open \in Seq(DataTo(text, n)) /\ Len(open) \in Nat
      /\ open # <<>> <=> Len(open) > 0
      /\ \A k \in 1 .. Len(open) : open[k] \in 1 .. n - 1 /\ at[open[k]].in < open[k]
      /\ \A k \in 1 .. Len(open) : at[open[k]].in \in Int
  <2>1. \A k \in 1 .. Len(open) : at[open[k]].in \in Int
    <3> SUFFICES ASSUME NEW k \in 1 .. Len(open)
                 PROVE  at[open[k]].in \in Int
      OBVIOUS
    <3>1. open[k] \in 1 .. Len(text) + 1
      BY OpenAre
    <3> QED BY <3>1, PlaceIs
  <2> QED BY <2>1, OpenAre DEF IsOpen
<1>2. DataTo(text, n) \subseteq DataTo(text, m)
  OBVIOUS
<1>3. open \in Seq(DataTo(text, m))
  BY <1>1, <1>2
<1>4. ASSUME NEW k \in 1 .. Len(open), NEW q \in DataTo(text, m), at[q].in = at[open[k]].in
      PROVE  q <= open[k]
  <2>1. CASE q \in DataTo(text, n)
    BY <1>4, <2>1 DEF IsOpen
  <2>2. CASE q = n /\ open # <<>>
    <3>0. 1 \in 1 .. Len(open)
      BY <1>1, <2>2
    <3>1. at[n].in = open[1]
      BY <2>2 DEF IsOpen
    <3>2. k = 1 \/ open[k] < open[1]
      <4>1. CASE k # 1
        <5>1. 1 \in 1 .. k - 1
          BY <1>1, <4>1
        <5> QED BY <5>1 DEF IsOpen
      <4> QED BY <4>1
    <3>3. at[open[k]].in < open[1]
      BY <1>1, <3>0, <3>1, <3>2
    <3> HIDE DEF at
    <3> QED BY <1>1, <1>4, <2>2, <3>1, <3>3
  <2> QED BY <2>1, <2>2
<1>5. ASSUME NEW q \in DataTo(text, m)
      PROVE  open # <<>> /\ open[Len(open)] <= q
  <2>1. CASE q \in DataTo(text, n)
    BY <2>1 DEF IsOpen
  <2>2. CASE q = n /\ open # <<>>
    <3>1. Len(open) \in 1 .. Len(open)
      BY <1>1, <2>2
    <3> QED BY <1>1, <2>2, <3>1
  <2> QED BY <2>1, <2>2
<1> QED BY <1>3, <1>4, <1>5 DEF IsOpen

\* One in front of a sequence.
LEMMA PutBefore ==
    ASSUME NEW S, NEW x \in S, NEW o \in Seq(S)
    PROVE  /\ <<x>> \o o \in Seq(S) /\ Len(<<x>> \o o) = Len(o) + 1 /\ (<<x>> \o o)[1] = x
           /\ \A k \in 2 .. Len(o) + 1 : (<<x>> \o o)[k] = o[k - 1]
  OBVIOUS

\* A sequence without its first.
LEMMA LeftOf ==
    ASSUME NEW S, NEW o \in Seq(S), o # <<>>
    PROVE  /\ Tail(o) \in Seq(S) /\ Len(Tail(o)) = Len(o) - 1 /\ Len(o) \in Nat \ {0}
           /\ \A k \in 1 .. Len(o) - 1 : Tail(o)[k] = o[k + 1]
           /\ Head(o) = o[1]
  OBVIOUS

\* A length that is neither 0 nor 1.
LEMMA AboveOne ==
    ASSUME NEW l \in Nat, l > 0, l # 1
    PROVE  l > 1 /\ 1 + 1 = 2
  OBVIOUS

\* Into an object or array that begins at n.
LEMMA OpenGrows ==
    ASSUME NEW text \in Seq(STRING), NEW n \in 1 .. Len(text), NEW m, m = n + 1,
           NEW open, IsOpen(text, n, open),
           Places(text)[n].quote = 0, Opens(text, n),
           Places(text)[m].in = n, Places(text)[m].due # "root",
           DataTo(text, m) = DataTo(text, n) \cup {n}
    PROVE  IsOpen(text, m, <<n>> \o open)
<1> DEFINE at == Places(text)
           S == DataTo(text, m)
           grown == <<n>> \o open
<1> HIDE DEF grown
<1>1. n \in 1 .. Len(text) + 1 /\ m \in 1 .. Len(text) + 1 /\ n \in S /\ DataTo(text, n) \subseteq S
  OBVIOUS
<1>2. /\ Len(open) \in Nat /\ (open # <<>> <=> Len(open) > 0)
      /\ \A k \in 1 .. Len(open) : open[k] \in 1 .. n - 1 /\ open[k] \in DataTo(text, n)
  BY <1>1, OpenAre
<1>3. open \in Seq(S)
  <2>1. open \in Seq(DataTo(text, n))
    BY DEF IsOpen
  <2> HIDE DEF S
  <2> QED BY <1>1, <2>1
<1> HIDE DEF S
<1>4. /\ grown \in Seq(S) /\ Len(grown) = Len(open) + 1 /\ grown[1] = n
      /\ \A k \in 2 .. Len(open) + 1 : grown[k] = open[k - 1]
  BY <1>1, <1>3, PutBefore DEF grown
<1>5. /\ at[m].in = n /\ at[m].due # "root" /\ grown # <<>>
      /\ at[n].in \in 0 .. n - 1
  <2>1. at[m].in = n /\ at[m].due # "root"
    OBVIOUS
  <2>2. at[n].in \in 0 .. n - 1
    BY <1>1, PlaceIs
  <2>3. grown # <<>>
    BY <1>2, <1>4
  <2> QED BY <2>1, <2>2, <2>3
<1>6. \A q \in S : q = n \/ q \in DataTo(text, n)
  BY DEF S
<1>7. \A q \in DataTo(text, n) : q \in 1 .. n - 1
  BY <1>1, DataIn
<1>8. at[n].in = (IF 1 = Len(grown) THEN 0 ELSE grown[2]) /\ (at[n].in = 0 <=> at[n].due = "root")
  <2>1. CASE open = <<>>
    <3>1. at[n].in = 0 /\ Len(grown) = 1
      BY <1>2, <1>4, <2>1 DEF IsOpen
    <3> QED BY <3>1 DEF IsOpen
  <2>2. CASE open # <<>>
    <3>1. at[n].in = open[1] /\ Len(grown) # 1 /\ 2 \in 2 .. Len(open) + 1
      <4>1. at[n].in = open[1]
        BY <2>2 DEF IsOpen
      <4> QED BY <1>2, <1>4, <2>2, <4>1
    <3>2. grown[2] = open[1]
      BY <1>4, <3>1
    <3> QED BY <3>1, <3>2 DEF IsOpen
  <2> QED BY <2>1, <2>2
<1>9. ASSUME NEW k \in 1 .. Len(grown)
      PROVE  /\ at[grown[k]].in = IF k = Len(grown) THEN 0 ELSE grown[k + 1]
             /\ at[grown[k]].in = 0 <=> at[grown[k]].due = "root"
             /\ at[grown[k]].quote = 0 /\ Opens(text, grown[k])
             /\ \A q \in S : at[q].in = at[grown[k]].in => q <= grown[k]
             /\ \A j \in 1 .. k - 1 : grown[k] < grown[j]
  <2>1. CASE k = 1
    <3>1. \A q \in S : q <= n
      BY <1>6, <1>7
    <3>2. at[n].quote = 0
      OBVIOUS
    <3> QED BY <1>4, <1>8, <2>1, <3>1, <3>2
  <2>2. CASE k # 1
    <3> DEFINE i == k - 1
    <3>1. i \in 1 .. Len(open) /\ k \in 2 .. Len(open) + 1 /\ i + 1 = k
      BY <1>2, <1>4, <2>2
    <3>2. grown[k] = open[i] /\ open[i] \in 1 .. n - 1
      BY <1>2, <1>4, <3>1
    <3>3. (IF i = Len(open) THEN 0 ELSE open[i + 1]) = IF k = Len(grown) THEN 0 ELSE grown[k + 1]
      <4>1. CASE i = Len(open)
        BY <1>4, <3>1, <4>1
      <4>2. CASE i # Len(open)
        <5>1. k + 1 \in 2 .. Len(open) + 1 /\ (k + 1) - 1 = k /\ k # Len(grown)
          BY <1>2, <1>4, <3>1, <4>2
        <5>2. grown[k + 1] = open[k]
          BY <1>4, <5>1
        <5> QED BY <3>1, <4>2, <5>1, <5>2
      <4> QED BY <4>1, <4>2
    <3> HIDE DEF i
    <3>4. /\ at[open[i]].in = IF i = Len(open) THEN 0 ELSE open[i + 1]
          /\ at[open[i]].in = 0 <=> at[open[i]].due = "root"
          /\ at[open[i]].quote = 0 /\ Opens(text, open[i])
          /\ \A q \in DataTo(text, n) : at[q].in = at[open[i]].in => q <= open[i]
          /\ \A j \in 1 .. i - 1 : open[i] < open[j]
      BY <3>1 DEF IsOpen
    <3>5. ASSUME NEW q \in S, at[q].in = at[open[i]].in
          PROVE  q <= open[i]
      <4>1. CASE q \in DataTo(text, n)
        BY <3>4, <3>5, <4>1
      <4>2. CASE q = n
        <5>1. 1 \in 1 .. Len(open) /\ open # <<>>
          BY <1>2, <3>1
        <5>2. at[n].in = open[1] /\ at[open[i]].in < open[i]
          <6>1. at[n].in = open[1]
            BY <5>1 DEF IsOpen
          <6> QED BY <1>1, <3>1, <6>1, OpenAre
        <5>3. i = 1 \/ open[i] < open[1]
          <6>1. CASE i # 1
            <7>1. 1 \in 1 .. i - 1
              BY <3>1, <6>1
            <7> QED BY <3>4, <7>1
          <6> QED BY <6>1
        <5>4. at[open[i]].in \in Int /\ open[i] \in Int /\ open[1] \in Int
          <6>1. open[i] \in 1 .. Len(text) + 1 /\ open[1] \in 1 .. n - 1
            BY <1>1, <1>2, <3>1, <5>1, OpenAre
          <6> QED BY <6>1, PlaceIs
        <5> HIDE DEF at
        <5> QED BY <3>5, <4>2, <5>2, <5>3, <5>4
      <4> QED BY <1>6, <4>1, <4>2
    <3>6. ASSUME NEW j \in 1 .. k - 1
          PROVE  grown[k] < grown[j]
      <4>1. CASE j = 1
        BY <1>4, <3>2, <4>1
      <4>2. CASE j # 1
        <5>1. j \in 2 .. Len(open) + 1 /\ j - 1 \in 1 .. i - 1
          BY <1>2, <3>1, <4>2
        <5>2. grown[j] = open[j - 1]
          BY <1>4, <5>1
        <5> QED BY <3>2, <3>4, <5>1, <5>2
      <4> QED BY <4>1, <4>2
    <3> QED BY <3>2, <3>3, <3>4, <3>5, <3>6
  <2> QED BY <2>1, <2>2
<1>10. ASSUME NEW q \in S
       PROVE  grown[Len(grown)] <= q
  <2>1. CASE open = <<>>
    <3>1. q = n
      BY <1>6, <2>1 DEF IsOpen
    <3>2. Len(grown) = 1
      BY <1>2, <1>4, <2>1
    <3>3. grown[Len(grown)] = n
      BY <1>4, <3>2
    <3>4. n <= n
      BY <1>1
    <3> QED BY <3>1, <3>3, <3>4
  <2>2. CASE open # <<>>
    <3>1. /\ Len(grown) \in 2 .. Len(open) + 1 /\ Len(grown) - 1 = Len(open)
          /\ Len(open) \in 1 .. Len(open)
      BY <1>2, <1>4, <2>2
    <3>2. grown[Len(grown)] = open[Len(open)] /\ open[Len(open)] \in 1 .. n - 1
      BY <1>2, <1>4, <3>1
    <3>3. q \in DataTo(text, n) => open[Len(open)] <= q
      BY DEF IsOpen
    <3> QED BY <1>6, <3>2, <3>3
  <2> QED BY <2>1, <2>2
<1>11. at[m].in = (IF grown = <<>> THEN 0 ELSE grown[1]) /\ at[m].in # 0
  BY <1>4, <1>5
<1>12. IsOpen(text, m, grown)
  BY <1>4, <1>5, <1>9, <1>10, <1>11 DEF IsOpen, S
<1> QED BY <1>12 DEF grown

\* Out of the innermost one, if that is not the root.
LEMMA OpenShrinks ==
    ASSUME NEW text \in Seq(STRING), NEW n \in 1 .. Len(text), NEW m, m = n + 1,
           NEW open, IsOpen(text, n, open),
           open # <<>>, Places(text)[m] = AfterClosed(Places(text)[open[1]]),
           Places(text)[m].due # "nothing",
           DataTo(text, m) = DataTo(text, n)
    PROVE  Len(open) > 1 /\ IsOpen(text, m, Tail(open))
<1> DEFINE at == Places(text)
           S == DataTo(text, n)
           left == Tail(open)
<1> HIDE DEF left
<1>1. n \in 1 .. Len(text) + 1 /\ m \in 1 .. Len(text) + 1
  OBVIOUS
<1>2. /\ Len(open) \in Nat /\ Len(open) > 0 /\ 1 \in 1 .. Len(open)
      /\ \A k \in 1 .. Len(open) : open[k] \in 1 .. n - 1
  BY <1>1, OpenAre
<1>3. /\ open \in Seq(S) /\ left \in Seq(S) /\ Len(left) = Len(open) - 1
      /\ \A k \in 1 .. Len(open) - 1 : left[k] = open[k + 1]
  <2>1. open \in Seq(S)
    BY DEF IsOpen
  <2> HIDE DEF S
  <2> QED BY <2>1, LeftOf DEF left
<1> HIDE DEF S
<1>4. at[open[1]].due # "root" /\ at[m].due = "more" /\ at[m].in = at[open[1]].in
  BY DEF AfterClosed, Place
<1>5. Len(open) > 1 /\ at[m].in = open[2] /\ at[m].in # 0
  <2>1. /\ at[open[1]].in # 0
        /\ at[open[1]].in = IF 1 = Len(open) THEN 0 ELSE open[1 + 1]
    BY <1>2, <1>4 DEF IsOpen
  <2>2. Len(open) # 1
    BY <2>1
  <2>3. Len(open) > 1 /\ 1 + 1 = 2
    BY <1>2, <2>2, AboveOne
  <2> QED BY <1>4, <2>1, <2>2, <2>3
<1>6. left # <<>> /\ left[1] = open[2]
  <2>1. 1 \in 1 .. Len(open) - 1 /\ 1 + 1 = 2
    BY <1>2, <1>5
  <2>2. Len(left) # 0
    BY <1>2, <1>3, <1>5
  <2> QED BY <1>3, <2>1, <2>2
<1>7. ASSUME NEW k \in 1 .. Len(left)
      PROVE  /\ at[left[k]].in = IF k = Len(left) THEN 0 ELSE left[k + 1]
             /\ at[left[k]].in = 0 <=> at[left[k]].due = "root"
             /\ at[left[k]].quote = 0 /\ Opens(text, left[k])
             /\ \A q \in S : at[q].in = at[left[k]].in => q <= left[k]
             /\ \A j \in 1 .. k - 1 : left[k] < left[j]
  <2> DEFINE i == k + 1
  <2>1. /\ k \in 1 .. Len(open) - 1 /\ i \in 1 .. Len(open)
        /\ i = Len(open) <=> k = Len(left)
        /\ k # Len(left) => k + 1 \in 1 .. Len(open) - 1
        /\ \A j \in 1 .. k - 1 : j \in 1 .. Len(open) - 1 /\ j + 1 \in 1 .. i - 1
    BY <1>2, <1>3
  <2>2. left[k] = open[i] /\ (k # Len(left) => left[k + 1] = open[i + 1])
    BY <1>3, <2>1
  <2> HIDE DEF i
  <2>3. /\ at[open[i]].in = IF i = Len(open) THEN 0 ELSE open[i + 1]
        /\ at[open[i]].in = 0 <=> at[open[i]].due = "root"
        /\ at[open[i]].quote = 0 /\ Opens(text, open[i])
        /\ \A q \in S : at[q].in = at[open[i]].in => q <= open[i]
        /\ \A j \in 1 .. i - 1 : open[i] < open[j]
    BY <2>1 DEF IsOpen, S
  <2>4. \A j \in 1 .. k - 1 : left[k] < left[j]
    <3> SUFFICES ASSUME NEW j \in 1 .. k - 1
                 PROVE  left[k] < left[j]
      OBVIOUS
    <3>1. left[j] = open[j + 1] /\ j + 1 \in 1 .. i - 1
      BY <1>3, <2>1
    <3> QED BY <2>2, <2>3, <3>1
  <2> QED BY <2>1, <2>2, <2>3, <2>4
<1>8. ASSUME NEW q \in S
      PROVE  left[Len(left)] <= q
  <2>1. Len(left) \in 1 .. Len(open) - 1 /\ Len(left) + 1 = Len(open)
    BY <1>2, <1>3, <1>5
  <2>2. left[Len(left)] = open[Len(open)]
    BY <1>3, <2>1
  <2>3. open[Len(open)] <= q
    BY DEF IsOpen, S
  <2> QED BY <2>2, <2>3
<1>9. IsOpen(text, m, left)
  <2>1. DataTo(text, m) = S
    BY DEF S
  <2>2. at[m].in = (IF left = <<>> THEN 0 ELSE left[1]) /\ at[m].due # "root"
    BY <1>4, <1>5, <1>6
  <2> QED BY <1>3, <1>5, <1>6, <1>7, <1>8, <2>1, <2>2 DEF IsOpen
<1> QED BY <1>5, <1>9 DEF left

\* What is allowed, by what is due.
LEMMA AllowedIs ==
    ASSUME NEW text, NEW place
    PROVE  /\ place.due = "root" => Allowed(text, place) = {"{"}
           /\ place.due = "key" => Allowed(text, place) = {QUOTE}
           /\ place.due = "colon" => Allowed(text, place) = {":"}
           /\ place.due = "value" => Allowed(text, place) = {QUOTE, "{", "["} \cup Words
           /\ place.due = "element" => Allowed(text, place) = {QUOTE, "{"}
           /\ place.due = "more" =>
                 Allowed(text, place) = {",", IF InObject(text, place.in) THEN "}" ELSE "]"}
<1>1. CASE place.due = "root"
  BY <1>1 DEF Allowed
<1>2. CASE place.due = "key"
  BY <1>2 DEF Allowed
<1>3. CASE place.due = "colon"
  BY <1>3 DEF Allowed
<1>4. CASE place.due = "value"
  BY <1>4 DEF Allowed
<1>5. CASE place.due = "element"
  BY <1>5 DEF Allowed
<1>6. CASE place.due = "more"
  BY <1>6 DEF Allowed
<1> QED BY <1>1, <1>2, <1>3, <1>4, <1>5, <1>6

\* The ranks of what was there before stay.
LEMMA RankMore ==
    ASSUME NEW p \in Nat \ {0}, NEW S \in SUBSET (1 .. p - 1)
    PROVE  /\ Cardinality(S) \in Nat
           /\ Rank(S \cup {p}, p) = Cardinality(S) + 1
           /\ \A q \in S : Rank(S \cup {p}, q) = Rank(S, q)
<1> DEFINE n == p - 1
<1>1. n \in Nat /\ S \in SUBSET (1 .. n) /\ n + 1 = p
  OBVIOUS
<1> HIDE DEF n
<1>2. /\ Rank(S \cup {n + 1}, n + 1) = Cardinality(S) + 1
      /\ \A q \in 1 .. n : Rank(S \cup {n + 1}, q) = Rank(S, q)
      /\ Cardinality(S) \in Nat
  BY <1>1, RankAdded, FiniteUpTo
<1> QED BY <1>1, <1>2

\* A call that goes on at the next place: nothing else about it changes.
NowNeeds(text, m, cs, next) ==
    /\ Len(next) = Len(cs)
    /\ next[1].what = cs[1].what /\ next[1].data = cs[1].data
    /\ next[1].key = KeyOf(text, Places(text)[m]) /\ next[1].needs = Places(text)[m].due
    /\ \A k \in 2 .. Len(cs) : next[k] = cs[k]

\* The calls fit the same objects and arrays at the next place.
LEMMA CallsStay ==
    ASSUME NEW text \in Seq(STRING), NEW n \in 1 .. Len(text) + 1, NEW m \in 1 .. Len(text) + 1,
           NEW open, IsOpen(text, n, open), NEW cs, AreCalls(cs, text, n, open),
           NEW next, NowNeeds(text, m, cs, next),
           \/ DataTo(text, m) = DataTo(text, n)
           \/ DataTo(text, m) = DataTo(text, n) \cup {n}
    PROVE  AreCalls(next, text, m, open)
<1> DEFINE at == Places(text)
<1>1. \A q \in DataTo(text, n) : Rank(DataTo(text, m), q) = Rank(DataTo(text, n), q)
  <2>1. DataTo(text, n) \in SUBSET (1 .. n - 1) /\ n \in Nat \ {0}
    BY DataIn
  <2>2. \A q \in DataTo(text, n) : Rank(DataTo(text, n) \cup {n}, q) = Rank(DataTo(text, n), q)
    <3> DEFINE S == DataTo(text, n)
    <3>1. S \in SUBSET (1 .. n - 1)
      BY <2>1
    <3> HIDE DEF S
    <3>2. \A q \in S : Rank(S \cup {n}, q) = Rank(S, q)
      BY <2>1, <3>1, RankMore
    <3> QED BY <3>2 DEF S
  <2> QED BY <2>2
<1>2. Len(open) \in Nat /\ \A k \in 1 .. Len(open) : open[k] \in DataTo(text, n)
  BY OpenAre
<1>3. Len(next) = Len(open) /\ Len(cs) = Len(open)
  BY DEF AreCalls, NowNeeds
<1>4. ASSUME NEW k \in 1 .. Len(open)
      PROVE  /\ next[k].what = Kind(text, open[k])
             /\ next[k].data = Rank(DataTo(text, m), open[k])
             /\ next[k].key = KeyOf(text, at[IF k = 1 THEN m ELSE open[k - 1]])
             /\ next[k].needs = IF k = 1 THEN at[m].due ELSE "more"
  <2>2. Rank(DataTo(text, m), open[k]) = Rank(DataTo(text, n), open[k])
    BY <1>1, <1>2
  <2>1. /\ cs[k].what = Kind(text, open[k])
        /\ cs[k].data = Rank(DataTo(text, m), open[k])
    BY <2>2 DEF AreCalls
  <2>5. /\ cs[k].key = KeyOf(text, at[IF k = 1 THEN n ELSE open[k - 1]])
        /\ cs[k].needs = IF k = 1 THEN at[n].due ELSE "more"
    BY DEF AreCalls
  <2>3. CASE k = 1
    <3>1. next[1].what = cs[1].what /\ next[1].data = cs[1].data
      BY DEF NowNeeds
    <3>2. next[1].key = KeyOf(text, at[m]) /\ next[1].needs = at[m].due
      BY DEF NowNeeds
    <3> QED BY <2>1, <2>3, <3>1, <3>2
  <2>4. CASE k # 1
    <3>1. k \in 2 .. Len(cs)
      BY <1>2, <1>3, <2>4
    <3>2. next[k] = cs[k]
      BY <3>1 DEF NowNeeds
    <3>3. /\ (IF k = 1 THEN m ELSE open[k - 1]) = open[k - 1]
          /\ (IF k = 1 THEN n ELSE open[k - 1]) = open[k - 1]
      BY <2>4
    <3>4. cs[k].key = KeyOf(text, at[open[k - 1]]) /\ cs[k].needs = "more"
      BY <2>4, <2>5, <3>3
    <3>5. /\ next[k].key = KeyOf(text, at[IF k = 1 THEN m ELSE open[k - 1]])
          /\ next[k].needs = IF k = 1 THEN at[m].due ELSE "more"
      BY <2>4, <3>2, <3>3, <3>4
    <3>7. next[k].what = cs[k].what /\ next[k].data = cs[k].data
      BY <3>2
    <3>6. /\ next[k].what = Kind(text, open[k])
          /\ next[k].data = Rank(DataTo(text, m), open[k])
      BY <2>1, <3>7
    <3> QED BY <3>5, <3>6
  <2> QED BY <2>3, <2>4
<1> QED BY <1>3, <1>4 DEF AreCalls

(***************************************************************************)
(* What is read stays read over spaces.                                    *)
(***************************************************************************)
LEMMA OverSpaces ==
    ASSUME NEW text \in Seq(STRING), NEW n \in 1 .. Len(text) + 1, NEW m \in n .. Len(text) + 1,
           NEW open, NEW cs, NEW store, IsReadTo(text, n, open, cs, store),
           \A r \in n .. m - 1 : text[r] = SPACE
    PROVE  IsReadTo(text, m, open, cs, store) /\ Places(text)[m] = Places(text)[n]
<1> DEFINE at == Places(text)
<1>0. m \in 1 .. Len(text) + 1 /\ m \in n .. m
  OBVIOUS
<1>1. at[n].quote = 0 /\ at[n].due # "nothing" /\ SupportedTo(text, n) /\ IsOpen(text, n, open)
      /\ AreCalls(cs, text, n, open) /\ AreBuilt(store, text, DataTo(text, n), Opened(open))
  BY DEF IsReadTo, IsAt
<1>2. \A r \in n .. m : at[r] = at[n]
  <2>1. \A r \in n .. m - 1 : Stays(at[n], text[r])
    BY <1>1 DEF Stays
  <2> QED BY <2>1, PlaceStays
<1>3. \A r \in n .. m - 1 : ~IsDatum(text, at[r], r) /\ SupportedAt(text, at[r], r)
  <2>1. \A r \in n .. m - 1 : ~Counts(text, at[r], r)
    BY DEF Counts
  <2> QED BY <2>1, OnlyCountedAre
<1>4. DataTo(text, m) = DataTo(text, n)
  BY <1>3, DataSame
<1>5. SupportedTo(text, m)
  BY <1>1, <1>3, SupportedMore
<1>6. at[m] = at[n]
  BY <1>0, <1>2
<1>7. IsOpen(text, m, open)
  BY <1>0, <1>1, <1>4, <1>6, OpenStays
<1>8. AreCalls(cs, text, m, open)
  BY <1>1, <1>4, <1>6 DEF AreCalls
<1> QED BY <1>0, <1>1, <1>4, <1>5, <1>6, <1>7, <1>8 DEF IsReadTo, IsAt

\* Where the next token goes on in the same object or array.
SameLevel(text, n, m) ==
    /\ m \in n + 1 .. Len(text) + 1
    /\ SupportedTo(text, m)
    /\ Places(text)[m].quote = 0 /\ Places(text)[m].due \notin {"nothing", "root"}
    /\ Places(text)[m].in = Places(text)[n].in

\* After a key, a colon or a comma.
LEMMA OnSameLevel ==
    ASSUME NEW text \in Seq(STRING), NEW n \in 1 .. Len(text), NEW m,
           NEW open, NEW cs, NEW store, IsReadTo(text, n, open, cs, store), open # <<>>,
           SameLevel(text, n, m), DataTo(text, m) = DataTo(text, n),
           NEW next, NowNeeds(text, m, cs, next)
    PROVE  IsReadTo(text, m, open, next, store)
<1>0. n \in 1 .. Len(text) + 1 /\ m \in 1 .. Len(text) + 1
  BY DEF SameLevel
<1>1. /\ IsOpen(text, n, open) /\ AreCalls(cs, text, n, open)
      /\ AreBuilt(store, text, DataTo(text, n), Opened(open))
  BY DEF IsReadTo
<1>2. IsOpen(text, m, open)
  <2>1. Places(text)[n].due # "root"
    <3>1. 1 \in 1 .. Len(open)
      BY <1>0, <1>1, OpenAre
    <3>2. open[1] \in 1 .. n - 1
      BY <1>0, <1>1, <3>1, OpenAre
    <3>3. open[1] # 0
      BY <1>0, <3>2
    <3> QED BY <1>1, <3>3 DEF IsOpen
  <2> QED BY <1>0, <1>1, <2>1, OpenStays DEF SameLevel
<1>3. AreCalls(next, text, m, open)
  BY <1>0, <1>1, CallsStay
<1> QED BY <1>0, <1>1, <1>2, <1>3 DEF IsReadTo, IsAt, SameLevel

\* The innermost call and its object or array, where the place is in it.
IsInner(text, n, open, call) ==
    /\ open[1] \in DataTo(text, n) /\ open[1] \in 1 .. n - 1
    /\ Places(text)[n].in = open[1]
    /\ Places(text)[n].due # "root"
    /\ call.what = Kind(text, open[1])
    /\ call.data = Rank(DataTo(text, n), open[1])
    /\ call.key = KeyOf(text, Places(text)[n])
    /\ call.needs = Places(text)[n].due

\* In an object or array, it is the one that the first call reads.
LEMMA InnerCall ==
    ASSUME NEW text \in Seq(STRING), NEW n \in 1 .. Len(text) + 1,
           NEW open, NEW cs, NEW store, IsReadTo(text, n, open, cs, store), open # <<>>
    PROVE  /\ Len(cs) = Len(open) /\ Len(open) \in Nat /\ 1 \in 1 .. Len(open)
           /\ IsInner(text, n, open, cs[1])
<1>1. IsOpen(text, n, open) /\ AreCalls(cs, text, n, open)
  BY DEF IsReadTo
<1>2. Len(open) \in Nat /\ 1 \in 1 .. Len(open)
  BY <1>1, OpenAre
<1>3. open[1] \in DataTo(text, n) /\ open[1] \in 1 .. n - 1
  BY <1>1, <1>2, OpenAre
<1>4. Places(text)[n].in = open[1]
  BY <1>1 DEF IsOpen
<1>5. Places(text)[n].due # "root"
  <2>1. open[1] # 0
    BY <1>3
  <2> QED BY <1>1, <1>4, <2>1 DEF IsOpen
<1>6. Len(cs) = Len(open)
  BY <1>1 DEF AreCalls
<1>7. /\ cs[1].what = Kind(text, open[1])
      /\ cs[1].data = Rank(DataTo(text, n), open[1])
      /\ cs[1].key = KeyOf(text, Places(text)[n])
      /\ cs[1].needs = Places(text)[n].due
  <2> DEFINE at == Places(text)
             what(k) == Kind(text, open[k])
             d(k) == Rank(DataTo(text, n), open[k])
             key(k) == KeyOf(text, at[IF k = 1 THEN n ELSE open[k - 1]])
             needs(k) == IF k = 1 THEN at[n].due ELSE "more"
  <2>1. \A k \in 1 .. Len(open) : /\ cs[k].what = what(k) /\ cs[k].data = d(k)
                                  /\ cs[k].key = key(k) /\ cs[k].needs = needs(k)
    BY <1>1 DEF AreCalls
  <2>2. /\ key(1) = KeyOf(text, at[n]) /\ needs(1) = at[n].due
    OBVIOUS
  <2> HIDE DEF what, d, key, needs
  <2>3. cs[1].what = what(1) /\ cs[1].data = d(1) /\ cs[1].key = key(1) /\ cs[1].needs = needs(1)
    BY <1>2, <2>1
  <2> QED BY <2>2, <2>3 DEF what, d
<1> QED BY <1>2, <1>3, <1>4, <1>5, <1>6, <1>7 DEF IsInner

\* The node added last, and in a cell.
Adds(store, next, h, key, node) ==
    /\ Len(next) = Len(store) + 1 /\ next[Len(store) + 1] = node
    /\ \A k \in 1 .. Len(store) : /\ next[k].type = store[k].type
                                  /\ next[k].text = store[k].text
                                  /\ k # h => next[k].cells = store[k].cells
    /\ next[h].cells = Append(store[h].cells, [key |-> key, value |-> Len(store) + 1])

\* After a string or a boolean.
LEMMA OnLeaf ==
    ASSUME NEW text \in Seq(STRING), NEW n \in 1 .. Len(text), NEW m,
           NEW open, NEW cs, NEW store \in Seq(Node), IsReadTo(text, n, open, cs, store),
           open # <<>>,
           SameLevel(text, n, m), DataTo(text, m) = DataTo(text, n) \cup {n},
           NEW next, NowNeeds(text, m, cs, next),
           NEW node \in Node, node.type = Described(text, n).type,
           node.text = Described(text, n).text, node.cells = <<>>,
           NEW after, Adds(store, after, cs[1].data, cs[1].key, node)
    PROVE  IsReadTo(text, m, open, next, after)
<1> DEFINE at == Places(text)
           all == DataTo(text, n)
           more == all \cup {n}
           opened == Opened(open)
           mid == Append(store, node)
           h == cs[1].data
<1>0. n \in 1 .. Len(text) + 1 /\ m \in 1 .. Len(text) + 1
  BY DEF SameLevel
<1>1. IsOpen(text, n, open) /\ AreCalls(cs, text, n, open) /\ AreBuilt(store, text, all, opened)
  BY DEF IsReadTo
<1>2. /\ open[1] \in all /\ at[n].in = open[1]
      /\ h = Rank(all, open[1]) /\ cs[1].key = KeyOf(text, at[n])
      /\ open[1] \in 1 .. n - 1 /\ at[n].due # "root"
  <2>1. IsInner(text, n, open, cs[1])
    BY <1>0, InnerCall
  <2> QED BY <2>1 DEF IsInner
<1>3. all \in SUBSET (1 .. n - 1) /\ n - 1 \in Nat
  BY <1>0, DataIn
<1>4. IsOpen(text, m, open) /\ AreCalls(next, text, m, open)
  BY <1>0, <1>1, <1>2, OpenStays, CallsStay DEF SameLevel
<1>5. opened \subseteq all
  BY <1>0, <1>1, OpenAre
<1>6. \A q \in all : at[q].in # n
  <2> SUFFICES ASSUME NEW q \in all
               PROVE  at[q].in # n
    OBVIOUS
  <2>1. q \in 1 .. n - 1 /\ q \in 1 .. Len(text) + 1
    BY <1>0, <1>3
  <2>2. at[q].in \in 0 .. q - 1
    BY <2>1, PlaceIs
  <2> QED BY <2>1, <2>2
<1>7. at[n].in # n /\ n \notin all /\ n \notin opened
  BY <1>2, <1>3, <1>5
<1>8. /\ Len(mid) = Len(store) + 1 /\ mid[Len(store) + 1] = node
      /\ \A k \in 1 .. Len(store) : mid[k] = store[k]
      /\ mid \in Seq(Node) /\ Len(store) \in Nat
  OBVIOUS
<1> HIDE DEF mid
<1>9. AreBuilt(mid, text, more, opened \cup {n})
  BY <1>1, <1>3, <1>6, <1>7, <1>8, NodeOpened
<1>10. /\ Rank(more, n) = Cardinality(all) + 1 /\ Rank(more, open[1]) = Rank(all, open[1])
       /\ Cardinality(all) = Len(store) /\ Rank(all, open[1]) \in 1 .. Len(store)
  <2>1. Cardinality(all) = Len(store)
    BY <1>1 DEF AreBuilt
  <2> HIDE DEF all
  <2>2. n \in Nat \ {0}
    BY <1>0
  <2> QED BY <1>2, <1>3, <2>1, <2>2, RankMore, RankIn
<1>11. Links(mid, after, Rank(more, at[n].in),
             [key |-> KeyOf(text, at[n]), value |-> Rank(more, n)])
  <2> DEFINE cell == [key |-> cs[1].key, value |-> Len(store) + 1]
             same(k) == /\ after[k].type = mid[k].type /\ after[k].text = mid[k].text
                        /\ k # h => after[k].cells = mid[k].cells
  <2>1. /\ Len(after) = Len(store) + 1 /\ after[Len(store) + 1] = node
        /\ \A k \in 1 .. Len(store) : /\ after[k].type = store[k].type
                                      /\ after[k].text = store[k].text
                                      /\ k # h => after[k].cells = store[k].cells
        /\ after[h].cells = Append(store[h].cells, cell)
    BY DEF Adds
  <2>2. h = Rank(more, at[n].in) /\ h \in 1 .. Len(store)
    BY <1>2, <1>10
  <2>3. cell = [key |-> KeyOf(text, at[n]), value |-> Rank(more, n)]
    BY <1>2, <1>10
  <2> HIDE DEF h, cell
  <2>4. \A k \in 1 .. Len(store) : same(k)
    BY <1>8, <2>1
  <2>5. same(Len(store) + 1)
    BY <1>8, <2>1
  <2>6. \A k \in 1 .. Len(mid) : k \in 1 .. Len(store) \/ k = Len(store) + 1
    BY <1>8
  <2>7. after[h].cells = Append(mid[h].cells, cell)
    BY <1>8, <2>1, <2>2
  <2> HIDE DEF same
  <2>8. \A k \in 1 .. Len(mid) : same(k)
    BY <2>4, <2>5, <2>6
  <2>9. Len(after) = Len(mid)
    BY <1>8, <2>1
  <2>10. Links(mid, after, h, cell)
    BY <2>7, <2>8, <2>9 DEF Links, same
  <2> QED BY <2>2, <2>3, <2>10
<1>12. AreBuilt(after, text, more, (opened \cup {n}) \ {n})
  <2>1. more \in SUBSET (1 .. n) /\ n \in Nat /\ n \in more /\ n \in opened \cup {n}
    BY <1>0, <1>3
  <2>2. at[n].in \in more
    BY <1>2
  <2>3. \A q \in more : at[q].in = at[n].in => q <= n
    BY <2>1
  <2> HIDE DEF more, opened, at
  <2> QED BY <1>8, <1>9, <1>11, <2>1, <2>2, <2>3, NodeLinked DEF at
<1>13. (opened \cup {n}) \ {n} = opened
  BY <1>7
<1>14. AreBuilt(after, text, DataTo(text, m), Opened(open))
  BY <1>12, <1>13
<1> QED BY <1>0, <1>4, <1>14 DEF IsReadTo, IsAt, SameLevel

\* A call in front of the others, of which the one that calls needs more later.
CallsInto(cs, next, call) ==
    /\ Len(next) = Len(cs) + 1 /\ next[1] = call
    /\ Len(cs) > 0 => /\ next[2].what = cs[1].what /\ next[2].data = cs[1].data
                      /\ next[2].key = cs[1].key /\ next[2].needs = "more"
    /\ \A k \in 2 .. Len(cs) : next[k + 1] = cs[k]

\* After a brace or bracket that begins an object or array.
LEMMA OnBegin ==
    ASSUME NEW text \in Seq(STRING), NEW n \in 1 .. Len(text), NEW m, m = n + 1,
           NEW open, NEW cs, NEW store, IsReadTo(text, n, open, cs, store),
           Opens(text, n), SupportedTo(text, m),
           Places(text)[m] = Place(n, 0, 0, Item(text, n)),
           DataTo(text, m) = DataTo(text, n) \cup {n},
           NEW node, node.type = Described(text, n).type,
           node.text = Described(text, n).text, node.cells = <<>>,
           NEW after, Len(after) = Len(store) + 1, after[Len(store) + 1] = node,
           \A k \in 1 .. Len(store) : after[k] = store[k],
           NEW call, call.what = Kind(text, n),
           call.data = Len(store) + 1, call.key = NULL, call.needs = Item(text, n),
           NEW next, CallsInto(cs, next, call)
    PROVE  IsReadTo(text, m, <<n>> \o open, next, after)
<1> DEFINE at == Places(text)
           all == DataTo(text, n)
           more == all \cup {n}
           grown == <<n>> \o open
<1>0. n \in 1 .. Len(text) + 1 /\ m \in 1 .. Len(text) + 1 /\ n # 0
  OBVIOUS
<1>1. /\ IsOpen(text, n, open) /\ AreCalls(cs, text, n, open)
      /\ AreBuilt(store, text, all, Opened(open))
  BY DEF IsReadTo
<1>2. at[n].quote = 0
  BY DEF IsReadTo, IsAt
<1>3. /\ at[m].in = n /\ at[m].quote = 0 /\ at[m].key = 0 /\ at[m].due = Item(text, n)
      /\ at[m].due \in {"key", "element"}
  <2>1. at[m].in = n /\ at[m].quote = 0 /\ at[m].key = 0 /\ at[m].due = Item(text, n)
    BY DEF Place
  <2>2. Item(text, n) \in {"key", "element"}
    BY DEF Item
  <2> QED BY <2>1, <2>2
<1>4. IsOpen(text, m, grown)
  BY <1>1, <1>2, <1>3, OpenGrows
<1>5. all \in SUBSET (1 .. n - 1) /\ n - 1 \in Nat /\ n \in Nat \ {0}
  BY <1>0, DataIn
<1>6. /\ Rank(more, n) = Cardinality(all) + 1 /\ \A q \in all : Rank(more, q) = Rank(all, q)
      /\ Cardinality(all) = Len(store)
  <2>1. Cardinality(all) = Len(store)
    BY <1>1 DEF AreBuilt
  <2> HIDE DEF all
  <2> QED BY <1>5, <2>1, RankMore
<1>7. /\ Len(open) \in Nat /\ Len(cs) = Len(open)
      /\ \A k \in 1 .. Len(open) : open[k] \in all
  BY <1>0, <1>1, OpenAre DEF AreCalls
<1>8. /\ Len(grown) = Len(open) + 1 /\ grown[1] = n
      /\ \A k \in 2 .. Len(open) + 1 : grown[k] = open[k - 1]
      /\ Opened(grown) = Opened(open) \cup {n}
  <2>1. n \in more /\ open \in Seq(more)
    <3>1. open \in Seq(all)
      BY <1>1 DEF IsOpen
    <3> HIDE DEF all
    <3> QED BY <3>1
  <2> HIDE DEF more
  <2>2. /\ Len(grown) = Len(open) + 1 /\ grown[1] = n
        /\ \A k \in 2 .. Len(open) + 1 : grown[k] = open[k - 1]
    BY <2>1, PutBefore
  <2> HIDE DEF grown
  <2>3. ASSUME NEW q \in Opened(grown)
        PROVE  q \in Opened(open) \cup {n}
    <3>1. PICK k \in 1 .. Len(grown) : q = grown[k]
      BY DEF Opened
    <3>2. CASE k = 1
      BY <2>2, <3>1, <3>2
    <3>3. CASE k # 1
      <4>1. k \in 2 .. Len(open) + 1 /\ k - 1 \in 1 .. Len(open)
        BY <1>7, <2>2, <3>3
      <4>2. q = open[k - 1]
        BY <2>2, <3>1, <4>1
      <4> QED BY <4>1, <4>2 DEF Opened
    <3> QED BY <3>2, <3>3
  <2>4. ASSUME NEW q \in Opened(open)
        PROVE  q \in Opened(grown)
    <3>1. PICK k \in 1 .. Len(open) : q = open[k]
      BY DEF Opened
    <3>2. k + 1 \in 2 .. Len(open) + 1 /\ k + 1 \in 1 .. Len(grown) /\ (k + 1) - 1 = k
      BY <1>7, <2>2
    <3>3. q = grown[k + 1]
      BY <2>2, <3>1, <3>2
    <3> QED BY <3>2, <3>3 DEF Opened
  <2>5. n \in Opened(grown)
    <3>1. 1 \in 1 .. Len(grown)
      BY <1>7, <2>2
    <3> QED BY <2>2, <3>1 DEF Opened
  <2> QED BY <2>2, <2>3, <2>4, <2>5
<1> HIDE DEF grown
<1>9. AreCalls(next, text, m, grown)
  <2> DEFINE key(k) == KeyOf(text, at[IF k = 1 THEN m ELSE grown[k - 1]])
             needs(k) == IF k = 1 THEN at[m].due ELSE "more"
             d(p) == Rank(more, p)
             fits(k) == /\ next[k].what = Kind(text, grown[k]) /\ next[k].data = d(grown[k])
                        /\ next[k].key = key(k) /\ next[k].needs = needs(k)
             oldkey(k) == KeyOf(text, at[IF k = 1 THEN n ELSE open[k - 1]])
             olddata(p) == Rank(all, p)
  <2>1. fits(1)
    <3>1. next[1] = call
      BY DEF CallsInto
    <3>2. call.what = Kind(text, n) /\ call.data = d(n)
      BY <1>6
    <3>3. key(1) = NULL /\ needs(1) = at[m].due
      BY <1>3 DEF KeyOf
    <3> HIDE DEF d, key, needs
    <3> QED BY <1>3, <1>8, <3>1, <3>2, <3>3
  <2>2. ASSUME NEW k \in 1 .. Len(open)
        PROVE  /\ cs[k].what = Kind(text, open[k]) /\ cs[k].data = olddata(open[k])
               /\ cs[k].key = oldkey(k)
    BY <1>1 DEF AreCalls
  <2>3. \A k \in 1 .. Len(open) : d(open[k]) = olddata(open[k])
    BY <1>6, <1>7
  <2>4. ASSUME NEW j \in 1 .. Len(open), NEW k, k = j + 1
        PROVE  fits(k)
    <3>1. /\ k \in 2 .. Len(open) + 1 /\ k # 1 /\ k - 1 = j
          /\ j # 1 => j \in 2 .. Len(cs)
      BY <1>7, <2>4
    <3>2. grown[k] = open[j] /\ needs(k) = "more"
      BY <1>8, <3>1
    <3>3. key(k) = oldkey(j)
      <4>1. (IF k = 1 THEN m ELSE grown[k - 1]) = grown[j]
        BY <3>1
      <4>2. grown[j] = IF j = 1 THEN n ELSE open[j - 1]
        <5>1. CASE j = 1
          BY <1>8, <5>1
        <5>2. CASE j # 1
          <6>1. j \in 2 .. Len(open) + 1
            BY <1>7, <3>1, <5>2
          <6> QED BY <1>8, <5>2, <6>1
        <5> QED BY <5>1, <5>2
      <4> QED BY <4>1, <4>2
    <3>4. /\ next[k].what = cs[j].what /\ next[k].data = cs[j].data /\ next[k].key = cs[j].key
          /\ next[k].needs = "more"
      <4>1. CASE j = 1
        <5>1. k = 2 /\ Len(cs) > 0
          BY <1>7, <2>4, <4>1
        <5> QED BY <4>1, <5>1 DEF CallsInto
      <4>2. CASE j # 1
        <5>1. j \in 2 .. Len(cs)
          BY <3>1, <4>2
        <5>2. next[j + 1] = cs[j]
          BY <5>1 DEF CallsInto
        <5>3. next[k] = cs[j]
          BY <2>4, <5>2
        <5>4. cs[j].needs = "more"
          BY <1>1, <4>2 DEF AreCalls
        <5> QED BY <5>3, <5>4
      <4> QED BY <4>1, <4>2
    <3>5. /\ cs[j].what = Kind(text, open[j]) /\ cs[j].data = olddata(open[j])
          /\ cs[j].key = oldkey(j)
      BY <2>2
    <3>6. d(open[j]) = olddata(open[j])
      BY <2>3
    <3> HIDE DEF d, olddata, key, oldkey, needs
    <3> QED BY <3>2, <3>3, <3>4, <3>5, <3>6
  <2>5. ASSUME NEW k \in 1 .. Len(grown)
        PROVE  fits(k)
    <3>1. CASE k = 1
      BY <2>1, <3>1
    <3>2. CASE k # 1
      <4> DEFINE j == k - 1
      <4>1. j \in 1 .. Len(open) /\ k = j + 1
        BY <1>7, <1>8, <3>2
      <4> HIDE DEF j, fits
      <4> QED BY <2>4, <4>1
    <3> QED BY <3>1, <3>2
  <2>6. Len(next) = Len(grown)
    BY <1>7, <1>8 DEF CallsInto
  <2> QED BY <2>5, <2>6 DEF AreCalls
<1>10. AreBuilt(after, text, more, Opened(grown))
  <2>1. \A q \in all : at[q].in # n
    <3> SUFFICES ASSUME NEW q \in all
                 PROVE  at[q].in # n
      OBVIOUS
    <3>1. q \in 1 .. n - 1 /\ q \in 1 .. Len(text) + 1
      BY <1>0, <1>5
    <3>2. at[q].in \in 0 .. q - 1
      BY <3>1, PlaceIs
    <3> QED BY <3>1, <3>2
  <2>2. at[n].in # n
    <3>1. at[n].in \in 0 .. n - 1
      BY <1>0, PlaceIs
    <3> QED BY <3>1
  <2>3. AreBuilt(after, text, more, Opened(open) \cup {n})
    BY <1>1, <1>5, <2>1, <2>2, NodeOpened
  <2> QED BY <1>8, <2>3
<1>11. IsReadTo(text, m, grown, next, after)
  BY <1>0, <1>3, <1>4, <1>9, <1>10 DEF IsReadTo, IsAt
<1> QED BY <1>11 DEF grown

\* The calls that are left are those that called.
CallsOut(cs, next) ==
    /\ Len(next) = Len(cs) - 1
    /\ \A k \in 1 .. Len(cs) - 1 : next[k] = cs[k + 1]

\* After a brace or bracket that ends what is not the root.
LEMMA OnReturn ==
    ASSUME NEW text \in Seq(STRING), NEW n \in 1 .. Len(text), NEW m, m = n + 1,
           NEW open, NEW cs, NEW store \in Seq(Node), IsReadTo(text, n, open, cs, store),
           open # <<>>, SupportedTo(text, m),
           Places(text)[m] = AfterClosed(Places(text)[open[1]]),
           Places(text)[m].due # "nothing",
           DataTo(text, m) = DataTo(text, n),
           NEW next, CallsOut(cs, next),
           NEW after, Links(store, after, cs[2].data, [key |-> cs[2].key, value |-> cs[1].data])
    PROVE  Len(open) > 1 /\ IsReadTo(text, m, Tail(open), next, after)
<1> DEFINE at == Places(text)
           all == DataTo(text, n)
           left == Tail(open)
<1>0. n \in 1 .. Len(text) + 1 /\ m \in 1 .. Len(text) + 1 /\ Len(text) \in Nat
  OBVIOUS
<1>1. /\ IsOpen(text, n, open) /\ AreCalls(cs, text, n, open)
      /\ AreBuilt(store, text, all, Opened(open))
  BY DEF IsReadTo
<1>2. Len(open) > 1 /\ IsOpen(text, m, left)
  BY <1>1, OpenShrinks
<1>3. /\ Len(open) \in Nat /\ Len(cs) = Len(open) /\ 1 \in 1 .. Len(open) /\ 2 \in 1 .. Len(open)
      /\ \A k \in 1 .. Len(open) : open[k] \in all
  BY <1>0, <1>1, <1>2, OpenAre DEF AreCalls
<1>4. /\ Len(left) = Len(open) - 1 /\ \A k \in 1 .. Len(open) - 1 : left[k] = open[k + 1]
  <2>1. open \in Seq(all)
    BY <1>1 DEF IsOpen
  <2> HIDE DEF all
  <2> QED BY <2>1, LeftOf
<1> HIDE DEF left
<1>5. at[m].due = "more" /\ at[m].key = at[open[1]].key /\ at[m].quote = at[open[1]].quote
  BY DEF AfterClosed, Place
<1>6. at[open[1]].in = open[2] /\ at[open[1]].quote = 0
  <2>1. at[open[1]].in = (IF 1 = Len(open) THEN 0 ELSE open[1 + 1]) /\ at[open[1]].quote = 0
    BY <1>1, <1>3 DEF IsOpen
  <2>2. 1 # Len(open) /\ 1 + 1 = 2
    BY <1>2, <1>3
  <2> QED BY <2>1, <2>2
<1>7. IsInner(text, n, open, cs[1])
  BY <1>0, InnerCall
<1>8. \A k \in 1 .. Len(open) - 1 :
         /\ cs[k + 1].what = Kind(text, open[k + 1])
         /\ cs[k + 1].data = Rank(all, open[k + 1])
         /\ cs[k + 1].key = KeyOf(text, at[open[k]])
         /\ cs[k + 1].needs = "more"
  <2> SUFFICES ASSUME NEW k \in 1 .. Len(open) - 1
               PROVE  /\ cs[k + 1].what = Kind(text, open[k + 1])
                      /\ cs[k + 1].data = Rank(all, open[k + 1])
                      /\ cs[k + 1].key = KeyOf(text, at[open[k]])
                      /\ cs[k + 1].needs = "more"
    OBVIOUS
  <2> DEFINE i == k + 1
  <2>1. i \in 1 .. Len(open) /\ i # 1 /\ i - 1 = k
    BY <1>3
  <2> HIDE DEF i
  <2>2. /\ cs[i].what = Kind(text, open[i]) /\ cs[i].data = Rank(all, open[i])
        /\ cs[i].key = KeyOf(text, at[IF i = 1 THEN n ELSE open[i - 1]])
        /\ cs[i].needs = IF i = 1 THEN at[n].due ELSE "more"
    BY <1>1, <2>1 DEF AreCalls
  <2>3. cs[i].key = KeyOf(text, at[open[k]]) /\ cs[i].needs = "more"
    BY <2>1, <2>2
  <2> QED BY <2>2, <2>3 DEF i
<1>9. AreCalls(next, text, m, left)
  <2>1. ASSUME NEW k \in 1 .. Len(left)
        PROVE  /\ next[k].what = Kind(text, left[k])
               /\ next[k].data = Rank(all, left[k])
               /\ next[k].key = KeyOf(text, at[IF k = 1 THEN m ELSE left[k - 1]])
               /\ next[k].needs = IF k = 1 THEN at[m].due ELSE "more"
    <3>1. k \in 1 .. Len(open) - 1 /\ k \in 1 .. Len(cs) - 1
      BY <1>3, <1>4
    <3>2. next[k] = cs[k + 1] /\ left[k] = open[k + 1]
      BY <1>4, <3>1 DEF CallsOut
    <3>3. /\ next[k].what = Kind(text, left[k]) /\ next[k].data = Rank(all, left[k])
          /\ next[k].key = KeyOf(text, at[open[k]]) /\ next[k].needs = "more"
      BY <1>8, <3>1, <3>2
    <3>4. KeyOf(text, at[open[k]]) = KeyOf(text, at[IF k = 1 THEN m ELSE left[k - 1]])
      <4>1. CASE k = 1
        BY <1>5, <4>1 DEF KeyOf
      <4>2. CASE k # 1
        <5>1. k - 1 \in 1 .. Len(open) - 1 /\ (k - 1) + 1 = k
          BY <1>3, <3>1, <4>2
        <5>2. left[k - 1] = open[k]
          BY <1>4, <5>1
        <5> QED BY <4>2, <5>2
      <4> QED BY <4>1, <4>2
    <3>5. (IF k = 1 THEN at[m].due ELSE "more") = "more"
      BY <1>5
    <3> HIDE DEF at, all
    <3>6. next[k].key = KeyOf(text, at[IF k = 1 THEN m ELSE left[k - 1]])
      BY <3>3, <3>4
    <3>7. next[k].needs = IF k = 1 THEN at[m].due ELSE "more"
      BY <3>3, <3>5
    <3> QED BY <3>3, <3>6, <3>7
  <2>2. Len(next) = Len(left)
    BY <1>3, <1>4 DEF CallsOut
  <2> QED BY <2>1, <2>2 DEF AreCalls
<1>10. Opened(open) \ {open[1]} = Opened(left)
  <2>1. \A k \in 2 .. Len(open) : open[k] # open[1]
    <3> SUFFICES ASSUME NEW k \in 2 .. Len(open)
                 PROVE  open[k] # open[1]
      OBVIOUS
    <3>1. k \in 1 .. Len(open) /\ 1 \in 1 .. k - 1
      BY <1>3
    <3>2. open[k] < open[1]
      BY <1>1, <3>1 DEF IsOpen
    <3>3. open[k] \in 1 .. n - 1
      BY <1>0, <1>1, <3>1, OpenAre
    <3> QED BY <3>2, <3>3
  <2>2. ASSUME NEW q \in Opened(open), q # open[1]
        PROVE  q \in Opened(left)
    <3>1. PICK k \in 1 .. Len(open) : q = open[k]
      BY DEF Opened
    <3>2. k - 1 \in 1 .. Len(open) - 1 /\ (k - 1) + 1 = k /\ k - 1 \in 1 .. Len(left)
      <4>1. k # 1
        BY <2>2, <3>1
      <4> QED BY <1>3, <1>4, <4>1
    <3>3. q = left[k - 1]
      BY <1>4, <3>1, <3>2
    <3> QED BY <3>2, <3>3 DEF Opened
  <2>3. ASSUME NEW q \in Opened(left)
        PROVE  q \in Opened(open) /\ q # open[1]
    <3>1. PICK k \in 1 .. Len(left) : q = left[k]
      BY DEF Opened
    <3>2. k \in 1 .. Len(open) - 1 /\ k + 1 \in 2 .. Len(open) /\ k + 1 \in 1 .. Len(open)
      BY <1>3, <1>4
    <3>3. q = open[k + 1]
      BY <1>4, <3>1, <3>2
    <3> QED BY <2>1, <3>2, <3>3 DEF Opened
  <2> QED BY <2>2, <2>3
<1>11. AreBuilt(after, text, all, Opened(left))
  <2> DEFINE p == open[1]
  <2>1. all \in SUBSET (1 .. Len(text))
    BY <1>0, DataIn
  <2>2. p \in all /\ p \in Opened(open) /\ at[p].in \in all
    BY <1>3, <1>6 DEF Opened
  <2>3. \A q \in all : at[q].in = at[p].in => q <= p
    BY <1>1, <1>3 DEF IsOpen
  <2>4. cs[2].data = Rank(all, open[2]) /\ cs[2].key = KeyOf(text, at[p])
    <3>1. 1 \in 1 .. Len(open) - 1 /\ 1 + 1 = 2
      BY <1>2, <1>3
    <3> QED BY <1>8, <3>1
  <2>5. cs[1].data = Rank(all, p)
    BY <1>7 DEF IsInner
  <2>6. Links(store, after, Rank(all, at[p].in),
              [key |-> KeyOf(text, at[p]), value |-> Rank(all, p)])
    BY <1>6, <2>4, <2>5
  <2>7. AreBuilt(after, text, all, Opened(open) \ {p})
    <3> HIDE DEF all, p, at
    <3> QED BY <1>0, <1>1, <2>1, <2>2, <2>3, <2>6, NodeLinked DEF at
  <2> QED BY <1>10, <2>7
<1>12. IsReadTo(text, m, left, next, after)
  BY <1>0, <1>2, <1>5, <1>6, <1>9, <1>11 DEF IsReadTo, IsAt
<1> QED BY <1>2, <1>12 DEF left

\* After the brace that ends the root: all that is described is built.
LEMMA OnEnd ==
    ASSUME NEW text \in Seq(STRING), NEW n \in 1 .. Len(text), NEW m, m = n + 1,
           NEW open, NEW cs, NEW store, IsReadTo(text, n, open, cs, store),
           open # <<>>, SupportedTo(text, m),
           Places(text)[m] = AfterClosed(Places(text)[open[1]]),
           Places(text)[m].due = "nothing",
           DataTo(text, m) = DataTo(text, n)
    PROVE  Len(open) = 1 /\ cs[1].data = 1 /\ Supported(text) /\ AreDescribed(store, text)
<1> DEFINE at == Places(text)
           all == DataTo(text, n)
           root == open[1]
           end == Len(text) + 1
<1>0. /\ n \in 1 .. Len(text) + 1 /\ m \in 1 .. Len(text) + 1 /\ Len(text) \in Nat
      /\ end \in m .. Len(text) + 1 /\ end \in 1 .. Len(text) + 1
  OBVIOUS
<1>1. IsOpen(text, n, open) /\ AreBuilt(store, text, all, Opened(open))
  BY DEF IsReadTo
<1>2. Len(open) \in Nat /\ 1 \in 1 .. Len(open) /\ IsInner(text, n, open, cs[1])
  BY <1>0, InnerCall
<1>3. root \in all /\ root \in 1 .. n - 1
  BY <1>2 DEF IsInner
<1>4. at[root].due = "root"
  BY DEF AfterClosed, Place
<1>5. at[root].in = 0
  BY <1>1, <1>2, <1>4 DEF IsOpen
<1>6. Len(open) = 1
  <2> SUFFICES ASSUME Len(open) # 1
               PROVE  FALSE
    OBVIOUS
  <2>0. Len(open) > 1 /\ 1 + 1 = 2
    <3>1. Len(open) \in Nat /\ Len(open) > 0
      BY <1>2
    <3> QED BY <3>1, AboveOne
  <2>1. 2 \in 1 .. Len(open) /\ 1 + 1 = 2
    BY <1>2, <2>0
  <2>2. at[root].in = open[2]
    BY <1>1, <1>2, <2>1 DEF IsOpen
  <2>3. open[2] \in 1 .. n - 1
    BY <1>0, <1>1, <2>1, OpenAre
  <2> QED BY <1>5, <2>2, <2>3
<1>7. cs[1].data = 1
  <2>1. cs[1].data = Rank(all, root)
    BY <1>2 DEF IsInner
  <2>2. \A q \in all : root <= q
    BY <1>1, <1>6 DEF IsOpen
  <2>3. all \in SUBSET (1 .. Len(text))
    BY <1>0, DataIn
  <2>4. {r \in all : r <= root} = {root}
    <3> HIDE DEF all, root
    <3>1. ASSUME NEW r \in all
          PROVE  r <= root <=> r = root
      <4>1. r \in Int /\ root \in Int /\ root <= r
        BY <1>3, <2>2, <2>3
      <4> QED BY <4>1
    <3> QED BY <1>3, <3>1
  <2>5. Cardinality({root}) = 1
    BY FS_Singleton
  <2> QED BY <2>1, <2>4, <2>5 DEF Rank
<1>8. \A r \in m .. end : at[r] = at[m]
  <2>1. \A r \in m .. end - 1 : Stays(at[m], text[r])
    BY DEF Stays
  <2> QED BY <1>0, <2>1, PlaceStays
<1>9. \A r \in m .. end : ~IsDatum(text, at[r], r) /\ SupportedAt(text, at[r], r)
  <2>1. \A r \in m .. end : at[r].due = "nothing"
    BY <1>8
  <2> QED BY <2>1 DEF IsDatum, SupportedAt
<1>10. all = Data(text)
  <2>1. \A r \in m .. end - 1 : ~IsDatum(text, at[r], r)
    BY <1>0, <1>9
  <2>2. DataTo(text, end) = all
    BY <1>0, <2>1, DataSame
  <2>3. \A q \in Data(text) : q < end
    BY <1>0 DEF Data
  <2>4. DataTo(text, end) = Data(text)
    BY <2>3 DEF DataTo
  <2> QED BY <2>2, <2>4
<1>11. Supported(text)
  <2>1. \A r \in m .. end - 1 : SupportedAt(text, at[r], r)
    BY <1>0, <1>9
  <2>2. SupportedTo(text, end)
    BY <1>0, <2>1, SupportedMore
  <2>3. \A p \in 1 .. Len(text) : p \in 1 .. end - 1
    BY <1>0
  <2>4. \A p \in 1 .. Len(text) : SupportedAt(text, at[p], p)
    BY <2>2, <2>3 DEF SupportedTo
  <2>5. at[Len(text) + 1].due = "nothing"
    BY <1>0, <1>8
  <2> QED BY <2>4, <2>5 DEF Supported
<1>12. AreDescribed(store, text)
  <2>1. \A p \in all : Within(text, p) = StoredIn(text, all, Opened(open), p)
    <3> SUFFICES ASSUME NEW p \in all
                 PROVE  Within(text, p) = StoredIn(text, all, Opened(open), p)
      OBVIOUS
    <3>1. Opened(open) = {root}
      BY <1>6 DEF Opened
    <3>2. p # 0
      <4>1. p \in 1 .. n - 1
        BY <1>0, DataIn
      <4> QED BY <4>1
    <3>3. Within(text, p) = {q \in all : at[q].in = p}
      BY <1>10 DEF Within
    <3>4. root \notin {q \in all : at[q].in = p}
      BY <1>5, <3>2
    <3> QED BY <3>1, <3>3, <3>4 DEF StoredIn
  <2>2. Len(store) = Cardinality(all) /\ \A p \in all : NodeIs(store, text, all, Opened(open), p)
    BY <1>1 DEF AreBuilt
  <2> HIDE DEF all
  <2> QED BY <1>10, <2>1, <2>2 DEF AreDescribed, NodeIs
<1> QED BY <1>6, <1>7, <1>11, <1>12

(***************************************************************************)
(* Up to the end of the token at p.                                        *)
(***************************************************************************)
LEMMA Passed ==
    ASSUME NEW text \in Seq(STRING), NEW p \in 1 .. Len(text), NEW m \in p + 1 .. Len(text) + 1,
           SupportedTo(text, p), SupportedAt(text, Places(text)[p], p),
           \A r \in p + 1 .. m - 1 : ~Counts(text, Places(text)[r], r)
    PROVE  /\ SupportedTo(text, m)
           /\ IsDatum(text, Places(text)[p], p) => DataTo(text, m) = DataTo(text, p) \cup {p}
           /\ ~IsDatum(text, Places(text)[p], p) => DataTo(text, m) = DataTo(text, p)
<1> DEFINE at == Places(text)
<1>1. p \in 1 .. Len(text) + 1 /\ m \in p .. Len(text) + 1
  OBVIOUS
<1>2. \A r \in p .. m - 1 : r = p \/ r \in p + 1 .. m - 1
  OBVIOUS
<1>3. \A r \in p + 1 .. m - 1 : ~IsDatum(text, at[r], r) /\ SupportedAt(text, at[r], r)
  BY OnlyCountedAre
<1>4. SupportedTo(text, m)
  <2>1. \A r \in p .. m - 1 : SupportedAt(text, at[r], r)
    BY <1>2, <1>3
  <2> QED BY <1>1, <2>1, SupportedMore
<1>5. ASSUME IsDatum(text, at[p], p)
      PROVE  DataTo(text, m) = DataTo(text, p) \cup {p}
  BY <1>3, <1>5, DataMore
<1>6. ASSUME ~IsDatum(text, at[p], p)
      PROVE  DataTo(text, m) = DataTo(text, p)
  <2>1. \A r \in p .. m - 1 : ~IsDatum(text, at[r], r)
    BY <1>2, <1>3, <1>6
  <2> QED BY <1>1, <2>1, DataSame
<1> QED BY <1>4, <1>5, <1>6

\* The token at p is the next one.
ReadsAt(open, p) ==
    /\ json_p \in 1 .. Len(json) + 1 /\ p = Here /\ p \in 1 .. Len(json)
    /\ Counts(json, Places(json)[p], p) /\ Char(p) = json[p]
    /\ IsReadTo(json, p, open, calls, nodes)

\* There is a next token, or the text ends too early.
LEMMA TokenAt ==
    ASSUME IInv, NEW open, IsReadTo(json, json_p, open, calls, nodes)
    PROVE  /\ json_p \in 1 .. Len(json) + 1 /\ Here \in 1 .. Len(json) + 1
           /\ IsReadTo(json, Here, open, calls, nodes)
           /\ Here <= Len(json) => ReadsAt(open, Here)
           /\ Here > Len(json) => Char(Here) = NUL /\ ~Supported(json)
<1>1. json \in Seq(STRING) /\ NUL \notin STRING /\ Len(json) \in Nat
  BY Facts
<1>2. json_p \in 1 .. Len(json) + 1
  BY DEF IsReadTo, IsAt
<1>3. /\ Here \in json_p .. Len(json) + 1 /\ Here \in 1 .. Len(json) + 1
      /\ \A r \in json_p .. Here - 1 : json[r] = SPACE
      /\ Here <= Len(json) => Char(Here) = json[Here] /\ json[Here] # SPACE
      /\ Here > Len(json) => Char(Here) = NUL
  BY <1>1, <1>2, HereIs
<1> DEFINE p == Here
<1> HIDE DEF p
<1>4. p = Here
  BY DEF p
<1>5. IsReadTo(json, p, open, calls, nodes)
  BY <1>1, <1>2, <1>3, <1>4, OverSpaces
<1>6. ASSUME p <= Len(json)
      PROVE  ReadsAt(open, p)
  <2>1. p \in 1 .. Len(json)
    BY <1>1, <1>3, <1>4, <1>6
  <2>2. Places(json)[p].quote = 0
    BY <1>5 DEF IsReadTo, IsAt
  <2> QED BY <1>2, <1>3, <1>4, <1>5, <1>6, <2>1, <2>2 DEF ReadsAt, Counts
<1>7. ASSUME p > Len(json)
      PROVE  ~Supported(json)
  <2>1. p = Len(json) + 1
    BY <1>1, <1>3, <1>4, <1>7
  <2>2. Places(json)[p].due # "nothing"
    BY <1>5 DEF IsReadTo, IsAt
  <2> QED BY <2>1, <2>2 DEF Supported
<1> QED BY <1>2, <1>3, <1>4, <1>5, <1>6, <1>7

\* After a string, or at the end where it has none.
LEMMA StringRead ==
    ASSUME IInv, NEW open, NEW p, ReadsAt(open, p), json[p] = QUOTE
    PROVE  LET before == Places(json)[p] IN
           /\ Tok.type = "STRING"
           /\ Tok.value # JUNK =>
                 /\ Tok.next \in p + 1 .. Len(json) + 1
                 /\ Places(json)[Tok.next] =
                       AfterString(Place(before.in, p, before.key, before.due))
                 /\ Tok.value = Quoted(json, p)
                 /\ \A r \in p + 1 .. Tok.next - 1 : ~Counts(json, Places(json)[r], r)
           /\ Tok.value = JUNK => ~Supported(json)
<1> DEFINE before == Places(json)[p]
           within == Place(before.in, p, before.key, before.due)
<1>1. json \in Seq(STRING) /\ NUL \notin STRING /\ Len(json) \in Nat /\ JUNK \notin Seq(STRING)
  BY Facts, TextsAssumption
<1>2. p \in 1 .. Len(json) /\ Counts(json, before, p) /\ p = Here
      /\ IsReadTo(json, p, open, calls, nodes) /\ Char(p) = QUOTE
  BY DEF ReadsAt
<1>3. before.due # "nothing"
  BY <1>2 DEF IsReadTo, IsAt
<1>4. Tok = parse_string(p + 1)
  <2>1. json_p \in 1 .. Len(json) + 1
    BY DEF ReadsAt
  <2> QED BY <1>1, <1>2, <2>1, TokenIs
<1>5. PICK end \in p + 1 .. Len(json) + 1 :
              /\ \A r \in p + 1 .. end - 1 : json[r] # QUOTE
              /\ Tok.type = "STRING" /\ Tok.next = end + 1
              /\ end <= Len(json) => json[end] = QUOTE /\ Tok.value = SubSeq(json, p + 1, end - 1)
              /\ end > Len(json) => Tok.value = JUNK
              /\ Tok.value # JUNK <=> end <= Len(json)
  BY <1>1, <1>2, <1>4, StringIs
<1>6. /\ \A r \in p + 1 .. end : Places(json)[r] = within
      /\ end <= Len(json) /\ json[end] = QUOTE =>
                    /\ Places(json)[end + 1] = AfterString(within)
                    /\ Quoted(json, p) = SubSeq(json, p + 1, end - 1)
  BY <1>1, <1>2, <1>3, <1>5, PlaceInString
<1>7. within.quote = p /\ within.due = before.due /\ p # 0
  BY <1>2 DEF Place
<1> HIDE DEF within
<1>8. ASSUME Tok.value # JUNK
      PROVE  /\ Tok.next \in p + 1 .. Len(json) + 1
             /\ Places(json)[Tok.next] = AfterString(within)
             /\ Tok.value = Quoted(json, p)
             /\ \A r \in p + 1 .. Tok.next - 1 : ~Counts(json, Places(json)[r], r)
  <2>1. end <= Len(json) /\ Tok.next = end + 1
    BY <1>5, <1>8
  <2>2. Tok.next \in p + 1 .. Len(json) + 1 /\ Tok.next - 1 = end
    BY <1>1, <1>2, <2>1
  <2>3. /\ Places(json)[end + 1] = AfterString(within)
        /\ Quoted(json, p) = SubSeq(json, p + 1, end - 1)
    BY <1>5, <1>6, <2>1
  <2>4. \A r \in p + 1 .. end : ~Counts(json, Places(json)[r], r)
    BY <1>6, <1>7 DEF Counts
  <2> QED BY <1>5, <2>1, <2>2, <2>3, <2>4
<1>9. ASSUME Tok.value = JUNK
      PROVE  ~Supported(json)
  <2>1. end = Len(json) + 1 /\ end \in p + 1 .. end
    BY <1>1, <1>2, <1>5, <1>9
  <2>2. Places(json)[Len(json) + 1].due # "nothing"
    BY <1>3, <1>6, <1>7, <2>1
  <2> QED BY <2>2 DEF Supported
<1> QED BY <1>5, <1>8, <1>9 DEF within

\* What the type of a token says of its first character.
LEMMA TypeAt ==
    ASSUME IInv, NEW open, NEW p, ReadsAt(open, p)
    PROVE  /\ Tok.type \in AllTypes
           /\ Tok.type = "BRACE_LEFT" <=> json[p] = "{"
           /\ Tok.type = "BRACE_RIGHT" <=> json[p] = "}"
           /\ Tok.type = "BRACKET_LEFT" <=> json[p] = "["
           /\ Tok.type = "BRACKET_RIGHT" <=> json[p] = "]"
           /\ Tok.type = "COLON" <=> json[p] = ":"
           /\ Tok.type = "COMMA" <=> json[p] = ","
           /\ Tok.type = "STRING" <=> json[p] = QUOTE
           /\ Tok.type = "BOOLEAN" <=>
                 json[p] \in Words /\ (p < Len(json) => json[p + 1] \notin Letters)
<1>1. json \in Seq(STRING) /\ NUL \notin STRING /\ JUNK \notin Seq(STRING) /\ Len(json) \in Nat
  BY Facts, TextsAssumption
<1>2. p = Here /\ p \in 1 .. Len(json) /\ Char(p) = json[p] /\ json_p \in 1 .. Len(json) + 1
  BY DEF ReadsAt
<1>3. Char(p + 1) \notin Letters <=> (p < Len(json) => json[p + 1] \notin Letters)
  <2>1. CASE p < Len(json)
    BY <1>1, <1>2, <2>1 DEF Char
  <2>2. CASE ~(p < Len(json))
    <3>1. Char(p + 1) = NUL
      BY <1>1, <1>2, <2>2 DEF Char
    <3> QED BY <2>2, <3>1, CharsAssumption
  <2> QED BY <2>1, <2>2
<1> QED BY <1>1, <1>2, <1>3, TypeMeans

\* What a token of one character, or a boolean, leaves behind.
LEMMA MarkRead ==
    ASSUME IInv, NEW open, NEW p, ReadsAt(open, p),
           json[p] \in DOMAIN Mark \/ Tok.type = "BOOLEAN"
    PROVE  /\ Tok.next = p + 1 /\ p + 1 \in p + 1 .. Len(json) + 1
           /\ \A r \in p + 1 .. p + 1 - 1 : ~Counts(json, Places(json)[r], r)
           /\ Tok.type = "BOOLEAN" => json[p] \in Words /\ Tok.value[1] = json[p]
<1>1. json \in Seq(STRING) /\ NUL \notin STRING /\ Len(json) \in Nat
  BY Facts
<1>2. p = Here /\ p \in 1 .. Len(json) /\ Char(p) = json[p] /\ json_p \in 1 .. Len(json) + 1
  BY DEF ReadsAt
<1>3. Tok.type = "BOOLEAN" => Tok.next = p + 1 /\ json[p] \in Words /\ Tok.value[1] = json[p]
  <2> SUFFICES ASSUME Tok.type = "BOOLEAN"
               PROVE  Tok.next = p + 1 /\ json[p] \in Words /\ Tok.value[1] = json[p]
    OBVIOUS
  <2>1. json[p] \in Words
    BY TypeAt
  <2>2. json[p] \in WordStarts /\ json[p] \in Letters
    BY <2>1, CharsAssumption DEF Words
  <2>3. Tok = parse_boolean(p)
    BY <1>1, <1>2, <2>2, TokenIs
  <2> QED BY <1>1, <1>2, <2>1, <2>2, <2>3, BooleanIs
<1>4. json[p] \in DOMAIN Mark => Tok.next = p + 1
  <2> SUFFICES ASSUME json[p] \in DOMAIN Mark
               PROVE  Tok.next = p + 1
    OBVIOUS
  <2>1. Tok = Token(Mark[json[p]], <<>>, p + 1)
    BY <1>1, <1>2, TokenIs
  <2> QED BY <2>1 DEF Token
<1>5. p + 1 \in p + 1 .. Len(json) + 1 /\ \A r \in p + 1 .. p + 1 - 1 : FALSE
  BY <1>1, <1>2
<1> QED BY <1>3, <1>4, <1>5

\* The innermost call, and the object or array that it reads.
LEMMA CallAt ==
    ASSUME IInv, NEW open, NEW p, ReadsAt(open, p)
    PROVE  /\ open = <<>> <=> calls = <<>>
           /\ calls = <<>> => Places(json)[p].due = "root" /\ Places(json)[p].in = 0
           /\ calls # <<>> => /\ IsInner(json, p, open, Running)
                              /\ 1 \in DOMAIN calls /\ calls[1] \in Call /\ Running = calls[1]
                              /\ Running.what = "object" <=> InObject(json, Places(json)[p].in)
<1>1. json \in Seq(STRING) /\ Len(json) \in Nat /\ Len(calls) \in Nat
  BY Facts
<1>2. p \in 1 .. Len(json) + 1 /\ IsReadTo(json, p, open, calls, nodes)
  BY <1>1 DEF ReadsAt
<1>3. Len(calls) = Len(open) /\ IsOpen(json, p, open)
  BY <1>2 DEF IsReadTo, AreCalls
<1>4. open = <<>> <=> calls = <<>>
  <2>1. open # <<>> <=> Len(open) > 0
    BY <1>1, <1>2, <1>3, OpenAre
  <2>2. calls # <<>> <=> Len(calls) > 0
    BY <1>1 DEF IInv, Typed
  <2> QED BY <1>3, <2>1, <2>2
<1>5. calls = <<>> => Places(json)[p].due = "root" /\ Places(json)[p].in = 0
  BY <1>3, <1>4 DEF IsOpen
<1>6. ASSUME calls # <<>>
      PROVE  /\ IsInner(json, p, open, Running)
             /\ 1 \in DOMAIN calls /\ calls[1] \in Call /\ Running = calls[1]
             /\ Running.what = "object" <=> InObject(json, Places(json)[p].in)
  <2>1. IsInner(json, p, open, calls[1])
    BY <1>1, <1>2, <1>4, <1>6, InnerCall
  <2>2. 1 \in DOMAIN calls /\ calls[1] \in Call
    BY <1>6, Facts DEF IInv, Typed
  <2>3. calls[1].what = Kind(json, open[1]) /\ Places(json)[p].in = open[1] /\ open[1] # 0
    BY <2>1 DEF IsInner
  <2>4. calls[1].what = "object" <=> InObject(json, Places(json)[p].in)
    BY <2>3 DEF InObject, Kind
  <2> QED BY <2>1, <2>2, <2>4 DEF Running
<1> QED BY <1>4, <1>5, <1>6

\* The token is one that is supported where it is.
IsAllowed(p) ==
    /\ json[p] \in Allowed(json, Places(json)[p])
    /\ json[p] \in Words => Tok.type = "BOOLEAN"

\* Of a supported text, every token is allowed.
LEMMA SupportedHere ==
    ASSUME IInv, NEW open, NEW p, ReadsAt(open, p)
    PROVE  /\ SupportedAt(json, Places(json)[p], p) <=> IsAllowed(p)
           /\ Supported(json) => IsAllowed(p)
<1>1. p \in 1 .. Len(json) /\ Counts(json, Places(json)[p], p) /\ Places(json)[p].due # "nothing"
  BY DEF ReadsAt, IsReadTo, IsAt
<1>2. Tok.type = "BOOLEAN" <=>
         json[p] \in Words /\ (p < Len(json) => json[p + 1] \notin Letters)
  BY TypeAt
<1>3. SupportedAt(json, Places(json)[p], p) <=> IsAllowed(p)
  BY <1>1, <1>2 DEF SupportedAt, IsAllowed
<1> QED BY <1>1, <1>3 DEF Supported

\* KeyOf looks at the key only.
LEMMA SameKey ==
    ASSUME NEW text, NEW a, NEW b, a.key = b.key
    PROVE  KeyOf(text, a) = KeyOf(text, b)
  BY DEF KeyOf

\* A first call that needs what is due at m.
LEMMA CallNow ==
    ASSUME IInv, calls # <<>>, NEW m, NEW call, calls' = [calls EXCEPT ![1] = call],
           call.what = calls[1].what, call.data = calls[1].data,
           call.key = KeyOf(json, Places(json)[m]), call.needs = Places(json)[m].due
    PROVE  NowNeeds(json, m, calls, calls')
<1>1. /\ 1 \in DOMAIN calls /\ DOMAIN calls = 1 .. Len(calls)
      /\ Len(calls) \in Nat /\ calls \in Seq(Call)
  BY Facts DEF IInv, Typed
<1>2. /\ DOMAIN calls' = DOMAIN calls /\ Len(calls') = Len(calls)
      /\ calls'[1] = call /\ \A k \in 2 .. Len(calls) : calls'[k] = calls[k]
  BY <1>1
<1> QED BY <1>2 DEF NowNeeds

\* So with what Continue does.
LEMMA ContinuesNow ==
    ASSUME IInv, NEW open, NEW p, ReadsAt(open, p), calls # <<>>,
           NEW m, NEW token, Continue(token),
           Places(json)[m].key = Places(json)[p].key, Places(json)[m].due = token
    PROVE  NowNeeds(json, m, calls, calls')
<1> DEFINE call == [calls[1] EXCEPT !.needs = token]
<1>1. IsInner(json, p, open, calls[1]) /\ calls[1] \in Call
  BY CallAt
<1>2. /\ call.needs = token
      /\ call.data = calls[1].data /\ call.what = calls[1].what /\ call.key = calls[1].key
  BY <1>1 DEF Call
<1>3. calls' = [calls EXCEPT ![1] = call]
  BY DEF Continue
<1> HIDE DEF call
<1>4. call.key = KeyOf(json, Places(json)[m])
  <2>1. calls[1].key = KeyOf(json, Places(json)[p])
    BY <1>1 DEF IsInner
  <2>2. KeyOf(json, Places(json)[m]) = KeyOf(json, Places(json)[p])
    BY SameKey
  <2> QED BY <1>2, <2>1, <2>2
<1> QED BY <1>2, <1>3, <1>4, CallNow

\* Where the token ends, in the same object or array.
LEMMA EndsAt ==
    ASSUME IInv, NEW open, NEW p, ReadsAt(open, p), IsAllowed(p),
           NEW m, m \in p + 1 .. Len(json) + 1,
           \A r \in p + 1 .. m - 1 : ~Counts(json, Places(json)[r], r)
    PROVE  /\ SupportedTo(json, m)
           /\ Places(json)[p].due \in {"root", "value", "element"} =>
                 DataTo(json, m) = DataTo(json, p) \cup {p}
           /\ Places(json)[p].due \notin {"root", "value", "element"} =>
                 DataTo(json, m) = DataTo(json, p)
<1>1. json \in Seq(STRING)
  BY Facts
<1>2. /\ p \in 1 .. Len(json) /\ Counts(json, Places(json)[p], p)
      /\ SupportedTo(json, p)
  BY DEF ReadsAt, IsReadTo, IsAt
<1>3. SupportedAt(json, Places(json)[p], p)
  BY SupportedHere
<1>4. /\ SupportedTo(json, m)
      /\ IsDatum(json, Places(json)[p], p) => DataTo(json, m) = DataTo(json, p) \cup {p}
      /\ ~IsDatum(json, Places(json)[p], p) => DataTo(json, m) = DataTo(json, p)
  BY <1>1, <1>2, <1>3, Passed
<1>5. IsDatum(json, Places(json)[p], p) <=> Places(json)[p].due \in {"root", "value", "element"}
  BY <1>2 DEF IsDatum
<1> QED BY <1>4, <1>5

\* On the same level without a datum.
LEMMA GoesOnAt ==
    ASSUME IInv, NEW open, NEW p, ReadsAt(open, p), IsAllowed(p), calls # <<>>,
           Places(json)[p].due \in {"key", "colon", "more"},
           NEW m, m \in p + 1 .. Len(json) + 1,
           \A r \in p + 1 .. m - 1 : ~Counts(json, Places(json)[r], r),
           NEW key, NEW due \in {"key", "colon", "value", "element"},
           Places(json)[m] = Place(Places(json)[p].in, 0, key, due),
           json' = json, json_p' = m, nodes' = nodes, NowNeeds(json, m, calls, calls')
    PROVE  IsReadTo(json', json_p', open, calls', nodes')
<1>1. json \in Seq(STRING)
  BY Facts
<1>2. p \in 1 .. Len(json) /\ IsReadTo(json, p, open, calls, nodes) /\ open # <<>>
  BY CallAt DEF ReadsAt
<1>3. SupportedTo(json, m) /\ DataTo(json, m) = DataTo(json, p)
  BY EndsAt
<1>4. SameLevel(json, p, m)
  <2>1. /\ Places(json)[m].quote = 0 /\ Places(json)[m].due \notin {"nothing", "root"}
        /\ Places(json)[m].in = Places(json)[p].in
    BY DEF Place
  <2> QED BY <1>3, <2>1 DEF SameLevel
<1>5. IsReadTo(json, m, open, calls', nodes)
  BY <1>1, <1>2, <1>3, <1>4, OnSameLevel
<1> QED BY <1>5
-----------------------------------------------------------------------------
(***************************************************************************)
(* One lemma for each thing that is done with a token.                     *)
(***************************************************************************)
\* In which cases what was read stays read.
StaysRead == \E open : IsReadTo(json', json_p', open, calls', nodes')

\* A key: a colon is due, and the call has the key.
LEMMA KeyRead ==
    ASSUME IInv, NEW open, NEW p, ReadsAt(open, p), ObjectKey
    PROVE  StaysRead
<1>1. /\ calls # <<>> /\ Running.needs = "key" /\ Tok.type = "STRING" /\ Tok.value # JUNK
      /\ json' = json /\ json_p' = Tok.next /\ nodes' = nodes
      /\ calls' = [calls EXCEPT ![1].key = Tok.value, ![1].needs = "colon"]
  BY DEF ObjectKey, Needs, Reads
<1>2. json[p] = QUOTE
  BY <1>1, TypeAt
<1>3. IsInner(json, p, open, calls[1]) /\ calls[1] \in Call /\ Running = calls[1]
  BY <1>1, CallAt
<1> DEFINE before == Places(json)[p]
           m == Tok.next
<1>4. before.due = "key"
  BY <1>1, <1>3 DEF IsInner
<1>5. IsAllowed(p)
  <2>1. Allowed(json, before) = {QUOTE}
    BY <1>4, AllowedIs
  <2> QED BY <1>2, <2>1 DEF IsAllowed, Words, QUOTE
<1>6. /\ m \in p + 1 .. Len(json) + 1
      /\ Places(json)[m] = AfterString(Place(before.in, p, before.key, before.due))
      /\ Tok.value = Quoted(json, p)
      /\ \A r \in p + 1 .. m - 1 : ~Counts(json, Places(json)[r], r)
  BY <1>1, <1>2, StringRead
<1>7. Places(json)[m] = Place(before.in, 0, p, "colon")
  BY <1>4, <1>6 DEF AfterString, Place
<1>8. NowNeeds(json, m, calls, calls')
  <2> DEFINE call == [calls[1] EXCEPT !.key = Tok.value, !.needs = "colon"]
  <2>1. /\ call.needs = "colon" /\ call.key = Tok.value
        /\ call.data = calls[1].data /\ call.what = calls[1].what
    BY <1>3 DEF Call
  <2>2. calls' = [calls EXCEPT ![1] = call]
    BY <1>1
  <2> HIDE DEF call, m
  <2>3. Places(json)[m].key = p /\ Places(json)[m].due = "colon" /\ p # 0
    BY <1>7 DEF Place, ReadsAt
  <2>4. KeyOf(json, Places(json)[m]) = Quoted(json, p)
    BY <2>3 DEF KeyOf
  <2>5. call.key = KeyOf(json, Places(json)[m]) /\ call.needs = Places(json)[m].due
    BY <1>6, <2>1, <2>3, <2>4
  <2> QED BY <1>1, <2>1, <2>2, <2>5, CallNow
<1> HIDE DEF m
<1>9. IsReadTo(json', json_p', open, calls', nodes')
  BY <1>1, <1>4, <1>5, <1>6, <1>7, <1>8, GoesOnAt DEF m
<1> QED BY <1>9 DEF StaysRead

\* What a cell more does.
LEMMA CellLinks ==
    ASSUME NEW ns \in Seq(Node), NEW d \in DOMAIN ns, NEW cell \in Cell
    PROVE  Links(ns, WithCell(ns, d, cell), d, cell) /\ WithCell(ns, d, cell) \in Seq(Node)
<1> DEFINE ext == WithCell(ns, d, cell)
<1>1. /\ ext \in Seq(Node) /\ DOMAIN ext = DOMAIN ns /\ Len(ext) = Len(ns)
      /\ \A m \in DOMAIN ns \ {d} : ext[m] = ns[m]
      /\ ext[d].type = ns[d].type /\ ext[d].text = ns[d].text
      /\ ext[d].cells = Append(ns[d].cells, cell)
  BY CellAdded
<1> HIDE DEF ext
<1>2. DOMAIN ns = 1 .. Len(ns)
  OBVIOUS
<1>3. \A k \in 1 .. Len(ns) : /\ ext[k].type = ns[k].type /\ ext[k].text = ns[k].text
                              /\ k # d => ext[k].cells = ns[k].cells
  BY <1>1, <1>2
<1>4. Links(ns, ext, d, cell)
  BY <1>1, <1>3 DEF Links
<1> QED BY <1>1, <1>4 DEF ext

\* A colon: a value is due.
LEMMA ColonRead ==
    ASSUME IInv, NEW open, NEW p, ReadsAt(open, p), ObjectColon
    PROVE  StaysRead
<1>1. /\ calls # <<>> /\ Running.needs = "colon" /\ Tok.type = "COLON"
      /\ json' = json /\ json_p' = Tok.next /\ nodes' = nodes /\ Continue("value")
  BY DEF ObjectColon, Needs, Reads
<1>2. json[p] = ":"
  BY <1>1, TypeAt
<1>3. IsInner(json, p, open, calls[1]) /\ Running = calls[1]
  BY <1>1, CallAt
<1> DEFINE before == Places(json)[p]
<1>4. before.due = "colon"
  BY <1>1, <1>3 DEF IsInner
<1>5. IsAllowed(p)
  <2>1. Allowed(json, before) = {":"}
    BY <1>4, AllowedIs
  <2> QED BY <1>2, <2>1 DEF IsAllowed, Words
<1>6. /\ Tok.next = p + 1 /\ p + 1 \in p + 1 .. Len(json) + 1
      /\ \A r \in p + 1 .. p + 1 - 1 : ~Counts(json, Places(json)[r], r)
  BY <1>2, MarkRead DEF Mark
<1>7. Places(json)[p + 1] = Place(before.in, 0, before.key, "value")
  <2>1. /\ json \in Seq(STRING) /\ p \in 1 .. Len(json) /\ Counts(json, before, p)
        /\ before.due # "nothing"
    BY <1>4, Facts DEF ReadsAt
  <2>2. Places(json)[p + 1] = AfterOther(json, before, json[p])
    BY <1>2, <2>1, PlaceAfter DEF QUOTE
  <2> QED BY <1>2, <2>2 DEF AfterOther
<1> DEFINE m == p + 1
<1> HIDE DEF m
<1>8. NowNeeds(json, m, calls, calls')
  <2>1. Places(json)[m].key = before.key /\ Places(json)[m].due = "value"
    BY <1>7 DEF Place, m
  <2> QED BY <1>1, <2>1, ContinuesNow
<1>9. IsReadTo(json', json_p', open, calls', nodes')
  BY <1>1, <1>4, <1>5, <1>6, <1>7, <1>8, GoesOnAt DEF m
<1> QED BY <1>9 DEF StaysRead

\* In an object a key follows, in an array an element.
LEMMA CommaRead ==
    ASSUME IInv, NEW open, NEW p, ReadsAt(open, p), ObjectComma \/ ArrayComma
    PROVE  StaysRead
<1> DEFINE token == IF Running.what = "object" THEN "key" ELSE "element"
<1>1. /\ calls # <<>> /\ Running.needs = "more" /\ Tok.type = "COMMA"
      /\ json' = json /\ json_p' = Tok.next /\ nodes' = nodes /\ Continue(token)
  <2>1. CASE ObjectComma
    BY <2>1 DEF ObjectComma, Needs, Reads
  <2>2. CASE ArrayComma
    BY <2>2 DEF ArrayComma, Needs, Reads
  <2> QED BY <2>1, <2>2
<1>2. json[p] = ","
  BY <1>1, TypeAt
<1>3. /\ IsInner(json, p, open, calls[1]) /\ Running = calls[1]
      /\ Running.what = "object" <=> InObject(json, Places(json)[p].in)
  BY <1>1, CallAt
<1> DEFINE before == Places(json)[p]
<1>4. before.due = "more"
  BY <1>1, <1>3 DEF IsInner
<1>5. IsAllowed(p)
  <2>1. "," \in Allowed(json, before)
    BY <1>4, AllowedIs
  <2> QED BY <1>2, <2>1 DEF IsAllowed, Words
<1>6. /\ Tok.next = p + 1 /\ p + 1 \in p + 1 .. Len(json) + 1
      /\ \A r \in p + 1 .. p + 1 - 1 : ~Counts(json, Places(json)[r], r)
  BY <1>2, MarkRead DEF Mark
<1>7. /\ Places(json)[p + 1] = Place(before.in, 0, before.key, token)
      /\ token \in {"key", "element"}
  <2>1. /\ json \in Seq(STRING) /\ p \in 1 .. Len(json) /\ Counts(json, before, p)
        /\ before.due # "nothing"
    BY <1>4, Facts DEF ReadsAt
  <2>2. Places(json)[p + 1] = AfterOther(json, before, json[p])
    BY <1>2, <2>1, PlaceAfter DEF QUOTE
  <2>3. Item(json, before.in) = token
    BY <1>3 DEF Item
  <2> QED BY <1>2, <2>2, <2>3 DEF AfterOther
<1> HIDE DEF token
<1> DEFINE m == p + 1
<1> HIDE DEF m
<1>8. NowNeeds(json, m, calls, calls')
  <2>1. Places(json)[m].key = before.key /\ Places(json)[m].due = token
    BY <1>7 DEF Place, m
  <2> QED BY <1>1, <2>1, ContinuesNow
<1>9. IsReadTo(json', json_p', open, calls', nodes')
  <2>1. /\ m \in p + 1 .. Len(json) + 1 /\ json_p' = m
        /\ \A r \in p + 1 .. m - 1 : ~Counts(json, Places(json)[r], r)
        /\ Places(json)[m] = Place(before.in, 0, before.key, token)
    BY <1>1, <1>6, <1>7 DEF m
  <2>2. token \in {"key", "colon", "value", "element"}
    BY <1>7
  <2> QED BY <1>1, <1>4, <1>5, <1>8, <2>1, <2>2, GoesOnAt
<1> QED BY <1>9 DEF StaysRead

\* A string or a boolean.
LEMMA LeafRead ==
    ASSUME IInv, NEW open, NEW p, ReadsAt(open, p), calls # <<>>, IsAllowed(p),
           Running.needs \in {"value", "element"},
           NEW m, m \in p + 1 .. Len(json) + 1,
           \A r \in p + 1 .. m - 1 : ~Counts(json, Places(json)[r], r),
           Places(json)[m] = Place(Places(json)[p].in, 0, Places(json)[p].key, "more"),
           NEW node \in Node, node.type = Described(json, p).type,
           node.text = Described(json, p).text, node.cells = <<>>,
           json' = json, json_p' = m, Leaf(node)
    PROVE  StaysRead
<1>1. json \in Seq(STRING) /\ Len(nodes) \in Nat /\ nodes \in Seq(Node)
  BY Facts DEF IInv, Typed
<1>2. p \in 1 .. Len(json) /\ IsReadTo(json, p, open, calls, nodes) /\ open # <<>>
  BY CallAt DEF ReadsAt
<1>3. IsInner(json, p, open, calls[1]) /\ calls[1] \in Call /\ Running = calls[1]
  BY CallAt
<1>4. Places(json)[p].due \in {"value", "element"}
  BY <1>3 DEF IsInner
<1>5. SupportedTo(json, m) /\ DataTo(json, m) = DataTo(json, p) \cup {p}
  BY <1>4, EndsAt
<1>6. SameLevel(json, p, m)
  <2>1. /\ Places(json)[m].quote = 0 /\ Places(json)[m].due \notin {"nothing", "root"}
        /\ Places(json)[m].in = Places(json)[p].in
    BY DEF Place
  <2> QED BY <1>5, <2>1 DEF SameLevel
<1>7. NowNeeds(json, m, calls, calls')
  <2>1. Places(json)[m].key = Places(json)[p].key /\ Places(json)[m].due = "more"
    BY DEF Place
  <2>2. Continue("more")
    BY DEF Leaf
  <2> QED BY <2>1, <2>2, ContinuesNow
<1>8. Adds(nodes, nodes', calls[1].data, calls[1].key, node)
  <2> DEFINE h == calls[1].data
             cell == [key |-> calls[1].key, value |-> Len(nodes) + 1]
             mid == WithCell(nodes, h, cell)
  <2>1. h \in DOMAIN nodes /\ cell \in Cell
    <3>1. h \in DOMAIN nodes
      BY <1>3, CallAt DEF IInv, CallsFit, CallFits
    <3> QED BY <1>1, <1>3, <3>1 DEF Call, Cell
  <2>2. nodes' = Append(mid, node)
    BY <1>3 DEF Leaf, WithCell
  <2> HIDE DEF cell, h
  <2>3. Links(nodes, mid, h, cell) /\ mid \in Seq(Node)
    BY <1>1, <2>1, CellLinks DEF mid
  <2>6. /\ Len(mid) = Len(nodes) /\ mid \in Seq(Node)
        /\ \A k \in 1 .. Len(nodes) : /\ mid[k].type = nodes[k].type
                                      /\ mid[k].text = nodes[k].text
                                      /\ k # h => mid[k].cells = nodes[k].cells
        /\ mid[h].cells = Append(nodes[h].cells, cell)
    BY <2>3 DEF Links
  <2> HIDE DEF mid
  <2>4. /\ Len(nodes') = Len(mid) + 1 /\ nodes'[Len(mid) + 1] = node
        /\ \A k \in 1 .. Len(mid) : nodes'[k] = mid[k]
    BY <2>2, <2>6
  <2>5. h \in 1 .. Len(nodes)
    BY <1>1, <2>1
  <2> QED BY <1>1, <2>4, <2>5, <2>6 DEF Adds, h, cell
<1>9. IsReadTo(json, m, open, calls', nodes')
  BY <1>1, <1>2, <1>5, <1>6, <1>7, <1>8, OnLeaf
<1> QED BY <1>9 DEF StaysRead

\* A string in an object or an array.
LEMMA StringLeaf ==
    ASSUME IInv, NEW open, NEW p, ReadsAt(open, p), calls # <<>>,
           Running.needs \in {"value", "element"},
           Reads({"STRING"}), Tok.value # JUNK, Leaf(New("string", Tok.value))
    PROVE  StaysRead
<1> DEFINE before == Places(json)[p]
           node == New("string", Tok.value)
           m == Tok.next
<1>1. Tok.type = "STRING" /\ json' = json /\ json_p' = m
  BY DEF Reads
<1>2. json[p] = QUOTE
  BY <1>1, TypeAt
<1>3. before.due \in {"value", "element"}
  <2>1. IsInner(json, p, open, Running)
    BY CallAt
  <2> QED BY <2>1 DEF IsInner
<1>4. IsAllowed(p)
  <2>1. QUOTE \in Allowed(json, before)
    BY <1>3, AllowedIs
  <2> QED BY <1>2, <2>1 DEF IsAllowed, Words, QUOTE
<1>5. /\ m \in p + 1 .. Len(json) + 1
      /\ Places(json)[m] = AfterString(Place(before.in, p, before.key, before.due))
      /\ Tok.value = Quoted(json, p)
      /\ \A r \in p + 1 .. m - 1 : ~Counts(json, Places(json)[r], r)
  BY <1>2, StringRead
<1>6. Places(json)[m] = Place(before.in, 0, before.key, "more")
  BY <1>3, <1>5 DEF AfterString, Place
<1>7. node \in Node /\ node.cells = <<>>
  BY <1>1, ReadsMoves, NewIsNode
<1>8. node.type = Described(json, p).type /\ node.text = Described(json, p).text
  <2>1. Described(json, p) = node
    BY <1>2, <1>5 DEF Described, QUOTE
  <2> QED BY <2>1
<1> HIDE DEF node, m
<1>9. Leaf(node)
  BY DEF node
<1> QED BY <1>1, <1>4, <1>5, <1>6, <1>7, <1>8, <1>9, LeafRead

\* A boolean in an object.
LEMMA BooleanLeaf ==
    ASSUME IInv, NEW open, NEW p, ReadsAt(open, p), calls # <<>>, Running.needs = "value",
           Reads({"BOOLEAN"}), Leaf(New(Tok.value[1], <<>>))
    PROVE  StaysRead
<1> DEFINE before == Places(json)[p]
           node == New(Tok.value[1], <<>>)
           m == p + 1
<1>1. Tok.type = "BOOLEAN" /\ json' = json /\ json_p' = Tok.next
  BY DEF Reads
<1>2. before.due = "value"
  <2>1. IsInner(json, p, open, Running)
    BY CallAt
  <2> QED BY <2>1 DEF IsInner
<1>3. /\ Tok.next = m /\ m \in p + 1 .. Len(json) + 1
      /\ \A r \in p + 1 .. m - 1 : ~Counts(json, Places(json)[r], r)
      /\ json[p] \in Words /\ Tok.value[1] = json[p]
  BY <1>1, MarkRead
<1>4. IsAllowed(p)
  <2>1. Words \subseteq Allowed(json, before)
    BY <1>2, AllowedIs
  <2> QED BY <1>1, <1>3, <2>1 DEF IsAllowed
<1>5. Places(json)[m] = Place(before.in, 0, before.key, "more")
  <2>1. /\ json \in Seq(STRING) /\ p \in 1 .. Len(json) /\ Counts(json, before, p)
        /\ before.due # "nothing"
    BY <1>2, Facts DEF ReadsAt
  <2>2. Places(json)[p + 1] = AfterOther(json, before, json[p])
    BY <1>3, <2>1, PlaceAfter DEF QUOTE, Words
  <2> QED BY <1>3, <2>2 DEF AfterOther, Words
<1>6. node \in Node /\ node.cells = <<>>
  BY <1>3, Empty, NewIsNode DEF Words
<1>7. node.type = Described(json, p).type /\ node.text = Described(json, p).text
  <2>1. Described(json, p) = node
    BY <1>3 DEF Described, QUOTE, Words
  <2> QED BY <2>1
<1> HIDE DEF node, m
<1>8. Leaf(node)
  BY DEF node
<1> QED BY <1>1, <1>2, <1>3, <1>4, <1>5, <1>6, <1>7, <1>8, LeafRead

\* Of what kind the first character says.
LEMMA BeginRead ==
    ASSUME IInv, NEW open, NEW p, ReadsAt(open, p), IsAllowed(p),
           Places(json)[p].due \in {"root", "value", "element"},
           NEW what, Opens(json, p), what = Kind(json, p),
           json' = json, json_p' = Tok.next, Begin(what)
    PROVE  StaysRead
<1> DEFINE m == p + 1
           call == CallOf(what, Len(nodes) + 1)
           node == New(IF what = "object" THEN "hash" ELSE "array", <<>>)
<1>1. json \in Seq(STRING) /\ Len(nodes) \in Nat /\ nodes \in Seq(Node) /\ calls \in Seq(Call)
      /\ Len(calls) \in Nat
  BY Facts DEF IInv, Typed
<1>2. /\ p \in 1 .. Len(json) /\ IsReadTo(json, p, open, calls, nodes)
      /\ Counts(json, Places(json)[p], p) /\ Places(json)[p].due # "nothing"
  BY DEF ReadsAt
<1>3. /\ Tok.next = m /\ m \in p + 1 .. Len(json) + 1
      /\ \A r \in p + 1 .. m - 1 : ~Counts(json, Places(json)[r], r)
  <2>1. json[p] \in DOMAIN Mark
    BY DEF Opens, Mark
  <2> QED BY <2>1, MarkRead
<1>4. SupportedTo(json, m) /\ DataTo(json, m) = DataTo(json, p) \cup {p}
  BY <1>3, EndsAt
<1>5. Places(json)[m] = Place(p, 0, 0, Item(json, p))
  BY <1>1, <1>2, PlaceAfter DEF Opens
<1>6. Opens(json, p) /\ what = Kind(json, p) /\ what \in {"object", "array"}
  BY DEF Kind
<1>7. node \in Node /\ node.cells = <<>>
  BY Empty, NewIsNode
<1>8. node.type = Described(json, p).type /\ node.text = Described(json, p).text
  <2>1. Described(json, p) = node
    BY DEF Described, Opens, Kind
  <2> QED BY <2>1
<1>9. /\ call.what = Kind(json, p) /\ call.data = Len(nodes) + 1 /\ call.key = NULL
      /\ call.needs = Item(json, p) /\ call \in Call
  <2>1. Item(json, p) = IF what = "object" THEN "key" ELSE "element"
    <3>1. p # 0
      BY <1>2
    <3>2. what = "object" <=> json[p] = "{"
      BY DEF Kind
    <3> QED BY <3>1, <3>2 DEF Item, InObject
  <2>2. Len(nodes) + 1 \in Nat
    BY <1>1
  <2> QED BY <1>6, <2>1, <2>2, NewIsCall
<1>10. nodes' = Append(nodes, node)
  BY DEF Begin
<1> HIDE DEF node, call
<1>11. /\ Len(nodes') = Len(nodes) + 1 /\ nodes'[Len(nodes) + 1] = node
       /\ \A k \in 1 .. Len(nodes) : nodes'[k] = nodes[k]
  BY <1>1, <1>7, <1>10
<1>12. CallsInto(calls, calls', call)
  <2> DEFINE old == IF calls = <<>> THEN <<>> ELSE [calls EXCEPT ![1].needs = "more"]
  <2>1. calls' = <<call>> \o old
    BY DEF Begin, call
  <2>2. /\ old \in Seq(Call) /\ Len(old) = Len(calls)
        /\ Len(calls) > 0 => /\ old[1].what = calls[1].what /\ old[1].data = calls[1].data
                             /\ old[1].key = calls[1].key /\ old[1].needs = "more"
        /\ \A k \in 2 .. Len(calls) : old[k] = calls[k]
    <3>1. CASE calls = <<>>
      BY <1>1, <3>1
    <3>2. CASE calls # <<>>
      <4> DEFINE caller == [calls[1] EXCEPT !.needs = "more"]
      <4>1. 1 \in DOMAIN calls /\ calls[1] \in Call /\ DOMAIN calls = 1 .. Len(calls)
        BY <1>1, <3>2
      <4>2. /\ caller \in Call /\ caller.needs = "more"
            /\ caller.data = calls[1].data /\ caller.what = calls[1].what
            /\ caller.key = calls[1].key
        BY <4>1 DEF Call
      <4>3. old = [calls EXCEPT ![1] = caller]
        BY <3>2
      <4> HIDE DEF caller, old
      <4> QED BY <1>1, <4>1, <4>2, <4>3
    <3> QED BY <3>1, <3>2
  <2> HIDE DEF old
  <2>3. /\ Len(calls') = Len(old) + 1 /\ calls'[1] = call
        /\ \A k \in 2 .. Len(old) + 1 : calls'[k] = old[k - 1]
    BY <1>9, <2>1, <2>2, PutBefore
  <2>4. Len(calls) > 0 => calls'[2] = old[1]
    BY <1>1, <2>2, <2>3
  <2>5. ASSUME NEW k \in 2 .. Len(calls)
        PROVE  calls'[k + 1] = calls[k]
    <3> DEFINE i == k + 1
    <3>1. i \in 2 .. Len(old) + 1 /\ i - 1 = k
      BY <1>1, <2>2
    <3> HIDE DEF i
    <3>2. calls'[i] = calls[k]
      BY <2>2, <2>3, <3>1
    <3> QED BY <3>2 DEF i
  <2> QED BY <2>2, <2>3, <2>4, <2>5 DEF CallsInto
<1> HIDE DEF m
<1>13. m = p + 1
  BY DEF m
<1>14. IsReadTo(json, m, <<p>> \o open, calls', nodes')
  BY <1>1, <1>2, <1>4, <1>5, <1>6, <1>7, <1>8, <1>9, <1>11, <1>12, <1>13, OnBegin
<1>15. IsReadTo(json', json_p', <<p>> \o open, calls', nodes')
  BY <1>3, <1>14
<1> QED BY <1>15 DEF StaysRead

\* What is greater than 1 is not 1.
LEMMA MoreThanOne ==
    ASSUME NEW l \in Nat, l > 1
    PROVE  l # 1
  OBVIOUS

\* An object or array ends: its caller goes on, or the root is returned.
LEMMA ReturnRead ==
    ASSUME IInv, NEW open, NEW p, ReadsAt(open, p), calls # <<>>, Running.needs = "more",
           Tok.type = IF Running.what = "object" THEN "BRACE_RIGHT" ELSE "BRACKET_RIGHT",
           json' = json, json_p' = Tok.next, ReturnData
    PROVE  \/ StaysRead /\ pc' = pc
           \/ pc' = "returned" /\ data' = 1 /\ Supported(json) /\ AreDescribed(nodes', json)
<1> DEFINE at == Places(json)
           m == p + 1
<1>1. json \in Seq(STRING) /\ nodes \in Seq(Node) /\ calls \in Seq(Call) /\ Len(calls) \in Nat
  BY Facts DEF IInv, Typed
<1>2. /\ p \in 1 .. Len(json) /\ IsReadTo(json, p, open, calls, nodes)
      /\ Counts(json, at[p], p) /\ at[p].due # "nothing"
  BY DEF ReadsAt, IsReadTo, IsAt
<1>3. /\ IsInner(json, p, open, calls[1]) /\ Running = calls[1] /\ open # <<>>
      /\ Running.what = "object" <=> InObject(json, at[p].in)
      /\ Len(calls) = Len(open)
  <2>1. Len(calls) = Len(open)
    BY <1>2 DEF IsReadTo, AreCalls
  <2> QED BY <2>1, CallAt
<1>4. at[p].due = "more" /\ at[p].in = open[1]
  BY <1>3 DEF IsInner
<1>5. json[p] = IF InObject(json, at[p].in) THEN "}" ELSE "]"
  BY <1>3, TypeAt
<1>6. json[p] \in {"}", "]"}
  BY <1>5
<1>7. IsAllowed(p)
  <2>1. Allowed(json, at[p]) = {",", IF InObject(json, at[p].in) THEN "}" ELSE "]"}
    BY <1>4, AllowedIs
  <2> QED BY <1>5, <1>6, <2>1 DEF IsAllowed, Words
<1>8. /\ Tok.next = m /\ m \in p + 1 .. Len(json) + 1
      /\ \A r \in p + 1 .. m - 1 : ~Counts(json, at[r], r)
  <2>1. json[p] \in DOMAIN Mark
    BY <1>6 DEF Mark
  <2> QED BY <2>1, MarkRead
<1>9. SupportedTo(json, m) /\ DataTo(json, m) = DataTo(json, p)
  <2>1. at[p].due \notin {"root", "value", "element"}
    BY <1>4
  <2> QED BY <1>7, <1>8, <2>1, EndsAt
<1>10. at[m] = AfterClosed(at[open[1]])
  BY <1>1, <1>2, <1>4, <1>6, PlaceAfter
<1> HIDE DEF m
<1>11. m = p + 1
  BY DEF m
<1>12. CASE at[m].due = "nothing"
  <2>1. Len(open) = 1 /\ calls[1].data = 1 /\ Supported(json) /\ AreDescribed(nodes, json)
    BY <1>1, <1>2, <1>3, <1>9, <1>10, <1>11, <1>12, OnEnd
  <2>2. data' = calls[1].data /\ pc' = "returned" /\ nodes' = nodes
    BY <1>3, <2>1 DEF ReturnData
  <2> QED BY <2>1, <2>2
<1>13. CASE at[m].due # "nothing"
  <2> DEFINE next == Tail(calls)
             h == calls[2].data
             cell == [key |-> calls[2].key, value |-> calls[1].data]
             after == WithCell(nodes, h, cell)
  <2>1. Len(open) > 1 /\ Len(calls) > 1
    <3>1. IsOpen(json, p, open)
      BY <1>2 DEF IsReadTo
    <3> QED BY <1>1, <1>2, <1>3, <1>9, <1>10, <1>11, <1>13, <3>1, OpenShrinks
  <2>2. 1 \in DOMAIN calls /\ 2 \in DOMAIN calls
    BY <1>1, <2>1
  <2>3. h \in DOMAIN nodes /\ cell \in Cell
    <3>1. h \in DOMAIN nodes
      BY <2>2 DEF IInv, CallsFit, CallFits
    <3>2. calls[1] \in Call /\ calls[2] \in Call
      BY <2>2, Facts
    <3> QED BY <3>1, <3>2 DEF Call, Cell
  <2>4. calls' = next /\ nodes' = after /\ pc' = pc
    <3>1. Len(calls) # 1
      BY <1>1, <2>1, MoreThanOne
    <3>2. /\ calls' = next /\ pc' = pc
          /\ nodes' = [nodes EXCEPT ![calls[2].data].cells = Append(@, Returned)]
      BY <3>1 DEF ReturnData
    <3>3. Returned = cell
      BY <1>3 DEF Returned
    <3> QED BY <3>2, <3>3 DEF WithCell
  <2>5. CallsOut(calls, next)
    <3>1. calls # <<>>
      OBVIOUS
    <3> QED BY <1>1, <3>1, LeftOf DEF CallsOut
  <2>6. Links(nodes, after, h, cell)
    <3> HIDE DEF h, cell
    <3> QED BY <1>1, <2>3, CellLinks
  <2> HIDE DEF next, after
  <2>7. IsReadTo(json, m, Tail(open), next, after)
    BY <1>1, <1>2, <1>3, <1>9, <1>10, <1>11, <1>13, <2>5, <2>6, OnReturn
  <2>8. IsReadTo(json', json_p', Tail(open), calls', nodes')
    BY <1>8, <2>4, <2>7
  <2> QED BY <2>4, <2>8 DEF StaysRead
<1> QED BY <1>12, <1>13

\* A text on which the reader gives up is none that is supported.
LEMMA Refused ==
    ASSUME IInv, NEW open, IsReadTo(json, json_p, open, calls, nodes),
           BadData \/ ArrayClosedAtOnce \/ Unexpected \/ NoString
    PROVE  ~Supported(json)
<1> SUFFICES ASSUME Supported(json)
             PROVE  FALSE
  OBVIOUS
<1> DEFINE p == Here
           due == Places(json)[p].due
<1>1. ReadsAt(open, p) /\ IsReadTo(json, p, open, calls, nodes) /\ p \in 1 .. Len(json) + 1
  <2>1. json \in Seq(STRING) /\ Len(json) \in Nat
    BY Facts
  <2>2. p \in 1 .. Len(json) + 1 /\ (p <= Len(json) => ReadsAt(open, p)) /\ ~(p > Len(json))
        /\ IsReadTo(json, p, open, calls, nodes)
    BY TokenAt
  <2> HIDE DEF p
  <2> QED BY <2>1, <2>2
<1> HIDE DEF p
<1>2. IsAllowed(p)
  BY <1>1, SupportedHere
<1>3. CASE BadData
  <2>1. calls = <<>> /\ Tok.type # "BRACE_LEFT"
    BY <1>3 DEF BadData, Reads
  <2>2. json[p] = "{"
    BY <1>1, <1>2, <2>1, CallAt, AllowedIs DEF IsAllowed
  <2> QED BY <1>1, <2>1, <2>2, TypeAt
<1>4. ASSUME calls # <<>>
      PROVE  Running.needs = due /\ due \in {"key", "colon", "value", "element", "more"}
             /\ (Running.what = "object" <=> InObject(json, Places(json)[p].in))
  <2>1. /\ IsInner(json, p, open, Running)
        /\ Running.what = "object" <=> InObject(json, Places(json)[p].in)
    BY <1>1, <1>4, CallAt
  <2>2. Running.needs = due /\ due # "root"
    BY <2>1 DEF IsInner
  <2>3. due # "nothing"
    BY <1>1 DEF IsReadTo, IsAt
  <2>4. due \in {"root", "key", "colon", "value", "element", "more", "nothing"}
    BY <1>1, Facts, PlaceIs DEF AllPlaces
  <2> QED BY <2>1, <2>2, <2>3, <2>4
<1>5. CASE ArrayClosedAtOnce
  <2>1. calls # <<>> /\ Running.needs = "element" /\ Tok.type = "BRACKET_RIGHT"
    BY <1>5 DEF ArrayClosedAtOnce, Needs, Reads
  <2>2. Allowed(json, Places(json)[p]) = {QUOTE, "{"}
    BY <1>4, <2>1, AllowedIs
  <2>3. json[p] = "]"
    BY <1>1, <2>1, TypeAt
  <2> QED BY <1>2, <2>2, <2>3 DEF IsAllowed, QUOTE
<1>6. CASE Unexpected
  <2>1. calls # <<>> /\ Tok.type \in AllTypes /\ Tok.type \notin Expected(Running)
    BY <1>6 DEF Unexpected, Reads
  <2>2. CASE due = "key"
    BY <1>4, <2>1, <2>2 DEF Expected
  <2>3. CASE due = "colon"
    <3>1. Expected(Running) = {"COLON"}
      BY <1>4, <2>1, <2>3 DEF Expected
    <3>2. json[p] = ":"
      BY <1>2, <2>3, AllowedIs DEF IsAllowed
    <3> QED BY <1>1, <2>1, <3>1, <3>2, TypeAt
  <2>4. CASE due = "value"
    <3>1. Expected(Running) = {"STRING", "BOOLEAN", "BRACE_LEFT", "BRACKET_LEFT"}
      BY <1>4, <2>1, <2>4 DEF Expected
    <3>2. json[p] \in {QUOTE, "{", "["} \/ Tok.type = "BOOLEAN"
      BY <1>2, <2>4, AllowedIs DEF IsAllowed
    <3> QED BY <1>1, <2>1, <3>1, <3>2, TypeAt
  <2>5. CASE due = "element"
    <3>1. Expected(Running) = {"STRING", "BRACE_LEFT", "BRACKET_RIGHT"}
      BY <1>4, <2>1, <2>5 DEF Expected
    <3>2. json[p] \in {QUOTE, "{"}
      BY <1>2, <2>5, AllowedIs DEF IsAllowed
    <3> QED BY <1>1, <2>1, <3>1, <3>2, TypeAt
  <2>6. CASE due = "more"
    <3>1. Expected(Running) = {"COMMA", IF Running.what = "object" THEN "BRACE_RIGHT"
                                                                   ELSE "BRACKET_RIGHT"}
      BY <1>4, <2>1, <2>6 DEF Expected
    <3>2. json[p] \in {",", IF InObject(json, Places(json)[p].in) THEN "}" ELSE "]"}
      BY <1>2, <2>6, AllowedIs DEF IsAllowed
    <3>3. json[p] = "," \/ json[p] = IF Running.what = "object" THEN "}" ELSE "]"
      BY <1>4, <2>1, <3>2
    <3> QED BY <1>1, <2>1, <3>1, <3>3, TypeAt
  <2> QED BY <1>4, <2>1, <2>2, <2>3, <2>4, <2>5, <2>6
<1>7. CASE NoString
  <2>1. /\ calls # <<>>
        /\ \/ Running.needs = "key" /\ (Tok.type = "STRING" => Tok.value = JUNK)
           \/ Tok.type = "STRING" /\ Tok.value = JUNK
    BY <1>7 DEF NoString, Reads
  <2>2. json[p] = QUOTE
    <3>1. CASE Running.needs = "key"
      <4>1. Allowed(json, Places(json)[p]) = {QUOTE}
        BY <1>4, <2>1, <3>1, AllowedIs
      <4> QED BY <1>2, <4>1 DEF IsAllowed
    <3>2. CASE Tok.type = "STRING"
      BY <1>1, <3>2, TypeAt
    <3> QED BY <2>1, <3>1, <3>2
  <2>3. Tok.type = "STRING" /\ Tok.value # JUNK
    BY <1>1, <2>2, StringRead
  <2> QED BY <2>1, <2>3
<1> QED BY <1>3, <1>5, <1>6, <1>7

\* Where there are no arrays, all calls read objects.
LEMMA OnlyObjects ==
    ASSUME IInv, NEW n, NEW open, IsReadTo(json, n, open, calls, nodes), NoArrays(json)
    PROVE  \A k \in DOMAIN calls : calls[k].what = "object"
<1> SUFFICES ASSUME NEW k \in DOMAIN calls
             PROVE  calls[k].what = "object"
  OBVIOUS
<1>1. /\ json \in Seq(STRING) /\ DOMAIN json = 1 .. Len(json)
      /\ n \in 1 .. Len(json) + 1 /\ IsOpen(json, n, open) /\ AreCalls(calls, json, n, open)
  <2>1. json \in Seq(STRING)
    BY Facts
  <2> QED BY <2>1 DEF IsReadTo, IsAt
<1>2. k \in 1 .. Len(open)
  BY <1>1, Facts DEF AreCalls
<1>3. calls[k].what = Kind(json, open[k])
  BY <1>1, <1>2 DEF AreCalls
<1>4. json[open[k]] \in {"{", "["}
  BY <1>1, <1>2 DEF IsOpen, Opens
<1>5. json[open[k]] # "["
  BY <1>1, <1>2, OpenAre DEF NoArrays
<1> QED BY <1>3, <1>4, <1>5 DEF Kind

(***************************************************************************)
(* The invariant: up to the cursor, a text that is supported, or has no    *)
(* arrays, has been read as it is described.                               *)
(***************************************************************************)
Follows ==
    pc = "reading" /\ (Supported(json) \/ NoArrays(json)) =>
        \E open : IsReadTo(json, json_p, open, calls, nodes)

ReadInv == IInv /\ Follows /\ IsRead

\* Nothing is read yet, and outside of the root.
LEMMA FollowsAtFirst == Init => Follows
<1> SUFFICES ASSUME Init
             PROVE  IsReadTo(json, json_p, <<>>, calls, nodes)
  BY DEF Follows
<1>1. json \in Seq(STRING) /\ Len(json) \in Nat /\ 1 \in 1 .. Len(json) + 1
  <2>1. json \in Seq(STRING)
    BY TextsAssumption DEF Init
  <2> QED BY <2>1
<1>2. Places(json)[1] = Start
  BY <1>1, PlaceIs
<1>3. IsAt(json, 1)
  <2>1. SupportedTo(json, 1)
    BY DEF SupportedTo
  <2> QED BY <1>1, <1>2, <2>1 DEF IsAt, Start, Place
<1>4. DataTo(json, 1) = {}
  BY DEF DataTo, Data
<1>5. IsOpen(json, 1, <<>>)
  <2>1. <<>> \in Seq(DataTo(json, 1)) /\ Len(<<>>) = 0
    BY <1>4
  <2>2. Places(json)[1].in = 0 /\ Places(json)[1].due = "root"
    BY <1>2 DEF Start, Place
  <2> QED BY <1>4, <2>1, <2>2 DEF IsOpen
<1>6. AreCalls(calls, json, 1, <<>>)
  BY DEF Init, AreCalls
<1>7. AreBuilt(nodes, json, DataTo(json, 1), Opened(<<>>))
  <2>1. Len(nodes) = 0 /\ Cardinality({}) = 0
    BY FS_EmptySet DEF Init
  <2> QED BY <1>4, <2>1 DEF AreBuilt
<1> QED BY <1>3, <1>5, <1>6, <1>7 DEF IsReadTo, Init

\* A token that is read keeps what was read, or returns the data described.
LEMMA ReadsOn ==
    ASSUME IInv, NEW open, IsReadTo(json, json_p, open, calls, nodes),
           \/ FirstBrace \/ ObjectKey \/ ObjectColon \/ ObjectValue \/ ObjectComma \/ ObjectEnd
           \/ ArrayElement \/ ArrayComma \/ ArrayEnd
    PROVE  \/ StaysRead /\ pc' = pc
           \/ pc' = "returned" /\ data' = 1 /\ Supported(json) /\ AreDescribed(nodes', json)
<1>1. Tok.type # "END" /\ json' = json /\ json_p' = Tok.next
  BY DEF FirstBrace, ObjectKey, ObjectColon, ObjectValue, ObjectComma, ObjectEnd,
         ArrayElement, ArrayComma, ArrayEnd, Reads
<1> DEFINE p == Here
           due == Places(json)[p].due
<1>2. ReadsAt(open, p)
  <2> USE Facts
  <2>1. json \in Seq(STRING) /\ NUL \notin STRING /\ JUNK \notin Seq(STRING) /\ Len(json) \in Nat
    BY TextsAssumption
  <2>2. /\ json_p \in 1 .. Len(json) + 1 /\ p \in 1 .. Len(json) + 1
        /\ p <= Len(json) => ReadsAt(open, p)
        /\ p > Len(json) => Char(p) = NUL
    BY TokenAt
  <2>3. Char(p) # NUL
    <3>1. /\ Tok.type = "BRACE_LEFT" <=> Char(p) = "{"
          /\ Tok.type = "BRACE_RIGHT" <=> Char(p) = "}"
          /\ Tok.type = "BRACKET_LEFT" <=> Char(p) = "["
          /\ Tok.type = "BRACKET_RIGHT" <=> Char(p) = "]"
          /\ Tok.type = "COLON" <=> Char(p) = ":"
          /\ Tok.type = "COMMA" <=> Char(p) = ","
          /\ Tok.type = "STRING" <=> Char(p) = QUOTE
          /\ Tok.type = "BOOLEAN" => Char(p) \in Words
      BY <2>1, <2>2, TypeMeans
    <3>2. Tok.type \in {"BRACE_LEFT", "BRACE_RIGHT", "BRACKET_LEFT", "BRACKET_RIGHT", "COLON",
                        "COMMA", "STRING", "BOOLEAN"}
      BY DEF FirstBrace, ObjectKey, ObjectColon, ObjectValue, ObjectComma, ObjectEnd,
             ArrayElement, ArrayComma, ArrayEnd, Reads
    <3>3. Char(p) \in DOMAIN Mark \cup {QUOTE} \cup {"true", "false"}
      BY <3>1, <3>2 DEF Mark, Words
    <3>4. NUL \notin DOMAIN Mark \cup {QUOTE} /\ NUL \notin {"true", "false"}
      BY CharsAssumption
    <3> QED BY <3>3, <3>4
  <2> HIDE DEF p
  <2> QED BY <2>1, <2>2, <2>3
<1> HIDE DEF p
<1>3. ASSUME calls # <<>>
      PROVE  Running.needs = due
  BY <1>2, <1>3, CallAt DEF IsInner
<1>4. CASE FirstBrace
  <2>1. calls = <<>> /\ Tok.type = "BRACE_LEFT" /\ Begin("object") /\ pc' = pc
    BY <1>4 DEF FirstBrace, Reads, Begin
  <2>2. json[p] = "{" /\ due = "root"
    BY <1>2, <2>1, TypeAt, CallAt
  <2>3. Opens(json, p) /\ "object" = Kind(json, p)
    BY <2>2 DEF Opens, Kind
  <2>4. IsAllowed(p)
    BY <2>2, AllowedIs DEF IsAllowed, Words
  <2> QED BY <1>1, <1>2, <2>1, <2>2, <2>3, <2>4, BeginRead
<1>5. CASE ObjectKey
  BY <1>2, <1>5, KeyRead DEF ObjectKey
<1>6. CASE ObjectColon
  BY <1>2, <1>6, ColonRead DEF ObjectColon
<1>7. CASE ObjectComma \/ ArrayComma
  BY <1>2, <1>7, CommaRead DEF ObjectComma, ArrayComma
<1>8. CASE ObjectValue
  <2>1. calls # <<>> /\ Running.needs = "value" /\ due = "value"
    BY <1>3, <1>8 DEF ObjectValue, Needs
  <2>2. CASE Reads({"STRING"}) /\ Tok.value # JUNK /\ Leaf(New("string", Tok.value))
    BY <1>2, <2>1, <2>2, StringLeaf DEF Leaf
  <2>3. CASE Reads({"BOOLEAN"}) /\ Leaf(New(Tok.value[1], <<>>))
    BY <1>2, <2>1, <2>3, BooleanLeaf DEF Leaf
  <2>4. CASE Reads({"BRACE_LEFT"}) /\ Begin("object")
    <3>1. json[p] = "{" /\ pc' = pc
      BY <1>2, <2>4, TypeAt DEF Reads, Begin
    <3>2. Opens(json, p) /\ "object" = Kind(json, p)
      BY <3>1 DEF Opens, Kind
    <3>3. IsAllowed(p)
      BY <2>1, <3>1, AllowedIs DEF IsAllowed, Words
    <3> QED BY <1>1, <1>2, <2>1, <2>4, <3>1, <3>2, <3>3, BeginRead
  <2>5. CASE Reads({"BRACKET_LEFT"}) /\ Begin("array")
    <3>1. json[p] = "[" /\ pc' = pc
      BY <1>2, <2>5, TypeAt DEF Reads, Begin
    <3>2. Opens(json, p) /\ "array" = Kind(json, p)
      BY <3>1 DEF Opens, Kind
    <3>3. IsAllowed(p)
      BY <2>1, <3>1, AllowedIs DEF IsAllowed, Words
    <3> QED BY <1>1, <1>2, <2>1, <2>5, <3>1, <3>2, <3>3, BeginRead
  <2> QED BY <1>8, <2>2, <2>3, <2>4, <2>5 DEF ObjectValue
<1>9. CASE ArrayElement
  <2>1. calls # <<>> /\ Running.needs = "element" /\ due = "element"
    BY <1>3, <1>9 DEF ArrayElement, Needs
  <2>2. CASE Reads({"STRING"}) /\ Tok.value # JUNK /\ Leaf(New("string", Tok.value))
    BY <1>2, <2>1, <2>2, StringLeaf DEF Leaf
  <2>3. CASE Reads({"BRACE_LEFT"}) /\ Begin("object")
    <3>1. json[p] = "{" /\ pc' = pc
      BY <1>2, <2>3, TypeAt DEF Reads, Begin
    <3>2. Opens(json, p) /\ "object" = Kind(json, p)
      BY <3>1 DEF Opens, Kind
    <3>3. IsAllowed(p)
      BY <2>1, <3>1, AllowedIs DEF IsAllowed, Words
    <3> QED BY <1>1, <1>2, <2>1, <2>3, <3>1, <3>2, <3>3, BeginRead
  <2> QED BY <1>9, <2>2, <2>3 DEF ArrayElement
<1>10. CASE ObjectEnd \/ ArrayEnd
  <2>1. calls # <<>> /\ Running.needs # "last"
    <3>1. calls # <<>>
      BY <1>10 DEF ObjectEnd, ArrayEnd, Needs
    <3>2. due \in {"root", "key", "colon", "value", "element", "more", "nothing"}
      <4>1. json \in Seq(STRING) /\ p \in 1 .. Len(json) + 1
        BY <1>2, Facts DEF ReadsAt
      <4> QED BY <4>1, PlaceIs DEF AllPlaces
    <3> QED BY <1>3, <3>1, <3>2
  <2>2. /\ Running.needs = "more" /\ ReturnData
        /\ Tok.type = IF Running.what = "object" THEN "BRACE_RIGHT" ELSE "BRACKET_RIGHT"
    BY <1>10, <2>1 DEF ObjectEnd, ArrayEnd, Needs, Reads
  <2> QED BY <1>1, <1>2, <2>1, <2>2, ReturnRead
<1> QED BY <1>4, <1>5, <1>6, <1>7, <1>8, <1>9, <1>10

\* Every step keeps to what is described, or ends as it says.
LEMMA FollowsOn == ReadInv /\ [Next]_vars => Follows' /\ IsRead'
<1> SUFFICES ASSUME IInv, Follows, IsRead, [Next]_vars
             PROVE  Follows' /\ IsRead'
  BY DEF ReadInv
<1> DEFINE good == Supported(json) \/ NoArrays(json)
<1>1. CASE UNCHANGED vars \/ Ended
  <2>1. UNCHANGED vars
    BY <1>1 DEF Ended
  <2> QED BY <2>1 DEF vars, Follows, IsRead, Unlucky
<1>2. CASE ReadsBeyond
  <2>1. pc = "reading" /\ pc' = "undefined" /\ ~CanRead
        /\ UNCHANGED <<json, json_p, token_type>>
    BY <1>2 DEF ReadsBeyond, Undefined
  <2>2. Follows'
    BY <2>1 DEF Follows
  <2>3. good => Unlucky
    <3> SUFFICES ASSUME good
                 PROVE  Unlucky
      OBVIOUS
    <3>1. PICK open : IsReadTo(json, json_p, open, calls, nodes)
      BY <2>1 DEF Follows
    <3>2. json_p \in 1 .. Len(json) + 1 /\ Len(json) \in Nat
      BY <3>1, Facts, TokenAt
    <3>3. IsInside
      BY <3>2 DEF IsInside
    <3> QED BY <2>1, <3>3 DEF CanRead
  <2>4. IsRead'
    <3>1. ASSUME good
          PROVE  IsRead'
      BY <2>1, <2>3, <3>1 DEF IsRead, Unlucky
    <3>2. ASSUME ~good
          PROVE  IsRead'
      BY <2>1, <3>2 DEF IsRead
    <3> QED BY <3>1, <3>2
  <2> QED BY <2>2, <2>4
<1>3. CASE \/ FirstBrace \/ ObjectKey \/ ObjectColon \/ ObjectValue \/ ObjectComma \/ ObjectEnd
           \/ ArrayElement \/ ArrayComma \/ ArrayEnd
  <2>1. json' = json /\ pc = "reading"
    BY <1>3 DEF FirstBrace, ObjectKey, ObjectColon, ObjectValue, ObjectComma, ObjectEnd,
         ArrayElement, ArrayComma, ArrayEnd, Reads, CanRead
  <2>2. ASSUME good
        PROVE  Follows' /\ IsRead'
    <3>1. PICK open : IsReadTo(json, json_p, open, calls, nodes)
      BY <2>1, <2>2 DEF Follows
    <3>2. \/ StaysRead /\ pc' = pc
          \/ pc' = "returned" /\ data' = 1 /\ Supported(json) /\ AreDescribed(nodes', json)
      BY <1>3, <3>1, ReadsOn
    <3>3. CASE StaysRead /\ pc' = pc
      BY <2>1, <3>3 DEF StaysRead, Follows, IsRead
    <3>4. CASE pc' = "returned" /\ data' = 1 /\ Supported(json) /\ AreDescribed(nodes', json)
      BY <2>1, <3>4 DEF Follows, IsRead
    <3> QED BY <3>2, <3>3, <3>4
  <2>3. ASSUME ~good
        PROVE  Follows' /\ IsRead'
    BY <2>1, <2>3 DEF Follows, IsRead
  <2> QED BY <2>2, <2>3
<1>4. CASE BadData \/ ArrayClosedAtOnce \/ Unexpected \/ NoString
  <2>1. json' = json /\ pc = "reading"
    BY <1>4 DEF BadData, ArrayClosedAtOnce, Unexpected, NoString, Reads, CanRead
  <2>2. ASSUME good
        PROVE  Follows' /\ IsRead'
    <3>1. PICK open : IsReadTo(json, json_p, open, calls, nodes)
      BY <2>1, <2>2 DEF Follows
    <3>2. ~Supported(json) /\ NoArrays(json)
      BY <1>4, <2>2, <3>1, Refused
    <3>3. \A k \in DOMAIN calls : calls[k].what = "object"
      BY <3>1, <3>2, OnlyObjects
    <3>4. data = 0
      BY <2>1 DEF IInv, Owned
    <3>5. pc' # "reading" /\ data' = 0
      <4>1. CASE BadData
        BY <3>4, <4>1 DEF BadData
      <4>2. CASE ArrayClosedAtOnce
        <5>1. 1 \in DOMAIN calls /\ calls[1].what = "array"
          BY <4>2, Facts DEF ArrayClosedAtOnce, Needs, Running, IInv, Typed
        <5> QED BY <3>3, <5>1
      <4>3. CASE Unexpected
        <5>1. Len(calls) # 1 => calls[2].what = "object"
          <6> SUFFICES ASSUME Len(calls) # 1
                       PROVE  calls[2].what = "object"
            OBVIOUS
          <6>1. calls # <<>>
            BY <4>3 DEF Unexpected
          <6>2. calls \in Seq(Call)
            BY DEF IInv, Typed
          <6>3. 2 \in DOMAIN calls
            <7>1. Len(calls) \in Nat /\ Len(calls) > 0 /\ DOMAIN calls = 1 .. Len(calls)
              BY <6>1, <6>2
            <7>2. Len(calls) > 1
              BY <7>1, AboveOne
            <7> QED BY <7>1, <7>2
          <6> QED BY <3>3, <6>3
        <5> QED BY <3>4, <4>3, <5>1 DEF Unexpected, ReturnNull
      <4>4. CASE NoString
        BY <3>4, <4>4 DEF NoString, Undefined
      <4> QED BY <1>4, <4>1, <4>2, <4>3, <4>4
    <3> QED BY <2>1, <3>2, <3>5 DEF Follows, IsRead
  <2>3. ASSUME ~good
        PROVE  Follows' /\ IsRead'
    BY <2>1, <2>3 DEF Follows, IsRead
  <2> QED BY <2>2, <2>3
<1> QED BY <1>1, <1>2, <1>3, <1>4 DEF Next

(***************************************************************************)
(* Whatever the text, its length and how deep it nests, and wherever       *)
(* spaces are: of an object that is supported, the reader returns a root   *)
(* whose nodes are those described, each with its type and text and all    *)
(* of its cells in order, and reading it ends in no other way; where there *)
(* are no arrays, nothing else is returned as data.                        *)
(***************************************************************************)
THEOREM ReadsWhatIsDescribed == Spec => []IsRead
<1>1. Init => ReadInv
  <2>1. Init => IsRead
    BY DEF Init, IsRead
  <2> QED BY <2>1, Initial, FollowsAtFirst DEF ReadInv
<1>2. ReadInv /\ [Next]_vars => ReadInv'
  BY Step, FollowsOn DEF ReadInv
<1>3. ReadInv => IsRead
  BY DEF ReadInv
<1> QED BY <1>1, <1>2, <1>3, PTL DEF Spec
=============================================================================
