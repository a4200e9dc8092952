----------------------------- MODULE JsonParser -----------------------------
(***************************************************************************)
(* json_next_token of src/json.c, as a function of the cursor: the text    *)
(* between two tokens is looked at by nobody else.  A text is a sequence   *)
(* of characters; a run of letters or digits that nothing tells apart may  *)
(* stand as one.  The parser's error field is left out: it is set, but no  *)
(* caller in src/ reads it.  So is the strbuf in which a token's text is   *)
(* collected; that of a string is leaked if the string is terminated.      *)
(***************************************************************************)
EXTENDS Integers, Sequences

CONSTANTS
    Digits,             \* characters that are digits
    Letters,            \* characters that are letters
    WordStarts,         \* the letters t and f, and what begins with them
    NUL,                \* the terminator of C strings
    JUNK                \* a pointer that was never set, or has been freed

QUOTE == "\""
SPACE == " "

VARIABLES
    json,               \* the text
    json_p              \* the next character to read, from 1

Mark == [c \in {"{", "}", "[", "]", ":", ","} |->
            CASE c = "{" -> "BRACE_LEFT"   [] c = "}" -> "BRACE_RIGHT"
              [] c = "[" -> "BRACKET_LEFT" [] c = "]" -> "BRACKET_RIGHT"
              [] c = ":" -> "COLON"        [] c = "," -> "COMMA"]

ASSUME CharsAssumption ==
    LET others == DOMAIN Mark \cup {SPACE, QUOTE, "-", "."} IN
    /\ {"true", "false"} \subseteq WordStarts /\ WordStarts \subseteq Letters
    /\ Digits \cap Letters = {} /\ others \cap (Digits \cup Letters) = {}
    /\ NUL \notin Digits \cup Letters \cup others

Char(p) == IF p <= Len(json) THEN json[p] ELSE NUL

\* The first character from p on that is none of S, the terminator at last.
After(p, S) ==
    CHOOSE q \in p .. Len(json) + 1 : /\ Char(q) \notin S
                                      /\ \A r \in p .. q - 1 : Char(r) \in S

Token(type, value, next) == [type |-> type, value |-> value, next |-> next]

(***************************************************************************)
(* An operator whose name ends in _Slip is a plausible slip in the         *)
(* operator after it, kept to show that a property would notice.           *)
(*                                                                         *)
(* A string that is not terminated leaves the token without a value and    *)
(* the cursor beyond the terminator of the text.                           *)
(***************************************************************************)
parse_string_Slip(p) ==
    LET end == After(p, {json[q] : q \in 1 .. Len(json)} \ {QUOTE})
    IN Token("STRING", SubSeq(json, p, end - 1), end)
parse_string(p) ==
    LET end == After(p, {json[q] : q \in 1 .. Len(json)} \ {QUOTE})
    IN Token("STRING", IF Char(end) = QUOTE THEN SubSeq(json, p, end - 1) ELSE JUNK, end + 1)

\* A number takes the character after it along.
parse_number(p) ==
    LET end      == After(p, Digits)
        decimals == After(end + 1, Digits)
    IN Token("NUMBER", <<>>, 1 + IF Char(end) = "." THEN decimals ELSE end)

parse_boolean_Slip(p) == Token("BOOLEAN", <<json[p]>>, After(p, Letters))
parse_boolean(p) ==
    LET word == SubSeq(json, p, After(p, Letters) - 1)
    IN Token(IF word \in {<<"true">>, <<"false">>} THEN "BOOLEAN" ELSE "NONE",
             word, After(p, Letters))

json_next_token ==
    LET p == After(json_p, {SPACE})  ch == Char(p) IN
    CASE ch = NUL -> Token("END", <<>>, p)
      [] ch \in DOMAIN Mark -> Token(Mark[ch], <<>>, p + 1)
      [] ch = QUOTE -> parse_string(p + 1)
      [] ch = "-" \/ ch \in Digits -> parse_number(p)
      [] ch \in WordStarts -> parse_boolean(p)
      [] OTHER -> Token("NONE", <<>>, p + 1)

\* Within the text and its terminator.
IsInside == json_p <= Len(json) + 1
=============================================================================
