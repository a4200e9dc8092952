------------------------------ MODULE Escaping ------------------------------
(***************************************************************************)
(* ctache_escape_text of lib/escaping.c: a pass that counts, one block of  *)
(* zeros, and a pass that copies.  An action is one character of a pass.   *)
(***************************************************************************)
EXTENDS Naturals, Sequences

CONSTANTS
    Chars,              \* the characters of texts
    NUL,                \* the terminator of C strings, not one of them
    Strs                \* the texts to escape

\* Rows of the tables, { unescaped, escaped, escaped_length }.
Row(escaped, length) == [escaped |-> escaped, escaped_length |-> length]

Backslashed == {"{", "}", "&", "%", "\\", "_", "#", "^", "~", "$"}

ASSUME TextAssumption ==
    /\ NUL \notin Chars
    /\ Strs \subseteq Seq(Chars)
    /\ {"&", "a", "m", "p", "l", "t", "g", ";"} \cup Backslashed \subseteq Chars

escape_chars_Slip ==
    [html |-> [c \in {"<", ">"} |-> Row(<<"&", IF c = "<" THEN "l" ELSE "g", "t", ";">>, 4)],
     tex  |-> [c \in Backslashed |-> Row(<<"\\", c>>, 2)]]
escape_chars ==
    [html |-> [c \in {"&", "<", ">"} |->
                  CASE c = "&" -> Row(<<"&", "a", "m", "p", ";">>, 5)
                    [] c = "<" -> Row(<<"&", "l", "t", ";">>, 4)
                    [] c = ">" -> Row(<<"&", "g", "t", ";">>, 4)],
     tex  |-> [c \in Backslashed |-> Row(<<"\\", c>>, 2)]]

VARIABLES
    str, escaping_type,
    i,                  \* the next character of the pass, from 0
    escaped_length,     \* the size of the block without its terminator
    escaped_str,        \* the block
    escaped_index,      \* where the next plain character goes, from 0
    pc                  \* "count", "copy", "done", or "overrun" after a write
                        \* outside of the block

vars == <<str, escaping_type, i, escaped_length, escaped_str, escaped_index, pc>>

ech   == escape_chars[escaping_type]
Found == str[i + 1] \in DOMAIN ech

\* strlen; the block's size if nothing terminates it.
strlen(block) ==
    CHOOSE n \in 0 .. Len(block) :
        /\ \A k \in 1 .. n : block[k] # NUL
        /\ n < Len(block) => block[n + 1] = NUL
-----------------------------------------------------------------------------
Init ==
    /\ str \in Strs /\ escaping_type \in {"html", "tex"}
    /\ i = 0 /\ escaped_length = 0 /\ escaped_index = 0
    /\ escaped_str = <<>>
    /\ pc = "count"

(***************************************************************************)
(* The pass that counts leaves found as it was: the place of a character   *)
(* that is replaced is counted too.  An operator whose name ends in _Slip  *)
(* is a plausible slip in the operator after it, kept to show that a       *)
(* property would notice.                                                  *)
(***************************************************************************)
Counted_Slip == 1
Counted == IF Found THEN ech[str[i + 1]].escaped_length + 1 ELSE 1

Count ==
    /\ pc = "count" /\ i < Len(str)
    /\ escaped_length' = escaped_length + Counted
    /\ i' = i + 1
    /\ UNCHANGED <<str, escaping_type, escaped_str, escaped_index, pc>>

Allocate ==
    /\ pc = "count" /\ i = Len(str)
    /\ escaped_str' = [k \in 1 .. escaped_length + 1 |-> NUL]
    /\ i' = 0
    /\ pc' = "copy"
    /\ UNCHANGED <<str, escaping_type, escaped_length, escaped_index>>

\* Writing a text at a place of the block.
Write(text, place) ==
    IF place + Len(text) <= Len(escaped_str)
    THEN /\ escaped_str' = [k \in DOMAIN escaped_str |->
                               IF k \in place + 1 .. place + Len(text) THEN text[k - place]
                                                                       ELSE escaped_str[k]]
         /\ UNCHANGED pc
    ELSE pc' = "overrun" /\ UNCHANGED escaped_str

Advanced_Slip(row) == escaped_index' = escaped_index + row.escaped_length + 1
Advanced(row) == escaped_index' = escaped_index + row.escaped_length

\* strcat: at the end of the text, with a terminator.
CopyEscaped ==
    /\ pc = "copy" /\ i < Len(str) /\ Found
    /\ Write(Append(ech[str[i + 1]].escaped, NUL), strlen(escaped_str))
    /\ Advanced(ech[str[i + 1]])
    /\ i' = i + 1
    /\ UNCHANGED <<str, escaping_type, escaped_length>>

CopyPlain ==
    /\ pc = "copy" /\ i < Len(str) /\ ~Found
    /\ Write(<<str[i + 1]>>, escaped_index)
    /\ escaped_index' = escaped_index + 1
    /\ i' = i + 1
    /\ UNCHANGED <<str, escaping_type, escaped_length>>

Return ==
    /\ pc = "copy" /\ i = Len(str)
    /\ pc' = "done"
    /\ UNCHANGED <<str, escaping_type, i, escaped_length, escaped_str, escaped_index>>

Ended == pc \in {"done", "overrun"} /\ UNCHANGED vars

Next == Count \/ Allocate \/ CopyEscaped \/ CopyPlain \/ Return \/ Ended

Spec == Init /\ [][Next]_vars
-----------------------------------------------------------------------------
\* The index stays in what was counted.
TypeOK ==
    /\ i \in 0 .. Len(str)
    /\ escaped_length \in 0 .. 6 * Len(str)
    /\ escaped_index \in 0 .. escaped_length
    /\ Len(escaped_str) \in {0, escaped_length + 1}
    /\ pc \in {"count", "copy", "done", "overrun"}

(***************************************************************************)
(* The two passes agree: no write is outside of the block and a terminator *)
(* is left, though the passes count differently (lib/escaping.c:40, :57).  *)
(***************************************************************************)
Fits == pc # "overrun" /\ (pc \in {"copy", "done"} => strlen(escaped_str) < Len(escaped_str))

(***************************************************************************)
(* The two ways of writing agree: where a plain character goes is where    *)
(* strcat would go on.                                                     *)
(***************************************************************************)
IndexIsEnd == pc \in {"copy", "done"} => escaped_index = strlen(escaped_str)
-----------------------------------------------------------------------------
(***************************************************************************)
(* What HTML and TeX read in a text: an entity of HTML stands for its      *)
(* character and a backslash of TeX for the character after it; any other  *)
(* character stands for itself unless it means something else to them.     *)
(* For TeX this is the reading that escape_tex is written for: in real TeX *)
(* a backslash before "\", "^" or "~" is a command of another meaning.     *)
(***************************************************************************)
Entity == [c \in {"&", "<", ">"} |->
              CASE c = "&" -> <<"&", "a", "m", "p", ";">>
                [] c = "<" -> <<"&", "l", "t", ";">>
                [] c = ">" -> <<"&", "g", "t", ";">>]

\* The meanings of a piece of a text.
Meanings(piece) ==
    IF escaping_type = "html"
    THEN {c \in DOMAIN Entity : piece = Entity[c]}
         \cup {c \in Chars \ DOMAIN Entity : piece = <<c>>}
    ELSE {c \in Chars : piece = <<"\\", c>>}
         \cup {c \in Chars \ Backslashed : piece = <<c>>}

Continued(readings, piece) ==
    {Append(before, c) : before \in readings, c \in Meanings(piece)}

\* The readings of each beginning of a text, however it is cut into pieces.
Readings(text) ==
    LET read[k \in 0 .. Len(text)] ==
            IF k = 0 THEN {<<>>}
            ELSE UNION {Continued(read[j - 1], SubSeq(text, j, k)) :
                           j \in {n \in 1 .. k : n + 4 >= k}}
    IN read

CString(block) == SubSeq(block, 1, strlen(block))

(***************************************************************************)
(* The result reads back as the text and as nothing else, also where the   *)
(* text looks like what is written for another.                            *)
(***************************************************************************)
ReadsBack ==
    pc = "done" =>
        LET result == CString(escaped_str)
        IN Readings(result)[Len(result)] = {str}
=============================================================================
