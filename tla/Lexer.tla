------------------------------- MODULE Lexer -------------------------------
(***************************************************************************)
(* ctache_lex of lib/lexer.c: one pass over a template, one action per     *)
(* branch of the loop body.  A template is a sequence of characters; the   *)
(* value of a token that has none (a NULL pointer) is the empty sequence.  *)
(* The input is NUL-terminated, as every caller in the repository passes   *)
(* it, so a read at or beyond its end gives NUL.                           *)
(***************************************************************************)
EXTENDS Tokens, Sequences, FiniteSets

CONSTANTS
    Chars,              \* the characters of templates
    NUL,                \* the terminator of C strings
    DelimBegin,         \* delim_begin, "{{" unless the caller says otherwise
    DelimEnd,           \* delim_end, "}}" unless the caller says otherwise
    Inputs,             \* the templates given to the lexer
    STRVAL_INITIAL_BUFSIZE  \* 10 in the code

ASSUME CharsAssumption ==
    /\ NUL \notin Chars
    /\ Inputs \subseteq Seq(Chars)

ASSUME DelimAssumption ==
    /\ DelimBegin \in Seq(Chars) /\ Len(DelimBegin) > 0
    /\ DelimEnd \in Seq(Chars) /\ Len(DelimEnd) > 0

ASSUME BufsizeAssumption ==
    STRVAL_INITIAL_BUFSIZE \in Nat /\ STRVAL_INITIAL_BUFSIZE >= 2

VARIABLES
    str,                \* the template being read
    i,                  \* the next character to read, from 0
    row, col,           \* where it is believed to be, from 0
    strval,             \* the text read since the last tag delimiter
    strval_bufsize,     \* the allocated size of strval
    tokens,             \* the tokens found so far
    pc                  \* "scan" in the loop, "done" after the return

vars == <<str, i, row, col, strval, strval_bufsize, tokens, pc>>

Token == [tok_type : Terminals, value : Seq(Chars),
          line : Nat \ {0}, character : Nat \ {0}]
-----------------------------------------------------------------------------
(***************************************************************************)
(* What the branches test.  An operator whose name ends in a _Slip is a    *)
(* plausible slip in the operator after it, kept to show that a property   *)
(* would notice; no definition uses it.                                    *)
(***************************************************************************)
Char(p) == IF p < Len(str) THEN str[p + 1] ELSE NUL

\* strncmp(str + i, delim, strlen(delim)) == 0
Matches(delim) == \A k \in 1 .. Len(delim) : Char(i + k - 1) = delim[k]

\* The character that tells one opening tag from another.
Sigil == Char(i + Len(DelimBegin))

OpensTag_Slip == i + Len(DelimBegin) + 2 < Len(str) /\ Matches(DelimBegin)
OpensTag == i + Len(DelimBegin) + 1 < Len(str) /\ Matches(DelimBegin)

ClosesTag == Char(i) # DelimBegin[1] /\ Matches(DelimEnd)

EndsLine_Slip == FALSE
EndsLine == Char(i) = "\n" /\ Char(i) \notin {DelimBegin[1], DelimEnd[1]}

Scanning == pc = "scan" /\ i < Len(str)

(***************************************************************************)
(* What they do.  Flushed is the token list after the text read so far, if *)
(* there is any, has been made a STRING token.                             *)
(***************************************************************************)
token_create(type, value) ==
    [tok_type |-> type, value |-> value, line |-> row + 1, character |-> col + 1]

Flushed_EmptySlip == Append(tokens, token_create(STRING_TOK, strval))
Flushed_LossSlip == tokens
Flushed == IF Len(strval) > 0 THEN Append(tokens, token_create(STRING_TOK, strval))
                              ELSE tokens

Emit(type) ==
    /\ tokens' = Append(Flushed, token_create(type, <<>>))
    /\ strval' = <<>>
    /\ UNCHANGED <<row, strval_bufsize>>

\* The list that is returned; the column of EOI is beyond the last text.
WithEoi_Slip == Flushed
WithEoi == Append(Flushed, [token_create(EOI, <<>>)
                               EXCEPT !.character = @ + Len(strval)])

\* The buffer keeps a spare byte besides the terminator.
GrownBufsize_Slip == IF Len(strval) + 1 < strval_bufsize THEN strval_bufsize
                                                         ELSE strval_bufsize * 2
GrownBufsize == IF Len(strval) + 1 < strval_bufsize - 1 THEN strval_bufsize
                                                        ELSE strval_bufsize * 2

add_char_to_strval(ch) ==
    /\ strval' = Append(strval, ch)
    /\ strval_bufsize' = GrownBufsize

\* "}}" or "}}}": a repeated first character belongs to the delimiter.
EndWidth_Slip == Len(DelimEnd) + 1
EndWidth == IF Char(i + Len(DelimEnd)) = DelimEnd[1] THEN Len(DelimEnd) + 1
                                                     ELSE Len(DelimEnd)

\* A character that starts like a delimiter and is none moves the column by
\* the delimiter's length less one.
TextColumns ==
    IF Char(i) = DelimBegin[1] THEN Len(DelimBegin) - 1
    ELSE IF Char(i) = DelimEnd[1] THEN Len(DelimEnd) - 1 ELSE 1
-----------------------------------------------------------------------------
Init ==
    /\ str \in Inputs
    /\ i = 0 /\ row = 0 /\ col = 0
    /\ strval = <<>> /\ strval_bufsize = STRVAL_INITIAL_BUFSIZE
    /\ tokens = <<>>
    /\ pc = "scan"

\* Every opening tag but a plain one takes its sigil along; the column
\* follows the tag, short of the character the loop itself steps over.
OpenTag(type, width, columns) ==
    /\ Scanning /\ OpensTag
    /\ Emit(type)
    /\ i' = i + width
    /\ col' = col + columns
    /\ UNCHANGED <<str, pc>>

SectionTag ==
    /\ Sigil = "#"
    /\ OpenTag(SECTION_TAG_START, Len(DelimBegin) + 1, Len(DelimBegin))

CloseTag ==
    /\ Sigil = "/"
    /\ OpenTag(CLOSE_TAG_START, Len(DelimBegin) + 1, Len(DelimBegin))

PartialTag ==
    /\ Sigil = ">"
    /\ OpenTag(PARTIAL_TAG, Len(DelimBegin) + 1, 0)

UnescapedValueTag ==
    /\ Sigil \in {"&", DelimBegin[1]} \ {"#", "/", ">"}
    /\ OpenTag(UNESC_VALUE_TAG_START, Len(DelimBegin) + 1, Len(DelimBegin))

ValueTag ==
    /\ Sigil \notin {"#", "/", ">", "&", DelimBegin[1]}
    /\ OpenTag(VALUE_TAG_START, Len(DelimBegin), Len(DelimBegin) - 1)

TagEnd ==
    /\ Scanning /\ ~OpensTag /\ ClosesTag
    /\ Emit(TAG_END)
    /\ i' = i + EndWidth
    /\ col' = col + EndWidth - 1
    /\ UNCHANGED <<str, pc>>

NewLine ==
    /\ Scanning /\ ~OpensTag /\ ~ClosesTag /\ EndsLine
    /\ add_char_to_strval(Char(i))
    /\ i' = i + 1
    /\ row' = row + 1 /\ col' = 0
    /\ UNCHANGED <<str, tokens, pc>>

Text ==
    /\ Scanning /\ ~OpensTag /\ ~ClosesTag /\ ~EndsLine
    /\ add_char_to_strval(Char(i))
    /\ i' = i + 1
    /\ col' = col + TextColumns
    /\ UNCHANGED <<str, row, tokens, pc>>

\* Past the end of the template.
Finish ==
    /\ pc = "scan" /\ i >= Len(str)
    /\ tokens' = WithEoi
    /\ col' = col + Len(strval)
    /\ strval' = <<>>
    /\ pc' = "done"
    /\ UNCHANGED <<str, i, row, strval_bufsize>>

Returned == pc = "done" /\ UNCHANGED vars

Next == \/ SectionTag \/ CloseTag \/ PartialTag \/ UnescapedValueTag \/ ValueTag
        \/ TagEnd \/ NewLine \/ Text
        \/ Finish \/ Returned

Spec == Init /\ [][Next]_vars
-----------------------------------------------------------------------------
\* The variables keep their types, positions of tokens counting from one.
TypeOK ==
    /\ str \in Seq(Chars)
    /\ i \in Nat /\ row \in Nat /\ col \in Nat
    /\ strval \in Seq(Chars)
    /\ strval_bufsize \in Nat
    /\ tokens \in Seq(Token)
    /\ pc \in {"scan", "done"}

(***************************************************************************)
(* The text buffer always has room for the terminator that strdup and      *)
(* strcpy look for, however long the text and whenever it is doubled       *)
(* (add_char_to_strval): the doubling happens one character early.         *)
(***************************************************************************)
BufferHolds == Len(strval) + 1 < strval_bufsize

(***************************************************************************)
(* The scan ends at the end of the input.  The closing-tag branch looks at *)
(* str[i + delim_end_len] and skips it without testing the length, unlike  *)
(* the opening-tag branch: only the terminator keeps it inside.            *)
(***************************************************************************)
StaysInside == i <= Len(str)

(***************************************************************************)
(* What ctache_parse relies on to stop with a token still on its stack:    *)
(* the token list ends with an EOI and contains no other.                  *)
(***************************************************************************)
EoiIsLast ==
    /\ pc = "done" => Len(tokens) > 0
    /\ \A k \in 1 .. Len(tokens) :
            tokens[k].tok_type = EOI <=> pc = "done" /\ k = Len(tokens)

(***************************************************************************)
(* What the handlers of lib/render.c rely on when they take the key of a   *)
(* tag from one token: text is never empty and never split over two        *)
(* tokens, and only text has a value.                                      *)
(***************************************************************************)
TextIsMaximal ==
    /\ \A k \in 1 .. Len(tokens) :
            tokens[k].tok_type = STRING_TOK <=> Len(tokens[k].value) > 0
    /\ \A k \in 1 .. Len(tokens) - 1 :
            tokens[k].tok_type = STRING_TOK => tokens[k + 1].tok_type # STRING_TOK

(***************************************************************************)
(* row counts the lines before the scan whatever the branches skipped, so  *)
(* a tag's line in a syntax error is the line it stands on.                *)
(***************************************************************************)
LinesAreCounted == row = Cardinality({p \in 0 .. i - 1 : Char(p) = "\n"})

Occurs(value, delim) ==
    \E p \in 0 .. Len(value) - Len(delim) :
        \A k \in 1 .. Len(delim) : value[p + k] = delim[k]

(***************************************************************************)
(* Every delimiter becomes a tag (man/ctache.1:31-34): no text contains an *)
(* end delimiter, and only text that runs to the end of the input, where   *)
(* no tag fits any more, contains an opening one.                          *)
(***************************************************************************)
NoDelimiterInText ==
    pc = "done" =>
        \A k \in 1 .. Len(tokens) : tokens[k].tok_type = STRING_TOK =>
            /\ ~Occurs(tokens[k].value, DelimEnd)
            /\ Occurs(tokens[k].value, DelimBegin) => k = Len(tokens) - 1

\* The ways a token may have been spelled in the template.
Spellings(token) ==
    LET t == token.tok_type IN
    CASE t = SECTION_TAG_START     -> {DelimBegin \o <<"#">>}
      [] t = CLOSE_TAG_START       -> {DelimBegin \o <<"/">>}
      [] t = PARTIAL_TAG           -> {DelimBegin \o <<">">>}
      [] t = UNESC_VALUE_TAG_START -> {DelimBegin \o <<"&">>,
                                       DelimBegin \o <<DelimBegin[1]>>}
      [] t = VALUE_TAG_START       -> {DelimBegin}
      [] t = TAG_END               -> {DelimEnd, DelimEnd \o <<DelimEnd[1]>>}
      [] t = STRING_TOK            -> {token.value}
      [] t = EOI                   -> {<<>>}

\* The template reads like this between two positions.
Reads(p, q, text) ==
    q = p + Len(text) /\ \A k \in 1 .. Len(text) : Char(p + k - 1) = text[k]

\* The positions up to which a token may be read from one of those given.
Advance(positions, token) ==
    {q \in 0 .. Len(str) :
        \E p \in positions, text \in Spellings(token) : Reads(p, q, text)}

\* The positions up to which each beginning of a list may be read.
Reached(list) ==
    LET reached[k \in 0 .. Len(list)] ==
            IF k = 0 THEN {0} ELSE Advance(reached[k - 1], list[k])
    IN reached

(***************************************************************************)
(* Nothing of the template is lost, repeated or moved by any branch of     *)
(* ctache_lex: the tokens and the pending text spell what has been read.   *)
(***************************************************************************)
NothingLost ==
    LET list == Append(tokens, token_create(STRING_TOK, strval))
    IN i \in Reached(list)[Len(list)]
=============================================================================
