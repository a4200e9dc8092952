---------------------------- MODULE LexerProofs ----------------------------
(***************************************************************************)
(* Theorems about ctache_lex for every template, every pair of delimiters  *)
(* and every initial buffer size.                                          *)
(***************************************************************************)
EXTENDS Lexer, SequenceTheorems, FiniteSetTheorems, WellFoundedInduction, TLAPS

\* While scanning, text that has been made a token is followed by a tag.
TagIsLast ==
    pc = "scan" /\ Len(tokens) > 0 => tokens[Len(tokens)].tok_type # STRING_TOK

IInv == TypeOK /\ BufferHolds /\ StaysInside /\ EoiIsLast /\ TextIsMaximal /\ TagIsLast
-----------------------------------------------------------------------------
(***************************************************************************)
(* Only characters of the template match a delimiter: the terminator is in *)
(* no delimiter, so a match lies inside the input, and so does a character *)
(* equal to the first of the end delimiter.                                *)
(***************************************************************************)
LEMMA MatchLiesInside ==
    ASSUME TypeOK, i < Len(str), NEW delim \in Seq(Chars), Len(delim) > 0, Matches(delim)
    PROVE  i + Len(delim) <= Len(str)
<1>1. /\ Len(delim) \in Nat /\ Len(delim) \in 1 .. Len(delim)
      /\ delim[Len(delim)] \in Chars
  OBVIOUS
<1>2. Char(i + Len(delim) - 1) # NUL
  BY <1>1, CharsAssumption DEF Matches
<1>3. i \in Nat /\ Len(str) \in Nat
  BY DEF TypeOK
<1> QED
  BY <1>1, <1>2, <1>3 DEF Char

\* The skipped end delimiter, with or without its repeated character, lies
\* inside the template.
LEMMA TagEndLiesInside ==
    ASSUME TypeOK, i < Len(str), Matches(DelimEnd)
    PROVE  EndWidth \in Nat /\ EndWidth > 0 /\ i + EndWidth <= Len(str)
<1>1. i + Len(DelimEnd) <= Len(str)
  BY MatchLiesInside, DelimAssumption
<1>2. DelimEnd[1] \in Chars /\ Len(DelimEnd) \in Nat \ {0}
  BY DelimAssumption
<1>3. i \in Nat /\ Len(str) \in Nat
  BY DEF TypeOK
<1> QED
  BY <1>1, <1>2, <1>3, CharsAssumption DEF EndWidth, Char

\* A token made of the current position is a token, whatever its value.
LEMMA TokenCreateType ==
    ASSUME TypeOK, NEW type \in Terminals, NEW value \in Seq(Chars)
    PROVE  /\ token_create(type, value) \in Token
           /\ token_create(type, value).tok_type = type
           /\ token_create(type, value).value = value
BY DEF TypeOK, token_create, Token

\* The list with the pending text: one more token, of text, if there is any.
LEMMA FlushedShape ==
    ASSUME IInv, pc = "scan"
    PROVE  /\ Flushed \in Seq(Token)
           /\ \A k \in 1 .. Len(Flushed) :
                /\ Flushed[k].tok_type # EOI
                /\ Flushed[k].tok_type = STRING_TOK <=> Len(Flushed[k].value) > 0
           /\ \A k \in 1 .. Len(Flushed) - 1 :
                Flushed[k].tok_type = STRING_TOK => Flushed[k + 1].tok_type # STRING_TOK
<1> DEFINE text == token_create(STRING_TOK, strval)
<1>1. STRING_TOK \in Terminals /\ STRING_TOK # EOI
  BY DEF STRING_TOK, Terminals, EOI, SECTION_TAG_START
<1>2. /\ text \in Token /\ text.tok_type = STRING_TOK /\ text.value = strval
  BY <1>1, TokenCreateType DEF IInv, TypeOK
<1>3. /\ tokens \in Seq(Token)
      /\ \A k \in 1 .. Len(tokens) : tokens[k].tok_type # EOI
      /\ TextIsMaximal /\ TagIsLast
  BY DEF IInv, TypeOK, EoiIsLast
<1>4. CASE Len(strval) = 0
  BY <1>3, <1>4 DEF Flushed, TextIsMaximal
<1>5. CASE Len(strval) > 0
  <2> HIDE DEF text
  <2>1. Flushed = Append(tokens, text)
    BY <1>5 DEF Flushed, text
  <2>2. /\ Flushed \in Seq(Token) /\ Len(Flushed) = Len(tokens) + 1
        /\ Flushed[Len(tokens) + 1] = text
        /\ \A k \in 1 .. Len(tokens) : Flushed[k] = tokens[k]
    BY <2>1, <1>2, <1>3
  <2>3. Len(tokens) \in Nat
    BY <1>3
  <2>4. ASSUME NEW k \in 1 .. Len(Flushed)
        PROVE  /\ Flushed[k].tok_type # EOI
               /\ Flushed[k].tok_type = STRING_TOK <=> Len(Flushed[k].value) > 0
    <3>1. CASE k = Len(tokens) + 1
      BY <3>1, <2>2, <1>1, <1>2, <1>5
    <3>2. CASE k \in 1 .. Len(tokens)
      BY <3>2, <2>2, <1>3 DEF TextIsMaximal
    <3> QED
      BY <3>1, <3>2, <2>2, <2>3
  <2>5. ASSUME NEW k \in 1 .. Len(Flushed) - 1
        PROVE  Flushed[k].tok_type = STRING_TOK => Flushed[k + 1].tok_type # STRING_TOK
    <3>1. CASE k = Len(tokens)
      BY <3>1, <2>2, <2>3, <1>3 DEF TagIsLast
    <3>2. CASE k \in 1 .. Len(tokens) - 1
      BY <3>2, <2>2, <2>3, <1>3 DEF TextIsMaximal
    <3> QED
      BY <3>1, <3>2, <2>2, <2>3
  <2> QED
    BY <2>2, <2>4, <2>5
<1>6. Len(strval) \in Nat
  BY DEF IInv, TypeOK
<1> QED
  BY <1>4, <1>5, <1>6
-----------------------------------------------------------------------------
(***************************************************************************)
(* A step that ends with Emit(type) for a tag token keeps the invariant,   *)
(* provided it stays in the loop and inside the template.                  *)
(***************************************************************************)
LEMMA EmitKeepsInvariant ==
    ASSUME IInv, pc = "scan", UNCHANGED <<str, pc>>,
           i' \in Nat, i' <= Len(str), col' \in Nat,
           NEW type \in Terminals, type # STRING_TOK, type # EOI,
           Emit(type)
    PROVE  IInv'
<1> DEFINE tag == token_create(type, <<>>)
<1>1. /\ Flushed \in Seq(Token)
      /\ \A k \in 1 .. Len(Flushed) :
            /\ Flushed[k].tok_type # EOI
            /\ Flushed[k].tok_type = STRING_TOK <=> Len(Flushed[k].value) > 0
      /\ \A k \in 1 .. Len(Flushed) - 1 :
            Flushed[k].tok_type = STRING_TOK => Flushed[k + 1].tok_type # STRING_TOK
  BY FlushedShape
<1>2. tag \in Token /\ tag.tok_type = type /\ tag.value = <<>> /\ <<>> \in Seq(Chars)
  <2>1. <<>> \in Seq(Chars) /\ TypeOK
    BY DEF IInv
  <2> QED
    BY <2>1, TokenCreateType
<1>3. tokens' = Append(Flushed, tag) /\ strval' = <<>> /\ UNCHANGED <<row, strval_bufsize>>
  BY DEF Emit
<1> HIDE DEF tag
<1>4. /\ tokens' \in Seq(Token) /\ Len(tokens') = Len(Flushed) + 1
      /\ tokens'[Len(Flushed) + 1] = tag
      /\ \A k \in 1 .. Len(Flushed) : tokens'[k] = Flushed[k]
      /\ Len(Flushed) \in Nat
  BY <1>1, <1>2, <1>3
<1>5. TypeOK'
  BY <1>2, <1>3, <1>4 DEF IInv, TypeOK
<1>6. BufferHolds'
  BY <1>3 DEF IInv, TypeOK, BufferHolds
<1>7. StaysInside'
  BY DEF StaysInside
<1>8. EoiIsLast'
  BY <1>1, <1>2, <1>4 DEF EoiIsLast
<1>9. \A k \in 1 .. Len(tokens') :
        tokens'[k].tok_type = STRING_TOK <=> Len(tokens'[k].value) > 0
  BY <1>1, <1>2, <1>4
<1>10. \A k \in 1 .. Len(tokens') - 1 :
        tokens'[k].tok_type = STRING_TOK => tokens'[k + 1].tok_type # STRING_TOK
  <2> SUFFICES ASSUME NEW k \in 1 .. Len(tokens') - 1
               PROVE  tokens'[k].tok_type = STRING_TOK
                         => tokens'[k + 1].tok_type # STRING_TOK
    OBVIOUS
  <2>1. CASE k = Len(Flushed)
    BY <2>1, <1>2, <1>4
  <2>2. CASE k \in 1 .. Len(Flushed) - 1
    BY <2>2, <1>1, <1>4
  <2> QED
    BY <2>1, <2>2, <1>4
<1>11. TextIsMaximal'
  BY <1>9, <1>10 DEF TextIsMaximal
<1>12. TagIsLast'
  BY <1>2, <1>4 DEF TagIsLast
<1> QED
  BY <1>5, <1>6, <1>7, <1>8, <1>11, <1>12 DEF IInv

\* An opening tag is read with room to spare: OpensTag leaves a character.
LEMMA OpenTagKeepsInvariant ==
    ASSUME IInv, NEW type \in Terminals, type # STRING_TOK, type # EOI,
           NEW width \in Nat, width <= Len(DelimBegin) + 1,
           NEW columns \in Nat,
           OpenTag(type, width, columns)
    PROVE  IInv'
<1>1. pc = "scan" /\ UNCHANGED <<str, pc>> /\ Emit(type) /\ i' = i + width
      /\ col' = col + columns /\ i + Len(DelimBegin) + 1 < Len(str)
  BY DEF OpenTag, Scanning, OpensTag
<1>2. i \in Nat /\ col \in Nat /\ Len(str) \in Nat /\ Len(DelimBegin) \in Nat
  BY DelimAssumption DEF IInv, TypeOK
<1>3. i' \in Nat /\ i' <= Len(str) /\ col' \in Nat
  BY <1>1, <1>2
<1> QED
  BY <1>1, <1>3, EmitKeepsInvariant

LEMMA TagEndKeepsInvariant == ASSUME IInv, TagEnd PROVE IInv'
<1>1. pc = "scan" /\ UNCHANGED <<str, pc>> /\ Emit(TAG_END) /\ i' = i + EndWidth
      /\ col' = col + EndWidth - 1 /\ i < Len(str) /\ Matches(DelimEnd)
  BY DEF TagEnd, Scanning, ClosesTag
<1>2. EndWidth \in Nat /\ EndWidth > 0 /\ i + EndWidth <= Len(str)
  BY <1>1, TagEndLiesInside DEF IInv
<1>3. i \in Nat /\ col \in Nat
  BY DEF IInv, TypeOK
<1>4. i' \in Nat /\ i' <= Len(str) /\ col' \in Nat
  BY <1>1, <1>2, <1>3
<1>5. TAG_END \in Terminals /\ TAG_END # STRING_TOK /\ TAG_END # EOI
  BY DEF TAG_END, Terminals, SECTION_TAG_START, EOI, STRING_TOK
<1> QED
  BY <1>1, <1>4, <1>5, EmitKeepsInvariant

(***************************************************************************)
(* Adding a character keeps the invariant: when the test before the store  *)
(* fails the length is two short of the size, which then doubles.          *)
(***************************************************************************)
LEMMA AddCharKeepsInvariant ==
    ASSUME IInv, Scanning, add_char_to_strval(Char(i)), i' = i + 1,
           row' \in Nat, col' \in Nat, UNCHANGED <<str, tokens, pc>>
    PROVE  IInv'
<1>1. i \in Nat /\ i < Len(str) /\ str \in Seq(Chars) /\ pc = "scan"
  BY DEF IInv, TypeOK, Scanning
<1>2. Char(i) \in Chars
  BY <1>1 DEF Char
<1>3. strval' = Append(strval, Char(i)) /\ strval_bufsize' = GrownBufsize
  BY DEF add_char_to_strval
<1>4. strval \in Seq(Chars) /\ Len(strval) \in Nat /\ strval_bufsize \in Nat
      /\ Len(strval) + 1 < strval_bufsize
  BY DEF IInv, TypeOK, BufferHolds
<1>5. strval' \in Seq(Chars) /\ Len(strval') = Len(strval) + 1
  BY <1>2, <1>3, <1>4
<1>6. strval_bufsize' \in Nat /\ Len(strval) + 2 < strval_bufsize'
  BY <1>3, <1>4 DEF GrownBufsize
<1>7. TypeOK'
  BY <1>1, <1>5, <1>6 DEF IInv, TypeOK
<1>8. BufferHolds'
  BY <1>4, <1>5, <1>6 DEF BufferHolds
<1>9. StaysInside'
  BY <1>1 DEF StaysInside
<1>10. EoiIsLast' /\ TextIsMaximal' /\ TagIsLast'
  BY DEF IInv, EoiIsLast, TextIsMaximal, TagIsLast
<1> QED
  BY <1>7, <1>8, <1>9, <1>10 DEF IInv

LEMMA FinishKeepsInvariant == ASSUME IInv, Finish PROVE IInv'
<1> DEFINE eoi == [token_create(EOI, <<>>) EXCEPT !.character = @ + Len(strval)]
<1>1. /\ Flushed \in Seq(Token)
      /\ \A k \in 1 .. Len(Flushed) :
            /\ Flushed[k].tok_type # EOI
            /\ Flushed[k].tok_type = STRING_TOK <=> Len(Flushed[k].value) > 0
      /\ \A k \in 1 .. Len(Flushed) - 1 :
            Flushed[k].tok_type = STRING_TOK => Flushed[k + 1].tok_type # STRING_TOK
  BY FlushedShape DEF Finish
<1>2. /\ Len(strval) \in Nat /\ row \in Nat /\ col \in Nat /\ EOI \in Terminals
      /\ <<>> \in Seq(Chars) /\ EOI # STRING_TOK
  BY DEF IInv, TypeOK, EOI, Terminals, SECTION_TAG_START, STRING_TOK
<1>3. eoi \in Token /\ eoi.tok_type = EOI /\ eoi.value = <<>>
  <2>1. eoi = [tok_type |-> EOI, value |-> <<>>, line |-> row + 1,
               character |-> col + 1 + Len(strval)]
    BY DEF token_create
  <2>2. row + 1 \in Nat \ {0} /\ col + 1 + Len(strval) \in Nat \ {0}
    BY <1>2
  <2> HIDE DEF eoi
  <2> QED
    BY <1>2, <2>1, <2>2 DEF Token
<1>4. tokens' = Append(Flushed, eoi) /\ pc' = "done" /\ strval' = <<>>
      /\ col' = col + Len(strval) /\ UNCHANGED <<str, i, row, strval_bufsize>>
  BY DEF Finish, WithEoi
<1> HIDE DEF eoi
<1>5. /\ tokens' \in Seq(Token) /\ Len(tokens') = Len(Flushed) + 1
      /\ tokens'[Len(Flushed) + 1] = eoi
      /\ \A k \in 1 .. Len(Flushed) : tokens'[k] = Flushed[k]
      /\ Len(Flushed) \in Nat
  BY <1>1, <1>3, <1>4
<1>6. TypeOK'
  BY <1>2, <1>4, <1>5 DEF IInv, TypeOK
<1>7. BufferHolds' /\ StaysInside' /\ TagIsLast'
  BY <1>4 DEF IInv, TypeOK, BufferHolds, StaysInside, TagIsLast
<1>8. EoiIsLast'
  BY <1>1, <1>3, <1>4, <1>5 DEF EoiIsLast
<1>9. \A k \in 1 .. Len(tokens') :
        tokens'[k].tok_type = STRING_TOK <=> Len(tokens'[k].value) > 0
  BY <1>1, <1>2, <1>3, <1>5
<1>10. \A k \in 1 .. Len(tokens') - 1 :
        tokens'[k].tok_type = STRING_TOK => tokens'[k + 1].tok_type # STRING_TOK
  <2> SUFFICES ASSUME NEW k \in 1 .. Len(tokens') - 1
               PROVE  tokens'[k].tok_type = STRING_TOK
                         => tokens'[k + 1].tok_type # STRING_TOK
    OBVIOUS
  <2>1. CASE k = Len(Flushed)
    BY <2>1, <1>2, <1>3, <1>5
  <2>2. CASE k \in 1 .. Len(Flushed) - 1
    BY <2>2, <1>1, <1>5
  <2> QED
    BY <2>1, <2>2, <1>5
<1> QED
  BY <1>6, <1>7, <1>8, <1>9, <1>10 DEF IInv, TextIsMaximal
-----------------------------------------------------------------------------
\* The invariant holds before the first character.
LEMMA InitInvariant == Init => IInv
BY CharsAssumption, BufsizeAssumption
   DEF Init, IInv, TypeOK, BufferHolds, StaysInside, EoiIsLast, TextIsMaximal, TagIsLast

\* Every branch of the loop and its end keep the invariant.
LEMMA NextInvariant == IInv /\ [Next]_vars => IInv'
<1> SUFFICES ASSUME IInv, [Next]_vars PROVE IInv'
  OBVIOUS
<1>1. Len(DelimBegin) \in Nat \ {0}
  BY DelimAssumption
<1>2. \A type \in TagStarts : type \in Terminals /\ type # STRING_TOK /\ type # EOI
  BY DEF TagStarts, Terminals, SECTION_TAG_START, PARTIAL_TAG, STRING_TOK, EOI
<1>3. {SECTION_TAG_START, CLOSE_TAG_START, VALUE_TAG_START, UNESC_VALUE_TAG_START,
       PARTIAL_TAG} \subseteq TagStarts
  BY DEF TagStarts, SECTION_TAG_START, CLOSE_TAG_START, VALUE_TAG_START,
         UNESC_VALUE_TAG_START, PARTIAL_TAG
<1>4. CASE SectionTag
  BY <1>1, <1>2, <1>3, <1>4, OpenTagKeepsInvariant DEF SectionTag
<1>5. CASE CloseTag
  BY <1>1, <1>2, <1>3, <1>5, OpenTagKeepsInvariant DEF CloseTag
<1>6. CASE PartialTag
  BY <1>1, <1>2, <1>3, <1>6, OpenTagKeepsInvariant DEF PartialTag
<1>7. CASE UnescapedValueTag
  BY <1>1, <1>2, <1>3, <1>7, OpenTagKeepsInvariant DEF UnescapedValueTag
<1>8. CASE ValueTag
  BY <1>1, <1>2, <1>3, <1>8, OpenTagKeepsInvariant DEF ValueTag
<1>9. CASE TagEnd
  BY <1>9, TagEndKeepsInvariant
<1>10. CASE NewLine
  BY <1>10, AddCharKeepsInvariant DEF NewLine, IInv, TypeOK
<1>11. CASE Text
  <2>1. TextColumns \in Nat
    BY DelimAssumption DEF TextColumns
  <2> QED
    BY <1>11, <2>1, AddCharKeepsInvariant DEF Text, IInv, TypeOK
<1>12. CASE Finish
  BY <1>12, FinishKeepsInvariant
<1>13. CASE UNCHANGED vars
  BY <1>13 DEF vars, IInv, TypeOK, BufferHolds, StaysInside, EoiIsLast,
               TextIsMaximal, TagIsLast
<1> QED
  BY <1>4, <1>5, <1>6, <1>7, <1>8, <1>9, <1>10, <1>11, <1>12, <1>13 DEF Next, Returned
-----------------------------------------------------------------------------
\* No delimiter reaches over the end of a line.
DelimsInLine ==
    /\ \A k \in 1 .. Len(DelimBegin) : DelimBegin[k] # "\n"
    /\ \A k \in 1 .. Len(DelimEnd) : DelimEnd[k] # "\n"

InLine(text) == \A k \in 1 .. Len(text) : text[k] # "\n"

\* What the branches test, at any position.
MatchesAt(p, delim) == \A k \in 1 .. Len(delim) : Char(p + k - 1) = delim[k]
OpensAt(p) == p + Len(DelimBegin) + 1 < Len(str) /\ MatchesAt(p, DelimBegin)
ClosesAt(p) == Char(p) # DelimBegin[1] /\ MatchesAt(p, DelimEnd)

\* The list of tokens spells the template up to a position.
Spells(list, q) ==
    \E ends \in [0 .. Len(list) -> 0 .. Len(str)] :
        /\ ends[0] = 0 /\ ends[Len(list)] = q
        /\ \A k \in 1 .. Len(list) :
              \E text \in Spellings(list[k]) : Reads(ends[k - 1], ends[k], text)

\* Where the text that is being read begins.
From == i - Len(strval)

\* The tokens spell the template up to where the pending text begins.
Legible == From \in Nat /\ Spells(tokens, From) /\ Reads(From, i, strval)

\* A character followed by what begins and what ends with it.
LEMMA Longer ==
    ASSUME NEW text \in Seq(Chars), NEW ch \in Chars
    PROVE  /\ text \o <<ch>> \in Seq(Chars) /\ Len(text \o <<ch>>) = Len(text) + 1
           /\ Len(text) \in Nat
           /\ \A k \in 1 .. Len(text) : (text \o <<ch>>)[k] = text[k]
           /\ (text \o <<ch>>)[Len(text) + 1] = ch
  OBVIOUS

\* A list that spells the template up to a position, and a token that may
\* stand there.
LEMMA OneMore ==
    ASSUME str \in Seq(Chars), NEW list \in Seq(Token), NEW token \in Token,
           NEW p \in Nat, Spells(list, p),
           NEW text \in Spellings(token), Len(text) \in Nat,
           NEW q \in 0 .. Len(str), Reads(p, q, text)
    PROVE  Spells(Append(list, token), q)
<1> DEFINE more == Append(list, token)
           len == Len(list)
<1>1. /\ Len(more) = len + 1 /\ len \in Nat /\ more[len + 1] = token
      /\ \A k \in 1 .. len : more[k] = list[k]
  OBVIOUS
<1>2. PICK ends \in [0 .. len -> 0 .. Len(str)] :
         /\ ends[0] = 0 /\ ends[len] = p
         /\ \A k \in 1 .. len :
               \E t \in Spellings(list[k]) : Reads(ends[k - 1], ends[k], t)
  BY DEF Spells
<1> HIDE DEF more, len
<1> DEFINE longer == [k \in 0 .. len + 1 |-> IF k = len + 1 THEN q ELSE ends[k]]
<1>3. /\ longer \in [0 .. len + 1 -> 0 .. Len(str)]
      /\ longer[0] = 0 /\ longer[len + 1] = q /\ longer[len] = p
      /\ \A k \in 0 .. len : longer[k] = ends[k]
  BY <1>1, <1>2
<1> HIDE DEF longer
<1>4. ASSUME NEW k \in 1 .. len + 1
      PROVE  \E t \in Spellings(more[k]) : Reads(longer[k - 1], longer[k], t)
  <2>1. CASE k = len + 1
    <3>1. k - 1 = len
      BY <2>1, <1>1
    <3> QED BY <2>1, <3>1, <1>1, <1>3
  <2>2. CASE k # len + 1
    <3>1. k \in 1 .. len /\ k - 1 \in 0 .. len /\ k \in 0 .. len
      BY <2>2, <1>1
    <3> QED BY <3>1, <1>1, <1>2, <1>3
  <2> QED BY <2>1, <2>2
<1> QED BY <1>1, <1>3, <1>4 DEF Spells, more

\* How each token is spelled.
LEMMA SpelledAs ==
    ASSUME NEW token
    PROVE  /\ token.tok_type = SECTION_TAG_START => Spellings(token) = {DelimBegin \o <<"#">>}
           /\ token.tok_type = CLOSE_TAG_START => Spellings(token) = {DelimBegin \o <<"/">>}
           /\ token.tok_type = PARTIAL_TAG => Spellings(token) = {DelimBegin \o <<">">>}
           /\ token.tok_type = UNESC_VALUE_TAG_START =>
                 Spellings(token) = {DelimBegin \o <<"&">>, DelimBegin \o <<DelimBegin[1]>>}
           /\ token.tok_type = VALUE_TAG_START => Spellings(token) = {DelimBegin}
           /\ token.tok_type = TAG_END =>
                 Spellings(token) = {DelimEnd, DelimEnd \o <<DelimEnd[1]>>}
           /\ token.tok_type = STRING_TOK => Spellings(token) = {token.value}
           /\ token.tok_type = EOI => Spellings(token) = {<<>>}
<1> USE DEF SECTION_TAG_START, CLOSE_TAG_START, PARTIAL_TAG,
           UNESC_VALUE_TAG_START, VALUE_TAG_START, TAG_END, STRING_TOK, EOI
<1>1. token.tok_type = SECTION_TAG_START => Spellings(token) = {DelimBegin \o <<"#">>}
  BY DEF Spellings
<1>2. token.tok_type = CLOSE_TAG_START => Spellings(token) = {DelimBegin \o <<"/">>}
  BY DEF Spellings
<1>3. token.tok_type = PARTIAL_TAG => Spellings(token) = {DelimBegin \o <<">">>}
  BY DEF Spellings
<1>4. token.tok_type = UNESC_VALUE_TAG_START => Spellings(token) = {DelimBegin \o <<"&">>, DelimBegin \o <<DelimBegin[1]>>}
  BY DEF Spellings
<1>5. token.tok_type = VALUE_TAG_START => Spellings(token) = {DelimBegin}
  BY DEF Spellings
<1>6. token.tok_type = TAG_END => Spellings(token) = {DelimEnd, DelimEnd \o <<DelimEnd[1]>>}
  BY DEF Spellings
<1>7. token.tok_type = STRING_TOK => Spellings(token) = {token.value}
  BY DEF Spellings
<1>8. token.tok_type = EOI => Spellings(token) = {<<>>}
  BY DEF Spellings
<1> QED BY <1>1, <1>2, <1>3, <1>4, <1>5, <1>6, <1>7, <1>8

LEMMA TagTypes ==
    /\ \A type \in {SECTION_TAG_START, CLOSE_TAG_START, PARTIAL_TAG,
                    UNESC_VALUE_TAG_START, VALUE_TAG_START, TAG_END} :
          type \in Terminals /\ type # STRING_TOK /\ type # EOI
    /\ STRING_TOK \in Terminals /\ EOI \in Terminals /\ STRING_TOK # EOI
BY DEF Terminals, SECTION_TAG_START, CLOSE_TAG_START, PARTIAL_TAG,
       UNESC_VALUE_TAG_START, VALUE_TAG_START, TAG_END, STRING_TOK, EOI

\* A tag is a delimiter and what goes with it.
LEMMA TagReads ==
    ASSUME TypeOK, Scanning,
           \/ SectionTag \/ CloseTag \/ PartialTag \/ UnescapedValueTag \/ ValueTag \/ TagEnd
    PROVE  \E type \in Terminals, text \in Seq(Chars) :
              /\ type # STRING_TOK /\ type # EOI
              /\ Emit(type) /\ Reads(i, i', text) /\ Len(text) > 0
              /\ \A token : token.tok_type = type => text \in Spellings(token)
              /\ DelimsInLine => InLine(text)
              /\ OpensTag \/ ClosesTag
<1>0. /\ DelimBegin \in Seq(Chars) /\ Len(DelimBegin) \in Nat \ {0} /\ DelimBegin[1] \in Chars
      /\ DelimEnd \in Seq(Chars) /\ Len(DelimEnd) \in Nat \ {0} /\ DelimEnd[1] \in Chars
      /\ i \in Nat /\ Len(str) \in Nat /\ str \in Seq(Chars)
  BY DelimAssumption DEF TypeOK
<1>1. ASSUME OpensTag, NEW columns, NEW type,
             OpenTag(type, Len(DelimBegin) + 1, columns),
             \A token : token.tok_type = type => DelimBegin \o <<Sigil>> \in Spellings(token),
             DelimsInLine => Sigil # "\n"
      PROVE  \E text \in Seq(Chars) :
              /\ Emit(type) /\ Reads(i, i', text) /\ Len(text) > 0
              /\ \A token : token.tok_type = type => text \in Spellings(token)
              /\ DelimsInLine => InLine(text)
  <2> DEFINE text == DelimBegin \o <<Sigil>>
  <2>1. Sigil \in Chars
    BY <1>0, <1>1 DEF OpensTag, Sigil, Char
  <2>2. /\ text \in Seq(Chars) /\ Len(text) = Len(DelimBegin) + 1
        /\ \A k \in 1 .. Len(DelimBegin) : text[k] = DelimBegin[k]
        /\ text[Len(DelimBegin) + 1] = Sigil
    BY <1>0, <2>1, Longer
  <2>3. i' = i + Len(DelimBegin) + 1 /\ Emit(type) /\ Matches(DelimBegin)
    BY <1>0, <1>1 DEF OpenTag, OpensTag
  <2>4. \A token : token.tok_type = type => text \in Spellings(token)
    BY <1>1
  <2> HIDE DEF text
  <2>5. \A k \in 1 .. Len(text) : Char(i + k - 1) = text[k]
    <3> TAKE k \in 1 .. Len(text)
    <3>1. CASE k = Len(DelimBegin) + 1
      <4>1. i + k - 1 = i + Len(DelimBegin)
        BY <3>1, <1>0
      <4> QED BY <3>1, <4>1, <2>2 DEF Sigil
    <3>2. CASE k \in 1 .. Len(DelimBegin)
      BY <3>2, <2>2, <2>3 DEF Matches
    <3> QED BY <3>1, <3>2, <1>0, <2>2
  <2>6. DelimsInLine => InLine(text)
    <3> SUFFICES ASSUME DelimsInLine, NEW k \in 1 .. Len(text) PROVE text[k] # "\n"
      BY DEF InLine
    <3>1. CASE k = Len(DelimBegin) + 1
      BY <3>1, <1>1, <2>2
    <3>2. CASE k \in 1 .. Len(DelimBegin)
      BY <3>2, <2>2 DEF DelimsInLine
    <3> QED BY <3>1, <3>2, <1>0, <2>2
  <2>7. Reads(i, i', text)
    BY <1>0, <2>2, <2>3, <2>5 DEF Reads
  <2>8. Len(text) > 0
    BY <1>0, <2>2
  <2> QED BY <2>2, <2>3, <2>4, <2>6, <2>7, <2>8
<1>2. CASE SectionTag
  <2>1. Sigil = "#" /\ OpensTag /\ OpenTag(SECTION_TAG_START, Len(DelimBegin) + 1, Len(DelimBegin))
    BY <1>2 DEF SectionTag, OpenTag
  <2>2. \A token : token.tok_type = SECTION_TAG_START => DelimBegin \o <<Sigil>> \in Spellings(token)
    BY <2>1, SpelledAs
  <2>3. Sigil # "\n"
    BY <2>1
  <2> QED BY <2>1, <2>2, <2>3, <1>1, TagTypes
<1>3. CASE CloseTag
  <2>1. Sigil = "/" /\ OpensTag /\ OpenTag(CLOSE_TAG_START, Len(DelimBegin) + 1, Len(DelimBegin))
    BY <1>3 DEF CloseTag, OpenTag
  <2>2. \A token : token.tok_type = CLOSE_TAG_START => DelimBegin \o <<Sigil>> \in Spellings(token)
    BY <2>1, SpelledAs
  <2>3. Sigil # "\n"
    BY <2>1
  <2> QED BY <2>1, <2>2, <2>3, <1>1, TagTypes
<1>4. CASE PartialTag
  <2>1. Sigil = ">" /\ OpensTag /\ OpenTag(PARTIAL_TAG, Len(DelimBegin) + 1, 0)
    BY <1>4 DEF PartialTag, OpenTag
  <2>2. \A token : token.tok_type = PARTIAL_TAG => DelimBegin \o <<Sigil>> \in Spellings(token)
    BY <2>1, SpelledAs
  <2>3. Sigil # "\n"
    BY <2>1
  <2> QED BY <2>1, <2>2, <2>3, <1>1, TagTypes
<1>5. CASE UnescapedValueTag
  <2>1. /\ Sigil = "&" \/ Sigil = DelimBegin[1]
        /\ OpensTag /\ OpenTag(UNESC_VALUE_TAG_START, Len(DelimBegin) + 1, Len(DelimBegin))
    BY <1>5 DEF UnescapedValueTag, OpenTag
  <2>2. \A token : token.tok_type = UNESC_VALUE_TAG_START => DelimBegin \o <<Sigil>> \in Spellings(token)
    BY <2>1, SpelledAs
  <2>3. DelimsInLine => Sigil # "\n"
    BY <2>1, <1>0 DEF DelimsInLine
  <2> QED BY <2>1, <2>2, <2>3, <1>1, TagTypes
<1>6. CASE ValueTag
  <2>1. /\ OpensTag /\ Matches(DelimBegin) /\ Emit(VALUE_TAG_START) /\ i' = i + Len(DelimBegin)
    BY <1>6 DEF ValueTag, OpenTag, OpensTag
  <2>2. \A token : token.tok_type = VALUE_TAG_START => DelimBegin \in Spellings(token)
    BY SpelledAs
  <2>3. Reads(i, i', DelimBegin)
    BY <2>1 DEF Reads, Matches
  <2>4. DelimsInLine => InLine(DelimBegin)
    BY DEF DelimsInLine, InLine
  <2> QED BY <2>1, <2>2, <2>3, <2>4, <1>0, TagTypes
<1>7. CASE TagEnd
  <2>1. /\ ClosesTag /\ Matches(DelimEnd) /\ Emit(TAG_END) /\ i' = i + EndWidth
    BY <1>7 DEF TagEnd, ClosesTag
  <2> DEFINE long == DelimEnd \o <<DelimEnd[1]>>
  <2>2. \A token : token.tok_type = TAG_END => DelimEnd \in Spellings(token) /\ long \in Spellings(token)
    BY SpelledAs
  <2>3. CASE Char(i + Len(DelimEnd)) # DelimEnd[1]
    <3>1. Reads(i, i', DelimEnd)
      BY <2>1, <2>3 DEF Reads, Matches, EndWidth
    <3>2. DelimsInLine => InLine(DelimEnd)
      BY DEF DelimsInLine, InLine
    <3> QED BY <2>1, <2>2, <3>1, <3>2, <1>0, TagTypes
  <2>4. CASE Char(i + Len(DelimEnd)) = DelimEnd[1]
    <3>1. /\ long \in Seq(Chars) /\ Len(long) = Len(DelimEnd) + 1
          /\ \A k \in 1 .. Len(DelimEnd) : long[k] = DelimEnd[k]
          /\ long[Len(DelimEnd) + 1] = DelimEnd[1]
      BY <1>0, Longer
    <3> HIDE DEF long
    <3>2. \A k \in 1 .. Len(long) : Char(i + k - 1) = long[k]
      <4> TAKE k \in 1 .. Len(long)
      <4>1. CASE k = Len(DelimEnd) + 1
        <5>1. i + k - 1 = i + Len(DelimEnd)
          BY <4>1, <1>0
        <5> QED BY <4>1, <5>1, <2>4, <3>1
      <4>2. CASE k \in 1 .. Len(DelimEnd)
        BY <4>2, <2>1, <3>1 DEF Matches
      <4> QED BY <4>1, <4>2, <1>0, <3>1
    <3>3. Reads(i, i', long)
      BY <2>1, <2>4, <3>1, <3>2, <1>0 DEF Reads, EndWidth
    <3>4. DelimsInLine => InLine(long)
      <4> SUFFICES ASSUME DelimsInLine, NEW k \in 1 .. Len(long) PROVE long[k] # "\n"
        BY DEF InLine
      <4>1. CASE k = Len(DelimEnd) + 1
        BY <4>1, <3>1, <1>0 DEF DelimsInLine
      <4>2. CASE k \in 1 .. Len(DelimEnd)
        BY <4>2, <3>1 DEF DelimsInLine
      <4> QED BY <4>1, <4>2, <1>0, <3>1
    <3>5. Len(long) > 0
      BY <1>0, <3>1
    <3> QED BY <2>1, <2>2, <3>1, <3>3, <3>4, <3>5, TagTypes
  <2> QED BY <2>3, <2>4
<1> QED BY <1>2, <1>3, <1>4, <1>5, <1>6, <1>7
-----------------------------------------------------------------------------
LEMMA TextToken ==
    ASSUME TypeOK
    PROVE  /\ token_create(STRING_TOK, strval) \in Token
           /\ token_create(STRING_TOK, strval).tok_type = STRING_TOK
           /\ token_create(STRING_TOK, strval).value = strval
<1>1. STRING_TOK \in Terminals /\ strval \in Seq(Chars)
  BY TagTypes DEF TypeOK
<1> QED BY <1>1, TokenCreateType

LEMMA FlushedSpells ==
    ASSUME IInv, Legible
    PROVE  Spells(Flushed, i)
<1>1. /\ str \in Seq(Chars) /\ tokens \in Seq(Token) /\ strval \in Seq(Chars)
      /\ i \in 0 .. Len(str) /\ Len(strval) \in Nat
      /\ From \in Nat /\ Spells(tokens, From) /\ Reads(From, i, strval)
  BY DEF IInv, TypeOK, StaysInside, Legible
<1>2. CASE Len(strval) > 0
  <2> DEFINE text == token_create(STRING_TOK, strval)
  <2>1. text \in Token /\ text.tok_type = STRING_TOK /\ text.value = strval
    BY TextToken DEF IInv
  <2>2. Flushed = Append(tokens, text)
    BY <1>2 DEF Flushed
  <2> HIDE DEF text
  <2>3. strval \in Spellings(text)
    BY <2>1, SpelledAs
  <2> DEFINE from == From
             value == strval
  <2>4. from \in Nat /\ Spells(tokens, from) /\ Reads(from, i, value) /\ value \in Spellings(text)
        /\ Len(value) \in Nat
    BY <1>1, <2>3
  <2> HIDE DEF from, value
  <2> QED BY <1>1, <2>1, <2>2, <2>4, OneMore
<1>3. CASE ~(Len(strval) > 0)
  BY <1>1, <1>3 DEF Flushed, Reads
<1> QED BY <1>2, <1>3

LEMMA SpellsSame ==
    ASSUME str' = str, NEW list, NEW q, Spells(list, q)
    PROVE  Spells(list, q)'
<1>1. \A p, r, text : Reads(p, r, text)' <=> Reads(p, r, text)
  BY DEF Reads, Char
<1>2. \A token : Spellings(token)' = Spellings(token)
  OBVIOUS
<1> QED BY <1>1, <1>2 DEF Spells

\* A tag follows the pending text.
LEMMA LegibleTag ==
    ASSUME IInv, Legible, Scanning, i' \in 0 .. Len(str), str' = str,
           NEW type \in Terminals, type # STRING_TOK, type # EOI, Emit(type),
           NEW text \in Seq(Chars), Reads(i, i', text),
           \A token : token.tok_type = type => text \in Spellings(token)
    PROVE  Legible'
<1> DEFINE tag == token_create(type, <<>>)
<1>1. /\ str \in Seq(Chars) /\ i \in Nat /\ Flushed \in Seq(Token) /\ Len(text) \in Nat
  BY FlushedShape DEF IInv, TypeOK, Scanning
<1>2. tag \in Token /\ tag.tok_type = type
  <2>1. <<>> \in Seq(Chars) /\ TypeOK
    BY DEF IInv
  <2> QED BY <2>1, TokenCreateType
<1>3. tokens' = Append(Flushed, tag) /\ strval' = <<>>
  BY DEF Emit
<1> HIDE DEF tag
<1>4. text \in Spellings(tag)
  BY <1>2
<1>5. PICK q \in 0 .. Len(str) : q = i'
  OBVIOUS
<1> DEFINE list == Flushed
<1>6. list \in Seq(Token) /\ Spells(list, i) /\ tokens' = Append(list, tag)
  BY <1>1, <1>3, FlushedSpells
<1> HIDE DEF list
<1>7. Spells(Append(list, tag), q)
  BY <1>1, <1>2, <1>4, <1>5, <1>6, OneMore
<1>8. From' = i' /\ i' \in Nat
  <2>1. q \in Nat /\ q - 0 = q
    OBVIOUS
  <2> QED BY <2>1, <1>3, <1>5 DEF From
<1>9. Spells(tokens, From)'
  <2>1. PICK more : more = Append(list, tag)
    OBVIOUS
  <2>2. Spells(more, q)'
    BY <2>1, <1>7, SpellsSame
  <2> QED BY <2>1, <2>2, <1>5, <1>6, <1>8 DEF Spells
<1>10. Reads(From, i, strval)'
  BY <1>3, <1>8 DEF Reads
<1> QED BY <1>8, <1>9, <1>10 DEF Legible

LEMMA LegibleText ==
    ASSUME IInv, Legible, Scanning, add_char_to_strval(Char(i)), i' = i + 1,
           str' = str, tokens' = tokens
    PROVE  Legible' /\ From' = From
<1>1. /\ strval \in Seq(Chars) /\ Len(strval) \in Nat /\ i \in Nat /\ Char(i) \in Chars
      /\ From \in Nat /\ Spells(tokens, From) /\ Reads(From, i, strval)
  BY DEF IInv, TypeOK, Legible, Scanning, Char
<1>2. /\ Len(strval') = Len(strval) + 1 /\ strval'[Len(strval) + 1] = Char(i)
      /\ \A k \in 1 .. Len(strval) : strval'[k] = strval[k]
  BY <1>1 DEF add_char_to_strval
<1>3. From' = From
  BY <1>1, <1>2 DEF From
<1>4. Spells(tokens, From)'
  <2>1. PICK list, q : list = tokens /\ q = From
    OBVIOUS
  <2>2. Spells(list, q)'
    BY <1>1, <2>1, SpellsSame
  <2> QED BY <1>3, <2>1, <2>2
<1>5. Reads(From, i, strval)'
  <2>1. i' = From + Len(strval')
    BY <1>1, <1>2 DEF From
  <2>2. ASSUME NEW k \in 1 .. Len(strval') PROVE Char(From + k - 1)' = strval'[k]
    <3>1. Char(From + k - 1)' = Char(From + k - 1)
      BY <1>3 DEF Char
    <3>2. CASE k = Len(strval) + 1
      <4>1. From + k - 1 = i
        BY <3>2, <1>1 DEF From
      <4> QED BY <3>1, <3>2, <4>1, <1>2
    <3>3. CASE k \in 1 .. Len(strval)
      BY <3>1, <3>3, <1>1, <1>2 DEF Reads
    <3> QED BY <3>2, <3>3, <1>1, <1>2
  <2> QED BY <2>1, <2>2, <1>3 DEF Reads, Char
<1> QED BY <1>1, <1>3, <1>4, <1>5 DEF Legible

LEMMA LegibleEnd ==
    ASSUME IInv, Legible, Finish
    PROVE  Legible'
<1> DEFINE eoi == [token_create(EOI, <<>>) EXCEPT !.character = @ + Len(strval)]
<1>1. /\ str \in Seq(Chars) /\ i \in 0 .. Len(str) /\ Flushed \in Seq(Token)
      /\ Len(strval) \in Nat /\ row \in Nat /\ col \in Nat
  BY FlushedShape DEF IInv, TypeOK, StaysInside, Finish
<1>2. eoi \in Token /\ eoi.tok_type = EOI
  <2>1. eoi = [tok_type |-> EOI, value |-> <<>>, line |-> row + 1,
               character |-> col + 1 + Len(strval)]
    BY DEF token_create
  <2>2. row + 1 \in Nat \ {0} /\ col + 1 + Len(strval) \in Nat \ {0} /\ EOI \in Terminals
        /\ <<>> \in Seq(Chars)
    BY <1>1, TagTypes
  <2> HIDE DEF eoi
  <2> QED BY <2>1, <2>2 DEF Token
<1>3. tokens' = Append(Flushed, eoi) /\ strval' = <<>> /\ i' = i /\ str' = str
  BY DEF Finish, WithEoi
<1> HIDE DEF eoi
<1>4. <<>> \in Spellings(eoi)
  BY <1>2, SpelledAs
<1>5. Reads(i, i, <<>>)
  BY <1>1 DEF Reads
<1> DEFINE list == Flushed
           none == <<>>
<1>6. list \in Seq(Token) /\ Spells(list, i) /\ tokens' = Append(list, eoi)
      /\ none \in Spellings(eoi) /\ Reads(i, i, none) /\ Len(none) \in Nat
  BY <1>1, <1>3, <1>4, <1>5, FlushedSpells
<1> HIDE DEF list, none
<1>7. Spells(Append(list, eoi), i)
  BY <1>1, <1>2, <1>6, OneMore
<1>8. From' = i /\ i \in Nat
  BY <1>1, <1>3 DEF From
<1>9. Spells(tokens, From)'
  <2>1. PICK more, q : more = Append(list, eoi) /\ q = i
    OBVIOUS
  <2>2. Spells(more, q)'
    BY <2>1, <1>3, <1>7, SpellsSame
  <2> QED BY <2>1, <2>2, <1>6, <1>8
<1>10. Reads(From, i, strval)'
  BY <1>3, <1>8 DEF Reads
<1> QED BY <1>8, <1>9, <1>10 DEF Legible

LEMMA LegibleStep ==
    ASSUME IInv, Legible, [Next]_vars
    PROVE  Legible'
<1>1. CASE SectionTag \/ CloseTag \/ PartialTag \/ UnescapedValueTag \/ ValueTag \/ TagEnd
  <2>1. Scanning /\ str' = str
    BY <1>1 DEF SectionTag, CloseTag, PartialTag, UnescapedValueTag, ValueTag, TagEnd, OpenTag
  <2>2. i' \in 0 .. Len(str)
    BY <2>1, NextInvariant DEF IInv, TypeOK, StaysInside
  <2>3. PICK type \in Terminals, text \in Seq(Chars) :
           /\ type # STRING_TOK /\ type # EOI
           /\ Emit(type) /\ Reads(i, i', text)
           /\ \A token : token.tok_type = type => text \in Spellings(token)
    BY <1>1, <2>1, TagReads DEF IInv
  <2> QED BY <2>1, <2>2, <2>3, LegibleTag
<1>2. CASE NewLine \/ Text
  BY <1>2, LegibleText DEF NewLine, Text
<1>3. CASE Finish
  BY <1>3, LegibleEnd
<1>4. CASE Returned \/ UNCHANGED vars
  <2>1. str' = str /\ i' = i /\ strval' = strval /\ tokens' = tokens
    BY <1>4 DEF Returned, vars
  <2>2. PICK list, q : list = tokens /\ q = From
    OBVIOUS
  <2>3. Spells(list, q)'
    BY <2>1, <2>2, SpellsSame DEF Legible
  <2>4. From' = From
    BY <2>1 DEF From
  <2> QED BY <2>1, <2>2, <2>3, <2>4 DEF Legible, Reads, Char
<1> QED BY <1>1, <1>2, <1>3, <1>4 DEF Next
-----------------------------------------------------------------------------
\* The two delimiters do not begin alike, and the one that ends a tag is at
\* least two characters long.
DelimsDiffer == DelimBegin[1] # DelimEnd[1] /\ Len(DelimEnd) > 1

\* In the pending text, no position opens or closes a tag.
Untagged == \A p \in From .. i - 1 : ~OpensAt(p) /\ ~ClosesAt(p)

CleanTokens ==
    pc = "scan" =>
        \A k \in 1 .. Len(tokens) : tokens[k].tok_type = STRING_TOK =>
            ~Occurs(tokens[k].value, DelimEnd) /\ ~Occurs(tokens[k].value, DelimBegin)

Clean == Untagged /\ CleanTokens /\ NoDelimiterInText

\* What occurs in the pending text stands in the template.
LEMMA OccursAt ==
    ASSUME IInv, Legible, NEW delim \in Seq(Chars), Occurs(strval, delim)
    PROVE  \E p \in From .. i - Len(delim) : MatchesAt(p, delim)
<1>1. /\ strval \in Seq(Chars) /\ Len(strval) \in Nat /\ Len(delim) \in Nat /\ i \in Nat
      /\ From \in Nat /\ From = i - Len(strval) /\ Reads(From, i, strval)
  BY DEF IInv, TypeOK, Legible, From
<1>2. PICK p \in 0 .. Len(strval) - Len(delim) : \A k \in 1 .. Len(delim) : strval[p + k] = delim[k]
  BY DEF Occurs
<1>3. From + p \in From .. i - Len(delim)
  BY <1>1
<1>4. ASSUME NEW k \in 1 .. Len(delim)
      PROVE  Char(From + p + k - 1) = delim[k]
  <2>1. p + k \in 1 .. Len(strval) /\ From + (p + k) - 1 = From + p + k - 1
    BY <1>1
  <2>2. Char(From + (p + k) - 1) = strval[p + k]
    BY <2>1, <1>1 DEF Reads
  <2> QED BY <2>1, <2>2, <1>2
<1> QED BY <1>3, <1>4 DEF MatchesAt

LEMMA NoneInText ==
    ASSUME IInv, Legible, Untagged, DelimsDiffer
    PROVE  /\ ~Occurs(strval, DelimEnd)
           /\ Occurs(strval, DelimBegin) => Len(str) <= i + 1
<1>0. /\ DelimBegin \in Seq(Chars) /\ Len(DelimBegin) \in Nat \ {0}
      /\ DelimEnd \in Seq(Chars) /\ Len(DelimEnd) \in Nat \ {0}
      /\ i \in Nat /\ From \in Nat /\ Len(str) \in Nat
  BY DelimAssumption DEF IInv, TypeOK, Legible
<1>1. ASSUME Occurs(strval, DelimEnd) PROVE FALSE
  <2>1. PICK p \in From .. i - Len(DelimEnd) : MatchesAt(p, DelimEnd)
    BY <1>0, <1>1, OccursAt
  <2>2. p \in From .. i - 1 /\ p + 1 - 1 = p
    BY <1>0, <2>1
  <2>3. Char(p) = DelimEnd[1]
    BY <1>0, <2>1, <2>2 DEF MatchesAt
  <2> QED BY <2>1, <2>2, <2>3 DEF Untagged, ClosesAt, DelimsDiffer
<1>2. ASSUME Occurs(strval, DelimBegin) PROVE Len(str) <= i + 1
  <2>1. PICK p \in From .. i - Len(DelimBegin) : MatchesAt(p, DelimBegin)
    BY <1>0, <1>2, OccursAt
  <2>2. p \in From .. i - 1
    BY <1>0, <2>1
  <2>3. ~(p + Len(DelimBegin) + 1 < Len(str))
    BY <2>1, <2>2 DEF Untagged, OpensAt
  <2> QED BY <1>0, <2>2, <2>3
<1> QED BY <1>1, <1>2

\* Where a tag is still to come, the text before it is clean.
LEMMA FlushedClean ==
    ASSUME IInv, Legible, Untagged, CleanTokens, DelimsDiffer, pc = "scan", i + 1 < Len(str)
    PROVE  \A k \in 1 .. Len(Flushed) : Flushed[k].tok_type = STRING_TOK =>
              ~Occurs(Flushed[k].value, DelimEnd) /\ ~Occurs(Flushed[k].value, DelimBegin)
<1>1. ~Occurs(strval, DelimEnd) /\ ~Occurs(strval, DelimBegin)
  <2>1. i \in Nat /\ Len(str) \in Nat
    BY DEF IInv, TypeOK
  <2> QED BY <2>1, NoneInText
<1>2. \A k \in 1 .. Len(tokens) : tokens[k].tok_type = STRING_TOK =>
         ~Occurs(tokens[k].value, DelimEnd) /\ ~Occurs(tokens[k].value, DelimBegin)
  BY DEF CleanTokens
<1>3. CASE Len(strval) > 0
  <2> DEFINE text == token_create(STRING_TOK, strval)
  <2>1. text \in Token /\ text.value = strval /\ tokens \in Seq(Token)
    BY TextToken DEF IInv, TypeOK
  <2>2. Flushed = Append(tokens, text)
    BY <1>3 DEF Flushed
  <2> HIDE DEF text
  <2>3. \A k \in 1 .. Len(Flushed) : Flushed[k] = text \/ (k \in 1 .. Len(tokens) /\ Flushed[k] = tokens[k])
    BY <2>1, <2>2
  <2> QED BY <2>1, <2>3, <1>1, <1>2
<1>4. CASE ~(Len(strval) > 0)
  BY <1>2, <1>4 DEF Flushed
<1> QED BY <1>3, <1>4

LEMMA CleanTag ==
    ASSUME IInv, Legible, Clean, DelimsDiffer, Scanning, OpensTag \/ ClosesTag,
           i' \in Nat, str' = str, pc' = pc, NEW type \in Terminals, type # STRING_TOK, Emit(type)
    PROVE  Clean'
<1> DEFINE tag == token_create(type, <<>>)
<1>1. i + 1 < Len(str)
  <2>1. i \in Nat /\ Len(str) \in Nat /\ Len(DelimBegin) \in Nat \ {0} /\ Len(DelimEnd) \in Nat
    BY DelimAssumption DEF IInv, TypeOK
  <2>2. CASE OpensTag
    BY <2>1, <2>2 DEF OpensTag
  <2>3. CASE ClosesTag
    <3>1. i + Len(DelimEnd) <= Len(str)
      BY <2>3, DelimAssumption, MatchLiesInside DEF IInv, ClosesTag, Scanning
    <3> QED BY <2>1, <3>1 DEF DelimsDiffer
  <2> QED BY <2>2, <2>3
<1>2. tag \in Token /\ tag.tok_type = type
  <2>1. <<>> \in Seq(Chars) /\ TypeOK
    BY DEF IInv
  <2> QED BY <2>1, TokenCreateType
<1>3. tokens' = Append(Flushed, tag) /\ strval' = <<>> /\ Flushed \in Seq(Token) /\ pc' = "scan"
  BY FlushedShape DEF Emit, Scanning
<1> HIDE DEF tag
<1>4. \A k \in 1 .. Len(tokens') : tokens'[k] = tag \/ (k \in 1 .. Len(Flushed) /\ tokens'[k] = Flushed[k])
  BY <1>2, <1>3
<1>5. CleanTokens'
  <2>1. \A k \in 1 .. Len(Flushed) : Flushed[k].tok_type = STRING_TOK =>
            ~Occurs(Flushed[k].value, DelimEnd) /\ ~Occurs(Flushed[k].value, DelimBegin)
    BY <1>1, FlushedClean DEF Clean, Scanning
  <2> SUFFICES ASSUME NEW k \in 1 .. Len(tokens'), tokens'[k].tok_type = STRING_TOK
               PROVE  ~Occurs(tokens'[k].value, DelimEnd) /\ ~Occurs(tokens'[k].value, DelimBegin)
    BY DEF CleanTokens, Occurs
  <2>2. k \in 1 .. Len(Flushed) /\ tokens'[k] = Flushed[k]
    BY <1>2, <1>4
  <2> QED BY <2>1, <2>2
<1>6. Untagged'
  <2>1. From' = i' /\ i' \in Nat
    <3>1. Len(strval') = 0
      BY <1>3
    <3>2. PICK q \in Nat : q = i'
      OBVIOUS
    <3>3. q - 0 = q
      OBVIOUS
    <3> QED BY <3>1, <3>2, <3>3 DEF From
  <2>2. From' .. i' - 1 = {}
    <3>1. PICK q \in Nat : q = i' /\ q = From'
      BY <2>1
    <3>2. q .. q - 1 = {}
      OBVIOUS
    <3> QED BY <3>1, <3>2
  <2> QED BY <2>2 DEF Untagged
<1>7. NoDelimiterInText'
  BY <1>3 DEF NoDelimiterInText
<1> QED BY <1>5, <1>6, <1>7 DEF Clean

LEMMA CleanText ==
    ASSUME IInv, Legible, Clean, Scanning, add_char_to_strval(Char(i)), i' = i + 1,
           str' = str, tokens' = tokens, pc' = pc, ~OpensTag, ~ClosesTag
    PROVE  Clean'
<1>1. From' = From /\ From \in Nat /\ i \in Nat
  BY LegibleText DEF Legible, IInv, TypeOK
<1>2. \A p : (OpensAt(p)' <=> OpensAt(p)) /\ (ClosesAt(p)' <=> ClosesAt(p))
  BY DEF OpensAt, ClosesAt, MatchesAt, Char
<1>3. ~OpensAt(i) /\ ~ClosesAt(i)
  BY DEF OpensAt, ClosesAt, MatchesAt, OpensTag, ClosesTag, Matches
<1>4. Untagged'
  <2>1. \A p \in From .. (i + 1) - 1 : p \in From .. i - 1 \/ p = i
    BY <1>1
  <2> QED BY <2>1, <1>1, <1>2, <1>3 DEF Clean, Untagged
<1>5. CleanTokens' /\ NoDelimiterInText'
  BY DEF Clean, CleanTokens, NoDelimiterInText, Occurs
<1> QED BY <1>4, <1>5 DEF Clean

LEMMA CleanEnd ==
    ASSUME IInv, Legible, Clean, DelimsDiffer, Finish
    PROVE  Clean'
<1> DEFINE eoi == [token_create(EOI, <<>>) EXCEPT !.character = @ + Len(strval)]
<1>1. tokens' = Append(Flushed, eoi) /\ strval' = <<>> /\ i' = i /\ str' = str /\ pc' = "done"
      /\ pc = "scan" /\ Flushed \in Seq(Token) /\ i \in Nat /\ tokens \in Seq(Token)
  BY FlushedShape DEF Finish, WithEoi, IInv, TypeOK
<1>2. eoi \in Token /\ eoi.tok_type = EOI
  <2>1. eoi = [tok_type |-> EOI, value |-> <<>>, line |-> row + 1,
               character |-> col + 1 + Len(strval)]
    BY DEF token_create
  <2>2. row + 1 \in Nat \ {0} /\ col + 1 + Len(strval) \in Nat \ {0} /\ EOI \in Terminals
        /\ <<>> \in Seq(Chars)
    BY TagTypes DEF IInv, TypeOK
  <2> HIDE DEF eoi
  <2> QED BY <2>1, <2>2 DEF Token
<1> HIDE DEF eoi
<1>3. /\ Len(tokens') = Len(Flushed) + 1 /\ Len(Flushed) \in Nat /\ tokens'[Len(Flushed) + 1] = eoi
      /\ \A k \in 1 .. Len(Flushed) : tokens'[k] = Flushed[k]
  BY <1>1, <1>2
<1>4. ASSUME NEW k \in 1 .. Len(Flushed), Flushed[k].tok_type = STRING_TOK
      PROVE  /\ ~Occurs(Flushed[k].value, DelimEnd)
             /\ Occurs(Flushed[k].value, DelimBegin) => k = Len(Flushed)
  <2>1. \A j \in 1 .. Len(tokens) : tokens[j].tok_type = STRING_TOK =>
           ~Occurs(tokens[j].value, DelimEnd) /\ ~Occurs(tokens[j].value, DelimBegin)
    BY <1>1 DEF Clean, CleanTokens
  <2>2. CASE Len(strval) > 0
    <3> DEFINE text == token_create(STRING_TOK, strval)
    <3>1. text \in Token /\ text.value = strval
      BY TextToken DEF IInv
    <3>2. Flushed = Append(tokens, text)
      BY <2>2 DEF Flushed
    <3> HIDE DEF text
    <3>3. \/ k = Len(Flushed) /\ Flushed[k] = text
          \/ k \in 1 .. Len(tokens) /\ Flushed[k] = tokens[k]
      BY <1>1, <3>1, <3>2
    <3>4. ~Occurs(strval, DelimEnd)
      BY NoneInText DEF Clean
    <3> QED BY <3>1, <3>3, <3>4, <2>1, <1>4
  <2>3. CASE ~(Len(strval) > 0)
    BY <2>1, <2>3, <1>4 DEF Flushed
  <2> QED BY <2>2, <2>3
<1>5. NoDelimiterInText'
  <2> SUFFICES ASSUME NEW k \in 1 .. Len(tokens'), tokens'[k].tok_type = STRING_TOK
               PROVE  /\ ~Occurs(tokens'[k].value, DelimEnd)
                      /\ Occurs(tokens'[k].value, DelimBegin) => k = Len(tokens') - 1
    BY DEF NoDelimiterInText, Occurs
  <2>1. k # Len(Flushed) + 1
    BY <1>2, <1>3, TagTypes
  <2>2. k \in 1 .. Len(Flushed) /\ Len(tokens') - 1 = Len(Flushed)
    BY <1>3, <2>1
  <2> QED BY <2>2, <1>3, <1>4
<1>6. Untagged'
  <2>1. From' = i'
    <3>1. Len(strval') = 0
      BY <1>1
    <3> QED BY <3>1, <1>1 DEF From
  <2> QED BY <2>1, <1>1 DEF Untagged
<1>7. CleanTokens'
  BY <1>1 DEF CleanTokens
<1> QED BY <1>5, <1>6, <1>7 DEF Clean

LEMMA CleanStep ==
    ASSUME IInv, Legible, Clean, DelimsDiffer, [Next]_vars
    PROVE  Clean'
<1>1. CASE SectionTag \/ CloseTag \/ PartialTag \/ UnescapedValueTag \/ ValueTag \/ TagEnd
  <2>1. Scanning /\ str' = str /\ pc' = pc
    BY <1>1 DEF SectionTag, CloseTag, PartialTag, UnescapedValueTag, ValueTag, TagEnd, OpenTag
  <2>2. i' \in Nat
    BY NextInvariant DEF IInv, TypeOK
  <2>3. OpensTag \/ ClosesTag
    BY <1>1, <2>1, TagReads DEF IInv
  <2>4. PICK type \in Terminals : type # STRING_TOK /\ Emit(type)
    BY <1>1, <2>1, TagReads DEF IInv
  <2> QED BY <2>1, <2>2, <2>3, <2>4, CleanTag
<1>2. CASE NewLine \/ Text
  BY <1>2, CleanText DEF NewLine, Text
<1>3. CASE Finish
  BY <1>3, CleanEnd
<1>4. CASE Returned \/ UNCHANGED vars
  <2>1. UNCHANGED vars
    BY <1>4 DEF Returned
  <2>2. str' = str /\ i' = i /\ strval' = strval /\ tokens' = tokens /\ pc' = pc
    BY <2>1 DEF vars
  <2>3. Untagged'
    <3>1. From' = From
      BY <2>2 DEF From
    <3>2. \A p : (OpensAt(p)' <=> OpensAt(p)) /\ (ClosesAt(p)' <=> ClosesAt(p))
      BY <2>2 DEF OpensAt, ClosesAt, MatchesAt, Char
    <3> QED BY <2>2, <3>1, <3>2 DEF Clean, Untagged
  <2>4. CleanTokens' /\ NoDelimiterInText'
    BY <2>2 DEF Clean, CleanTokens, NoDelimiterInText, Occurs
  <2> QED BY <2>3, <2>4 DEF Clean
<1> QED BY <1>1, <1>2, <1>3, <1>4 DEF Next
-----------------------------------------------------------------------------
\* The ends of lines before a position.
Ends(q) == {p \in 0 .. q - 1 : Char(p) = "\n"}

LEMMA LinesFinite ==
    ASSUME NEW q \in Nat
    PROVE  IsFiniteSet(Ends(q)) /\ Cardinality(Ends(q)) \in Nat
<1>1. IsFiniteSet(0 .. q - 1) /\ Ends(q) \subseteq 0 .. q - 1
  BY FS_Interval DEF Ends
<1>2. IsFiniteSet(Ends(q))
  BY <1>1, FS_Subset
<1> QED BY <1>2, FS_CardinalityType

LEMMA LinesStep ==
    ASSUME IInv, LinesAreCounted, DelimsInLine, [Next]_vars
    PROVE  LinesAreCounted'
<1>0. /\ i \in Nat /\ row = Cardinality(Ends(i))
  BY DEF IInv, TypeOK, LinesAreCounted, Ends
<1> SUFFICES ASSUME str' = str PROVE row' = Cardinality(Ends(i'))
  <2>1. str' = str
    BY DEF Next, SectionTag, CloseTag, PartialTag, UnescapedValueTag, ValueTag, TagEnd, OpenTag,
           NewLine, Text, Finish, Returned, vars
  <2>2. row' = Cardinality(Ends(i')) => LinesAreCounted'
    BY <2>1 DEF LinesAreCounted, Ends, Char
  <2> QED BY <2>1, <2>2
<1>1. CASE SectionTag \/ CloseTag \/ PartialTag \/ UnescapedValueTag \/ ValueTag \/ TagEnd
  <2>1. Scanning
    BY <1>1 DEF SectionTag, CloseTag, PartialTag, UnescapedValueTag, ValueTag, TagEnd, OpenTag
  <2>2. PICK text \in Seq(Chars) : Reads(i, i', text) /\ InLine(text) /\ row' = row
    BY <1>1, <2>1, TagReads DEF IInv, Emit
  <2>3. Len(text) \in Nat /\ i' = i + Len(text)
    BY <2>2 DEF Reads
  <2>4. ASSUME NEW p \in i .. i' - 1 PROVE Char(p) # "\n"
    <3>1. p - i + 1 \in 1 .. Len(text) /\ i + (p - i + 1) - 1 = p
      BY <1>0, <2>3
    <3> QED BY <3>1, <2>2 DEF Reads, InLine
  <2>5. Ends(i') = Ends(i)
    <3>1. \A p : p \in 0 .. i' - 1 <=> p \in 0 .. i - 1 \/ p \in i .. i' - 1
      BY <1>0, <2>3
    <3> QED BY <2>4, <3>1 DEF Ends
  <2> QED BY <1>0, <2>2, <2>5
<1>2. CASE NewLine
  <2>1. i' = i + 1 /\ row' = row + 1 /\ Char(i) = "\n"
    BY <1>2 DEF NewLine, EndsLine
  <2>2. Ends(i + 1) = Ends(i) \cup {i} /\ i \notin Ends(i)
    <3>1. \A p : p \in 0 .. (i + 1) - 1 <=> p \in 0 .. i - 1 \/ p = i
      BY <1>0
    <3>2. i \notin 0 .. i - 1
      BY <1>0
    <3> QED BY <2>1, <3>1, <3>2 DEF Ends
  <2>3. Cardinality(Ends(i) \cup {i}) = Cardinality(Ends(i)) + 1
    BY <1>0, <2>2, LinesFinite, FS_AddElement
  <2> QED BY <1>0, <2>1, <2>2, <2>3
<1>3. CASE Text
  <2>1. i' = i + 1 /\ row' = row /\ ~EndsLine
    BY <1>3 DEF Text
  <2>2. Char(i) # "\n"
    <3>1. DelimBegin[1] # "\n" /\ DelimEnd[1] # "\n"
      BY DelimAssumption DEF DelimsInLine
    <3> QED BY <2>1, <3>1 DEF EndsLine
  <2>3. Ends(i + 1) = Ends(i)
    <3>1. \A p : p \in 0 .. (i + 1) - 1 <=> p \in 0 .. i - 1 \/ p = i
      BY <1>0
    <3> QED BY <2>2, <3>1 DEF Ends
  <2> QED BY <1>0, <2>1, <2>3
<1>4. CASE Finish \/ Returned \/ UNCHANGED vars
  BY <1>0, <1>4 DEF Finish, Returned, vars
<1> QED BY <1>1, <1>2, <1>3, <1>4 DEF Next
-----------------------------------------------------------------------------
\* The inductive invariant holds in every run of the lexer.
THEOREM Invariant == Spec => []IInv
BY InitInvariant, NextInvariant, PTL DEF Spec

\* The variables of ctache_lex keep their types.
THEOREM TypeCorrect == Spec => []TypeOK
BY Invariant, PTL DEF IInv

(***************************************************************************)
(* The text buffer of ctache_lex never lacks room for the terminator,      *)
(* whatever the length of the text between two tags.                       *)
(***************************************************************************)
THEOREM BufferNeverOverflows == Spec => []BufferHolds
BY Invariant, PTL DEF IInv

(***************************************************************************)
(* The scan never leaves a NUL-terminated template, although the branch    *)
(* for end delimiters looks ahead without testing the length.              *)
(***************************************************************************)
THEOREM ScanStaysInside == Spec => []StaysInside
BY Invariant, PTL DEF IInv

\* The token list ends with its only EOI when ctache_lex returns.
THEOREM EoiEndsTokens == Spec => []EoiIsLast
BY Invariant, PTL DEF IInv

\* Text is one non-empty token between two tags, and only text has a value.
THEOREM TextIsOneToken == Spec => []TextIsMaximal
BY Invariant, PTL DEF IInv

(***************************************************************************)
(* Whatever the template and the delimiters: nothing of the template is    *)
(* lost, repeated or moved.  There are positions, one after each token, up *)
(* to which the tokens spell the template, and the pending text spells the *)
(* rest of what has been read.                                             *)
(***************************************************************************)
THEOREM TokensSpellTemplate == Spec => []Legible
<1>1. Init => Legible
  <2> SUFFICES ASSUME Init PROVE Legible
    OBVIOUS
  <2>1. i = 0 /\ strval = <<>> /\ tokens = <<>> /\ Len(str) \in Nat
    BY CharsAssumption DEF Init
  <2>5. From = 0
    <3>1. i = 0 /\ Len(strval) = 0
      BY <2>1
    <3> QED BY <3>1 DEF From
  <2> DEFINE ends == [k \in {0} |-> 0]
  <2>2. ends \in [0 .. Len(tokens) -> 0 .. Len(str)] /\ ends[0] = 0 /\ Len(tokens) = 0
    BY <2>1
  <2> HIDE DEF ends
  <2>3. Spells(tokens, 0)
    BY <2>2 DEF Spells
  <2>4. Reads(0, 0, strval)
    BY <2>1 DEF Reads
  <2> QED BY <2>1, <2>3, <2>4, <2>5 DEF Legible
<1>2. IInv /\ Legible /\ [Next]_vars => Legible'
  BY LegibleStep
<1> QED BY <1>1, <1>2, Invariant, PTL DEF Spec

(***************************************************************************)
(* Reached is a recursive function: that its recursion has a solution and  *)
(* what it computes are proved by induction.                               *)
(***************************************************************************)
\* Induction, as a statement about sets.
LEMMA SetInduction ==
    ASSUME NEW S, 0 \in S, \A n \in Nat : n \in S => n + 1 \in S
    PROVE  Nat \subseteq S
<1> DEFINE T == Nat \ S
<1> SUFFICES ASSUME T # {} PROVE FALSE
  OBVIOUS
<1>1. \E x \in T : \A y \in T : ~(<<y, x>> \in OpToRel(<, Nat))
  <2>1. T \subseteq Nat
    OBVIOUS
  <2> HIDE DEF T
  <2> QED
    BY <2>1, NatLessThanWellFounded, WFMin
<1>2. PICK x \in T : \A y \in T : ~(<<y, x>> \in OpToRel(<, Nat))
  BY <1>1
<1>3. x \in Nat \ {0}
  OBVIOUS
<1>4. x - 1 \in Nat /\ x - 1 < x
  BY <1>3
<1>5. x - 1 \in T
  <2>1. x - 1 \notin S
    BY <1>3, <1>4
  <2> QED
    BY <1>4, <2>1
<1>6. <<x - 1, x>> \in OpToRel(<, Nat)
  BY <1>3, <1>4 DEF OpToRel
<1> QED
  BY <1>2, <1>5, <1>6

\* Each set of positions is computed from the one before.
LEMMA ReachedIs ==
    ASSUME NEW list, Len(list) \in Nat
    PROVE  /\ Reached(list)[0] = {0}
           /\ \A k \in 1 .. Len(list) :
                 Reached(list)[k] = Advance(Reached(list)[k - 1], list[k])
<1> DEFINE len == Len(list)
           step(f, k) == IF k = 0 THEN {0} ELSE Advance(f[k - 1], list[k])
           IsUpTo(f, n) == /\ f = [k \in 0 .. n |-> f[k]]
                           /\ f[0] = {0}
                           /\ \A k \in 1 .. n : f[k] = Advance(f[k - 1], list[k])
           S == {n \in Nat : \E f : IsUpTo(f, n)}
<1>1. 0 \in S
  <2> DEFINE g == [k \in 0 .. 0 |-> {0}]
  <2>1. IsUpTo(g, 0)
    OBVIOUS
  <2> QED BY <2>1
<1>2. ASSUME NEW n \in Nat, n \in S PROVE n + 1 \in S
  <2>1. PICK f : IsUpTo(f, n)
    BY <1>2
  <2> DEFINE last == Advance(f[n], list[n + 1])
             g == [k \in 0 .. n + 1 |-> IF k = n + 1 THEN last ELSE f[k]]
  <2> HIDE DEF last
  <2>2. g[0] = {0}
    BY <2>1
  <2>3. ASSUME NEW k \in 1 .. n + 1 PROVE g[k] = Advance(g[k - 1], list[k])
    <3>1. k - 1 \in 0 .. n + 1 /\ k - 1 # n + 1 /\ k \in 0 .. n + 1
      OBVIOUS
    <3>2. g[k - 1] = f[k - 1]
      BY <3>1
    <3>3. CASE k = n + 1
      <4>1. g[k] = last /\ k - 1 = n
        BY <3>1, <3>3
      <4> HIDE DEF g
      <4> QED BY <3>2, <3>3, <4>1 DEF last
    <3>4. CASE k # n + 1
      <4>1. k \in 1 .. n
        BY <3>4
      <4>2. g[k] = f[k]
        BY <3>1, <3>4
      <4> HIDE DEF g
      <4> QED BY <2>1, <3>2, <4>1, <4>2
    <3> QED BY <3>3, <3>4
  <2>4. g = [k \in 0 .. n + 1 |-> g[k]]
    OBVIOUS
  <2> HIDE DEF g
  <2>5. IsUpTo(g, n + 1)
    BY <2>2, <2>3, <2>4
  <2>6. n + 1 \in Nat
    OBVIOUS
  <2> HIDE DEF IsUpTo
  <2> QED BY <2>5, <2>6
<1>3. len \in S
  <2>1. Nat \subseteq S
    <3> HIDE DEF S
    <3> QED BY <1>1, <1>2, SetInduction
  <2> QED BY <2>1
<1>4. PICK f : IsUpTo(f, len)
  BY <1>3
<1>5. f = [k \in 0 .. len |-> step(f, k)]
  <2>1. ASSUME NEW k \in 0 .. len PROVE f[k] = step(f, k)
    <3>1. CASE k = 0
      BY <1>4, <3>1
    <3>2. CASE k # 0
      <4>1. k \in 1 .. len
        BY <3>2
      <4> QED BY <1>4, <3>2, <4>1
    <3> QED BY <3>1, <3>2
  <2>2. f = [k \in 0 .. len |-> f[k]]
    BY <1>4
  <2> QED BY <2>1, <2>2
<1>6. Reached(list) = [k \in 0 .. len |-> step(Reached(list), k)]
  BY <1>5, Zenon DEF Reached
<1> DEFINE g == Reached(list)
           h == [k \in 0 .. len |-> step(g, k)]
<1>7. /\ \A k \in 0 .. len : h[k] = step(g, k)
      /\ g = h
  BY <1>6
<1>8. 0 \in 0 .. len /\ \A k \in 1 .. len : k \in 0 .. len /\ k # 0
  OBVIOUS
<1> HIDE DEF g, h
<1>9. g[0] = {0} /\ \A k \in 1 .. len : g[k] = Advance(g[k - 1], list[k])
  BY <1>7, <1>8
<1> QED BY <1>9 DEF g

\* A position up to which a list spells the template is one that it reaches.
LEMMA SpelledIsReached ==
    ASSUME NEW list, Len(list) \in Nat, NEW q, Spells(list, q)
    PROVE  q \in Reached(list)[Len(list)]
<1> DEFINE len == Len(list)
           r == Reached(list)
<1>1. PICK ends \in [0 .. len -> 0 .. Len(str)] :
         /\ ends[0] = 0 /\ ends[len] = q
         /\ \A k \in 1 .. len :
               \E t \in Spellings(list[k]) : Reads(ends[k - 1], ends[k], t)
  BY DEF Spells
<1>2. r[0] = {0} /\ \A k \in 1 .. len : r[k] = Advance(r[k - 1], list[k])
  BY ReachedIs
<1> HIDE DEF r
<1> DEFINE S == {n \in Nat : n <= len => ends[n] \in r[n]}
<1>3. 0 \in S
  BY <1>1, <1>2
<1>4. ASSUME NEW n \in Nat, n \in S PROVE n + 1 \in S
  <2> SUFFICES ASSUME n + 1 <= len PROVE ends[n + 1] \in r[n + 1]
    OBVIOUS
  <2>1. ends[n] \in r[n] /\ n + 1 \in 1 .. len /\ (n + 1) - 1 = n /\ n + 1 \in 0 .. len
    BY <1>4
  <2>2. PICK t \in Spellings(list[n + 1]) : Reads(ends[n], ends[n + 1], t)
    BY <1>1, <2>1
  <2>3. r[n + 1] = Advance(r[n], list[n + 1])
    BY <1>2, <2>1
  <2>4. ends[n + 1] \in 0 .. Len(str)
    BY <1>1, <2>1
  <2> QED BY <2>1, <2>2, <2>3, <2>4 DEF Advance
<1>5. Nat \subseteq S
  <2> HIDE DEF S
  <2> QED BY <1>3, <1>4, SetInduction
<1>6. len \in S
  BY <1>5
<1> QED BY <1>1, <1>6 DEF r

(***************************************************************************)
(* For every template and all delimiters, the tokens of ctache_lex and the *)
(* pending text spell what has been read.                                  *)
(***************************************************************************)
THEOREM LosesNothing == Spec => []NothingLost
<1>1. IInv /\ Legible => NothingLost
  <2> SUFFICES ASSUME IInv, Legible PROVE NothingLost
    OBVIOUS
  <2> DEFINE text == token_create(STRING_TOK, strval)
             list == Append(tokens, text)
             from == From
  <2>1. /\ str \in Seq(Chars) /\ tokens \in Seq(Token) /\ i \in 0 .. Len(str)
        /\ Len(strval) \in Nat /\ from \in Nat /\ Spells(tokens, from)
        /\ Reads(from, i, strval)
    BY DEF IInv, TypeOK, StaysInside, Legible
  <2>2. text \in Token /\ strval \in Spellings(text)
    BY TextToken, SpelledAs DEF IInv
  <2>3. Len(list) \in Nat
    BY <2>1, <2>2
  <2> HIDE DEF text, from
  <2>4. Spells(list, i)
    BY <2>1, <2>2, OneMore
  <2> HIDE DEF list
  <2>5. i \in Reached(list)[Len(list)]
    BY <2>3, <2>4, SpelledIsReached
  <2> QED BY <2>5 DEF NothingLost, list, text
<1> QED BY <1>1, Invariant, TokensSpellTemplate, PTL

(***************************************************************************)
(* For every template, and for all delimiters that do not begin with the   *)
(* same character, the one that ends a tag being at least two long: what   *)
(* ctache_lex takes for text contains no delimiter, but for an opening one *)
(* so close to the end of the input that no tag follows.                   *)
(***************************************************************************)
THEOREM DelimitersAreTags ==
    ASSUME DelimsDiffer
    PROVE  Spec => []NoDelimiterInText
<1>1. Init => Clean
  BY CharsAssumption DEF Init, Clean, Untagged, CleanTokens, NoDelimiterInText, From
<1>2. IInv /\ Legible /\ Clean /\ [Next]_vars => Clean'
  BY DelimsDiffer, CleanStep
<1>3. Clean => NoDelimiterInText
  BY DEF Clean
<1> QED BY <1>1, <1>2, <1>3, Invariant, TokensSpellTemplate, PTL DEF Spec

(***************************************************************************)
(* For every template and all delimiters without an end of line: the row   *)
(* of ctache_lex is the number of lines that it has left behind.           *)
(***************************************************************************)
THEOREM LinesAreRight ==
    ASSUME DelimsInLine
    PROVE  Spec => []LinesAreCounted
<1>1. Init => LinesAreCounted
  <2> SUFFICES ASSUME Init PROVE LinesAreCounted
    OBVIOUS
  <2>1. {p \in 0 .. i - 1 : Char(p) = "\n"} = {} /\ row = 0
    BY DEF Init
  <2> QED BY <2>1, FS_EmptySet DEF LinesAreCounted
<1>2. IInv /\ LinesAreCounted /\ [Next]_vars => LinesAreCounted'
  BY DelimsInLine, LinesStep
<1> QED BY <1>1, <1>2, Invariant, PTL DEF Spec
=============================================================================
