--------------------------- MODULE EscapingProofs ---------------------------
(***************************************************************************)
(* Proofs about Escaping, for texts of every length: the buffer that the   *)
(* first pass counts is large enough for what the second writes, both ways *)
(* of writing agree on the place, and what is written reads as the text.   *)
(***************************************************************************)
EXTENDS Escaping, WellFoundedInduction, TLAPS

\* How much the pass that copies writes for a character.
Written(k) == IF str[k] \in DOMAIN ech THEN ech[str[k]].escaped_length ELSE 1

(***************************************************************************)
(* What the counting pass has reserved after each of the first n           *)
(* characters: at least what will be written for them.  The sum itself is  *)
(* not needed, only that a history of it exists.                           *)
(***************************************************************************)
Reserves(room, n) ==
    /\ room \in [0 .. n -> Nat]
    /\ room[n] = escaped_length
    /\ \A k \in 0 .. n : room[k] <= escaped_length
    /\ \A k \in 1 .. n : room[k] >= room[k - 1] + Written(k)

Inputs ==
    /\ str \in Seq(Chars) /\ escaping_type \in {"html", "tex"}
    /\ i \in 0 .. Len(str)

Counting ==
    pc = "count" =>
        /\ escaped_length \in 0 .. 6 * i
        /\ escaped_index = 0 /\ escaped_str = <<>>
        /\ \E room : Reserves(room, i)

\* The text so far, and zeros after it.
Filled ==
    /\ escaped_str \in Seq(Chars \cup {NUL}) /\ Len(escaped_str) = escaped_length + 1
    /\ \A k \in 1 .. escaped_length + 1 : escaped_str[k] = NUL <=> k > escaped_index

Copying ==
    pc \in {"copy", "done"} =>
        /\ escaped_length \in 0 .. 6 * Len(str)
        /\ escaped_index \in 0 .. escaped_length
        /\ Filled
        /\ \E room : Reserves(room, Len(str)) /\ escaped_index <= room[i]

IInv == Inputs /\ pc \in {"count", "copy", "done"} /\ Counting /\ Copying
-----------------------------------------------------------------------------
\* Texts written out: each element is a character.
LEMMA Text5 ==
    ASSUME NEW S, NEW a \in S, NEW b \in S, NEW c \in S, NEW d \in S, NEW e \in S
    PROVE  <<a, b, c, d, e>> \in Seq(S) /\ Len(<<a, b, c, d, e>>) = 5
  OBVIOUS

LEMMA Text4 ==
    ASSUME NEW S, NEW a \in S, NEW b \in S, NEW c \in S, NEW d \in S
    PROVE  <<a, b, c, d>> \in Seq(S) /\ Len(<<a, b, c, d>>) = 4
  OBVIOUS

LEMMA Text2 ==
    ASSUME NEW S, NEW a \in S, NEW b \in S
    PROVE  <<a, b>> \in Seq(S) /\ Len(<<a, b>>) = 2
  OBVIOUS

LEMMA Text1 ==
    ASSUME NEW S, NEW a \in S
    PROVE  <<a>> \in Seq(S) /\ Len(<<a>>) = 1
  OBVIOUS

\* The characters of the rows are characters.
LEMMA RowChars ==
    /\ "&" \in Chars /\ "a" \in Chars /\ "m" \in Chars /\ "p" \in Chars
    /\ "l" \in Chars /\ "t" \in Chars /\ "g" \in Chars /\ ";" \in Chars
    /\ Backslashed \subseteq Chars /\ "\\" \in Chars
<1> {"&", "a", "m", "p", "l", "t", "g", ";"} \cup Backslashed \subseteq Chars
  BY TextAssumption
<1> QED BY DEF Backslashed

LEMMA RowParts ==
    ASSUME NEW s, NEW n
    PROVE  Row(s, n).escaped = s /\ Row(s, n).escaped_length = n
  BY DEF Row

\* A row whose length is that of its text is as the tables' rows must be.
LEMMA RowIs ==
    ASSUME NEW row, NEW s \in Seq(Chars), NEW n \in 1 .. 5, Len(s) = n, row = Row(s, n)
    PROVE  row.escaped \in Seq(Chars) /\ row.escaped_length \in 1 .. 5
           /\ Len(row.escaped) = row.escaped_length
  BY RowParts

\* The tables: the lengths in them are those of the texts.
LEMMA Rows ==
    ASSUME Inputs, NEW c \in DOMAIN ech
    PROVE  /\ ech[c].escaped \in Seq(Chars)
           /\ ech[c].escaped_length \in 1 .. 5
           /\ Len(ech[c].escaped) = ech[c].escaped_length
<1>1. CASE escaping_type = "html"
  <2>1. c \in {"&", "<", ">"}
    BY <1>1 DEF ech, escape_chars
  <2>2. CASE c = "&"
    <3> DEFINE s == <<"&", "a", "m", "p", ";">>
    <3>1. ech[c] = Row(s, 5)
      BY <1>1, <2>2 DEF ech, escape_chars
    <3>2. s \in Seq(Chars) /\ Len(s) = 5
      BY RowChars, Text5
    <3> HIDE DEF s
    <3> QED BY <3>1, <3>2, RowIs
  <2>3. CASE c = "<"
    <3> DEFINE s == <<"&", "l", "t", ";">>
    <3>1. ech[c] = Row(s, 4)
      BY <1>1, <2>3 DEF ech, escape_chars
    <3>2. s \in Seq(Chars) /\ Len(s) = 4
      BY RowChars, Text4
    <3> HIDE DEF s
    <3> QED BY <3>1, <3>2, RowIs
  <2>4. CASE c = ">"
    <3> DEFINE s == <<"&", "g", "t", ";">>
    <3>1. ech[c] = Row(s, 4)
      BY <1>1, <2>4 DEF ech, escape_chars
    <3>2. s \in Seq(Chars) /\ Len(s) = 4
      BY RowChars, Text4
    <3> HIDE DEF s
    <3> QED BY <3>1, <3>2, RowIs
  <2> QED BY <2>1, <2>2, <2>3, <2>4
<1>2. CASE escaping_type = "tex"
  <2>1. c \in Backslashed
    BY <1>2 DEF ech, escape_chars
  <2> DEFINE s == <<"\\", c>>
  <2>2. ech[c] = Row(s, 2)
    BY <1>2, <2>1 DEF ech, escape_chars
  <2>3. c \in Chars /\ "\\" \in Chars
    BY <2>1, RowChars
  <2>4. s \in Seq(Chars) /\ Len(s) = 2
    BY <2>3
  <2> HIDE DEF s
  <2> QED BY <2>2, <2>4, RowIs
<1> QED BY <1>1, <1>2 DEF Inputs

\* What is written for a character.
LEMMA WrittenType ==
    ASSUME Inputs, NEW k \in 1 .. Len(str)
    PROVE  Written(k) \in 1 .. 5
  BY Rows DEF Written

\* strlen finds the end of the text.
LEMMA Terminated ==
    ASSUME Inputs, escaped_length \in Nat, escaped_index \in 0 .. escaped_length, Filled
    PROVE  strlen(escaped_str) = escaped_index
<1> DEFINE End(n) == /\ \A k \in 1 .. n : escaped_str[k] # NUL
                     /\ n < Len(escaped_str) => escaped_str[n + 1] = NUL
<1>1. escaped_index \in 0 .. Len(escaped_str) /\ End(escaped_index)
  BY DEF Filled
<1>2. \A n \in 0 .. Len(escaped_str) : End(n) => n = escaped_index
  <2> SUFFICES ASSUME NEW n \in 0 .. Len(escaped_str), End(n) PROVE n = escaped_index
    OBVIOUS
  <2>1. ~(n < escaped_index)
    BY DEF Filled
  <2>2. ~(n > escaped_index)
    <3> SUFFICES ASSUME n > escaped_index PROVE FALSE
      OBVIOUS
    <3>1. escaped_index + 1 \in 1 .. n /\ escaped_index + 1 \in 1 .. escaped_length + 1
      BY DEF Filled
    <3> QED BY <3>1 DEF Filled
  <2> QED BY <2>1, <2>2, <1>1
<1> DEFINE n0 == CHOOSE n \in 0 .. Len(escaped_str) : End(n)
<1>3. n0 \in 0 .. Len(escaped_str) /\ End(n0)
  <2> HIDE DEF End
  <2> QED BY <1>1
<1>4. strlen(escaped_str) = n0
  BY DEF strlen
<1> HIDE DEF n0, End
<1> QED BY <1>2, <1>3, <1>4

\* Writing a text without a zero, and zeros after it, at the end of the text.
LEMMA WriteKeeps ==
    ASSUME Inputs, escaped_length \in Nat, escaped_index \in 0 .. escaped_length, Filled,
           NEW text \in Seq(Chars \cup {NUL}), NEW n \in 1 .. Len(text),
           \A k \in 1 .. Len(text) : text[k] = NUL <=> k > n,
           escaped_index + n <= escaped_length,
           Len(text) <= n + 1,
           Write(text, escaped_index),
           escaped_index' = escaped_index + n, UNCHANGED escaped_length
    PROVE  Filled' /\ UNCHANGED pc
<1>1. escaped_index + Len(text) <= Len(escaped_str)
  BY DEF Filled
<1>2. /\ escaped_str' = [k \in DOMAIN escaped_str |->
                             IF k \in escaped_index + 1 .. escaped_index + Len(text)
                             THEN text[k - escaped_index] ELSE escaped_str[k]]
      /\ UNCHANGED pc
  BY <1>1 DEF Write
<1>3. DOMAIN escaped_str = 1 .. escaped_length + 1
  BY DEF Filled
<1>4. \A k \in 1 .. escaped_length + 1 :
         /\ escaped_str'[k] = IF k \in escaped_index + 1 .. escaped_index + Len(text)
                              THEN text[k - escaped_index] ELSE escaped_str[k]
         /\ escaped_str'[k] \in Chars \cup {NUL}
  <2> SUFFICES ASSUME NEW k \in 1 .. escaped_length + 1
               PROVE  /\ escaped_str'[k] = IF k \in escaped_index + 1 .. escaped_index + Len(text)
                              THEN text[k - escaped_index] ELSE escaped_str[k]
                      /\ escaped_str'[k] \in Chars \cup {NUL}
    OBVIOUS
  <2>1. escaped_str'[k] = IF k \in escaped_index + 1 .. escaped_index + Len(text)
                              THEN text[k - escaped_index] ELSE escaped_str[k]
    BY <1>2, <1>3
  <2>2. CASE k \in escaped_index + 1 .. escaped_index + Len(text)
    <3>1. k - escaped_index \in 1 .. Len(text)
      BY <2>2
    <3> QED BY <2>1, <2>2, <3>1
  <2>3. CASE k \notin escaped_index + 1 .. escaped_index + Len(text)
    BY <2>1, <2>3 DEF Filled
  <2> QED BY <2>1, <2>2, <2>3
<1>5. escaped_str' \in Seq(Chars \cup {NUL}) /\ Len(escaped_str') = escaped_length + 1
  <2>1. escaped_str' \in [1 .. escaped_length + 1 -> Chars \cup {NUL}]
    BY <1>2, <1>3, <1>4
  <2> QED BY <2>1
<1>6. \A k \in 1 .. escaped_length + 1 : escaped_str'[k] = NUL <=> k > escaped_index + n
  <2> SUFFICES ASSUME NEW k \in 1 .. escaped_length + 1
               PROVE  escaped_str'[k] = NUL <=> k > escaped_index + n
    OBVIOUS
  <2>1. CASE k \in escaped_index + 1 .. escaped_index + Len(text)
    <3>1. k - escaped_index \in 1 .. Len(text)
      BY <2>1
    <3>2. text[k - escaped_index] = NUL <=> k - escaped_index > n
      BY <3>1
    <3> QED BY <1>4, <2>1, <3>2
  <2>2. CASE k \notin escaped_index + 1 .. escaped_index + Len(text)
    BY <1>4, <2>2 DEF Filled
  <2> QED BY <2>1, <2>2
<1> QED BY <1>2, <1>5, <1>6 DEF Filled
-----------------------------------------------------------------------------
LEMMA Base == Init => IInv
<1> SUFFICES ASSUME Init PROVE IInv
  OBVIOUS
<1>1. Inputs
  <2>1. Strs \subseteq Seq(Chars)
    BY TextAssumption
  <2>2. str \in Seq(Chars) /\ Len(str) \in Nat
    BY <2>1 DEF Init
  <2> QED BY <2>2 DEF Init, Inputs
<1>2. Reserves([k \in 0 .. 0 |-> 0], 0)
  BY DEF Init, Reserves
<1> QED BY <1>1, <1>2 DEF Init, IInv, Counting, Copying

\* The history depends on nothing that a step of copying changes.
LEMMA SameRoom ==
    ASSUME UNCHANGED <<str, escaping_type, escaped_length>>, NEW room
    PROVE  Reserves(room, Len(str))' <=> Reserves(room, Len(str))
  BY DEF Reserves, Written, ech

LEMMA CountStep ==
    ASSUME IInv, Count
    PROVE  IInv'
<1>1. /\ Inputs /\ i \in Nat /\ Len(str) \in Nat /\ i + 1 \in 1 .. Len(str)
      /\ escaped_length \in 0 .. 6 * i
  BY DEF IInv, Inputs, Counting, Count
<1>2. PICK room : Reserves(room, i)
  BY DEF IInv, Counting, Count
<1>3. Written(i + 1) \in 1 .. 5 /\ Counted \in 1 .. 6 /\ Counted >= Written(i + 1)
  <2>1. Written(i + 1) \in 1 .. 5
    BY <1>1, WrittenType
  <2>2. Counted = Written(i + 1) + 1 \/ Counted = Written(i + 1)
    BY <2>1 DEF Counted, Written, Found
  <2> QED BY <2>1, <2>2
<1>4. escaped_length' = escaped_length + Counted /\ i' = i + 1
  BY DEF Count
<1>5. escaped_length' \in 0 .. 6 * i' /\ escaped_length' >= escaped_length + Written(i + 1)
      /\ escaped_length' \in Nat /\ escaped_length \in Nat
  BY <1>1, <1>3, <1>4
<1>6. PICK room2 : room2 = [k \in 0 .. i + 1 |-> IF k = i + 1 THEN escaped_length' ELSE room[k]]
  OBVIOUS
<1>7. Reserves(room2, i)'
  <2>1. \A k \in 0 .. i : room[k] \in Nat /\ room[k] <= escaped_length /\ room2[k] = room[k]
    BY <1>1, <1>2, <1>6 DEF Reserves
  <2>2. room2[i + 1] = escaped_length' /\ room[i] = escaped_length
    BY <1>1, <1>2, <1>6 DEF Reserves
  <2>3. \A k \in 0 .. i + 1 : k = i + 1 \/ k \in 0 .. i
    BY <1>1
  <2>4. \A k \in 0 .. i + 1 : room2[k] \in Nat /\ room2[k] <= escaped_length'
    <3> SUFFICES ASSUME NEW k \in 0 .. i + 1
                 PROVE  room2[k] \in Nat /\ room2[k] <= escaped_length'
      OBVIOUS
    <3>1. CASE k = i + 1
      BY <3>1, <2>2, <1>5
    <3>2. CASE k \in 0 .. i
      BY <3>2, <2>1, <1>3, <1>5
    <3> QED BY <2>3, <3>1, <3>2
  <2>5. \A k \in 1 .. i + 1 : room2[k] >= room2[k - 1] + Written(k)
    <3> SUFFICES ASSUME NEW k \in 1 .. i + 1 PROVE room2[k] >= room2[k - 1] + Written(k)
      OBVIOUS
    <3>1. CASE k = i + 1
      <4>1. room2[k - 1] = escaped_length
        BY <3>1, <2>1, <2>2, <1>1
      <4> QED BY <3>1, <4>1, <2>2, <1>5
    <3>2. CASE k # i + 1
      <4>1. k \in 1 .. i /\ k \in 0 .. i /\ k - 1 \in 0 .. i
        BY <3>2, <1>1
      <4>2. room[k] >= room[k - 1] + Written(k)
        BY <4>1, <1>2 DEF Reserves
      <4> QED BY <4>1, <4>2, <2>1
    <3> QED BY <3>1, <3>2
  <2>6. \A k : Written(k)' = Written(k)
    BY DEF Count, Written, ech
  <2>7. room2 \in [0 .. i + 1 -> Nat]
    BY <2>4, <1>6
  <2> QED BY <2>2, <2>4, <2>5, <2>6, <2>7, <1>4 DEF Reserves
<1>8. Inputs'
  BY <1>1 DEF Inputs, Count
<1>9. Counting'
  BY <1>7, <1>5 DEF Counting, Count, IInv
<1> QED BY <1>8, <1>9 DEF IInv, Count, Copying

LEMMA AllocateStep ==
    ASSUME IInv, Allocate
    PROVE  IInv'
<1>1. /\ Inputs /\ i = Len(str) /\ Len(str) \in Nat /\ pc' = "copy" /\ i' = 0
      /\ escaped_length \in 0 .. 6 * Len(str) /\ escaped_index = 0
      /\ UNCHANGED <<str, escaping_type, escaped_length, escaped_index>>
  BY DEF IInv, Inputs, Counting, Allocate
<1>2. PICK room : Reserves(room, Len(str))
  BY DEF IInv, Counting, Allocate
<1>3. Filled'
  <2>1. escaped_str' = [k \in 1 .. escaped_length + 1 |-> NUL] /\ escaped_length + 1 \in Nat
    BY <1>1 DEF Allocate
  <2>2. escaped_str' \in Seq(Chars \cup {NUL}) /\ Len(escaped_str') = escaped_length + 1
    BY <2>1
  <2> QED BY <1>1, <2>1, <2>2 DEF Filled
<1>4. Reserves(room, Len(str))' /\ escaped_index' <= room[i']
  <2>1. room[0] \in Nat
    BY <1>1, <1>2 DEF Reserves
  <2> QED BY <1>1, <1>2, <2>1, SameRoom
<1>5. Copying'
  BY <1>1, <1>3, <1>4 DEF Copying
<1> QED BY <1>1, <1>5 DEF IInv, Inputs, Counting

\* The room left for the next character.
LEMMA RoomLeft ==
    ASSUME IInv, pc = "copy", i < Len(str)
    PROVE  /\ Inputs /\ Filled /\ i + 1 \in 1 .. Len(str)
           /\ escaped_length \in Nat /\ escaped_index \in 0 .. escaped_length
           /\ \E room : /\ Reserves(room, Len(str))
                       /\ escaped_index + Written(i + 1) <= room[i + 1]
           /\ escaped_index + Written(i + 1) <= escaped_length
<1>1. /\ Inputs /\ Filled /\ i + 1 \in 1 .. Len(str) /\ i \in Nat /\ i \in 0 .. Len(str)
      /\ escaped_length \in Nat /\ escaped_index \in 0 .. escaped_length
  BY DEF IInv, Inputs, Copying
<1>2. PICK room : Reserves(room, Len(str)) /\ escaped_index <= room[i]
  BY DEF IInv, Copying
<1>3. Written(i + 1) \in 1 .. 5
  BY <1>1, WrittenType
<1>4. /\ i + 1 \in 0 .. Len(str) /\ room[i] \in Nat /\ room[i + 1] \in Nat
      /\ room[i + 1] >= room[i + 1 - 1] + Written(i + 1) /\ room[i + 1] <= escaped_length
  BY <1>1, <1>2 DEF Reserves
<1>5. i + 1 - 1 = i
  BY <1>1
<1>6. escaped_index + Written(i + 1) <= room[i + 1]
  BY <1>1, <1>2, <1>3, <1>4, <1>5
<1> QED BY <1>1, <1>2, <1>3, <1>4, <1>6

\* A character is copied as the block stays filled and the index advances.
LEMMA CopyKeeps ==
    ASSUME IInv, pc = "copy", i < Len(str), Filled', UNCHANGED pc, i' = i + 1,
           escaped_index' = escaped_index + Written(i + 1),
           UNCHANGED <<str, escaping_type, escaped_length>>
    PROVE  IInv'
<1>1. PICK room : /\ Reserves(room, Len(str))
                  /\ escaped_index + Written(i + 1) <= room[i + 1]
  BY RoomLeft
<1>2. Reserves(room, Len(str))' /\ escaped_index' <= room[i']
  BY <1>1, SameRoom
<1>3. /\ escaped_length \in 0 .. 6 * Len(str) /\ escaped_index \in 0 .. escaped_length
      /\ Written(i + 1) \in 1 .. 5 /\ escaped_index + Written(i + 1) <= escaped_length
  BY RoomLeft, WrittenType DEF IInv, Copying
<1>4. Copying'
  BY <1>2, <1>3 DEF Copying
<1>5. Inputs'
  BY RoomLeft DEF Inputs
<1> QED BY <1>4, <1>5 DEF IInv, Counting

LEMMA CopyEscapedStep ==
    ASSUME IInv, CopyEscaped
    PROVE  IInv'
<1> DEFINE row == ech[str[i + 1]]
           text == Append(row.escaped, NUL)
<1>1. pc = "copy" /\ i < Len(str) /\ str[i + 1] \in DOMAIN ech
  BY DEF CopyEscaped, Found
<1>2. /\ Inputs /\ Filled /\ i + 1 \in 1 .. Len(str)
      /\ escaped_length \in Nat /\ escaped_index \in 0 .. escaped_length
      /\ escaped_index + Written(i + 1) <= escaped_length
  BY <1>1, RoomLeft
<1>3. /\ row.escaped \in Seq(Chars) /\ row.escaped_length \in 1 .. 5
      /\ Len(row.escaped) = row.escaped_length
  BY <1>1, <1>2, Rows
<1>4. Written(i + 1) = row.escaped_length
  BY <1>1 DEF Written
<1>5. /\ text \in Seq(Chars \cup {NUL}) /\ Len(text) = row.escaped_length + 1
      /\ \A k \in 1 .. Len(text) : text[k] = NUL <=> k > row.escaped_length
  <2> DEFINE e == row.escaped
  <2>1. NUL \notin Chars
    BY TextAssumption
  <2>2. e \in Seq(Chars \cup {NUL}) /\ \A k \in 1 .. Len(e) : e[k] \in Chars
    BY <1>3
  <2> HIDE DEF e
  <2> QED BY <2>1, <2>2, <1>3 DEF e
<1>6. strlen(escaped_str) = escaped_index
  BY <1>2, Terminated
<1>7. /\ Write(text, escaped_index) /\ escaped_index' = escaped_index + row.escaped_length
      /\ i' = i + 1 /\ UNCHANGED <<str, escaping_type, escaped_length>>
  BY <1>6 DEF CopyEscaped, Advanced
<1>8. Filled' /\ UNCHANGED pc
  <2> DEFINE n == row.escaped_length
  <2>1. n \in 1 .. Len(text) /\ Len(text) <= n + 1 /\ escaped_index + n <= escaped_length
    <3> HIDE DEF text, row
    <3> QED BY <1>2, <1>3, <1>4, <1>5
  <2> HIDE DEF text, row
  <2> QED BY <2>1, <1>2, <1>5, <1>7, WriteKeeps
<1> HIDE DEF row
<1> QED BY <1>1, <1>4, <1>7, <1>8, CopyKeeps

LEMMA CopyPlainStep ==
    ASSUME IInv, CopyPlain
    PROVE  IInv'
<1> DEFINE text == <<str[i + 1]>>
<1>1. pc = "copy" /\ i < Len(str) /\ str[i + 1] \notin DOMAIN ech
  BY DEF CopyPlain, Found
<1>2. /\ Inputs /\ Filled /\ i + 1 \in 1 .. Len(str)
      /\ escaped_length \in Nat /\ escaped_index \in 0 .. escaped_length
      /\ escaped_index + Written(i + 1) <= escaped_length
  BY <1>1, RoomLeft
<1>3. Written(i + 1) = 1
  BY <1>1 DEF Written
<1>4. /\ text \in Seq(Chars \cup {NUL}) /\ Len(text) = 1
      /\ \A k \in 1 .. Len(text) : text[k] = NUL <=> k > 1
  <2>1. str[i + 1] \in Chars
    BY <1>2 DEF Inputs
  <2>2. str[i + 1] # NUL
    BY <2>1, TextAssumption
  <2> QED BY <2>1, <2>2
<1>5. /\ Write(text, escaped_index) /\ escaped_index' = escaped_index + 1
      /\ i' = i + 1 /\ UNCHANGED <<str, escaping_type, escaped_length>>
  BY DEF CopyPlain
<1>6. Filled' /\ UNCHANGED pc
  <2> HIDE DEF text
  <2>1. 1 \in 1 .. Len(text) /\ Len(text) <= 1 + 1 /\ escaped_index + 1 <= escaped_length
    BY <1>2, <1>3, <1>4
  <2> QED BY <2>1, <1>2, <1>4, <1>5, WriteKeeps
<1> QED BY <1>1, <1>3, <1>5, <1>6, CopyKeeps

LEMMA QuietStep ==
    ASSUME IInv, Return \/ Ended \/ UNCHANGED vars
    PROVE  IInv'
<1>1. UNCHANGED <<str, escaping_type, i, escaped_length, escaped_str, escaped_index>>
  BY DEF Return, Ended, vars
<1>2. UNCHANGED pc \/ (pc = "copy" /\ pc' = "done")
  BY DEF Return, Ended, vars
<1>3. \A room, n : Reserves(room, n)' <=> Reserves(room, n)
  BY <1>1 DEF Reserves, Written, ech
<1>4. Inputs' /\ (Filled' <=> Filled)
  BY <1>1 DEF IInv, Inputs, Filled
<1>5. Counting' /\ Copying'
  BY <1>1, <1>2, <1>3, <1>4 DEF IInv, Counting, Copying
<1> QED BY <1>2, <1>4, <1>5 DEF IInv

LEMMA Step == IInv /\ [Next]_vars => IInv'
  BY CountStep, AllocateStep, CopyEscapedStep, CopyPlainStep, QuietStep DEF Next

THEOREM Invariant == Spec => []IInv
  BY Base, Step, PTL DEF Spec
-----------------------------------------------------------------------------
(***************************************************************************)
(* For every text, no write is outside of the block and a terminator is    *)
(* left (lib/escaping.c:45-68).                                            *)
(***************************************************************************)
THEOREM NeverOverruns == Spec => []Fits
<1>1. IInv => Fits
  <2> SUFFICES ASSUME IInv PROVE Fits
    OBVIOUS
  <2>1. CASE pc \in {"copy", "done"}
    <3>1. Inputs /\ escaped_length \in Nat /\ escaped_index \in 0 .. escaped_length /\ Filled
      BY <2>1 DEF IInv, Copying
    <3>2. strlen(escaped_str) = escaped_index /\ Len(escaped_str) = escaped_length + 1
      BY <3>1, Terminated DEF Filled
    <3> QED BY <3>1, <3>2, <2>1 DEF Fits
  <2>2. CASE pc = "count"
    BY <2>2 DEF Fits
  <2> QED BY <2>1, <2>2 DEF IInv
<1> QED BY <1>1, Invariant, PTL

(***************************************************************************)
(* For every text, the place of the next plain character is the end of the *)
(* text so far (lib/escaping.c:55-63).                                     *)
(***************************************************************************)
THEOREM IndexIsTheEnd == Spec => []IndexIsEnd
<1>1. IInv => IndexIsEnd
  <2> SUFFICES ASSUME IInv, pc \in {"copy", "done"} PROVE escaped_index = strlen(escaped_str)
    BY DEF IndexIsEnd
  <2>1. Inputs /\ escaped_length \in Nat /\ escaped_index \in 0 .. escaped_length /\ Filled
    BY DEF IInv, Copying
  <2> QED BY <2>1, Terminated
<1> QED BY <1>1, Invariant, PTL

(***************************************************************************)
(* The counters stay in their ranges: the block is at most six times the   *)
(* text and its terminator (lib/escaping.c:30-47).                         *)
(***************************************************************************)
THEOREM TypeCorrect == Spec => []TypeOK
<1>1. IInv => TypeOK
  <2> SUFFICES ASSUME IInv PROVE TypeOK
    OBVIOUS
  <2>1. i \in 0 .. Len(str) /\ Len(str) \in Nat
    BY DEF IInv, Inputs
  <2>2. CASE pc = "count"
    <3>1. escaped_length \in 0 .. 6 * i /\ escaped_index = 0 /\ escaped_str = <<>>
      BY <2>2 DEF IInv, Counting
    <3> QED BY <3>1, <2>1, <2>2 DEF TypeOK
  <2>3. CASE pc \in {"copy", "done"}
    BY <2>1, <2>3 DEF IInv, Copying, Filled, TypeOK
  <2> QED BY <2>2, <2>3 DEF IInv
<1> QED BY <1>1, Invariant, PTL
-----------------------------------------------------------------------------
(***************************************************************************)
(* What has been written is the text so far, a code for each character.    *)
(***************************************************************************)
Code(k) == IF str[k] \in DOMAIN ech THEN ech[str[k]].escaped ELSE <<str[k]>>

\* The codes of the first n characters stand in the block one after another,
\* up to ends[n].
Cuts(ends, n) ==
    /\ ends \in [0 .. n -> Nat]
    /\ ends[0] = 0 /\ ends[n] = escaped_index
    /\ \A m \in 0 .. n : ends[m] <= escaped_index /\ (m < n => ends[m] < escaped_index)
    /\ \A m \in 1 .. n :
          /\ ends[m] = ends[m - 1] + Written(m)
          /\ \A p \in 1 .. Written(m) : escaped_str[ends[m - 1] + p] = Code(m)[p]

Encoded ==
    /\ pc = "done" => i = Len(str)
    /\ pc \in {"copy", "done"} => \E ends : Cuts(ends, i)

\* A character is written behind what is there.
LEMMA CodeIsWritten ==
    ASSUME IInv, CopyEscaped \/ CopyPlain
    PROVE  /\ Inputs /\ i \in Nat /\ i + 1 \in 1 .. Len(str) /\ escaped_index \in Nat
           /\ pc = "copy" /\ pc' = "copy" /\ i' = i + 1 /\ UNCHANGED <<str, escaping_type>>
           /\ escaped_index' = escaped_index + Written(i + 1)
           /\ \A k \in 1 .. escaped_index : escaped_str'[k] = escaped_str[k]
           /\ \A p \in 1 .. Written(i + 1) : escaped_str'[escaped_index + p] = Code(i + 1)[p]
<1>1. /\ pc = "copy" /\ i < Len(str) /\ i' = i + 1 /\ UNCHANGED <<str, escaping_type>>
  BY DEF CopyEscaped, CopyPlain
<1>2. /\ Inputs /\ Filled /\ i + 1 \in 1 .. Len(str) /\ i \in Nat
      /\ escaped_length \in Nat /\ escaped_index \in 0 .. escaped_length
      /\ escaped_index + Written(i + 1) <= escaped_length
  BY <1>1, RoomLeft DEF Inputs
<1>3. pc' # "overrun"
  BY CopyEscapedStep, CopyPlainStep DEF IInv
<1>4. PICK text : /\ Len(text) \in Nat /\ Len(text) >= Written(i + 1)
                  /\ \A p \in 1 .. Written(i + 1) : text[p] = Code(i + 1)[p]
                  /\ Write(text, escaped_index)
                  /\ escaped_index' = escaped_index + Written(i + 1)
  <2>1. CASE CopyPlain
    <3>1. str[i + 1] \notin DOMAIN ech
      BY <2>1 DEF CopyPlain, Found
    <3>2. Written(i + 1) = 1 /\ Code(i + 1) = <<str[i + 1]>>
      BY <3>1 DEF Written, Code
    <3> DEFINE text == <<str[i + 1]>>
    <3>3. Len(text) = 1 /\ Write(text, escaped_index) /\ escaped_index' = escaped_index + 1
      BY <2>1 DEF CopyPlain
    <3>4. Code(i + 1) = text
      BY <3>2
    <3> HIDE DEF text
    <3>5. Len(text) \in Nat /\ Len(text) >= Written(i + 1)
      BY <3>2, <3>3
    <3>6. escaped_index' = escaped_index + Written(i + 1)
      BY <3>2, <3>3
    <3>7. \A p \in 1 .. Written(i + 1) : text[p] = Code(i + 1)[p]
      BY <3>4
    <3> QED BY <3>3, <3>5, <3>6, <3>7
  <2>2. CASE CopyEscaped
    <3> DEFINE row == ech[str[i + 1]]
               code == row.escaped
    <3>1. str[i + 1] \in DOMAIN ech
      BY <2>2 DEF CopyEscaped, Found
    <3>2. Written(i + 1) = row.escaped_length /\ Code(i + 1) = code
      BY <3>1 DEF Written, Code
    <3>3. code \in Seq(Chars) /\ Len(code) = row.escaped_length
      BY <1>2, <3>1, Rows
    <3>4. strlen(escaped_str) = escaped_index
      BY <1>2, Terminated
    <3>5. Write(Append(code, NUL), escaped_index) /\ escaped_index' = escaped_index + row.escaped_length
      BY <2>2, <3>4 DEF CopyEscaped, Advanced
    <3> HIDE DEF code, row
    <3>6. /\ Len(Append(code, NUL)) = Len(code) + 1 /\ Len(code) \in Nat
          /\ \A p \in 1 .. Len(code) : Append(code, NUL)[p] = code[p]
      BY <3>3
    <3> DEFINE text == Append(code, NUL)
    <3>7. /\ Len(text) \in Nat /\ Len(text) >= Len(code)
          /\ \A p \in 1 .. Len(code) : text[p] = code[p]
      BY <3>6
    <3>8. Write(text, escaped_index)
      BY <3>5
    <3> HIDE DEF text
    <3> QED BY <3>2, <3>3, <3>5, <3>7, <3>8
  <2> QED BY <2>1, <2>2
<1>5. /\ escaped_str' = [k \in DOMAIN escaped_str |->
                            IF k \in escaped_index + 1 .. escaped_index + Len(text)
                            THEN text[k - escaped_index] ELSE escaped_str[k]]
      /\ UNCHANGED pc
  BY <1>3, <1>4 DEF Write
<1>6. DOMAIN escaped_str = 1 .. escaped_length + 1
  BY <1>2 DEF Filled
<1>7. ASSUME NEW k \in 1 .. escaped_index PROVE escaped_str'[k] = escaped_str[k]
  <2>1. k \in 1 .. escaped_length + 1 /\ k \notin escaped_index + 1 .. escaped_index + Len(text)
    BY <1>2
  <2> QED BY <1>5, <1>6, <2>1
<1>8. ASSUME NEW p \in 1 .. Written(i + 1)
      PROVE  escaped_str'[escaped_index + p] = Code(i + 1)[p]
  <2>1. Written(i + 1) \in 1 .. 5
    BY <1>2, WrittenType
  <2>2. PICK k : k = escaped_index + p
    OBVIOUS
  <2>3. /\ k \in 1 .. escaped_length + 1 /\ k - escaped_index = p
        /\ k \in escaped_index + 1 .. escaped_index + Len(text)
    BY <1>2, <1>4, <2>1, <2>2
  <2>4. escaped_str'[k] = text[k - escaped_index]
    BY <1>5, <1>6, <2>3
  <2> QED BY <1>4, <2>2, <2>3, <2>4
<1> QED BY <1>1, <1>2, <1>4, <1>5, <1>7, <1>8

LEMMA EncodedCopy ==
    ASSUME IInv, Encoded, CopyEscaped \/ CopyPlain
    PROVE  Encoded'
<1>1. /\ Inputs /\ i \in Nat /\ i + 1 \in 1 .. Len(str) /\ escaped_index \in Nat
      /\ pc = "copy" /\ pc' = "copy" /\ i' = i + 1 /\ UNCHANGED <<str, escaping_type>>
      /\ escaped_index' = escaped_index + Written(i + 1)
      /\ \A k \in 1 .. escaped_index : escaped_str'[k] = escaped_str[k]
      /\ \A p \in 1 .. Written(i + 1) : escaped_str'[escaped_index + p] = Code(i + 1)[p]
  BY CodeIsWritten
<1>2. PICK ends : Cuts(ends, i)
  BY <1>1 DEF Encoded
<1>3. /\ \A k : Written(k)' = Written(k) /\ Code(k)' = Code(k)
      /\ \A k \in 1 .. i + 1 : Written(k) \in 1 .. 5
  <2>1. \A k : Written(k)' = Written(k) /\ Code(k)' = Code(k)
    BY <1>1 DEF Written, Code, ech
  <2>2. \A k \in 1 .. i + 1 : k \in 1 .. Len(str)
    BY <1>1
  <2> QED BY <1>1, <2>1, <2>2, WrittenType
<1>4. PICK longer : longer = [m \in 0 .. i + 1 |-> IF m = i + 1 THEN escaped_index' ELSE ends[m]]
  OBVIOUS
<1>5. /\ longer[i + 1] = escaped_index' /\ \A m \in 0 .. i : longer[m] = ends[m]
      /\ i + 1 \in 1 .. i + 1 /\ Written(i + 1) \in 1 .. 5 /\ escaped_index' > escaped_index
      /\ escaped_index' \in Nat
  <2>1. i + 1 \in 1 .. i + 1 /\ i + 1 \in 0 .. i + 1
        /\ \A m \in 0 .. i : m \in 0 .. i + 1 /\ m # i + 1
    BY <1>1
  <2>2. Written(i + 1) \in 1 .. 5
    BY <1>3, <2>1
  <2>3. escaped_index' > escaped_index /\ escaped_index' \in Nat
    BY <1>1, <2>2
  <2> QED BY <1>4, <2>1, <2>2, <2>3
<1>6. /\ ends[0] = 0 /\ ends[i] = escaped_index
      /\ \A m \in 0 .. i : ends[m] \in Nat /\ ends[m] <= escaped_index
      /\ \A m \in 1 .. i : ends[m] = ends[m - 1] + Written(m)
      /\ \A m \in 1 .. i : \A p \in 1 .. Written(m) :
            escaped_str[ends[m - 1] + p] = Code(m)[p]
  BY <1>2 DEF Cuts
<1>7. \A m \in 0 .. i + 1 : /\ longer[m] \in Nat /\ longer[m] <= escaped_index'
                            /\ (m < i + 1 => longer[m] < escaped_index')
  <2> SUFFICES ASSUME NEW m \in 0 .. i + 1
               PROVE  /\ longer[m] \in Nat /\ longer[m] <= escaped_index'
                      /\ (m < i + 1 => longer[m] < escaped_index')
    OBVIOUS
  <2>1. CASE m = i + 1
    BY <1>5, <2>1
  <2>2. CASE m \in 0 .. i
    <3>1. longer[m] \in Nat /\ longer[m] <= escaped_index
      BY <1>5, <1>6, <2>2
    <3> QED BY <1>1, <1>5, <3>1
  <2> QED BY <1>1, <2>1, <2>2
<1>8. ASSUME NEW m \in 1 .. i + 1
      PROVE  /\ longer[m] = longer[m - 1] + Written(m)
             /\ \A p \in 1 .. Written(m) : escaped_str'[longer[m - 1] + p] = Code(m)[p]
  <2>1. CASE m = i + 1
    <3>1. m - 1 = i /\ i \in 0 .. i
      BY <1>1, <2>1
    <3>2. longer[m - 1] = escaped_index
      BY <1>5, <1>6, <3>1
    <3> QED BY <1>1, <1>5, <2>1, <3>2
  <2>2. CASE m # i + 1
    <3>1. m \in 1 .. i /\ m \in 0 .. i /\ m - 1 \in 0 .. i
      BY <1>1, <2>2
    <3>2. longer[m] = ends[m] /\ longer[m - 1] = ends[m - 1]
      BY <1>5, <3>1
    <3>3. ends[m] = ends[m - 1] + Written(m) /\ ends[m] <= escaped_index
          /\ ends[m - 1] \in Nat /\ Written(m) \in 1 .. 5
      BY <1>3, <1>6, <3>1
    <3>4. ASSUME NEW p \in 1 .. Written(m)
          PROVE  escaped_str'[longer[m - 1] + p] = Code(m)[p]
      <4>1. escaped_index \in Nat
        BY <1>1
      <4>2. ends[m - 1] + p \in 1 .. escaped_index
        BY <3>3, <4>1
      <4>3. escaped_str'[ends[m - 1] + p] = escaped_str[ends[m - 1] + p]
        BY <1>1, <4>2
      <4> QED BY <1>6, <3>1, <3>2, <4>3
    <3> QED BY <3>2, <3>3, <3>4
  <2> QED BY <2>1, <2>2
<1>9. Cuts(longer, i)'
  <2>1. longer \in [0 .. i + 1 -> Nat]
    BY <1>4, <1>7
  <2>2. longer[0] = 0
    <3>1. 0 \in 0 .. i
      BY <1>1
    <3> QED BY <1>5, <1>6, <3>1
  <2> QED BY <1>1, <1>3, <1>5, <1>7, <1>8, <2>1, <2>2 DEF Cuts
<1> QED BY <1>1, <1>9 DEF Encoded

LEMMA EncodedStep ==
    ASSUME IInv, Encoded, [Next]_vars
    PROVE  Encoded'
<1>1. CASE CopyEscaped \/ CopyPlain
  BY <1>1, EncodedCopy
<1>2. CASE Count
  BY <1>2 DEF Count, Encoded
<1>3. CASE Allocate
  <2>1. pc' = "copy" /\ i' = 0 /\ escaped_index' = 0
    BY <1>3 DEF Allocate, IInv, Counting
  <2>2. Cuts([m \in 0 .. 0 |-> 0], i)'
    BY <2>1 DEF Cuts
  <2> QED BY <2>1, <2>2 DEF Encoded
<1>4. CASE Return \/ Ended \/ UNCHANGED vars
  <2>1. UNCHANGED <<str, escaping_type, i, escaped_str, escaped_index>>
    BY <1>4 DEF Return, Ended, vars
  <2>2. UNCHANGED pc \/ (pc = "copy" /\ pc' = "done" /\ i = Len(str))
    BY <1>4 DEF Return, Ended, vars
  <2>3. \A ends : Cuts(ends, i)' <=> Cuts(ends, i)
    BY <2>1 DEF Cuts, Written, Code, ech
  <2> QED BY <2>1, <2>2, <2>3 DEF Encoded
<1> QED BY <1>1, <1>2, <1>3, <1>4 DEF Next

LEMMA EncodedAlways == Spec => []Encoded
<1>1. Init => Encoded
  BY DEF Init, Encoded
<1> QED BY <1>1, EncodedStep, Invariant, PTL DEF Spec
-----------------------------------------------------------------------------
(***************************************************************************)
(* Codes can be told apart wherever one begins: only the whole of a code   *)
(* has a meaning, which is its character.                                  *)
(***************************************************************************)
\* The characters that mean something to HTML or TeX.
Special == IF escaping_type = "html" THEN {"&", "<", ">"} ELSE Backslashed

\* The two first characters of entities, and their lengths.
LEMMA Entities ==
    /\ DOMAIN Entity = {"&", "<", ">"}
    /\ \A c \in {"&", "<", ">"} : /\ Entity[c][1] = "&" /\ Len(Entity[c]) \in 4 .. 5
                                 /\ Entity[c] \in Seq(Chars)
    /\ \A c, d \in {"&", "<", ">"} : Entity[c][2] = Entity[d][2] => c = d
<1>1. DOMAIN Entity = {"&", "<", ">"}
  BY DEF Entity
<1> DEFINE amp == <<"&", "a", "m", "p", ";">>
           lt  == <<"&", "l", "t", ";">>
           gt  == <<"&", "g", "t", ";">>
<1>2. Entity["&"] = amp /\ Entity["<"] = lt /\ Entity[">"] = gt
  BY DEF Entity
<1>3. /\ Entity["&"][1] = "&" /\ Entity["&"][2] = "a" /\ Len(Entity["&"]) = 5
      /\ Entity["&"] \in Seq(Chars)
  <2>1. amp \in Seq(Chars) /\ Len(amp) = 5
    BY RowChars, Text5
  <2>2. amp[1] = "&" /\ amp[2] = "a"
    OBVIOUS
  <2> HIDE DEF amp, lt, gt
  <2> QED BY <1>2, <2>1, <2>2
<1>4. /\ Entity["<"][1] = "&" /\ Entity["<"][2] = "l" /\ Len(Entity["<"]) = 4
      /\ Entity["<"] \in Seq(Chars)
  <2>1. lt \in Seq(Chars) /\ Len(lt) = 4
    BY RowChars, Text4
  <2>2. lt[1] = "&" /\ lt[2] = "l"
    OBVIOUS
  <2> HIDE DEF amp, lt, gt
  <2> QED BY <1>2, <2>1, <2>2
<1>5. /\ Entity[">"][1] = "&" /\ Entity[">"][2] = "g" /\ Len(Entity[">"]) = 4
      /\ Entity[">"] \in Seq(Chars)
  <2>1. gt \in Seq(Chars) /\ Len(gt) = 4
    BY RowChars, Text4
  <2>2. gt[1] = "&" /\ gt[2] = "g"
    OBVIOUS
  <2> HIDE DEF amp, lt, gt
  <2> QED BY <1>2, <2>1, <2>2
<1> QED BY <1>1, <1>3, <1>4, <1>5

\* What is written for each character of a text.
LEMMA CodeIs ==
    ASSUME Inputs, NEW m \in 1 .. Len(str)
    PROVE  /\ str[m] \in Chars
           /\ str[m] \notin Special => Code(m) = <<str[m]>> /\ Written(m) = 1
           /\ escaping_type = "html" /\ str[m] \in Special =>
                 Code(m) = Entity[str[m]] /\ Written(m) = Len(Entity[str[m]])
           /\ escaping_type = "tex" /\ str[m] \in Special =>
                 Code(m) = <<"\\", str[m]>> /\ Written(m) = 2
<1>1. str[m] \in Chars
  BY DEF Inputs
<1>2. DOMAIN ech = Special
  <2>1. CASE escaping_type = "html"
    BY <2>1 DEF ech, escape_chars, Special
  <2>2. CASE escaping_type = "tex"
    BY <2>2 DEF ech, escape_chars, Special
  <2> QED BY <2>1, <2>2 DEF Inputs
<1>3. str[m] \notin Special => Code(m) = <<str[m]>> /\ Written(m) = 1
  BY <1>2 DEF Code, Written
<1>4. ASSUME escaping_type = "html", str[m] \in Special
      PROVE  Code(m) = Entity[str[m]] /\ Written(m) = Len(Entity[str[m]])
  <2>1. Code(m) = ech[str[m]].escaped /\ Written(m) = ech[str[m]].escaped_length
    BY <1>2, <1>4 DEF Code, Written
  <2>2. str[m] \in {"&", "<", ">"}
    BY <1>4 DEF Special
  <2>3. ech[str[m]].escaped = Entity[str[m]]
    <3>1. CASE str[m] = "&"
      BY <1>4, <3>1, RowParts DEF ech, escape_chars, Entity
    <3>2. CASE str[m] = "<"
      BY <1>4, <3>2, RowParts DEF ech, escape_chars, Entity
    <3>3. CASE str[m] = ">"
      BY <1>4, <3>3, RowParts DEF ech, escape_chars, Entity
    <3> QED BY <2>2, <3>1, <3>2, <3>3
  <2>4. Len(ech[str[m]].escaped) = ech[str[m]].escaped_length
    BY <1>2, <1>4, Rows
  <2> QED BY <2>1, <2>3, <2>4
<1>5. ASSUME escaping_type = "tex", str[m] \in Special
      PROVE  Code(m) = <<"\\", str[m]>> /\ Written(m) = 2
  <2>1. Code(m) = ech[str[m]].escaped /\ Written(m) = ech[str[m]].escaped_length
    BY <1>2, <1>5 DEF Code, Written
  <2>2. str[m] \in Backslashed
    BY <1>5 DEF Special
  <2>3. ech[str[m]] = Row(<<"\\", str[m]>>, 2)
    BY <1>5, <2>2 DEF ech, escape_chars
  <2> QED BY <2>1, <2>3, RowParts
<1> QED BY <1>1, <1>3, <1>4, <1>5

LEMMA MeaningIs ==
    ASSUME Inputs, NEW text \in Seq(Chars), NEW m \in 1 .. Len(str), NEW a \in Nat,
           a + Written(m) <= Len(text),
           \A p \in 1 .. Written(m) : text[a + p] = Code(m)[p],
           NEW k \in a + 1 .. Len(text), NEW c
    PROVE  c \in Meanings(SubSeq(text, a + 1, k)) <=> c = str[m] /\ k = a + Written(m)
<1> DEFINE piece == SubSeq(text, a + 1, k)
<1>1. /\ piece \in Seq(Chars) /\ Len(piece) = k - a
      /\ \A p \in 1 .. k - a : piece[p] = text[a + p]
  OBVIOUS
<1> HIDE DEF piece
<1>2. /\ str[m] \in Chars
      /\ str[m] \notin Special => Code(m) = <<str[m]>> /\ Written(m) = 1
      /\ escaping_type = "html" /\ str[m] \in Special =>
            Code(m) = Entity[str[m]] /\ Written(m) = Len(Entity[str[m]])
      /\ escaping_type = "tex" /\ str[m] \in Special =>
            Code(m) = <<"\\", str[m]>> /\ Written(m) = 2
      /\ Written(m) \in 1 .. 5
  BY CodeIs, WrittenType
<1>3. piece[1] = Code(m)[1]
  BY <1>1, <1>2
<1>4. k - a >= 2 /\ Written(m) >= 2 => piece[2] = Code(m)[2]
  BY <1>1, <1>2
<1>5. k = a + Written(m) => piece = Code(m)
  <2> SUFFICES ASSUME k = a + Written(m) PROVE piece = Code(m)
    OBVIOUS
  <2>1. Code(m) \in Seq(Chars) /\ Len(Code(m)) = Written(m)
    <3>1. CASE str[m] \notin Special
      BY <1>2, <3>1, Text1
    <3>2. CASE escaping_type = "html" /\ str[m] \in Special
      BY <1>2, <3>2, Entities DEF Special
    <3>3. CASE escaping_type = "tex" /\ str[m] \in Special
      BY <1>2, <3>3, RowChars, Text2
    <3> QED BY <3>1, <3>2, <3>3 DEF Inputs
  <2>2. k - a = Written(m)
    BY <1>2
  <2>3. Len(piece) = Written(m) /\ \A p \in 1 .. Written(m) : piece[p] = Code(m)[p]
    BY <1>1, <2>2
  <2> DEFINE code == Code(m)
  <2>4. code \in Seq(Chars) /\ Len(code) = Len(piece) /\ \A p \in 1 .. Len(piece) : piece[p] = code[p]
    BY <2>1, <2>3
  <2> HIDE DEF code
  <2>5. piece = code
    BY <1>1, <2>4
  <2> QED BY <2>5 DEF code
<1>6. CASE escaping_type = "html"
  <2>1. Special = {"&", "<", ">"} /\ DOMAIN Entity = Special
    BY <1>6, Entities DEF Special
  <2>2. c \in Meanings(piece) <=> \/ (c \in Special /\ piece = Entity[c])
                                 \/ (c \in Chars \ Special /\ piece = <<c>>)
    BY <1>6, <2>1 DEF Meanings
  <2>3. c = str[m] /\ k = a + Written(m) => c \in Meanings(piece)
    BY <1>2, <1>5, <1>6, <2>2
  <2>4. ASSUME c \in Special, piece = Entity[c] PROVE c = str[m] /\ k = a + Written(m)
    <3>1. piece[1] = "&" /\ Len(piece) \in 4 .. 5
      BY <2>1, <2>4, Entities
    <3>2. str[m] \in Special
      <4> SUFFICES ASSUME str[m] \notin Special PROVE FALSE
        OBVIOUS
      <4>1. piece[1] = str[m]
        BY <1>2, <1>3
      <4> QED BY <2>1, <3>1, <4>1
    <3>3. Code(m) = Entity[str[m]] /\ Written(m) = Len(Entity[str[m]]) /\ Written(m) >= 2
      BY <1>2, <1>6, <2>1, <3>2, Entities
    <3>4. Entity[c][2] = Entity[str[m]][2]
      BY <1>1, <1>4, <2>4, <3>1, <3>3
    <3>5. c = str[m]
      BY <2>1, <2>4, <3>2, <3>4, Entities
    <3> QED BY <1>1, <2>4, <3>3, <3>5
  <2>5. ASSUME c \in Chars \ Special, piece = <<c>> PROVE c = str[m] /\ k = a + Written(m)
    <3>1. piece[1] = c /\ Len(piece) = 1
      BY <2>5
    <3>2. str[m] \notin Special
      <4> SUFFICES ASSUME str[m] \in Special PROVE FALSE
        OBVIOUS
      <4>1. piece[1] = "&"
        BY <1>2, <1>3, <1>6, <2>1, Entities
      <4> QED BY <2>1, <2>5, <3>1, <4>1
    <3>3. Written(m) = 1 /\ k - a = 1
      BY <1>1, <1>2, <3>1, <3>2
    <3>4. piece[1] = str[m]
      BY <1>2, <1>3, <3>2
    <3> QED BY <3>1, <3>3, <3>4
  <2> QED BY <2>2, <2>3, <2>4, <2>5 DEF piece
<1>7. CASE escaping_type = "tex"
  <2>1. Special = Backslashed /\ "\\" \in Special
    BY <1>7 DEF Special, Backslashed
  <2>2. c \in Meanings(piece) <=> \/ (c \in Chars /\ piece = <<"\\", c>>)
                                 \/ (c \in Chars \ Special /\ piece = <<c>>)
    BY <1>7, <2>1 DEF Meanings
  <2>3. c = str[m] /\ k = a + Written(m) => c \in Meanings(piece)
    BY <1>2, <1>5, <1>7, <2>2
  <2>4. ASSUME c \in Chars, piece = <<"\\", c>> PROVE c = str[m] /\ k = a + Written(m)
    <3>1. piece[1] = "\\" /\ piece[2] = c /\ Len(piece) = 2
      BY <2>4
    <3>2. str[m] \in Special
      <4> SUFFICES ASSUME str[m] \notin Special PROVE FALSE
        OBVIOUS
      <4>1. piece[1] = str[m]
        BY <1>2, <1>3
      <4> QED BY <2>1, <3>1, <4>1
    <3>3. Code(m)[2] = str[m] /\ Written(m) = 2
      BY <1>2, <1>7, <3>2
    <3>4. k - a = 2
      BY <1>1, <3>1
    <3>5. piece[2] = str[m]
      BY <1>4, <3>3, <3>4
    <3> QED BY <3>1, <3>3, <3>4, <3>5
  <2>5. ASSUME c \in Chars \ Special, piece = <<c>> PROVE c = str[m] /\ k = a + Written(m)
    <3>1. piece[1] = c /\ Len(piece) = 1
      BY <2>5
    <3>2. str[m] \notin Special
      <4> SUFFICES ASSUME str[m] \in Special PROVE FALSE
        OBVIOUS
      <4>1. piece[1] = "\\"
        BY <1>2, <1>3, <1>7
      <4> QED BY <2>1, <2>5, <3>1, <4>1
    <3>3. Written(m) = 1 /\ k - a = 1
      BY <1>1, <1>2, <3>1, <3>2
    <3>4. piece[1] = str[m]
      BY <1>2, <1>3, <3>2
    <3> QED BY <3>1, <3>3, <3>4
  <2> QED BY <2>2, <2>3, <2>4, <2>5 DEF piece
<1> QED BY <1>6, <1>7 DEF Inputs
-----------------------------------------------------------------------------
(***************************************************************************)
(* Readings is a recursive function: that its recursion has a solution and *)
(* what it computes are proved by induction.                               *)
(***************************************************************************)
\* Induction, as a statement about sets.
LEMMA SetInduction ==
    ASSUME NEW S, 0 \in S, \A n \in Nat : n \in S => n + 1 \in S
    PROVE  Nat \subseteq S
<1> DEFINE T == Nat \ S
<1> SUFFICES ASSUME T # {} PROVE FALSE
  OBVIOUS
<1>1. \E x \in T : \A y \in T : ~(<<y, x>> \in OpToRel(<, Nat))
  <2>1. T \subseteq Nat
    OBVIOUS
  <2> HIDE DEF T
  <2> QED
    BY <2>1, NatLessThanWellFounded, WFMin
<1>2. PICK x \in T : \A y \in T : ~(<<y, x>> \in OpToRel(<, Nat))
  BY <1>1
<1>3. x \in Nat \ {0}
  OBVIOUS
<1>4. x - 1 \in Nat /\ x - 1 < x
  BY <1>3
<1>5. x - 1 \in T
  <2>1. x - 1 \notin S
    BY <1>3, <1>4
  <2> QED
    BY <1>4, <2>1
<1>6. <<x - 1, x>> \in OpToRel(<, Nat)
  BY <1>3, <1>4 DEF OpToRel
<1> QED
  BY <1>2, <1>5, <1>6

\* The readings up to a place come from those up to earlier ones.
LEMMA ReadingsIs ==
    ASSUME NEW text, Len(text) \in Nat
    PROVE  /\ Readings(text)[0] = {<<>>}
           /\ \A k \in 1 .. Len(text) :
                 Readings(text)[k] =
                    UNION {Continued(Readings(text)[j - 1], SubSeq(text, j, k)) :
                              j \in {n \in 1 .. k : n + 4 >= k}}
<1> DEFINE len == Len(text)
           back(k) == {n \in 1 .. k : n + 4 >= k}
           after(f, k) == UNION {Continued(f[j - 1], SubSeq(text, j, k)) : j \in back(k)}
           step(f, k) == IF k = 0 THEN {<<>>} ELSE after(f, k)
           IsUpTo(f, n) == /\ f = [k \in 0 .. n |-> f[k]]
                           /\ f[0] = {<<>>}
                           /\ \A k \in 1 .. n : f[k] = after(f, k)
           S == {n \in Nat : \E f : IsUpTo(f, n)}
<1>1. 0 \in S
  <2> DEFINE g == [k \in 0 .. 0 |-> {<<>>}]
  <2>1. IsUpTo(g, 0)
    OBVIOUS
  <2> QED BY <2>1
<1>2. ASSUME NEW n \in Nat, n \in S PROVE n + 1 \in S
  <2>1. PICK f : IsUpTo(f, n)
    BY <1>2
  <2> DEFINE last == after(f, n + 1)
             g == [k \in 0 .. n + 1 |-> IF k = n + 1 THEN last ELSE f[k]]
  <2> HIDE DEF last
  <2>2. /\ \A k \in 0 .. n : g[k] = f[k]
        /\ g[n + 1] = last
        /\ g = [k \in 0 .. n + 1 |-> g[k]]
    <3>1. n + 1 \in 0 .. n + 1 /\ \A k \in 0 .. n : k \in 0 .. n + 1 /\ k # n + 1
      OBVIOUS
    <3> QED BY <3>1
  <2> HIDE DEF g
  <2>3. ASSUME NEW k \in 1 .. n + 1 PROVE after(g, k) = after(f, k)
    <3>1. \A j \in back(k) : g[j - 1] = f[j - 1]
      <4>1. \A j \in back(k) : j - 1 \in 0 .. n
        OBVIOUS
      <4> QED BY <2>2, <4>1
    <3> HIDE DEF back
    <3> QED BY <3>1
  <2>4. ASSUME NEW k \in 1 .. n + 1 PROVE g[k] = after(g, k)
    <3> HIDE DEF after
    <3>1. CASE k = n + 1
      <4>1. last = after(f, n + 1)
        BY DEF last
      <4> QED BY <2>2, <2>3, <3>1, <4>1
    <3>2. CASE k # n + 1
      <4>1. k \in 1 .. n /\ k \in 0 .. n
        BY <3>2
      <4>2. f[k] = after(f, k)
        BY <2>1, <4>1
      <4> QED BY <2>2, <2>3, <4>1, <4>2
    <3> QED BY <3>1, <3>2
  <2>5. g[0] = {<<>>}
    <3>1. 0 \in 0 .. n
      OBVIOUS
    <3> QED BY <2>1, <2>2, <3>1
  <2> HIDE DEF after
  <2>6. IsUpTo(g, n + 1)
    BY <2>2, <2>4, <2>5
  <2>7. n + 1 \in Nat
    OBVIOUS
  <2> HIDE DEF IsUpTo
  <2> QED BY <2>6, <2>7
<1>3. len \in S
  <2>1. Nat \subseteq S
    <3> HIDE DEF S
    <3> QED BY <1>1, <1>2, SetInduction
  <2> QED BY <2>1
<1>4. PICK f : IsUpTo(f, len)
  BY <1>3
<1>5. f = [k \in 0 .. len |-> step(f, k)]
  <2> HIDE DEF after
  <2>1. ASSUME NEW k \in 0 .. len PROVE f[k] = step(f, k)
    <3>1. CASE k = 0
      BY <1>4, <3>1
    <3>2. CASE k # 0
      <4>1. k \in 1 .. len
        BY <3>2
      <4> QED BY <1>4, <3>2, <4>1
    <3> QED BY <3>1, <3>2
  <2>2. f = [k \in 0 .. len |-> f[k]]
    BY <1>4
  <2> QED BY <2>1, <2>2
<1>6. Readings(text) = [k \in 0 .. len |-> step(Readings(text), k)]
  BY <1>5, Zenon DEF Readings
<1> DEFINE g == Readings(text)
           h == [k \in 0 .. len |-> step(g, k)]
<1>7. g = h
  BY <1>6
<1> HIDE DEF g, after
<1>8. \A k \in 0 .. len : h[k] = step(g, k)
  OBVIOUS
<1>9. 0 \in 0 .. len /\ \A k \in 1 .. len : k \in 0 .. len /\ k # 0
  OBVIOUS
<1> HIDE DEF h
<1>10. g[0] = {<<>>} /\ \A k \in 1 .. len : g[k] = after(g, k)
  BY <1>7, <1>8, <1>9
<1> QED BY <1>10 DEF g, after

\* A text that consists of the codes of str, one after another.
Spells(text, ends) ==
    /\ text \in Seq(Chars)
    /\ ends \in [0 .. Len(str) -> 0 .. Len(text)]
    /\ ends[0] = 0 /\ ends[Len(str)] = Len(text)
    /\ \A m \in 0 .. Len(str) - 1 : ends[m] < Len(text)
    /\ \A m \in 1 .. Len(str) :
          /\ ends[m] = ends[m - 1] + Written(m)
          /\ \A p \in 1 .. Written(m) : text[ends[m - 1] + p] = Code(m)[p]

\* What the characters before a place of it are, if a code ends there.
Before(ends, k) == {SubSeq(str, 1, m) : m \in {n \in 0 .. Len(str) : ends[n] = k}}

LEMMA OneCharacterMore ==
    ASSUME NEW s \in Seq(Chars), NEW m \in 0 .. Len(s) - 1
    PROVE  SubSeq(s, 1, m + 1) = Append(SubSeq(s, 1, m), s[m + 1])
<1> DEFINE a == SubSeq(s, 1, m + 1)
           b == SubSeq(s, 1, m)
           c == Append(b, s[m + 1])
<1>1. a \in Seq(Chars) /\ Len(a) = m + 1 /\ \A p \in 1 .. m + 1 : a[p] = s[p]
  OBVIOUS
<1>2. b \in Seq(Chars) /\ Len(b) = m /\ \A p \in 1 .. m : b[p] = s[p]
  OBVIOUS
<1>3. s[m + 1] \in Chars /\ m \in Nat
  OBVIOUS
<1> HIDE DEF a, b
<1>4. c \in Seq(Chars) /\ Len(c) = m + 1 /\ c[m + 1] = s[m + 1]
      /\ \A p \in 1 .. m : c[p] = b[p]
  BY <1>2, <1>3
<1> HIDE DEF c
<1>5. \A p \in 1 .. m + 1 : c[p] = s[p]
  <2> SUFFICES ASSUME NEW p \in 1 .. m + 1 PROVE c[p] = s[p]
    OBVIOUS
  <2>1. p = m + 1 \/ p \in 1 .. m
    BY <1>3
  <2> QED BY <1>2, <1>4, <2>1
<1>6. a = c
  BY <1>1, <1>4, <1>5
<1> QED BY <1>6 DEF a, b, c

(***************************************************************************)
(* The readings up to a place are the characters before it, if a code ends *)
(* there, and there is none if the place is inside a code.                 *)
(***************************************************************************)
LEMMA ReadingsAre ==
    ASSUME Inputs, NEW text, NEW ends, Spells(text, ends)
    PROVE  \A k \in 0 .. Len(text) : Readings(text)[k] = Before(ends, k)
<1> DEFINE r == Readings(text)
           S == {n \in Nat : \A k \in 0 .. Len(text) : k <= n => r[k] = Before(ends, k)}
<1>1. /\ text \in Seq(Chars) /\ Len(text) \in Nat /\ str \in Seq(Chars) /\ Len(str) \in Nat
      /\ \A m \in 0 .. Len(str) : ends[m] \in 0 .. Len(text)
      /\ ends[0] = 0 /\ ends[Len(str)] = Len(text)
      /\ \A m \in 0 .. Len(str) - 1 : ends[m] < Len(text)
      /\ \A m \in 1 .. Len(str) :
            /\ ends[m] = ends[m - 1] + Written(m) /\ Written(m) \in 1 .. 5
            /\ \A p \in 1 .. Written(m) : text[ends[m - 1] + p] = Code(m)[p]
  <2>1. \A m \in 1 .. Len(str) : Written(m) \in 1 .. 5
    BY WrittenType
  <2>2. \A m \in 0 .. Len(str) : ends[m] \in 0 .. Len(text)
    BY DEF Spells
  <2> QED BY <2>1, <2>2 DEF Spells, Inputs
<1>2. /\ r[0] = {<<>>}
      /\ \A k \in 1 .. Len(text) :
            r[k] = UNION {Continued(r[j - 1], SubSeq(text, j, k)) :
                             j \in {n \in 1 .. k : n + 4 >= k}}
  BY <1>1, ReadingsIs
<1> HIDE DEF r
<1>3. r[0] = Before(ends, 0)
  <2>1. \A m \in 1 .. Len(str) : ends[m] # 0
    <3> SUFFICES ASSUME NEW m \in 1 .. Len(str) PROVE ends[m] # 0
      OBVIOUS
    <3>1. m - 1 \in 0 .. Len(str)
      BY <1>1
    <3>2. ends[m - 1] \in Nat /\ ends[m] = ends[m - 1] + Written(m) /\ Written(m) \in 1 .. 5
      BY <1>1, <3>1
    <3> QED BY <3>2
  <2>2. {n \in 0 .. Len(str) : ends[n] = 0} = {0}
    BY <1>1, <2>1
  <2>3. SubSeq(str, 1, 0) = <<>>
    BY <1>1
  <2>4. Before(ends, 0) = {SubSeq(str, 1, m) : m \in {0}}
    BY <2>2 DEF Before
  <2> QED BY <1>2, <2>3, <2>4
<1>4. ASSUME NEW k \in 1 .. Len(text),
             \A j \in 0 .. Len(text) : j < k => r[j] = Before(ends, j)
      PROVE  r[k] = Before(ends, k)
  <2>1. ASSUME NEW x \in r[k] PROVE x \in Before(ends, k)
    <3>1. PICK j \in {n \in 1 .. k : n + 4 >= k} :
             x \in Continued(r[j - 1], SubSeq(text, j, k))
      BY <1>2, <2>1
    <3>2. PICK before \in r[j - 1], c \in Meanings(SubSeq(text, j, k)) : x = Append(before, c)
      BY <3>1 DEF Continued
    <3>3. j - 1 \in 0 .. Len(text) /\ j - 1 < k /\ j - 1 \in Nat /\ j = (j - 1) + 1
      BY <1>1
    <3>4. before \in Before(ends, j - 1)
      BY <1>4, <3>2, <3>3
    <3>5. PICK m \in 0 .. Len(str) : ends[m] = j - 1 /\ before = SubSeq(str, 1, m)
      BY <3>4 DEF Before
    <3>6. m \in 0 .. Len(str) - 1 /\ m + 1 \in 1 .. Len(str) /\ (m + 1) - 1 = m
      <4>1. m # Len(str)
        BY <1>1, <3>3, <3>5
      <4> QED BY <1>1, <4>1
    <3>7. /\ ends[m + 1] = (j - 1) + Written(m + 1) /\ ends[m + 1] <= Len(text)
          /\ \A p \in 1 .. Written(m + 1) : text[(j - 1) + p] = Code(m + 1)[p]
      <4>1. ends[m + 1] \in 0 .. Len(text)
        BY <1>1, <3>6
      <4> QED BY <1>1, <3>5, <3>6, <4>1
    <3>8. k \in (j - 1) + 1 .. Len(text)
      BY <1>1, <3>3
    <3> DEFINE start == j - 1
               next == m + 1
    <3>9. /\ start \in Nat /\ next \in 1 .. Len(str) /\ start + Written(next) <= Len(text)
          /\ \A p \in 1 .. Written(next) : text[start + p] = Code(next)[p]
          /\ k \in start + 1 .. Len(text) /\ c \in Meanings(SubSeq(text, start + 1, k))
      BY <3>2, <3>3, <3>6, <3>7, <3>8
    <3> HIDE DEF start, next
    <3>10. c = str[next] /\ k = start + Written(next)
      BY <1>1, <3>9, MeaningIs
    <3>11. c = str[m + 1] /\ k = ends[m + 1]
      BY <3>7, <3>10 DEF start, next
    <3>12. x = SubSeq(str, 1, m + 1)
      BY <1>1, <3>2, <3>5, <3>6, <3>11, OneCharacterMore
    <3>13. m + 1 \in {n \in 0 .. Len(str) : ends[n] = k}
      BY <3>6, <3>11
    <3> QED BY <3>12, <3>13 DEF Before
  <2>2. ASSUME NEW x \in Before(ends, k) PROVE x \in r[k]
    <3>1. PICK q \in 0 .. Len(str) : ends[q] = k /\ x = SubSeq(str, 1, q)
      BY <2>2 DEF Before
    <3>2. PICK m : m = q - 1
      OBVIOUS
    <3>3. /\ m \in 0 .. Len(str) - 1 /\ m + 1 = q /\ q - 1 = m /\ q \in 1 .. Len(str)
          /\ m \in 0 .. Len(str)
      <4>1. q # 0
        BY <1>1, <3>1
      <4> QED BY <1>1, <3>2, <4>1
    <3>4. /\ ends[m] \in Nat /\ k = ends[m] + Written(q) /\ Written(q) \in 1 .. 5
          /\ \A p \in 1 .. Written(q) : text[ends[m] + p] = Code(q)[p]
      BY <1>1, <3>1, <3>3
    <3> DEFINE start == ends[m]
    <3>5. /\ start \in Nat /\ start + Written(q) <= Len(text) /\ k = start + Written(q)
          /\ \A p \in 1 .. Written(q) : text[start + p] = Code(q)[p]
          /\ k \in start + 1 .. Len(text) /\ start < k /\ start \in 0 .. Len(text)
          /\ start + 1 \in {n \in 1 .. k : n + 4 >= k} /\ (start + 1) - 1 = start
      <4>1. /\ start \in Nat /\ k = start + Written(q) /\ Written(q) \in 1 .. 5
            /\ \A p \in 1 .. Written(q) : text[start + p] = Code(q)[p]
        BY <3>4
      <4> HIDE DEF start
      <4>2. Len(text) \in Nat /\ k \in 1 .. Len(text)
        BY <1>1
      <4> QED BY <4>1, <4>2
    <3>6. SubSeq(str, 1, m) \in Before(ends, start)
      BY <3>3 DEF Before
    <3> HIDE DEF start
    <3>7. PICK c, before : c = str[q] /\ before = SubSeq(str, 1, m)
      OBVIOUS
    <3>8. c \in Meanings(SubSeq(text, start + 1, k)) /\ before \in r[start]
      BY <1>1, <1>4, <3>3, <3>5, <3>6, <3>7, MeaningIs
    <3>9. x = Append(before, c)
      BY <1>1, <3>1, <3>3, <3>7, OneCharacterMore
    <3>10. x \in Continued(r[start], SubSeq(text, start + 1, k))
      BY <3>8, <3>9 DEF Continued
    <3>11. PICK j \in {n \in 1 .. k : n + 4 >= k} : j = start + 1 /\ j - 1 = start
      BY <3>5
    <3>12. x \in Continued(r[j - 1], SubSeq(text, j, k))
      BY <3>10, <3>11
    <3> QED BY <1>2, <3>12
  <2> QED BY <2>1, <2>2
<1>5. 0 \in S
  BY <1>1, <1>3
<1>6. ASSUME NEW n \in Nat, n \in S PROVE n + 1 \in S
  <2> SUFFICES ASSUME NEW k \in 0 .. Len(text), k <= n + 1 PROVE r[k] = Before(ends, k)
    OBVIOUS
  <2>1. CASE k <= n
    BY <1>6, <2>1
  <2>2. CASE k = n + 1
    <3>1. k \in 1 .. Len(text) /\ \A j \in 0 .. Len(text) : j < k => j <= n
      BY <1>1, <2>2
    <3> QED BY <1>4, <1>6, <3>1
  <2> QED BY <2>1, <2>2
<1>7. Nat \subseteq S
  <2> HIDE DEF S
  <2> QED BY <1>5, <1>6, SetInduction
<1> QED BY <1>7 DEF r

(***************************************************************************)
(* For every text of any length, HTML or TeX: what has been written reads  *)
(* as the text, and in no other way (ctache_escape_text).                  *)
(***************************************************************************)
THEOREM ReadsAsText == Spec => []ReadsBack
<1>1. IInv /\ Encoded => ReadsBack
  <2> SUFFICES ASSUME IInv, Encoded, pc = "done"
               PROVE  Readings(CString(escaped_str))[Len(CString(escaped_str))] = {str}
    BY DEF ReadsBack
  <2> DEFINE text == CString(escaped_str)
  <2>1. /\ Inputs /\ Filled /\ escaped_length \in Nat /\ escaped_index \in 0 .. escaped_length
        /\ str \in Seq(Chars) /\ Len(str) \in Nat
    BY DEF IInv, Copying, Inputs
  <2>2. text = SubSeq(escaped_str, 1, escaped_index)
    BY <2>1, Terminated DEF CString
  <2>3. /\ text \in Seq(Chars) /\ Len(text) = escaped_index
        /\ \A k \in 1 .. escaped_index : text[k] = escaped_str[k]
    <3> DEFINE t == SubSeq(escaped_str, 1, escaped_index)
    <3>1. /\ t \in Seq(Chars \cup {NUL}) /\ Len(t) = escaped_index
          /\ \A k \in 1 .. escaped_index : t[k] = escaped_str[k]
      BY <2>1 DEF Filled
    <3> HIDE DEF t
    <3>2. \A k \in 1 .. escaped_index : t[k] \in Chars
      <4> SUFFICES ASSUME NEW k \in 1 .. escaped_index PROVE t[k] \in Chars
        OBVIOUS
      <4>1. k \in 1 .. escaped_length + 1 /\ ~(k > escaped_index)
        BY <2>1
      <4>2. escaped_str[k] # NUL /\ escaped_str[k] \in Chars \cup {NUL}
        BY <2>1, <4>1 DEF Filled
      <4> QED BY <3>1, <4>2
    <3>3. t \in Seq(Chars)
      BY <3>1, <3>2
    <3> QED BY <2>2, <3>1, <3>3 DEF t
  <2> HIDE DEF text
  <2>4. PICK ends : Cuts(ends, Len(str))
    BY DEF Encoded
  <2>5. Spells(text, ends)
    <3>1. /\ ends \in [0 .. Len(str) -> Nat] /\ ends[0] = 0 /\ ends[Len(str)] = escaped_index
          /\ \A m \in 0 .. Len(str) :
                ends[m] <= escaped_index /\ (m < Len(str) => ends[m] < escaped_index)
          /\ \A m \in 1 .. Len(str) :
                /\ ends[m] = ends[m - 1] + Written(m)
                /\ \A p \in 1 .. Written(m) : escaped_str[ends[m - 1] + p] = Code(m)[p]
      BY <2>4 DEF Cuts
    <3>2. ends \in [0 .. Len(str) -> 0 .. Len(text)]
      BY <2>1, <2>3, <3>1
    <3>3. \A m \in 0 .. Len(str) - 1 : ends[m] < Len(text)
      BY <2>1, <2>3, <3>1
    <3>4. ASSUME NEW m \in 1 .. Len(str), NEW p \in 1 .. Written(m)
          PROVE  text[ends[m - 1] + p] = Code(m)[p]
      <4>1. Written(m) \in 1 .. 5
        BY <2>1, WrittenType
      <4>2. m \in 0 .. Len(str) /\ m - 1 \in 0 .. Len(str)
        BY <2>1
      <4>3. ends[m - 1] \in Nat /\ ends[m] = ends[m - 1] + Written(m) /\ ends[m] <= escaped_index
        BY <3>1, <4>2
      <4>4. ends[m - 1] + p \in 1 .. escaped_index
        BY <2>1, <4>1, <4>3
      <4> QED BY <2>3, <3>1, <4>4
    <3> QED BY <2>3, <3>1, <3>2, <3>3, <3>4 DEF Spells
  <2>6. Readings(text)[Len(text)] = Before(ends, Len(text))
    <3>1. Len(text) \in 0 .. Len(text)
      BY <2>1, <2>3
    <3> QED BY <2>1, <2>5, <3>1, ReadingsAre
  <2>7. {n \in 0 .. Len(str) : ends[n] = Len(text)} = {Len(str)}
    <3>1. /\ ends[Len(str)] = Len(text) /\ ends \in [0 .. Len(str) -> 0 .. Len(text)]
          /\ \A m \in 0 .. Len(str) - 1 : ends[m] < Len(text)
      BY <2>5 DEF Spells
    <3> QED BY <2>1, <3>1
  <2>8. SubSeq(str, 1, Len(str)) = str
    BY <2>1
  <2> QED BY <2>6, <2>7, <2>8 DEF Before, text
<1> QED BY <1>1, Invariant, EncodedAlways, PTL
=============================================================================
