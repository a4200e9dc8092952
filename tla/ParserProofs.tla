---------------------------- MODULE ParserProofs ----------------------------
(***************************************************************************)
(* Theorems about ctache_parse for every list of tokens that ctache_lex    *)
(* can return.                                                             *)
(***************************************************************************)
EXTENDS Parser, SequenceTheorems, WellFoundedInduction, TLAPS

\* What is left to match after the current text or tag, and inside a tag.
Rest == <<TEMPLATE, EOI>>
Body == <<STRING_TOK, TAG_END, TEMPLATE, EOI>>

OnRest(symbol) == <<symbol, TEMPLATE, EOI>>
OnBody(symbol) == <<symbol, STRING_TOK, TAG_END, TEMPLATE, EOI>>

\* The stack is s, the next token is one of ahead, and extra rules have been
\* applied since the last token was matched.
Expects(s, ahead, extra) ==
    /\ stack = s
    /\ token_node <= Len(tokens) /\ tokens[token_node] \in ahead
    /\ Len(parsed_rules) <= 3 * (token_node - 1) + extra

(***************************************************************************)
(* The stack has one of ten shapes: one for each symbol that comes to its  *)
(* top, with the tokens for which the table has put it there.              *)
(***************************************************************************)
AtTemplate == Expects(Rest, Terminals, 0)
AtText     == Expects(OnRest(TEXT), {STRING_TOK}, 1)
AtString   == Expects(OnRest(STRING_TOK), {STRING_TOK}, 2)
AtTag      == Expects(OnRest(TAG), TagStarts, 1)
AtTagStart == Expects(OnBody(TAG_START), TagStarts, 2)
AtOpening  == \E t \in TagStarts : Expects(OnBody(t), {t}, 3)
AtName     == Expects(Body, Terminals, 0)
AtTagEnd   == Expects(OnRest(TAG_END), Terminals, 0)
AtEoi      == Expects(<<EOI>>, {EOI}, 1)
AtEnd      == /\ stack = <<>> /\ token_node = Len(tokens) + 1
              /\ Len(parsed_rules) <= 3 * token_node

Shape == \/ AtTemplate \/ AtText \/ AtString \/ AtTag \/ AtTagStart
         \/ AtOpening \/ AtName \/ AtTagEnd \/ AtEoi \/ AtEnd

TextIsDerived == \A k \in 1 .. Len(parsed_rules) : parsed_rules[k] # 4

IInv ==
    /\ TypeOK
    /\ tokens \in Inputs
    /\ pc # "error" => Shape
    /\ pc = "accepted" => AtEnd
    /\ pc = "error" => parsed_rules = <<>>
    /\ TextIsDerived

Symbols == Terminals \cup Nonterminals
-----------------------------------------------------------------------------
\* What the numbering of the token types says about them.
LEMMA SymbolFacts ==
    /\ Terminals = TagStarts \cup {STRING_TOK, TAG_END, EOI}
    /\ STRING_TOK \notin TagStarts /\ TAG_END \notin TagStarts /\ EOI \notin TagStarts
    /\ STRING_TOK # TAG_END /\ STRING_TOK # EOI /\ TAG_END # EOI
    /\ TEMPLATE \notin Terminals /\ TEXT \notin Terminals /\ TAG \notin Terminals
    /\ TAG_START \notin Terminals
    /\ {TEMPLATE, TEXT, TAG, TAG_START} \subseteq Symbols /\ Terminals \subseteq Symbols
    /\ TagStarts \subseteq 0 .. 4
BY DEF Symbols, TEMPLATE, TEXT, TAG, TAG_START, SECTION_TAG_START, PARTIAL_TAG, TAG_END,
       STRING_TOK, EOI, Terminals, Nonterminals, TagStarts
\* The cells of the table that the shapes lead to, and what their rules push.
LEMMA TableAndProductions ==
    /\ \A s, t \in Terminals : parse_table_check_match(s, t) = -1
    /\ parse_table_check_match(TEMPLATE, STRING_TOK) = 0
    /\ parse_table_check_match(TEMPLATE, EOI) = 2
    /\ parse_table_check_match(TEMPLATE, TAG_END) = -1
    /\ parse_table_check_match(TEXT, STRING_TOK) = 3
    /\ \A t \in TagStarts : /\ parse_table_check_match(TEMPLATE, t) = 1
                            /\ parse_table_check_match(TAG, t) = 5
                            /\ parse_table_check_match(TAG_START, t) = 6 + t
    /\ Production(0) = <<TEXT, TEMPLATE>>
    /\ Production(1) = <<TAG, TEMPLATE>>
    /\ Production(2) = <<>>
    /\ Production(3) = <<STRING_TOK>>
    /\ Production(5) = <<TAG_START, STRING_TOK, TAG_END>>
    /\ \A t \in TagStarts : Production(6 + t) = <<t>>
BY DEF parse_table_check_match, parse_table, Production, TEMPLATE, TEXT, TAG, TAG_START,
       SECTION_TAG_START, CLOSE_TAG_START, VALUE_TAG_START, UNESC_VALUE_TAG_START,
       PARTIAL_TAG, TAG_END, STRING_TOK, EOI, NUM_TERMINALS, Terminals, Nonterminals,
       TagStarts

(***************************************************************************)
(* A concatenation is the sequence that has the elements of its parts; and *)
(* its instances for the productions of the grammar.                       *)
(***************************************************************************)
LEMMA ConcatIs ==
    ASSUME NEW S, NEW s \in Seq(S), NEW t \in Seq(S), NEW v \in Seq(S),
           Len(v) = Len(s) + Len(t),
           \A k \in 1 .. Len(s) : v[k] = s[k],
           \A k \in 1 .. Len(t) : v[Len(s) + k] = t[k]
    PROVE  s \o t = v
<1>1. s \o t \in Seq(S) /\ Len(s \o t) = Len(v)
  BY ConcatProperties
<1>2. ASSUME NEW k \in 1 .. Len(v) PROVE (s \o t)[k] = v[k]
  <2>1. (s \o t)[k] = IF k <= Len(s) THEN s[k] ELSE t[k - Len(s)]
    BY ConcatProperties
  <2>2. CASE k <= Len(s)
    BY <2>1, <2>2
  <2>3. CASE k > Len(s)
    <3> DEFINE j == k - Len(s)
    <3>1. j \in 1 .. Len(t) /\ k = Len(s) + j /\ Len(s) \in Nat
      BY <2>3
    <3>2. v[Len(s) + j] = t[j]
      BY <3>1
    <3> QED
      BY <2>1, <2>3, <3>1, <3>2
  <2> QED
    BY <2>2, <2>3
<1> QED
  BY <1>1, <1>2, SeqEqual

LEMMA ConcatTwoOne ==
    ASSUME NEW S, NEW a \in S, NEW b \in S, NEW c \in S
    PROVE  <<a, b>> \o <<c>> = <<a, b, c>>
<1> DEFINE s == <<a, b>>  t == <<c>>  v == <<a, b, c>>
<1>1. /\ s \in Seq(S) /\ t \in Seq(S) /\ v \in Seq(S)
      /\ Len(s) = 2 /\ Len(t) = 1 /\ Len(v) = 3
  OBVIOUS
<1>2. (\A k \in 1 .. 2 : v[k] = s[k]) /\ (\A k \in 1 .. 1 : v[2 + k] = t[k])
  OBVIOUS
<1> HIDE DEF s, t, v
<1>3. /\ \A k \in 1 .. Len(s) : v[k] = s[k]
      /\ \A k \in 1 .. Len(t) : v[Len(s) + k] = t[k]
      /\ Len(v) = Len(s) + Len(t)
  BY <1>1, <1>2
<1>4. s \o t = v
  BY <1>1, <1>3, ConcatIs
<1> QED
  BY <1>4 DEF s, t, v

LEMMA ConcatOneTwo ==
    ASSUME NEW S, NEW a \in S, NEW b \in S, NEW c \in S
    PROVE  <<a>> \o <<b, c>> = <<a, b, c>>
<1> DEFINE s == <<a>>  t == <<b, c>>  v == <<a, b, c>>
<1>1. /\ s \in Seq(S) /\ t \in Seq(S) /\ v \in Seq(S)
      /\ Len(s) = 1 /\ Len(t) = 2 /\ Len(v) = 3
  OBVIOUS
<1>2. (\A k \in 1 .. 1 : v[k] = s[k]) /\ (\A k \in 1 .. 2 : v[1 + k] = t[k])
  OBVIOUS
<1> HIDE DEF s, t, v
<1>3. /\ \A k \in 1 .. Len(s) : v[k] = s[k]
      /\ \A k \in 1 .. Len(t) : v[Len(s) + k] = t[k]
      /\ Len(v) = Len(s) + Len(t)
  BY <1>1, <1>2
<1>4. s \o t = v
  BY <1>1, <1>3, ConcatIs
<1> QED
  BY <1>4 DEF s, t, v

LEMMA ConcatOneFour ==
    ASSUME NEW S, NEW a \in S, NEW b \in S, NEW c \in S, NEW d \in S, NEW e \in S
    PROVE  <<a>> \o <<b, c, d, e>> = <<a, b, c, d, e>>
<1> DEFINE s == <<a>>  t == <<b, c, d, e>>  v == <<a, b, c, d, e>>
<1>1. /\ s \in Seq(S) /\ t \in Seq(S) /\ v \in Seq(S)
      /\ Len(s) = 1 /\ Len(t) = 4 /\ Len(v) = 5
  OBVIOUS
<1>2. (\A k \in 1 .. 1 : v[k] = s[k]) /\ (\A k \in 1 .. 4 : v[1 + k] = t[k])
  OBVIOUS
<1> HIDE DEF s, t, v
<1>3. /\ \A k \in 1 .. Len(s) : v[k] = s[k]
      /\ \A k \in 1 .. Len(t) : v[Len(s) + k] = t[k]
      /\ Len(v) = Len(s) + Len(t)
  BY <1>1, <1>2
<1>4. s \o t = v
  BY <1>1, <1>3, ConcatIs
<1> QED
  BY <1>4 DEF s, t, v

LEMMA ConcatThreeTwo ==
    ASSUME NEW S, NEW a \in S, NEW b \in S, NEW c \in S, NEW d \in S, NEW e \in S
    PROVE  <<a, b, c>> \o <<d, e>> = <<a, b, c, d, e>>
<1> DEFINE s == <<a, b, c>>  t == <<d, e>>  v == <<a, b, c, d, e>>
<1>1. /\ s \in Seq(S) /\ t \in Seq(S) /\ v \in Seq(S)
      /\ Len(s) = 3 /\ Len(t) = 2 /\ Len(v) = 5
  OBVIOUS
<1>2. (\A k \in 1 .. 3 : v[k] = s[k]) /\ (\A k \in 1 .. 2 : v[3 + k] = t[k])
  OBVIOUS
<1> HIDE DEF s, t, v
<1>3. /\ \A k \in 1 .. Len(s) : v[k] = s[k]
      /\ \A k \in 1 .. Len(t) : v[Len(s) + k] = t[k]
      /\ Len(v) = Len(s) + Len(t)
  BY <1>1, <1>2
<1>4. s \o t = v
  BY <1>1, <1>3, ConcatIs
<1> QED
  BY <1>4 DEF s, t, v

\* The stacks by which the shapes come from one another.
LEMMA Pushes ==
    /\ Head(Rest) = TEMPLATE /\ Tail(Rest) = <<EOI>>
    /\ Head(Body) = STRING_TOK /\ Tail(Body) = OnRest(TAG_END)
    /\ <<TEXT, TEMPLATE>> \o <<EOI>> = OnRest(TEXT)
    /\ <<TAG, TEMPLATE>> \o <<EOI>> = OnRest(TAG)
    /\ <<>> \o <<EOI>> = <<EOI>>
    /\ Head(<<EOI>>) = EOI /\ Tail(<<EOI>>) = <<>>
    /\ <<STRING_TOK>> \o Rest = OnRest(STRING_TOK)
    /\ <<TAG_START, STRING_TOK, TAG_END>> \o Rest = OnBody(TAG_START)
<1>1. {TEMPLATE, TEXT, TAG, TAG_START, STRING_TOK, TAG_END, EOI} \subseteq Symbols
  BY SymbolFacts
<1>2. Head(Rest) = TEMPLATE /\ Tail(Rest) = <<EOI>>
  BY DEF Rest
<1>3. Head(Body) = STRING_TOK /\ Tail(Body) = OnRest(TAG_END)
  BY DEF Body, OnRest
<1>4. <<TEXT, TEMPLATE>> \o <<EOI>> = OnRest(TEXT)
  BY <1>1, ConcatTwoOne DEF OnRest
<1>5. <<TAG, TEMPLATE>> \o <<EOI>> = OnRest(TAG)
  BY <1>1, ConcatTwoOne DEF OnRest
<1>6. <<>> \o <<EOI>> = <<EOI>> /\ Head(<<EOI>>) = EOI /\ Tail(<<EOI>>) = <<>>
  OBVIOUS
<1>7. <<STRING_TOK>> \o Rest = OnRest(STRING_TOK)
  BY <1>1, ConcatOneTwo DEF Rest, OnRest
<1>8. <<TAG_START, STRING_TOK, TAG_END>> \o Rest = OnBody(TAG_START)
  BY <1>1, ConcatThreeTwo DEF Rest, OnBody
<1> QED
  BY <1>2, <1>3, <1>4, <1>5, <1>6, <1>7, <1>8

LEMMA PushedOne ==
    ASSUME NEW symbol \in Symbols
    PROVE  /\ Head(OnRest(symbol)) = symbol /\ Tail(OnRest(symbol)) = Rest
           /\ Head(OnBody(symbol)) = symbol /\ Tail(OnBody(symbol)) = Body
           /\ <<symbol>> \o Body = OnBody(symbol)
           /\ Rest \in Seq(Symbols) /\ Body \in Seq(Symbols)
           /\ OnRest(symbol) \in Seq(Symbols) /\ OnBody(symbol) \in Seq(Symbols)
<1>1. {TEMPLATE, STRING_TOK, TAG_END, EOI} \subseteq Symbols
  BY SymbolFacts
<1>2. Head(OnRest(symbol)) = symbol /\ Tail(OnRest(symbol)) = Rest
  BY DEF Rest, OnRest
<1>3. Head(OnBody(symbol)) = symbol /\ Tail(OnBody(symbol)) = Body
  BY DEF Body, OnBody
<1>4. <<symbol>> \o Body = OnBody(symbol)
  BY <1>1, ConcatOneFour DEF Body, OnBody
<1>5. Rest \in Seq(Symbols) /\ Body \in Seq(Symbols)
  BY <1>1 DEF Rest, Body
<1>6. OnRest(symbol) \in Seq(Symbols) /\ OnBody(symbol) \in Seq(Symbols)
  BY <1>1 DEF OnRest, OnBody
<1> QED
  BY <1>2, <1>3, <1>4, <1>5, <1>6

\* The typed facts every step needs.
LEMMA Basics ==
    ASSUME IInv
    PROVE  /\ tokens \in Seq(Terminals) /\ Len(tokens) \in Nat /\ token_node \in Nat
           /\ token_node > 0
           /\ parsed_rules \in Seq(0 .. 10) /\ Len(parsed_rules) \in Nat
           /\ token_node <= Len(tokens) => tokens[token_node] \in Terminals
           /\ token_node <= Len(tokens) /\ tokens[token_node] # EOI
                 => token_node + 1 <= Len(tokens) /\ tokens[token_node + 1] \in Terminals
           /\ token_node <= Len(tokens) /\ tokens[token_node] = EOI
                 => token_node = Len(tokens)
<1>1. tokens \in Seq(Terminals) /\ token_node \in 1 .. Len(tokens) + 1
      /\ parsed_rules \in Seq(0 .. 10)
  BY DEF IInv, TypeOK
<1>2. \A k \in 1 .. Len(tokens) : tokens[k] = EOI <=> k = Len(tokens)
  BY InputsAssumption DEF IInv
<1> QED
  BY <1>1, <1>2

(***************************************************************************)
(* A match takes the stack from one shape to the next.                     *)
(***************************************************************************)
LEMMA MatchShape ==
    ASSUME IInv, Match
    PROVE  \/ AtString /\ AtTemplate'
           \/ AtOpening /\ AtName'
           \/ AtName /\ AtTagEnd'
           \/ AtTagEnd /\ AtTemplate'
           \/ AtEoi /\ AtEnd'
<1> DEFINE top == Head(stack)
<1>1. /\ pc = "parse" /\ token_node <= Len(tokens) /\ Len(stack) > 0
      /\ top = tokens[token_node] /\ stack' = Tail(stack)
      /\ token_node' = token_node + 1 /\ UNCHANGED <<tokens, parsed_rules>>
  BY DEF Match, Parsing
<1>2. top \in Terminals
  BY <1>1, Basics, SymbolFacts
<1>3. Shape
  BY <1>1 DEF IInv
<1> HIDE DEF top
<1> DEFINE rules == Len(parsed_rules)
<1>4. /\ rules \in Nat /\ token_node \in Nat /\ token_node > 0
      /\ Len(parsed_rules') = rules /\ Len(tokens') = Len(tokens)
      /\ top # EOI => token_node' <= Len(tokens') /\ tokens'[token_node'] \in Terminals
      /\ top = EOI => token_node = Len(tokens)
  BY <1>1, Basics
<1> HIDE DEF top, rules
<1>5. ASSUME NEW s, NEW ahead, NEW extra \in {0, 1, 2, 3}, Expects(s, ahead, extra)
      PROVE  stack = s /\ top \in ahead /\ rules <= 3 * (token_node - 1) + extra
  BY <1>1, <1>5 DEF Expects, rules
<1>6. ASSUME NEW s, stack' = s, top # EOI, rules <= 3 * (token_node - 1) + 3
      PROVE  Expects(s, Terminals, 0)'
  <2>1. stack' = s /\ token_node' <= Len(tokens') /\ tokens'[token_node'] \in Terminals
    BY <1>4, <1>6
  <2>2. Len(parsed_rules') <= 3 * (token_node' - 1) + 0
    BY <1>1, <1>4, <1>6
  <2> QED
    BY <2>1, <2>2 DEF Expects
<1>7. CASE AtString
  <2>1. stack = OnRest(STRING_TOK) /\ top = STRING_TOK /\ rules <= 3 * (token_node - 1) + 2
    BY <1>5, <1>7 DEF AtString
  <2>2. stack' = Rest /\ top # EOI
    BY <1>1, <2>1, PushedOne, SymbolFacts
  <2>3. rules <= 3 * (token_node - 1) + 3
    BY <1>4, <2>1
  <2> QED
    BY <1>6, <1>7, <2>2, <2>3 DEF AtTemplate
<1>8. CASE AtOpening
  <2>1. PICK t \in TagStarts : Expects(OnBody(t), {t}, 3)
    BY <1>8 DEF AtOpening
  <2>2. stack = OnBody(t) /\ top = t /\ rules <= 3 * (token_node - 1) + 3
    BY <1>5, <2>1
  <2>3. stack' = Body
    BY <1>1, <2>2, PushedOne, SymbolFacts
  <2> QED
    BY <1>6, <1>8, <2>2, <2>3, SymbolFacts DEF AtName
<1>9. CASE AtName
  <2>1. stack = Body /\ rules <= 3 * (token_node - 1) + 0
    BY <1>5, <1>9 DEF AtName
  <2>2. stack' = OnRest(TAG_END) /\ top # EOI /\ rules <= 3 * (token_node - 1) + 3
    BY <1>1, <1>4, <2>1, Pushes, SymbolFacts DEF top
  <2> QED
    BY <1>6, <1>9, <2>2 DEF AtTagEnd
<1>10. CASE AtTagEnd
  <2>1. stack = OnRest(TAG_END) /\ rules <= 3 * (token_node - 1) + 0
    BY <1>5, <1>10 DEF AtTagEnd
  <2>2. stack' = Rest /\ top # EOI
    BY <1>1, <2>1, PushedOne, SymbolFacts DEF top
  <2>3. rules <= 3 * (token_node - 1) + 3
    BY <1>4, <2>1
  <2> QED
    BY <1>6, <1>10, <2>2, <2>3 DEF AtTemplate
<1>11. CASE AtEoi
  <2>1. stack = <<EOI>> /\ top = EOI /\ rules <= 3 * (token_node - 1) + 1
    BY <1>5, <1>11 DEF AtEoi
  <2>2. stack' = <<>>
    BY <1>1, <2>1, Pushes
  <2>3. token_node' = Len(tokens') + 1 /\ Len(parsed_rules') <= 3 * token_node'
    BY <1>1, <1>4, <2>1
  <2> QED
    BY <1>11, <2>2, <2>3 DEF AtEnd
<1>12. ~AtTemplate /\ ~AtText /\ ~AtTag /\ ~AtTagStart
  BY <1>1, <1>2, Pushes, PushedOne, SymbolFacts
     DEF AtTemplate, AtText, AtTag, AtTagStart, Expects, top
<1>13. ~AtEnd
  BY <1>1 DEF AtEnd
<1> QED
  BY <1>3, <1>7, <1>8, <1>9, <1>10, <1>11, <1>12, <1>13 DEF Shape

(***************************************************************************)
(* An expansion replaces a nonterminal by the symbols that the token it    *)
(* was expanded for begins, and never derives text as empty.               *)
(***************************************************************************)
LEMMA ExpandShape ==
    ASSUME IInv, Expand
    PROVE  /\ \/ AtTemplate /\ (AtText' \/ AtTag' \/ AtEoi')
              \/ AtText /\ AtString'
              \/ AtTag /\ AtTagStart'
              \/ AtTagStart /\ AtOpening'
           /\ RuleFor \in 0 .. 10 /\ RuleFor # 4
<1> DEFINE ahead == tokens[token_node]  rules == Len(parsed_rules)
<1>1. /\ pc = "parse" /\ token_node <= Len(tokens)
      /\ Head(stack) # ahead /\ RuleFor >= 0
      /\ RuleFor = parse_table_check_match(Head(stack), ahead)
      /\ stack' = Production(RuleFor) \o Tail(stack)
      /\ parsed_rules' = Append(parsed_rules, RuleFor)
      /\ UNCHANGED <<tokens, token_node>>
  BY DEF Expand, Parsing, RuleFor, append_parsed_rule
<1>2. ahead \in Terminals
  BY <1>1, Basics
<1>3. Shape
  BY <1>1 DEF IInv
<1>4. Len(parsed_rules') = rules + 1 /\ rules \in Nat /\ token_node \in Nat
  BY <1>1, Basics
<1>5. ASSUME NEW s, NEW tokset, NEW extra \in {0, 1, 2, 3}, Expects(s, tokset, extra)
      PROVE  stack = s /\ ahead \in tokset /\ rules <= 3 * (token_node - 1) + extra
  BY <1>5 DEF Expects
<1>6. ASSUME NEW s, NEW tokset, NEW extra \in {1, 2, 3}, stack' = s, ahead \in tokset,
             rules <= 3 * (token_node - 1) + extra - 1
      PROVE  Expects(s, tokset, extra)'
  <2>1. Len(parsed_rules') <= 3 * (token_node' - 1) + extra
    BY <1>1, <1>4, <1>6
  <2> QED
    BY <1>1, <1>6, <2>1 DEF Expects
<1> HIDE DEF ahead, rules
<1>7. CASE AtTemplate
  <2>1. stack = Rest /\ rules <= 3 * (token_node - 1) + 0
    BY <1>5, <1>7 DEF AtTemplate
  <2>2. ahead # TAG_END
    <3>1. RuleFor = parse_table_check_match(TEMPLATE, ahead) /\ RuleFor >= 0
      BY <1>1, <2>1, Pushes
    <3>2. ahead # TAG_END \/ RuleFor = -1
      BY <3>1, TableAndProductions
    <3> QED
      BY <3>1, <3>2
  <2>3. rules <= 3 * (token_node - 1) + 1 - 1
    BY <1>4, <2>1
  <2>4. CASE ahead = STRING_TOK
    <3>1. RuleFor = 0
      BY <1>1, <2>1, <2>4, Pushes, TableAndProductions
    <3>2. stack' = OnRest(TEXT)
      BY <1>1, <2>1, <3>1, Pushes, TableAndProductions
    <3>3. AtText'
      BY <1>6, <2>3, <2>4, <3>2 DEF AtText
    <3> QED
      BY <1>7, <3>1, <3>3
  <2>5. CASE ahead = EOI
    <3>1. RuleFor = 2
      BY <1>1, <2>1, <2>5, Pushes, TableAndProductions
    <3>2. stack' = <<EOI>>
      BY <1>1, <2>1, <3>1, Pushes, TableAndProductions
    <3>3. AtEoi'
      BY <1>6, <2>3, <2>5, <3>2 DEF AtEoi
    <3> QED
      BY <1>7, <3>1, <3>3
  <2>6. CASE ahead \in TagStarts
    <3>1. RuleFor = 1
      BY <1>1, <2>1, <2>6, Pushes, TableAndProductions
    <3>2. stack' = OnRest(TAG)
      BY <1>1, <2>1, <3>1, Pushes, TableAndProductions
    <3>3. AtTag'
      BY <1>6, <2>3, <2>6, <3>2 DEF AtTag
    <3> QED
      BY <1>7, <3>1, <3>3
  <2> QED
    BY <1>2, <2>2, <2>4, <2>5, <2>6, SymbolFacts
<1>8. CASE AtText
  <2>1. stack = OnRest(TEXT) /\ ahead = STRING_TOK /\ rules <= 3 * (token_node - 1) + 1
    BY <1>5, <1>8 DEF AtText
  <2>2. Head(stack) = TEXT /\ Tail(stack) = Rest
    BY <2>1, PushedOne, SymbolFacts
  <2>3. RuleFor = 3
    BY <1>1, <2>1, <2>2, TableAndProductions
  <2>4. stack' = OnRest(STRING_TOK)
    BY <1>1, <2>2, <2>3, Pushes, TableAndProductions
  <2>5. rules <= 3 * (token_node - 1) + 2 - 1
    BY <1>4, <2>1
  <2>6. AtString'
    BY <1>6, <2>1, <2>4, <2>5 DEF AtString
  <2> QED
    BY <1>8, <2>3, <2>6
<1>9. CASE AtTag
  <2>1. stack = OnRest(TAG) /\ ahead \in TagStarts /\ rules <= 3 * (token_node - 1) + 1
    BY <1>5, <1>9 DEF AtTag
  <2>2. Head(stack) = TAG /\ Tail(stack) = Rest
    BY <2>1, PushedOne, SymbolFacts
  <2>3. RuleFor = 5
    BY <1>1, <2>1, <2>2, TableAndProductions
  <2>4. stack' = OnBody(TAG_START)
    BY <1>1, <2>2, <2>3, Pushes, TableAndProductions
  <2>5. rules <= 3 * (token_node - 1) + 2 - 1
    BY <1>4, <2>1
  <2>6. AtTagStart'
    BY <1>6, <2>1, <2>4, <2>5 DEF AtTagStart
  <2> QED
    BY <1>9, <2>3, <2>6
<1>10. CASE AtTagStart
  <2>1. stack = OnBody(TAG_START) /\ ahead \in TagStarts
        /\ rules <= 3 * (token_node - 1) + 2
    BY <1>5, <1>10 DEF AtTagStart
  <2>2. Head(stack) = TAG_START /\ Tail(stack) = Body
    BY <2>1, PushedOne, SymbolFacts
  <2>3. RuleFor = 6 + ahead
    BY <1>1, <2>1, <2>2, TableAndProductions
  <2>4. stack' = OnBody(ahead)
    <3>1. Production(6 + ahead) = <<ahead>> /\ <<ahead>> \o Body = OnBody(ahead)
      BY <2>1, TableAndProductions, PushedOne, SymbolFacts
    <3> QED
      BY <1>1, <2>2, <2>3, <3>1
  <2>5. Len(parsed_rules') <= 3 * (token_node' - 1) + 3
    BY <1>1, <1>4, <2>1
  <2>6. AtOpening'
    BY <1>1, <2>1, <2>4, <2>5 DEF AtOpening, Expects, ahead
  <2>7. RuleFor \in 0 .. 10 /\ RuleFor # 4
    <3>1. ahead \in 0 .. 4
      BY <2>1, SymbolFacts
    <3> QED
      BY <2>3, <3>1
  <2> QED
    BY <1>10, <2>6, <2>7
<1>11. ASSUME AtString \/ AtOpening \/ AtName \/ AtTagEnd \/ AtEoi
       PROVE  FALSE
  <2>1. Head(stack) \in Terminals
    <3>1. Head(OnRest(STRING_TOK)) = STRING_TOK /\ Head(OnRest(TAG_END)) = TAG_END
      BY PushedOne, SymbolFacts
    <3>2. CASE AtString \/ AtTagEnd
      <4>1. stack \in {OnRest(STRING_TOK), OnRest(TAG_END)}
        BY <3>2 DEF AtString, AtTagEnd, Expects
      <4> QED
        BY <3>1, <4>1, SymbolFacts
    <3>3. CASE AtOpening
      <4>1. PICK t \in TagStarts : stack = OnBody(t)
        BY <3>3 DEF AtOpening, Expects
      <4> QED
        BY <4>1, PushedOne, SymbolFacts
    <3>4. CASE AtName \/ AtEoi
      BY <3>4, Pushes, SymbolFacts DEF AtName, AtEoi, Expects
    <3> QED
      BY <1>11, <3>2, <3>3, <3>4
  <2>2. RuleFor = -1
    BY <1>1, <1>2, <2>1, TableAndProductions
  <2> QED
    BY <1>1, <2>2
<1>12. ~AtEnd
  BY <1>1, Basics DEF AtEnd
<1> QED
  BY <1>3, <1>7, <1>8, <1>9, <1>10, <1>11, <1>12 DEF Shape
-----------------------------------------------------------------------------
\* Every shape is a stack of grammar symbols.
LEMMA ShapesAreStacks == Shape => stack \in Seq(Symbols)
<1> SUFFICES ASSUME Shape PROVE stack \in Seq(Symbols)
  OBVIOUS
<1>1. CASE AtTemplate
  BY <1>1, PushedOne, SymbolFacts DEF AtTemplate, Expects
<1>2. CASE AtText
  BY <1>2, PushedOne, SymbolFacts DEF AtText, Expects
<1>3. CASE AtString
  BY <1>3, PushedOne, SymbolFacts DEF AtString, Expects
<1>4. CASE AtTag
  BY <1>4, PushedOne, SymbolFacts DEF AtTag, Expects
<1>5. CASE AtTagStart
  BY <1>5, PushedOne, SymbolFacts DEF AtTagStart, Expects
<1>6. CASE AtOpening
  BY <1>6, PushedOne, SymbolFacts DEF AtOpening, Expects
<1>7. CASE AtName
  BY <1>7, PushedOne, SymbolFacts DEF AtName, Expects
<1>8. CASE AtTagEnd
  BY <1>8, PushedOne, SymbolFacts DEF AtTagEnd, Expects
<1>9. CASE AtEoi
  BY <1>9, SymbolFacts DEF AtEoi, Expects
<1>10. CASE AtEnd
  BY <1>10 DEF AtEnd
<1> QED
  BY <1>1, <1>2, <1>3, <1>4, <1>5, <1>6, <1>7, <1>8, <1>9, <1>10 DEF Shape

LEMMA InitInvariant == Init => IInv
<1> SUFFICES ASSUME Init PROVE IInv
  OBVIOUS
<1>1. tokens \in Inputs /\ token_node = 1 /\ stack = <<TEMPLATE, EOI>>
      /\ parsed_rules = <<>> /\ pc = "parse"
  BY DEF Init, InitialStack
<1>2. tokens \in Seq(Terminals) /\ Len(tokens) > 0 /\ Len(tokens) \in Nat
  BY <1>1, InputsAssumption
<1>3. tokens[1] \in Terminals
  BY <1>2
<1>4. AtTemplate
  BY <1>1, <1>2, <1>3 DEF AtTemplate, Expects, Rest
<1>5. Shape
  BY <1>4 DEF Shape
<1>6. TypeOK
  BY <1>1, <1>2, <1>5, ShapesAreStacks DEF TypeOK, Symbols
<1> QED
  BY <1>1, <1>5, <1>6 DEF IInv, TextIsDerived

LEMMA MatchKeepsInvariant == ASSUME IInv, Match PROVE IInv'
<1>1. /\ pc' = "parse" /\ token_node' = token_node + 1 /\ token_node <= Len(tokens)
      /\ UNCHANGED <<tokens, parsed_rules>>
  BY DEF Match, Parsing
<1>2. Shape'
  BY MatchShape DEF Shape
<1>3. TypeOK'
  <2>1. (Shape => stack \in Seq(Symbols))'
    BY ShapesAreStacks, PTL
  <2> QED
    BY <1>1, <1>2, <2>1 DEF IInv, TypeOK, Symbols
<1> QED
  BY <1>1, <1>2, <1>3 DEF IInv, TextIsDerived

LEMMA ExpandKeepsInvariant == ASSUME IInv, Expand PROVE IInv'
<1>1. /\ pc' = "parse" /\ parsed_rules' = Append(parsed_rules, RuleFor)
      /\ UNCHANGED <<tokens, token_node>>
  BY DEF Expand, Parsing, append_parsed_rule
<1>2. Shape'
  BY ExpandShape DEF Shape
<1>3. RuleFor \in 0 .. 10 /\ RuleFor # 4
  BY ExpandShape
<1>4. parsed_rules' \in Seq(0 .. 10) /\ TextIsDerived'
  <2>1. parsed_rules \in Seq(0 .. 10) /\ TextIsDerived
    BY DEF IInv, TypeOK
  <2> QED
    BY <1>1, <1>3, <2>1 DEF TextIsDerived
<1>5. TypeOK'
  <2>1. (Shape => stack \in Seq(Symbols))'
    BY ShapesAreStacks, PTL
  <2> QED
    BY <1>1, <1>2, <1>4, <2>1 DEF IInv, TypeOK, Symbols
<1> QED
  BY <1>1, <1>2, <1>4, <1>5 DEF IInv

\* Only the end of the list has no token to look at.
LEMMA ReturnKeepsInvariant == ASSUME IInv, Return PROVE IInv' /\ AtEnd
<1>1. /\ pc = "parse" /\ pc' = "accepted" /\ token_node > Len(tokens)
      /\ UNCHANGED <<tokens, token_node, stack, parsed_rules>>
  BY DEF Return
<1>2. Shape /\ token_node \in Nat /\ Len(tokens) \in Nat
  BY <1>1, Basics DEF IInv
<1>3. AtEnd
  BY <1>1, <1>2
     DEF Shape, AtTemplate, AtText, AtString, AtTag, AtTagStart, AtOpening, AtName,
         AtTagEnd, AtEoi, Expects
<1>4. AtEnd'
  BY <1>1, <1>3 DEF AtEnd
<1>5. TypeOK'
  BY <1>1 DEF IInv, TypeOK
<1> QED
  BY <1>1, <1>3, <1>4, <1>5 DEF IInv, Shape, TextIsDerived

LEMMA NextInvariant == IInv /\ [Next]_vars => IInv'
<1> SUFFICES ASSUME IInv, [Next]_vars PROVE IInv'
  OBVIOUS
<1>1. CASE Match
  BY <1>1, MatchKeepsInvariant
<1>2. CASE Expand
  BY <1>2, ExpandKeepsInvariant
<1>3. CASE SyntaxError
  BY <1>3 DEF SyntaxError, IInv, TypeOK, TextIsDerived
<1>4. CASE Return
  BY <1>4, ReturnKeepsInvariant
<1>5. CASE UNCHANGED vars
  BY <1>5 DEF vars, IInv, TypeOK, TextIsDerived, Shape, AtTemplate, AtText, AtString,
              AtTag, AtTagStart, AtOpening, AtName, AtTagEnd, AtEoi, AtEnd, Expects
<1> QED
  BY <1>1, <1>2, <1>3, <1>4, <1>5 DEF Next, Returned

\* The stack has one of the shapes in every run of the parser.
THEOREM Invariant == Spec => []IInv
BY InitInvariant, NextInvariant, PTL DEF Spec

\* The variables of ctache_parse keep their types.
THEOREM TypeCorrect == Spec => []TypeOK
BY Invariant, PTL DEF IInv

(***************************************************************************)
(* ctache_parse never dereferences the NULL that linked_list_peek returns  *)
(* for an empty stack, and returns rules only when it has matched all of   *)
(* the template.                                                           *)
(***************************************************************************)
THEOREM StackHolds == Spec => []StackNeverRunsOut
<1>1. IInv => StackNeverRunsOut
  <2> SUFFICES ASSUME IInv PROVE StackNeverRunsOut
    OBVIOUS
  <2>1. Len(<<>>) = 0
    OBVIOUS
  <2>2. pc = "accepted" => Len(stack) = 0
    BY <2>1 DEF IInv, AtEnd
  <2>3. ASSUME pc = "parse", token_node <= Len(tokens)
        PROVE  Len(stack) > 0
    <3>1. Shape /\ stack \in Seq(Symbols)
      BY <2>3, ShapesAreStacks DEF IInv
    <3>2. ~AtEnd
      BY <2>3, Basics DEF AtEnd
    <3>3. \/ stack \in {Rest, Body, <<EOI>>}
          \/ \E symbol \in Symbols : stack \in {OnRest(symbol), OnBody(symbol)}
      BY <3>1, <3>2, SymbolFacts
         DEF Shape, AtTemplate, AtText, AtString, AtTag, AtTagStart, AtOpening, AtName,
             AtTagEnd, AtEoi, Expects
    <3>4. Len(Rest) = 2 /\ Len(Body) = 4 /\ Len(<<EOI>>) = 1
          /\ \A symbol \in Symbols : Len(OnRest(symbol)) = 3 /\ Len(OnBody(symbol)) = 5
      BY DEF Rest, Body, OnRest, OnBody
    <3> QED
      BY <3>3, <3>4
  <2> QED
    BY <2>2, <2>3 DEF StackNeverRunsOut
<1> QED
  BY <1>1, Invariant, PTL

(***************************************************************************)
(* At most three rules are applied per token: as a turn of the loop        *)
(* matches a token or applies a rule, ctache_parse returns.                *)
(***************************************************************************)
THEOREM RulesBounded == Spec => []RulesAreBounded
<1>1. IInv => RulesAreBounded
  <2> SUFFICES ASSUME IInv PROVE RulesAreBounded
    OBVIOUS
  <2>1. Len(parsed_rules) \in Nat /\ token_node \in Nat /\ token_node > 0
    BY Basics
  <2>2. CASE pc = "error"
    BY <2>1, <2>2 DEF IInv, RulesAreBounded
  <2>3. CASE Shape
    BY <2>1, <2>3
       DEF Shape, AtTemplate, AtText, AtString, AtTag, AtTagStart, AtOpening, AtName,
           AtTagEnd, AtEoi, AtEnd, Expects, RulesAreBounded
  <2> QED
    BY <2>2, <2>3 DEF IInv
<1> QED
  BY <1>1, Invariant, PTL

(***************************************************************************)
(* No template derives text as empty, and the table is never asked for a   *)
(* tag on "}}", the cell that doc/LEXING_PARSING.md:69 fills otherwise.    *)
(***************************************************************************)
THEOREM TextIsNeverEmpty == Spec => []NoEmptyText
<1>1. IInv => NoEmptyText
  <2> SUFFICES ASSUME IInv PROVE NoEmptyText
    OBVIOUS
  <2>1. ASSUME Parsing, Head(stack) = TAG, tokens[token_node] = TAG_END
        PROVE  FALSE
    <3>1. Shape
      BY <2>1 DEF Parsing, IInv
    <3>2. ~AtTag
      BY <2>1, SymbolFacts DEF AtTag, Expects
    <3>3. ~AtText /\ ~AtTagStart
      BY <2>1, SymbolFacts DEF AtText, AtTagStart, Expects
    <3>4. ~AtTemplate
      BY <2>1, Pushes DEF AtTemplate, Expects, TAG, TEMPLATE
    <3>5. Head(OnRest(STRING_TOK)) \in Terminals /\ Head(OnRest(TAG_END)) \in Terminals
          /\ \A t \in TagStarts : Head(OnBody(t)) \in Terminals
      BY PushedOne, SymbolFacts
    <3>6. ~AtString /\ ~AtTagEnd /\ ~AtOpening
      BY <2>1, <3>5, SymbolFacts DEF AtString, AtTagEnd, AtOpening, Expects
    <3>7. ~AtName /\ ~AtEoi
      BY <2>1, Pushes, SymbolFacts DEF AtName, AtEoi, Expects
    <3>8. ~AtEnd
      BY <2>1, Basics DEF Parsing, AtEnd
    <3> QED
      BY <3>1, <3>2, <3>3, <3>4, <3>6, <3>7, <3>8 DEF Shape
  <2> QED
    BY <2>1 DEF NoEmptyText, IInv, TextIsDerived
<1> QED
  BY <1>1, Invariant, PTL
-----------------------------------------------------------------------------
(***************************************************************************)
(* What the grammar is reading for each shape of the stack.                *)
(***************************************************************************)
LEMMA TopTwo ==
    /\ Len(Rest) = 2 /\ Rest[1] = TEMPLATE /\ Rest[2] = EOI
    /\ Len(Body) = 4 /\ Body[1] = STRING_TOK /\ Body[2] = TAG_END
    /\ Len(<<EOI>>) = 1
    /\ \A symbol \in Symbols :
          /\ Len(OnRest(symbol)) = 3 /\ OnRest(symbol)[1] = symbol
          /\ OnRest(symbol)[2] = TEMPLATE
          /\ Len(OnBody(symbol)) = 5 /\ OnBody(symbol)[1] = symbol
          /\ OnBody(symbol)[2] = STRING_TOK
BY DEF Rest, Body, OnRest, OnBody

\* The shapes in which a tag is not open.
Outside == \/ AtTemplate \/ AtText \/ AtString \/ AtTag \/ AtTagStart
           \/ AtOpening \/ AtEoi

LEMMA PhaseOfShape ==
    IInv => /\ pc = "error" => Phase = "rejected"
            /\ pc # "error" /\ AtEnd => Phase = "accepted"
            /\ pc # "error" /\ Outside => Phase = "template"
            /\ pc # "error" /\ AtName => Phase = "name"
            /\ pc # "error" /\ AtTagEnd => Phase = "end"
<1> SUFFICES ASSUME IInv, pc # "error"
             PROVE  /\ AtEnd => Phase = "accepted"
                    /\ Outside => Phase = "template"
                    /\ AtName => Phase = "name"
                    /\ AtTagEnd => Phase = "end"
  BY DEF Phase
<1>1. token_node \in Nat /\ Len(tokens) \in Nat
  BY Basics
<1>2. AtEnd => Phase = "accepted"
  BY <1>1 DEF AtEnd, Phase
<1>3. AtName => Phase = "name"
  <2> SUFFICES ASSUME AtName PROVE Phase = "name"
    OBVIOUS
  <2>1. stack = Body /\ token_node <= Len(tokens)
    BY DEF AtName, Expects
  <2>2. Len(stack) = 4 /\ stack[1] = STRING_TOK /\ stack[2] = TAG_END
    BY <2>1, TopTwo
  <2>3. STRING_TOK # TAG_END /\ ~(token_node > Len(tokens))
    BY <1>1, <2>1, SymbolFacts
  <2> QED
    BY <2>2, <2>3 DEF Phase
<1>4. AtTagEnd => Phase = "end"
  <2>1. TAG_END \in Symbols
    BY SymbolFacts
  <2> QED
    BY <1>1, <2>1, TopTwo DEF AtTagEnd, Expects, Phase
<1>5. ASSUME Outside PROVE Phase = "template"
  <2>1. token_node <= Len(tokens)
        /\ \/ stack \in {Rest, <<EOI>>}
           \/ \E symbol \in Symbols \ {TAG_END} : stack \in {OnRest(symbol), OnBody(symbol)}
    <3>1. {TEXT, STRING_TOK, TAG, TAG_START} \cup TagStarts \subseteq Symbols \ {TAG_END}
      BY SymbolFacts
    <3>2. CASE AtTemplate \/ AtEoi
      BY <3>2 DEF AtTemplate, AtEoi, Expects
    <3>3. CASE AtText \/ AtString
      BY <3>1, <3>3 DEF AtText, AtString, Expects
    <3>4. CASE AtTag \/ AtTagStart
      BY <3>1, <3>4 DEF AtTag, AtTagStart, Expects
    <3>5. CASE AtOpening
      BY <3>1, <3>5 DEF AtOpening, Expects
    <3> QED
      BY <1>5, <3>2, <3>3, <3>4, <3>5 DEF Outside
  <2>2. TEMPLATE # TAG_END /\ EOI # TAG_END /\ STRING_TOK # TAG_END
    BY SymbolFacts
  <2>3. ~(Len(stack) > 1 /\ stack[1] = TAG_END) /\ ~(Len(stack) > 1 /\ stack[2] = TAG_END)
    <3>1. CASE stack \in {Rest, <<EOI>>}
      BY <3>1, <2>2, TopTwo
    <3>2. CASE \E symbol \in Symbols \ {TAG_END} : stack \in {OnRest(symbol), OnBody(symbol)}
      BY <3>2, <2>2, TopTwo
    <3> QED
      BY <2>1, <3>1, <3>2
  <2> QED
    BY <1>1, <2>1, <2>3 DEF Phase
<1> QED
  BY <1>2, <1>3, <1>4, <1>5

\* The grammar names the same tokens.
LEMMA SameTokens ==
    /\ Abstract!STRING_TOK = STRING_TOK /\ Abstract!TAG_END = TAG_END
    /\ Abstract!EOI = EOI /\ Abstract!TagStarts = TagStarts
BY DEF Abstract!STRING_TOK, STRING_TOK, Abstract!TAG_END, TAG_END, Abstract!EOI, EOI,
       Abstract!TagStarts, TagStarts, Abstract!SECTION_TAG_START, SECTION_TAG_START,
       Abstract!PARTIAL_TAG, PARTIAL_TAG

(***************************************************************************)
(* A match is the step of the grammar for that token.                      *)
(***************************************************************************)
LEMMA MatchReads == ASSUME IInv, IInv', Match PROVE Abstract!Next
<1>1. /\ pc = "parse" /\ pc' = "parse" /\ token_node <= Len(tokens)
      /\ Head(stack) = tokens[token_node] /\ token_node' = token_node + 1
      /\ UNCHANGED tokens
  BY DEF Match, Parsing
<1>2. /\ Outside => Phase = "template"
      /\ AtName => Phase = "name"
      /\ AtTagEnd => Phase = "end"
      /\ Outside' => Phase' = "template"
      /\ AtName' => Phase' = "name"
      /\ AtTagEnd' => Phase' = "end"
      /\ AtEnd' => Phase' = "accepted"
  <2>1. (IInv => /\ pc # "error" /\ AtEnd => Phase = "accepted"
                 /\ pc # "error" /\ Outside => Phase = "template"
                 /\ pc # "error" /\ AtName => Phase = "name"
                 /\ pc # "error" /\ AtTagEnd => Phase = "end")'
    BY PhaseOfShape, PTL
  <2> QED
    BY <1>1, <2>1, PhaseOfShape
<1>3. CASE AtString /\ AtTemplate'
  <2>1. tokens[token_node] = STRING_TOK
    BY <1>3 DEF AtString, Expects
  <2>2. Phase = "template" /\ Phase' = "template"
    BY <1>2, <1>3 DEF Outside
  <2> QED
    BY <1>1, <2>1, <2>2, SameTokens DEF Abstract!Next, Abstract!Text, Abstract!Reads
<1>4. CASE AtOpening /\ AtName'
  <2>1. tokens[token_node] \in TagStarts
    BY <1>4 DEF AtOpening, Expects
  <2>2. Phase = "template" /\ Phase' = "name"
    BY <1>2, <1>4 DEF Outside
  <2> QED
    BY <1>1, <2>1, <2>2, SameTokens DEF Abstract!Next, Abstract!Opening, Abstract!Reads
<1>5. CASE AtName /\ AtTagEnd'
  <2>1. tokens[token_node] = STRING_TOK
    BY <1>1, <1>5, Pushes DEF AtName, Expects
  <2>2. Phase = "name" /\ Phase' = "end"
    BY <1>2, <1>5
  <2> QED
    BY <1>1, <2>1, <2>2, SameTokens DEF Abstract!Next, Abstract!Name, Abstract!Reads
<1>6. CASE AtTagEnd /\ AtTemplate'
  <2>1. tokens[token_node] = TAG_END
    <3>1. stack = OnRest(TAG_END)
      BY <1>6 DEF AtTagEnd, Expects
    <3> QED
      BY <1>1, <3>1, PushedOne, SymbolFacts
  <2>2. Phase = "end" /\ Phase' = "template"
    BY <1>2, <1>6 DEF Outside
  <2> QED
    BY <1>1, <2>1, <2>2, SameTokens DEF Abstract!Next, Abstract!End, Abstract!Reads
<1>7. CASE AtEoi /\ AtEnd'
  <2>1. tokens[token_node] = EOI
    BY <1>7 DEF AtEoi, Expects
  <2>2. Phase = "template" /\ Phase' = "accepted"
    BY <1>2, <1>7 DEF Outside
  <2> QED
    BY <1>1, <2>1, <2>2, SameTokens DEF Abstract!Next, Abstract!Accept, Abstract!Reads
<1> QED
  BY <1>3, <1>4, <1>5, <1>6, <1>7, MatchShape

\* An expansion prepares a match and leaves the grammar where it is.
LEMMA ExpandStutters == ASSUME IInv, IInv', Expand PROVE UNCHANGED Abstract!vars
<1>1. pc = "parse" /\ pc' = "parse" /\ UNCHANGED <<tokens, token_node>>
  BY DEF Expand, Parsing
<1>2. Outside /\ Outside'
  BY ExpandShape DEF Outside
<1>3. (IInv => (pc # "error" /\ Outside => Phase = "template"))'
  BY PhaseOfShape, PTL
<1>4. Phase = "template" /\ Phase' = "template"
  BY <1>1, <1>2, <1>3, PhaseOfShape
<1> QED
  BY <1>1, <1>4 DEF Abstract!vars

\* A syntax error is found at a token that the grammar rejects there.
LEMMA SyntaxErrorRejects == ASSUME IInv, SyntaxError PROVE Abstract!Reject
<1> DEFINE ahead == tokens[token_node]
<1>1. /\ pc = "parse" /\ pc' = "error" /\ token_node <= Len(tokens)
      /\ Head(stack) # ahead
      /\ parse_table_check_match(Head(stack), ahead) < 0
      /\ UNCHANGED <<tokens, token_node, stack>>
  BY DEF SyntaxError, Parsing, RuleFor
<1>2. ahead \in Terminals /\ Shape /\ ~AtEnd
  BY <1>1, Basics DEF IInv, AtEnd
<1>3. Phase' = "rejected"
  BY <1>1 DEF Phase
<1> HIDE DEF ahead
<1>4. /\ Outside => Phase = "template"
      /\ AtName => Phase = "name"
      /\ AtTagEnd => Phase = "end"
  BY <1>1, PhaseOfShape
<1>5. CASE AtName
  <2>1. stack = Body /\ Phase = "name"
    BY <1>4, <1>5 DEF AtName, Expects
  <2>2. ahead # STRING_TOK
    BY <1>1, <2>1, Pushes
  <2> QED
    BY <1>1, <1>3, <2>1, <2>2, SameTokens DEF Abstract!Reject, Abstract!Follows, ahead
<1>6. CASE AtTagEnd
  <2>1. stack = OnRest(TAG_END) /\ Phase = "end"
    BY <1>4, <1>6 DEF AtTagEnd, Expects
  <2>2. ahead # TAG_END
    BY <1>1, <2>1, PushedOne, SymbolFacts
  <2> QED
    BY <1>1, <1>3, <2>1, <2>2, SameTokens DEF Abstract!Reject, Abstract!Follows, ahead
<1>7. CASE AtTemplate
  <2>1. Head(stack) = TEMPLATE /\ Phase = "template"
    BY <1>4, <1>7, Pushes DEF AtTemplate, Expects, Outside
  <2>2. ahead \notin TagStarts \cup {STRING_TOK, EOI}
    <3>1. parse_table_check_match(TEMPLATE, ahead) < 0
      BY <1>1, <2>1
    <3>2. /\ ahead \in TagStarts => parse_table_check_match(TEMPLATE, ahead) = 1
          /\ ahead = STRING_TOK => parse_table_check_match(TEMPLATE, ahead) = 0
          /\ ahead = EOI => parse_table_check_match(TEMPLATE, ahead) = 2
      BY TableAndProductions
    <3> QED
      BY <3>1, <3>2
  <2> QED
    BY <1>1, <1>3, <2>1, <2>2, SameTokens DEF Abstract!Reject, Abstract!Follows, ahead
<1>8. ~AtText /\ ~AtTag /\ ~AtTagStart
  <2>1. AtText => stack = OnRest(TEXT) /\ ahead = STRING_TOK
    BY DEF AtText, Expects, ahead
  <2>2. AtTag => stack = OnRest(TAG) /\ ahead \in TagStarts
    BY DEF AtTag, Expects, ahead
  <2>3. AtTagStart => stack = OnBody(TAG_START) /\ ahead \in TagStarts
    BY DEF AtTagStart, Expects, ahead
  <2>4. /\ Head(OnRest(TEXT)) = TEXT /\ Head(OnRest(TAG)) = TAG
        /\ Head(OnBody(TAG_START)) = TAG_START
    BY PushedOne, SymbolFacts
  <2>5. ~AtText
    BY <1>1, <2>1, <2>4, TableAndProductions
  <2>6. ~AtTag
    BY <1>1, <2>2, <2>4, TableAndProductions
  <2>7. ~AtTagStart
    <3>1. ASSUME AtTagStart PROVE FALSE
      <4>1. parse_table_check_match(TAG_START, ahead) = 6 + ahead /\ ahead \in 0 .. 4
        BY <2>3, <3>1, TableAndProductions, SymbolFacts
      <4> QED
        BY <1>1, <2>3, <2>4, <3>1, <4>1
    <3> QED
      BY <3>1
  <2> QED
    BY <2>5, <2>6, <2>7
<1>9. ~AtString /\ ~AtOpening /\ ~AtEoi
  <2>1. AtString => stack = OnRest(STRING_TOK) /\ ahead = STRING_TOK
    BY DEF AtString, Expects, ahead
  <2>2. AtOpening => \E t \in TagStarts : stack = OnBody(t) /\ ahead = t
    BY DEF AtOpening, Expects, ahead
  <2>3. AtEoi => stack = <<EOI>> /\ ahead = EOI
    BY DEF AtEoi, Expects, ahead
  <2>4. /\ Head(OnRest(STRING_TOK)) = STRING_TOK /\ Head(<<EOI>>) = EOI
        /\ \A t \in TagStarts : Head(OnBody(t)) = t
    BY Pushes, PushedOne, SymbolFacts
  <2> QED
    BY <1>1, <2>1, <2>2, <2>3, <2>4
<1> QED
  BY <1>2, <1>5, <1>6, <1>7, <1>8, <1>9 DEF Shape

LEMMA ReturnStutters == ASSUME IInv, Return PROVE UNCHANGED Abstract!vars
<1>1. pc = "parse" /\ pc' = "accepted" /\ UNCHANGED <<tokens, token_node, stack>>
  BY DEF Return
<1> QED
  BY <1>1 DEF Abstract!vars, Phase

(***************************************************************************)
(* ctache_parse implements the grammar: it accepts the templates that the  *)
(* grammar generates and stops at the first token that cannot continue     *)
(* one.                                                                    *)
(***************************************************************************)
THEOREM ParserImplementsGrammar == Spec => ImplementsGrammar
<1>1. Init => Abstract!Init
  <2> SUFFICES ASSUME Init PROVE Abstract!Init
    OBVIOUS
  <2>1. IInv /\ AtTemplate /\ pc = "parse" /\ tokens \in Inputs /\ token_node = 1
    <3>1. tokens \in Inputs /\ token_node = 1 /\ pc = "parse" /\ stack = Rest
          /\ parsed_rules = <<>>
      BY DEF Init, InitialStack, Rest
    <3>2. tokens \in Seq(Terminals) /\ Len(tokens) > 0 /\ Len(tokens) \in Nat
      BY <3>1, InputsAssumption
    <3> QED
      BY <3>1, <3>2, InitInvariant DEF AtTemplate, Expects
  <2>2. Phase = "template"
    BY <2>1, PhaseOfShape DEF Outside
  <2> QED
    BY <2>1, <2>2 DEF Abstract!Init
<1>2. IInv /\ IInv' /\ [Next]_vars => [Abstract!Next]_(Abstract!vars)
  <2> SUFFICES ASSUME IInv, IInv', [Next]_vars
               PROVE  [Abstract!Next]_(Abstract!vars)
    OBVIOUS
  <2>1. CASE Match
    BY <2>1, MatchReads
  <2>2. CASE Expand
    BY <2>2, ExpandStutters
  <2>3. CASE SyntaxError
    BY <2>3, SyntaxErrorRejects DEF Abstract!Next
  <2>4. CASE Return
    BY <2>4, ReturnStutters
  <2>5. CASE UNCHANGED vars
    BY <2>5 DEF vars, Abstract!vars, Phase
  <2> QED
    BY <2>1, <2>2, <2>3, <2>4, <2>5 DEF Next, Returned
<1> QED
  BY <1>1, <1>2, Invariant, PTL DEF Spec, ImplementsGrammar, Abstract!Spec
-----------------------------------------------------------------------------
(***************************************************************************)
(* The rules of a derivation and the renderer's walk over them are         *)
(* recursive functions: what they are is proved by induction.              *)
(***************************************************************************)
\* Induction, as a statement about sets.
LEMMA SetInduction ==
    ASSUME NEW S, 0 \in S, \A n \in Nat : n \in S => n + 1 \in S
    PROVE  Nat \subseteq S
<1> DEFINE T == Nat \ S
<1> SUFFICES ASSUME T # {} PROVE FALSE
    OBVIOUS
<1>1. \E x \in T : \A y \in T : ~(<<y, x>> \in OpToRel(<, Nat))
    <2>1. T \subseteq Nat
        OBVIOUS
    <2> HIDE DEF T
    <2>2. QED
        BY <2>1, NatLessThanWellFounded, WFMin
<1>2. PICK x \in T : \A y \in T : ~(<<y, x>> \in OpToRel(<, Nat))
    BY <1>1
<1>3. x \in Nat \ {0}
    OBVIOUS
<1>4. x - 1 \in Nat /\ x - 1 < x
    BY <1>3
<1>5. x - 1 \in T
    <2>1. x - 1 \notin S
        BY <1>3, <1>4
    <2>2. QED
        BY <1>4, <2>1
<1>6. <<x - 1, x>> \in OpToRel(<, Nat)
    BY <1>3, <1>4 DEF OpToRel
<1>7. QED
    BY <1>2, <1>5, <1>6

\* What the first has and each hands on to the next, all have.
LEMMA AllOf ==
    ASSUME NEW V, NEW len \in Nat, NEW g, g[1] \in V,
           \A k \in 1 .. len : g[k] \in V => g[k + 1] \in V
    PROVE  \A k \in 1 .. len + 1 : g[k] \in V
<1> DEFINE S == {n \in Nat : n <= len => g[n + 1] \in V}
<1>1. 0 \in S
    OBVIOUS
<1>2. ASSUME NEW n \in Nat, n \in S PROVE n + 1 \in S
    <2> SUFFICES ASSUME n + 1 <= len PROVE g[(n + 1) + 1] \in V
        OBVIOUS
    <2>1. n + 1 \in 1 .. len /\ g[n + 1] \in V
        BY <1>2
    <2>2. QED
        BY <2>1
<1>3. Nat \subseteq S
    <2> HIDE DEF S
    <2>1. QED
        BY <1>1, <1>2, SetInduction
<1>4. ASSUME NEW k \in 1 .. len + 1 PROVE g[k] \in V
    <2>1. k - 1 \in Nat /\ k - 1 <= len /\ (k - 1) + 1 = k
        OBVIOUS
    <2>2. k - 1 \in S
        BY <1>3, <2>1
    <2>3. QED
        BY <2>1, <2>2
<1>5. QED
    BY <1>4

\* The recursion of RulesBefore has a solution, which is typed.
LEMMA RulesBeforeIs ==
    ASSUME NEW types, Len(types) \in Nat,
           \A k \in 1 .. Len(types) : RulesAt(types, k) \in Seq(0 .. 10)
    PROVE  /\ RulesBefore(types) \in [1 .. Len(types) + 1 -> Seq(0 .. 10)]
           /\ RulesBefore(types)[1] = <<>>
           /\ \A k \in 1 .. Len(types) :
                 RulesBefore(types)[k + 1] = RulesBefore(types)[k] \o RulesAt(types, k)
<1> DEFINE V == Seq(0 .. 10)
           len == Len(types)
           rule(f, k) == IF k = 1 THEN <<>> ELSE f[k - 1] \o RulesAt(types, k - 1)
<1> DEFINE IsUpTo(f, n) ==
               /\ f = [k \in 1 .. n + 1 |-> f[k]]
               /\ f[1] = <<>>
               /\ \A k \in 1 .. n : f[k + 1] = f[k] \o RulesAt(types, k)
           S == {n \in Nat : \E f : IsUpTo(f, n)}
<1>1. 0 \in S
    <2> DEFINE g == [k \in 1 .. 0 + 1 |-> <<>>]
    <2>1. IsUpTo(g, 0)
        OBVIOUS
    <2>2. QED
        BY <2>1
<1>2. ASSUME NEW n \in Nat, n \in S PROVE n + 1 \in S
    <2>1. PICK f : IsUpTo(f, n)
        BY <1>2
    <2> DEFINE last == f[n + 1] \o RulesAt(types, n + 1)
               g == [k \in 1 .. (n + 1) + 1 |-> IF k = n + 2 THEN last ELSE f[k]]
    <2> HIDE DEF last
    <2>2. g[1] = <<>>
        <3>1. 1 \in 1 .. (n + 1) + 1 /\ 1 # n + 2
            OBVIOUS
        <3>2. QED
            BY <2>1, <3>1
    <2>3. ASSUME NEW k \in 1 .. n + 1 PROVE g[k + 1] = g[k] \o RulesAt(types, k)
        <3>1. k \in 1 .. (n + 1) + 1 /\ k + 1 \in 1 .. (n + 1) + 1 /\ k # n + 2
            OBVIOUS
        <3>2. g[k] = f[k]
            BY <3>1
        <3>3. CASE k = n + 1
            <4>1. k + 1 = n + 2
                BY <3>3
            <4>2. g[k + 1] = last
                BY <3>1, <4>1
            <4> HIDE DEF g
            <4>3. QED
                BY <3>2, <3>3, <4>2 DEF last
        <3>4. CASE k # n + 1
            <4>1. k \in 1 .. n /\ k + 1 # n + 2
                BY <3>4
            <4>2. g[k + 1] = f[k + 1]
                BY <3>1, <4>1
            <4> HIDE DEF g
            <4>3. QED
                BY <2>1, <3>2, <4>1, <4>2
        <3>5. QED
            BY <3>3, <3>4
    <2>4. g = [k \in 1 .. (n + 1) + 1 |-> g[k]]
        OBVIOUS
    <2> HIDE DEF g
    <2>5. IsUpTo(g, n + 1)
        BY <2>2, <2>3, <2>4
    <2>6. n + 1 \in Nat
        OBVIOUS
    <2> HIDE DEF IsUpTo
    <2>7. QED
        BY <2>5, <2>6
<1>3. len \in S
    <2>1. Nat \subseteq S
        <3> HIDE DEF S
        <3>1. QED
            BY <1>1, <1>2, SetInduction
    <2>2. QED
        BY <2>1
<1>4. PICK f : IsUpTo(f, len)
    BY <1>3
<1>5. f = [k \in 1 .. len + 1 |-> rule(f, k)]
    <2>1. ASSUME NEW k \in 1 .. len + 1 PROVE f[k] = rule(f, k)
        <3>1. CASE k = 1
            BY <1>4, <3>1
        <3>2. CASE k # 1
            <4>1. k - 1 \in 1 .. len /\ (k - 1) + 1 = k
                BY <3>2
            <4>2. QED
                BY <1>4, <3>2, <4>1
        <3>3. QED
            BY <3>1, <3>2
    <2>2. f = [k \in 1 .. len + 1 |-> f[k]]
        BY <1>4
    <2>3. QED
        BY <2>1, <2>2
<1>6. RulesBefore(types) = [k \in 1 .. len + 1 |-> rule(RulesBefore(types), k)]
    BY <1>5, Zenon DEF RulesBefore
<1> DEFINE g == RulesBefore(types)
<1>7. DOMAIN g = 1 .. len + 1 /\ \A k \in 1 .. len + 1 : g[k] = rule(g, k)
    <2>1. g = [k \in 1 .. len + 1 |-> rule(g, k)]
        BY <1>6
    <2> HIDE DEF g
    <2> DEFINE h == [k \in 1 .. len + 1 |-> rule(g, k)]
    <2>2. DOMAIN h = 1 .. len + 1 /\ \A k \in 1 .. len + 1 : h[k] = rule(g, k)
        OBVIOUS
    <2>3. g = h
        BY <2>1
    <2> HIDE DEF h, rule
    <2>4. QED
        BY <2>2, <2>3
<1> HIDE DEF g
<1>8. /\ g[1] = <<>>
      /\ \A k \in 1 .. len : g[k + 1] = g[k] \o RulesAt(types, k)
    <2>1. /\ 1 \in 1 .. len + 1
          /\ \A k \in 1 .. len : k + 1 \in 1 .. len + 1 /\ k + 1 # 1 /\ (k + 1) - 1 = k
        OBVIOUS
    <2>2. QED
        BY <1>7, <2>1
<1>9. \A k \in 1 .. len + 1 : g[k] \in V
    <2>1. len \in Nat /\ g[1] \in V
        BY <1>8
    <2>2. \A k \in 1 .. len : g[k] \in V => g[k + 1] \in V
        <3> SUFFICES ASSUME NEW k \in 1 .. len, g[k] \in V PROVE g[k + 1] \in V
            OBVIOUS
        <3>1. RulesAt(types, k) \in V
            OBVIOUS
        <3>2. g[k] \o RulesAt(types, k) \in V
            BY <3>1
        <3>3. QED
            BY <1>8, <3>2
    <2> HIDE DEF V, len
    <2>3. QED
        BY <2>1, <2>2, AllOf
<1>10. g = [k \in 1 .. len + 1 |-> g[k]]
    <2>1. g = [k \in 1 .. len + 1 |-> rule(g, k)]
        BY <1>6 DEF g
    <2>2. QED
        BY <1>7, <2>1
<1>11. QED
    BY <1>8, <1>9, <1>10 DEF g
\* That of TokenAt, too.
LEMMA TokenAtIs ==
    ASSUME NEW rules \in Seq(0 .. 10)
    PROVE  /\ TokenAt(rules) \in [1 .. Len(rules) + 1 -> Int]
           /\ TokenAt(rules)[1] = 1
           /\ \A k \in 1 .. Len(rules) :
                 TokenAt(rules)[k + 1] = TokenAt(rules)[k] + Width(rules[k])
<1> DEFINE V == Int
           len == Len(rules)
           place(f, k) == IF k = 1 THEN 1 ELSE f[k - 1] + Width(rules[k - 1])
<1> DEFINE IsUpTo(f, n) ==
               /\ f = [k \in 1 .. n + 1 |-> f[k]]
               /\ f[1] = 1
               /\ \A k \in 1 .. n : f[k + 1] = f[k] + Width(rules[k])
           S == {n \in Nat : \E f : IsUpTo(f, n)}
<1>1. 0 \in S
    <2> DEFINE g == [k \in 1 .. 0 + 1 |-> 1]
    <2>1. IsUpTo(g, 0)
        OBVIOUS
    <2>2. QED
        BY <2>1
<1>2. ASSUME NEW n \in Nat, n \in S PROVE n + 1 \in S
    <2>1. PICK f : IsUpTo(f, n)
        BY <1>2
    <2> DEFINE last == f[n + 1] + Width(rules[n + 1])
               g == [k \in 1 .. (n + 1) + 1 |-> IF k = n + 2 THEN last ELSE f[k]]
    <2> HIDE DEF last
    <2>2. g[1] = 1
        <3>1. 1 \in 1 .. (n + 1) + 1 /\ 1 # n + 2
            OBVIOUS
        <3>2. QED
            BY <2>1, <3>1
    <2>3. ASSUME NEW k \in 1 .. n + 1 PROVE g[k + 1] = g[k] + Width(rules[k])
        <3>1. k \in 1 .. (n + 1) + 1 /\ k + 1 \in 1 .. (n + 1) + 1 /\ k # n + 2
            OBVIOUS
        <3>2. g[k] = f[k]
            BY <3>1
        <3>3. CASE k = n + 1
            <4>1. k + 1 = n + 2
                BY <3>3
            <4>2. g[k + 1] = last
                BY <3>1, <4>1
            <4> HIDE DEF g
            <4>3. QED
                BY <3>2, <3>3, <4>2 DEF last
        <3>4. CASE k # n + 1
            <4>1. k \in 1 .. n /\ k + 1 # n + 2
                BY <3>4
            <4>2. g[k + 1] = f[k + 1]
                BY <3>1, <4>1
            <4> HIDE DEF g
            <4>3. QED
                BY <2>1, <3>2, <4>1, <4>2
        <3>5. QED
            BY <3>3, <3>4
    <2>4. g = [k \in 1 .. (n + 1) + 1 |-> g[k]]
        OBVIOUS
    <2> HIDE DEF g
    <2>5. IsUpTo(g, n + 1)
        BY <2>2, <2>3, <2>4
    <2>6. n + 1 \in Nat
        OBVIOUS
    <2> HIDE DEF IsUpTo
    <2>7. QED
        BY <2>5, <2>6
<1>3. len \in S
    <2>1. Nat \subseteq S
        <3> HIDE DEF S
        <3>1. QED
            BY <1>1, <1>2, SetInduction
    <2>2. len \in Nat
        OBVIOUS
    <2> HIDE DEF S, len
    <2>3. QED
        BY <2>1, <2>2
<1>4. PICK f : IsUpTo(f, len)
    BY <1>3
<1>5. f = [k \in 1 .. len + 1 |-> place(f, k)]
    <2>1. ASSUME NEW k \in 1 .. len + 1 PROVE f[k] = place(f, k)
        <3>1. CASE k = 1
            BY <1>4, <3>1
        <3>2. CASE k # 1
            <4>1. k - 1 \in 1 .. len /\ (k - 1) + 1 = k
                BY <3>2
            <4>2. QED
                BY <1>4, <3>2, <4>1
        <3>3. QED
            BY <3>1, <3>2
    <2>2. f = [k \in 1 .. len + 1 |-> f[k]]
        BY <1>4
    <2>3. QED
        BY <2>1, <2>2
<1>6. TokenAt(rules) = [k \in 1 .. len + 1 |-> place(TokenAt(rules), k)]
    BY <1>5, Zenon DEF TokenAt
<1> DEFINE g == TokenAt(rules)
<1>7. DOMAIN g = 1 .. len + 1 /\ \A k \in 1 .. len + 1 : g[k] = place(g, k)
    <2>1. g = [k \in 1 .. len + 1 |-> place(g, k)]
        BY <1>6
    <2> HIDE DEF g
    <2> DEFINE h == [k \in 1 .. len + 1 |-> place(g, k)]
    <2>2. DOMAIN h = 1 .. len + 1 /\ \A k \in 1 .. len + 1 : h[k] = place(g, k)
        OBVIOUS
    <2>3. g = h
        BY <2>1
    <2> HIDE DEF h, place
    <2>4. QED
        BY <2>2, <2>3
<1> HIDE DEF g
<1>8. /\ g[1] = 1
      /\ \A k \in 1 .. len : g[k + 1] = g[k] + Width(rules[k])
    <2>1. /\ 1 \in 1 .. len + 1
          /\ \A k \in 1 .. len : k + 1 \in 1 .. len + 1 /\ k + 1 # 1 /\ (k + 1) - 1 = k
        OBVIOUS
    <2>2. QED
        BY <1>7, <2>1
<1>9. \A k \in 1 .. len + 1 : g[k] \in V
    <2>1. len \in Nat /\ g[1] \in V
        BY <1>8
    <2>2. \A k \in 1 .. len : g[k] \in V => g[k + 1] \in V
        <3> SUFFICES ASSUME NEW k \in 1 .. len, g[k] \in V PROVE g[k + 1] \in V
            OBVIOUS
        <3>1. Width(rules[k]) \in V
            BY DEF Width
        <3>2. g[k] + Width(rules[k]) \in V
            BY <3>1
        <3>3. QED
            BY <1>8, <3>2
    <2> HIDE DEF V, len
    <2>3. QED
        BY <2>1, <2>2, AllOf
<1>10. g = [k \in 1 .. len + 1 |-> g[k]]
    <2>1. g = [k \in 1 .. len + 1 |-> place(g, k)]
        BY <1>6 DEF g
    <2>2. QED
        BY <1>7, <2>1
<1>11. QED
    BY <1>8, <1>9, <1>10 DEF g
\* The walk up to a rule does not depend on the rules from it on.
LEMMA TokenAtAppend ==
    ASSUME NEW rules \in Seq(0 .. 10), NEW rule \in 0 .. 10
    PROVE  LET all == Append(rules, rule)
           IN /\ \A k \in 1 .. Len(rules) + 1 : TokenAt(all)[k] = TokenAt(rules)[k]
              /\ TokenAt(all)[Len(rules) + 2] = TokenAt(rules)[Len(rules) + 1] + Width(rule)
<1> DEFINE all == Append(rules, rule)
           len == Len(rules)
           at == TokenAt(rules)
           on == TokenAt(all)
           S == {n \in Nat : n <= len => on[n + 1] = at[n + 1]}
<1>1. /\ all \in Seq(0 .. 10) /\ Len(all) = len + 1 /\ len \in Nat
      /\ all[len + 1] = rule /\ \A k \in 1 .. len : all[k] = rules[k]
    OBVIOUS
<1>2. /\ at[1] = 1 /\ \A k \in 1 .. len : at[k + 1] = at[k] + Width(rules[k])
    BY TokenAtIs
<1>3. /\ on[1] = 1 /\ \A k \in 1 .. len + 1 : on[k + 1] = on[k] + Width(all[k])
    <2> HIDE DEF all
    <2>1. QED
        BY <1>1, TokenAtIs
<1> HIDE DEF all, at, on, len
<1>4. 0 \in S
    BY <1>2, <1>3
<1>5. ASSUME NEW n \in Nat, n \in S PROVE n + 1 \in S
    <2> SUFFICES ASSUME n + 1 <= len PROVE on[(n + 1) + 1] = at[(n + 1) + 1]
        OBVIOUS
    <2>1. n + 1 \in 1 .. len /\ n + 1 \in 1 .. len + 1 /\ on[n + 1] = at[n + 1]
        BY <1>1, <1>5
    <2>2. QED
        BY <1>1, <1>2, <1>3, <2>1
<1>6. Nat \subseteq S
    <2> HIDE DEF S
    <2>1. QED
        BY <1>4, <1>5, SetInduction
<1>7. ASSUME NEW k \in 1 .. len + 1 PROVE on[k] = at[k]
    <2>1. k - 1 \in Nat /\ k - 1 <= len /\ (k - 1) + 1 = k
        BY <1>1
    <2>2. k - 1 \in S
        BY <1>6, <2>1
    <2>3. QED
        BY <2>1, <2>2
<1>8. on[len + 2] = at[len + 1] + Width(rule)
    <2>1. len + 1 \in 1 .. len + 1 /\ (len + 1) + 1 = len + 2
        BY <1>1
    <2>2. on[(len + 1) + 1] = on[len + 1] + Width(all[len + 1])
        BY <1>3, <2>1
    <2>3. QED
        BY <1>1, <1>7, <2>1, <2>2
<1>9. QED
    BY <1>7, <1>8 DEF on, at, all, len
-----------------------------------------------------------------------------
(***************************************************************************)
(* The rules and the tokens, step by step.                                 *)
(***************************************************************************)
\* The rules applied since the last token was matched: the stack shows them.
Pending(s, token) ==
    IF s = <<>> THEN <<>>
    ELSE IF s = OnRest(TEXT) THEN <<0>>
    ELSE IF s = OnRest(STRING_TOK) THEN <<0, 3>>
    ELSE IF s = OnRest(TAG) THEN <<1>>
    ELSE IF s = OnBody(TAG_START) THEN <<1, 5>>
    ELSE IF s = OnBody(token) THEN <<1, 5, 6 + token>>
    ELSE IF s = <<EOI>> THEN <<2>>
    ELSE <<>>

\* How many tokens the renderer's walk over all the rules so far is ahead.
Ahead(s, token) ==
    IF s = <<>> THEN -1
    ELSE IF s = OnRest(STRING_TOK) \/ s = OnRest(TAG_END) THEN 1
    ELSE IF s = Body THEN 2
    ELSE IF s = OnBody(token) THEN 3
    ELSE 0

\* The rules are those of the tokens before, and those of the current one so far.
Derives ==
    /\ parsed_rules = RulesBefore(tokens)[token_node] \o Pending(stack, tokens[token_node])
    /\ stack = Rest \/ stack = OnRest(TEXT) \/ stack = OnRest(STRING_TOK)
           => ~IsName(tokens, token_node)
    /\ stack = Body => IsName(tokens, token_node)

\* Rule r stands where the renderer comes to it, as far as tokens are matched.
FitsAt(at, r) ==
    /\ at[r] \in 1 .. Len(tokens) /\ at[r] <= token_node
    /\ parsed_rules[r] = 3 => tokens[at[r]] = STRING_TOK
    /\ parsed_rules[r] \in 6 .. 10 =>
          /\ tokens[at[r]] = parsed_rules[r] - 6
          /\ at[r] + 1 < token_node => tokens[at[r] + 1] = STRING_TOK
          /\ at[r] + 2 < token_node => tokens[at[r] + 2] = TAG_END

Walks ==
    /\ TokenAt(parsed_rules)[Len(parsed_rules) + 1]
           = token_node + Ahead(stack, tokens[token_node])
    /\ \A r \in 1 .. Len(parsed_rules) : FitsAt(TokenAt(parsed_rules), r)

WInv == IInv /\ (pc # "error" => Derives /\ Walks)
-----------------------------------------------------------------------------
\* The stacks of the shapes are different.
LEMMA StacksDiffer ==
    /\ \A x, y : OnRest(x) = OnRest(y) => x = y
    /\ \A x, y : OnBody(x) = OnBody(y) => x = y
    /\ \A x, y : OnRest(x) # OnBody(y)
    /\ \A x : OnRest(x) # Rest /\ OnRest(x) # Body /\ OnRest(x) # <<EOI>> /\ OnRest(x) # <<>>
    /\ \A x : OnBody(x) # Rest /\ OnBody(x) # Body /\ OnBody(x) # <<EOI>> /\ OnBody(x) # <<>>
    /\ Rest # Body /\ Rest # <<EOI>> /\ Rest # <<>>
    /\ Body # <<EOI>> /\ Body # <<>> /\ <<EOI>> # <<>>
<1>1. \A x, y : OnRest(x) = OnRest(y) => x = y
    <2> SUFFICES ASSUME NEW x, NEW y, OnRest(x) = OnRest(y) PROVE x = y
        OBVIOUS
    <2>1. OnRest(x)[1] = x /\ OnRest(y)[1] = y
        BY DEF OnRest
    <2>2. QED
        BY <2>1
<1>2. \A x, y : OnBody(x) = OnBody(y) => x = y
    <2> SUFFICES ASSUME NEW x, NEW y, OnBody(x) = OnBody(y) PROVE x = y
        OBVIOUS
    <2>1. OnBody(x)[1] = x /\ OnBody(y)[1] = y
        BY DEF OnBody
    <2>2. QED
        BY <2>1
<1> DEFINE one == <<EOI>>
           none == <<>>
<1>3. /\ \A x : Len(OnRest(x)) = 3 /\ Len(OnBody(x)) = 5
      /\ Len(Rest) = 2 /\ Len(Body) = 4 /\ Len(one) = 1 /\ Len(none) = 0
    BY DEF OnRest, OnBody, Rest, Body
<1> HIDE DEF one, none
<1>4. ASSUME NEW x, NEW y PROVE Len(OnRest(x)) # Len(OnBody(y))
    <2>1. Len(OnRest(x)) = 3 /\ Len(OnBody(y)) = 5
        BY <1>3
    <2>2. QED
        BY <2>1
<1>5. ASSUME NEW x
      PROVE  /\ Len(OnRest(x)) # Len(Rest) /\ Len(OnRest(x)) # Len(Body)
             /\ Len(OnRest(x)) # Len(one) /\ Len(OnRest(x)) # Len(none)
    <2>1. Len(OnRest(x)) = 3
        BY <1>3
    <2>2. QED
        BY <1>3, <2>1
<1>6. ASSUME NEW x
      PROVE  /\ Len(OnBody(x)) # Len(Rest) /\ Len(OnBody(x)) # Len(Body)
             /\ Len(OnBody(x)) # Len(one) /\ Len(OnBody(x)) # Len(none)
    <2>1. Len(OnBody(x)) = 5
        BY <1>3
    <2>2. QED
        BY <1>3, <2>1
<1>7. /\ Len(Rest) # Len(Body) /\ Len(Rest) # Len(one) /\ Len(Rest) # Len(none)
      /\ Len(Body) # Len(one) /\ Len(Body) # Len(none) /\ Len(one) # Len(none)
    BY <1>3
<1>8. \A x, y : OnRest(x) # OnBody(y)
    BY <1>4, Zenon
<1>9. \A x : OnRest(x) # Rest /\ OnRest(x) # Body /\ OnRest(x) # one /\ OnRest(x) # none
    BY <1>5, Zenon
<1>10. \A x : OnBody(x) # Rest /\ OnBody(x) # Body /\ OnBody(x) # one /\ OnBody(x) # none
    BY <1>6, Zenon
<1>11. Rest # Body /\ Rest # one /\ Rest # none /\ Body # one /\ Body # none /\ one # none
    BY <1>7, Zenon
<1>12. QED
    BY <1>1, <1>2, <1>8, <1>9, <1>10, <1>11 DEF one, none

\* What the stacks of the shapes show.
LEMMA PendingIs ==
    ASSUME NEW token
    PROVE  /\ Pending(<<>>, token) = <<>>
           /\ Pending(Rest, token) = <<>>
           /\ Pending(OnRest(TEXT), token) = <<0>>
           /\ Pending(OnRest(STRING_TOK), token) = <<0, 3>>
           /\ Pending(OnRest(TAG), token) = <<1>>
           /\ Pending(OnBody(TAG_START), token) = <<1, 5>>
           /\ token \in TagStarts => Pending(OnBody(token), token) = <<1, 5, 6 + token>>
           /\ Pending(Body, token) = <<>>
           /\ Pending(OnRest(TAG_END), token) = <<>>
           /\ Pending(<<EOI>>, token) = <<2>>
<1>1. /\ TEXT # STRING_TOK /\ TEXT # TAG /\ TEXT # TAG_END
      /\ STRING_TOK # TAG /\ STRING_TOK # TAG_END /\ TAG # TAG_END
    BY DEF TEXT, STRING_TOK, TAG, TAG_END
<1>2. token \in TagStarts => token # TAG_START
    BY SymbolFacts DEF TagStarts, TAG_START, SECTION_TAG_START, PARTIAL_TAG
<1>3. QED
    BY <1>1, <1>2, StacksDiffer DEF Pending

\* And how far ahead the walk is then.
LEMMA AheadIs ==
    ASSUME NEW token \in Terminals
    PROVE  /\ Ahead(Rest, token) = 0
           /\ Ahead(OnRest(TEXT), token) = 0
           /\ Ahead(OnRest(STRING_TOK), token) = 1
           /\ Ahead(OnRest(TAG), token) = 0
           /\ Ahead(OnBody(TAG_START), token) = 0
           /\ Ahead(OnBody(token), token) = 3
           /\ Ahead(Body, token) = 2
           /\ Ahead(OnRest(TAG_END), token) = 1
           /\ Ahead(<<EOI>>, token) = 0
<1>1. /\ TEXT # STRING_TOK /\ TEXT # TAG_END /\ TAG # STRING_TOK /\ TAG # TAG_END
    BY DEF TEXT, STRING_TOK, TAG, TAG_END
<1>2. token # TAG_START
    BY SymbolFacts
<1>3. QED
    BY <1>1, <1>2, StacksDiffer DEF Ahead

\* The rules for one token.
LEMMA RulesAtIs ==
    ASSUME IInv, NEW k \in 1 .. Len(tokens)
    PROVE  /\ RulesAt(tokens, k) \in Seq(0 .. 10)
           /\ tokens[k] = STRING_TOK => RulesAt(tokens, k) = IF IsName(tokens, k) THEN <<>>
                                                                              ELSE <<0, 3>>
           /\ tokens[k] \in TagStarts => RulesAt(tokens, k) = <<1, 5, 6 + tokens[k]>>
           /\ tokens[k] = TAG_END => RulesAt(tokens, k) = <<>>
           /\ tokens[k] = EOI => RulesAt(tokens, k) = <<2>>
<1>1. tokens[k] \in Terminals
    BY DEF IInv, TypeOK
<1>2. CASE tokens[k] \in TagStarts
    <2>1. RulesAt(tokens, k) = <<1, 5, 6 + tokens[k]>>
        BY <1>2, SymbolFacts DEF RulesAt
    <2>2. 6 + tokens[k] \in 0 .. 10
        <3> DEFINE t == tokens[k]
        <3>1. t \in 0 .. 4
            BY <1>2, SymbolFacts
        <3> HIDE DEF t
        <3>2. 6 + t \in 0 .. 10
            BY <3>1
        <3>3. QED
            BY <3>2 DEF t
    <2>3. <<1, 5, 6 + tokens[k]>> \in Seq(0 .. 10)
        BY <2>2
    <2>4. QED
        BY <1>2, <2>1, <2>3, SymbolFacts
<1>3. CASE tokens[k] = STRING_TOK
    <2>1. RulesAt(tokens, k) = IF IsName(tokens, k) THEN <<>> ELSE <<0, 3>>
        BY <1>3, SymbolFacts DEF RulesAt
    <2>2. <<>> \in Seq(0 .. 10) /\ <<0, 3>> \in Seq(0 .. 10)
        OBVIOUS
    <2>3. RulesAt(tokens, k) \in Seq(0 .. 10)
        BY <2>1, <2>2
    <2>4. tokens[k] # TAG_END /\ tokens[k] # EOI /\ tokens[k] \notin TagStarts
        BY <1>3, SymbolFacts
    <2> HIDE DEF RulesAt
    <2>5. QED
        BY <2>1, <2>3, <2>4
<1>4. CASE tokens[k] = TAG_END
    <2>1. RulesAt(tokens, k) = <<>>
        BY <1>4, SymbolFacts DEF RulesAt
    <2>2. QED
        BY <1>4, <2>1, SymbolFacts
<1>5. CASE tokens[k] = EOI
    <2>1. RulesAt(tokens, k) = <<2>>
        BY <1>5, SymbolFacts DEF RulesAt
    <2>2. QED
        BY <1>5, <2>1, SymbolFacts
<1>6. QED
    BY <1>1, <1>2, <1>3, <1>4, <1>5, SymbolFacts

\* The rules before each token, for the list being parsed.
LEMMA RulesBeforeAre ==
    ASSUME IInv
    PROVE  /\ RulesBefore(tokens) \in [1 .. Len(tokens) + 1 -> Seq(0 .. 10)]
           /\ RulesBefore(tokens)[1] = <<>>
           /\ \A k \in 1 .. Len(tokens) :
                 RulesBefore(tokens)[k + 1] = RulesBefore(tokens)[k] \o RulesAt(tokens, k)
BY Basics, RulesAtIs, RulesBeforeIs
-----------------------------------------------------------------------------
(***************************************************************************)
(* A match ends what the rules for its token are, and brings the renderer's*)
(* walk one token nearer; the token is the one that the walk has passed.   *)
(***************************************************************************)
LEMMA MatchFits ==
    ASSUME WInv, Match
    PROVE  /\ RulesAt(tokens, token_node) = Pending(stack, tokens[token_node])
           /\ Pending(stack', tokens'[token_node']) = <<>>
           /\ Ahead(stack', tokens'[token_node']) = Ahead(stack, tokens[token_node]) - 1
           /\ stack' # OnRest(TEXT) /\ stack' # OnRest(STRING_TOK)
           /\ stack' = Rest => ~IsName(tokens, token_node + 1)
           /\ stack' = Body => IsName(tokens, token_node + 1)
           /\ Ahead(stack, tokens[token_node]) \in {0, 1, 2, 3}
           /\ Ahead(stack, tokens[token_node]) = 2 => tokens[token_node] = STRING_TOK
           /\ Ahead(stack, tokens[token_node]) = 1 =>
                 tokens[token_node] = TAG_END \/ Pending(stack, tokens[token_node]) = <<0, 3>>
<1> DEFINE token == tokens[token_node]
           next == tokens'[token_node']
<1>1. /\ IInv /\ Derives
      /\ token_node' = token_node + 1 /\ UNCHANGED tokens
      /\ token_node \in 1 .. Len(tokens) /\ token_node \in Nat /\ token \in Terminals
      /\ Head(stack) = token
    BY Basics DEF WInv, Match, Parsing
<1>2. /\ RulesAt(tokens, token_node) \in Seq(0 .. 10)
      /\ token = STRING_TOK => RulesAt(tokens, token_node) =
                                   IF IsName(tokens, token_node) THEN <<>> ELSE <<0, 3>>
      /\ token \in TagStarts => RulesAt(tokens, token_node) = <<1, 5, 6 + token>>
      /\ token = TAG_END => RulesAt(tokens, token_node) = <<>>
      /\ token = EOI => RulesAt(tokens, token_node) = <<2>>
    BY <1>1, RulesAtIs
<1>3. IsName(tokens, token_node + 1) <=> token \in TagStarts
    <2>1. (token_node + 1) - 1 = token_node /\ token_node + 1 > 1
        BY <1>1
    <2>2. QED
        BY <2>1 DEF IsName
<1> HIDE DEF token, next
<1>4. ASSUME Rest = stack' PROVE Pending(stack', next) = <<>> /\ Ahead(stack', next) = 0
    <2>1. Ahead(Rest, next) = 0
        BY StacksDiffer DEF Ahead
    <2>2. QED
        BY <1>4, <2>1, PendingIs
<1>5. CASE AtString /\ AtTemplate'
    <2>1. stack = OnRest(STRING_TOK) /\ token = STRING_TOK /\ stack' = Rest
        BY <1>5 DEF AtString, AtTemplate, Expects, token
    <2>2. ~IsName(tokens, token_node)
        BY <1>1, <2>1 DEF Derives
    <2>3. Ahead(stack, token) = 1 /\ Pending(stack, token) = <<0, 3>>
        BY <1>1, <2>1, AheadIs, PendingIs DEF token
    <2>4. token \notin TagStarts /\ Rest # Body
        BY <2>1, StacksDiffer, SymbolFacts
    <2>5. QED
        BY <1>2, <1>3, <1>4, <2>1, <2>2, <2>3, <2>4, StacksDiffer DEF token, next
<1>6. CASE AtOpening /\ AtName'
    <2>1. stack = OnBody(token) /\ token \in TagStarts /\ stack' = Body
        BY <1>6 DEF AtOpening, AtName, Expects, token
    <2>2. Ahead(stack, token) = 3 /\ Pending(stack, token) = <<1, 5, 6 + token>>
        BY <1>1, <2>1, AheadIs, PendingIs DEF token
    <2>3. Ahead(stack', next) = 2 /\ Pending(stack', next) = <<>>
        BY <2>1, StacksDiffer, PendingIs DEF Ahead
    <2>4. QED
        BY <1>2, <1>3, <2>1, <2>2, <2>3, StacksDiffer DEF token, next
<1>7. CASE AtName /\ AtTagEnd'
    <2>1. stack = Body /\ stack' = OnRest(TAG_END)
        BY <1>7 DEF AtName, AtTagEnd, Expects
    <2>2. token = STRING_TOK /\ IsName(tokens, token_node)
        BY <1>1, <2>1, Pushes DEF Derives
    <2>3. Ahead(stack, token) = 2 /\ Pending(stack, token) = <<>>
        BY <1>1, <2>1, AheadIs, PendingIs DEF token
    <2>4. Ahead(stack', next) = 1 /\ Pending(stack', next) = <<>>
        BY <2>1, StacksDiffer, PendingIs DEF Ahead
    <2>5. stack' # OnRest(TEXT) /\ stack' # OnRest(STRING_TOK) /\ stack' # Rest /\ stack' # Body
        BY <2>1, StacksDiffer, SymbolFacts
    <2>6. QED
        BY <1>2, <2>2, <2>3, <2>4, <2>5 DEF token, next
<1>8. CASE AtTagEnd /\ AtTemplate'
    <2>1. stack = OnRest(TAG_END) /\ stack' = Rest
        BY <1>8 DEF AtTagEnd, AtTemplate, Expects
    <2>2. token = TAG_END
        BY <1>1, <2>1, PushedOne, SymbolFacts
    <2>3. Ahead(stack, token) = 1 /\ Pending(stack, token) = <<>>
        BY <1>1, <2>1, AheadIs, PendingIs DEF token
    <2>4. token \notin TagStarts /\ Rest # Body
        BY <2>2, StacksDiffer, SymbolFacts
    <2>5. QED
        BY <1>2, <1>3, <1>4, <2>1, <2>2, <2>3, <2>4, StacksDiffer DEF token, next
<1>9. CASE AtEoi /\ AtEnd'
    <2>1. stack = <<EOI>> /\ token = EOI /\ stack' = <<>>
        BY <1>9 DEF AtEoi, AtEnd, Expects, token
    <2>2. Ahead(stack, token) = 0 /\ Pending(stack, token) = <<2>>
        BY <1>1, <2>1, AheadIs, PendingIs DEF token
    <2>3. Ahead(stack', next) = -1 /\ Pending(stack', next) = <<>>
        BY <2>1, PendingIs DEF Ahead
    <2>4. stack' # OnRest(TEXT) /\ stack' # OnRest(STRING_TOK) /\ stack' # Rest /\ stack' # Body
        BY <2>1, StacksDiffer
    <2>5. QED
        BY <1>2, <2>1, <2>2, <2>3, <2>4 DEF token, next
<1>10. QED
    BY <1>1, <1>5, <1>6, <1>7, <1>8, <1>9, MatchShape

\* An expansion applies the next of the token's rules, and the walk goes as far
\* ahead as the renderer steps over for that rule.
LEMMA ExpandFits ==
    ASSUME WInv, Expand
    PROVE  LET token == tokens[token_node]
           IN /\ Pending(stack', token) = Append(Pending(stack, token), RuleFor)
              /\ Pending(stack, token) \in Seq(0 .. 10)
              /\ Ahead(stack, token) = 0 /\ Ahead(stack', token) = Width(RuleFor)
              /\ RuleFor = 3 => token = STRING_TOK
              /\ RuleFor \in 6 .. 10 => token = RuleFor - 6
              /\ stack' = OnRest(TEXT) \/ stack' = OnRest(STRING_TOK)
                     => stack = Rest \/ stack = OnRest(TEXT)
              /\ stack' # Rest /\ stack' # Body
              /\ stack' = OnRest(TEXT) \/ stack' = OnRest(STRING_TOK) => token = STRING_TOK
<1> DEFINE token == tokens[token_node]
<1>1. /\ IInv /\ token \in Terminals /\ UNCHANGED <<tokens, token_node>>
      /\ RuleFor = parse_table_check_match(Head(stack), token)
    BY Basics DEF WInv, Expand, Parsing, RuleFor
<1>2. \A r \in Nat : Width(r) = IF r = 3 THEN 1 ELSE IF r \in 6 .. 10 THEN 3 ELSE 0
    BY DEF Width
<1> HIDE DEF token
<1>3. CASE AtTemplate /\ (AtText' \/ AtTag' \/ AtEoi')
    <2>1. stack = Rest /\ RuleFor = parse_table_check_match(TEMPLATE, token)
        BY <1>1, <1>3, Pushes DEF AtTemplate, Expects
    <2>2. Ahead(stack, token) = 0 /\ Pending(stack, token) = <<>>
        BY <1>1, <2>1, AheadIs, PendingIs
    <2>3. CASE AtText'
        <3>1. stack' = OnRest(TEXT) /\ token = STRING_TOK
            BY <1>1, <2>3 DEF AtText, Expects, token
        <3>2. RuleFor = 0
            BY <2>1, <3>1, TableAndProductions
        <3>3. Ahead(stack', token) = 0 /\ Pending(stack', token) = <<0>>
            BY <1>1, <3>1, AheadIs, PendingIs
        <3>4. QED
            BY <1>2, <2>1, <2>2, <3>1, <3>2, <3>3, StacksDiffer DEF token
    <2>4. CASE AtTag'
        <3>1. stack' = OnRest(TAG) /\ token \in TagStarts
            BY <1>1, <2>4 DEF AtTag, Expects, token
        <3>2. RuleFor = 1
            BY <2>1, <3>1, TableAndProductions
        <3>3. Ahead(stack', token) = 0 /\ Pending(stack', token) = <<1>>
            BY <1>1, <3>1, AheadIs, PendingIs
        <3>4. TAG # TEXT /\ TAG # STRING_TOK
            BY DEF TAG, TEXT, STRING_TOK
        <3>5. stack' # OnRest(TEXT) /\ stack' # OnRest(STRING_TOK)
            BY <3>1, <3>4, StacksDiffer
        <3>6. QED
            BY <1>2, <2>1, <2>2, <3>1, <3>2, <3>3, <3>5, StacksDiffer DEF token
    <2>5. CASE AtEoi'
        <3>1. stack' = <<EOI>> /\ token = EOI
            BY <1>1, <2>5 DEF AtEoi, Expects, token
        <3>2. RuleFor = 2
            BY <2>1, <3>1, TableAndProductions
        <3>3. Ahead(stack', token) = 0 /\ Pending(stack', token) = <<2>>
            BY <1>1, <3>1, AheadIs, PendingIs
        <3>4. stack' # OnRest(TEXT) /\ stack' # OnRest(STRING_TOK) /\ stack' # Rest /\ stack' # Body
            BY <3>1, StacksDiffer
        <3>5. QED
            BY <1>2, <2>2, <3>2, <3>3, <3>4 DEF token
    <2>6. QED
        BY <1>3, <2>3, <2>4, <2>5
<1>4. CASE AtText /\ AtString'
    <2>1. stack = OnRest(TEXT) /\ stack' = OnRest(STRING_TOK) /\ token = STRING_TOK
        BY <1>1, <1>4 DEF AtText, AtString, Expects, token
    <2>2. RuleFor = 3
        BY <1>1, <2>1, PushedOne, SymbolFacts, TableAndProductions
    <2>3. Ahead(stack, token) = 0 /\ Pending(stack, token) = <<0>>
        BY <1>1, <2>1, AheadIs, PendingIs
    <2>4. Ahead(stack', token) = 1 /\ Pending(stack', token) = <<0, 3>>
        BY <1>1, <2>1, AheadIs, PendingIs
    <2>5. <<0, 3>> = Append(<<0>>, 3) /\ <<0>> \in Seq(0 .. 10)
        OBVIOUS
    <2>6. QED
        BY <1>2, <2>1, <2>2, <2>3, <2>4, <2>5, StacksDiffer DEF token
<1>5. CASE AtTag /\ AtTagStart'
    <2>1. stack = OnRest(TAG) /\ stack' = OnBody(TAG_START) /\ token \in TagStarts
        BY <1>1, <1>5 DEF AtTag, AtTagStart, Expects, token
    <2>2. RuleFor = 5
        BY <1>1, <2>1, PushedOne, SymbolFacts, TableAndProductions
    <2>3. Ahead(stack, token) = 0 /\ Pending(stack, token) = <<1>>
        BY <1>1, <2>1, AheadIs, PendingIs
    <2>4. Ahead(stack', token) = 0 /\ Pending(stack', token) = <<1, 5>>
        BY <1>1, <2>1, AheadIs, PendingIs
    <2>5. <<1, 5>> = Append(<<1>>, 5) /\ <<1>> \in Seq(0 .. 10)
        OBVIOUS
    <2>6. QED
        BY <1>2, <2>1, <2>2, <2>3, <2>4, <2>5, StacksDiffer DEF token
<1>6. CASE AtTagStart /\ AtOpening'
    <2>1. stack = OnBody(TAG_START) /\ stack' = OnBody(token) /\ token \in TagStarts
        BY <1>1, <1>6 DEF AtTagStart, AtOpening, Expects, token
    <2>2. RuleFor = 6 + token /\ token \in 0 .. 4
        BY <1>1, <2>1, PushedOne, SymbolFacts, TableAndProductions
    <2>3. Ahead(stack, token) = 0 /\ Pending(stack, token) = <<1, 5>>
        BY <1>1, <2>1, AheadIs, PendingIs
    <2>4. Ahead(stack', token) = 3 /\ Pending(stack', token) = <<1, 5, 6 + token>>
        BY <1>1, <2>1, AheadIs, PendingIs
    <2>5. <<1, 5, 6 + token>> = Append(<<1, 5>>, 6 + token) /\ <<1, 5>> \in Seq(0 .. 10)
        OBVIOUS
    <2>6. RuleFor \in 6 .. 10 /\ RuleFor # 3 /\ token = RuleFor - 6 /\ RuleFor \in Nat
        BY <2>2
    <2>7. QED
        BY <1>2, <2>1, <2>2, <2>3, <2>4, <2>5, <2>6, StacksDiffer DEF token
<1>7. QED
    BY <1>1, <1>3, <1>4, <1>5, <1>6, ExpandShape
-----------------------------------------------------------------------------
\* One more at the end of the second of two sequences.
LEMMA AppendTo ==
    ASSUME NEW S, NEW e \in S, NEW s \in Seq(S), NEW t \in Seq(S)
    PROVE  Append(s \o t, e) = s \o Append(t, e)
<1> DEFINE v == Append(s \o t, e)
           u == Append(t, e)
<1>1. /\ s \o t \in Seq(S) /\ Len(s \o t) = Len(s) + Len(t)
      /\ \A k \in 1 .. Len(s) + Len(t) : (s \o t)[k] = IF k <= Len(s) THEN s[k] ELSE t[k - Len(s)]
      /\ Len(s) \in Nat /\ Len(t) \in Nat
    BY ConcatProperties
<1> DEFINE st == s \o t
<1> HIDE DEF st
<1>2. /\ v \in Seq(S) /\ Len(v) = Len(s) + Len(t) + 1 /\ v[Len(s) + Len(t) + 1] = e
      /\ \A k \in 1 .. Len(s) + Len(t) : v[k] = IF k <= Len(s) THEN s[k] ELSE t[k - Len(s)]
    <2>1. v = Append(st, e)
        BY DEF st
    <2>2. /\ st \in Seq(S) /\ Len(st) = Len(s) + Len(t)
          /\ \A k \in 1 .. Len(s) + Len(t) : st[k] = IF k <= Len(s) THEN s[k] ELSE t[k - Len(s)]
        BY <1>1 DEF st
    <2>3. /\ v \in Seq(S) /\ Len(v) = Len(st) + 1 /\ v[Len(st) + 1] = e
          /\ \A k \in 1 .. Len(st) : v[k] = st[k]
        BY <2>1, <2>2
    <2> HIDE DEF v
    <2>4. QED
        BY <1>1, <2>2, <2>3
<1>3. /\ u \in Seq(S) /\ Len(u) = Len(t) + 1 /\ u[Len(t) + 1] = e
      /\ \A k \in 1 .. Len(t) : u[k] = t[k]
    OBVIOUS
<1> HIDE DEF v, u
<1>4. \A k \in 1 .. Len(s) : v[k] = s[k]
    BY <1>1, <1>2
<1>5. ASSUME NEW k \in 1 .. Len(u) PROVE v[Len(s) + k] = u[k]
    <2>1. CASE k = Len(t) + 1
        BY <1>1, <1>2, <1>3, <2>1
    <2>2. CASE k # Len(t) + 1
        <3> DEFINE j == Len(s) + k
        <3>1. k \in 1 .. Len(t) /\ j \in 1 .. Len(s) + Len(t) /\ ~(j <= Len(s)) /\ j - Len(s) = k
            BY <1>1, <1>3, <2>2
        <3> HIDE DEF j
        <3>2. v[j] = t[k]
            BY <1>2, <3>1
        <3>3. QED
            BY <1>3, <3>1, <3>2 DEF j
    <2>3. QED
        BY <2>1, <2>2
<1>6. Len(v) = Len(s) + Len(u)
    BY <1>1, <1>2, <1>3
<1>7. s \o u = v
    BY <1>2, <1>3, <1>4, <1>5, <1>6, ConcatIs
<1>8. QED
    BY <1>7 DEF v, u

\* At the beginning there are no rules, and the walk is at the first token.
LEMMA InitWalks == Init => WInv
<1> SUFFICES ASSUME Init PROVE WInv
    OBVIOUS
<1>1. /\ IInv /\ token_node = 1 /\ stack = Rest /\ parsed_rules = <<>>
      /\ tokens \in Seq(Terminals) /\ Len(tokens) > 0
    BY InitInvariant, InputsAssumption DEF Init, InitialStack, Rest
<1>2. tokens[1] \in Terminals
    BY <1>1
<1>3. Derives
    <2>1. RulesBefore(tokens)[1] = <<>> /\ Pending(Rest, tokens[1]) = <<>>
        BY <1>1, RulesBeforeAre, PendingIs
    <2>2. ~IsName(tokens, 1)
        BY DEF IsName
    <2>3. <<>> \o <<>> = <<>>
        OBVIOUS
    <2>4. QED
        BY <1>1, <2>1, <2>2, <2>3, StacksDiffer DEF Derives
<1>4. Walks
    <2>1. TokenAt(parsed_rules)[1] = 1 /\ Len(parsed_rules) = 0
        <3>1. parsed_rules \in Seq(0 .. 10)
            BY <1>1
        <3>2. QED
            BY <1>1, <3>1, TokenAtIs
    <2>2. Ahead(Rest, tokens[1]) = 0
        BY <1>2, AheadIs
    <2>3. QED
        BY <1>1, <2>1, <2>2 DEF Walks
<1>5. QED
    BY <1>1, <1>3, <1>4 DEF WInv

\* A match keeps the walk in step.
LEMMA MatchWalks == ASSUME WInv, Match PROVE WInv'
<1> DEFINE token == tokens[token_node]
           at == TokenAt(parsed_rules)
           rules == Len(parsed_rules)
<1>1. /\ IInv /\ Derives /\ Walks /\ IInv'
      /\ UNCHANGED <<tokens, parsed_rules>> /\ token_node' = token_node + 1
      /\ token_node \in Nat /\ token_node \in 1 .. Len(tokens) /\ Len(tokens) \in Nat
      /\ parsed_rules \in Seq(0 .. 10) /\ rules \in Nat
    BY MatchKeepsInvariant, Basics DEF WInv, Match, Parsing
<1>2. Derives'
    <2> DEFINE before == RulesBefore(tokens)[token_node]
    <2>1. parsed_rules = before \o RulesAt(tokens, token_node)
        BY <1>1, MatchFits DEF Derives
    <2>2. RulesBefore(tokens)[token_node + 1] = before \o RulesAt(tokens, token_node)
        BY <1>1, RulesBeforeAre
    <2>3. parsed_rules = parsed_rules \o <<>>
        BY <1>1
    <2>4. parsed_rules' = RulesBefore(tokens')[token_node'] \o Pending(stack', tokens'[token_node'])
        BY <1>1, <2>1, <2>2, <2>3, MatchFits
    <2>5. QED
        BY <1>1, <2>4, MatchFits DEF Derives
<1>3. /\ at \in [1 .. rules + 1 -> Int]
      /\ \A r \in 1 .. rules : at[r + 1] = at[r] + Width(parsed_rules[r])
    BY <1>1, TokenAtIs
<1>4. at[rules + 1] = token_node + Ahead(stack, token) /\ Ahead(stack, token) \in {0, 1, 2, 3}
    BY <1>1, MatchFits DEF Walks
<1>5. at[rules + 1] = token_node' + Ahead(stack', tokens'[token_node'])
    BY <1>1, <1>4, MatchFits
<1>6. ASSUME NEW r \in 1 .. rules PROVE FitsAt(at, r)'
    <2>1. /\ at[r] \in 1 .. Len(tokens) /\ at[r] <= token_node /\ at[r] \in Int
          /\ parsed_rules[r] = 3 => tokens[at[r]] = STRING_TOK
          /\ parsed_rules[r] \in 6 .. 10 =>
                /\ tokens[at[r]] = parsed_rules[r] - 6
                /\ at[r] + 1 < token_node => tokens[at[r] + 1] = STRING_TOK
                /\ at[r] + 2 < token_node => tokens[at[r] + 2] = TAG_END
        BY <1>1 DEF Walks, FitsAt
    <2>2. ASSUME parsed_rules[r] \in 6 .. 10
          PROVE  /\ at[r] + 1 < token_node + 1 => tokens[at[r] + 1] = STRING_TOK
                 /\ at[r] + 2 < token_node + 1 => tokens[at[r] + 2] = TAG_END
        <3>1. at[r + 1] = at[r] + 3
            BY <1>3, <2>2 DEF Width
        <3>2. CASE r # rules
            <4>1. r + 1 \in 1 .. rules
                BY <1>1, <3>2
            <4>2. at[r + 1] <= token_node
                BY <1>1, <4>1 DEF Walks, FitsAt
            <4>3. at[r] + 1 < token_node /\ at[r] + 2 < token_node
                BY <1>1, <2>1, <3>1, <4>2
            <4>4. QED
                BY <2>1, <2>2, <4>3
        <3>3. CASE r = rules
            <4>1. at[r] + 3 = token_node + Ahead(stack, token)
                BY <1>4, <3>1, <3>3
            <4>2. Ahead(stack, token) = 1 => token = TAG_END
                <5> SUFFICES ASSUME Ahead(stack, token) = 1, token # TAG_END PROVE FALSE
                    OBVIOUS
                <5>1. Pending(stack, token) = <<0, 3>>
                    BY MatchFits
                <5> DEFINE before == RulesBefore(tokens)[token_node]
                <5>2. parsed_rules = before \o <<0, 3>> /\ before \in Seq(0 .. 10)
                    BY <1>1, <5>1, RulesBeforeAre DEF Derives
                <5> HIDE DEF before
                <5>3. parsed_rules[rules] = 3
                    BY <5>2
                <5>4. QED
                    BY <2>2, <3>3, <5>3
            <4>3. Ahead(stack, token) = 2 => token = STRING_TOK
                BY MatchFits
            <4>4. CASE Ahead(stack, token) = 0
                <5>1. at[r] + 1 < token_node /\ at[r] + 2 < token_node
                    BY <1>1, <2>1, <4>1, <4>4
                <5>2. QED
                    BY <2>1, <2>2, <5>1
            <4>5. CASE Ahead(stack, token) = 1
                <5>1. at[r] + 1 < token_node /\ at[r] + 2 = token_node
                    BY <1>1, <2>1, <4>1, <4>5
                <5>2. QED
                    BY <2>1, <2>2, <4>2, <4>5, <5>1
            <4>6. CASE Ahead(stack, token) = 2
                <5>1. at[r] + 1 = token_node /\ ~(at[r] + 2 < token_node + 1)
                    BY <1>1, <2>1, <4>1, <4>6
                <5>2. QED
                    BY <4>3, <4>6, <5>1
            <4>7. CASE Ahead(stack, token) = 3
                <5>1. ~(at[r] + 1 < token_node + 1) /\ ~(at[r] + 2 < token_node + 1)
                    BY <1>1, <2>1, <4>1, <4>7
                <5>2. QED
                    BY <5>1
            <4>8. QED
                BY <1>4, <4>4, <4>5, <4>6, <4>7
        <3>4. QED
            BY <3>2, <3>3
    <2>3. at[r] <= token_node + 1
        BY <1>1, <2>1
    <2>4. QED
        BY <1>1, <2>1, <2>2, <2>3 DEF FitsAt
<1>7. Walks'
    BY <1>1, <1>5, <1>6 DEF Walks
<1>8. QED
    BY <1>1, <1>2, <1>7 DEF WInv

\* So does an expansion.
LEMMA ExpandWalks == ASSUME WInv, Expand PROVE WInv'
<1> DEFINE token == tokens[token_node]
           at == TokenAt(parsed_rules)
           rules == Len(parsed_rules)
           on == TokenAt(Append(parsed_rules, RuleFor))
<1>1. /\ IInv /\ Derives /\ Walks /\ IInv'
      /\ UNCHANGED <<tokens, token_node>> /\ parsed_rules' = Append(parsed_rules, RuleFor)
      /\ token_node \in Nat /\ token_node \in 1 .. Len(tokens) /\ Len(tokens) \in Nat
      /\ parsed_rules \in Seq(0 .. 10) /\ rules \in Nat /\ RuleFor \in 0 .. 10
    BY ExpandKeepsInvariant, ExpandShape, Basics
       DEF WInv, Expand, Parsing, append_parsed_rule
<1>2. Derives'
    <2> DEFINE before == RulesBefore(tokens)[token_node]
               part == Pending(stack, token)
               next == RuleFor
    <2>1. /\ parsed_rules = before \o part /\ before \in Seq(0 .. 10)
          /\ Pending(stack', token) = Append(part, next) /\ part \in Seq(0 .. 10)
          /\ next \in 0 .. 10
        BY <1>1, RulesBeforeAre, ExpandFits DEF Derives
    <2> HIDE DEF before, part, next
    <2>2. Append(before \o part, next) = before \o Append(part, next)
        <3> DEFINE R == 0 .. 10
        <3>1. before \in Seq(R) /\ part \in Seq(R) /\ next \in R
            BY <2>1
        <3> HIDE DEF R
        <3>2. QED
            BY <3>1, AppendTo
    <2>3. parsed_rules' = before \o Pending(stack', token)
        BY <1>1, <2>1, <2>2 DEF next
    <2>4. QED
        BY <1>1, <2>3, ExpandFits DEF Derives, before
<1>3. /\ at \in [1 .. rules + 1 -> Int]
      /\ \A k \in 1 .. rules + 1 : on[k] = at[k]
      /\ on[rules + 2] = at[rules + 1] + Width(RuleFor)
      /\ Len(parsed_rules') = rules + 1
      /\ parsed_rules'[rules + 1] = RuleFor
      /\ \A r \in 1 .. rules : parsed_rules'[r] = parsed_rules[r]
    BY <1>1, TokenAtIs, TokenAtAppend
<1>4. /\ at[rules + 1] = token_node /\ Width(RuleFor) \in Int
      /\ Ahead(stack', token) = Width(RuleFor)
      /\ RuleFor = 3 => token = STRING_TOK
      /\ RuleFor \in 6 .. 10 => token = RuleFor - 6
    <2>1. at[rules + 1] = token_node + 0
        BY <1>1, ExpandFits DEF Walks
    <2>2. QED
        BY <1>1, <2>1, ExpandFits DEF Width
<1>5. on = TokenAt(parsed_rules')
    BY <1>1
<1> HIDE DEF on, at, token
<1>6. on[Len(parsed_rules') + 1] = token_node' + Ahead(stack', tokens'[token_node'])
    <2>1. (rules + 1) + 1 = rules + 2
        BY <1>1
    <2>2. QED
        BY <1>1, <1>3, <1>4, <2>1 DEF token
<1>7. ASSUME NEW r \in 1 .. rules + 1
      PROVE  /\ on[r] \in 1 .. Len(tokens) /\ on[r] <= token_node
             /\ parsed_rules'[r] = 3 => tokens[on[r]] = STRING_TOK
             /\ parsed_rules'[r] \in 6 .. 10 =>
                   /\ tokens[on[r]] = parsed_rules'[r] - 6
                   /\ on[r] + 1 < token_node => tokens[on[r] + 1] = STRING_TOK
                   /\ on[r] + 2 < token_node => tokens[on[r] + 2] = TAG_END
    <2>1. CASE r = rules + 1
        <3>1. on[r] = token_node /\ parsed_rules'[r] = RuleFor
            BY <1>1, <1>3, <1>4, <2>1
        <3>2. ~(on[r] + 1 < token_node) /\ ~(on[r] + 2 < token_node)
            BY <1>1, <3>1
        <3>3. QED
            BY <1>1, <1>4, <3>1, <3>2 DEF token
    <2>2. CASE r # rules + 1
        <3>1. r \in 1 .. rules
            BY <1>1, <2>2
        <3>2. on[r] = at[r] /\ parsed_rules'[r] = parsed_rules[r]
            BY <1>1, <1>3, <3>1
        <3>3. FitsAt(at, r)
            BY <1>1, <3>1 DEF Walks, at
        <3>4. QED
            BY <3>2, <3>3 DEF FitsAt
    <2>3. QED
        BY <2>1, <2>2
<1>8. ASSUME NEW r \in 1 .. Len(parsed_rules') PROVE FitsAt(TokenAt(parsed_rules), r)'
    BY <1>1, <1>3, <1>5, <1>7 DEF FitsAt
<1>9. Walks'
    BY <1>5, <1>6, <1>8 DEF Walks
<1>10. QED
    BY <1>1, <1>2, <1>9 DEF WInv

\* And every other step.
LEMMA NextWalks == WInv /\ [Next]_vars => WInv'
<1> SUFFICES ASSUME WInv, [Next]_vars PROVE WInv'
    OBVIOUS
<1>1. CASE Match
    BY <1>1, MatchWalks
<1>2. CASE Expand
    BY <1>2, ExpandWalks
<1>3. CASE SyntaxError
    BY <1>3, NextInvariant DEF WInv, SyntaxError
<1>4. CASE Return \/ UNCHANGED vars
    <2>1. UNCHANGED <<tokens, token_node, stack, parsed_rules>> /\ IInv'
          /\ (pc' # "error" => pc # "error")
        BY <1>4, NextInvariant DEF WInv, Return, vars
    <2>2. Derives => Derives'
        BY <2>1 DEF Derives
    <2>3. Walks => Walks'
        BY <2>1 DEF Walks, FitsAt
    <2>4. QED
        BY <2>1, <2>2, <2>3 DEF WInv
<1>5. QED
    BY <1>1, <1>2, <1>3, <1>4 DEF Next, Returned

(***************************************************************************)
(* Whatever the template, if ctache_parse returns a list of rules, it is   *)
(* the one that _ctache_render walks in step with the tokens.              *)
(***************************************************************************)
THEOREM RulesFit == Spec => []RulesFitTokens
<1>1. WInv => RulesFitTokens
    <2> SUFFICES ASSUME WInv, pc = "accepted" PROVE RulesFitTokens
        BY DEF RulesFitTokens
    <2> DEFINE at == TokenAt(parsed_rules)
               rules == Len(parsed_rules)
    <2>1. /\ IInv /\ Derives /\ Walks
          /\ stack = <<>> /\ token_node = Len(tokens) + 1
          /\ Len(tokens) \in Nat /\ parsed_rules \in Seq(0 .. 10) /\ rules \in Nat
        BY Basics DEF WInv, IInv, AtEnd
    <2>2. parsed_rules = RulesOf(tokens)
        <3> DEFINE all == RulesBefore(tokens)[Len(tokens) + 1]
        <3>1. all \in Seq(0 .. 10)
            BY <2>1, RulesBeforeAre
        <3>2. parsed_rules = all \o <<>>
            BY <2>1, PendingIs DEF Derives
        <3> HIDE DEF all
        <3>3. parsed_rules = all
            BY <3>1, <3>2
        <3>4. QED
            BY <3>3 DEF all, RulesOf
    <2>3. /\ at \in [1 .. rules + 1 -> Int]
          /\ \A r \in 1 .. rules : at[r + 1] = at[r] + Width(parsed_rules[r])
        BY <2>1, TokenAtIs
    <2>4. at[rules + 1] = Len(tokens)
        <3>1. at[rules + 1] = (Len(tokens) + 1) + (-1)
            BY <2>1 DEF Walks, Ahead
        <3>2. QED
            BY <2>1, <3>1
    <2>5. ASSUME NEW r \in 1 .. rules
          PROVE  /\ at[r] \in 1 .. Len(tokens)
                 /\ parsed_rules[r] = 3 => tokens[at[r]] = STRING_TOK
                 /\ parsed_rules[r] \in 6 .. 10 =>
                       /\ tokens[at[r]] = parsed_rules[r] - 6
                       /\ tokens[at[r] + 1] = STRING_TOK
                       /\ tokens[at[r] + 2] = TAG_END
        <3>1. FitsAt(at, r)
            BY <2>1 DEF Walks
        <3>2. at[r + 1] <= Len(tokens)
            <4>1. CASE r = rules
                BY <2>1, <2>4, <4>1
            <4>2. CASE r # rules
                <5>1. r + 1 \in 1 .. rules
                    BY <2>1, <4>2
                <5>2. FitsAt(at, r + 1)
                    BY <2>1, <5>1 DEF Walks
                <5>3. QED
                    BY <2>1, <5>2 DEF FitsAt
            <4>3. QED
                BY <4>1, <4>2
        <3>3. ASSUME parsed_rules[r] \in 6 .. 10
              PROVE  at[r] + 1 < token_node /\ at[r] + 2 < token_node
            <4>1. at[r + 1] = at[r] + 3
                BY <2>3, <3>3 DEF Width
            <4>2. at[r] \in Int
                BY <2>1, <2>3
            <4>3. QED
                BY <2>1, <3>2, <4>1, <4>2
        <3>4. QED
            BY <3>1, <3>3 DEF FitsAt
    <2>6. QED
        BY <2>2, <2>4, <2>5 DEF RulesFitTokens
<1>2. QED
    BY <1>1, InitWalks, NextWalks, PTL DEF Spec
=============================================================================
