------------------------------- MODULE Parser -------------------------------
(***************************************************************************)
(* ctache_parse of lib/parser.c: a table-driven LL(1) parser over a list   *)
(* of token types.  One action is one turn of its loop.                    *)
(***************************************************************************)
EXTENDS Template

CONSTANT Inputs         \* the token lists given to the parser

\* What ctache_lex returns: terminals, of which the last alone is EOI.
ASSUME InputsAssumption ==
    \A input \in Inputs :
        /\ input \in Seq(Terminals) /\ Len(input) > 0
        /\ \A k \in 1 .. Len(input) : input[k] = EOI <=> k = Len(input)

VARIABLES
    tokens,             \* the list being parsed
    token_node,         \* the position in it, from 1; beyond its end for NULL
    stack,              \* the expected symbols, the top first
    parsed_rules,       \* the rules applied so far
    pc                  \* "parse"; "accepted" with a list, "error" with NULL

vars == <<tokens, token_node, stack, parsed_rules, pc>>
-----------------------------------------------------------------------------
\* An operator whose name ends in a _Slip is a plausible slip in the operator
\* after it, kept to show that a property would notice.
parse_table_Slip == << << 1, 1, 1, 1,  1, -1,  0,  0 >>,
                       << 4, 4, 4, 4,  4,  4,  3,  4 >>,
                       << 5, 5, 5, 5,  5, -1, -1, -1 >>,
                       << 6, 7, 8, 9, 10, -1, -1, -1 >> >>
parse_table == << << 1, 1, 1, 1,  1, -1,  0,  2 >>,
                  << 4, 4, 4, 4,  4,  4,  3,  4 >>,
                  << 5, 5, 5, 5,  5, -1, -1, -1 >>,
                  << 6, 7, 8, 9, 10, -1, -1, -1 >> >>

parse_table_check_match(symbol, terminal) ==
    IF symbol \in Nonterminals THEN parse_table[symbol - NUM_TERMINALS + 1][terminal + 1]
                               ELSE -1

\* What each rule pushes, in the order in which it is to be matched.
Production_Slip(rule) ==
    << <<TEXT, TEMPLATE>>, <<TAG, TEMPLATE>>, <<>>,
       <<STRING_TOK>>, <<>>,
       <<TAG_START, TAG_END>>,
       <<SECTION_TAG_START>>, <<CLOSE_TAG_START>>, <<VALUE_TAG_START>>,
       <<UNESC_VALUE_TAG_START>>, <<PARTIAL_TAG>> >>[rule + 1]
Production(rule) ==
    << <<TEXT, TEMPLATE>>, <<TAG, TEMPLATE>>, <<>>,
       <<STRING_TOK>>, <<>>,
       <<TAG_START, STRING_TOK, TAG_END>>,
       <<SECTION_TAG_START>>, <<CLOSE_TAG_START>>, <<VALUE_TAG_START>>,
       <<UNESC_VALUE_TAG_START>>, <<PARTIAL_TAG>> >>[rule + 1]

append_parsed_rule_TypeSlip(rule) == parsed_rules' = Append(parsed_rules, Head(stack))
append_parsed_rule_Slip(rule) == parsed_rules' = <<rule>> \o parsed_rules
append_parsed_rule(rule) == parsed_rules' = Append(parsed_rules, rule)

InitialStack_Slip == <<TEMPLATE>>
InitialStack == <<TEMPLATE, EOI>>

\* A loop turn peeks at the top of the stack without asking if there is one.
Parsing == pc = "parse" /\ token_node <= Len(tokens) /\ Len(stack) > 0

RuleFor == parse_table_check_match(Head(stack), tokens[token_node])
-----------------------------------------------------------------------------
Init ==
    /\ tokens \in Inputs
    /\ token_node = 1
    /\ stack = InitialStack
    /\ parsed_rules = <<>>
    /\ pc = "parse"

\* The top of the stack is the token.
Match ==
    /\ Parsing /\ Head(stack) = tokens[token_node]
    /\ stack' = Tail(stack)
    /\ token_node' = token_node + 1
    /\ UNCHANGED <<tokens, parsed_rules, pc>>

\* The top is a nonterminal and the table has a rule for the token.
Expand ==
    /\ Parsing /\ Head(stack) # tokens[token_node] /\ RuleFor >= 0
    /\ stack' = Production(RuleFor) \o Tail(stack)
    /\ append_parsed_rule(RuleFor)
    /\ UNCHANGED <<tokens, token_node, pc>>

\* Neither: the rules are freed and NULL is returned.
SyntaxError ==
    /\ Parsing /\ Head(stack) # tokens[token_node] /\ RuleFor < 0
    /\ pc' = "error"
    /\ parsed_rules' = <<>>
    /\ UNCHANGED <<tokens, token_node, stack>>

Return ==
    /\ pc = "parse" /\ token_node > Len(tokens)
    /\ pc' = "accepted"
    /\ UNCHANGED <<tokens, token_node, stack, parsed_rules>>

Returned == pc \in {"accepted", "error"} /\ UNCHANGED vars

Next == Match \/ Expand \/ SyntaxError \/ Return \/ Returned

Spec == Init /\ [][Next]_vars
-----------------------------------------------------------------------------
TypeOK ==
    /\ tokens \in Seq(Terminals)
    /\ token_node \in 1 .. Len(tokens) + 1
    /\ stack \in Seq(Terminals \cup Nonterminals)
    /\ parsed_rules \in Seq(0 .. 10)
    /\ pc \in {"parse", "accepted", "error"}

(***************************************************************************)
(* The loop dereferences linked_list_peek(stack), which is NULL for an     *)
(* empty stack: as long as a token is unread, there is something on it,    *)
(* and the parser accepts with nothing left on it.                         *)
(***************************************************************************)
StackNeverRunsOut ==
    /\ pc = "parse" /\ token_node <= Len(tokens) => Len(stack) > 0
    /\ pc = "accepted" => Len(stack) = 0

(***************************************************************************)
(* The loop ends: at most three rules are applied for every token, so an   *)
(* empty rule of the table (text -> "" on any token) never loops.          *)
(***************************************************************************)
RulesAreBounded == Len(parsed_rules) <= 3 * token_node

(***************************************************************************)
(* Text is never derived as empty, and the cell of the table where the     *)
(* code and doc/LEXING_PARSING.md:69 differ (tag on "}}") is never read.   *)
(***************************************************************************)
NoEmptyText ==
    /\ \A k \in 1 .. Len(parsed_rules) : parsed_rules[k] # 4
    /\ Parsing => <<Head(stack), tokens[token_node]>> # <<TAG, TAG_END>>

(***************************************************************************)
(* What ctache_parse returns is what _ctache_render is written for: the    *)
(* rules of the tokens' derivation.  Walked with the renderer's steps they *)
(* end at EOI, and come to the text of each text rule and to the opening,  *)
(* the name and the end of each tag's: rules and tokens cannot drift apart.*)
(***************************************************************************)
RulesFitTokens ==
    pc = "accepted" =>
        LET at == TokenAt(parsed_rules)
        IN /\ parsed_rules = RulesOf(tokens)
           /\ at[Len(parsed_rules) + 1] = Len(tokens)
           /\ \A r \in 1 .. Len(parsed_rules) :
                 /\ at[r] \in 1 .. Len(tokens)
                 /\ parsed_rules[r] = 3 => tokens[at[r]] = STRING_TOK
                 /\ parsed_rules[r] \in 6 .. 10 =>
                       /\ tokens[at[r]] = parsed_rules[r] - 6
                       /\ tokens[at[r] + 1] = STRING_TOK
                       /\ tokens[at[r] + 2] = TAG_END
-----------------------------------------------------------------------------
(***************************************************************************)
(* The grammar's view of the stack.                                        *)
(***************************************************************************)
Phase ==
    IF pc = "error" THEN "rejected"
    ELSE IF token_node > Len(tokens) THEN "accepted"
    ELSE IF Len(stack) > 1 /\ stack[1] = TAG_END THEN "end"
    ELSE IF Len(stack) > 1 /\ stack[2] = TAG_END /\ stack[1] = STRING_TOK THEN "name"
    ELSE "template"

Abstract == INSTANCE Grammar WITH position <- token_node, phase <- Phase

\* Every step of the parser is a step of the grammar or none.
ImplementsGrammar == Abstract!Spec
=============================================================================
