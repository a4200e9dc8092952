------------------------------- MODULE Tokens -------------------------------
(***************************************************************************)
(* The token types of lib/lexer.h as the enumeration numbers them: the     *)
(* numbers index the columns (terminals) and, less EOI + 1, the rows       *)
(* (nonterminals) of the table of lib/parser.c.                            *)
(***************************************************************************)
EXTENDS Integers

SECTION_TAG_START     == 0
CLOSE_TAG_START       == 1
VALUE_TAG_START       == 2
UNESC_VALUE_TAG_START == 3
PARTIAL_TAG           == 4
TAG_END               == 5
STRING_TOK            == 6
EOI                   == 7

TEMPLATE  == 8
TEXT      == 9
TAG       == 10
TAG_START == 11

NUM_TERMINALS == EOI + 1

Terminals    == SECTION_TAG_START .. EOI
Nonterminals == TEMPLATE .. TAG_START
TagStarts    == SECTION_TAG_START .. PARTIAL_TAG
=============================================================================
