------------------------------ MODULE Grammar ------------------------------
(***************************************************************************)
(* What ctache_parse promises: the grammar of doc/LEXING_PARSING.md read   *)
(* as an automaton.  A template is text and tags, a tag is an opening, one *)
(* string and an end; the first token that cannot continue a template is a *)
(* syntax error.                                                           *)
(***************************************************************************)
EXTENDS Tokens, Sequences

CONSTANT Inputs         \* the token lists, as sequences of token types

VARIABLES
    tokens,             \* the list that is read
    position,           \* the token to be read, from 1
    phase               \* what is being read

vars == <<tokens, position, phase>>

Init ==
    /\ tokens \in Inputs
    /\ position = 1
    /\ phase = "template"

\* A token that may come next in the given phase, and the phase it leads to.
Reads(from, types, to) ==
    /\ phase = from
    /\ position <= Len(tokens) /\ tokens[position] \in types
    /\ position' = position + 1
    /\ phase' = to
    /\ UNCHANGED tokens

Text    == Reads("template", {STRING_TOK}, "template")
Opening == Reads("template", TagStarts, "name")
Name    == Reads("name", {STRING_TOK}, "end")
End     == Reads("end", {TAG_END}, "template")
Accept  == Reads("template", {EOI}, "accepted")

\* The tokens that continue a template.
Follows == [template |-> TagStarts \cup {STRING_TOK, EOI},
            name     |-> {STRING_TOK},
            end      |-> {TAG_END}]

Reject ==
    /\ phase \in DOMAIN Follows
    /\ position <= Len(tokens) /\ tokens[position] \notin Follows[phase]
    /\ phase' = "rejected"
    /\ UNCHANGED <<tokens, position>>

Next == Text \/ Opening \/ Name \/ End \/ Accept \/ Reject

Spec == Init /\ [][Next]_vars
=============================================================================
