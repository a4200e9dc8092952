------------------------------ MODULE Template ------------------------------
(***************************************************************************)
(* The interface between ctache_parse and _ctache_render: the rule list of *)
(* a template, and how many tokens a handler of the renderer steps over    *)
(* for each rule of it.                                                    *)
(***************************************************************************)
EXTENDS Tokens, Sequences

\* The position k of a list of token types is the name in a tag.
IsName(types, k) == k > 1 /\ types[k - 1] \in TagStarts

(***************************************************************************)
(* The leftmost derivation of a template, token by token: text takes the   *)
(* rules template -> text, template and text -> string; a tag takes        *)
(* template -> tag, template, tag -> tag start, string, tag end and the    *)
(* rule of its opening; the end of input takes template -> "".             *)
(***************************************************************************)
RulesAt(types, k) ==
    CASE types[k] = STRING_TOK /\ ~IsName(types, k) -> <<0, 3>>
      [] types[k] \in TagStarts                     -> <<1, 5, 6 + types[k]>>
      [] types[k] = EOI                             -> <<2>>
      [] OTHER                                      -> <<>>

\* The rules for the tokens before each.
RulesBefore(types) ==
    LET rules[k \in 1 .. Len(types) + 1] ==
            IF k = 1 THEN <<>> ELSE rules[k - 1] \o RulesAt(types, k - 1)
    IN rules

RulesOf(types) == RulesBefore(types)[Len(types) + 1]

\* The tokens that the renderer steps over when it handles a rule.
Width(rule) == CASE rule = 3        -> 1
                 [] rule \in 6 .. 10 -> 3
                 [] OTHER           -> 0

\* The token at which the renderer should be when it comes to each rule.
TokenAt(rules) ==
    LET at[k \in 1 .. Len(rules) + 1] ==
            IF k = 1 THEN 1 ELSE at[k - 1] + Width(rules[k - 1])
    IN at
=============================================================================
