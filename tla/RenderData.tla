----------------------------- MODULE RenderData -----------------------------
(***************************************************************************)
(* The data, the partials and the templates on which the renderer is       *)
(* checked, and the translation of templates written as trees to the lists *)
(* that ctache_lex and ctache_parse would return for them.                 *)
(***************************************************************************)
EXTENDS Renderer, SequencesExt

Parse == INSTANCE Template
-----------------------------------------------------------------------------
(***************************************************************************)
(* A root hash with a value of every type, a hash and arrays of one and    *)
(* two hashes, of hashes of arrays, of strings, of nothing.                *)
(***************************************************************************)
Of(type, val)  == [type |-> type, val |-> val]
String         == Of("string", NULL)

Hashes ==
    [root |-> [s |-> "s0", n |-> "n0", t |-> "yes", f |-> "no", h |-> "h", a |-> "a",
               b |-> "b", l |-> "l", e |-> "e", o |-> "o",
               p |-> "plain", q |-> "open", x |-> "invalid", c |-> "cyclic"],
     h    |-> [s |-> "s1", l |-> "l", p |-> "plain"],
     a1   |-> [s |-> "s2", h |-> "h", l |-> "l", f |-> "no", t |-> "yes", p |-> "plain"],
     a2   |-> [s |-> "s3", h |-> "h", l |-> "l", f |-> "no", t |-> "yes", p |-> "plain"],
     o1   |-> [a |-> "a", b |-> "b"],
     o2   |-> [a |-> "a", b |-> "b"]]

Arrays == [a |-> <<"a1", "a2">>, b |-> <<"a1">>, l |-> <<"i1", "i2">>,
           e |-> <<>>, o |-> <<"o1", "o2">>]

Strings == {"s0", "s1", "s2", "s3", "i1", "i2", "plain", "open", "invalid", "cyclic"}

MCNodes == DOMAIN Hashes \cup DOMAIN Arrays \cup Strings \cup {"n0", "yes", "no", "garbage"}

MCData ==
    [n \in MCNodes |->
        CASE n \in DOMAIN Hashes -> Of("hash", Hashes[n])
          [] n \in DOMAIN Arrays -> Of("array", Arrays[n])
          [] n \in Strings       -> String
          [] n = "n0"            -> Of("number", NULL)
          [] n \in {"yes", "no"} -> Of("boolean", n = "yes")
          [] n = "garbage"       -> Of("garbage", NULL)]

MCGarbage == "garbage"
-----------------------------------------------------------------------------
\* Templates as flat lists of texts and tags.
Item(kind, key) == [kind |-> kind, key |-> key]

Opening == [section |-> Parse!SECTION_TAG_START, close |-> Parse!CLOSE_TAG_START,
            value |-> Parse!VALUE_TAG_START, unescaped |-> Parse!UNESC_VALUE_TAG_START,
            partial |-> Parse!PARTIAL_TAG]

ItemTypes(item) ==
    IF item.kind = "text" THEN <<Parse!STRING_TOK>>
                          ELSE <<Opening[item.kind], Parse!STRING_TOK, Parse!TAG_END>>

ItemValues(item) == IF item.kind = "text" THEN <<item.key>> ELSE <<NULL, item.key, NULL>>

Compiled(items) ==
    LET types == FlattenSeq([k \in 1 .. Len(items) |-> ItemTypes(items[k])])
        rules == Parse!RulesOf(Append(types, Parse!EOI))
    IN [tokens |-> FlattenSeq([k \in 1 .. Len(items) |-> ItemValues(items[k])]) \o <<NULL>>,
        rules  |-> rules,
        at     |-> Parse!TokenAt(rules)]

\* The lexer makes one text of what stands between two tags.
Lexed(items) == \A k \in 1 .. Len(items) - 1 :
                    items[k].kind = "text" => items[k + 1].kind # "text"
-----------------------------------------------------------------------------
\* Templates as trees.
Words           == [kind |-> "text", key |-> "T", body |-> <<>>]
Value(key)      == [kind |-> "value", key |-> key, body |-> <<>>]
Unescaped(key)  == [kind |-> "unescaped", key |-> key, body |-> <<>>]
Partial(key)    == [kind |-> "partial", key |-> key, body |-> <<>>]
Section(key, body) == [kind |-> "section", key |-> key, body |-> body]

RECURSIVE Flat(_)
Flat(body) ==
    FlattenSeq([k \in 1 .. Len(body) |->
        <<Item(body[k].kind, body[k].key)>> \o
        (IF body[k].kind = "section" THEN Append(Flat(body[k].body), Item("close", body[k].key))
                                     ELSE <<>>)])
-----------------------------------------------------------------------------
(***************************************************************************)
(* The partials: one that is plain, one that leaves a section open, one    *)
(* that renders itself; the fourth is a template with a syntax error.      *)
(***************************************************************************)
PlainBody == <<Words, Value("s"), Unescaped("s")>>

PartialItems == [plain  |-> Flat(PlainBody),
                 open   |-> <<Item("section", "s")>>,
                 cyclic |-> <<Item("partial", "c")>>]

MCParsed == [n \in MCNodes |-> IF n \in DOMAIN PartialItems THEN Compiled(PartialItems[n])
                                                            ELSE NULL]

\* The templates made of lists, as far as the lexer can produce them.
TemplatesOf(lists) ==
    {Compiled(l) : l \in {l \in lists : Lexed(l)}}

MCPartialBody == [plain |-> PlainBody]

\* "." and a longer key that begins in the same way.
MCDots == {".", ".s"}

\* What templates print and look up.
MCValues == {"T", "s", "n", "t", "f", "h", "a", "b", "l", "e", "o", "m",
             "p", "q", "x", "c"} \cup MCDots
=============================================================================
