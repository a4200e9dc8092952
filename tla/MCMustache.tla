----------------------------- MODULE MCMustache -----------------------------
(***************************************************************************)
(* The renderer against the documentation: on all small templates whose    *)
(* sections match, those that it renders as documented, and one template   *)
(* for each of the gravest ways in which it does not.                      *)
(***************************************************************************)
EXTENDS RenderData

Documented == INSTANCE Mustache WITH PartialBody <- MCPartialBody
-----------------------------------------------------------------------------
(***************************************************************************)
(* The templates that are rendered as documented.  "place" says where a    *)
(* template stands: its context, whether the context is an array's         *)
(* element, whether a section has pushed data, and how many arrays are     *)
(* being repeated.                                                         *)
(***************************************************************************)
TopLevel == [ctx |-> "root", element |-> FALSE, pushed |-> FALSE, loops |-> 0]

InContext(place, ctx) == [place EXCEPT !.ctx = ctx, !.element = FALSE, !.pushed = TRUE]

InElement(place, e) == [ctx |-> e, element |-> TRUE, pushed |-> TRUE, loops |-> place.loops + 1]

\* Nothing in a hidden body but text and values.
Quiet(body) == \A k \in DOMAIN body : body[k].kind \notin {"section", "partial"}

RECURSIVE Regular(_, _)

\* What stands in a section, by the value that its key has.
RegularSection(section, child, place) ==
    CASE Data[child].type = "array" ->
            /\ Length(child) > 0
            /\ \A k \in 1 .. Length(child) :
                  Regular(section.body, InElement(place, Data[child].val[k]))
      [] Data[child].type = "hash" ->
            place.loops <= 1 /\ Regular(section.body, InContext(place, child))
      [] Data[child].type = "boolean" ->
            /\ place.loops <= 1 /\ ~place.element
            /\ IF Data[child].val THEN Regular(section.body, InContext(place, place.ctx))
                                  ELSE Quiet(section.body)
      [] OTHER ->
            place.loops <= 1 /\ ~place.element /\ Regular(section.body, InContext(place, place.ctx))

Regular(body, place) ==
    \A k \in DOMAIN body :
        CASE body[k].kind = "partial" -> ~place.element
          [] body[k].kind = "section" ->
                IF Documented!Defined(place.ctx, body[k].key)
                THEN RegularSection(body[k], Get(place.ctx, body[k].key), place)
                ELSE ~place.element /\ ~place.pushed /\ Quiet(body[k].body)
          [] OTHER -> TRUE
-----------------------------------------------------------------------------
Leaves == {Words, Value("s"), Value("."), Unescaped("s"), Partial("p")}

Single(nodes) == {<<>>} \cup {<<n>> : n \in nodes}

Sections(keys, bodies) == {Section(key, body) : key \in keys, body \in bodies}

\* Before or after something that shows the context and the index.
Followed(nodes) ==
    LET beside == {Value("s"), Value("."), Partial("p")}
    IN {<<n, l>> : n \in nodes, l \in beside} \cup {<<l, n>> : n \in nodes, l \in beside}

Inner  == Sections({"s", "t", "f", "h", "a", "l", "m"}, Single(Leaves))
Middle == Sections({"t", "h", "a", "l"}, Single(Inner) \cup Followed(Inner))
Outer  == Sections({"o", "a"}, Single(Middle))

\* All small templates whose sections match.
Matched == {b \in Single(Leaves \cup Inner \cup Middle \cup Outer) \cup Followed(Inner \cup Middle) :
              Lexed(Flat(b))}

RegularTrees == {b \in Matched : Regular(b, TopLevel)}
-----------------------------------------------------------------------------
\* A call, and what it should print.
Call(body, escaping) ==
    [template |-> Compiled(Flat(body)), data |-> "root", escaping |-> escaping,
     expected |-> Documented!Rendering(body, "root", escaping)]

CallsOf(trees) == {Call(b, "html") : b \in trees} \cup
                  {Call(b, mode) : b \in trees \cap Single(Leaves \cup Inner), mode \in Escapings}

RegularJobs == CallsOf(RegularTrees)

MCUninitIndexes == {-1, 1}
-----------------------------------------------------------------------------
(***************************************************************************)
(* Templates that are not rendered as documented.                          *)
(***************************************************************************)
Alone(body) == {Call(body, "html")}

\* The index that a hash's section pushed is what the inner loop restores,
\* and the outer loop goes on from it.
StaleIndex == Alone(<<Section("o", <<Section("b", <<Section("h", <<Value("s")>>)>>)>>)>>)

\* Closing an undefined section in a hash leaves the hash.
UndefinedInHash == Alone(<<Section("h", <<Section("m", <<>>), Value("s")>>)>>)

\* An array of no elements has its body printed once.
EmptyArray == Alone(<<Section("e", <<Words>>)>>)

\* A section that closes in a hidden one shows the rest of it.
HiddenThenShown == Alone(<<Section("f", <<Section("t", <<>>), Words>>)>>)

\* A partial in a loop takes the loop to the next element.
PartialInLoop == Alone(<<Section("a", <<Partial("p")>>)>>)
-----------------------------------------------------------------------------
(***************************************************************************)
(* What is printed is what the documentation says, at every moment, and    *)
(* the whole of it in the end.                                             *)
(***************************************************************************)
RendersAsDocumented ==
    /\ pc \in {"render", "done"}
    /\ IsPrefix(out, job.expected)
    /\ pc = "done" => out = job.expected
=============================================================================
