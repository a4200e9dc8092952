----------------------------- MODULE MCRenderer -----------------------------
(***************************************************************************)
(* The renderer on every short list of texts and tags, also those whose    *)
(* sections do not match, and on data of any type.                         *)
(***************************************************************************)
EXTENDS RenderData

CONSTANTS MaxAny,       \* the longest template made of AnyItems
          MaxNested     \* the longest made of NestedItems

AnyItems ==
    [kind : {"section"}, key : {"s", "t", "f", "h", "a", "l", "e", "m"}] \cup
    [kind : {"close"}, key : {"s"}] \cup
    [kind : {"value"}, key : {"s", ".s", "h", "m"}] \cup
    [kind : {"unescaped"}, key : {"s"}] \cup
    [kind : {"partial"}, key : {"p", "q", "x", "c", "h", "m"}] \cup
    {Item("text", "T")}

NestedItems ==
    [kind : {"section"}, key : {"o", "a", "h", "m"}] \cup
    {Item("close", "s"), Item("value", "s")}

MCJobsOn(items, length, data) ==
    [template : TemplatesOf(BoundedSeq(items, length)), data : data, escaping : {"html"}]

MCJobs == MCJobsOn(AnyItems, MaxAny, {"root", "a", "l"}) \cup
          MCJobsOn(NestedItems, MaxNested, {"root", "a"})

MCUninitIndexes == {-1, 0}
=============================================================================
