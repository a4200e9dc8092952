------------------------------ MODULE Mustache ------------------------------
(***************************************************************************)
(* What the documentation promises of a rendering (DESCRIPTION in          *)
(* man/ctache_data.3, README.md and the comments and tests of the          *)
(* renderer), defined on templates as trees and without stacks:            *)
(*   - an array repeats the section's body once for each element, with the *)
(*     element as the context, and "." is the element itself;              *)
(*   - a hash becomes the new context;                                     *)
(*   - a boolean hides the body if it is false; undefined counts as false; *)
(*   - any other value shows the body in the same context;                 *)
(*   - a partial is rendered in the context that has it.                   *)
(*                                                                         *)
(* A tree is [kind, key, body].                                            *)
(***************************************************************************)
EXTENDS Integers, Sequences

CONSTANTS Data,         \* node -> [type, val]
          PartialBody   \* string node -> the trees of the template it holds

Defined(ctx, key) == Data[ctx].type = "hash" /\ key \in DOMAIN Data[ctx].val

IsText(n) == Data[n].type \notin {"hash", "array"}

\* The contexts in which a section's body appears, one for each appearance.
Contexts(ctx, key) ==
    IF ~Defined(ctx, key) THEN <<>>
    ELSE LET child == Data[ctx].val[key] IN
         CASE Data[child].type = "array"   -> Data[child].val
           [] Data[child].type = "hash"    -> <<child>>
           [] Data[child].type = "boolean" -> IF Data[child].val THEN <<ctx>> ELSE <<>>
           [] OTHER                        -> <<ctx>>

Value(ctx, key, escaping) ==
    LET n == IF key = "." THEN ctx ELSE Data[ctx].val[key]
    IN IF (key = "." \/ Defined(ctx, key)) /\ IsText(n) THEN << <<n, escaping>> >> ELSE <<>>

RECURSIVE Rendering(_, _, _), Repeated(_, _, _)

Rendering(body, ctx, escaping) ==
    IF body = <<>> THEN <<>>
    ELSE LET t == Head(body)
             printed ==
                 CASE t.kind = "text"      -> << <<t.key, "text">> >>
                   [] t.kind = "value"     -> Value(ctx, t.key, escaping)
                   [] t.kind = "unescaped" -> Value(ctx, t.key, "none")
                   [] t.kind = "section"   -> Repeated(t.body, Contexts(ctx, t.key), escaping)
                   [] t.kind = "partial"   ->
                        IF Defined(ctx, t.key)
                        THEN Rendering(PartialBody[Data[ctx].val[t.key]], ctx, escaping)
                        ELSE <<>>
         IN printed \o Rendering(Tail(body), ctx, escaping)

Repeated(body, contexts, escaping) ==
    IF contexts = <<>> THEN <<>>
    ELSE Rendering(body, Head(contexts), escaping) \o Repeated(body, Tail(contexts), escaping)
=============================================================================
