------------------------------ MODULE Renderer ------------------------------
(***************************************************************************)
(* _ctache_render of lib/render.c: a walk over the rules of a template     *)
(* that keeps a pointer into its tokens, a current data context, and four  *)
(* stacks.  An action is one turn of the loop, that is, one handler.       *)
(*                                                                         *)
(* A template is given as ctache_lex and ctache_parse leave it: the values *)
(* of its tokens and its rules.  Data is a graph of nodes.  Numbers and    *)
(* dates are "number": no handler tells them apart.  What is printed is a  *)
(* token's text or a node, with the escaping that was asked for.           *)
(***************************************************************************)
EXTENDS Integers, Sequences, FiniteSets

CONSTANTS
    Values,             \* the texts and keys that occur in templates
    Dots,               \* those of them that begin with a dot
    Data,               \* node -> [type, val]
    Garbage,            \* the node that an uninitialized array slot is
    Parsed,             \* string node -> the template it holds, NULL if none
    Jobs,               \* the calls of _ctache_render_string: [template, data, escaping]
    UninitIndexes,      \* what the uninitialized "int index" may hold
    NULL,
    MaxOut, MaxStack,   \* bounds on output and stacks: the model stops there
    MaxDepth            \* nested calls that the C stack has room for

Nodes == DOMAIN Data
Types == {"hash", "array", "boolean", "string", "number", "garbage"}
Escapings == {"html", "tex", "none"}

ASSUME DataAssumption ==
    /\ \A n \in Nodes : Data[n].type \in Types
    /\ \A n \in Nodes : Data[n].type = "garbage" <=> n = Garbage
    /\ \A n \in Nodes : Data[n].type = "hash" =>
          \A key \in DOMAIN Data[n].val : Data[n].val[key] \in Nodes
    /\ \A n \in Nodes : Data[n].type = "array" => Data[n].val \in Seq(Nodes)
    /\ Garbage \in Nodes /\ NULL \notin Nodes /\ NULL \notin Values
    /\ UninitIndexes \subseteq Int

\* The tokens that a rule of the template steps over: text is one, a tag is
\* its opening, its key and its end.
Width(rule) == IF rule = 3 THEN 1 ELSE IF rule \in 6 .. 10 THEN 3 ELSE 0

(***************************************************************************)
(* A template is [tokens, rules, at].  Its rules fit its tokens: at[r] is  *)
(* the token at which the derivation comes to rule r, and the tokens do    *)
(* not end before the rules.                                               *)
(***************************************************************************)
FitsTokens(t) ==
    /\ t.rules \in Seq(0 .. 10)
    /\ t.tokens \in Seq(Values \cup {NULL})
    /\ t.at \in [1 .. Len(t.rules) + 1 -> 1 .. Len(t.tokens)]
    /\ t.at[1] = 1
    /\ \A r \in 1 .. Len(t.rules) :
          /\ t.at[r + 1] = t.at[r] + Width(t.rules[r])
          /\ t.rules[r] = 3 => t.tokens[t.at[r]] # NULL
          /\ t.rules[r] \in 6 .. 10 => t.tokens[t.at[r] + 1] # NULL

ASSUME TemplatesAssumption ==
    /\ \A j \in Jobs : FitsTokens(j.template)
    /\ \A n \in Nodes : Data[n].type = "string" => Parsed[n] = NULL \/ FitsTokens(Parsed[n])

ASSUME JobsAssumption ==
    \A j \in Jobs : j.data \in Nodes \ {Garbage} /\ j.escaping \in Escapings

VARIABLES
    job,                \* the call being explored
    tpl,                \* tokens and parsed_rules
    rule_node,          \* the rule being handled, beyond the last for NULL
    token_node,         \* the token it has come to
    curr_data, data_stack,
    index, index_stack,
    token_node_stack, rule_node_stack,
    hidden,
    out,                \* what has been printed
    callers,            \* the suspended _ctache_render calls, the latest first
    destroyed,          \* the caller's data that was passed to ctache_data_destroy
    pc                  \* "render", "done", "aborted" by abort(), "crashed":
                        \* what the program does from there on is undefined

context == <<curr_data, data_stack, index, index_stack, hidden>>
loops   == <<token_node_stack, rule_node_stack>>
calls   == <<job, tpl, callers, destroyed, pc>>
vars    == <<context, loops, calls, rule_node, token_node, out>>
-----------------------------------------------------------------------------
(***************************************************************************)
(* lib/ctache_data.c and lib/ctache_array.c as the handlers use them.      *)
(* An operator whose name ends in _Slip is a plausible slip in the         *)
(* operator after it, kept to show that a property would notice.           *)
(***************************************************************************)
IsHash(n)    == Data[n].type = "hash"
IsArray(n)   == Data[n].type = "array"
Has(n, key)  == key \in DOMAIN Data[n].val
Get(n, key)  == Data[n].val[key]
Length(n)    == Len(Data[n].val)

\* ctache_array_get: the slot just after the last element is uninitialized,
\* one beyond it (or a negative index, made unsigned) gives NULL.
Slot(n, k) == IF k \in 0 .. Length(n) - 1 THEN Data[n].val[k + 1]
              ELSE IF k = Length(n) THEN Garbage ELSE NULL

\* string_from_ctache_data: hashes and arrays have no string.
Printable_Slip(n) == n = NULL \/ Data[n].type \notin {"hash", "array"}
Printable(n) == n # NULL /\ Data[n].type \notin {"hash", "array"}
-----------------------------------------------------------------------------
(***************************************************************************)
(* What the handlers have in common.                                       *)
(***************************************************************************)
Rule == tpl.rules[rule_node]
Word == tpl.tokens[token_node]
Key  == tpl.tokens[token_node + 1]

WithinBounds == Len(out) < MaxOut /\ Len(index_stack) < MaxStack

Handles(rules) ==
    /\ pc = "render" /\ WithinBounds
    /\ rule_node <= Len(tpl.rules) /\ Rule \in rules

push(stack, x) == <<x>> \o stack

NextRule_Slip == rule_node' = IF Rule = 2 THEN rule_node ELSE rule_node + 1
NextRule == rule_node' = rule_node + 1

TagSkipped == token_node + 3

Written(item, mode) == out' = IF hidden THEN out ELSE Append(out, <<item, mode>>)

PushIndex_Slip == UNCHANGED index_stack
PushIndex == index_stack' = push(index_stack, index)

PushContext == data_stack' = push(data_stack, curr_data) /\ PushIndex

PopContext ==
    IF Len(data_stack) > 0
    THEN curr_data' = Head(data_stack) /\ data_stack' = Tail(data_stack)
    ELSE UNCHANGED <<curr_data, data_stack>>

\* A section over an array remembers where its body starts.
EnterSection ==
    /\ token_node' = TagSkipped
    /\ IF IsArray(curr_data')
       THEN /\ token_node_stack' = push(token_node_stack, token_node')
            /\ rule_node_stack' = push(rule_node_stack, rule_node)
            /\ index' = 0
       ELSE UNCHANGED <<token_node_stack, rule_node_stack, index>>
    /\ NextRule
    /\ UNCHANGED <<calls, out>>
-----------------------------------------------------------------------------
Init ==
    /\ job \in Jobs
    /\ tpl = job.template /\ rule_node = 1 /\ token_node = 1
    /\ curr_data = job.data /\ data_stack = <<>>
    /\ index \in UninitIndexes /\ index_stack = <<>>
    /\ token_node_stack = <<>> /\ rule_node_stack = <<>>
    /\ hidden = FALSE
    /\ out = <<>> /\ callers = <<>> /\ destroyed = <<>> /\ pc = "render"

\* The rules that have no handler.
SkipRule ==
    /\ Handles(0 .. 2 \cup 4 .. 5)
    /\ NextRule
    /\ UNCHANGED <<context, loops, calls, token_node, out>>

\* handle_text
TextRule ==
    /\ Handles({3})
    /\ Written(Word, "text")
    /\ token_node' = token_node + 1
    /\ NextRule
    /\ UNCHANGED <<context, loops, calls>>
-----------------------------------------------------------------------------
(***************************************************************************)
(* handle_section_tag                                                      *)
(***************************************************************************)
\* The hash has the key.  A hash or array becomes the context, a boolean can
\* only hide, anything else shows.
SectionInHash ==
    /\ Handles({6}) /\ IsHash(curr_data) /\ Has(curr_data, Key)
    /\ PushContext
    /\ LET child == Get(curr_data, Key) IN
       CASE IsHash(child) \/ IsArray(child) ->
                curr_data' = child /\ UNCHANGED hidden
         [] Data[child].type = "boolean" ->
                hidden' = (hidden \/ ~Data[child].val) /\ UNCHANGED curr_data
         [] OTHER ->
                hidden' = FALSE /\ UNCHANGED curr_data
    /\ EnterSection

\* The hash does not have the key: hidden, and nothing is pushed.
SectionUndefined ==
    /\ Handles({6}) /\ IsHash(curr_data) /\ ~Has(curr_data, Key)
    /\ hidden' = TRUE
    /\ UNCHANGED <<curr_data, data_stack, index_stack>>
    /\ EnterSection

\* The element at the index supplies the context if it is a hash with the
\* key; if not, the array itself stays the context and is entered again.
SectionInArray ==
    /\ Handles({6}) /\ IsArray(curr_data)
    /\ PushContext
    /\ LET e == Slot(curr_data, index) IN
       curr_data' = IF e # NULL /\ IsHash(e) /\ Has(e, Key) THEN Get(e, Key) ELSE curr_data
    /\ UNCHANGED hidden
    /\ EnterSection

\* The context is a string, number or boolean.
SectionInScalar ==
    /\ Handles({6}) /\ ~IsHash(curr_data) /\ ~IsArray(curr_data)
    /\ UNCHANGED <<curr_data, data_stack, index_stack, hidden>>
    /\ EnterSection
-----------------------------------------------------------------------------
(***************************************************************************)
(* handle_close_tag                                                        *)
(***************************************************************************)
InLoop == Len(token_node_stack) > 0 /\ IsArray(curr_data)

HasMore_Slip == index < Length(curr_data) - 2
HasMore == index < Length(curr_data) - 1

\* Back to the body; the loop steps over the section's own rule.
CloseRepeat ==
    /\ Handles({7}) /\ InLoop /\ HasMore
    /\ token_node' = Head(token_node_stack)
    /\ rule_node' = Head(rule_node_stack) + 1
    /\ index' = index + 1
    /\ UNCHANGED <<curr_data, data_stack, index_stack, hidden, loops, calls, out>>

PopLoop_Slip == rule_node_stack' = Tail(rule_node_stack) /\ UNCHANGED token_node_stack
PopLoop == /\ token_node_stack' = Tail(token_node_stack)
           /\ rule_node_stack' = Tail(rule_node_stack)

CloseLoop ==
    /\ Handles({7}) /\ InLoop /\ ~HasMore
    /\ PopLoop
    /\ PopContext
    /\ IF Len(data_stack) > 0
       THEN index' = Head(index_stack) /\ index_stack' = Tail(index_stack)
       ELSE UNCHANGED <<index, index_stack>>
    /\ token_node' = TagSkipped
    /\ NextRule
    /\ UNCHANGED <<hidden, calls, out>>

\* Any other context: the data is popped, the index that was pushed with it
\* is not.
ClosedContext_Slip == UNCHANGED <<curr_data, data_stack>>
ClosedContext == PopContext

CloseContext ==
    /\ Handles({7}) /\ ~InLoop
    /\ hidden' = (hidden /\ ~IsHash(curr_data))
    /\ ClosedContext
    /\ token_node' = TagSkipped
    /\ NextRule
    /\ UNCHANGED <<index, index_stack, loops, calls, out>>
-----------------------------------------------------------------------------
(***************************************************************************)
(* handle_value_tag                                                        *)
(***************************************************************************)
Dotted == IsArray(curr_data) /\ Key \in Dots

\* The hash in which a key is looked up: the context or the element.
Lookup == IF IsArray(curr_data) THEN Slot(curr_data, index) ELSE curr_data

\* The node whose string is printed, if any.
Shown ==
    IF Dotted THEN Slot(curr_data, index)
    ELSE IF Lookup # NULL /\ IsHash(Lookup) /\ Has(Lookup, Key) THEN Get(Lookup, Key)
    ELSE NULL

\* escaping_type of the call; a partial has the escaping of its caller.
ValueEscaping == IF Rule = 9 THEN "none" ELSE job.escaping

ValueTag ==
    /\ Handles({8, 9}) /\ ~(Dotted /\ Shown = NULL)
    /\ \/ Printable(Shown) /\ Written(Shown, ValueEscaping)
       \/ (~Printable(Shown) \/ Shown = Garbage) /\ UNCHANGED out
    /\ token_node' = TagSkipped
    /\ NextRule
    /\ UNCHANGED <<context, loops, calls>>

\* string_from_ctache_data(NULL)
ValueCrash ==
    /\ Handles({8, 9}) /\ Dotted /\ Shown = NULL
    /\ pc' = "crashed"
    /\ UNCHANGED <<context, loops, job, tpl, callers, destroyed, rule_node, token_node, out>>
-----------------------------------------------------------------------------
(***************************************************************************)
(* handle_partial                                                          *)
(***************************************************************************)
IndexAfterPartial == IF IsArray(curr_data) THEN index + 1 ELSE index

\* The partial's string, if the context is a hash that has the key.
PartialNode ==
    IF Lookup # NULL /\ IsHash(Lookup) /\ Has(Lookup, Key) THEN Get(Lookup, Key) ELSE NULL

\* No key, or a template with a syntax error: nothing is rendered.
PartialSkipped ==
    /\ Handles({10}) /\ Lookup # NULL /\ IsHash(Lookup)
    /\ \/ PartialNode = NULL
       \/ PartialNode # NULL /\ Data[PartialNode].type = "string" /\ Parsed[PartialNode] = NULL
    /\ index' = IndexAfterPartial
    /\ token_node' = TagSkipped
    /\ NextRule
    /\ UNCHANGED <<curr_data, data_stack, index_stack, hidden, loops, calls, out>>

\* The locals to come back to, past the tag.
Resumption ==
    [tpl |-> tpl, rule_node |-> rule_node + 1, token_node |-> TagSkipped,
     curr_data |-> curr_data, data_stack |-> data_stack,
     index |-> IndexAfterPartial, index_stack |-> index_stack,
     token_node_stack |-> token_node_stack, rule_node_stack |-> rule_node_stack,
     hidden |-> hidden]

HoldsTemplate ==
    /\ PartialNode # NULL /\ Data[PartialNode].type = "string"
    /\ Parsed[PartialNode] # NULL

PartialRendered ==
    /\ Handles({10}) /\ HoldsTemplate /\ Len(callers) < MaxDepth
    /\ callers' = push(callers, Resumption)
    /\ tpl' = Parsed[PartialNode] /\ rule_node' = 1 /\ token_node' = 1
    /\ curr_data' = Lookup /\ data_stack' = <<>>
    /\ index' \in UninitIndexes /\ index_stack' = <<>>
    /\ token_node_stack' = <<>> /\ rule_node_stack' = <<>>
    /\ hidden' = FALSE
    /\ UNCHANGED <<job, destroyed, pc, out>>

\* abort(): the context is no hash.
PartialAbort ==
    /\ Handles({10}) /\ Lookup # NULL /\ ~IsHash(Lookup)
    /\ pc' = "aborted"
    /\ UNCHANGED <<context, loops, job, tpl, callers, destroyed, rule_node, token_node, out>>

\* The element is NULL, the value is no string, or partials nest too deeply.
PartialCrash ==
    /\ Handles({10})
    /\ \/ Lookup = NULL
       \/ PartialNode # NULL /\ Data[PartialNode].type # "string"
       \/ HoldsTemplate /\ Len(callers) >= MaxDepth
    /\ pc' = "crashed"
    /\ UNCHANGED <<context, loops, job, tpl, callers, destroyed, rule_node, token_node, out>>
-----------------------------------------------------------------------------
(***************************************************************************)
(* An uninitialized slot that happens to look like a hash is followed to   *)
(* nowhere; otherwise the actions above take it for no hash.               *)
(***************************************************************************)
GarbageCrash ==
    /\ Handles({6, 8, 9, 10}) /\ IsArray(curr_data) /\ Slot(curr_data, index) = Garbage
    /\ pc' = "crashed"
    /\ UNCHANGED <<context, loops, job, tpl, callers, destroyed, rule_node, token_node, out>>

\* The end of _ctache_render destroys the data of sections left open.
Cleaned == destroyed' = destroyed \o data_stack

RulesEnd == pc = "render" /\ WithinBounds /\ rule_node > Len(tpl.rules)

Finish ==
    /\ RulesEnd /\ Len(callers) = 0
    /\ Cleaned
    /\ pc' = "done"
    /\ UNCHANGED <<context, loops, job, tpl, callers, rule_node, token_node, out>>

\* The first section that a partial left open pushed the very hash that its
\* caller has as context.  It is destroyed: the caller goes on if it does not
\* read it again, or finds what was there; if not, all is undefined from here.
ReturnToCaller ==
    /\ RulesEnd /\ Len(callers) > 0
    /\ Cleaned
    /\ pc' \in {"render"} \cup (IF Len(data_stack) > 0 THEN {"crashed"} ELSE {})
    /\ LET c == Head(callers) IN
       /\ tpl' = c.tpl /\ rule_node' = c.rule_node /\ token_node' = c.token_node
       /\ curr_data' = c.curr_data /\ data_stack' = c.data_stack
       /\ index' = c.index /\ index_stack' = c.index_stack
       /\ token_node_stack' = c.token_node_stack /\ rule_node_stack' = c.rule_node_stack
       /\ hidden' = c.hidden
    /\ callers' = Tail(callers)
    /\ UNCHANGED <<job, out>>

Stopped == (pc # "render" \/ ~WithinBounds) /\ UNCHANGED vars

Next ==
    \/ SkipRule \/ TextRule
    \/ SectionInHash \/ SectionUndefined \/ SectionInArray \/ SectionInScalar
    \/ CloseRepeat \/ CloseLoop \/ CloseContext
    \/ ValueTag \/ ValueCrash
    \/ PartialSkipped \/ PartialRendered \/ PartialAbort \/ PartialCrash
    \/ GarbageCrash
    \/ Finish \/ ReturnToCaller
    \/ Stopped

\* One thread runs to its end: as long as it can step, it does.
Spec == Init /\ [][Next]_vars /\ WF_vars(Next)
-----------------------------------------------------------------------------
TypeOK ==
    /\ job.escaping \in Escapings /\ FitsTokens(tpl)
    /\ rule_node \in Nat \ {0} /\ token_node \in Nat \ {0}
    /\ curr_data \in Nodes /\ data_stack \in Seq(Nodes)
    /\ index \in Int /\ index_stack \in Seq(Int)
    /\ token_node_stack \in Seq(Nat) /\ rule_node_stack \in Seq(Nat)
    /\ hidden \in BOOLEAN
    /\ out \in Seq((Values \cup Nodes) \X (Escapings \cup {"text"}))
    /\ destroyed \in Seq(Nodes)
    /\ pc \in {"render", "done", "aborted", "crashed"}

\* The locals of the running call, as a suspended one keeps them.
Locals ==
    [tpl |-> tpl, rule_node |-> rule_node, token_node |-> token_node,
     curr_data |-> curr_data, data_stack |-> data_stack,
     index |-> index, index_stack |-> index_stack,
     token_node_stack |-> token_node_stack, rule_node_stack |-> rule_node_stack,
     hidden |-> hidden]

InStep(t, r, k) ==
    /\ r \in 1 .. Len(t.rules) + 1
    /\ k = t.at[r]

(***************************************************************************)
(* The handlers advance the token by hand, the loop advances the rule, and *)
(* a repeated section goes back in both: whatever the data, and also for   *)
(* templates whose sections do not match, the token is the one that the    *)
(* derivation has at this rule, in the running call and in every call that *)
(* waits for a partial, so no handler reads the wrong token or beyond EOI. *)
(* A place to go back to is behind a section's opening, in both lists.     *)
(***************************************************************************)
FrameAligned(f) ==
    /\ InStep(f.tpl, f.rule_node, f.token_node)
    /\ Len(f.token_node_stack) = Len(f.rule_node_stack)
    /\ \A k \in 1 .. Len(f.rule_node_stack) :
          /\ f.rule_node_stack[k] \in 1 .. Len(f.tpl.rules)
          /\ InStep(f.tpl, f.rule_node_stack[k] + 1, f.token_node_stack[k])

Aligned ==
    /\ FrameAligned(Locals)
    /\ \A k \in 1 .. Len(callers) : FrameAligned(callers[k])

(***************************************************************************)
(* When a loop ends, handle_close_tag dereferences the index that it pops  *)
(* without asking if there is one (render.c:153-154): there is one for     *)
(* every context that was pushed, though contexts are also popped without. *)
(***************************************************************************)
IndexesSaved ==
    /\ Len(data_stack) <= Len(index_stack)
    /\ \A k \in 1 .. Len(callers) :
          Len(callers[k].data_stack) <= Len(callers[k].index_stack)

\* How many sections are open before rule r, and that all are closed in the
\* end, and none before it is opened.
Before(t, r, rule) == {k \in 1 .. r - 1 : t.rules[k] = rule}
OpenAt(t, r) == Cardinality(Before(t, r, 6)) - Cardinality(Before(t, r, 7))

SectionsMatch(t) ==
    /\ \A r \in 1 .. Len(t.rules) : OpenAt(t, r) >= 0
    /\ OpenAt(t, Len(t.rules) + 1) = 0

(***************************************************************************)
(* _ctache_render does not own the data, and yet destroys what is left on  *)
(* the stack in the end (lib/render.c:551).  Contexts are not pushed for   *)
(* every section that is entered, and are popped for every one that is     *)
(* closed, by whatever closes it: where the sections of a template match,  *)
(* no call of it, of the command or for a partial, destroys anything.      *)
(***************************************************************************)
DataIsKept == [][destroyed' # destroyed => ~SectionsMatch(tpl)]_vars

(***************************************************************************)
(* Rendering ends: no template repeats a section forever, and nothing is   *)
(* stopped by the bounds of the model.                                     *)
(***************************************************************************)
Terminates == <>(pc # "render")
=============================================================================
