# ctache in TLA+

ctache is a C library and a command for rendering Mustache templates: a
template and a tree of data go in, text comes out. This directory holds TLA+
models of its core, configurations that check them with TLC, and proofs that
TLAPS checks. Source paths below are relative to the repository's root
(`lib/render.c` is `src/lib/render.c` in `PROJECT.json`).

## The system

```
 JSON/YAML file --> readers --> data (hash, array, string, ...) --.
 template ------> ctache_lex --> tokens --> ctache_parse --> rules --> _ctache_render --> text
                                                                  ^            |
                                                                  '--partials--'
```

Everything runs in one thread and nothing is persisted. What makes it hard is
not concurrency but protocol: three passes that trust each other's lists
without testing them, and one pass, the renderer, that keeps seven pieces of
state in step by hand while a template, which may be anything that parses,
and data, which may be of any shape, drive it.

| Component | State | Operations | What makes it correct |
|---|---|---|---|
| Lexer, `lib/lexer.c` | cursor `i`, `row`, `col`, a growing buffer `strval`, the token list | one branch of the loop per kind of tag, text, newline, end | no character lost or read twice, buffer and cursor inside their bounds, EOI last, one token per text |
| Parser, `lib/parser.c` | stack of symbols, position in the tokens, list of rules | match, expand, reject, return | accepts the documented grammar, never peeks at an empty stack, ends, rules that fit the tokens |
| Renderer, `lib/render.c` | position in rules and tokens, current data, `index`, `hidden`, four stacks, the C call stack (partials) | one handler per rule | tokens and rules stay in step, stacks are never popped empty, prints what the documentation says, ends, keeps the caller's data |
| Data, `lib/ctache_data.c` | nodes with a type, a value and a reference count | create, set, append, get, merge, destroy | each node freed once, after its last use |
| Hash table, array, list, string: `lib/hash_table.c`, `lib/ctache_array.c`, `lib/linked_list.c`, `lib/ctache_string.c` | buckets, buffer and length, nodes | set/get/destroy, append/get, push/pop | growth keeps what is stored; look-up finds what was set |
| Escaping, `lib/escaping.c` | none | `ctache_escape_text` | the output buffer suffices, every special character is replaced |
| JSON parser and reader, `src/json.c`, `src/json_data.c` | cursor, current token, the C call stack | next token; read object, read array | the data is the file's, or NULL and nothing left behind; ends |
| YAML reader, `src/yaml_data.c` | current node, stack of nodes, pending key | one case per libyaml event | the data is the file's, one tree; pointers stay valid |
| String buffer, `src/strbuf.c` | buffer, size, length | append, terminate | nothing written beyond the buffer |
| Command, `src/ctache.c` | pointers to names, files, delimiters, data | options, read, render, clean up | what is obtained is released, once; errors are told |

How they interact: `_ctache_render_string` calls the lexer, gives its tokens to
the parser, and gives both lists to `_ctache_render`. That function reads the
data through the queries of `ctache_data.c`, and for a partial calls
`_ctache_render_string` again, so that calls of `_ctache_render` nest. It does
not own the data, but on a template whose sections are not all closed it
destroys some of it (`render.c:550`). The command calls one of the two readers,
which build data and leave it to the command, then `_ctache_render_file`, which
reads the template and calls `_ctache_render_string`, and then destroys the data, in
that case for a second time.

`PROJECT.json` lists every component with its status and every hazard with its
line and the properties aimed at it.

## Modules

| Module | What it is |
|---|---|
| `Tokens` | the token types of `lexer.h` |
| `Lexer`, `MCLexer`, `LexerProofs` | `ctache_lex`; all short templates; theorems |
| `Grammar` | the documented grammar as an automaton: the abstract specification of the parser |
| `Parser`, `MCParser`, `ParserProofs` | `ctache_parse`; all short token lists; theorems, among them that it refines `Grammar` |
| `Template` | the interface of parser and renderer: the rules of a token list, and how many tokens each rule's handler steps over |
| `Renderer`, `RendererProofs` | `_ctache_render` with the nested calls of partials; theorems |
| `RenderData` | the data, partials and templates on which the renderer is checked, compiled through `Template` |
| `Mustache` | what the documentation promises of a rendering, defined on templates as trees |
| `MCRenderer` | the renderer on every short list of items, matched or not |
| `MCMustache` | the renderer against `Mustache` on all small trees |
| `DataStore`, `MCDataStore`, `DataStoreProofs` | the memory behind the data: nodes, counts, hashes and arrays, and the destructors step by step; theorems |
| `YamlReader`, `MCYaml` | `data_from_yaml` over libyaml's events; all short sequences of them |
| `YamlData`, `YamlProofs` | the data that a sequence of events describes; theorems |
| `JsonParser` | `json_next_token` as a function of the cursor |
| `JsonReader`, `MCJson` | `data_from_json`, `read_object` and `read_array` over those tokens; short texts, also against a grammar of JSON |
| `JsonData`, `JsonReaderProofs` | the data that a text describes; theorems |
| `Escaping`, `MCEscaping`, `EscapingProofs` | the two passes of `_escape`, with both tables; short texts; theorems |
| `Command`, `MCCommand`, `CommandProofs` | `main`, with the buffers and the steps around the modelled calls; short command lines; theorems |

The chain is closed at its joints. The lexer's `EoiIsLast` is the parser's
`InputsAssumption`; the parser's `RulesFitTokens`, which is proved, says that it returns
exactly `Template!RulesOf`, from which `RenderData` compiles templates, and that those
satisfy the renderer's `TemplatesAssumption`. The readers' `IsTree` and
`KeptOrDestroyed` are the discipline that `DataStore` asks of those who build
data. What the calls inside `Command` may end in (data, none, a syntax error,
a crash, data that has been destroyed) are the ends of `YamlReader`, `JsonReader`,
`Parser` and `Renderer`. In the last of these, the caller's data destroyed once is an
outcome in which the command goes on (`DataDestroyed`); where data is used after that
within the renderer, the outcome is that of a crash.

### Lexer

One action per branch of the loop. `Flushed` is what six of the branches and
the end do first: turn the text read so far into a token. Characters are a
small alphabet; `NUL` beyond the end is the terminator of the string that every
caller passes. `GrownBufsize` is `add_char_to_strval`. Columns are
translated as they are computed, lag included: `col` falls behind by the
width of the tags, so the `character` of a token is not the character index
that `lexer.h:41` describes. The model keeps the code's numbers and no
property is about them.

### Parser

One action per branch of the loop; the table is copied cell by cell, with the
cell (tag on `}}`) in which code and `doc/LEXING_PARSING.md:69` differ.
`NoEmptyText` shows that this cell is never read. A loop turn dereferences the
top of the stack without a test; the model has no such step, so an empty stack
would be a deadlock, and `StackNeverRunsOut` says that it does not happen.

### Renderer

One action per path through a handler. `rule_node` and `token_node` are
positions in the lists, the stacks are sequences with the head first, `callers`
is the C call stack: a partial saves the locals (`Resumption`), starts a call
with fresh ones, and `ReturnToCaller` restores them. `index` is not
initialized in the code: it starts as any value of `UninitIndexes`.
`ctache_array_get` answers one past the end with memory that nothing has
written: this is the node `Garbage`, which either looks like no hash or is
followed to a crash. Dereferences of NULL lead to `pc = "crashed"`, `abort()`
to `"aborted"`. What is printed is kept as items (a text, or a node with its
escaping), not as characters. `destroyed` collects the data that the end of a
call passes to `ctache_data_destroy`; a partial that leaves a section open
destroys its caller's context, after which the caller goes on or what it does is
undefined (`"crashed"`). `Dots` are the keys that begin with a dot, which is all that
`handle_value_tag` looks at.

`Mustache` is the reference. It is written from the documentation
(`man/ctache_data.3`, `README.md`, the comments and tests of the renderer), on
trees and without stacks, so that it shares nothing with `Renderer`.

### DataStore

The renderer only reads its data; this module is about those that build it and
take it down. A node is a `struct ctache_data`; a block is the hash table,
array or string its `data` points to. Creating, setting, appending and merging
are one step each. `ctache_data_destroy` and `ctache_hash_table_destroy` call
each other, so destruction runs in steps: `todo` is what the C stack still
holds, and each step is one decrement (`DestroyData`, `ReleaseCell`) or one
`free` (`DestroyBlock`, `DestroyNode`). An address is never given out
twice, so that any use of it after it is freed shows. A hash is the list of
its cells; buckets and the hash function only affect their order.

Callers are those of the repository: the readers, the tests, and `merge_hashes`.
They keep to a discipline that is written nowhere and stated at the head of the
module: no cycles (`height` is how it is kept; the code has no such field),
nothing is destroyed that a hash still holds, and what has been appended to an
array is used through the array only. Appending copies a struct into the buffer.
The model lets the copy keep the name of the original and does not follow the
original's struct. The YAML reader frees it (`yaml_data.c:136`);
`ctache_data_hash_get_keys_as_array` (`ctache_data.c:279`) and the JSON reader
(`json_data.c:137`) do not, although the comment at `ctache_data.c:107` says that
those "should already have been freed": merging two hashes leaks one struct
per key. `NothingLeaks` is about everything else.

Setting a key that the hash already has adds a second cell and look-up finds
the first (`hash_table.c:110`): the older value wins, in merging also.

### YamlReader

The events are libyaml's, which is external: `Allowed` and `Opened` are its grammar
(a stream holds documents, a document one node, a mapping pairs of nodes), and
`ParseFails` may come at any moment, since the reader gets events before the rest of
the file is looked at. Each branch of the switch is an action with its key and type
tests as guards. `nodes` is all that has been made and a pointer is an index; in an
array the copy is the node, since the original is freed at once (`yaml_data.c:136`).
Boolean nodes have the types `true` and `false`. A scalar is a short text of words
and blanks, because what matters of it is what trimming leaves.

The reader keeps what it was doing in three variables that it does not check against
the events: `StackIsPath` says that they nevertheless agree. `PointersStay` is about
`yaml_data.c:146`, where the node being filled is a pointer into an array's
buffer: an append could move it. None happens while such a pointer is held, because
the array is appended to only when it is itself being filled.

`IsRead` compares what is built with `YamlData`, which knows no stack: an event stands
in the collection that an earlier event began (`Places`), the events that begin nodes
are numbered in their order (`Data`, `Rank`), and the cells of a node are those within it
(`Within`), with the event before each for a key. It is asked after every event, not only
at the end, and where the events are readable the reader must also neither abort nor do
what C leaves undefined.
`Readable` is the exact list of what files must avoid: more than one document, a
document that is no mapping, keys that are no scalars, a sequence directly in a
sequence, aliases (ignored, so keys and values shift), elements padded with more
than one blank (the copy is read past its end, `yaml_data.c:209`). A file that stops
being YAML gives the node that was being filled, not NULL (`yaml_data.c:116`);
`Command` has what follows from that.

### JsonParser and JsonReader

A text is a sequence of characters in which `true` or a run of digits may stand as
one. `json_next_token` is a function of the cursor, and says what the token is and
where the cursor is after it; the value of a string that is not terminated is `JUNK`.
`calls` is the C call stack of `read_object` and `read_array`; `needs` is the program
counter of a call. An action is what is done with one token. Where the code follows a
pointer that was not set, or reads beyond the terminator, the model ends in
`"undefined"`; where it follows NULL, in `"crashed"`.

`JsonData` says what a text describes without tokens or calls: for each character what
object or array it stands in and what is due there (`Places`), which characters begin a
datum and of what kind, and that the nodes are these, in the order of the text, each with
those directly within it as its cells (`AreDescribed`). `Supported` is what the reader
can read: no empty object or array, no numbers, in arrays only strings and objects;
after the root anything. `IsRead` says that it reads that and nothing else; arrays are
excepted from "nothing else", since an object that is refused in an array is left out
and reading goes on.

`MCJson` has a second reference, which checks the first: a grammar of JSON over
characters, in the form of sets of possible readings. `SupportedIsRead` says the same by
that grammar. With `wide` it is JSON as far as the characters go, which is what the
documentation promises (`ObjectsAreRead`). What else the model shows without a property: a number takes the
character after it along (`json.c:187`); an array closed at once takes one token more
(`json_data.c:139`); a nested object that is refused crashes its hash
(`json_data.c:87`); the first call may free an uninitialized pointer (`json.c:92`).

### Escaping

One action per character of each pass. The block is a sequence of characters that
starts as zeros; `strcat` finds its end by looking (`strlen`), plain characters go to
`escaped_index`; `Fits` is about either way of writing, `IndexIsEnd` says that they
agree. `ReadsBack` takes the result apart into entities and escapes (for TeX idealised,
a backslash and a character) in every possible
way and demands that only the original text comes out.

### Command

`main` from the first option to the cleanup. `held` is what is allocated or open,
`ptr` what each variable points to; a block is named after the variable it was made
for and the option that made it, so that repeated options make different blocks.
Names of files and data are not followed further: what the readers, the parser and
the renderer do is one choice of outcomes each. The two loops that fill buffers (a
strbuf for JSON, `in_buf` for the template) are modelled character by character, with
small initial sizes and a small maximum. With `-e`, only whether it is accepted
matters here.

A YAML file that is cut off gives the command the root, an inner node, or an
element in an array's buffer to destroy. With an inner node the rest is leaked, with
an element `free` is given an address inside a block: `FreesWhatItHolds` and
`NothingLeaks` except these (`WasCut`). A template that leaves a section open
(`{{#a}}x`) makes the renderer destroy the data, and the cleanup destroys it again:
`destroyed` keeps this apart, and `FreesWhatItHolds` says that then exactly the data
is freed twice, and nothing at all otherwise. Giving the default delimiter after another one
(`-d '<%' -d '{{'`) leaves the other in effect (`ctache.c:61`): nothing in the
repository says what it should do.

## Runs

| Run | Question |
|---|---|
| `lexer` | every template of up to 5 pieces: the delimiters and 8 characters that the lexer tells apart |
| `parser` | every list of up to 5 terminals followed by EOI |
| `renderer` | every list of up to 3 texts and tags of 20 kinds, with a hash, an array of hashes and an array of strings as the caller's data, and up to 5 of the tags that nest loops, with the first two; only calls of a template whose sections do not match destroy data |
| `documented` | the trees for which the documentation is honoured, nested up to four deep: output, and that rendering ends |
| `datastore` | every sequence of calls that makes up to four nodes, nested up to two deep, with two keys and up to two cells per hash or array |
| `yaml` | every sequence of up to 14 events of libyaml, ended anywhere by an error in the file |
| `json` | texts of up to 3 of 14 pieces, alone and after the beginnings of an object, an array in it, an object in that; up to 5 of the pieces that nest, in an object and in an object in an array |
| `escaping` | texts of up to 4 characters, among them those that escapes are made of, and all pairs of the special ones |
| `command` | command lines of up to 3 of 15 options, files of up to 18 characters, every outcome of every call |
| `stale_index`, `json_objects`, `exit_status` | one divergence of code and documentation each, see Findings |

Bounds and why they are enough:

- Lexer: no branch looks further than a delimiter and two more characters, so five
  pieces hold two tags next to each other, a tag in text, and every way to
  run into the end. The initial buffer size is 2 instead of 10 so that the
  buffer doubles within the bound. Other delimiters are left to the theorems, which
  hold for all.
- Parser: `ParserProofs` shows that its stack takes ten shapes, and all of
  them occur with five tokens.
- Renderer: `MaxOut` and `MaxStack` stop templates that repeat a section for
  ever; `Stopped` makes this no deadlock, and in `documented` they are larger
  than anything reached, since there `Terminates` would fail. `MaxDepth`
  is the room of the C stack: a partial that includes itself exceeds it and
  crashes. Two elements per array tell first, last, repeated and skipped
  apart; one array has a single element and one none.

- Data store: four nodes are enough for two hashes that share a value and are
  merged, for a hash in an array in a hash, and for an array that outgrows its
  buffer twice (its first buffer has one place instead of ten).
- YAML: a file takes six events for its stream, document and root, so eight are left:
  a mapping in a sequence in a mapping with a scalar takes all of them, and every
  branch, dead ones excepted, is taken.
- JSON: the reader looks one token ahead and its calls know nothing of each other but
  what they return, so three pieces after each kind of beginning show every way in
  which a call can go wrong in each caller; five show objects in arrays in objects.
- Escaping: an escaped character is longest when alone and interacts with plain ones
  next to it only; four characters hold every order of two of each.
- Command: with three options, each may be repeated and another stand beside it.
  Eighteen characters make a buffer of four places double twice and then exceed
  the maximum of 32.

Fairness: `Renderer!Spec` and `JsonReader!Spec` assume weak fairness of `Next`. The
program is one thread that waits for nothing, so as long as it has a step it takes
one. The other modules are specified without fairness: that the lexer and the parser
end is shown by `RulesAreBounded` and by the cursor that only grows within
`StaysInside`, and the YAML reader ends when libyaml does.

Deadlock is checked in all runs. A call that has returned, or was stopped by a
bound, stutters explicitly (`Returned`, `Stopped`), so a deadlock would be a
state for which the code has no branch.

The operators whose names end in `_Slip` stand before the definitions that they
would spoil. Each is an error that could have been made there; with it in place,
the property named for it in `PROJECT.json` fails.

### Properties worth a look

- `NothingLost`: the tokens found so far, spelled out again, are a prefix of the
  template, up to the cursor.
- `ImplementsGrammar`: the table-driven parser refines the grammar's automaton.
- `RulesFitTokens`: the rules of a parsed template are those of its derivation, and the
  renderer, which steps over tokens by fixed widths for each rule, stands at a text for
  each rule for text and at the opening, the name and the end of a tag for each rule of
  a tag.
- `Aligned`: for every template and data, token and rule are those of one point
  of the derivation, in the running call and in every suspended one, and every
  place a loop may jump back to is such a point.
- `IndexesSaved`: an index is on the stack whenever closing a loop pops one.
- `RendersAsDocumented`, `Terminates`.
- `DataIsKept`: the end of a call destroys what is left on its stack, which it does not
  own; nothing is left by a template whose sections match, though contexts are not pushed
  by every section that is entered and are popped by every one that is closed.
- `NothingFreedIsUsed`, `CountsAreReferences`, `NothingLeaks` (data): with a count that starts at zero and
  two functions that both decrement it, each value is freed once, by the last
  that holds it.
- `StackIsPath`, `IsTree`, `PointersStay`: of the YAML reader, for every sequence of events.
- `IsRead` (twice), `SupportedIsRead`: the readers against references that
  work in another way than they do, the YAML reader's after every event.
- `KeptOrDestroyed`: after any error at any depth, what was built is destroyed once, and
  what is still used is not.
- `Fits`, `ReadsBack`: escaping, whose passes count differently.
- `FreesWhatItHolds`, `NothingLeaks` (command): the command, whatever options repeat and whatever
  fails. The file of the data may stay open only if there is no data.

## Findings

Each of the first three is a run that fails.

- `stale_index` (`render.c:177`): the end of a hash's section pops the context
  but leaves the index that was pushed with it; the next loop that closes takes
  it for its own, and an outer loop repeats an element for ever.
- `json_objects` (`json_data.c:63`): the brace that closes an empty object is
  taken for a key and its value followed as a string. The wide grammar also finds the
  empty array, numbers as values, and booleans, numbers and arrays in arrays, all of
  which the reader refuses or, in a nested object, follows as NULL.
- `exit_status` (`ctache.c:180`): the command exits with 0 after it has reported
  an error in the data or the template, or has rendered part of a file that is cut off.

Four more divergences of the renderer have their templates in `MCMustache`; giving
`Jobs` in `MCStaleIndex.cfg` that value instead makes `RendersAsDocumented` fail:

- `UndefinedInHash` (`render.c:178`): a section on an undefined key pushes no
  context and pops one.
- `EmptyArray` (`render.c:146`): the body of a section over an empty array is
  rendered once.
- `HiddenThenShown` (`render.c:166`): `hidden` is one flag for all sections.
- `PartialInLoop` (`render.c:420`): a partial in a loop moves the loop's index.

A template with a section left open is not a syntax error (`parser.c:19`), and its data is
destroyed twice, by the renderer (`render.c:551`) and by the command (`ctache.c:160`).
`DataIsKept` and `FreesWhatItHolds` delimit this and no run fails for it, since
nothing in the repository says who owns the data after rendering; without its
exception, `FreesWhatItHolds` fails in `command`.

Delimiters that begin with the same character do not work, because the end is
only tried where the beginning cannot start (`lexer.c:213`).

Three more deviations are excluded by `Regular` in `MCMustache` and have no run
of their own: in an array's element, a false boolean hides nothing
(`render.c:103`) and an undefined key enters the array again (`render.c:104`);
a partial in a hidden section is rendered (`render.c:531`). `Regular` is the
exact list of what has to be avoided for templates to be rendered as documented.

## Proofs

All theorems hold for every value of the constants that satisfies the named
assumptions: `CharsAssumption`, `DelimAssumption`, `BufsizeAssumption`
(lexer), `InputsAssumption` (parser), `DataAssumption`,
`TemplatesAssumption`, `JobsAssumption` (renderer), `ScalarsAssumption`,
`NullAssumption` (YAML reader), `CharsAssumption`, `TextsAssumption`, `NullAssumption`
(JSON), `SizesAssumption`, `DelimsAssumption`, `ArgvsAssumption`, `NoneAssumption`
(command), `TextAssumption` (escaping), `BufSizeAssumption`, `HeightAssumption`,
`NullAssumption`, `MemoryAssumption` (data). Most say that a NULL is nothing else, that
texts are sequences of characters without a terminator, and that sizes are numbers.

- `LexerProofs`: `TypeCorrect`, `BufferNeverOverflows`, `ScanStaysInside`,
  `EoiEndsTokens`, `TextIsOneToken`. The inductive invariant `IInv` adds to the five
  properties only `TagIsLast`: while scanning, a text that has become a token is
  followed by a tag, so a flush never puts two texts in a row.
  `StaysInside` rests on the terminator being in no delimiter
  (`MatchLiesInside`). Four more stand on it. `TokensSpellTemplate` says (`Legible`) that
  there are positions in the template, one after each token, between which the tokens
  spell it, and that the pending text spells what has been read since; a step adds one
  position. `LosesNothing` is `NothingLost`, which computes the positions that can be
  reached instead (`Reached`): that the recursion of `Reached` has a solution
  (`ReachedIs`) and that each of the positions is among those computed
  (`SpelledIsReached`) are inductions over the list. `LinesAreRight` needs that no
  delimiter contains the end of a line (`DelimsInLine`): then only the two branches that
  count a line leave one behind. `DelimitersAreTags` is
  `NoDelimiterInText`, for delimiters that begin differently, the closing one having two
  characters or more (`DelimsDiffer`): no position of the pending text opens or closes a
  tag (`Untagged`), since each was tested when the cursor stood there. Without the
  hypothesis it is false, see Findings.
- `ParserProofs`: `TypeCorrect`, `StackHolds`, `RulesBounded`, `TextIsNeverEmpty`,
  `ParserImplementsGrammar`, a refinement, and `RulesFit`. None of them is inductive: what a stack
  may do depends on all that is below its top. `IInv` says that the stack has one
  of ten shapes, each with the tokens for which the table has put it there
  and the number of rules since the last token; a step leads from shape to
  shape (`MatchShape`, `ExpandShape`). Under the refinement mapping, matching
  a token is the grammar's step, expanding is a stutter. `RulesFit` is `RulesFitTokens`, on
  an invariant of its own beside `IInv` (`WInv`): the rules so far are those of the tokens
  matched and the ones that the shape of the stack says are applied since (`Pending`), and
  the renderer's walk over them is at the current token or, inside a tag, ahead of it by
  what its opening steps over (`Ahead`).
- `RendererProofs`: `StaysAligned`, `IndexIsThere`, `TypeCorrect`, `KeepsData`. `IInv` is one
  predicate on the locals of a call (`CallOK`), asked of the running call and
  of each suspended one (`GoodFrames`), so that returning from a partial
  restores it. It holds for all templates, sections matched or not.
  `KeepsData` is `DataIsKept`, with `Nests` beside `IInv`: at most one context is on
  the stack for each section that is open (`OpenAt`). The hard case is the closing tag
  that goes back to a loop's body, perhaps that of another section than the one it
  closes: the loops under way are those over the levels of the stack that are arrays,
  innermost first, and the body of none was entered with more on the stack than sections
  were open there (`IsLevels`). The levels are counted from the caller's data, so that
  they stay when one is pushed or popped (`LevelsPushed`, `LevelsPopped`).
- `YamlProofs`: `TypeCorrect`, `StackLeadsToRoot`, `BuildsOneTree`, `PointersStayValid`,
  `ReadsWhatIsDescribed`, for event sequences of any length and depth. `IInv` adds that
  what is on the stack are hashes and arrays (`StackOfContainers`), each older than
  the one above it (`Descending`), since appending a cell to the node being filled must
  not disturb the last cell of another on the path. The tree is stated of any
  sequence of nodes (`Tree`) and kept by attaching one more node (`AttachedTree`).
  `PointersStayValid` follows from the invariant: only the node being filled grows
  (`OnlyFilledGrows`), and all that is held is it or older (`HeldAreOlder`).
  `ReadsWhatIsDescribed` is `IsRead`, with `ReadInv` beside `IInv`: inside the root there is
  a path of collections, innermost first (`IsPath`), `data` and `data_stack` are their nodes
  (`IsFilled`), libyaml has the same ones open, each before a key or before a value
  (`IsOpen`), and a key is pending exactly when a value is due (`KeyIsPending`). What is
  described before an event stays so after it (`PlacesKept`, `SameAfter`), one node is added
  or none (`NodeAdded`, `NothingAdded`), and the path stays, grows or shrinks (`PathStays`,
  `PathGrows`, `PathShrinks`). Each branch that aborts or
  crashes needs an event that `Allows` excludes. Trimming by two lengths is cutting out
  what is between the first word and the last (`Trimmed`).
- `JsonReaderProofs`: `TypeCorrect`, `ErrorsDestroyAll`, which is `KeptOrDestroyed`, and
  `ReadsWhatIsDescribed`, which is `IsRead`, for all texts of any depth.
  `KeptOrDestroyed` alone is not inductive: for one call to destroy
  all that is below its node and nothing else, no two calls may reach the same node
  (`ApartIn`), and that a node is linked to its caller's only on return is what keeps
  them apart. `CallsFit` and `NodesFit` order it: a caller's node is older than its
  callee's, what is in a cell is newer than the node that has the cell. `Below` is the
  least set that is closed under cells, so that it can be reasoned about without
  recursion: `BelowIsLeast` says so, `Grown` what a new node changes and `Linked` what a
  new cell does. A search in the text (`After`) chooses the first place, which exists by
  the least-number principle (`Least`, from the well-founded order of finite sets).
  `ReadsWhatIsDescribed` has `ReadInv`, in which `Follows` goes beside `IInv`: as long as
  the text may still be supported, or has no arrays, it has been read up to the cursor
  (`IsReadTo`). That is: what stands before the cursor is supported; the objects and
  arrays that are open there (`IsOpen`) are the calls, innermost first, and a call's node,
  key and `needs` are what the text says at that place (`AreCalls`); the nodes are the
  data before the cursor, and all of their cells are there but those of what is still open,
  which a call links only on return (`AreBuilt`). A token moves the cursor over spaces
  and over what it is made of, which begin no datum (`OverSpaces`, `StringRead`); then one
  node is added (`NodeOpened`), one cell (`NodeLinked`), or only what is due changes. An
  action that ends in NULL or undefined needs a token that is not allowed (`Refused`), and
  conversely all that was read was (`SupportedTo`), which gives "nothing else".
- `CommandProofs`: `TypeCorrect`, `BuffersSafe`, `FreesOnlyHeld`, `ReleasesAll`, for all
  command lines, buffer sizes and lengths of files. `IInv` says which names
  have a block that is held, up to the end of the program (`Owns`), a delimiter
  exactly if its text is not the default, and that between two characters a buffer
  has room for one more and a terminator (`HasRoom`). `Owns` also says when the renderer
  may have destroyed the data (`OwnsData`): after rendering only, and then it is the one
  thing that the cleanup frees and that is not held (`OwnedAreHeld`). `ReleasesAll` is `NothingLeaks`
  and needs what that leaves open, the order of options (`Keeps`): a name points to the
  last block that was made for it (`PointsToLast`), and whatever is held was made by an
  option, is the data, or is there until the step that gives it back
  (`HeldForReason`, `Temporary`). `FileClosed` adds that there is no data before its
  file has been closed.
- `EscapingProofs`: `NeverOverruns`, `IndexIsTheEnd`, `TypeCorrect`, `ReadsAsText`, for
  texts of any length. What the second pass writes is a sum over the text, and a recursive sum
  could not be reasoned about. `IInv` says instead that a history of the count
  exists (`Reserves`): a function that ends at the counted length and between two
  characters grows by at least what will be written for the one between them. Counting
  extends it by one place, copying walks along it, and the block keeps zeros exactly
  from `escaped_index` on (`Filled`), so `strlen` finds that place (`Terminated`).
  `ReadsAsText` is `ReadsBack`. With `IInv` goes that the block holds the codes of the
  characters so far one after another (`Cuts`). Where a code begins, only that code as a
  whole has a meaning, and it is its character (`MeaningIs`): no entity begins another,
  and what is left as it was means nothing to HTML or TeX. So the readings up to a place
  are the characters before it if a code ends there, and there is none elsewhere, by
  induction over the places (`ReadingsAre`).
- `DataStoreProofs`: `TypeCorrect`, `FreedIsUnused`, `CountsCorrect`, `LeakFree`,
  `ArraysFit`, for any number of nodes that share and nest their values, arrays of any
  length and any capacity to start with. The first four rest on one `IInv`, which says
  what the C stack guarantees. `Counts`: a count is the number of cells that hold the node
  and are not being destroyed, plus the releases still to come for cells that were; a
  hash that starts to be destroyed turns the one into the other, a release takes one of
  each side. `Steps`: nothing but a release is to be done twice, and each piece of memory
  that a step will use is freed by a step further down (`Destroys`, `SpentNodes`,
  `DataFirst`); for this, `todo` is read from its end, where positions do not move when
  steps are pushed. `Elements`: what stands in a buffer stands there once and is destroyed
  before the buffer. Cells are counted as a finite set of pairs, hence
  `MemoryAssumption` (finitely many blocks, cells bounded by a number).
  `ArraysFit` has an invariant of its own: an array keeps one place
  more than it has elements, and no two nodes point to the same block
  (`Unshared`), since a hash's block grows without looking at a size.

Type correctness of the lexer, the command and of escaping is proved and is in no run.

The library's theorems on induction take an operator as a parameter, which the provers
cannot instantiate. `SetInduction` is induction as a statement about a set of numbers,
from the well-foundedness of `<` (`NatLessThanWellFounded`, `WFMin`), and is what
`RulesFit`, `LosesNothing`, `ReadsAsText` and both `ReadsWhatIsDescribed` use on recursive
functions.

Only model-checked: what is printed (`RendersAsDocumented`), whose reference is a recursion
over trees; `SupportedIsRead`, the recursive grammar against which `IsRead` is checked;
and `Terminates` and `Ends`, which are liveness.

## Not modelled

- Sorting an array (`ctache_array_sort`, which is `qsort`) and comparing strings for it.
- The nodes of linked lists and the buckets of hash tables: lists are sequences, a hash
  is the list of its cells. Their operations are a few assignments each.
- Failed allocations: most are not tested for in the code.
- Numbers and dates as text, the characters of the output, the debug printing of
  `-t` and `-p` (their control flow is in `Command`), the help.
- `ctache_render_string_to_string`, which renders to a temporary file and reads it back.
- The strbuf in which a token of JSON is collected, and with it the leak of every
  string that is terminated (`json.c:163`).
- TeX itself: `ReadsBack` takes a backslash to stand for the next character, as
  `escape_tex` does; TeX reads `\\`, `\^` and `\~` otherwise, of which nothing in the
  repository speaks.
- libyaml, `getopt` and the C library are external and modelled from how they are used.

What could follow: the output of a template, said by the places of its tags as `JsonData`
says it of the characters of a text, and a proof of `RendersAsDocumented` on that.
