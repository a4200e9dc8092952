------------------------------ MODULE Command ------------------------------
(***************************************************************************)
(* The ctache command: main of src/ctache.c with what it calls to read the *)
(* two files, data_from_json's strbuf (src/strbuf.c) and the input buffer  *)
(* of _ctache_render_file, and _ctache_render_string (lib/render.c).  What *)
(* the readers, the parser and the renderer make of a text is a choice of  *)
(* outcomes here; YamlReader, JsonReader, Parser and Renderer model it.    *)
(***************************************************************************)
EXTENDS Integers, Sequences

CONSTANTS
    Argvs,              \* command lines, sequences of [opt, arg]
    DELIM_BEGIN, DELIM_END,
    IN_BUF_SIZE_DEFAULT, IN_BUF_SIZE_MAX,   \* 1024 and 2^30 in the code
    DEFAULT_BUF_SIZE,   \* of the strbuf for a JSON file, 1024 in the code
    MaxChars,           \* a bound on the length of files
    NONE                \* NULL, stdin, stdout or a string constant

ASSUME SizesAssumption ==
    /\ IN_BUF_SIZE_DEFAULT \in Nat /\ IN_BUF_SIZE_DEFAULT >= 2
    /\ DEFAULT_BUF_SIZE \in Nat /\ DEFAULT_BUF_SIZE >= 2
    /\ IN_BUF_SIZE_MAX \in Nat /\ IN_BUF_SIZE_DEFAULT < IN_BUF_SIZE_MAX
    /\ MaxChars \in Nat

ASSUME DelimsAssumption == DELIM_BEGIN \in STRING /\ DELIM_END \in STRING

ASSUME ArgvsAssumption == Argvs \subseteq Seq([opt : STRING, arg : STRING])

\* The variables of main that may own something.
Delims == {"delim_begin", "delim_end"}
Names  == Delims \cup {"in_file_name", "in_fp", "out_file_name", "out_fp",
                       "yaml_file_name", "json_file_name", "data"}

Default == [n \in Delims |-> IF n = "delim_begin" THEN DELIM_BEGIN ELSE DELIM_END]

\* What is allocated or opened.
Kinds == Names \cup {"child", "element", "fp", "strbuf", "parser", "json",
                     "in_buf", "tokens", "rules"}

\* NULL is no block.
ASSUME NoneAssumption == NONE \notin Kinds \X Nat

VARIABLES
    argv, optind,       \* the command line, the next option of it
    ptr,                \* what each of Names points to, a block or NONE
    delim,              \* the texts of the delimiters
    flags,              \* -h, -p and -t, as far as given
    held,               \* what is allocated or open: <<name, optind then>>
    size, len,          \* of the buffer that a file is being read into
    failed,             \* whether the data or the template had an error
    destroyed,          \* whether the renderer has destroyed the data
    pc, status

vars == <<argv, optind, ptr, delim, flags, held, size, len, failed, destroyed,
          pc, status>>

options == <<argv, delim, flags>>
buffer  == <<size, len>>
-----------------------------------------------------------------------------
Block(name) == <<name, optind>>

Goto(label) == pc' = label /\ UNCHANGED status

Exit(code) == pc' = "exited" /\ status' = code

\* free and fclose of what is no block of the heap, or no longer.
Release(blocks, label) ==
    /\ held' = held \ blocks
    /\ Goto(IF blocks \subseteq held THEN label ELSE "undefined")

Given(opt) == pc = "options" /\ optind \in DOMAIN argv /\ argv[optind].opt = opt
Arg == argv[optind].arg

NextOption == optind' = optind + 1 /\ UNCHANGED <<argv, buffer, failed, destroyed>>

\* The names take what is new over, whatever they had before.
Obtain(names) ==
    /\ ptr' = [n \in Names |-> IF n \in names THEN Block(n) ELSE ptr[n]]
    /\ held' = held \cup {Block(n) : n \in names}

ObtainNothing == UNCHANGED <<ptr, held>>
-----------------------------------------------------------------------------
Init ==
    /\ argv \in Argvs /\ optind = 1
    /\ ptr = [n \in Names |-> NONE] /\ delim = Default
    /\ flags = {} /\ held = {}
    /\ size = 0 /\ len = 0
    /\ failed = FALSE /\ destroyed = FALSE
    /\ pc = "options" /\ status = 0

(***************************************************************************)
(* The options.  A delimiter is copied unless it is the default; giving    *)
(* the default after another one changes nothing.  An operator whose name  *)
(* ends in _Slip is a plausible slip in the operator after it, kept to     *)
(* show that a property would notice.                                      *)
(***************************************************************************)
SetDelim_Slip(n) ==
    /\ delim' = [delim EXCEPT ![n] = Arg]
    /\ Obtain({n})
SetDelim(n) ==
    IF Arg # Default[n]
    THEN delim' = [delim EXCEPT ![n] = Arg] /\ Obtain({n})
    ELSE UNCHANGED delim /\ ObtainNothing

Delimiter ==
    /\ \/ Given("d") /\ SetDelim("delim_begin")
       \/ Given("D") /\ SetDelim("delim_end")
    /\ NextOption /\ Goto("options")
    /\ UNCHANGED flags

Escaping ==
    /\ Given("e")
    /\ IF Arg \in {"html", "tex"} THEN Goto("options") ELSE Exit(1)
    /\ NextOption /\ ObtainNothing
    /\ UNCHANGED <<delim, flags>>

\* The template and the output are opened at once; that may fail.
OpenFile(opt, name, fp) ==
    /\ Given(opt)
    /\ \/ Obtain({name, fp}) /\ Goto("options")
       \/ Obtain({name}) /\ Exit(1)
    /\ NextOption
    /\ UNCHANGED <<delim, flags>>

InFile  == OpenFile("i", "in_file_name", "in_fp")
OutFile == OpenFile("o", "out_file_name", "out_fp")

DataFile ==
    /\ \/ Given("j") /\ Obtain({"json_file_name"})
       \/ Given("y") /\ Obtain({"yaml_file_name"})
    /\ NextOption /\ Goto("options")
    /\ UNCHANGED <<delim, flags>>

Flag ==
    /\ \E f \in {"h", "p", "t"} : Given(f) /\ flags' = flags \cup {f}
    /\ NextOption /\ Goto("options") /\ ObtainNothing
    /\ UNCHANGED delim

Version == Given("V") /\ Exit(0) /\ NextOption /\ ObtainNothing /\ UNCHANGED <<delim, flags>>

BadOption == Given("?") /\ Exit(1) /\ NextOption /\ ObtainNothing /\ UNCHANGED <<delim, flags>>

\* YAML goes before JSON; without a data file there is the help only.
EndOfOptions ==
    /\ pc = "options" /\ optind \notin DOMAIN argv
    /\ Goto(IF "h" \in flags THEN "cleanup"
            ELSE IF ptr["yaml_file_name"] # NONE THEN "yaml"
            ELSE IF ptr["json_file_name"] # NONE THEN "json"
            ELSE "cleanup")
    /\ UNCHANGED <<options, optind, destroyed, ptr, held, buffer, failed>>
-----------------------------------------------------------------------------
(***************************************************************************)
(* The data.                                                               *)
(***************************************************************************)
HasData == Obtain({"data"}) /\ Goto("data") /\ UNCHANGED failed

\* "Error parsing data file", and on to the cleanup.
NoData == failed' = TRUE /\ UNCHANGED ptr /\ Goto("cleanup")

\* A YAML file that is cut off gives the node that was being filled: the
\* root, a child that has a block, or an element in its array's buffer.
CutData ==
    \E part \in {"data", "child", "element"} :
        /\ ptr' = [ptr EXCEPT !["data"] = Block(part)]
        /\ held' = held \cup {Block(n) : n \in {"data", part} \ {"element"}}
        /\ failed' = TRUE
        /\ Goto("data")

\* The program ends, or is undefined from there on, inside of what is called.
Dies == Goto("died") /\ UNCHANGED failed /\ ObtainNothing

ReadYaml ==
    /\ pc = "yaml"
    /\ \/ HasData
       \/ CutData
       \/ NoData /\ UNCHANGED held
       \/ Dies
    /\ UNCHANGED <<options, optind, destroyed, buffer>>

OpenJson ==
    /\ pc = "json"
    /\ \/ NoData /\ UNCHANGED <<held, buffer>>
       \/ /\ held' = held \cup {Block("fp"), Block("strbuf")}
          /\ size' = DEFAULT_BUF_SIZE /\ len' = 0
          /\ Goto("read_json")
          /\ UNCHANGED <<ptr, failed>>
    /\ UNCHANGED <<options, optind, destroyed>>

\* A character goes to the end of a buffer, if that is inside.
Stored(label) ==
    /\ len' = len + 1
    /\ Goto(IF len < size' THEN label ELSE "overrun")

strbuf_append_char(label) ==
    /\ size' = IF len + 1 >= size - 1 THEN size * 2 ELSE size
    /\ Stored(label)

JsonChar ==
    /\ pc = "read_json" /\ len < MaxChars
    /\ strbuf_append_char("read_json")
    /\ UNCHANGED <<options, optind, destroyed, ptr, held, failed>>

\* strbuf_null_terminate, and a copy for the parser.
JsonEnd ==
    /\ pc = "read_json"
    /\ strbuf_append_char("parse_json")
    /\ held' = (held \ {Block("strbuf")}) \cup {Block("parser"), Block("json")}
    /\ UNCHANGED <<options, optind, destroyed, ptr, failed>>

\* The file stays open if the text does not begin with a brace.
ParseJson ==
    /\ pc = "parse_json"
    /\ \/ /\ ptr' = [ptr EXCEPT !["data"] = Block("data")]
          /\ held' = (held \ {Block("fp")}) \cup {Block("data")}
          /\ Goto("data") /\ UNCHANGED failed
       \/ NoData /\ held' \in {held, held \ {Block("fp")}}
       \/ Dies
    /\ UNCHANGED <<options, optind, destroyed, buffer>>
-----------------------------------------------------------------------------
(***************************************************************************)
(* The template, _ctache_render_file.                                      *)
(***************************************************************************)
StartTemplate ==
    /\ pc = "data"
    /\ held' = held \cup {Block("in_buf")}
    /\ size' = IN_BUF_SIZE_DEFAULT /\ len' = 0
    /\ Goto("read_template")
    /\ UNCHANGED <<options, optind, destroyed, ptr, failed>>

IsFull_Slip == len + 1 > size
IsFull == len + 1 >= size - 1

IsTooLarge == 2 * size >= IN_BUF_SIZE_MAX

TemplateChar ==
    /\ pc = "read_template" /\ len < MaxChars
    /\ ~(IsFull /\ IsTooLarge)
    /\ size' = IF IsFull THEN 2 * size ELSE size
    /\ Stored("read_template")
    /\ UNCHANGED <<options, optind, destroyed, ptr, held, failed>>

\* "Input too large", abort().
TooLarge ==
    /\ pc = "read_template" /\ len < MaxChars
    /\ IsFull /\ IsTooLarge
    /\ Goto("too_large")
    /\ UNCHANGED <<options, optind, destroyed, ptr, held, buffer, failed>>

\* The terminator takes no length, the buffer is not grown for it.
TemplateEnd ==
    /\ pc = "read_template"
    /\ Goto(IF len < size THEN "lex" ELSE "overrun")
    /\ UNCHANGED <<options, optind, destroyed, ptr, held, buffer, failed>>
-----------------------------------------------------------------------------
(***************************************************************************)
(* _ctache_render_string.  -t without -p stops after the tokens, -p after  *)
(* the rules; with a syntax error there are no rules.                      *)
(***************************************************************************)
Lex ==
    /\ pc = "lex"
    /\ held' = held \cup {Block("tokens")}
    /\ Goto(IF "t" \in flags /\ "p" \notin flags THEN "release" ELSE "parse")
    /\ UNCHANGED <<options, optind, destroyed, ptr, buffer, failed>>

ParseTemplate ==
    /\ pc = "parse"
    /\ \/ /\ held' = held \cup {Block("rules")}
          /\ Goto(IF "p" \in flags THEN "release" ELSE "render")
          /\ UNCHANGED failed
       \/ failed' = TRUE /\ Goto("release") /\ UNCHANGED held
    /\ UNCHANGED <<options, optind, destroyed, ptr, buffer>>

\* What a section left open has pushed is destroyed in the end, and that is the
\* data.  If several have pushed, or one in a partial that is not the last thing
\* in its template, data is used after that in the renderer: one way to die.
DataDestroyed == Release({ptr["data"]}, "release") /\ destroyed' = TRUE

Render ==
    /\ pc = "render"
    /\ \/ Goto("release") /\ UNCHANGED <<held, destroyed>>
       \/ DataDestroyed
       \/ Goto("died") /\ UNCHANGED <<held, destroyed>>
    /\ UNCHANGED <<options, optind, ptr, buffer, failed>>

\* The lists, if there are, and the input buffer.
ReleaseTemplate ==
    /\ pc = "release"
    /\ Release({Block("tokens"), Block("in_buf")} \cup (held \cap {Block("rules")}), "cleanup")
    /\ UNCHANGED <<options, optind, destroyed, ptr, buffer, failed>>

\* What cleanup frees and closes: a delimiter if it is not the default.
Owned_Slip == {ptr[n] : n \in {m \in Names \ Delims : ptr[m] # NONE} \cup Delims}
Owned == {ptr[n] : n \in {m \in Names \ Delims : ptr[m] # NONE}} \cup
         {ptr[n] : n \in {m \in Delims : delim[m] # Default[m]}}

Cleanup ==
    /\ pc = "cleanup"
    /\ Release(Owned, "returned")
    /\ UNCHANGED <<options, optind, destroyed, ptr, buffer, failed>>

Stopped ==
    /\ pc \in {"exited", "returned", "died", "too_large", "overrun", "undefined"}
    /\ UNCHANGED vars

Next ==
    \/ Delimiter \/ Escaping \/ InFile \/ OutFile \/ DataFile \/ Flag \/ Version \/ BadOption
    \/ EndOfOptions
    \/ ReadYaml \/ OpenJson \/ JsonChar \/ JsonEnd \/ ParseJson
    \/ StartTemplate \/ TemplateChar \/ TooLarge \/ TemplateEnd
    \/ Lex \/ ParseTemplate \/ Render \/ ReleaseTemplate \/ Cleanup \/ Stopped

Spec == Init /\ [][Next]_vars
-----------------------------------------------------------------------------
TypeOK ==
    /\ argv \in Argvs /\ optind \in Nat
    /\ ptr \in [Names -> (Kinds \X Nat) \cup {NONE}]
    /\ delim \in [Delims -> STRING]
    /\ flags \subseteq {"h", "p", "t"}
    /\ held \subseteq Kinds \X Nat
    /\ size \in Nat /\ len \in Nat
    /\ failed \in BOOLEAN /\ destroyed \in BOOLEAN
    /\ status \in {0, 1}

(***************************************************************************)
(* Two loops fill buffers of which they test the room in different words   *)
(* (src/strbuf.c:49, lib/render.c:596), one keeps a place for the          *)
(* terminator and one stores it as a character: neither writes beyond, and *)
(* the template's buffer never reaches its maximum.                        *)
(***************************************************************************)
StaysInBuffer ==
    /\ pc # "overrun"
    /\ pc \in {"read_json", "read_template"} => len < size
    /\ pc = "read_template" => size < IN_BUF_SIZE_MAX

(***************************************************************************)
(* On every way to the cleanup and through it, what is freed or closed is  *)
(* a block that is held: no string constant, nothing twice, and nothing    *)
(* that another option has replaced (src/ctache.c:158).  There is one      *)
(* exception: where a template leaves a section open, the renderer has     *)
(* destroyed the data (lib/render.c:551), and the cleanup destroys exactly *)
(* that again.  Nothing is said of what a YAML file that was cut off has   *)
(* left as data.                                                           *)
(***************************************************************************)
WasCut == ptr["data"] \in {Block("child"), Block("element")}

FreesWhatItHolds == ~WasCut =>
    /\ pc = "cleanup" => Owned \ held = IF destroyed THEN {ptr["data"]} ELSE {}
    /\ pc = "undefined" => destroyed

(***************************************************************************)
(* When main returns, all it has obtained has been released, but for what  *)
(* a later option has replaced, and what data_from_json keeps: the parser, *)
(* its text, and the file if that has no data (it stays open if it does    *)
(* not begin with a brace).                                                *)
(***************************************************************************)
Makes(option) ==
    CASE option.opt = "d" /\ option.arg # DELIM_BEGIN -> {"delim_begin"}
      [] option.opt = "D" /\ option.arg # DELIM_END   -> {"delim_end"}
      [] option.opt = "i" -> {"in_file_name", "in_fp"}
      [] option.opt = "o" -> {"out_file_name", "out_fp"}
      [] option.opt = "y" -> {"yaml_file_name"}
      [] option.opt = "j" -> {"json_file_name"}
      [] OTHER -> {}

Replaced == {b \in Names \X DOMAIN argv :
                \E j \in DOMAIN argv :
                    j > b[2] /\ b[1] \in Makes(argv[b[2]]) \cap Makes(argv[j])}

Kept == {"parser", "json"} \cup (IF ptr["data"] = NONE THEN {"fp"} ELSE {})

NothingLeaks ==
    pc = "returned" /\ ~WasCut =>
        held \ (Replaced \cup {Block(n) : n \in Kept}) = {}

(***************************************************************************)
(* "exits 0 on success, and >0 if an error occurs", which is what .Ex -std *)
(* of man/ctache.1:60 says.                                                *)
(***************************************************************************)
StatusTellsOfErrors == pc \in {"exited", "returned"} /\ failed => status # 0
=============================================================================
