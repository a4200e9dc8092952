--------------------------- MODULE CommandProofs ---------------------------
(***************************************************************************)
(* What holds of the command for every command line and every size of its  *)
(* buffers.                                                                *)
(***************************************************************************)
EXTENDS Command, TLAPS

Labels == {"options", "yaml", "json", "read_json", "parse_json", "data", "read_template",
           "lex", "parse", "render", "release", "cleanup",
           "exited", "returned", "died", "too_large", "undefined"}

Stops == {"exited", "returned", "died", "too_large", "undefined"}

\* There is always room for one character more, and for the terminator.
HasRoom ==
    /\ pc \in {"read_json", "read_template"} => len + 1 < size
    /\ pc = "read_template" => size < IN_BUF_SIZE_MAX

\* Until the program stops, its names have blocks of their own.
OwnsFiles ==
    \A n \in Names \ (Delims \cup {"data"}) :
        ptr[n] = NONE \/ ptr[n] \in held \cap ({n} \X Nat)

OwnsDelims ==
    \A n \in Delims : delim[n] = Default[n] \/ ptr[n] \in held \cap ({n} \X Nat)

\* Data that the renderer has destroyed is still pointed to.
OwnsData ==
    /\ ptr["data"] = NONE \/ WasCut \/ destroyed \/ ptr["data"] \in held \cap ({"data"} \X Nat)
    /\ destroyed => WasCut \/ ptr["data"] \in ({"data"} \X Nat) \ held
    /\ destroyed => pc \in {"release", "cleanup"}
    /\ pc = "options" => ptr["data"] = NONE
    /\ pc \in {"data", "read_template", "lex", "parse", "render"} => ptr["data"] # NONE

OwnsTemplate ==
    /\ pc \in {"read_template", "lex", "parse", "render", "release"} => Block("in_buf") \in held
    /\ pc \in {"parse", "render", "release"} => Block("tokens") \in held

Owns == pc \notin Stops => OwnsFiles /\ OwnsDelims /\ OwnsData /\ OwnsTemplate

\* The inductive invariant.
IInv == TypeOK /\ pc \in Labels /\ HasRoom /\ Owns /\ FreesWhatItHolds
-----------------------------------------------------------------------------
\* A block is a kind and the number of an option.
LEMMA BlockType ==
    ASSUME TypeOK, NEW name \in Kinds
    PROVE  Block(name) \in Kinds \X Nat
    BY DEF TypeOK, Block

\* The argument of an option is a string.
LEMMA ArgType ==
    ASSUME TypeOK, NEW opt, Given(opt)
    PROVE  Arg \in STRING
<1>1. argv \in Seq([opt : STRING, arg : STRING])
    BY ArgvsAssumption DEF TypeOK
<1>2. optind \in DOMAIN argv
    BY DEF Given
<1>3. argv[optind] \in [opt : STRING, arg : STRING]
    <2> DEFINE O == [opt : STRING, arg : STRING]
    <2> HIDE DEF O
    <2>1. argv \in Seq(O)
        BY <1>1 DEF O
    <2>2. argv[optind] \in O
        BY <2>1, <1>2
    <2>3. QED
        BY <2>2 DEF O
<1>4. QED
    BY <1>3 DEF Arg

\* Obtain changes its variables within their types.
LEMMA ObtainTypes ==
    ASSUME TypeOK, NEW names \in SUBSET Names, Obtain(names)
    PROVE  /\ ptr' \in [Names -> (Kinds \X Nat) \cup {NONE}]
           /\ held' \subseteq Kinds \X Nat
<1>1. names \subseteq Kinds
    BY DEF Kinds
<1>2. \A n \in names : Block(n) \in Kinds \X Nat
    BY <1>1, BlockType
<1>3. held' \subseteq Kinds \X Nat
    BY <1>2 DEF TypeOK, Obtain
<1>4. ptr' \in [Names -> (Kinds \X Nat) \cup {NONE}]
    BY <1>2 DEF TypeOK, Obtain
<1>5. QED
    BY <1>3, <1>4

\* Every step keeps the types, and doubles the template buffer below its maximum.
LEMMA TypeStep == IInv /\ [Next]_vars => TypeOK'
<1> SUFFICES ASSUME IInv, [Next]_vars PROVE TypeOK'
    OBVIOUS
<1>1. CASE Delimiter
    BY <1>1, ObtainTypes, ArgType DEF IInv, TypeOK, Names, Delims, Delimiter, SetDelim,
        Given, NextOption, Goto, ObtainNothing, buffer
<1>2. CASE Escaping
    BY <1>2 DEF IInv, TypeOK, Escaping, Given, NextOption, Goto, Exit, ObtainNothing,
        buffer
<1>3. CASE InFile
    BY <1>3, ObtainTypes DEF IInv, TypeOK, Names, InFile, OpenFile, Given, NextOption,
        Goto, Exit, buffer
<1>4. CASE OutFile
    BY <1>4, ObtainTypes DEF IInv, TypeOK, Names, OutFile, OpenFile, Given, NextOption,
        Goto, Exit, buffer
<1>5. CASE DataFile
    BY <1>5, ObtainTypes DEF IInv, TypeOK, Names, DataFile, Given, NextOption, Goto,
        buffer
<1>6. CASE Flag
    BY <1>6 DEF IInv, TypeOK, Flag, Given, NextOption, Goto, ObtainNothing, buffer
<1>7. CASE Version
    BY <1>7 DEF IInv, TypeOK, Version, Given, NextOption, Exit, ObtainNothing, buffer
<1>8. CASE BadOption
    BY <1>8 DEF IInv, TypeOK, BadOption, Given, NextOption, Exit, ObtainNothing, buffer
<1>9. CASE EndOfOptions
    BY <1>9 DEF IInv, TypeOK, EndOfOptions, Goto, options, buffer
<1>10. CASE ReadYaml
    <2>1. CASE HasData
        BY <1>10, <2>1, ObtainTypes
        DEF IInv, TypeOK, ReadYaml, HasData, Goto, options, buffer, Names
    <2>2. CASE CutData
        <3>1. PICK part \in {"data", "child", "element"} :
                  /\ ptr' = [ptr EXCEPT !["data"] = Block(part)]
                  /\ held' = held \cup {Block(n) : n \in {"data", part} \ {"element"}}
            BY <2>2 DEF CutData
        <3>2. \A n \in {"data", part} : Block(n) \in Kinds \X Nat
            BY BlockType DEF IInv, Kinds, Names
        <3>3. held' \subseteq Kinds \X Nat
            BY <3>1, <3>2 DEF IInv, TypeOK
        <3>4. ptr' \in [Names -> (Kinds \X Nat) \cup {NONE}]
            BY <3>1, <3>2 DEF IInv, TypeOK
        <3>5. QED
            BY <1>10, <2>2, <3>3, <3>4
            DEF IInv, TypeOK, ReadYaml, CutData, Goto, options, buffer
    <2>3. CASE (NoData /\ UNCHANGED held) \/ Dies
        BY <1>10, <2>3
        DEF IInv, TypeOK, ReadYaml, NoData, Dies, Goto, ObtainNothing, options, buffer
    <2>4. QED
        BY <1>10, <2>1, <2>2, <2>3 DEF ReadYaml
<1>11. CASE OpenJson
    <2>1. Block("fp") \in Kinds \X Nat /\ Block("strbuf") \in Kinds \X Nat
        BY BlockType DEF IInv, Kinds
    <2>2. held' \subseteq Kinds \X Nat
        BY <1>11, <2>1 DEF IInv, TypeOK, OpenJson
    <2>3. UNCHANGED <<argv, optind, ptr, delim, flags, destroyed, status>>
        BY <1>11 DEF OpenJson, NoData, Goto, options
    <2>4. size' \in Nat /\ len' \in Nat /\ failed' \in BOOLEAN /\ pc' # "read_template"
        <3>1. CASE NoData /\ UNCHANGED <<held, buffer>>
            BY <3>1 DEF IInv, TypeOK, NoData, Goto, buffer
        <3>2. CASE size' = DEFAULT_BUF_SIZE /\ len' = 0 /\ Goto("read_json") /\ UNCHANGED failed
            BY <3>2, SizesAssumption DEF IInv, TypeOK, Goto
        <3>3. QED
            BY <1>11, <3>1, <3>2 DEF OpenJson
    <2>5. QED
        BY <2>2, <2>3, <2>4 DEF IInv, TypeOK
<1>12. CASE JsonChar
    BY <1>12 DEF IInv, TypeOK, JsonChar, strbuf_append_char, Stored, Goto, options
<1>13. CASE JsonEnd
    BY <1>13, BlockType DEF IInv, TypeOK, Kinds, JsonEnd, strbuf_append_char, Stored,
        Goto, options
<1>14. CASE ParseJson
    <2>1. Block("data") \in Kinds \X Nat
        BY BlockType DEF IInv, Kinds, Names
    <2>2. QED
        BY <1>14, <2>1
        DEF IInv, TypeOK, ParseJson, NoData, Dies, Goto, ObtainNothing, options, buffer
<1>15. CASE StartTemplate
    BY <1>15, SizesAssumption, BlockType DEF IInv, TypeOK, Kinds, StartTemplate, Goto,
        options
<1>16. CASE TemplateChar
    BY <1>16, SizesAssumption DEF IInv, TypeOK, TemplateChar, IsFull, IsTooLarge,
        Stored, Goto, options
<1>17. CASE TooLarge
    BY <1>17 DEF IInv, TypeOK, TooLarge, IsFull, IsTooLarge, Goto, options, buffer
<1>18. CASE TemplateEnd
    BY <1>18 DEF IInv, TypeOK, TemplateEnd, Goto, options, buffer
<1>19. CASE Lex
    BY <1>19, BlockType DEF IInv, TypeOK, Kinds, Lex, Goto, options, buffer
<1>20. CASE ParseTemplate
    BY <1>20, BlockType DEF IInv, TypeOK, Kinds, ParseTemplate, Goto, options, buffer
<1>21. CASE Render
    BY <1>21 DEF IInv, TypeOK, Render, DataDestroyed, Release, Goto, options, buffer
<1>22. CASE ReleaseTemplate
    BY <1>22 DEF IInv, TypeOK, ReleaseTemplate, Release, Goto, options, buffer
<1>23. CASE Cleanup
    BY <1>23 DEF IInv, TypeOK, Cleanup, Release, Owned, Goto, options, buffer
<1>24. CASE Stopped
    BY <1>24 DEF IInv, TypeOK, Stopped, vars
<1>25. CASE UNCHANGED vars
    BY <1>25 DEF IInv, TypeOK, vars
<1>26. QED
    BY <1>1, <1>2, <1>3, <1>4, <1>5, <1>6, <1>7, <1>8, <1>9, <1>10, <1>11, <1>12, <1>13,
        <1>14, <1>15, <1>16, <1>17, <1>18, <1>19, <1>20, <1>21, <1>22, <1>23, <1>24,
        <1>25 DEF Next

\* Every step leaves room in the buffers: both loops double the size a character early.
LEMMA RoomStep == IInv /\ [Next]_vars => (pc \in Labels /\ HasRoom)'
<1> SUFFICES ASSUME IInv, [Next]_vars PROVE (pc \in Labels /\ HasRoom)'
    OBVIOUS
<1>1. CASE Delimiter
    BY <1>1 DEF IInv, TypeOK, Labels, HasRoom, Delimiter, SetDelim, Given, Arg,
        NextOption, Goto, Obtain, ObtainNothing, Block, buffer
<1>2. CASE Escaping
    BY <1>2 DEF IInv, TypeOK, Labels, HasRoom, Escaping, Given, Arg, NextOption, Goto,
        Exit, ObtainNothing, buffer
<1>3. CASE InFile
    BY <1>3 DEF IInv, TypeOK, Labels, HasRoom, InFile, OpenFile, Given, NextOption,
        Goto, Exit, Obtain, Block, buffer
<1>4. CASE OutFile
    BY <1>4 DEF IInv, TypeOK, Labels, HasRoom, OutFile, OpenFile, Given, NextOption,
        Goto, Exit, Obtain, Block, buffer
<1>5. CASE DataFile
    BY <1>5 DEF IInv, TypeOK, Labels, HasRoom, DataFile, Given, NextOption, Goto,
        Obtain, Block, buffer
<1>6. CASE Flag
    BY <1>6 DEF IInv, TypeOK, Labels, HasRoom, Flag, Given, NextOption, Goto,
        ObtainNothing, buffer
<1>7. CASE Version
    BY <1>7 DEF IInv, TypeOK, Labels, HasRoom, Version, Given, NextOption, Exit,
        ObtainNothing, buffer
<1>8. CASE BadOption
    BY <1>8 DEF IInv, TypeOK, Labels, HasRoom, BadOption, Given, NextOption, Exit,
        ObtainNothing, buffer
<1>9. CASE EndOfOptions
    BY <1>9 DEF IInv, TypeOK, Labels, HasRoom, EndOfOptions, Goto, options, buffer
<1>10. CASE ReadYaml
    BY <1>10 DEF IInv, TypeOK, Labels, HasRoom, ReadYaml, HasData, CutData, NoData,
        Dies, Goto, Obtain, ObtainNothing, Block, options, buffer
<1>11. CASE OpenJson
    BY <1>11, SizesAssumption DEF IInv, TypeOK, Labels, HasRoom, OpenJson, NoData, Goto,
        Block, options, buffer
<1>12. CASE JsonChar
    BY <1>12 DEF IInv, TypeOK, Labels, HasRoom, JsonChar, strbuf_append_char, Stored,
        Goto, options
<1>13. CASE JsonEnd
    BY <1>13 DEF IInv, TypeOK, Labels, HasRoom, JsonEnd, strbuf_append_char, Stored,
        Goto, Block, options
<1>14. CASE ParseJson
    BY <1>14 DEF IInv, TypeOK, Labels, HasRoom, ParseJson, NoData, Dies, Goto,
        ObtainNothing, Block, options, buffer
<1>15. CASE StartTemplate
    BY <1>15, SizesAssumption DEF IInv, TypeOK, Labels, HasRoom, StartTemplate, Goto,
        Block, options
<1>16. CASE TemplateChar
    BY <1>16, SizesAssumption DEF IInv, TypeOK, Labels, HasRoom, TemplateChar, IsFull, IsTooLarge,
        Stored, Goto, options
<1>17. CASE TooLarge
    BY <1>17 DEF IInv, TypeOK, Labels, HasRoom, TooLarge, IsFull, IsTooLarge, Goto,
        options, buffer
<1>18. CASE TemplateEnd
    BY <1>18 DEF IInv, TypeOK, Labels, HasRoom, TemplateEnd, Goto, options, buffer
<1>19. CASE Lex
    BY <1>19 DEF IInv, TypeOK, Labels, HasRoom, Lex, Goto, Block, options, buffer
<1>20. CASE ParseTemplate
    BY <1>20 DEF IInv, TypeOK, Labels, HasRoom, ParseTemplate, Goto, Block, options,
        buffer
<1>21. CASE Render
    BY <1>21 DEF IInv, TypeOK, Labels, HasRoom, Render, DataDestroyed, Release, Goto, options,
        buffer
<1>22. CASE ReleaseTemplate
    BY <1>22 DEF IInv, TypeOK, Labels, HasRoom, ReleaseTemplate, Release, Goto, Block,
        options, buffer
<1>23. CASE Cleanup
    BY <1>23 DEF IInv, TypeOK, Labels, HasRoom, Cleanup, Release, Owned, Goto, options,
        buffer
<1>24. CASE Stopped
    BY <1>24 DEF IInv, TypeOK, Labels, HasRoom, Stopped, vars
<1>25. CASE UNCHANGED vars
    BY <1>25 DEF IInv, TypeOK, Labels, HasRoom, vars
<1>26. QED
    BY <1>1, <1>2, <1>3, <1>4, <1>5, <1>6, <1>7, <1>8, <1>9, <1>10, <1>11, <1>12, <1>13,
        <1>14, <1>15, <1>16, <1>17, <1>18, <1>19, <1>20, <1>21, <1>22, <1>23, <1>24,
        <1>25 DEF Next

\* Every step before a stop leaves the blocks of the names and of the template held.
LEMMA OwnsStep == IInv /\ [Next]_vars => Owns'
<1> SUFFICES ASSUME IInv, [Next]_vars PROVE Owns'
    OBVIOUS
<1>0. \A n \in {"data", "child", "element"} : Block(n) # NONE
    BY NoneAssumption, BlockType DEF IInv, Kinds, Names
<1>1. CASE Delimiter
    BY <1>1 DEF IInv, TypeOK, Labels, Stops, Owns, OwnsFiles, OwnsDelims, OwnsData,
        OwnsTemplate, WasCut, Names, Delims, Delimiter, SetDelim, Given, Arg,
        NextOption, Goto, Obtain, ObtainNothing, Block, buffer
<1>2. CASE Escaping
    BY <1>2 DEF IInv, TypeOK, Labels, Stops, Owns, OwnsFiles, OwnsDelims, OwnsData,
        OwnsTemplate, WasCut, Names, Delims, Block, Escaping, Given, Arg, NextOption,
        Goto, Exit, ObtainNothing, buffer
<1>3. CASE InFile
    BY <1>3 DEF IInv, TypeOK, Labels, Stops, Owns, OwnsFiles, OwnsDelims, OwnsData,
        OwnsTemplate, WasCut, Names, Delims, InFile, OpenFile, Given, NextOption, Goto,
        Exit, Obtain, Block, buffer
<1>4. CASE OutFile
    BY <1>4 DEF IInv, TypeOK, Labels, Stops, Owns, OwnsFiles, OwnsDelims, OwnsData,
        OwnsTemplate, WasCut, Names, Delims, OutFile, OpenFile, Given, NextOption, Goto,
        Exit, Obtain, Block, buffer
<1>5. CASE DataFile
    BY <1>5 DEF IInv, TypeOK, Labels, Stops, Owns, OwnsFiles, OwnsDelims, OwnsData,
        OwnsTemplate, WasCut, Names, Delims, DataFile, Given, NextOption, Goto, Obtain,
        Block, buffer
<1>6. CASE Flag
    BY <1>6 DEF IInv, TypeOK, Labels, Stops, Owns, OwnsFiles, OwnsDelims, OwnsData,
        OwnsTemplate, WasCut, Names, Delims, Block, Flag, Given, NextOption, Goto,
        ObtainNothing, buffer
<1>7. CASE Version
    BY <1>7 DEF IInv, TypeOK, Labels, Stops, Owns, OwnsFiles, OwnsDelims, OwnsData,
        OwnsTemplate, WasCut, Names, Delims, Block, Version, Given, NextOption, Exit,
        ObtainNothing, buffer
<1>8. CASE BadOption
    BY <1>8 DEF IInv, TypeOK, Labels, Stops, Owns, OwnsFiles, OwnsDelims, OwnsData,
        OwnsTemplate, WasCut, Names, Delims, Block, BadOption, Given, NextOption, Exit,
        ObtainNothing, buffer
<1>9. CASE EndOfOptions
    BY <1>9 DEF IInv, TypeOK, Labels, Stops, Owns, OwnsFiles, OwnsDelims, OwnsData,
        OwnsTemplate, WasCut, Names, Delims, Block, EndOfOptions, Goto, options, buffer
<1>10. CASE ReadYaml
    BY <1>10, <1>0 DEF IInv, TypeOK, Labels, Stops, Owns, OwnsFiles, OwnsDelims, OwnsData,
        OwnsTemplate, WasCut, Names, Delims, ReadYaml, HasData, CutData, NoData, Dies,
        Goto, Obtain, ObtainNothing, Block, options, buffer
<1>11. CASE OpenJson
    BY <1>11 DEF IInv, TypeOK, Labels, Stops, Owns, OwnsFiles, OwnsDelims, OwnsData,
        OwnsTemplate, WasCut, Names, Delims, OpenJson, NoData, Goto, Block, options,
        buffer
<1>12. CASE JsonChar
    BY <1>12 DEF IInv, TypeOK, Labels, Stops, Owns, OwnsFiles, OwnsDelims, OwnsData,
        OwnsTemplate, WasCut, Names, Delims, Block, JsonChar, strbuf_append_char,
        Stored, Goto, options
<1>13. CASE JsonEnd
    BY <1>13 DEF IInv, TypeOK, Labels, Stops, Owns, OwnsFiles, OwnsDelims, OwnsData,
        OwnsTemplate, WasCut, Names, Delims, JsonEnd, strbuf_append_char, Stored, Goto,
        Block, options
<1>14. CASE ParseJson
    BY <1>14, <1>0 DEF IInv, TypeOK, Labels, Stops, Owns, OwnsFiles, OwnsDelims, OwnsData,
        OwnsTemplate, WasCut, Names, Delims, ParseJson, NoData, Dies, Goto,
        ObtainNothing, Block, options, buffer
<1>15. CASE StartTemplate
    BY <1>15 DEF IInv, TypeOK, Labels, Stops, Owns, OwnsFiles, OwnsDelims, OwnsData,
        OwnsTemplate, WasCut, Names, Delims, StartTemplate, Goto, Block, options
<1>16. CASE TemplateChar
    BY <1>16 DEF IInv, TypeOK, Labels, Stops, Owns, OwnsFiles, OwnsDelims, OwnsData,
        OwnsTemplate, WasCut, Names, Delims, Block, TemplateChar, IsFull, IsTooLarge,
        Stored, Goto, options
<1>17. CASE TooLarge
    BY <1>17 DEF IInv, TypeOK, Labels, Stops, Owns, OwnsFiles, OwnsDelims, OwnsData,
        OwnsTemplate, WasCut, Names, Delims, Block, TooLarge, IsFull, IsTooLarge, Goto,
        options, buffer
<1>18. CASE TemplateEnd
    BY <1>18 DEF IInv, TypeOK, Labels, Stops, Owns, OwnsFiles, OwnsDelims, OwnsData,
        OwnsTemplate, WasCut, Names, Delims, Block, TemplateEnd, Goto, options, buffer
<1>19. CASE Lex
    BY <1>19 DEF IInv, TypeOK, Labels, Stops, Owns, OwnsFiles, OwnsDelims, OwnsData,
        OwnsTemplate, WasCut, Names, Delims, Lex, Goto, Block, options, buffer
<1>20. CASE ParseTemplate
    BY <1>20 DEF IInv, TypeOK, Labels, Stops, Owns, OwnsFiles, OwnsDelims, OwnsData,
        OwnsTemplate, WasCut, Names, Delims, ParseTemplate, Goto, Block, options, buffer
<1>21. CASE Render
    BY <1>21 DEF IInv, TypeOK, Labels, Stops, Owns, OwnsFiles, OwnsDelims, OwnsData,
        OwnsTemplate, WasCut, Names, Delims, Block, Render, DataDestroyed, Release, Goto, options, buffer
<1>22. CASE ReleaseTemplate
    BY <1>22 DEF IInv, TypeOK, Labels, Stops, Owns, OwnsFiles, OwnsDelims, OwnsData,
        OwnsTemplate, WasCut, Names, Delims, ReleaseTemplate, Release, Goto, Block,
        options, buffer
<1>23. CASE Cleanup
    BY <1>23 DEF IInv, TypeOK, Labels, Stops, Owns, OwnsFiles, OwnsDelims, OwnsData,
        OwnsTemplate, WasCut, Names, Delims, Block, Cleanup, Release, Owned, Goto,
        options, buffer
<1>24. CASE Stopped
    BY <1>24 DEF IInv, TypeOK, Labels, Stops, Owns, OwnsFiles, OwnsDelims, OwnsData,
        OwnsTemplate, WasCut, Names, Delims, Block, Stopped, vars
<1>25. CASE UNCHANGED vars
    BY <1>25 DEF IInv, TypeOK, Labels, Stops, Owns, OwnsFiles, OwnsDelims, OwnsData,
        OwnsTemplate, WasCut, Names, Delims, Block, vars
<1>26. QED
    BY <1>1, <1>2, <1>3, <1>4, <1>5, <1>6, <1>7, <1>8, <1>9, <1>10, <1>11, <1>12, <1>13,
        <1>14, <1>15, <1>16, <1>17, <1>18, <1>19, <1>20, <1>21, <1>22, <1>23, <1>24,
        <1>25 DEF Next

\* What cleanup is to free is held, by Owns, but for data that has been destroyed.
LEMMA OwnedAreHeld ==
    TypeOK /\ Owns /\ ~WasCut /\ pc = "cleanup" =>
        Owned \ held = IF destroyed THEN {ptr["data"]} ELSE {}
<1> SUFFICES ASSUME TypeOK, Owns, ~WasCut, pc = "cleanup"
             PROVE  Owned \ held = IF destroyed THEN {ptr["data"]} ELSE {}
    OBVIOUS
<1>1. OwnsFiles /\ OwnsDelims /\ OwnsData
    BY DEF Owns, Stops
<1>2. \A b \in Owned : b \in held \/ (b = ptr["data"] /\ ptr["data"] # NONE)
    BY <1>1 DEF Owned, OwnsFiles, OwnsDelims, Names
<1>3. CASE destroyed
    <2>1. ptr["data"] \in ({"data"} \X Nat) \ held /\ ptr["data"] # NONE
        BY <1>1, <1>3, NoneAssumption DEF OwnsData, Kinds, Names
    <2>2. ptr["data"] \in Owned
        BY <2>1 DEF Owned, Names, Delims
    <2>3. QED
        BY <1>2, <1>3, <2>1, <2>2
<1>4. CASE ~destroyed
    <2>1. ptr["data"] = NONE \/ ptr["data"] \in held
        BY <1>1, <1>4 DEF OwnsData
    <2>2. QED
        BY <1>2, <1>4, <2>1
<1>5. QED
    BY <1>3, <1>4

\* Render, ReleaseTemplate and Cleanup release; the last of them only goes wrong
\* where the first has destroyed the data.
LEMMA FreesStep == IInv /\ [Next]_vars => FreesWhatItHolds'
<1> SUFFICES ASSUME IInv, [Next]_vars PROVE FreesWhatItHolds'
    OBVIOUS
<1>1. ~WasCut' /\ pc' = "cleanup" => (Owned \ held = IF destroyed THEN {ptr["data"]} ELSE {})'
    <2>1. TypeOK' /\ Owns'
        BY TypeStep, OwnsStep
    <2>2. (TypeOK /\ Owns /\ ~WasCut /\ pc = "cleanup" =>
              Owned \ held = IF destroyed THEN {ptr["data"]} ELSE {})'
        BY OwnedAreHeld, PTL
    <2>3. QED
        BY <2>1, <2>2
<1>2. ASSUME ~WasCut', pc' = "undefined" PROVE destroyed'
    <2>1. CASE Render
        BY <1>2, <2>1 DEF Render, DataDestroyed, Goto
    <2>2. CASE ReleaseTemplate
        <3>1. Block("in_buf") \in held /\ Block("tokens") \in held
            BY <2>2 DEF ReleaseTemplate, IInv, Owns, OwnsTemplate, Stops
        <3>2. QED
            BY <1>2, <2>2, <3>1 DEF ReleaseTemplate, Release, Goto
    <2>3. CASE Cleanup
        <3>1. pc = "cleanup" /\ UNCHANGED <<ptr, optind, destroyed>> /\ ~(Owned \subseteq held)
            BY <1>2, <2>3 DEF Cleanup, Release, Goto
        <3>2. ~WasCut
            BY <1>2, <3>1 DEF WasCut, Block
        <3>3. QED
            BY <3>1, <3>2 DEF IInv, FreesWhatItHolds
    <2>4. CASE Stopped \/ UNCHANGED vars
        <3>1. UNCHANGED <<ptr, optind, destroyed, pc>>
            BY <2>4 DEF Stopped, vars
        <3>2. QED
            BY <1>2, <3>1 DEF IInv, FreesWhatItHolds, WasCut, Block
    <2>5. CASE JsonChar \/ JsonEnd \/ TemplateChar \/ TemplateEnd
        BY <1>2, <2>5
        DEF JsonChar, JsonEnd, TemplateChar, TemplateEnd, strbuf_append_char, Stored, Goto
    <2>6. QED
        BY <1>2, <2>1, <2>2, <2>3, <2>4, <2>5
        DEF Next, Delimiter, Escaping, InFile, OutFile, OpenFile, DataFile, Flag, Version,
            BadOption, EndOfOptions, ReadYaml, HasData, CutData, NoData, Dies, OpenJson, ParseJson,
            StartTemplate, TooLarge, Lex, ParseTemplate, Goto, Exit
<1>3. QED
    BY <1>1, <1>2 DEF FreesWhatItHolds

-----------------------------------------------------------------------------
\* IInv is inductive.
LEMMA Initial == Init => IInv
<1> SUFFICES ASSUME Init PROVE IInv
    OBVIOUS
<1>1. TypeOK
    BY DelimsAssumption DEF Init, TypeOK, Default, Delims
<1>2. Owns
    BY DEF Init, Owns, OwnsFiles, OwnsDelims, OwnsData, OwnsTemplate, Stops, Names, Delims
<1>3. QED
    BY <1>1, <1>2 DEF Init, IInv, Labels, HasRoom, FreesWhatItHolds

\* One lemma for each conjunct.
LEMMA Step == IInv /\ [Next]_vars => IInv'
    BY TypeStep, RoomStep, OwnsStep, FreesStep DEF IInv

\* IInv holds always.
LEMMA Invariance == Spec => []IInv
    BY Initial, Step, PTL DEF Spec

(***************************************************************************)
(* The command's variables keep their types, for every command line.       *)
(***************************************************************************)
THEOREM TypeCorrect == Spec => []TypeOK
<1>1. IInv => TypeOK
    BY DEF IInv
<1>2. QED
    BY <1>1, Invariance, PTL

(***************************************************************************)
(* Whatever the sizes that they begin with, neither the buffer for the     *)
(* JSON file nor the one for the template is written beyond its end, and   *)
(* the latter stays below its maximum.                                     *)
(***************************************************************************)
THEOREM BuffersSafe == Spec => []StaysInBuffer
<1>1. IInv => StaysInBuffer
    BY DEF IInv, TypeOK, Labels, HasRoom, StaysInBuffer
<1>2. QED
    BY <1>1, Invariance, PTL

(***************************************************************************)
(* Whatever the command line, cleanup frees and closes only what is held,  *)
(* and each of it once, but for the data where the renderer has destroyed  *)
(* it because a section was left open: then it frees exactly that again.   *)
(***************************************************************************)
THEOREM FreesOnlyHeld == Spec => []FreesWhatItHolds
<1>1. IInv => FreesWhatItHolds
    BY DEF IInv
<1>2. QED
    BY <1>1, Invariance, PTL
-----------------------------------------------------------------------------
\* What the readers and the template have obtained for a while.
Temporary(label) ==
    CASE label \in {"options", "yaml", "json"} -> {}
      [] label = "read_json" -> {"fp", "strbuf"}
      [] label \in {"parse_json", "data", "cleanup"} -> {"fp", "parser", "json"}
      [] OTHER -> {"fp", "parser", "json", "in_buf", "tokens", "rules"}

\* An option that is done with has made the name a block.
MadeBy(n, k) == k \in DOMAIN argv /\ k < optind /\ n \in Makes(argv[k])

\* A name points to the last of the blocks that were made for it.
PointsToLast ==
    \A n \in Names, k \in DOMAIN argv : MadeBy(n, k) =>
        /\ \E j \in DOMAIN argv : MadeBy(n, j) /\ j >= k /\ ptr[n] = <<n, j>>
        /\ n \in Delims => delim[n] # Default[n]

NoDataYet ==
    pc \in {"options", "yaml", "json", "read_json", "parse_json"} => ptr["data"] = NONE

\* What is held was made by an option, is the data, or is there for a while.
HeldForReason ==
    WasCut \/ \A b \in held :
        \/ b[1] \in Names /\ MadeBy(b[1], b[2])
        \/ b = Block("data") /\ ptr["data"] = b
        \/ \E n \in Temporary(pc) : b = Block(n)

Keeps == pc \notin Stops => PointsToLast /\ NoDataYet /\ HeldForReason

\* A JSON file that has given data has been closed.
FileClosed == pc \notin Stops /\ ptr["data"] # NONE => Block("fp") \notin held

\* What an option makes a block of.
LEMMA MakesOf ==
    ASSUME NEW o
    PROVE  /\ o.opt = "d" => Makes(o) = IF o.arg # DELIM_BEGIN THEN {"delim_begin"} ELSE {}
           /\ o.opt = "D" => Makes(o) = IF o.arg # DELIM_END THEN {"delim_end"} ELSE {}
           /\ o.opt = "i" => Makes(o) = {"in_file_name", "in_fp"}
           /\ o.opt = "o" => Makes(o) = {"out_file_name", "out_fp"}
           /\ o.opt = "y" => Makes(o) = {"yaml_file_name"}
           /\ o.opt = "j" => Makes(o) = {"json_file_name"}
           /\ o.opt \notin {"d", "D", "i", "o", "y", "j"} => Makes(o) = {}
    BY DEF Makes

\* An option that obtains what it makes keeps the books.
LEMMA OptionStep ==
    ASSUME IInv, Keeps, pc = "options", optind \in DOMAIN argv, pc' \in Stops \cup {"options"},
           UNCHANGED argv, optind' = optind + 1,
           NEW names \in SUBSET (Names \ {"data"}), names = Makes(argv[optind]),
           \A n \in Names : ptr'[n] = IF n \in names THEN Block(n) ELSE ptr[n],
           held' \subseteq held \cup {Block(n) : n \in names},
           \A n \in Delims : IF n \in names THEN delim'[n] # Default[n] ELSE delim'[n] = delim[n]
    PROVE  Keeps'
<1>1. SUFFICES ASSUME pc' = "options" PROVE (PointsToLast /\ NoDataYet /\ HeldForReason)'
    BY DEF Keeps
<1>2. PointsToLast /\ NoDataYet /\ HeldForReason /\ pc \notin Stops
    BY DEF Keeps, Stops
<1>3. optind \in Nat /\ DOMAIN argv \subseteq Nat
    <2>1. argv \in Seq([opt : STRING, arg : STRING])
        BY ArgvsAssumption DEF IInv, TypeOK
    <2>2. \A s \in Seq([opt : STRING, arg : STRING]) : DOMAIN s \subseteq Nat
        OBVIOUS
    <2>3. QED
        BY <2>1, <2>2 DEF IInv, TypeOK
<1>4. \A n, k : MadeBy(n, k)' <=> MadeBy(n, k) \/ (k = optind /\ n \in names)
    BY <1>3 DEF MadeBy
<1>5. PointsToLast'
    <2> SUFFICES ASSUME NEW n \in Names, NEW k \in DOMAIN argv, MadeBy(n, k)'
                 PROVE  /\ \E j \in DOMAIN argv : MadeBy(n, j)' /\ j >= k /\ ptr'[n] = <<n, j>>
                        /\ n \in Delims => delim'[n] # Default[n]
        BY DEF PointsToLast
    <2>1. CASE n \in names
        <3>1. PICK j \in DOMAIN argv : j = optind
            OBVIOUS
        <3>2. MadeBy(n, j)' /\ ptr'[n] = <<n, j>>
            BY <1>4, <2>1, <3>1 DEF Block
        <3>3. k \in Nat /\ k <= j
            BY <1>3, <3>1 DEF MadeBy
        <3>4. delim'[n] # Default[n] \/ n \notin Delims
            BY <2>1
        <3>5. QED
            BY <1>3, <3>1, <3>2, <3>3, <3>4
    <2>2. CASE n \notin names
        <3>1. MadeBy(n, k)
            BY <1>4, <2>2
        <3>2. PICK j \in DOMAIN argv : MadeBy(n, j) /\ j >= k /\ ptr[n] = <<n, j>>
            BY <1>2, <3>1 DEF PointsToLast
        <3>3. n \in Delims => delim[n] # Default[n]
            BY <1>2, <3>1 DEF PointsToLast
        <3>4. MadeBy(n, j)' /\ ptr'[n] = <<n, j>>
            BY <1>4, <2>2, <3>2
        <3>5. QED
            BY <2>2, <3>2, <3>3, <3>4
    <2>3. QED
        BY <2>1, <2>2
<1>6. ptr["data"] = NONE /\ ptr'["data"] = NONE
    BY <1>2 DEF NoDataYet, Names
<1>7. ~WasCut
    BY <1>6, NoneAssumption, BlockType DEF WasCut, IInv, Kinds
<1>8. HeldForReason'
    <2> SUFFICES ASSUME NEW b \in held' PROVE b[1] \in Names /\ MadeBy(b[1], b[2])'
        BY DEF HeldForReason
    <2>1. CASE b \in held
        <3>1. b # NONE
            BY <2>1, NoneAssumption DEF IInv, TypeOK
        <3>2. Temporary(pc) = {}
            BY DEF Temporary
        <3>3. b[1] \in Names /\ MadeBy(b[1], b[2])
            BY <1>2, <1>6, <1>7, <2>1, <3>1, <3>2 DEF HeldForReason
        <3>4. QED
            BY <1>4, <3>3
    <2>2. CASE b \in {Block(n) : n \in names}
        BY <1>4, <2>2 DEF Block
    <2>3. QED
        BY <2>1, <2>2
<1>9. NoDataYet'
    BY <1>6 DEF NoDataYet
<1>10. QED
    BY <1>5, <1>8, <1>9

\* After the options, the names that they made stay as they are.
LEMMA LaterStep ==
    ASSUME PointsToLast, UNCHANGED <<argv, optind, delim>>,
           \A n \in Names \ {"data"} : ptr'[n] = ptr[n]
    PROVE  /\ \A n, k : MadeBy(n, k)' <=> MadeBy(n, k)
           /\ PointsToLast'
<1>1. \A n, k : MadeBy(n, k)' <=> MadeBy(n, k)
    BY DEF MadeBy
<1>2. \A n, k : MadeBy(n, k) => n # "data"
    BY DEF MadeBy, Makes
<1>3. PointsToLast'
    <2> SUFFICES ASSUME NEW n \in Names, NEW k \in DOMAIN argv, MadeBy(n, k)'
                 PROVE  /\ \E j \in DOMAIN argv : MadeBy(n, j)' /\ j >= k /\ ptr'[n] = <<n, j>>
                        /\ n \in Delims => delim'[n] # Default[n]
        BY DEF PointsToLast
    <2>1. MadeBy(n, k) /\ ptr'[n] = ptr[n] /\ delim' = delim
        BY <1>1, <1>2
    <2>2. PICK j \in DOMAIN argv : MadeBy(n, j) /\ j >= k /\ ptr[n] = <<n, j>>
        BY <2>1 DEF PointsToLast
    <2>3. n \in Delims => delim[n] # Default[n]
        BY <2>1 DEF PointsToLast
    <2>4. QED
        BY <1>1, <2>1, <2>2, <2>3
<1>4. QED
    BY <1>1, <1>3

\* So does a step after the options that adds what is there for a while, or the data.
LEMMA WorkStep ==
    ASSUME IInv, Keeps, pc \notin Stops, UNCHANGED <<argv, optind, delim>>,
           \A n \in Names \ {"data"} : ptr'[n] = ptr[n],
           ptr["data"] = NONE \/ ptr'["data"] = ptr["data"],
           NoDataYet',
           WasCut => WasCut',
           WasCut' \/ \A b \in held' :
               \/ b \in held /\ \A n \in Temporary(pc) \ Temporary(pc') : b # Block(n)
               \/ b = Block("data") /\ ptr'["data"] = b
               \/ \E n \in Temporary(pc') : b = Block(n)
    PROVE  Keeps'
<1>1. PointsToLast /\ HeldForReason
    BY DEF Keeps
<1>2. PointsToLast' /\ \A n, k : MadeBy(n, k)' <=> MadeBy(n, k)
    BY <1>1, LaterStep
<1>3. \A n : Block(n)' = Block(n)
    BY DEF Block
<1>4. HeldForReason'
    <2>1. SUFFICES ASSUME ~WasCut', NEW b \in held'
                   PROVE  \/ b[1] \in Names /\ MadeBy(b[1], b[2])
                          \/ b = Block("data") /\ ptr'["data"] = b
                          \/ \E n \in Temporary(pc') : b = Block(n)
        BY <1>2, <1>3 DEF HeldForReason
    <2>2. CASE b \in held /\ \A n \in Temporary(pc) \ Temporary(pc') : b # Block(n)
        <3>1. \/ b[1] \in Names /\ MadeBy(b[1], b[2])
              \/ b = Block("data") /\ ptr["data"] = b
              \/ \E n \in Temporary(pc) : b = Block(n)
            BY <1>1, <2>1, <2>2 DEF HeldForReason
        <3>2. b # NONE
            BY <2>2, NoneAssumption DEF IInv, TypeOK
        <3>3. QED
            BY <2>2, <3>1, <3>2
    <2>3. QED
        BY <2>1, <2>2
<1>5. QED
    BY <1>2, <1>4 DEF Keeps

\* Every step before a stop keeps the books of what is held.
LEMMA KeepsStep == IInv /\ Keeps /\ [Next]_vars => Keeps'
<1> SUFFICES ASSUME IInv, Keeps, [Next]_vars PROVE Keeps'
    OBVIOUS
<1>0. /\ pc \notin Stops => PointsToLast /\ NoDataYet /\ HeldForReason
      /\ ptr["data"] = NONE => ~WasCut
      /\ {"options", "yaml", "json", "read_json", "parse_json"} \cap Stops = {}
    BY NoneAssumption, BlockType DEF Keeps, WasCut, Stops, IInv, Kinds
<1>1. CASE Delimiter
    <2>1. CASE Given("d") /\ SetDelim("delim_begin")
        <3> DEFINE names == IF Arg # DELIM_BEGIN THEN {"delim_begin"} ELSE {}
        <3>1. Default["delim_begin"] = DELIM_BEGIN
            BY DEF Default, Delims
        <3>2. names = Makes(argv[optind])
            BY <2>1, MakesOf DEF Given, Arg
        <3>3. \A n \in Names : ptr'[n] = IF n \in names THEN Block(n) ELSE ptr[n]
            BY <2>1, <3>1 DEF SetDelim, Obtain, ObtainNothing
        <3>4. held' \subseteq held \cup {Block(n) : n \in names}
            BY <2>1, <3>1 DEF SetDelim, Obtain, ObtainNothing
        <3>5. \A n \in Delims : IF n \in names THEN delim'[n] # Default[n] ELSE delim'[n] = delim[n]
            BY <2>1, <3>1 DEF SetDelim, Delims, IInv, TypeOK
        <3>6. names \in SUBSET (Names \ {"data"})
            BY DEF Names, Delims
        <3> HIDE DEF names
        <3>7. QED
            BY <1>1, <2>1, <3>2, <3>3, <3>4, <3>5, <3>6, OptionStep
            DEF Delimiter, Given, NextOption, Goto
    <2>2. CASE Given("D") /\ SetDelim("delim_end")
        <3> DEFINE names == IF Arg # DELIM_END THEN {"delim_end"} ELSE {}
        <3>1. Default["delim_end"] = DELIM_END
            BY DEF Default, Delims
        <3>2. names = Makes(argv[optind])
            BY <2>2, MakesOf DEF Given, Arg
        <3>3. \A n \in Names : ptr'[n] = IF n \in names THEN Block(n) ELSE ptr[n]
            BY <2>2, <3>1 DEF SetDelim, Obtain, ObtainNothing
        <3>4. held' \subseteq held \cup {Block(n) : n \in names}
            BY <2>2, <3>1 DEF SetDelim, Obtain, ObtainNothing
        <3>5. \A n \in Delims : IF n \in names THEN delim'[n] # Default[n] ELSE delim'[n] = delim[n]
            BY <2>2, <3>1 DEF SetDelim, Delims, IInv, TypeOK
        <3>6. names \in SUBSET (Names \ {"data"})
            BY DEF Names, Delims
        <3> HIDE DEF names
        <3>7. QED
            BY <1>1, <2>2, <3>2, <3>3, <3>4, <3>5, <3>6, OptionStep
            DEF Delimiter, Given, NextOption, Goto
    <2>3. QED
        BY <1>1, <2>1, <2>2 DEF Delimiter
<1>2. CASE Escaping \/ Flag \/ Version \/ BadOption
    <2>1. argv[optind].opt \in {"e", "h", "p", "t", "V", "?"} /\ optind \in DOMAIN argv /\ pc = "options"
        BY <1>2 DEF Escaping, Flag, Version, BadOption, Given
    <2>2. Makes(argv[optind]) = {}
        BY <2>1, MakesOf
    <2>3. UNCHANGED <<argv, delim, ptr, held>> /\ optind' = optind + 1 /\ pc' \in Stops \cup {"options"}
        BY <1>2 DEF Escaping, Flag, Version, BadOption, NextOption, ObtainNothing, Goto, Exit, Stops
    <2>4. QED
        BY <2>1, <2>2, <2>3, OptionStep
<1>3. CASE InFile
    <2>1. CASE Obtain({"in_file_name", "in_fp"})
        <3> DEFINE names == {"in_file_name", "in_fp"}
        <3>1. names = Makes(argv[optind]) /\ names \in SUBSET (Names \ {"data"})
            BY <1>3, MakesOf DEF InFile, OpenFile, Given, Names
        <3>2. \A n \in Delims : n \notin names /\ delim'[n] = delim[n]
            BY <1>3 DEF InFile, OpenFile, Delims
        <3>3. pc' \in Stops \cup {"options"}
            BY <1>3 DEF InFile, OpenFile, Goto, Exit, Stops
        <3>4. /\ \A n \in Names : ptr'[n] = IF n \in names THEN Block(n) ELSE ptr[n]
              /\ held' \subseteq held \cup {Block(n) : n \in names}
            BY <2>1 DEF Obtain
        <3> HIDE DEF names
        <3>5. QED
            BY <1>3, <3>1, <3>2, <3>3, <3>4, OptionStep DEF InFile, OpenFile, Given, NextOption
    <2>2. CASE pc' = "exited"
        BY <2>2 DEF Keeps, Stops
    <2>3. QED
        BY <1>3, <2>1, <2>2 DEF InFile, OpenFile, Exit
<1>4. CASE OutFile
    <2>1. CASE Obtain({"out_file_name", "out_fp"})
        <3> DEFINE names == {"out_file_name", "out_fp"}
        <3>1. names = Makes(argv[optind]) /\ names \in SUBSET (Names \ {"data"})
            BY <1>4, MakesOf DEF OutFile, OpenFile, Given, Names
        <3>2. \A n \in Delims : n \notin names /\ delim'[n] = delim[n]
            BY <1>4 DEF OutFile, OpenFile, Delims
        <3>3. pc' \in Stops \cup {"options"}
            BY <1>4 DEF OutFile, OpenFile, Goto, Exit, Stops
        <3>4. /\ \A n \in Names : ptr'[n] = IF n \in names THEN Block(n) ELSE ptr[n]
              /\ held' \subseteq held \cup {Block(n) : n \in names}
            BY <2>1 DEF Obtain
        <3> HIDE DEF names
        <3>5. QED
            BY <1>4, <3>1, <3>2, <3>3, <3>4, OptionStep DEF OutFile, OpenFile, Given, NextOption
    <2>2. CASE pc' = "exited"
        BY <2>2 DEF Keeps, Stops
    <2>3. QED
        BY <1>4, <2>1, <2>2 DEF OutFile, OpenFile, Exit
<1>5. CASE DataFile
    <2>1. PICK name \in {"json_file_name", "yaml_file_name"} :
              Obtain({name}) /\ Makes(argv[optind]) = {name}
        BY <1>5, MakesOf DEF DataFile, Given
    <2> DEFINE names == {name}
    <2>2. names = Makes(argv[optind]) /\ names \in SUBSET (Names \ {"data"})
        BY <2>1 DEF Names
    <2>3. \A n \in Delims : n \notin names /\ delim'[n] = delim[n]
        BY <1>5 DEF DataFile, Delims
    <2>4. /\ \A n \in Names : ptr'[n] = IF n \in names THEN Block(n) ELSE ptr[n]
          /\ held' \subseteq held \cup {Block(n) : n \in names}
        BY <2>1 DEF Obtain
    <2> HIDE DEF names
    <2>5. QED
        BY <1>5, <2>2, <2>3, <2>4, OptionStep DEF DataFile, Given, NextOption, Goto
<1>6. CASE EndOfOptions
    BY <1>6, <1>0, WorkStep DEF EndOfOptions, Temporary, NoDataYet, options, Goto
<1>7. CASE ReadYaml
    <2>0. ptr["data"] = NONE /\ ~WasCut /\ Temporary(pc) = {}
        BY <1>7, <1>0 DEF ReadYaml, Temporary, NoDataYet
    <2>1. CASE HasData
        <3>1. ptr'["data"] = Block("data") /\ held' = held \cup {Block("data")} /\ pc' = "data"
            BY <2>1 DEF HasData, Obtain, Goto, Names
        <3>2. \A n \in Names \ {"data"} : ptr'[n] = ptr[n]
            BY <2>1 DEF HasData, Obtain
        <3>3. QED
            BY <1>7, <1>0, <2>0, <3>1, <3>2, WorkStep DEF ReadYaml, NoDataYet, options
    <2>2. CASE CutData
        <3>1. PICK part \in {"data", "child", "element"} :
                  /\ ptr' = [ptr EXCEPT !["data"] = Block(part)]
                  /\ held' = held \cup {Block(n) : n \in {"data", part} \ {"element"}}
            BY <2>2 DEF CutData
        <3>2. ptr'["data"] = Block(part) /\ \A n \in Names \ {"data"} : ptr'[n] = ptr[n]
            BY <3>1 DEF IInv, TypeOK, Names
        <3>3. WasCut' \/ (part = "data" /\ held' = held \cup {Block("data")})
            <4>1. CASE part = "data"
                <5>1. {"data", part} \ {"element"} = {"data"}
                    BY <4>1
                <5>2. QED
                    BY <3>1, <4>1, <5>1
            <4>2. CASE part # "data"
                BY <1>7, <3>2, <4>2 DEF WasCut, Block, ReadYaml
            <4>3. QED
                BY <4>1, <4>2
        <3>4. NoDataYet'
            BY <2>2 DEF CutData, Goto, NoDataYet
        <3>5. \A b \in held' : WasCut' \/ b \in held \/ (b = Block("data") /\ ptr'["data"] = b)
            BY <3>2, <3>3
        <3>6. pc \notin Stops /\ UNCHANGED <<argv, optind, delim>>
            BY <1>7 DEF ReadYaml, options, Stops
        <3>7. QED
            BY <2>0, <3>2, <3>4, <3>5, <3>6, WorkStep
    <2>3. CASE NoData /\ UNCHANGED held
        BY <1>7, <1>0, <2>0, <2>3, WorkStep DEF ReadYaml, NoData, Goto, NoDataYet, options
    <2>4. CASE Dies
        BY <2>4 DEF Dies, Goto, Keeps, Stops
    <2>5. QED
        BY <1>7, <2>1, <2>2, <2>3, <2>4 DEF ReadYaml
<1>8. CASE OpenJson
    <2>0. ptr["data"] = NONE /\ ~WasCut /\ Temporary(pc) = {}
        BY <1>8, <1>0 DEF OpenJson, Temporary, NoDataYet
    <2>1. CASE NoData /\ UNCHANGED <<held, buffer>>
        BY <1>8, <1>0, <2>0, <2>1, WorkStep DEF OpenJson, NoData, Goto, NoDataYet, options
    <2>2. CASE held' = held \cup {Block("fp"), Block("strbuf")} /\ pc' = "read_json" /\ UNCHANGED ptr
        <3>1. Temporary(pc') = {"fp", "strbuf"}
            BY <2>2 DEF Temporary
        <3>2. QED
            BY <1>8, <1>0, <2>0, <2>2, <3>1, WorkStep DEF OpenJson, NoDataYet, options
    <2>3. QED
        BY <1>8, <2>1, <2>2 DEF OpenJson, Goto
<1>9. CASE JsonChar
    <2>1. pc = "read_json" /\ pc' = "read_json" /\ UNCHANGED <<argv, optind, delim, ptr, held>>
        BY <1>9, RoomStep DEF JsonChar, strbuf_append_char, Stored, Goto, options, Next, Labels
    <2>2. Temporary(pc) = Temporary(pc') /\ (NoDataYet' <=> NoDataYet) /\ (WasCut' <=> WasCut)
        BY <2>1 DEF Temporary, NoDataYet, WasCut, Block
    <2>3. QED
        BY <1>0, <2>1, <2>2, WorkStep
<1>10. CASE JsonEnd
    <2>1. ptr["data"] = NONE /\ ~WasCut /\ Temporary(pc) = {"fp", "strbuf"}
        BY <1>10, <1>0 DEF JsonEnd, Temporary, NoDataYet
    <2>2. pc' = "parse_json"
        BY <1>10, RoomStep DEF JsonEnd, strbuf_append_char, Stored, Goto, Next, Labels
    <2>3. Temporary(pc') = {"fp", "parser", "json"}
        BY <2>2 DEF Temporary
    <2>4. QED
        BY <1>10, <1>0, <2>1, <2>2, <2>3, WorkStep DEF JsonEnd, NoDataYet, options
<1>11. CASE ParseJson
    <2>0. ptr["data"] = NONE /\ ~WasCut /\ Temporary(pc) = {"fp", "parser", "json"}
        BY <1>11, <1>0 DEF ParseJson, Temporary, NoDataYet
    <2>1. CASE /\ ptr' = [ptr EXCEPT !["data"] = Block("data")]
               /\ held' = (held \ {Block("fp")}) \cup {Block("data")}
               /\ pc' = "data"
        <3>1. ptr'["data"] = Block("data") /\ \A n \in Names \ {"data"} : ptr'[n] = ptr[n]
            BY <2>1 DEF IInv, TypeOK, Names
        <3>2. Temporary(pc') = {"fp", "parser", "json"}
            BY <2>1 DEF Temporary
        <3>3. QED
            BY <1>11, <1>0, <2>0, <2>1, <3>1, <3>2, WorkStep DEF ParseJson, NoDataYet, options
    <2>2. CASE NoData /\ held' \in {held, held \ {Block("fp")}}
        <3>1. Temporary(pc') = {"fp", "parser", "json"}
            BY <2>2 DEF Temporary, NoData, Goto
        <3>2. QED
            BY <1>11, <1>0, <2>0, <2>2, <3>1, WorkStep DEF ParseJson, NoData, Goto, NoDataYet, options
    <2>3. CASE Dies
        BY <2>3 DEF Dies, Goto, Keeps, Stops
    <2>4. QED
        BY <1>11, <2>1, <2>2, <2>3 DEF ParseJson, Goto
<1>12. CASE StartTemplate \/ TemplateChar \/ TemplateEnd \/ Lex \/ ParseTemplate
    <2>1. /\ pc' \in {"read_template", "lex", "parse", "render", "release"}
          /\ UNCHANGED <<argv, optind, delim, ptr>>
          /\ held' \subseteq held \cup {Block("in_buf"), Block("tokens"), Block("rules")}
        BY <1>12, RoomStep
        DEF StartTemplate, TemplateChar, TemplateEnd, Lex, ParseTemplate, Stored, Goto, options,
            Next, Labels
    <2>2. Temporary(pc') = {"fp", "parser", "json", "in_buf", "tokens", "rules"}
        BY <2>1 DEF Temporary
    <2>3. Temporary(pc) \subseteq Temporary(pc')
        <3>1. pc \in {"data", "read_template", "lex", "parse"}
            BY <1>12 DEF StartTemplate, TemplateChar, TemplateEnd, Lex, ParseTemplate
        <3>2. QED
            BY <2>2, <3>1 DEF Temporary
    <2>4. pc \notin Stops
        BY <1>12 DEF StartTemplate, TemplateChar, TemplateEnd, Lex, ParseTemplate, Stops
    <2>5. NoDataYet' /\ (WasCut' <=> WasCut)
        BY <2>1 DEF NoDataYet, WasCut, Block
    <2>6. QED
        BY <1>0, <2>1, <2>2, <2>3, <2>4, <2>5, WorkStep
<1>13. CASE Render
    <2>1. CASE pc' = "release"
        <3>1. pc = "render" /\ UNCHANGED <<argv, optind, delim, ptr>> /\ held' \subseteq held
            BY <1>13 DEF Render, DataDestroyed, Release, options
        <3>2. Temporary(pc) = Temporary(pc') /\ NoDataYet' /\ (WasCut' <=> WasCut)
            BY <2>1, <3>1 DEF Temporary, NoDataYet, WasCut, Block
        <3>3. QED
            BY <3>1, <3>2, WorkStep DEF Stops
    <2>2. QED
        BY <1>13, <2>1 DEF Render, DataDestroyed, Release, Goto, Keeps, Stops
<1>14. CASE TooLarge
    BY <1>14 DEF TooLarge, Goto, Keeps, Stops
<1>15. CASE ReleaseTemplate
    <2>1. CASE pc' = "cleanup"
        <3>1. /\ Temporary(pc) = {"fp", "parser", "json", "in_buf", "tokens", "rules"}
              /\ Temporary(pc') = {"fp", "parser", "json"}
            BY <1>15, <2>1 DEF ReleaseTemplate, Temporary
        <3>2. \A b \in held' :
                  b \in held /\ \A n \in {"in_buf", "tokens", "rules"} : b # Block(n)
            BY <1>15 DEF ReleaseTemplate, Release
        <3>3. UNCHANGED <<argv, optind, delim, ptr>> /\ NoDataYet'
            BY <1>15, <2>1 DEF ReleaseTemplate, options, NoDataYet
        <3>4. WasCut' <=> WasCut
            BY <3>3 DEF WasCut, Block
        <3>5. pc \notin Stops
            BY <1>15 DEF ReleaseTemplate, Stops
        <3>6. QED
            BY <3>1, <3>2, <3>3, <3>4, <3>5, WorkStep
    <2>2. QED
        BY <1>15, <2>1 DEF ReleaseTemplate, Release, Goto, Keeps, Stops
<1>16. CASE Cleanup
    BY <1>16 DEF Cleanup, Release, Goto, Keeps, Stops
<1>17. CASE Stopped \/ UNCHANGED vars
    <2>1. UNCHANGED vars
        BY <1>17 DEF Stopped
    <2>2. UNCHANGED <<argv, optind, delim, ptr, held, pc>>
        BY <2>1 DEF vars
    <2>3. CASE pc \in Stops
        BY <2>2, <2>3 DEF Keeps
    <2>4. CASE pc \notin Stops
        BY <1>0, <2>2, <2>4, WorkStep DEF NoDataYet, WasCut, Block
    <2>5. QED
        BY <2>3, <2>4
<1>18. QED
    BY <1>1, <1>2, <1>3, <1>4, <1>5, <1>6, <1>7, <1>8, <1>9, <1>10, <1>11, <1>12, <1>13,
        <1>14, <1>15, <1>16, <1>17 DEF Next

\* There is no data before the file that it is read from has been closed, and none
\* is opened after.
LEMMA FileStep == IInv /\ Keeps /\ FileClosed /\ [Next]_vars => FileClosed'
<1> SUFFICES ASSUME IInv, Keeps, FileClosed, [Next]_vars, pc' \notin Stops, ptr'["data"] # NONE
             PROVE  Block("fp")' \notin held'
    BY DEF FileClosed
<1>1. CASE ReadYaml
    <2>1. HeldForReason /\ ~WasCut /\ ptr["data"] = NONE /\ Temporary(pc) = {}
        BY <1>1, NoneAssumption, BlockType
        DEF ReadYaml, Keeps, Stops, NoDataYet, WasCut, Temporary, IInv, Kinds
    <2>2. Block("fp") \notin held
        BY <2>1, NoneAssumption DEF HeldForReason, Block, Names, Delims, IInv, TypeOK
    <2>3. QED
        BY <1>1, <2>1, <2>2 DEF ReadYaml, HasData, CutData, NoData, Dies, ObtainNothing, Obtain, Block
<1>2. CASE OpenJson \/ JsonChar \/ JsonEnd \/ ParseJson
    <2>1. ptr["data"] = NONE
        BY <1>2 DEF OpenJson, JsonChar, JsonEnd, ParseJson, Keeps, Stops, NoDataYet
    <2>2. CASE ParseJson
        BY <2>1, <2>2 DEF ParseJson, NoData, Dies, ObtainNothing, Block
    <2>3. CASE OpenJson \/ JsonChar \/ JsonEnd
        BY <2>1, <2>3 DEF OpenJson, NoData, JsonChar, JsonEnd
    <2>4. QED
        BY <1>2, <2>2, <2>3
<1>3. CASE \/ StartTemplate \/ TemplateChar \/ TooLarge \/ TemplateEnd \/ Lex \/ ParseTemplate
           \/ Render \/ ReleaseTemplate \/ Cleanup \/ EndOfOptions
    <2>1. /\ UNCHANGED <<ptr, optind>>
          /\ held' \subseteq held \cup {Block("in_buf"), Block("tokens"), Block("rules")}
        BY <1>3 DEF StartTemplate, TemplateChar, TooLarge, TemplateEnd, Lex, ParseTemplate, Render,
            DataDestroyed, ReleaseTemplate, Cleanup, EndOfOptions, Release
    <2>2. pc \notin Stops
        BY <1>3 DEF StartTemplate, TemplateChar, TooLarge, TemplateEnd, Lex, ParseTemplate, Render,
            ReleaseTemplate, Cleanup, EndOfOptions, Stops
    <2>3. QED
        BY <2>1, <2>2 DEF FileClosed, Block
<1>4. CASE Delimiter \/ Escaping \/ InFile \/ OutFile \/ DataFile \/ Flag \/ Version \/ BadOption
    <2>1. pc = "options"
        BY <1>4 DEF Delimiter, Escaping, InFile, OutFile, OpenFile, DataFile, Flag, Version,
            BadOption, Given
    <2>2. ptr'["data"] = NONE
        BY <1>4, <2>1 DEF Keeps, Stops, NoDataYet, Delimiter, SetDelim, Escaping, InFile, OutFile,
            OpenFile, DataFile, Flag, Version, BadOption, Obtain, ObtainNothing, Names, Delims
    <2>3. QED
        BY <2>2
<1>5. CASE Stopped \/ UNCHANGED vars
    BY <1>5 DEF Stopped, vars, FileClosed, Block
<1>6. QED
    BY <1>1, <1>2, <1>3, <1>4, <1>5 DEF Next

\* Cleanup leaves nothing else: what an option made and is still held has been replaced.
LEMMA CleanupStep == IInv /\ Keeps /\ FileClosed /\ Cleanup => NothingLeaks'
<1> SUFFICES ASSUME IInv, Keeps, FileClosed, Cleanup, pc' = "returned", ~WasCut', NEW b \in held',
                    b \notin {Block(n) : n \in Kept}
             PROVE  b \in Replaced'
    BY DEF NothingLeaks, Kept, Block, Cleanup
<1>1. pc = "cleanup" /\ UNCHANGED <<argv, optind, delim, ptr>> /\ b \in held \ Owned
    BY DEF Cleanup, Release, options
<1>2. ~WasCut /\ Replaced' = Replaced
    BY <1>1 DEF WasCut, Replaced, Block
<1>3. PointsToLast /\ HeldForReason
    BY <1>1 DEF Keeps, Stops
<1>4. b # NONE
    BY <1>1, NoneAssumption DEF IInv, TypeOK
<1>5. ~(b = Block("data") /\ ptr["data"] = b)
    BY <1>1, <1>4 DEF Owned, Names, Delims
<1>6. Temporary(pc) = {"fp", "parser", "json"}
    BY <1>1 DEF Temporary
<1>7. b[1] \in Names /\ MadeBy(b[1], b[2])
    <2>1. \A n \in Temporary(pc) : b # Block(n)
        BY <1>1, <1>6 DEF FileClosed, Kept, Stops
    <2>2. QED
        BY <1>1, <1>2, <1>3, <1>5, <2>1 DEF HeldForReason
<1>8. b[2] \in DOMAIN argv
    BY <1>7 DEF MadeBy
<1>9. PICK j \in DOMAIN argv : MadeBy(b[1], j) /\ j >= b[2] /\ ptr[b[1]] = <<b[1], j>>
    BY <1>3, <1>7, <1>8 DEF PointsToLast
<1>10. b = <<b[1], b[2]>>
    BY <1>1 DEF IInv, TypeOK
<1>11. j # b[2]
    <2>1. SUFFICES ASSUME ptr[b[1]] = b PROVE FALSE
        BY <1>9, <1>10
    <2>2. b[1] \in Delims => delim[b[1]] # Default[b[1]]
        BY <1>3, <1>7, <1>8 DEF PointsToLast
    <2>3. b \in Owned
        BY <1>4, <1>7, <2>1, <2>2 DEF Owned
    <2>4. QED
        BY <1>1, <2>3
<1>12. DOMAIN argv \subseteq Nat
    <2>1. argv \in Seq([opt : STRING, arg : STRING])
        BY ArgvsAssumption DEF IInv, TypeOK
    <2>2. \A s \in Seq([opt : STRING, arg : STRING]) : DOMAIN s \subseteq Nat
        OBVIOUS
    <2>3. QED
        BY <2>1, <2>2
<1>13. j > b[2]
    BY <1>8, <1>9, <1>11, <1>12
<1>14. b[1] \in Makes(argv[b[2]]) \cap Makes(argv[j])
    BY <1>7, <1>9 DEF MadeBy
<1>15. b \in Replaced
    BY <1>7, <1>8, <1>9, <1>10, <1>13, <1>14 DEF Replaced
<1>16. QED
    BY <1>2, <1>15

\* Once main has returned, nothing changes; only Cleanup makes it return.
LEMMA LeaksStep == IInv /\ Keeps /\ FileClosed /\ NothingLeaks /\ [Next]_vars => NothingLeaks'
<1> SUFFICES ASSUME IInv, Keeps, FileClosed, NothingLeaks, [Next]_vars PROVE NothingLeaks'
    OBVIOUS
<1>1. CASE Cleanup
    BY <1>1, CleanupStep
<1>2. CASE Stopped \/ UNCHANGED vars
    <2>1. UNCHANGED <<argv, optind, ptr, held, pc>>
        BY <1>2 DEF Stopped, vars
    <2>2. QED
        BY <2>1 DEF NothingLeaks, Kept, WasCut, Replaced, Block
<1>3. CASE pc' # "returned"
    BY <1>3 DEF NothingLeaks
<1>4. QED
    BY <1>1, <1>2, <1>3
    DEF Next, Delimiter, Escaping, InFile, OutFile, OpenFile, DataFile, Flag, Version, BadOption,
        EndOfOptions, ReadYaml, HasData, CutData, NoData, Dies, OpenJson, JsonChar, JsonEnd,
        strbuf_append_char, Stored, ParseJson, StartTemplate, TemplateChar, TooLarge, TemplateEnd,
        Lex, ParseTemplate, Render, DataDestroyed, ReleaseTemplate, Release, Goto, Exit

\* The books are right at the start.
LEMMA KeepsInitial == Init => Keeps /\ FileClosed /\ NothingLeaks
<1> SUFFICES ASSUME Init PROVE Keeps /\ FileClosed /\ NothingLeaks
    OBVIOUS
<1>1. PointsToLast
    <2>1. \A k \in DOMAIN argv : ~(k < 1)
        BY ArgvsAssumption DEF Init
    <2>2. QED
        BY <2>1 DEF Init, PointsToLast, MadeBy
<1>2. QED
    BY <1>1 DEF Init, Keeps, FileClosed, NoDataYet, HeldForReason, NothingLeaks, Names

(***************************************************************************)
(* Whatever the command line, and whatever becomes of the two files, main  *)
(* returns with nothing held but what an option has replaced and what      *)
(* data_from_json keeps.                                                   *)
(***************************************************************************)
THEOREM ReleasesAll == Spec => []NothingLeaks
<1>1. IInv /\ Keeps /\ FileClosed /\ NothingLeaks /\ [Next]_vars =>
          (Keeps /\ FileClosed /\ NothingLeaks)'
    BY KeepsStep, FileStep, LeaksStep
<1>2. QED
    BY <1>1, KeepsInitial, Invariance, PTL DEF Spec
=============================================================================
