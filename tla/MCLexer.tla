------------------------------ MODULE MCLexer ------------------------------
(***************************************************************************)
(* The lexer with the default delimiters, on every template of at most     *)
(* MaxPieces pieces.                                                       *)
(***************************************************************************)
EXTENDS Lexer, SequencesExt

CONSTANTS MaxPieces

MCChars == {"{", "}", "#", "/", ">", "&", "a", "\n"}
MCBegin == <<"{", "{">>
MCEnd   == <<"}", "}">>

\* The delimiters, and the characters that the branches tell apart.
Pieces == {MCBegin, MCEnd} \cup {<<c>> : c \in Chars}

MCInputs == {FlattenSeq(pieces) : pieces \in BoundedSeq(Pieces, MaxPieces)}
=============================================================================
