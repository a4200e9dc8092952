------------------------------ MODULE MCParser ------------------------------
(***************************************************************************)
(* The parser on every token list of at most MaxLength tokens and EOI.     *)
(***************************************************************************)
EXTENDS Parser, SequencesExt

CONSTANT MaxLength

MCInputs == {Append(s, EOI) : s \in BoundedSeq(Terminals \ {EOI}, MaxLength)}
=============================================================================
