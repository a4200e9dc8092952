----------------------------- MODULE MCEscaping -----------------------------
(***************************************************************************)
(* Escaping short texts, also ones that look like what it writes.          *)
(***************************************************************************)
EXTENDS Escaping, SequencesExt

CONSTANTS MaxLength

MCChars == {"&", "<", ">", "a", "m", "p", "l", "t", "g", ";"} \cup Backslashed

MCStrs == BoundedSeq({"&", "<", ">", "l", "t", ";", "\\", "{"}, MaxLength)
          \cup BoundedSeq(Backslashed \cup {"a", "<", ">"}, 2)
=============================================================================
