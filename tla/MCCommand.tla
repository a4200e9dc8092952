----------------------------- MODULE MCCommand -----------------------------
(***************************************************************************)
(* The command on all command lines of at most MaxOptions options.         *)
(***************************************************************************)
EXTENDS Command, SequencesExt

CONSTANTS MaxOptions

Option(opt, arg) == [opt |-> opt, arg |-> arg]

Options ==
    {Option("d", "{{"), Option("d", "<%"), Option("D", "}}"), Option("D", "%>"),
     Option("e", "tex"), Option("e", "other"), Option("i", "file"), Option("o", "file"),
     Option("j", "file"), Option("y", "file")}
    \cup {Option(opt, "") : opt \in {"h", "p", "t", "V", "?"}}

MCArgvs == BoundedSeq(Options, MaxOptions)
=============================================================================
