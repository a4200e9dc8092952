------------------------------- MODULE MCYaml -------------------------------
(***************************************************************************)
(* The YAML reader on every short sequence of libyaml's events, and on     *)
(* those that it can read, against the data that they describe.            *)
(***************************************************************************)
EXTENDS YamlData

MCWords == {"true", "a"}

\* A word that is a boolean, one that is padded enough to be read beyond its
\* end, and nothing but blanks.
MCScalars == {<<"true">>, <<BLANK, "a", BLANK>>, <<BLANK>>}
=============================================================================
