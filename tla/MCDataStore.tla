---------------------------- MODULE MCDataStore ----------------------------
(***************************************************************************)
(* All sequences of calls that make at most MaxNodes nodes.  Nothing tells *)
(* the keys apart.                                                         *)
(***************************************************************************)
EXTENDS DataStore, TLC

CONSTANTS MaxNodes, j, k

MCKeys == {j, k}
MCNodeIds  == 1 .. MaxNodes
MCBlockIds == 1 .. MaxNodes + 1     \* one more for an array that moves

KeySymmetry == Permutations(MCKeys)
=============================================================================
