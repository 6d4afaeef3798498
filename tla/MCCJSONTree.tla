---------------------------- MODULE MCCJSONTree ----------------------------
(* CJSONTree on a few blocks of memory.                                    *)
EXTENDS CJSONTree

\* No operator tells one block from another.
Symmetry == Permutations(Item)

=============================================================================
