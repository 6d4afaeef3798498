------------------------------ MODULE CJSONCommon ------------------------------
(* What the printer and the parser of cjson.c have in common: a text is a C    *)
(* string, and memory comes from hooks that may have none.                     *)
EXTENDS Naturals

CONSTANT MaxFailAt    \* the last allocation that may be the one to fail

ASSUME MemoryAssumption == MaxFailAt \in Nat

\* The terminator.
NUL == "NUL"

=============================================================================
