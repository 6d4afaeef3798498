----------------------------- MODULE PrintBuffer -----------------------------
(* The printbuffer of cjson.c and the items that are printed into it: what the *)
(* printer works on, and what it promises of the memory. CJSONPrint is the     *)
(* printer.                                                                    *)
(*                                                                             *)
(* A string is a sequence of characters, where "control" stands for those that *)
(* have no escape of their own; a number is its digits, those of NonFinite if *)
(* it is NaN or an infinity. Items are those the interface builds: none is     *)
(* invalid, no raw item is without its text.                                   *)
EXTENDS CJSONCommon, Sequences

CONSTANTS
  Items,        \* the items to print
  Parts,        \* the items, and all that is in them
  InitialSize,  \* what print() allocates first, 256
  LLONG_MAX,    \* the largest size considered by ensure
  Sizes         \* the prebuffer and the length a caller may give

Words == {"null", "true", "false"}
NaN == <<"nan">>
NonFinite == {NaN, <<"infinity">>, <<"-", "infinity">>}

IsPart(it) ==
  /\ it.type \in Words \cup {"number", "raw", "string", "array", "object"}
  /\ it.type \in {"number", "raw"} => it.digits \in Seq(STRING)
  /\ it.type = "string" => it.text \in Seq(STRING)
  /\ it.type \in {"array", "object"} => it.kids \in Seq(Parts)
  /\ it.type = "object" => \A i \in DOMAIN it.kids : it.kids[i].key \in Seq(STRING)

ASSUME PrintAssumption ==
  /\ Items \subseteq Parts /\ \A it \in Parts : IsPart(it)
  /\ InitialSize \in Nat \ {0} /\ LLONG_MAX \in Nat /\ Sizes \subseteq Nat

VARIABLES
  item,     \* what is printed
  p,        \* the printbuffer
  call,     \* the function called, and the size its caller gave
  open,     \* the containers that are being printed, the innermost last
  ppc,      \* "idle"; "value" print_value is called; "next" the head of the loop
            \* over the children; print_value's "return" true, or "fail"; "done"
  result    \* "none" yet, "text", "NULL" (or false), or "crashed"

-----------------------------------------------------------------------------
(* Properties.                                                                 *)

\* No print function writes behind the memory it has, for any size the caller
\* gives and wherever an allocation fails, with two exceptions in ensure: after
\* realloc has failed behind the first character the text is written through
\* NULL + offset (cjson.c:390, 413), and a prebuffer of no bytes is read when it
\* is copied to a larger one (cjson.c:405). And the text that is returned ends
\* inside its memory, even if nothing is done "to be sure" (cjson.c:1069).
StaysInBounds ==
  /\ p.fault # "write"
  /\ p.fault = "wild" => p.realloc /\ p.failAt = p.allocations /\ p.offset > 0
  /\ p.fault = "read" => ~p.realloc /\ call.name = "cJSON_PrintBuffered" /\ call.size = 0
  /\ result = "text" => \E i \in DOMAIN p.mem : p.mem[i] = NUL

\* A caller that gets NULL owns nothing, and has nothing to free. Two ways to
\* lose the buffer are exceptions: a realloc that fails, and cJSON_PrintBuffered
\* giving up on a size that is too large.
NothingLeaks ==
  result = "NULL" /\ p.blocks > 0 =>
    \/ p.realloc /\ p.failAt = p.allocations
    \/ call.name = "cJSON_PrintBuffered" /\ ~p.isNULL

=============================================================================
