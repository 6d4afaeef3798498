---------------------------- MODULE MCCJSONText ----------------------------
(* CJSONText for TLC. Items: every kind alone, arrays and objects with up to   *)
(* two members on one level and two, and some three levels deep. Texts: all    *)
(* words of a small alphabet, the texts of the items with a character lost or  *)
(* changed or the end cut off, and spellings no printer would choose.          *)
EXTENDS CJSONText

Number == [type |-> "number", digits |-> <<"4", "2">>]
Leaves == {[type |-> "true"], [type |-> "false"], Number,
           [type |-> "raw", digits |-> <<"7">>],
           [type |-> "string", text |-> <<"a", "\"">>],
           [type |-> "string", text |-> <<"control">>],
           [type |-> "number", digits |-> NaN]}
Array(kids) == [type |-> "array", kids |-> kids]
Object(kids) == [type |-> "object",
                 kids |-> [i \in DOMAIN kids |->
                             Keyed(kids[i], IF i = 1 THEN <<"a">> ELSE <<>>)]]
Flat == {Array(<<>>), Object(<<>>)}
          \cup UNION {{Array(<<a>>), Object(<<a>>), Array(<<a, Number>>),
                       Object(<<a, [type |-> "null"]>>)} : a \in Leaves}

Special == {[type |-> "string", text |-> <<"\\", "newline", "return">>],
            [type |-> "string", text |-> <<"195", "169", "240", "144", "128", "128">>],
            [type |-> "string", text |-> <<"tab", "backspace", "formfeed">>],
            [type |-> "number", digits |-> <<"-", "1", "2", ".", "5">>],
            [type |-> "number", digits |-> <<"-", "infinity">>],
            [type |-> "object", kids |-> <<Keyed([type |-> "true"], <<"B">>)>>],
            Array(<<Object(<<Array(<<>>)>>)>>),
            [type |-> "object", kids |-> <<Keyed(Number, <<"A">>), Keyed(Array(<<>>), <<"a">>)>>]}

MCItems == Leaves \cup Flat \cup Special
             \cup UNION {{Array(<<f, Number>>), Object(<<f, f>>)} : f \in Flat}
MCParts == UNION {Within(it) : it \in MCItems}

\* The names of the bytes; 33 to 126 are the printing characters.
Printing ==
  <<"!", "\"", "#", "$", "%", "&", "'", "(", ")", "*", "+", ",", "-", ".", "/",
    "0", "1", "2", "3", "4", "5", "6", "7", "8", "9", ":", ";", "<", "=", ">", "?", "@",
    "A", "B", "C", "D", "E", "F", "G", "H", "I", "J", "K", "L", "M", "N", "O", "P", "Q",
    "R", "S", "T", "U", "V", "W", "X", "Y", "Z", "[", "\\", "]", "^", "_", "backquote",
    "a", "b", "c", "d", "e", "f", "g", "h", "i", "j", "k", "l", "m", "n", "o", "p", "q",
    "r", "s", "t", "u", "v", "w", "x", "y", "z", "{", "|", "}", "~">>
MCByteChar ==
  [b \in 0..255 |->
     CASE b = 0 -> NUL [] b = 8 -> "backspace" [] b = 9 -> "tab" [] b = 10 -> "newline"
       [] b = 12 -> "formfeed" [] b = 13 -> "return" [] b = 32 -> "space"
       [] b \in 33..126 -> Printing[b - 32]
       [] b >= 127 -> ToString(b)
       [] OTHER -> "control"]

ShortTexts == SeqOf({"[", "]", "{", ",", "\"", "\\", "1", "/", "*", "space"}, 3)

Printed == {JSON(it) : it \in Leaves \cup Special \cup {Array(<<a, Number>>) : a \in Leaves}
                              \cup {Object(<<a, [type |-> "null"]>>) : a \in Leaves}}
Damaged == UNION {{SubSeq(t, 1, i - 1), RemoveAt(t, i), ReplaceAt(t, i, "\\"),
                   ReplaceAt(t, i, "space")} : <<t, i>> \in {<<t, i>> \in Printed \X (1..20) : i <= Len(t)}}

Literals ==
  LET u(a, b, c, d) == <<"\\", "u", a, b, c, d>>
      quoted(s) == <<"\"">> \o s \o <<"\"">>
      high == u("d", "8", "0", "0")
      low  == u("D", "C", "0", "0")
  IN  {quoted(s) : s \in
        {u("0", "0", "6", "1"), u("0", "0", "7", "f"), u("0", "0", "8", "0"),
         u("0", "0", "e", "9"), u("0", "7", "F", "F"), u("0", "8", "0", "0"),
         u("f", "f", "f", "f"), u("0", "0", "0", "0") \o <<"a">>, u("0", "0", "0", "1"),
         high \o low, u("d", "b", "f", "f") \o u("d", "f", "f", "f"),
         u("0", "0", "e", "9") \o high \o low, high, low, low \o high, high \o high,
         high \o <<"a">>, <<"\\", "u", "1", "2">>, <<"\\", "u", "1", "2", "3", "g">>,
         <<"\\", "u", "1", "2", "3", "\\", "\\">>, <<"\\", "u", "1", "2", "3", "\\", "n">>,
         <<"\\", "n", "\\", "t", "\\", "/", "\\", "b">>, <<"\\", "x">>,
         <<"a", "\\", "\"">>, <<"\\", "u", "0", "0", "2", "2">>}}

Spelt ==
  {<<"space", "[", "4", "2", "tab", ",", "newline", "4", "2", "]", "control">>,
   <<"{", "\"", "\\", "u", "0", "0", "6", "1", "\"", "space", ":", "4", "2", ",", "\"", "\"", ":",
     "n", "u", "l", "l", "}">>,
   <<"1", "2", "3", "4", "5", "6", "7">>, <<"[", "1", "2", "3", "4", "5", "6", "7", "]">>,
   <<"1", "e", "5">>, <<"1", "e">>, <<"-">>, <<"-", ".", "5", "e", "-", "1">>, <<"1", ".", "e">>,
   <<"[", "1", "space", "2", "]">>, <<"n", "u", "l", "l", "n">>,
   <<"[", "/", "*", "x", "*", "/", "4", "2", ",", "/", "/", "x", "newline", "4", "2", "]">>,
   <<"/", "*", "/", "\"", "*", "/">>, <<"1", "/", "/", "x">>, <<"1", "/", "*", "x", "*">>,
   <<"[", "\"", "/", "/", "\\", "\"", "space", "/", "*", "\"", ",", "4", "2", "]">>,
   <<"[", "[", "]", ",", "[", "4", "2", "]", ",", "[", "]", "]">>,
   <<"{", "\"", "a", "\"", ":", "[", "]", ",", "\"", "a", "\"", ":", "{", "}", "}">>}

MCTexts == ShortTexts \cup Printed \cup Damaged \cup Literals \cup Spelt

=============================================================================
