------------------------------- MODULE CJSONParse -------------------------------
(* The parser of cjson.c: parse_value, parse_array and parse_object call each  *)
(* other down the text, and each pending call is a frame of `stack` with the   *)
(* list it has built so far. A step goes from one call or return to the next.  *)
(* Allocation number `failAt` fails.                                           *)
(*                                                                             *)
(* Characters have names, "control" standing for all below the blank that are  *)
(* not white space in JSON; ByteChar names the character of a byte of UTF-8.   *)
(* A number is its digits, a string the characters of its C string, and an     *)
(* item a record as in PrintBuffer. Each unchecked read of the code is at the   *)
(* offset, which InsideText keeps in the text; At names what lies behind.      *)
EXTENDS CJSONCommon, Integers, FiniteSets, Sequences

CONSTANTS
  Texts,         \* the texts to parse, without their terminator
  NestingLimit,  \* CJSON_NESTING_LIMIT, 1000
  NumberLength,  \* the characters of a number that are looked at, 63
  ByteChar       \* the character each byte stands for

QUOTE == "\""

ASSUME ParseAssumption ==
  /\ \A t \in Texts : t \in Seq(STRING) /\ \A i \in DOMAIN t : t[i] # NUL
  /\ NestingLimit \in Nat /\ NumberLength \in Nat

VARIABLES
  text,         \* the content of the parse_buffer, terminator included
  offset,       \* where in it the parser is, counting from 0
  depth,        \* the nesting at the offset
  strict,       \* require_null_terminated
  stack,        \* the calls in progress, the innermost last
  pc,           \* "idle"; "call" parse_value; "name" of a member; the innermost
                \* call's "return" true or "fail"; "done"
  value,        \* the item that was parsed last; NULL when none was
  failAt, allocations,
  live          \* blocks allocated and not freed

bufferVars == <<offset, depth>>
memoryVars == <<allocations, live>>
vars == <<text, bufferVars, strict, stack, pc, value, failAt, memoryVars>>

NULL == [type |-> "NULL"]

\* The parse_buffer is set up, and nothing has been read.
Idle ==
  /\ offset = 0 /\ depth = 0 /\ stack = <<>> /\ pc = "idle" /\ value = NULL
  /\ allocations = 0 /\ live = 0

Init ==
  /\ \E t \in Texts : text = Append(t, NUL)
  /\ strict \in BOOLEAN /\ failAt \in 0..MaxFailAt
  /\ Idle

-----------------------------------------------------------------------------
(* The text.                                                                   *)

Least(S) == CHOOSE x \in S : \A y \in S : x <= y
Greatest(S) == CHOOSE x \in S : \A y \in S : y <= x

length == Len(text)
At(o) == IF o < length THEN text[o + 1] ELSE "outside"
Slice(from, to) == SubSeq(text, from + 1, to)   \* the characters in from..to-1

\* What is <= 32: the terminator is skipped like white space.
Blank == {NUL, "control", "backspace", "tab", "newline", "formfeed", "return", "space"}

NonBlanks(o) == {k \in o..(length - 1) : At(k) \notin Blank}

\* Faulty variant: no step back from the end.
SkipToEnd(o) == IF NonBlanks(o) = {} THEN length ELSE Least(NonBlanks(o))

\* A skip that reaches the end steps back to the terminator.
buffer_skip_whitespace(o) ==
  IF NonBlanks(o) = {} THEN length - 1 ELSE Least(NonBlanks(o))

Reads(word, o) == \A k \in DOMAIN word : At(o + k - 1) = word[k]

-----------------------------------------------------------------------------
(* Numbers: the characters numbers are made of are copied, and strtod takes as *)
(* many of them as make up a number.                                           *)

Digit == {"0", "1", "2", "3", "4", "5", "6", "7", "8", "9"}
NumberChars == Digit \cup {"+", "-", ".", "e", "E"}

Signs == {<<>>, <<"+">>, <<"-">>}
IsDigits(s) == s # <<>> /\ \A i \in DOMAIN s : s[i] \in Digit
IsMantissa(s) ==
  \/ IsDigits(s)
  \/ \E dot \in DOMAIN s : /\ s[dot] = "." /\ Len(s) > 1
                           /\ \A i \in DOMAIN s \ {dot} : s[i] \in Digit
IsExponent(s) ==
  \/ s = <<>>
  \/ /\ s[1] \in {"e", "E"}
     /\ \E n \in 1..2 : /\ n <= Len(s) /\ SubSeq(s, 2, n) \in Signs
                        /\ IsDigits(SubSeq(s, n + 1, Len(s)))
IsDecimal(s) ==
  \E m, n \in 0..Len(s) : /\ m <= n /\ SubSeq(s, 1, m) \in Signs
                          /\ IsMantissa(SubSeq(s, m + 1, n))
                          /\ IsExponent(SubSeq(s, n + 1, Len(s)))

\* How many characters go into number_c_string.
Copied(o) ==
  Greatest({k \in 0..NumberLength : \A j \in o..(o + k - 1) : At(j) \in NumberChars})

\* How many of them strtod takes.
Taken(o) ==
  Greatest({0} \cup {k \in 1..Copied(o) : IsDecimal(Slice(o, o + k))})

-----------------------------------------------------------------------------
(* Strings, between the quotes at o and at its closing offset.                 *)

\* A backslash is escaped if it ends an even run of backslashes; so a quote
\* closes the string if it follows such a run, or none.
RunBefore(o, k) == k - 1 - Greatest({j \in o..(k - 1) : At(j) # "\\"})
Even(n) == n % 2 = 0
Closings(o) == {k \in (o + 1)..(length - 1) : At(k) = QUOTE /\ Even(RunBefore(o, k))}
Escapes(o) == {k \in (o + 1)..Least(Closings(o)) : At(k) = "\\" /\ Even(RunBefore(o, k))}

HexValue ==
  [c \in Digit \cup {"a", "b", "c", "d", "e", "f", "A", "B", "C", "D", "E", "F"} |->
     CASE c = "0" -> 0 [] c = "1" -> 1 [] c = "2" -> 2 [] c = "3" -> 3 [] c = "4" -> 4
       [] c = "5" -> 5 [] c = "6" -> 6 [] c = "7" -> 7 [] c = "8" -> 8 [] c = "9" -> 9
       [] c \in {"a", "A"} -> 10 [] c \in {"b", "B"} -> 11 [] c \in {"c", "C"} -> 12
       [] c \in {"d", "D"} -> 13 [] c \in {"e", "E"} -> 14 [] OTHER -> 15]

\* Anything that is not four hexadecimal digits is 0.
parse_hex4(o) ==
  IF \A k \in 0..3 : At(o + k) \in DOMAIN HexValue
  THEN 4096 * HexValue[At(o)] + 256 * HexValue[At(o + 1)]
         + 16 * HexValue[At(o + 2)] + HexValue[At(o + 3)]
  ELSE 0

\* The bytes of UTF-8, the last ones six bits at a time.
Encoded(codepoint) ==
  LET low(unit) == 128 + ((codepoint \div unit) % 64)
  IN  IF codepoint < 128 THEN <<codepoint>>
      ELSE IF codepoint < 2048 THEN <<192 + codepoint \div 64, low(1)>>
      ELSE IF codepoint < 65536 THEN <<224 + codepoint \div 4096, low(64), low(1)>>
      ELSE <<240 + codepoint \div 262144, low(4096), low(64), low(1)>>

HighHalf == 55296..56319   \* D800 to DBFF
LowHalf == 56320..57343    \* DC00 to DFFF

Piece(taken, bytes) == [taken |-> taken, out |-> [i \in DOMAIN bytes |-> ByteChar[bytes[i]]]]
Failure == [taken |-> 0, out |-> <<>>]

\* Faulty variant: the second half is taken for a code of its own.
LiteralByHalves(o, end) ==
  IF end - o < 6 THEN Failure ELSE Piece(6, Encoded(parse_hex4(o + 2)))

\* The literal at o, or the two that make up a surrogate pair.
utf16_literal_to_utf8(o, end) ==
  LET first  == parse_hex4(o + 2)
      second == parse_hex4(o + 8)
  IN  IF end - o < 6 \/ first \in LowHalf THEN Failure
      ELSE IF first \notin HighHalf THEN Piece(6, Encoded(first))
      ELSE IF end - o >= 12 /\ Reads(<<"\\", "u">>, o + 6) /\ second \in LowHalf
      THEN Piece(12, Encoded(65536 + 1024 * (first % 1024) + (second % 1024)))
      ELSE Failure

Unescaped ==
  [c \in {"b", "f", "n", "r", "t", "\"", "\\", "/"} |->
     CASE c = "b" -> "backspace" [] c = "f" -> "formfeed" [] c = "n" -> "newline"
       [] c = "r" -> "return" [] c = "t" -> "tab" [] OTHER -> c]

\* The characters taken at o and what they stand for.
Unescape(o, end) ==
  IF At(o) # "\\" THEN [taken |-> 1, out |-> <<At(o)>>]
  ELSE IF At(o + 1) = "u" THEN utf16_literal_to_utf8(o, end)
  ELSE IF At(o + 1) \in DOMAIN Unescaped
  THEN [taken |-> 2, out |-> <<Unescaped[At(o + 1)]>>]
  ELSE Failure

\* The loop through the literal up to end: what it has put out, and where it
\* stopped, which is behind end if the last escape it saw takes the quote.
Literal(from, end) ==
  LET loop[o \in Nat] ==
        LET piece == Unescape(o, end)
            rest  == loop[o + piece.taken]
        IN  IF o >= end \/ piece.taken = 0 THEN [at |-> o, out |-> <<>>]
            ELSE [at |-> rest.at, out |-> piece.out \o rest.out]
  IN  loop[from]

\* A C string ends at its first terminator.
CString(s) ==
  LET ends == {i \in DOMAIN s : s[i] = NUL}
  IN  IF ends = {} THEN s ELSE SubSeq(s, 1, Least(ends) - 1)

\* Faulty variant: the letter is taken off with the backslash.
RoomWithoutEscapes(o) == Least(Closings(o)) - o - 2 * Cardinality(Escapes(o)) + 1

\* The block that is allocated for a literal, its terminator included: each
\* escape takes a character less.
Room(o) == Least(Closings(o)) - o - Cardinality(Escapes(o)) + 1

-----------------------------------------------------------------------------
(* What the calls do to the state.                                             *)

given == <<text, strict, failAt>>

NoMemory == allocations + 1 = failAt

Top == stack[Len(stack)]
Callers == SubSeq(stack, 1, Len(stack) - 1)

\* A frame has the items of its list that are complete, the name of the one
\* that is not, and the number of blocks that cJSON_Delete finds from the head
\* of the list.
Frame(kind) == [kind |-> kind, items |-> <<>>, name |-> <<>>, owned |-> 0]
Owning(frames, n) == [frames EXCEPT ![Len(frames)].owned = @ + n]

Returns(v, o) == pc' = "return" /\ value' = v /\ offset' = o
Fails(o) == pc' = "fail" /\ value' = NULL /\ offset' = o

\* Faulty variant: the item is parsed before it is in the list.
LinkLater(frames, o) ==
  /\ allocations' = allocations + 1
  /\ IF NoMemory THEN Fails(o) /\ stack' = frames /\ UNCHANGED live
     ELSE /\ stack' = frames /\ live' = live + 1
          /\ offset' = buffer_skip_whitespace(o + 1)
          /\ pc' = IF frames[Len(frames)].kind = "array" THEN "call" ELSE "name"
          /\ UNCHANGED value

\* A turn of the loop over the members: a new item, linked before it is parsed
\* from what follows o.
NewItem(frames, o) ==
  /\ allocations' = allocations + 1
  /\ IF NoMemory THEN Fails(o) /\ stack' = frames /\ UNCHANGED live
     ELSE /\ stack' = Owning(frames, 1) /\ live' = live + 1
          /\ offset' = buffer_skip_whitespace(o + 1)
          /\ pc' = IF frames[Len(frames)].kind = "array" THEN "call" ELSE "name"
          /\ UNCHANGED value

\* parse_string, at the offset: whether it succeeds, where it stops, and the
\* string it finds.
HasLiteral == At(offset) = QUOTE /\ Closings(offset) # {}
Scan == Literal(offset + 1, Least(Closings(offset)))
StringParses == HasLiteral /\ ~NoMemory /\ Scan.at >= Least(Closings(offset))
StringEnd == Least(Closings(offset)) + 1

StringFails ==
  /\ ~StringParses
  /\ allocations' = IF HasLiteral THEN allocations + 1 ELSE allocations
  /\ Fails(IF HasLiteral /\ ~NoMemory THEN Scan.at ELSE offset + 1)
  /\ UNCHANGED <<stack, live>>

\* The text is a block that the innermost list owns.
StringFound(frames) ==
  /\ StringParses
  /\ allocations' = allocations + 1 /\ live' = live + 1
  /\ stack' = Owning(frames, 1)

-----------------------------------------------------------------------------
(* The parser.                                                                 *)

cJSON_ParseWithOpts ==
  /\ pc = "idle"
  /\ allocations' = allocations + 1
  /\ IF NoMemory THEN pc' = "done" /\ UNCHANGED <<stack, live, offset>>
     ELSE /\ stack' = <<[Frame("root") EXCEPT !.owned = 1]>> /\ live' = live + 1
          /\ offset' = buffer_skip_whitespace(0) /\ pc' = "call"
  /\ UNCHANGED <<given, depth, value>>

ParseWord(word, type) ==
  /\ pc = "call" /\ Reads(word, offset)
  /\ Returns([type |-> type], offset + Len(word))
  /\ UNCHANGED <<given, depth, stack, memoryVars>>

parse_number ==
  /\ pc = "call" /\ At(offset) \in Digit \cup {"-"}
  /\ LET end == offset + Taken(offset)
     IN  IF end = offset THEN Fails(offset)
         ELSE Returns([type |-> "number", digits |-> Slice(offset, end)], end)
  /\ UNCHANGED <<given, depth, stack, memoryVars>>

parse_string ==
  /\ pc = "call" /\ At(offset) = QUOTE
  /\ \/ StringFails
     \/ /\ StringFound(stack)
        /\ Returns([type |-> "string", text |-> CString(Scan.out)], StringEnd)
  /\ UNCHANGED <<given, depth>>

Open == [array |-> "[", object |-> "{"]
Close == [array |-> "]", object |-> "}"]

TooDeep(kind) ==
  /\ pc = "call" /\ At(offset) = Open[kind] /\ depth >= NestingLimit
  /\ Fails(offset)
  /\ UNCHANGED <<given, depth, stack, memoryVars>>

Inside == buffer_skip_whitespace(offset + 1)
Enters(kind) == pc = "call" /\ At(offset) = Open[kind] /\ depth < NestingLimit

ParseEmpty(kind) ==
  /\ Enters(kind) /\ At(Inside) = Close[kind]
  /\ Returns([type |-> kind, kids |-> <<>>], Inside + 1)
  /\ UNCHANGED <<given, depth, stack, memoryVars>>

\* The offset steps back and on again, in front of the first member.
ParseFirst(kind) ==
  /\ Enters(kind) /\ At(Inside) # Close[kind]
  /\ depth' = depth + 1
  /\ NewItem(Append(stack, Frame(kind)), Inside - 1)
  /\ UNCHANGED given

\* The name of a member, parsed as its valuestring and then moved.
ParseName ==
  /\ pc = "name"
  /\ \/ StringFails
     \/ LET colon == buffer_skip_whitespace(StringEnd)
        IN  /\ StringFound([stack EXCEPT ![Len(stack)].name = CString(Scan.out)])
            /\ IF At(colon) # ":" THEN Fails(colon)
               ELSE /\ pc' = "call" /\ offset' = buffer_skip_whitespace(colon + 1)
                    /\ UNCHANGED value
  /\ UNCHANGED <<given, depth>>

-----------------------------------------------------------------------------
(* After the value of a member: the next member, or the end of the list.       *)

InList == Len(stack) > 1
Behind == buffer_skip_whitespace(offset)

Keyed(it, key) == [f \in DOMAIN it \cup {"key"} |-> IF f = "key" THEN key ELSE it[f]]
Member == IF Top.kind = "object" THEN Keyed(value, Top.name) ELSE value
ItemsSoFar == Append(Top.items, Member)

NextMember ==
  /\ pc = "return" /\ InList /\ At(Behind) = ","
  /\ NewItem([stack EXCEPT ![Len(stack)].items = ItemsSoFar], Behind)
  /\ UNCHANGED <<given, depth>>

\* Faulty variant: the nesting is counted, but never left.
CloseStayingDeep ==
  /\ pc = "return" /\ InList /\ At(Behind) = Close[Top.kind]
  /\ stack' = Owning(Callers, Top.owned)
  /\ Returns([type |-> Top.kind, kids |-> ItemsSoFar], Behind + 1)
  /\ UNCHANGED <<given, depth, memoryVars>>

\* The list becomes the child of the item it was parsed for.
CloseList ==
  /\ pc = "return" /\ InList /\ At(Behind) = Close[Top.kind]
  /\ depth' = depth - 1
  /\ stack' = Owning(Callers, Top.owned)
  /\ Returns([type |-> Top.kind, kids |-> ItemsSoFar], Behind + 1)
  /\ UNCHANGED <<given, memoryVars>>

BadList ==
  /\ pc = "return" /\ InList /\ At(Behind) \notin {",", Close[Top.kind]}
  /\ Fails(Behind)
  /\ UNCHANGED <<given, depth, stack, memoryVars>>

\* Nothing begins with that character.
BadValue ==
  /\ pc = "call"
  /\ At(offset) \notin Digit \cup {"-", QUOTE, "[", "{"}
  /\ ~Reads(<<"n", "u", "l", "l">>, offset) /\ ~Reads(<<"t", "r", "u", "e">>, offset)
  /\ ~Reads(<<"f", "a", "l", "s", "e">>, offset)
  /\ Fails(offset)
  /\ UNCHANGED <<given, depth, stack, memoryVars>>

\* A call that fails deletes its list; the item the list was for has no child.
Unwind ==
  /\ pc = "fail" /\ InList
  /\ live' = live - Top.owned
  /\ stack' = Callers
  /\ UNCHANGED <<given, bufferVars, pc, value, allocations>>

-----------------------------------------------------------------------------
(* The end of cJSON_ParseWithOpts.                                             *)

\* The offset is what return_parse_end is set to.
ReturnItem ==
  /\ pc = "return" /\ ~InList
  /\ IF strict /\ At(Behind) # NUL THEN Fails(Behind) /\ UNCHANGED stack
     ELSE /\ pc' = "done" /\ offset' = IF strict THEN Behind ELSE offset
          /\ stack' = <<>> /\ UNCHANGED value
  /\ UNCHANGED <<given, depth, memoryVars>>

\* The offset is the position of the error.
ReturnNULL ==
  /\ pc = "fail" /\ ~InList
  /\ live' = live - Top.owned
  /\ pc' = "done" /\ stack' = <<>>
  /\ offset' = IF offset < length THEN offset ELSE length - 1
  /\ UNCHANGED <<given, depth, value, allocations>>

ParseScalar ==
  \/ ParseWord(<<"n", "u", "l", "l">>, "null") \/ ParseWord(<<"t", "r", "u", "e">>, "true")
  \/ ParseWord(<<"f", "a", "l", "s", "e">>, "false")
  \/ parse_number \/ parse_string \/ BadValue

ParseContainer(kind) == TooDeep(kind) \/ ParseEmpty(kind) \/ ParseFirst(kind)

Next ==
  \/ cJSON_ParseWithOpts \/ ParseScalar \/ ParseName
  \/ \E kind \in {"array", "object"} : ParseContainer(kind)
  \/ NextMember \/ CloseList \/ BadList \/ Unwind \/ ReturnItem \/ ReturnNULL

Spec == Init /\ [][Next]_vars

-----------------------------------------------------------------------------
(* Properties.                                                                 *)

TypeOK ==
  /\ depth \in Nat /\ strict \in BOOLEAN
  /\ pc \in {"idle", "call", "name", "return", "fail", "done"}
  /\ stack = <<>> <=> pc \in {"idle", "done"}
  /\ \A i \in 2..Len(stack) : stack[i].kind \in {"array", "object"}
  /\ pc \in {"call", "name", "return"} => offset \in Nat
  /\ failAt \in Nat /\ allocations \in Nat /\ live \in Nat

\* Wherever the parser is about to read, the offset is inside the text, the
\* terminator included: it reads its first character there without a check
\* (cjson.c:662, 1296), relies on buffer_skip_whitespace to step back from the
\* end (cjson.c:931), and on nothing but blanks and names to be skipped.
InsideText == pc \in {"call", "name", "return"} => offset < Len(text)

\* The calls in progress are as many as `depth` says, so the recursion is never
\* deeper than CJSON_NESTING_LIMIT ("This is to prevent stack overflows.",
\* cjson.h:128), however the text closes and reopens its lists.
NestingBounded ==
  /\ Len(stack) <= NestingLimit + 1
  /\ pc \in {"call", "name", "return"} => depth = Len(stack) - 1

\* parse_string writes into a block whose size it has estimated before, one
\* character less for each escape (cjson.c:692): what it puts out, up to four
\* bytes for a pair of UTF-16 literals, fits with its terminator, whether it
\* gets to the end of the string or stops at an escape it cannot read.
OutputFits ==
  (pc = "name" \/ pc = "call") /\ HasLiteral =>
    Len(Scan.out) + 1 <= Room(offset)

\* A parse that fails leaves no memory behind: every call that fails frees its
\* list, and cJSON_ParseWithOpts its item (cjson.c:990).
NothingLeft == pc = "done" /\ value = NULL => live = 0

=============================================================================
