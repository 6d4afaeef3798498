------------------------------ MODULE CJSONPrint ------------------------------
(* The printer of cjson.c: print_value, print_array and print_object call each *)
(* other down the tree and write into a printbuffer, each after asking ensure  *)
(* for room; each pending print_array or print_object is a frame of `open`. A  *)
(* step goes from one call or return to the next, and what it writes is an     *)
(* operator from printbuffers to printbuffers; `ok` becomes FALSE where the C  *)
(* function returns false, and then all that called it do too. Allocation      *)
(* number `failAt` fails.                                                      *)
EXTENDS PrintBuffer, SequencesExt

vars == <<item, p, call, open, ppc, result>>

Blank == {"space", "tab", "newline"}

-----------------------------------------------------------------------------
(* The buffer.                                                                 *)

Resize(m, size) == [i \in 1..size |-> IF i <= Len(m) THEN m[i] ELSE "unset"]
Fail(q) == [q EXCEPT !.ok = FALSE]
Crash(q, how) == [q EXCEPT !.ok = FALSE, !.fault = how]

\* A block of q is allocated; the caller looks at AllocationFails first.
Allocated(q) == [q EXCEPT !.allocations = @ + 1]
AllocationFails(q) == q.allocations + 1 = q.failAt

\* realloc that finds no memory leaves the old block, which nothing points to
\* any more. ensure then returns NULL + offset, which its caller takes for
\* NULL only at offset 0.
Reallocate(q, newsize) ==
  IF ~AllocationFails(q)
  THEN [Allocated(q) EXCEPT !.mem = Resize(@, newsize), !.length = newsize]
  ELSE LET lost == [Allocated(q) EXCEPT !.isNULL = TRUE, !.length = newsize]
       IN  IF q.offset = 0 THEN Fail(lost) ELSE Crash(lost, "wild")

\* Faulty variant: the old block is kept when there is no new one.
CopyOverKeeping(q, newsize) ==
  IF AllocationFails(q)
  THEN Fail([Allocated(q) EXCEPT !.isNULL = TRUE, !.length = 0])
  ELSE IF q.offset + 1 > Len(q.mem) THEN Crash(q, "read")
  ELSE [Allocated(q) EXCEPT !.mem = Resize(SubSeq(@, 1, q.offset + 1), newsize),
                            !.length = newsize]

\* Without realloc, the text so far is copied, with the byte at offset.
CopyOver(q, newsize) ==
  IF AllocationFails(q)
  THEN Fail([Allocated(q) EXCEPT !.isNULL = TRUE, !.length = 0, !.blocks = @ - 1])
  ELSE IF q.offset + 1 > Len(q.mem) THEN Crash(q, "read")
  ELSE [Allocated(q) EXCEPT !.mem = Resize(SubSeq(@, 1, q.offset + 1), newsize),
                            !.length = newsize]

GrowWithoutLength(q, newsize) ==
  [(IF q.realloc THEN Reallocate(q, newsize) ELSE CopyOver(q, newsize))
     EXCEPT !.length = q.length]
Grow(q, newsize) == IF q.realloc THEN Reallocate(q, newsize) ELSE CopyOver(q, newsize)

\* Faulty variants: no room for the terminator; the caller's buffer is refused
\* before it has been looked at.
EnsureWithoutTerminator(q, needed) ==
  LET total == needed + q.offset
  IN  IF total <= q.length THEN q ELSE IF q.noalloc THEN Fail(q) ELSE Grow(q, 2 * total)

EnsureNoallocFirst(q, needed) ==
  LET total == needed + q.offset + 1
  IN  IF q.noalloc THEN Fail(q) ELSE IF total <= q.length THEN q ELSE Grow(q, 2 * total)

ensure(q, needed) ==
  LET total == needed + q.offset + 1
  IN  CASE q.isNULL \/ (q.length > 0 /\ q.offset >= q.length) -> Fail(q)
        [] needed > LLONG_MAX                                 -> Fail(q)
        [] OTHER ->
             IF total <= q.length THEN q
             ELSE IF q.noalloc \/ total > LLONG_MAX THEN Fail(q)
             ELSE Grow(q, IF total > LLONG_MAX \div 2 THEN LLONG_MAX ELSE 2 * total)

\* Every print function asks for room, writes at the offset, and some move on.
Put(q, text, advance) ==
  IF ~q.ok THEN q
  ELSE IF q.offset + Len(text) > Len(q.mem) THEN Crash(q, "write")
  ELSE [q EXCEPT !.mem = [i \in DOMAIN @ |->
                            IF i > q.offset /\ i <= q.offset + Len(text)
                            THEN text[i - q.offset] ELSE @[i]],
                 !.offset = @ + advance]
Write(q, needed, text, advance) ==
  IF q.ok THEN Put(ensure(q, needed), text, advance) ELSE q

\* strlen from the offset on.
Terminators(q) == {i \in DOMAIN q.mem : i > q.offset /\ q.mem[i] = NUL}
update_offset(q) ==
  IF ~q.ok THEN q
  ELSE IF Terminators(q) = {} THEN Crash(q, "read")
  ELSE [q EXCEPT !.offset = Min(Terminators(q)) - 1]

Deepen(q) == [q EXCEPT !.depth = IF q.ok THEN @ + 1 ELSE @]
Raise(q) == [q EXCEPT !.depth = IF q.ok THEN @ - 1 ELSE @]

-----------------------------------------------------------------------------
(* What the print functions write.                                             *)

Repeat(c, n) == [i \in 1..n |-> c]

\* The characters that have an escape of their own, and its letter.
Letters == {"newline", "tab", "backspace", "formfeed", "return", "\"", "\\"}
EscapeLetter ==
  [c \in Letters |-> CASE c = "newline" -> "n" [] c = "tab" -> "t" [] c = "backspace" -> "b"
                       [] c = "formfeed" -> "f" [] c = "return" -> "r" [] OTHER -> c]

\* Faulty variant: a backslash needs no escape.
EscapeNoBackslash(c) ==
  IF c \in Letters \ {"\\"} THEN <<"\\", EscapeLetter[c]>>
  ELSE IF c = "control" THEN <<"\\", "u", "0", "0", "0", "1">> ELSE <<c>>

Escape(c) ==
  IF c \in Letters THEN <<"\\", EscapeLetter[c]>>
  ELSE IF c = "control" THEN <<"\\", "u", "0", "0", "0", "1">> ELSE <<c>>

\* How many characters more than s its escapes take, counted first.
EscapeCharacters(s) ==
  LET upto[n \in 0..Len(s)] ==
        IF n = 0 THEN 0
        ELSE upto[n - 1] + (IF s[n] \in Letters THEN 1 ELSE IF s[n] = "control" THEN 5 ELSE 0)
  IN  upto[Len(s)]
Escaped(s) ==
  LET upto[n \in 0..Len(s)] == IF n = 0 THEN <<>> ELSE upto[n - 1] \o Escape(s[n])
  IN  upto[Len(s)]
Quoted(s) == <<"\"">> \o Escaped(s) \o <<"\"">>

print_string_ptr(q, s) ==
  Write(q, Len(s) + EscapeCharacters(s) + 3, Quoted(s) \o <<NUL>>, 0)

Literal(type) ==
  CASE type = "null"  -> <<"n", "u", "l", "l">>
    [] type = "true"  -> <<"t", "r", "u", "e">>
    [] type = "false" -> <<"f", "a", "l", "s", "e">>

\* What sprintf leaves in number_buffer, and the bytes that are there for it.
NumberText(digits) == IF digits \in NonFinite THEN Literal("null") ELSE digits
NumberBuffer == 26

print_number(q, digits) ==
  LET printed == NumberText(digits)
  IN  IF Len(printed) > NumberBuffer - 1 THEN Fail(q)
      ELSE Write(q, Len(printed), printed \o <<NUL>>, Len(printed))

\* What stands in front of a value in an object; after update_offset, what
\* stands behind it; and what stands at the ends of an array and an object.
\* Faulty variant: the offset is not moved behind the key.
NameWithoutUpdate(q, key) == Write(print_string_ptr(q, key), 1, <<":">>, 1)

Name(q, key) ==
  LET indented == IF q.format THEN Write(q, q.depth, Repeat("tab", q.depth), q.depth) ELSE q
      colon    == <<":">> \o IF q.format THEN <<"tab">> ELSE <<>>
  IN  Write(update_offset(print_string_ptr(indented, key)), Len(colon), colon, Len(colon))

Separator(q, kind, last) ==
  LET comma == IF last THEN <<>> ELSE <<",">>
      text  == comma \o IF ~q.format THEN <<>>
                        ELSE IF kind = "array" THEN <<"space">> ELSE <<"newline">>
  IN  IF kind = "array" /\ last THEN q
      ELSE Write(q, Len(text) + 1, text \o <<NUL>>, Len(text))

Opening(q, kind) ==
  LET brace == <<"{">> \o IF q.format THEN <<"newline">> ELSE <<>>
  IN  Deepen(IF kind = "array" THEN Write(q, 1, <<"[">>, 1)
             ELSE Write(q, Len(brace) + 1, brace, Len(brace)))

Closing(q, kind) ==
  Raise(IF kind = "array" THEN Write(q, 2, <<"]", NUL>>, 0)
        ELSE IF q.format
        THEN Write(q, q.depth + 1, Repeat("tab", q.depth - 1) \o <<"}", NUL>>, 0)
        ELSE Write(q, 2, <<"}", NUL>>, 0))

-----------------------------------------------------------------------------
(* The print functions.                                                        *)

\* The argument of print_value: what is printed, or the current child.
Current == IF open = <<>> THEN item ELSE Head(Last(open).left)

\* A print function has written q and goes on, or it returns false.
Continue(q, position) ==
  /\ p' = q
  /\ ppc' = IF q.ok THEN position ELSE "fail"
  /\ UNCHANGED <<item, call, result>>

print_word ==
  /\ ppc = "value" /\ Current.type \in Words
  /\ LET word == Literal(Current.type)
     IN  Continue(Write(p, Len(word) + 1, word \o <<NUL>>, 0), "return")
  /\ UNCHANGED open

print_scalar ==
  /\ ppc = "value"
  /\ \/ Current.type = "number" /\ Continue(print_number(p, Current.digits), "return")
     \/ /\ Current.type = "raw"
        /\ Continue(Write(p, Len(Current.digits) + 1, Current.digits \o <<NUL>>, 0), "return")
     \/ Current.type = "string" /\ Continue(print_string_ptr(p, Current.text), "return")
  /\ UNCHANGED open

\* print_array or print_object is called.
OpenContainer ==
  /\ ppc = "value" /\ Current.type \in {"array", "object"}
  /\ Continue(Opening(p, Current.type), "next")
  /\ open' = Append(open, [kind |-> Current.type, left |-> Current.kids])

Element ==
  /\ ppc = "next" /\ Last(open).kind = "array" /\ Last(open).left # <<>>
  /\ Continue(p, "value") /\ UNCHANGED open

Member ==
  /\ ppc = "next" /\ Last(open).kind = "object" /\ Last(open).left # <<>>
  /\ Continue(Name(p, Current.key), "value") /\ UNCHANGED open

\* The child has been printed.
NextChild ==
  /\ ppc = "return" /\ open # <<>>
  /\ LET frame == Last(open)
     IN  /\ Continue(Separator(update_offset(p), frame.kind, Len(frame.left) = 1), "next")
         /\ open' = Append(Front(open), [frame EXCEPT !.left = Tail(@)])

CloseContainer ==
  /\ ppc = "next" /\ Last(open).left = <<>>
  /\ Continue(Closing(p, Last(open).kind), "return")
  /\ open' = Front(open)

-----------------------------------------------------------------------------
(* The public functions. Each run of the model makes one call.                 *)

\* A printbuffer before any memory has been allocated for it.
Empty(format, realloc, failAt) ==
  [mem |-> <<>>, isNULL |-> TRUE, length |-> 0, offset |-> 0, depth |-> 0,
   noalloc |-> FALSE, format |-> format, realloc |-> realloc,
   failAt |-> failAt, allocations |-> 0, blocks |-> 0, ok |-> TRUE, fault |-> "none"]
NoCall == [name |-> "none", size |-> 0]

Init ==
  /\ item \in Items
  /\ \E format, realloc \in BOOLEAN, failAt \in 0..MaxFailAt :
       p = Empty(format, realloc, failAt)
  /\ call = NoCall /\ open = <<>> /\ ppc = "idle" /\ result = "none"

\* print_value is called with the buffer q.
Begin(name, size, q) ==
  /\ ppc = "idle"
  /\ call' = [name |-> name, size |-> size]
  /\ p' = q
  /\ ppc' = IF q.ok THEN "value" ELSE "fail"
  /\ UNCHANGED <<item, open, result>>

WithBlock(size) ==
  IF AllocationFails(p) THEN Fail(Allocated(p))
  ELSE [Allocated(p) EXCEPT !.mem = Resize(<<>>, size), !.isNULL = FALSE, !.blocks = 1]

\* length stays 0.
print == Begin("print", InitialSize, WithBlock(InitialSize))

\* length is what the caller guessed.
cJSON_PrintBuffered(size) ==
  LET q == WithBlock(size)
  IN  Begin("cJSON_PrintBuffered", size, IF q.ok THEN [q EXCEPT !.length = size] ELSE q)

\* The buffer is the caller's.
cJSON_PrintPreallocated(size) ==
  Begin("cJSON_PrintPreallocated", size,
        [p EXCEPT !.mem = Resize(<<>>, size), !.isNULL = FALSE, !.length = size,
                  !.noalloc = TRUE])

Crashed(q) == q.fault # "none"
Free(q) == [q EXCEPT !.blocks = IF q.isNULL THEN @ ELSE @ - 1]

\* The text is moved to a block of its own size: by realloc, which loses the
\* old block if it fails, or by a copy. A print that fails frees the buffer.
Shrink(q) ==
  CASE Crashed(q) -> q
    [] ~q.ok /\ ~Crashed(q) -> Free(q)
    [] q.ok /\ q.realloc /\ AllocationFails(q) -> Fail([Allocated(q) EXCEPT !.isNULL = TRUE])
    [] q.ok /\ q.realloc /\ ~AllocationFails(q) ->
         [Allocated(q) EXCEPT !.mem = Resize(@, q.length)]
    [] q.ok /\ ~q.realloc /\ AllocationFails(q) -> Fail(Free(Allocated(q)))
    [] OTHER -> [Allocated(q) EXCEPT !.mem = Resize(@, q.offset + 1)]

\* The public function returns. One that fails frees the buffer only in print.
Return ==
  /\ ppc = "fail" \/ (ppc = "return" /\ open = <<>>)
  /\ LET q == IF call.name = "print" THEN Shrink(update_offset(p)) ELSE p
     IN  /\ p' = q
         /\ result' = IF Crashed(q) THEN "crashed" ELSE IF q.ok THEN "text" ELSE "NULL"
  /\ ppc' = "done" /\ open' = <<>>
  /\ UNCHANGED <<item, call>>

Next ==
  \/ print
  \/ \E size \in Sizes : cJSON_PrintBuffered(size) \/ cJSON_PrintPreallocated(size)
  \/ print_word \/ print_scalar
  \/ OpenContainer \/ Element \/ Member \/ NextChild \/ CloseContainer
  \/ Return

Spec == Init /\ [][Next]_vars

-----------------------------------------------------------------------------
(* Properties; those of the memory are in PrintBuffer.                         *)

\* What a C string function makes of the buffer.
Text == SubSeq(p.mem, 1, Min({i \in DOMAIN p.mem : p.mem[i] = NUL}) - 1)

\* A frame per level of the output; and a buffer that is returned is as long as
\* it claims, with the offset inside.
TypeOK ==
  /\ p.offset \in Nat /\ p.length \in Nat /\ p.depth \in Nat /\ p.blocks \in {0, 1}
  /\ p.fault \in {"none", "read", "write", "wild"}
  /\ ppc \in {"idle", "value", "next", "return", "fail", "done"}
  /\ result \in {"none", "text", "NULL", "crashed"}
  /\ p.ok /\ ppc # "done" => p.depth = Len(open)
  /\ result = "text" /\ call.name # "print" => Len(p.mem) = p.length /\ p.offset < p.length

=============================================================================
