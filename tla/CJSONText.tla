------------------------------- MODULE CJSONText -------------------------------
(* The two halves of cjson.c put together, as JSON_write and JSON_read use     *)
(* them: an item is printed, the text is handed over, perhaps minified on the  *)
(* way, and parsed; or a text from elsewhere is parsed. Then cJSON_Compare     *)
(* holds the two ends against each other.                                      *)
(*                                                                             *)
(* Numbers are equal here if their digits are: a number has one spelling in    *)
(* Items.                                                                      *)
EXTENDS CJSONParse, PrintBuffer, SequencesExt

VARIABLES
  source,     \* the text as it came, with its terminator; NoText while an item is printed
  minified    \* "no"; "yes" after cJSON_Minify; "outside" when that left the text

Printer == INSTANCE CJSONPrint

printerVars == <<item, p, call, open, ppc, result>>
textVars == <<printerVars, source, minified, vars>>

NoText == <<>>
NoItem == [type |-> "NULL"]
NoBuffer == Printer!Empty(FALSE, FALSE, 0)

\* The printer has nothing to do, and no memory.
Quiet == p = NoBuffer /\ call = Printer!NoCall /\ open = <<>> /\ ppc = "idle" /\ result = "none"

TextInit ==
  /\ minified = "no"
  /\ \/ /\ Printer!Init /\ source = NoText
        /\ text = NoText /\ strict = FALSE /\ failAt = 0 /\ Idle
     \/ /\ Init /\ source = text
        /\ item = NoItem /\ Quiet

-----------------------------------------------------------------------------
(* cJSON_Minify.                                                               *)

Starts(s, i, word) ==
  i + Len(word) - 1 <= Len(s) /\ SubSeq(s, i, i + Len(word) - 1) = word

\* The quote that closes the string before i, 0 if the text ends first.
Closing(s, i) ==
  LET from[k \in Nat] == IF k > Len(s) THEN 0
                         ELSE IF s[k] = "\"" THEN k
                         ELSE from[IF s[k] = "\\" THEN k + 2 ELSE k + 1]
  IN  from[i]

AfterLine(s, i) == Min({k \in i..Len(s) : s[k] \in {NUL, "newline"}})

\* Faulty variant: only the star is skipped.
AfterStar(s, i) ==
  LET ends == {k \in i..Len(s) : Starts(s, k, <<"*", "/">>)}
  IN  IF ends = {} THEN Len(s) + 2 ELSE Min(ends) + 1

\* Two characters on from where the loop stops, be that the terminator.
AfterComment(s, i) ==
  LET ends == {k \in i..Len(s) : Starts(s, k, <<"*", "/">>)}
  IN  IF ends = {} THEN Len(s) + 2 ELSE Min(ends) + 2

\* What is written for the text s; "outside" if it was left by then.
Minified(s) ==
  LET into[i \in Nat] ==
        IF i > Len(s) THEN <<"outside">>
        ELSE CASE s[i] = NUL -> <<>>
               [] s[i] \in {"space", "tab", "return", "newline"} -> into[i + 1]
               [] Starts(s, i, <<"/", "/">>) -> into[AfterLine(s, i)]
               [] Starts(s, i, <<"/", "*">>) -> into[AfterComment(s, i)]
               [] s[i] = "\"" -> LET end == Closing(s, i + 1)
                                 IN  IF end = 0 THEN <<"outside">>
                                     ELSE SubSeq(s, i, end) \o into[end + 1]
               [] OTHER -> <<s[i]>> \o into[i + 1]
  IN  into[1]

-----------------------------------------------------------------------------
(* cJSON_Compare.                                                              *)

Lower == [A |-> "a", B |-> "b", C |-> "c", D |-> "d", E |-> "e", F |-> "f", G |-> "g",
          H |-> "h", I |-> "i", J |-> "j", K |-> "k", L |-> "l", M |-> "m", N |-> "n",
          O |-> "o", P |-> "p", Q |-> "q", R |-> "r", S |-> "s", T |-> "t", U |-> "u",
          V |-> "v", W |-> "w", X |-> "x", Y |-> "y", Z |-> "z"]
Folded(s) == [i \in DOMAIN s |-> IF s[i] \in DOMAIN Lower THEN Lower[s[i]] ELSE s[i]]
\* Faulty variant: only one side is folded.
SameNameOneSided(s, t, sensitive) == IF sensitive THEN s = t ELSE Folded(s) = t
SameName(s, t, sensitive) == IF sensitive THEN s = t ELSE Folded(s) = Folded(t)

\* The first member of that name is the one that is found.
Found(it, key, sensitive) ==
  LET named == {i \in DOMAIN it.kids : SameName(it.kids[i].key, key, sensitive)}
  IN  IF named = {} THEN {} ELSE {it.kids[Min(named)]}

RECURSIVE cJSON_Compare(_, _, _, _)

\* Two arrays are compared up to the end of the shorter one, and of two objects
\* the members of the first are looked up in the second. Two items have no
\* children in common.
CompareElements(a, b, sensitive) ==
  \A i \in DOMAIN a.kids \cap DOMAIN b.kids :
    cJSON_Compare(a.kids[i], b.kids[i], FALSE, sensitive)
CompareMembers(a, b, sensitive) ==
  \A i \in DOMAIN a.kids :
    \E found \in Found(b, a.kids[i].key, sensitive) :
      cJSON_Compare(a.kids[i], found, FALSE, sensitive)

\* `same` if a and b are one item, the same pointer. NaN is not equal to NaN.
cJSON_Compare(a, b, same, sensitive) ==
  /\ a.type = b.type
  /\ \/ same
     \/ CASE a.type = "number" -> a.digits = b.digits /\ a.digits # NaN
          [] a.type = "raw"    -> a.digits = b.digits
          [] a.type = "string" -> a.text = b.text
          [] a.type = "array"  -> CompareElements(a, b, sensitive)
          [] a.type = "object" -> CompareMembers(a, b, sensitive)
          [] OTHER -> TRUE

-----------------------------------------------------------------------------
PrintItem == source = NoText /\ Printer!Next /\ UNCHANGED <<source, minified, vars>>

\* The text goes to a parser, and the printer's memory is given back.
HandOver ==
  /\ source = NoText /\ result = "text"
  /\ source' = Append(Printer!Text, NUL) /\ text' = source'
  /\ strict' \in BOOLEAN /\ failAt' \in 0..MaxFailAt
  /\ p' = NoBuffer /\ call' = Printer!NoCall /\ open' = <<>> /\ ppc' = "idle" /\ result' = "none"
  /\ UNCHANGED <<item, minified, offset, depth, stack, pc, value, allocations, live>>

cJSON_Minify ==
  /\ source # NoText /\ pc = "idle" /\ minified = "no"
  /\ LET written == Minified(text)
     IN  IF "outside" \in Range(written) THEN minified' = "outside" /\ UNCHANGED text
         ELSE minified' = "yes" /\ text' = Append(written, NUL)
  /\ UNCHANGED <<printerVars, source, offset, depth, strict, stack, pc, value, failAt,
                 allocations, live>>

Parse ==
  /\ source # NoText /\ minified # "outside"
  /\ Next
  /\ UNCHANGED <<printerVars, source, minified>>

TextNext == PrintItem \/ HandOver \/ cJSON_Minify \/ Parse

TextSpec == TextInit /\ [][TextNext]_textVars

-----------------------------------------------------------------------------
(* The text of an item in compact JSON, by its grammar, and the blanks that    *)
(* cJSON_Print adds.                                                           *)

RECURSIVE JSON(_), Blanks(_, _)
MemberText(it) ==
  (IF "key" \in DOMAIN it THEN Printer!Quoted(it.key) \o <<":">> ELSE <<>>) \o JSON(it)
Listed(kids) ==
  FlattenSeq([i \in DOMAIN kids |-> (IF i > 1 THEN <<",">> ELSE <<>>) \o MemberText(kids[i])])
JSON(it) ==
  CASE it.type \in Words -> Printer!Literal(it.type)
    [] it.type = "number" -> Printer!NumberText(it.digits)
    [] it.type = "raw"    -> it.digits
    [] it.type = "string" -> Printer!Quoted(it.text)
    [] it.type = "array"  -> <<"[">> \o Listed(it.kids) \o <<"]">>
    [] it.type = "object" -> <<"{">> \o Listed(it.kids) \o <<"}">>

\* One between elements; a line for each member, with its tabs, and for the ends.
Blanks(it, level) ==
  CASE it.type = "array" ->
         FoldLeft(LAMBDA n, k : n + Blanks(k, level + 1), Max({Len(it.kids) - 1, 0}), it.kids)
    [] it.type = "object" ->
         FoldLeft(LAMBDA n, k : n + Blanks(k, level + 1) + level + 3, level + 1, it.kids)
    [] OTHER -> 0

-----------------------------------------------------------------------------
(* What a text means, however it is spelt: its characters outside of strings   *)
(* without white space and comments, and the code points of its strings.       *)

Byte == [c \in Range(ByteChar) |-> CHOOSE b \in DOMAIN ByteChar : ByteChar[b] = c]
Point(cp) == IF cp < 128 THEN ByteChar[cp] ELSE ToString(cp)
Stands(taken, point) == [taken |-> taken, point |-> point]

Hex(s, i) ==
  IF \A k \in i..(i + 3) : s[k] \in DOMAIN HexValue
  THEN FoldLeft(LAMBDA n, c : 16 * n + HexValue[c], 0, SubSeq(s, i, i + 3))
  ELSE 0

\* A code point is one unit of UTF-16 or, from 65536 on, two.
PointOfUTF16(s, i) ==
  LET one == IF i + 5 > Len(s) THEN 57343 ELSE Hex(s, i + 2)
      two == IF i + 11 > Len(s) \/ ~Starts(s, i + 6, <<"\\", "u">>) THEN 0 ELSE Hex(s, i + 8)
  IN  CASE one \notin 55296..57343 -> Stands(6, Point(one))
        [] one \in 55296..56319 /\ two \in 56320..57343 ->
             Stands(12, Point(65536 + (one - 55296) * 1024 + (two - 56320)))
        [] OTHER -> Stands(6, "invalid")

\* The first byte of UTF-8 tells how many there are; a broken one stands for
\* itself.
PointOfUTF8(s, i) ==
  LET lead == Byte[s[i]]
      n    == IF lead < 224 THEN 2 ELSE IF lead < 240 THEN 3 ELSE 4
      head == lead - (IF n = 2 THEN 192 ELSE IF n = 3 THEN 224 ELSE 240)
      tail == SubSeq(s, i + 1, Min({i + n - 1, Len(s)}))
  IN  IF Len(tail) = n - 1 /\ \A k \in DOMAIN tail : Byte[tail[k]] \in 128..191
      THEN Stands(n, Point(FoldLeft(LAMBDA x, c : 64 * x + Byte[c] - 128, head, tail)))
      ELSE Stands(1, s[i])

Named(letter) ==
  IF letter = "/" THEN {"/"}
  ELSE LET named == Printer!EscapeLetter IN {c \in DOMAIN named : named[c] = letter}
PointAt(s, i) ==
  CASE Starts(s, i, <<"\\", "u">>) -> PointOfUTF16(s, i)
    [] s[i] = "\\" /\ ~Starts(s, i, <<"\\", "u">>) ->
         Stands(2, IF Named(s[i + 1]) = {} THEN "invalid" ELSE CHOOSE c \in Named(s[i + 1]) : TRUE)
    [] Byte[s[i]] >= 192 -> PointOfUTF8(s, i)
    [] OTHER -> Stands(1, s[i])

\* Up to the first NUL; U tells the points from what stands outside of strings.
Points(s) ==
  LET from[i \in Nat] ==
        IF i > Len(s) \/ PointAt(s, i).point = NUL THEN <<>>
        ELSE <<"U" \o PointAt(s, i).point>> \o from[i + PointAt(s, i).taken]
  IN  from[1]

\* White space that keeps apart what would be one word or number without it.
Structural == {"[", "]", "{", "}", ",", ":", "\""}
Separates(s, i) ==
  LET around(k) == k \in DOMAIN s /\ s[k] \notin Structural \cup Blank
      after == {k \in i..Len(s) : s[k] \notin Blank}
  IN  around(i - 1) /\ after # {} /\ around(Min(after))

\* A comment is as good as a blank.
Uncommented(s) ==
  LET ends(i) == {k \in (i + 2)..Len(s) : Starts(s, k, <<"*", "/">>)}
      from[i \in Nat] ==
        IF i > Len(s) THEN <<>>
        ELSE CASE s[i] = "\"" /\ Closing(s, i + 1) # 0 ->
                    SubSeq(s, i, Closing(s, i + 1)) \o from[Closing(s, i + 1) + 1]
               [] Starts(s, i, <<"/", "/">>) ->
                    <<"space">> \o from[Min({k \in i..Len(s) : s[k] = "newline"} \cup {Len(s) + 1})]
               [] Starts(s, i, <<"/", "*">>) ->
                    IF ends(i) = {} THEN <<"unclosed">> ELSE <<"space">> \o from[Min(ends(i)) + 2]
               [] OTHER -> <<s[i]>> \o from[i + 1]
  IN  from[1]

Meaning(commented) ==
  LET s == Uncommented(commented)
      from[i \in Nat] ==
        IF i > Len(s) THEN <<>>
        ELSE CASE s[i] = "\"" /\ Closing(s, i + 1) = 0 -> <<"unclosed">>
               [] s[i] = "\"" /\ Closing(s, i + 1) # 0 ->
                    <<"\"">> \o Points(SubSeq(s, i + 1, Closing(s, i + 1) - 1))
                      \o <<"\"">> \o from[Closing(s, i + 1) + 1]
               [] s[i] \in Blank ->
                    (IF Separates(s, i) THEN <<"gap">> ELSE <<>>) \o from[i + 1]
               [] OTHER -> <<s[i]>> \o from[i + 1]
  IN  from[1]

-----------------------------------------------------------------------------
(* What the properties need to know of an item.                                *)

RECURSIVE Nesting(_), Within(_), Unraw(_), Unordered(_), Blocks(_)
KidsOf(it) == IF it.type \in {"array", "object"} THEN it.kids ELSE <<>>
Within(it) == {it} \cup UNION {Within(k) : k \in Range(KidsOf(it))}
Nesting(it) == IF it.type \in {"array", "object"}
               THEN 1 + Max({0} \cup {Nesting(k) : k \in Range(it.kids)}) ELSE 0

\* The item the text of `it` is parsed to: what was raw is a number, and what was
\* NaN or an infinity is null.
Finite(it) == it.type = "number" => it.digits \notin NonFinite
Unraw(it) == [f \in DOMAIN it \ (IF Finite(it) THEN {} ELSE {"digits"}) |->
                CASE f = "type" /\ it.type = "raw" -> "number"
                  [] f = "type" /\ ~Finite(it) -> "null"
                  [] f = "kids" -> [i \in DOMAIN it.kids |-> Unraw(it.kids[i])]
                  [] OTHER -> it[f]]

\* The item as a value in which the members of an object have no order.
Unordered(it) == [f \in DOMAIN it |->
                    CASE f = "kids" /\ it.type = "object" -> {Unordered(k) : k \in Range(it.kids)}
                      [] f = "kids" /\ it.type = "array" ->
                           [i \in DOMAIN it.kids |-> Unordered(it.kids[i])]
                      [] OTHER -> it[f]]
ArrayLengths(it) == {Len(x.kids) : x \in {x \in Within(it) : x.type = "array"}}

\* The item itself, its string, its name, and its children.
Blocks(it) == 1 + Cardinality(DOMAIN it \cap {"text", "key"})
                + FoldLeft(LAMBDA n, k : n + Blocks(k), 0, KidsOf(it))

\* No limit of the parser is in the way of the item.
Parseable(it) ==
  /\ Nesting(it) <= NestingLimit
  /\ \A x \in Within(it) : "digits" \in DOMAIN x => Len(x.digits) <= NumberLength
DistinctNames(it, sensitive) ==
  \A x \in Within(it) : x.type = "object" =>
    \A i, j \in DOMAIN x.kids : SameName(x.kids[i].key, x.kids[j].key, sensitive) => i = j

MemoryLasts == failAt = 0 \/ allocations < failAt
MeaningOf == [it \in Items |-> Meaning(JSON(it))]
Saying(meaning) == {it \in Items : MeaningOf[it] = meaning}

-----------------------------------------------------------------------------
(* Properties.                                                                 *)

TextTypeOK ==
  /\ Printer!TypeOK /\ TypeOK
  /\ minified \in {"no", "yes", "outside"}
  /\ source # NoText => Last(source) = NUL /\ Last(text) = NUL
  /\ source = NoText \/ Quiet

\* The properties of the printer alone are StaysInBounds and NothingLeaks of
\* PrintBuffer, those of the parser alone InsideText, NestingBounded and OutputFits
\* of CJSONParse.

\* Text that is returned is the item's, whatever the sizes and however often
\* the buffer grew: apart from blanks, its characters are those of the compact
\* form, and the terminator is there.
Faithful ==
  result = "text" => SelectSeq(Printer!Text, LAMBDA c : c \notin Printer!Blank) = JSON(item)

\* The bytes that an item needs, its terminator included.
Needed == Len(JSON(item)) + (IF p.format THEN Blanks(item, 0) ELSE 0) + 1

\* "to be safe allocate 5 bytes more than you actually need" (cjson.h:149): with
\* that many, printing into the caller's buffer succeeds, formatted or not,
\* whatever ensure asks for on the way; and with fewer than it needs it fails.
FiveMoreSuffice ==
  call.name = "cJSON_PrintPreallocated" =>
    /\ result \in {"NULL", "crashed"} => call.size < Needed + 5
    /\ result = "text" => call.size >= Needed

\* When parsing is over, the blocks that are left are those of the item that
\* was returned, and none if it was NULL: each call that fails frees its list,
\* in whatever state it was and whichever allocation has failed (cjson.c:1372).
FailureFreesAll ==
  pc = "done" => live = IF value = NULL THEN 0 ELSE Blocks(value)

\* An item that is returned is what the text up to return_parse_end says, all
\* of it; and a text without comments that says what an item says, in its own
\* spelling and with its own white space, is parsed to that item, unless it is
\* nested too deeply, has a number too long to be looked at in whole
\* (cjson.c:246) or memory runs out.
ParsedRight ==
  pc = "done" =>
    /\ value # NULL => Meaning(SubSeq(text, 1, offset)) = Meaning(JSON(value))
    /\ MemoryLasts /\ "/" \notin Range(text) =>
         \A it \in Saying(Meaning(Front(text))) : Parseable(it) => value = Unraw(it)

\* What JSON_write sends is what JSON_read gets: an item that is printed, with
\* or without white space and through whatever buffer, and parsed again is the
\* same item. A raw item comes back as what its text is, and a number that is
\* not finite as null (cjson.c:446).
RoundTrip ==
  pc = "done" /\ item # NoItem /\ Parseable(item) /\ MemoryLasts => value = Unraw(item)

\* cJSON_Compare finds the two ends of a round trip equal, either way round and
\* with or without regard to case; but a second member of the same name is not
\* found in an object, not even in an equal copy of it (cjson.c:2597), so that
\* such an object is sure to be equal only where the pointer is the same. And two
\* items that compare equal both ways are the same up to the order of members,
\* unless they have arrays of different lengths, whose longer one is compared
\* only as far as the shorter one goes (cjson.c:2577).
ComparesEqual ==
  pc = "done" /\ value # NULL =>
    /\ item # NoItem => \A sensitive \in BOOLEAN : DistinctNames(item, sensitive) =>
         /\ cJSON_Compare(Unraw(item), value, FALSE, sensitive)
         /\ cJSON_Compare(value, Unraw(item), FALSE, sensitive)
    /\ \A sensitive \in BOOLEAN : cJSON_Compare(value, value, TRUE, sensitive)
    /\ \A it \in {it \in Items : it.type = value.type} :
         /\ DistinctNames(it, TRUE) /\ DistinctNames(value, TRUE)
         /\ Cardinality(ArrayLengths(it) \cup ArrayLengths(value)) <= 1
         /\ cJSON_Compare(it, value, FALSE, TRUE) /\ cJSON_Compare(value, it, FALSE, TRUE)
         => Unordered(it) = Unordered(value)

\* cJSON_Minify takes out white space and comments and leaves the meaning as it
\* is, and it goes on behind the terminator (cjson.c:2387, 2401) only where a
\* string or a comment is not closed. Two exceptions: "/*/" counts as a whole
\* comment, and white space between words or numbers makes one of two.
MinifyKeepsMeaning ==
  minified # "no" /\ ~(\E i \in DOMAIN source : Starts(source, i, <<"/", "*", "/">>)) =>
    /\ minified = "outside" => "unclosed" \in Range(Meaning(Front(source)))
    /\ pc = "idle" /\ minified = "yes" /\ "gap" \notin Range(Meaning(Front(source))) =>
         Meaning(Front(text)) = Meaning(Front(source))

=============================================================================
