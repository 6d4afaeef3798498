------------------------------- MODULE CJSONTree -------------------------------
(* The tree functions of cjson.c: items linked by next, prev and child, built  *)
(* up, taken apart and freed through the public interface. The first child of  *)
(* a container has prev NULL and the last has next NULL, so an item that is an *)
(* only child has the links of an item that is in no tree.                     *)
(*                                                                             *)
(* Callers keep the contract of the interface: they add only items that are in *)
(* no tree, to a container outside the item's own tree; they free nothing that *)
(* a reference still points to; they use the functions for arrays on arrays    *)
(* and those for objects on objects. An index out of range, a name that is not *)
(* there and an allocation that fails are no breach of it: where the functions *)
(* then go through a NULL pointer, `fault` is set and the process is over.     *)
EXTENDS SequencesExt, FiniteSets, Naturals

CONSTANTS
  Item,   \* the memory blocks items may be allocated in
  Name,   \* the names an item of an object may have
  NULL

ASSUME NullAssumption == NULL \notin Item \cup Name
ASSUME NodeAssumption == NULL \notin Nat \cup Seq(Item)   \* the nodes of Build's trees
ASSUME ItemAssumption == IsFiniteSet(Item)

VARIABLES
  type,                \* of each item, "free" when it is not allocated
  next, prev, child,   \* its links
  string,              \* its name
  kind,                \* of a reference, the type it has beside cJSON_IsReference
  held,                \* the items that the caller has been given, has put into no
                       \* other item and has not freed
  fault                \* the process has gone through a NULL pointer or
                       \* recursed without end

vars == <<type, next, prev, child, string, kind, held, fault>>

Init ==
  /\ type = [i \in Item |-> "free"]
  /\ next = [i \in Item |-> NULL] /\ prev = [i \in Item |-> NULL]
  /\ child = [i \in Item |-> NULL] /\ string = [i \in Item |-> NULL]
  /\ kind = [i \in Item |-> "array"]
  /\ held = {} /\ fault = FALSE

Allocated == {i \in Item : type[i] # "free"}
OfType(t) == {i \in Item : type[i] = t}
Containers == {i \in Item : type[i] \in {"array", "object"}}

-----------------------------------------------------------------------------
(* Links. The operators work on a record of the three functions, because one   *)
(* call often relinks and then frees. Here and below, an operator placed       *)
(* before another and named after it (PutUnchecked, DetachedKeepingPrev,       *)
(* ReplacedStillLinked, DeletedWithReferences) is a faulty variant of it, which*)
(* some property must notice.                                                  *)

links == [next |-> next, prev |-> prev, child |-> child]
SetLinks(L) == next' = L.next /\ prev' = L.prev /\ child' = L.child

PutUnchecked(f, x, v) == (x :> v) @@ f
\* What the pointer x leads to gets the value v; nothing happens through NULL.
Put(f, x, v) == IF x = NULL THEN f ELSE [f EXCEPT ![x] = v]

\* The items from i on along f; no walk is longer than there are items.
Along(f, i) ==
  LET walk[n \in Nat] ==
        [x \in Item |-> IF n = 0 THEN <<>>
                        ELSE IF f[x] = NULL THEN <<x>> ELSE <<x>> \o walk[n - 1][f[x]]]
  IN  IF i = NULL THEN <<>> ELSE walk[Cardinality(Item)][i]

Children(p) == Along(next, child[p])

\* suffix_object at the end of the children of p.
Appended(L, p, i) ==
  IF L.child[p] = NULL THEN [L EXCEPT !.child[p] = i]
  ELSE [L EXCEPT !.next[Last(Children(p))] = i, !.prev[i] = Last(Children(p))]

DetachedKeepingPrev(L, p, i) ==
  [next  |-> Put(Put(L.next, L.prev[i], L.next[i]), i, NULL),
   prev  |-> Put(L.prev, i, NULL),
   child |-> IF L.child[p] = i THEN Put(L.child, p, L.next[i]) ELSE L.child]
Detached(L, p, i) ==
  [next  |-> Put(Put(L.next, L.prev[i], L.next[i]), i, NULL),
   prev  |-> Put(Put(L.prev, L.next[i], L.prev[i]), i, NULL),
   child |-> IF L.child[p] = i THEN Put(L.child, p, L.next[i]) ELSE L.child]

\* i goes before a, one of the children of p.
Inserted(L, p, a, i) ==
  [next  |-> Put(Put(L.next, i, a), L.prev[a], i),
   prev  |-> Put(Put(L.prev, i, L.prev[a]), a, i),
   child |-> IF L.child[p] = a THEN Put(L.child, p, i) ELSE L.child]

ReplacedStillLinked(L, p, i, r) ==
  [next  |-> Put(Put(L.next, r, L.next[i]), L.prev[i], r),
   prev  |-> Put(Put(L.prev, r, L.prev[i]), L.next[i], r),
   child |-> IF L.child[p] = i THEN Put(L.child, p, r) ELSE L.child]
\* r takes the place of i, and i is unlinked before it is deleted.
Replaced(L, p, i, r) ==
  [next  |-> Put(Put(Put(L.next, r, L.next[i]), L.prev[i], r), i, NULL),
   prev  |-> Put(Put(Put(L.prev, r, L.prev[i]), L.next[i], r), i, NULL),
   child |-> IF L.child[p] = i THEN Put(L.child, p, r) ELSE L.child]

-----------------------------------------------------------------------------
(* cJSON_Delete.                                                               *)

\* What the pointers of `step` lead to from i; no way there is longer than there
\* are items.
Closure(i, step) ==
  LET reached[n \in Nat] ==
        IF n = 0 THEN {i}
        ELSE LET r == reached[n - 1] IN r \cup ((UNION {step[y] : y \in r}) \ {NULL})
  IN  reached[Cardinality(Item)]

DeletedWithReferences(L, i) == Closure(i, [y \in Item |-> {L.next[y], L.child[y]}])
\* cJSON_Delete(i) frees i, what follows it, and the children of those, except
\* the children of a reference, which belong to another item.
Deleted(L, i) ==
  Closure(i, [y \in Item |-> {L.next[y]} \cup
                             IF type[y] = "reference" THEN {} ELSE {L.child[y]}])

\* A reference outside the set does not lead into it.
NotReferenced(S) == \A r \in OfType("reference") \ S : child[r] \notin S

\* The call ends with cJSON_Delete(i), the links being L at that point.
EndsWithDelete(L, i, names) ==
  LET gone == Deleted(L, i)
      clear(f) == [x \in Item |-> IF x \in gone THEN NULL ELSE f[x]]
  IN  /\ NotReferenced(gone)
      /\ type' = [x \in Item |-> IF x \in gone THEN "free" ELSE type[x]]
      /\ SetLinks([next |-> clear(L.next), prev |-> clear(L.prev),
                   child |-> clear(L.child)])
      /\ string' = clear(names)
      /\ kind' = [x \in Item |-> IF x \in gone THEN "array" ELSE kind[x]]
      /\ UNCHANGED fault

-----------------------------------------------------------------------------
(* Finding items, and the contract for adding them.                            *)

\* One index past the end is as good as another.
Indices(p) == 0..Len(Children(p))
get_array_item(p, which) ==
  IF which < Len(Children(p)) THEN Children(p)[which + 1] ELSE NULL

\* The first child of that name.
Named(p, name) == {k \in DOMAIN Children(p) : string[Children(p)[k]] = name}
get_object_item(p, name) ==
  IF Named(p, name) = {} THEN NULL
  ELSE Children(p)[CHOOSE k \in Named(p, name) : \A j \in Named(p, name) : k <= j]

\* strcmp reads through the NULL of a child without a name that comes before
\* any child of the name; case_insensitive_strcmp does not.
StrcmpFaults(p, name) ==
  \E k \in DOMAIN Children(p) :
    /\ string[Children(p)[k]] = NULL
    /\ \A j \in Named(p, name) : k < j

Root(i) == i \in Allocated /\ \A p \in Containers : i \notin Range(Children(p))
MayAdd(p, i) == p \in Containers /\ Root(i) /\ p \notin Deleted(links, i)

Fault == fault' = TRUE /\ UNCHANGED <<type, next, prev, child, string, kind, held>>

-----------------------------------------------------------------------------
(* The functions that create, add and free.                                    *)

\* Memory is exhausted once every block is in use: then cJSON_New_Item fails,
\* and so may cJSON_strdup.
NoMemory == Allocated = Item

\* cJSON_New_Item finds a block. An item that is no container is like one that
\* stays empty, so it has no type of its own here.
Create(i, t) ==
  /\ type[i] = "free"
  /\ type' = [type EXCEPT ![i] = t]
  /\ held' = held \cup {i}
  /\ UNCHANGED <<next, prev, child, string, kind, fault>>

\* The results of copying a name.
Copies(name) == {name} \cup IF NoMemory THEN {NULL} ELSE {}

cJSON_AddItemToArray(p, i) ==
  /\ type[p] = "array" /\ MayAdd(p, i)
  /\ SetLinks(Appended(links, p, i))
  /\ held' = held \ {i}
  /\ UNCHANGED <<type, string, kind, fault>>

\* The item is added even when its name could not be copied. An item that could
\* not be created, NULL, is read for its type.
cJSON_AddItemToObject(p, name, i) ==
  /\ type[p] = "object" /\ MayAdd(p, i)
  /\ SetLinks(Appended(links, p, i))
  /\ \E copy \in Copies(name) : string' = [string EXCEPT ![i] = copy]
  /\ held' = held \ {i}
  /\ UNCHANGED <<type, kind, fault>>

AddNullToObject(p) == type[p] = "object" /\ NoMemory /\ Fault

\* What the type of an item is without cJSON_IsReference.
Kind(i) == IF type[i] = "reference" THEN kind[i] ELSE type[i]

\* create_reference copies the child pointer, not the children.
AddReference(p, names, i) ==
  /\ i \in Allocated
  /\ \E ref \in OfType("free") :
       /\ type' = [type EXCEPT ![ref] = "reference"]
       /\ kind' = [kind EXCEPT ![ref] = Kind(i)]
       /\ SetLinks([Appended(links, p, ref) EXCEPT !.child[ref] = child[i]])
       /\ \E copy \in names : string' = [string EXCEPT ![ref] = copy]
  /\ UNCHANGED <<held, fault>>

\* Without memory for the reference nothing is added, and nothing reports it.
cJSON_AddItemReferenceToArray(p, i) ==
  type[p] = "array" /\ AddReference(p, {NULL}, i)

cJSON_AddItemReferenceToObject(p, name, i) ==
  type[p] = "object" /\ AddReference(p, Copies(name), i)

cJSON_Delete(i) == Root(i) /\ EndsWithDelete(links, i, string) /\ held' = held \ {i}

-----------------------------------------------------------------------------
(* The functions that take an item of p, which the caller has found by its     *)
(* index or its name. Given no item, those that detach or delete do nothing.   *)

Detach(p, i) ==
  /\ i # NULL
  /\ SetLinks(Detached(links, p, i))
  /\ held' = held \cup {i}
  /\ UNCHANGED <<type, string, kind, fault>>

DeleteItem(p, i) ==
  i # NULL /\ EndsWithDelete(Detached(links, p, i), i, string) /\ UNCHANGED held

ByIndex(p, Do(_, _)) ==
  /\ type[p] = "array"
  /\ \E which \in Indices(p) : Do(p, get_array_item(p, which))
ByName(p, name, Do(_, _)) == type[p] = "object" /\ Do(p, get_object_item(p, name))
ByNameCaseSensitive(p, name, Do(_, _)) ==
  /\ type[p] = "object"
  /\ IF StrcmpFaults(p, name) THEN Fault ELSE Do(p, get_object_item(p, name))

cJSON_DetachItemViaPointer(p, i) ==
  p \in Containers /\ i \in Range(Children(p)) /\ Detach(p, i)
cJSON_DetachItemFromArray(p) == ByIndex(p, Detach)
cJSON_DeleteItemFromArray(p) == ByIndex(p, DeleteItem)
cJSON_DetachItemFromObject(p, name) == ByName(p, name, Detach)
cJSON_DeleteItemFromObject(p, name) == ByName(p, name, DeleteItem)
cJSON_DetachItemFromObjectCaseSensitive(p, name) == ByNameCaseSensitive(p, name, Detach)
cJSON_DeleteItemFromObjectCaseSensitive(p, name) == ByNameCaseSensitive(p, name, DeleteItem)

\* An index past the end appends.
cJSON_InsertItemInArray(p, i) ==
  /\ type[p] = "array" /\ MayAdd(p, i)
  /\ \E which \in Indices(p) :
       SetLinks(LET a == get_array_item(p, which)
                IN  IF a = NULL THEN Appended(links, p, i) ELSE Inserted(links, p, a, i))
  /\ held' = held \ {i}
  /\ UNCHANGED <<type, string, kind, fault>>

\* With no item to replace, next is read through NULL. The replacement keeps
\* the name it has, if it has one.
ReplaceBy(r, p, i) ==
  IF i = NULL THEN Fault
  ELSE EndsWithDelete(Replaced(links, p, i, r), i, string) /\ held' = held \ {r}

cJSON_ReplaceItemViaPointer(p, i) ==
  /\ p \in Containers /\ i \in Range(Children(p))
  /\ \E r \in Item : MayAdd(p, r) /\ ReplaceBy(r, p, i)
cJSON_ReplaceItemInArray(p, r) ==
  type[p] = "array" /\ MayAdd(p, r) /\ ByIndex(p, LAMBDA q, i : ReplaceBy(r, q, i))
cJSON_ReplaceItemInObject(p, name, r) ==
  type[p] = "object" /\ MayAdd(p, r) /\ ByName(p, name, LAMBDA q, i : ReplaceBy(r, q, i))
cJSON_ReplaceItemInObjectCaseSensitive(p, name, r) ==
  type[p] = "object" /\ MayAdd(p, r) /\ ByNameCaseSensitive(p, name, LAMBDA q, i : ReplaceBy(r, q, i))

-----------------------------------------------------------------------------
(* The functions that build a tree; the call returns the item of the node top. *)

\* The nodes of B are there, in these blocks; `at` says which one each holds.
Built(B, at, tree) ==
  LET block(x) == IF \E b \in B : at[b] = x THEN CHOOSE b \in B : at[b] = x ELSE NULL
      over(f, g) == [b \in Item |-> IF b \in B THEN block(g[at[b]]) ELSE f[b]]
  IN  /\ type' = [b \in Item |-> IF b \in B THEN tree.type[at[b]] ELSE type[b]]
      /\ next' = over(next, tree.next) /\ prev' = over(prev, tree.prev)
      /\ child' = over(child, tree.child)
      /\ string' = [b \in Item |-> IF b \in B THEN tree.string[at[b]] ELSE string[b]]
      /\ UNCHANGED <<kind, fault>>

Holding(tree, nodes, top) ==
  \E B \in SUBSET OfType("free") :
    /\ Cardinality(B) = Cardinality(nodes)
    /\ \E at \in Bijection(B, nodes) :
         Built(B, at, tree) /\ held' = held \cup {b \in B : at[b] = top}

Build(tree, top) == Holding(tree, DOMAIN tree.type, top)

\* The allocation that fails is that of the last of the nodes `made`, or of its
\* name or text.
OutOfMemory(made) == Cardinality(made) - Cardinality(OfType("free")) \in {0, 1}

\* The calls that have not returned are those for the nodes of `open`, whose items
\* are linked from nowhere yet. Each of them ends with cJSON_Delete of its item x.
ReleasedAlone(tree, made, open, x) == {x}
Released(tree, made, open, x) ==
  LET to(f, y) == {f[y]} \cap (made \ open)
  IN  Closure(x, [y \in made |-> to(tree.next, y) \cup to(tree.child, y)])

\* What these calls do not release stays allocated, and nobody is given it.
Fails(tree, made, open) ==
  /\ OutOfMemory(made)
  /\ Holding(tree, made \ UNION {Released(tree, made, open, x) : x \in open}, NULL)

\* What the recursion comes to: each call is the path from i down to its item.
Paths(i, recurse) ==
  LET down[n \in Nat] ==
        IF n = 0 THEN {<<i>>}
        ELSE UNION {{Append(q, k) : k \in Range(Children(Last(q)))} : q \in down[n - 1]}
  IN  IF recurse THEN UNION {down[n] : n \in 0..Cardinality(Item)} ELSE {<<i>>}

\* An item refers to a container it is itself in.
Endless(S) == \E q \in S : Len(q) > Cardinality(Item)

\* The children of a reference are copied as well, and the copy owns them: it is
\* no reference. The first item has no neighbours in the copy, and the first of
\* the children of a reference has no prev, wherever they are in their own list.
CopyOf(S, recurse) ==
  LET beside(q, x) == IF Len(q) = 1 \/ x = NULL THEN NULL ELSE Append(Front(q), x)
      first(q) == Len(q) = 1 \/ child[q[Len(q) - 1]] = Last(q)
  IN  [type   |-> [q \in S |-> Kind(Last(q))],
       next   |-> [q \in S |-> beside(q, next[Last(q)])],
       prev   |-> [q \in S |-> IF first(q) THEN NULL ELSE beside(q, prev[Last(q)])],
       child  |-> [q \in S |-> IF ~recurse \/ child[Last(q)] = NULL THEN NULL
                               ELSE Append(q, child[Last(q)])],
       string |-> [q \in S |-> string[Last(q)]]]

\* The calls under way when the item of q is to be copied.
OnTheWay(q) == {SubSeq(q, 1, n) : n \in 1..Len(q)}

\* s leads to a child that comes before the one q leads to, or to what is below it.
Before(s, q) ==
  \E n \in 1..(Len(q) - 1) :
    /\ n < Len(s) /\ SubSeq(s, 1, n) = SubSeq(q, 1, n)
    /\ LET c == Children(q[n])
       IN  \E j, k \in DOMAIN c : j < k /\ c[j] = s[n + 1] /\ c[k] = q[n + 1]

\* What there is of the copy by then.
CopiedBy(S, q) == OnTheWay(q) \cup {s \in S : Before(s, q)}

cJSON_Duplicate(i, recurse) ==
  /\ i \in Allocated
  /\ LET S == Paths(i, recurse)
         tree == CopyOf(S, recurse)
     IN  \/ Endless(S) /\ Fault
         \/ ~Endless(S) /\ Build(tree, <<i>>)
         \/ \E q \in S : /\ Len(q) <= Cardinality(OfType("free")) + 1
                         /\ Fails(tree, CopiedBy(S, q), OnTheWay(q))

\* An array, 0, of so many numbers or strings.
ArrayOf(count) ==
  [type   |-> [k \in 0..count |-> "array"],
   next   |-> [k \in 0..count |-> IF k \in {0, count} THEN NULL ELSE k + 1],
   prev   |-> [k \in 0..count |-> IF k \in {0, 1} THEN NULL ELSE k - 1],
   child  |-> [k \in 0..count |-> IF k = 0 /\ count > 0 THEN 1 ELSE NULL],
   string |-> [k \in 0..count |-> NULL]]

CreateArrayOf(count) ==
  \/ Build(ArrayOf(count), 0)
  \/ \E k \in 0..count : Fails(ArrayOf(count), 0..k, {0, k})

-----------------------------------------------------------------------------
\* Without a child to copy, recurse is of no account.
OnOne(p) ==
  \/ cJSON_DetachItemFromArray(p) \/ cJSON_DeleteItemFromArray(p)
  \/ AddNullToObject(p) \/ cJSON_Delete(p)
  \/ \E recurse \in (IF child[p] = NULL THEN {FALSE} ELSE BOOLEAN) : cJSON_Duplicate(p, recurse)

OnTwo(p, i) ==
  \/ cJSON_AddItemToArray(p, i) \/ cJSON_AddItemReferenceToArray(p, i)
  \/ cJSON_InsertItemInArray(p, i) \/ cJSON_DetachItemViaPointer(p, i)
  \/ cJSON_ReplaceItemInArray(p, i) \/ cJSON_ReplaceItemViaPointer(p, i)

OnObject(p, name) ==
  \/ cJSON_DetachItemFromObject(p, name) \/ cJSON_DeleteItemFromObject(p, name)
  \/ cJSON_DetachItemFromObjectCaseSensitive(p, name)
  \/ cJSON_DeleteItemFromObjectCaseSensitive(p, name)
  \/ \E i \in Item : \/ cJSON_AddItemToObject(p, name, i)
                     \/ cJSON_AddItemReferenceToObject(p, name, i)
                     \/ cJSON_ReplaceItemInObject(p, name, i)
                     \/ cJSON_ReplaceItemInObjectCaseSensitive(p, name, i)

\* A longer array fails like one that needs one block more than there are.
Next ==
  /\ ~fault
  /\ \/ \E i \in Item, t \in {"array", "object"} : Create(i, t)
     \/ \E count \in 0..Cardinality(OfType("free")) : CreateArrayOf(count)
     \/ \E p \in Item : \/ OnOne(p)
                        \/ \E i \in Item : OnTwo(p, i)
                        \/ \E name \in Name : OnObject(p, name)

Spec == Init /\ [][Next]_vars

-----------------------------------------------------------------------------
(* Properties.                                                                 *)

TypeOK ==
  /\ type \in [Item -> {"free", "array", "object", "reference"}]
  /\ \A f \in {next, prev, child} : f \in [Item -> Item \cup {NULL}]
  /\ string \in [Item -> Name \cup {NULL}]
  /\ kind \in [Item -> {"array", "object"}]
  /\ held \in SUBSET Item /\ fault \in BOOLEAN

\* No link of an item in use leads to freed memory. It takes a freed sibling
\* that its neighbours still point to, or cJSON_Delete following a reference
\* into children that another item owns, to break it.
NothingDangling ==
  \A i \in Allocated : {next[i], prev[i], child[i]} \subseteq Allocated \cup {NULL}

\* The children of a container are doubly linked, the first with no prev, and
\* an item that is in no container has no neighbours: that is what every
\* function that adds or deletes an item counts on.
SiblingsLinked ==
  /\ \A p \in Containers :
       LET c == Children(p)
       IN  \A k \in DOMAIN c : prev[c[k]] = IF k = 1 THEN NULL ELSE c[k - 1]
  /\ \A i \in Allocated : Root(i) => next[i] = NULL /\ prev[i] = NULL

\* The items that are in no container are those that the caller holds: a call that
\* fails half way keeps nothing it has allocated, no call drops a part of what it
\* takes apart, and no item the caller still has to free is freed or put away.
NothingLost == held = {i \in Item : Root(i)}

\* Every call moves, adds or frees whole subtrees and leaves the order of all
\* other items alone; nothing is freed twice and no item is in two places.
Forest == INSTANCE JsonForest WITH
  alloc <- Allocated,
  kids <- [i \in Item |-> IF type[i] \in {"array", "object"} THEN Children(i) ELSE <<>>]
ImplementsForest == Forest!Spec

\* "The item's name string, if this item is the child of, or is in the list of
\* subitems of an object" (cjson.h:72): a child of an object has a name. The
\* lookups that compare names with strcmp count on it.
ChildrenNamed == \A p \in OfType("object") : \A i \in Range(Children(p)) : string[i] # NULL

=============================================================================
