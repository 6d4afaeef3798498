------------------------------- MODULE ListHead -------------------------------
(* include/list.h: circular doubly linked lists whose links are embedded in   *)
(* the entries, and the traversals list_for_each_entry_safe and               *)
(* list_for_each_entry_safe_reverse, during whose body the current entry may  *)
(* be deleted or moved to another list. The heads and entries start zeroed,   *)
(* as calloc leaves them. Callers keep the contract of such lists: a head is  *)
(* initialised before use and again after list_splice, and only an entry that *)
(* is in no list is added.                                                    *)
EXTENDS Integers, SequencesExt

CONSTANTS
  Heads,    \* the list heads
  Entries,   \* the structs with an embedded list_head
  NULL

ASSUME NodeAssumption == Heads \cap Entries = {} /\ NULL \notin Heads \cup Entries
ASSUME EntriesAssumption == IsFiniteSet(Entries)

Node == Heads \cup Entries

VARIABLES
  next, prev,   \* the links of every node
  live,         \* heads initialised and not emptied by list_splice
  over,         \* the head being traversed, or NULL
  backward,     \* by list_for_each_entry_safe_reverse
  pos, n,       \* the cursors of the traversal
  todo          \* entries in the list when the traversal began, not yet visited

linkVars == <<next, prev>>
cursorVars == <<over, backward, pos, n, todo>>
vars == <<linkVars, live, cursorVars>>

Init ==
  /\ next = [x \in Node |-> NULL] /\ prev = [x \in Node |-> NULL]
  /\ live = {}
  /\ over = NULL /\ backward = FALSE /\ pos = NULL /\ n = NULL /\ todo = <<>>

-----------------------------------------------------------------------------
(* The links after each function of list.h, given the links before. A C       *)
(* statement x->next = y is an EXCEPT; a later one sees the earlier ones.     *)

list_empty(h) == next[h] = h

\* The i-th node of the ring of h whose entries are q; h is at both ends.
At(h, q, i) == IF i \in 1..Len(q) THEN q[i] ELSE h

\* The entries from h on, found by following next: the list as it is.
Items(h) ==
  CHOOSE q \in BoundedSeq(Entries, Cardinality(Entries)) :
    \A i \in 0..Len(q) : next[At(h, q, i)] = At(h, q, i + 1)

\* Faulty variants: the old neighbour keeps its backward link; the neighbour
\* behind a joined list is forgotten.
InsertOneWay(e, before, after) ==
  /\ next' = [next EXCEPT ![e] = after, ![before] = e]
  /\ prev' = [prev EXCEPT ![e] = before]

\* __list_add puts e between two consecutive nodes.
InsertBetween(e, before, after) ==
  /\ next' = [next EXCEPT ![e] = after, ![before] = e]
  /\ prev' = [prev EXCEPT ![after] = e, ![e] = before]

list_add(e, h) == InsertBetween(e, h, next[h])
list_add_tail(e, h) == InsertBetween(e, prev[h], next[prev[h]])

\* __list_del and then the entry's own links.
DeleteThen(e, to) ==
  /\ next' = [next EXCEPT ![prev[e]] = next[e], ![e] = to]
  /\ prev' = [prev EXCEPT ![next[e]] = prev[e], ![e] = to]

list_del(e) == DeleteThen(e, NULL)
list_del_init(e) == DeleteThen(e, e)

SpliceForgetsRest(list, before, after, reinit) ==
  /\ next' = [next EXCEPT ![before] = next[list], ![prev[list]] = before,
                          ![list] = IF reinit THEN list ELSE @]
  /\ prev' = [prev EXCEPT ![next[list]] = before, ![before] = prev[list],
                          ![list] = IF reinit THEN list ELSE @]

\* __list_splice puts the entries of list between two neighbours; the links of
\* list itself stay as they were unless it is reinitialised.
SpliceBetween(list, before, after, reinit) ==
  /\ next' = [next EXCEPT ![before] = next[list], ![prev[list]] = after,
                          ![list] = IF reinit THEN list ELSE @]
  /\ prev' = [prev EXCEPT ![next[list]] = before, ![after] = prev[list],
                          ![list] = IF reinit THEN list ELSE @]

-----------------------------------------------------------------------------
(* The operations of a program that uses the lists.                           *)

Unlisted(e) == next[e] \in {NULL, e}

\* A list being traversed changes only by the deletion of its current entry.
Touchable(h) == h \in live /\ h # over
Deletable(e) ==
  /\ ~Unlisted(e)
  /\ over # NULL /\ e # pos => \A i \in DOMAIN Items(over) : Items(over)[i] # e

init_list_head(h) ==
  /\ h \notin live
  /\ next' = [next EXCEPT ![h] = h] /\ prev' = [prev EXCEPT ![h] = h]
  /\ live' = live \cup {h}
  /\ UNCHANGED cursorVars

Add(e, h) ==
  /\ Touchable(h) /\ Unlisted(e)
  /\ list_add(e, h) \/ list_add_tail(e, h)
  /\ UNCHANGED <<live, cursorVars>>

Delete(e) ==
  /\ Deletable(e)
  /\ list_del(e) \/ list_del_init(e)
  /\ UNCHANGED <<live, cursorVars>>

list_splice(list, h) ==
  /\ Touchable(list) /\ Touchable(h) /\ list # h /\ ~list_empty(list)
  /\ SpliceBetween(list, h, next[h], FALSE)
  /\ live' = live \ {list}
  /\ UNCHANGED cursorVars

SpliceInit(list, h) ==
  /\ Touchable(list) /\ Touchable(h) /\ list # h /\ ~list_empty(list)
  /\ \/ SpliceBetween(list, h, next[h], TRUE)    \* list_splice_init
     \/ SpliceBetween(list, prev[h], h, TRUE)    \* list_splice_tail_init
  /\ UNCHANGED <<live, cursorVars>>

-----------------------------------------------------------------------------
(* list_for_each_entry_safe(pos, n, over), and its reverse.                   *)

Begin(h, back) ==
  LET to(x) == IF back THEN prev[x] ELSE next[x]
  IN  /\ over = NULL /\ h \in live
      /\ over' = h /\ backward' = back
      /\ pos' = to(h) /\ n' = to(to(h))
      /\ todo' = IF back THEN Reverse(Items(h)) ELSE Items(h)
      /\ UNCHANGED <<linkVars, live>>

\* The link a traversal follows.
Onward(x) == IF backward THEN prev[x] ELSE next[x]

\* Faulty variant: the next entry is read from the current one, as the plain
\* list_for_each_entry does.
AdvanceUnsafe ==
  /\ over # NULL /\ pos # over
  /\ pos' = Onward(pos) /\ n' = Onward(n)
  /\ todo' = Tail(todo)
  /\ UNCHANGED <<linkVars, live, over, backward>>

Advance ==
  /\ over # NULL /\ pos # over
  /\ pos' = n /\ n' = Onward(n)
  /\ todo' = Tail(todo)
  /\ UNCHANGED <<linkVars, live, over, backward>>

Leave ==
  /\ over # NULL /\ pos = over
  /\ over' = NULL /\ backward' = FALSE /\ pos' = NULL /\ n' = NULL /\ todo' = <<>>
  /\ UNCHANGED <<linkVars, live>>

Next ==
  \/ \E h \in Heads : \/ init_list_head(h) \/ \E back \in BOOLEAN : Begin(h, back)
                     \/ \E e \in Entries : Add(e, h)
                     \/ \E list \in Heads : list_splice(list, h) \/ SpliceInit(list, h)
  \/ \E e \in Entries : Delete(e)
  \/ Advance \/ Leave

Spec == Init /\ [][Next]_vars

-----------------------------------------------------------------------------
(* Properties.                                                               *)

\* The links point to nodes, and the cursors of a traversal are never NULL.
TypeOK ==
  /\ next \in [Node -> Node \cup {NULL}] /\ prev \in [Node -> Node \cup {NULL}]
  /\ live \subseteq Heads
  /\ over \in Heads \cup {NULL} /\ backward \in BOOLEAN
  /\ over # NULL => pos \in Node /\ n \in Node
  /\ todo \in Seq(Entries)

\* Nodes that are in a ring: heads in use, and entries that are linked.
Linked == live \cup {e \in Entries : next[e] # NULL}

\* Every list is a ring that can be walked both ways, and no link leads from a
\* ring to a deleted entry or to a head that is no longer in use.
Rings ==
  \A x \in Linked : /\ next[x] \in Linked /\ prev[next[x]] = x
                    /\ prev[x] \in Linked /\ next[prev[x]] = x

\* A traversal stands at the first entry it has not visited: each entry the list
\* had when the loop began is visited once and in order, or in reverse order,
\* although the body may delete the current one or move it to another list.
TraversalInStep ==
  over # NULL => pos = (IF todo = <<>> THEN over ELSE Head(todo))

\* The pointers implement sequences of entries.
Abstract == INSTANCE Lists
               WITH lists <- [h \in Heads |-> IF h \in live THEN Items(h) ELSE <<>>]

ImplementsLists == Abstract!Spec

=============================================================================
