------------------------------ MODULE JsonForest ------------------------------
(* What the tree functions of cjson.c promise: the allocated items form an    *)
(* ordered forest, an item is in at most one container, and an operation      *)
(* moves, adds or frees whole subtrees and leaves the order of all others     *)
(* alone.                                                                     *)
EXTENDS SequencesExt, FiniteSets, Naturals

CONSTANT Item

VARIABLES alloc, kids   \* the allocated items, and the children of each

Init == alloc = {} /\ kids = [i \in Item |-> <<>>]

Root(i) == i \in alloc /\ \A p \in Item : i \notin Range(kids[p])

\* The items on the ways down from i in k; none is longer than there are items.
TreeIn(k, i) ==
  LET reached[n \in Nat] ==
        IF n = 0 THEN {i}
        ELSE LET r == reached[n - 1] IN r \cup UNION {Range(k[x]) : x \in r}
  IN  reached[Cardinality(Item)]
Tree(i) == TreeIn(kids, i)

\* A single tree of new items, each in one place of it.
Build ==
  LET new == alloc' \ alloc
      place == {q \in new \X (1..Cardinality(Item)) : q[2] <= Len(kids'[q[1]])}
  IN  /\ alloc \subseteq alloc'
      /\ \E top \in new : TreeIn(kids', top) = new
      /\ \A x \in Item \ new : kids'[x] = kids[x]
      /\ Cardinality(place) = Cardinality(new) - 1

Attach ==
  /\ UNCHANGED alloc
  /\ \E p \in alloc :
       /\ Len(kids'[p]) > Len(kids[p])
       /\ \E i \in alloc :
            /\ Root(i) /\ p \notin Tree(i)
            /\ \E at \in 1..Len(kids[p]) + 1 : kids' = [kids EXCEPT ![p] = InsertAt(@, at, i)]

\* A reference is created and attached in one call.
AttachNew ==
  \E i \in Item \ alloc :
    /\ alloc' = alloc \cup {i}
    /\ \E p \in alloc : kids' = [kids EXCEPT ![p] = Append(@, i)]

Detach ==
  /\ UNCHANGED alloc
  /\ \E p \in alloc :
       /\ Len(kids'[p]) < Len(kids[p])
       /\ \E at \in DOMAIN kids[p] : kids' = [kids EXCEPT ![p] = RemoveAt(@, at)]

\* k after the trees of the items in `freed` have gone.
Without(freed, k) == [x \in Item |-> IF x \in freed THEN <<>> ELSE k[x]]

Free ==
  \E i \in alloc \ alloc' :
    /\ Root(i)
    /\ alloc' = alloc \ Tree(i)
    /\ kids' = Without(Tree(i), kids)

\* An item is freed where it stands, and what takes its place, if anything
\* does, was a root.
FreeChild ==
  \E i \in alloc \ alloc', p \in alloc : \E at \in DOMAIN kids[p] :
    /\ kids[p][at] = i
    /\ alloc' = alloc \ Tree(i)
    /\ \/ kids' = Without(Tree(i), [kids EXCEPT ![p] = RemoveAt(@, at)])
       \/ \E new \in alloc :
            /\ Root(new) /\ p \notin Tree(new)
            /\ kids' = Without(Tree(i), [kids EXCEPT ![p] = ReplaceAt(@, at, new)])

Next == Build \/ Detach \/ AttachNew \/ Free \/ FreeChild \/ Attach

Spec == Init /\ [][Next]_<<alloc, kids>>

=============================================================================
