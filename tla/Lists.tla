-------------------------------- MODULE Lists --------------------------------
(* What include/list.h promises: every head in use has a sequence of entries, *)
(* an entry is in at most one of them, and each operation moves entries in    *)
(* the way its name says, leaving the order of all others alone.              *)
EXTENDS Naturals, SequencesExt

CONSTANTS Heads, Entries

VARIABLES live, lists   \* the heads in use, and the entries of each head

Init == live = {} /\ lists = [h \in Heads |-> <<>>]

Listed(e) == \E h \in Heads : e \in Range(lists[h])

Start(h) ==
  /\ h \notin live
  /\ live' = live \cup {h}
  /\ UNCHANGED lists

Insert(h, e) ==
  /\ h \in live /\ ~Listed(e)
  /\ lists' \in {[lists EXCEPT ![h] = <<e>> \o @], [lists EXCEPT ![h] = Append(@, e)]}
  /\ UNCHANGED live

Unlist(e) ==
  /\ \E h \in Heads : \E i \in 1..Len(lists[h]) :
       lists[h][i] = e /\ lists' = [lists EXCEPT ![h] = RemoveAt(@, i)]
  /\ UNCHANGED live

\* All of from goes to one end of h; from is then empty, or no longer in use.
Join(from, h) ==
  /\ from \in live /\ h \in live /\ from # h
  /\ \E joined \in {lists[from] \o lists[h], lists[h] \o lists[from]} :
       lists' = [lists EXCEPT ![from] = <<>>, ![h] = joined]
  /\ live' \in {live, live \ {from}}

Next ==
  \/ \E h \in Heads : Start(h) \/ \E e \in Entries : Insert(h, e)
  \/ \E e \in Entries : Unlist(e)
  \/ \E from, h \in Heads : Join(from, h)

Spec == Init /\ [][Next]_<<live, lists>>

=============================================================================
