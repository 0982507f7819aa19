------------------------------ MODULE ListSpec ------------------------------
(***************************************************************************)
(* What the intrusive lists of list.h, dllist.h and linux_kenel_list.h     *)
(* promise: every initialised head has a sequence of items, no item is on  *)
(* two lists, and each call edits one or two of the sequences.             *)
(***************************************************************************)
EXTENDS Integers, Sequences, SequencesExt

CONSTANTS Heads, Items, None

VARIABLE lists      \* for each head its items, or None before it is initialised

Live == {h \in Heads : lists[h] # None}

Free(i) == \A h \in Live : i \notin Range(lists[h])

Init == lists = [h \in Heads |-> None]

(* A head starts, or starts again, with no items. *)
Empty(h) == lists' = [lists EXCEPT ![h] = << >>]

(* An item that is on no list is put at place k. *)
Insert(h, k, i) ==
    /\ Free(i)
    /\ lists' = [lists EXCEPT ![h] = InsertAt(@, k, i)]

Delete(h, k) == lists' = [lists EXCEPT ![h] = RemoveAt(@, k)]

(* A free item takes the place of another. *)
Replace(h, k, i) ==
    /\ Free(i)
    /\ lists' = [lists EXCEPT ![h][k] = i]

(* An item goes to the front or to the back of a list, its own one included. *)
Move(g, j, h, front) ==
    LET i == lists[g][j]
        rest == [lists EXCEPT ![g] = RemoveAt(@, j)]
    IN lists' = [rest EXCEPT ![h] = IF front THEN << i >> \o @ ELSE @ \o << i >>]

(* The first k items of h become the list l, which had none. *)
Cut(l, h, k) ==
    /\ lists[l] \in {None, << >>}
    /\ lists' = [lists EXCEPT ![l] = SubSeq(lists[h], 1, k),
                              ![h] = SubSeq(@, k + 1, Len(@))]

(* All items of g go to h; g is empty after that, or no list at all. *)
Splice(g, h, front, init) ==
    lists' = [lists EXCEPT ![h] = IF front THEN lists[g] \o @ ELSE @ \o lists[g],
                           ![g] = IF init THEN << >> ELSE None]

Next ==
    \/ \E h \in Heads : Empty(h)
    \/ \E h \in Live, i \in Items : \E k \in 1 .. Len(lists[h]) + 1 : Insert(h, k, i)
    \/ \E h \in Live : \E k \in 1 .. Len(lists[h]) : Delete(h, k)
    \/ \E h \in Live, i \in Items : \E k \in 1 .. Len(lists[h]) : Replace(h, k, i)
    \/ \E g, h \in Live, front \in BOOLEAN :
           \E j \in 1 .. Len(lists[g]) : Move(g, j, h, front)
    \/ \E l \in Heads, h \in Live : l # h /\ \E k \in 0 .. Len(lists[h]) : Cut(l, h, k)
    \/ \E g, h \in Live, front, init \in BOOLEAN : g # h /\ Splice(g, h, front, init)

Spec == Init /\ [][Next]_lists
=============================================================================
