------------------------------ MODULE HashList ------------------------------
(***************************************************************************)
(* The hlist of linux_kenel_list.h: a head of one pointer, and nodes that  *)
(* know the place that points to them.  A place is a head's "first" or a   *)
(* node's "next".  The same abstract lists as for the doubly linked ones.  *)
(***************************************************************************)
EXTENDS Integers, FiniteSets, Sequences, SequencesExt

CONSTANTS Heads, Items, NULL,
          POISON,         \* LIST_POISON1, LIST_POISON2
          None

Places == Heads \cup Items

VARIABLES
    at,         \* what each place points to: first, or next
    pprev       \* the place that points to each node

vars == <<at, pprev>>

(* Static memory: a node is INIT_HLIST_NODE'd, a head is not yet initialised. *)
Init == /\ at = [p \in Places |-> IF p \in Heads THEN POISON ELSE NULL]
        /\ pprev = [i \in Items |-> NULL]

LiveHeads == {h \in Heads : at[h] # POISON}

hlist_unhashed(n) == pprev[n] = NULL

(* On a list: neither unhashed, nor deleted and poisoned, nor a fake. *)
Listed(n) == pprev[n] \notin {NULL, POISON, n}

Memory == [at |-> at, pprev |-> pprev]

Becomes(m) == at' = m.at /\ pprev' = m.pprev

(* if (n) n->pprev = &place *)
PointBack(m, n, place) == IF n = NULL THEN m ELSE [m EXCEPT !.pprev[n] = place]

--------------------------------------------------------------------------
INIT_HLIST_HEAD(h) ==
    /\ at[h] \in {POISON, NULL}
    /\ Becomes([Memory EXCEPT !.at[h] = NULL])

__hlist_del(n) == PointBack([Memory EXCEPT !.at[pprev[n]] = at[n]], at[n], pprev[n])

hlist_del(n) ==
    /\ Listed(n) \/ pprev[n] = n
    /\ Becomes([__hlist_del(n) EXCEPT !.at[n] = POISON, !.pprev[n] = POISON])

(* hlist_del_init; on a node that is not hashed it does nothing. *)
hlist_del_init(n) ==
    /\ pprev[n] # POISON
    /\ ~ hlist_unhashed(n)
    /\ Becomes([__hlist_del(n) EXCEPT !.at[n] = NULL, !.pprev[n] = NULL])

hlist_add_head(n, h) ==
    /\ ~ Listed(n)
    /\ LET m == PointBack([Memory EXCEPT !.at[n] = at[h]], at[h], n)
       IN Becomes([m EXCEPT !.at[h] = n, !.pprev[n] = h])

hlist_add_before(n, next) ==
    /\ ~ Listed(n) /\ Listed(next)
    /\ Becomes([Memory EXCEPT !.pprev[n] = pprev[next], !.at[n] = next,
                              !.pprev[next] = n, !.at[pprev[next]] = n])

(* next goes after n *)
hlist_add_after(n, next) ==
    /\ Listed(n) /\ ~ Listed(next)
    /\ LET m == [Memory EXCEPT !.at[next] = at[n], !.at[n] = next, !.pprev[next] = n]
       IN Becomes(PointBack(m, at[n], next))

hlist_add_fake(n) ==
    /\ hlist_unhashed(n)
    /\ Becomes([Memory EXCEPT !.pprev[n] = n])

(* Mutant of MovedList: the first node still points back to the old head. *)
MovedListForward(old, new) == [Memory EXCEPT !.at[new] = at[old], !.at[old] = NULL]

MovedList(old, new) ==
    PointBack([Memory EXCEPT !.at[new] = at[old], !.at[old] = NULL], at[old], new)

(* hlist_move_list, to a head that has no list to lose. *)
hlist_move_list(old, new) ==
    /\ at[new] \in {NULL, POISON}
    /\ Becomes(MovedList(old, new))

Next ==
    \/ \E h \in Heads : INIT_HLIST_HEAD(h)
    \/ \E n \in Items : hlist_del(n) \/ hlist_del_init(n) \/ hlist_add_fake(n)
    \/ \E n \in Items, h \in LiveHeads : hlist_add_head(n, h)
    \/ \E n \in Items : \E next \in Items \ {n} :
          hlist_add_before(n, next) \/ hlist_add_after(n, next)
    \/ \E old \in LiveHeads : \E new \in Heads \ {old} : hlist_move_list(old, new)

Spec == Init /\ [][Next]_vars

--------------------------------------------------------------------------
TypeOK == /\ at \in [Places -> Items \cup {NULL, POISON}]
          /\ pprev \in [Items -> Places \cup {NULL, POISON}]

(* hlist_for_each *)
Chain(h) ==
    LET most == Cardinality(Items)
        node[k \in 0 .. most] ==
            IF k = 0 THEN at[h]
            ELSE IF node[k - 1] \in {NULL, POISON} THEN NULL ELSE at[node[k - 1]]
        ends == {k \in 0 .. most : node[k] \in {NULL, POISON}} \cup {most}
    IN [k \in 1 .. Min(ends) |-> node[k - 1]]

(* The place a listed node knows does point to it, and every node that a live  *)
(* place points to knows that place: the double pointer is kept by every call. *)
PlacesAgree ==
    /\ \A n \in Items : Listed(n) => at[pprev[n]] = n
    /\ \A p \in LiveHeads \cup {n \in Items : Listed(n)} : at[p] # NULL => pprev[at[p]] = p

Lists == [h \in Heads |-> IF h \in LiveHeads THEN Chain(h) ELSE None]

Abstract == INSTANCE ListSpec WITH lists <- Lists

(* Every call edits the lists of nodes as its name says. *)
HashListsImplemented == Abstract!Spec
=============================================================================
