----------------------------- MODULE KernelList -----------------------------
(***************************************************************************)
(* The intrusive doubly linked lists of the repository, on pointers:       *)
(* linux_kenel_list.h with queue.c, and dllist.h and eloop's list.h, whose *)
(* functions have the same effects under a dl_ prefix.  A cell is a        *)
(* list_head, of a list or embedded in an item.  The callers keep to the   *)
(* header's contract: an item that is added is on no list, and a cell that *)
(* a call names is one whose pointers mean something.                      *)
(***************************************************************************)
EXTENDS Integers, FiniteSets, Sequences, SequencesExt

CONSTANTS
    Heads, Items,   \* the two kinds of cells
    NULL,           \* LIST_POISON1 and LIST_POISON2, and what memory holds at first
    None            \* no list (ListSpec)

ASSUME ListAssumption == NULL \notin Heads \cup Items /\ Heads \cap Items = {}

ASSUME AbstractionAssumption == IsFiniteSet(Heads \cup Items) /\ None \notin Seq(Items)

Cells == Heads \cup Items

VARIABLES
    next, prev,     \* the two pointers of each cell
    stale,          \* the cells whose pointers mean nothing: not initialised,
                    \* poisoned, replaced, or the head of a list that was spliced
    loop            \* list_for_each_entry_safe: its head, cursor, spare cursor, the
                    \* items it has visited, and those there were at its start

vars == <<next, prev, stale, loop>>

NoLoop == [head |-> NULL, pos |-> NULL, n |-> NULL, visited |-> << >>, first |-> << >>]

Init == /\ next = [c \in Cells |-> NULL]
        /\ prev = [c \in Cells |-> NULL]
        /\ stale = Cells
        /\ loop = NoLoop

--------------------------------------------------------------------------
(* Memory.  A function of the headers is a composition of pointer updates. *)

Memory == [next |-> next, prev |-> prev]

(* a->next = b and b->prev = a *)
Link(m, a, b) == [next |-> [m.next EXCEPT ![a] = b], prev |-> [m.prev EXCEPT ![b] = a]]

INIT_LIST_HEAD(m, c) == Link(m, c, c)

(* Mutant of __list_add: new->prev is left as it was. *)
ListAddOneWay(m, new, p, n) ==
    [Link(Link(m, p, new), new, n) EXCEPT !.prev[new] = m.prev[new]]

__list_add(m, new, p, n) == Link(Link(m, p, new), new, n)

__list_del(m, p, n) == Link(m, p, n)

__list_del_entry(m, e) == __list_del(m, m.prev[e], m.next[e])

Poisoned(m, e) == [next |-> [m.next EXCEPT ![e] = NULL], prev |-> [m.prev EXCEPT ![e] = NULL]]

(* list_replace *)
Replaced(m, old, new) == Link(Link(m, new, m.next[old]), m.prev[old], new)

(* __list_splice: the items of list go between p and n. *)
Spliced(m, list, p, n) == Link(Link(m, p, m.next[list]), m.prev[list], n)

(* __list_cut_position *)
CutOff(m, list, head, entry) ==
    LET rest == m.next[entry]
    IN Link(Link(Link(m, list, m.next[head]), entry, list), head, rest)

(* The cells from the head's pointer on, up to the head. *)
Along(pointer, head) ==
    LET most == Cardinality(Cells)
        at[k \in 0 .. most] == IF k = 0 THEN pointer[head]
                               ELSE IF at[k - 1] \in {head, NULL} THEN at[k - 1]
                               ELSE pointer[at[k - 1]]
        ends == {k \in 0 .. most : at[k] \in {head, NULL}} \cup {most}
    IN [k \in 1 .. Min(ends) |-> at[k - 1]]

(* list_for_each and list_for_each_prev *)
Forward(h)  == Along(next, h)
Backward(h) == Along(prev, h)

LiveHeads == Heads \ stale

list_empty(h) == next[h] = h
list_is_singular(h) == ~ list_empty(h) /\ next[h] = prev[h]

(* An item a caller may add: one on no list, never added or deleted. *)
Loose(i) == i \in stale \/ list_empty(i)

(* An item a caller may name as one of a list. *)
Listed(i) == i \in Items /\ ~ Loose(i)

Idle == loop = NoLoop

Becomes(m) == next' = m.next /\ prev' = m.prev

--------------------------------------------------------------------------
(* The calls.  First those that a loop's body may make on its cursor.      *)

Calm(e) == \/ Idle
           \/ e = loop.pos

init_head(h) ==
    /\ Idle
    /\ h \in stale \/ list_empty(h)
    /\ Becomes(INIT_LIST_HEAD(Memory, h))
    /\ stale' = stale \ {h}
    /\ UNCHANGED loop

(* list_add, dl_list_add; eloop.c also adds after an item of the list. *)
list_add(i, at) ==
    /\ Idle /\ Loose(i)
    /\ Becomes(__list_add(Memory, i, at, next[at]))
    /\ stale' = stale \ {i}
    /\ UNCHANGED loop

(* list_add_tail, dl_list_add_tail, and in_queue *)
list_add_tail(i, h) ==
    /\ Idle /\ Loose(i)
    /\ Becomes(__list_add(Memory, i, prev[h], h))
    /\ stale' = stale \ {i}
    /\ UNCHANGED loop

(* list_del, dl_list_del *)
list_del(i) ==
    /\ Calm(i)
    /\ Becomes(Poisoned(__list_del_entry(Memory, i), i))
    /\ stale' = stale \cup {i}
    /\ UNCHANGED loop

(* list_del_init *)
list_del_init(i) ==
    /\ Calm(i)
    /\ Becomes(INIT_LIST_HEAD(__list_del_entry(Memory, i), i))
    /\ UNCHANGED <<stale, loop>>

(* list_replace, dl_list_replace: old still points into the list. *)
list_replace(old, new) ==
    /\ Calm(old) /\ Loose(new)
    /\ Becomes(Replaced(Memory, old, new))
    /\ stale' = (stale \ {new}) \cup {old}
    /\ UNCHANGED loop

list_replace_init(old, new) ==
    /\ Calm(old) /\ Loose(new)
    /\ Becomes(INIT_LIST_HEAD(Replaced(Memory, old, new), old))
    /\ stale' = stale \ {new}
    /\ UNCHANGED loop

(* list_move, dl_list_move *)
list_move(i, h) ==
    /\ Calm(i)
    /\ LET m == __list_del_entry(Memory, i) IN Becomes(__list_add(m, i, h, m.next[h]))
    /\ UNCHANGED <<stale, loop>>

(* list_move_tail, dl_list_move_tail *)
list_move_tail(i, h) ==
    /\ Calm(i)
    /\ LET m == __list_del_entry(Memory, i) IN Becomes(__list_add(m, i, m.prev[h], h))
    /\ UNCHANGED <<stale, loop>>

list_rotate_left(h) ==
    /\ Idle
    /\ ~ list_empty(h)
    /\ list_move_tail(next[h], h)

(* out_queue: on an empty queue the head is taken out of itself. *)
out_queue(h) ==
    /\ Idle
    /\ Becomes(INIT_LIST_HEAD(__list_del_entry(Memory, next[h]), next[h]))
    /\ UNCHANGED <<stale, loop>>

(* The early returns of list_cut_position. *)
MayCut(h, entry) ==
    /\ ~ list_empty(h)
    /\ ~ (list_is_singular(h) /\ next[h] # entry /\ h # entry)

(* An entry of the list, or its head; the header guards against a wrong entry in a *)
(* list of one.                                                                   *)
Entries(h) ==
    LET within == IF list_is_singular(h) THEN Items ELSE Range(Forward(h))
    IN {h} \cup {i \in within : Listed(i)}

(* list_cut_position, into a list that is empty or was none. *)
list_cut_position(list, h, entry) ==
    /\ Idle
    /\ list \in stale \/ list_empty(list)
    /\ MayCut(h, entry)
    /\ IF entry = h THEN Becomes(INIT_LIST_HEAD(Memory, list))
       ELSE Becomes(CutOff(Memory, list, h, entry))
    /\ stale' = stale \ {list}
    /\ UNCHANGED loop

(* list_splice and list_splice_tail, with and without _init; dl_list_splice.  *)
(* The heads are of different lists, as ListsAreLists says they always are.    *)
list_splice(list, h, front, init) ==
    /\ Idle
    /\ list \notin {h, next[h], prev[h]}
    /\ ~ list_empty(list)
    /\ LET m == IF front THEN Spliced(Memory, list, h, next[h])
                ELSE Spliced(Memory, list, prev[h], h)
       IN IF init THEN Becomes(INIT_LIST_HEAD(m, list)) /\ UNCHANGED stale
          ELSE Becomes(m) /\ stale' = stale \cup {list}
    /\ UNCHANGED loop

--------------------------------------------------------------------------
(* list_for_each_entry_safe, whose body may take its cursor off the list.  *)

LoopStart(h) ==
    /\ Idle
    /\ ~ list_empty(h)
    /\ loop' = [head |-> h, pos |-> next[h], n |-> next[next[h]],
                visited |-> << next[h] >>, first |-> Forward(h)]
    /\ UNCHANGED <<next, prev, stale>>

(* Mutant of Successor: list_for_each_entry, that asks the cursor itself. *)
SuccessorOfCursor == next[loop.pos]

(* pos = n *)
Successor == loop.n

LoopStep ==
    /\ ~ Idle
    /\ Successor \notin {loop.head, NULL}
    /\ loop' = [loop EXCEPT !.pos = Successor, !.n = next[Successor],
                            !.visited = Append(@, Successor)]
    /\ UNCHANGED <<next, prev, stale>>

LoopEnd ==
    /\ ~ Idle
    /\ Successor \in {loop.head, NULL}
    /\ loop' = NoLoop
    /\ UNCHANGED <<next, prev, stale>>

(* What the body does to its cursor, at most once, as it is off the list then. *)
CursorListed == ~ Idle /\ Listed(loop.pos) /\ loop.pos \in Range(Forward(loop.head))

CallOn(i) ==
    \/ list_del(i) \/ list_del_init(i)
    \/ \E new \in Items \ {i} : list_replace(i, new) \/ list_replace_init(i, new)
    \/ \E h \in LiveHeads \ {loop.head} : list_move(i, h) \/ list_move_tail(i, h)

Next ==
    \/ \E h \in Heads : init_head(h)
    \/ \E i \in Items, at \in LiveHeads \cup {c \in Items : Listed(c)} :
          i # at /\ list_add(i, at)
    \/ \E i \in Items, h \in LiveHeads : list_add_tail(i, h)
    \/ \E i \in Items : Idle /\ Listed(i) /\ CallOn(i)
    \/ \E h \in LiveHeads : list_rotate_left(h) \/ out_queue(h) \/ LoopStart(h)
    \/ \E list \in Heads, h \in LiveHeads : \E entry \in Entries(h) :
          h # list /\ list_cut_position(list, h, entry)
    \/ \E list, h \in LiveHeads, front, init \in BOOLEAN : list_splice(list, h, front, init)
    \/ CursorListed /\ CallOn(loop.pos)
    \/ LoopStep
    \/ LoopEnd

Spec == Init /\ [][Next]_vars

--------------------------------------------------------------------------
TypeOK ==
    /\ next \in [Cells -> Cells \cup {NULL}]
    /\ prev \in [Cells -> Cells \cup {NULL}]
    /\ stale \subseteq Cells
    /\ loop.head \in Heads \cup {NULL}

(* Around every cell that is not stale the pointers agree, and lead to cells    *)
(* that are not stale either: no sequence of calls leaves a live list pointing  *)
(* at an item that was deleted, replaced or given up.                           *)
LinksAgree ==
    \A c \in Cells \ stale :
        /\ next[c] \in Cells \ stale /\ prev[next[c]] = c
        /\ prev[c] \in Cells \ stale /\ next[prev[c]] = c

(* Every list reads the same backwards, holds only items, and no item is on two *)
(* lists (list_for_each and list_for_each_prev).                                *)
ListsAreLists ==
    \A h \in LiveHeads :
        /\ Backward(h) = Reverse(Forward(h))
        /\ Range(Forward(h)) \subseteq Items
        /\ IsInjective(Forward(h))
        /\ \A g \in LiveHeads \ {h} : Range(Forward(h)) \cap Range(Forward(g)) = {}

(* A safe loop whose body takes items off the list still visits each of those   *)
(* there were when it began, once and in order ("iterate over list of given     *)
(* type safe against removal of list entry").                                   *)
SafeLoopVisitsAll ==
    [][~ Idle /\ loop' = NoLoop => loop.visited = loop.first]_vars

(* What the callers see. *)
Lists == [h \in Heads |-> IF h \in stale THEN None ELSE Forward(h)]

Abstract == INSTANCE ListSpec WITH lists <- Lists

(* Every call edits the lists as its name says: queue.c is first in, first out, *)
(* a splice loses nothing, a cut splits at the entry.                           *)
ListsImplemented == Abstract!Spec
=============================================================================
