-------------------------- MODULE StructuresProofs --------------------------
(***************************************************************************)
(* No sequence of calls breaks the links of a live list, whatever the      *)
(* heads and the items are.  A lemma for each function of the headers says *)
(* which cells its result is sound on; an action composes functions.  The  *)
(* second part is about what the lists hold: the pointers represent a      *)
(* sequence for each head, and each call edits the sequences as its name   *)
(* says.  The third says of hash lists, whose nodes know the place that    *)
(* points to them, what the first does of lists.  The fourth is about      *)
(* parson's objects: no lookup is lost in the hash table, and it           *)
(* implements a map.                                                       *)
(***************************************************************************)
EXTENDS KernelList, FiniteSetTheorems, FunctionTheorems, TLAPS

(* The pointers of the cells in S agree, and stay in S. *)
Sound(m, S) ==
    /\ m = [next |-> m.next, prev |-> m.prev]
    /\ m.next \in [Cells -> Cells \cup {NULL}]
    /\ m.prev \in [Cells -> Cells \cup {NULL}]
    /\ S \subseteq Cells
    /\ \A c \in S : /\ m.next[c] \in S /\ m.prev[m.next[c]] = c
                    /\ m.prev[c] \in S /\ m.next[m.prev[c]] = c

Alone(m, S, c) == c \in Cells /\ (c \in S => m.next[c] = c)

(* A cell alone may point to itself. *)
LEMMA InitSound ==
    ASSUME NEW m, NEW S, NEW c, Sound(m, S), Alone(m, S, c)
    PROVE  Sound(INIT_LIST_HEAD(m, c), S \cup {c})
  BY SMTT(60) DEF Sound, Alone, INIT_LIST_HEAD, Link

(* A cell alone may be put between two neighbours. *)
LEMMA AddSound ==
    ASSUME NEW m, NEW S, NEW c, NEW p \in S, NEW n \in S,
           Sound(m, S), Alone(m, S, c), m.next[p] = n, c # p
    PROVE  Sound(__list_add(m, c, p, n), S \cup {c})
  BY SMTT(60) DEF Sound, Alone, __list_add, Link

(* A cell that has neighbours may be taken out from between them. *)
LEMMA DelSound ==
    ASSUME NEW m, NEW S, NEW e \in S, Sound(m, S), m.next[e] # e
    PROVE  Sound(__list_del_entry(m, e), S \ {e})
  BY SMTT(60) DEF Sound, __list_del_entry, __list_del, Link

(* A cell outside of the lists may be overwritten. *)
LEMMA PoisonSound ==
    ASSUME NEW m, NEW S, NEW e \in Cells, Sound(m, S), e \notin S
    PROVE  Sound(Poisoned(m, e), S)
<1> DEFINE p == Poisoned(m, e)
<1>1. /\ p = [next |-> p.next, prev |-> p.prev]
      /\ p.next \in [Cells -> Cells \cup {NULL}]
      /\ p.prev \in [Cells -> Cells \cup {NULL}]
      /\ \A c \in Cells \ {e} : p.next[c] = m.next[c] /\ p.prev[c] = m.prev[c]
  BY DEF Sound, Poisoned
<1>2. \A c \in S : c \in Cells \ {e} /\ m.next[c] \in S /\ m.prev[c] \in S
  BY DEF Sound
<1> QED
  BY <1>1, <1>2 DEF Sound

(* A cell alone may take the place of another. *)
LEMMA ReplaceSound ==
    ASSUME NEW m, NEW S, NEW old \in S, NEW new,
           Sound(m, S), Alone(m, S, new), m.next[old] # old, new # old
    PROVE  Sound(Replaced(m, old, new), (S \cup {new}) \ {old})
  BY SMTT(60) DEF Sound, Alone, Replaced, Link

(* The cells around list may be put between two neighbours. *)
LEMMA SpliceSound ==
    ASSUME NEW m, NEW S, NEW list \in S, NEW p \in S, NEW n \in S,
           Sound(m, S), m.next[list] # list, m.next[p] = n, list # p, list # n
    PROVE  Sound(Spliced(m, list, p, n), S \ {list})
  BY SMTT(60) DEF Sound, Spliced, Link

(* The cells after a head, up to an entry, may go around a cell alone. *)
LEMMA CutSound ==
    ASSUME NEW m, NEW S, NEW list, NEW head \in S, NEW entry \in S,
           Sound(m, S), Alone(m, S, list), list # head, list # entry, head # entry
    PROVE  Sound(CutOff(m, list, head, entry), S \cup {list})
  BY SMTT(60) DEF Sound, Alone, CutOff, Link

--------------------------------------------------------------------------
(* The invariant: the pointers are sound on the cells that are not stale. *)
IInv == Sound(Memory, Cells \ stale)

LEMMA InitInv == Init => IInv
  BY ListAssumption DEF Init, IInv, Sound, Memory, Cells

(* What a call's guards say of the cells it names. *)
LEMMA LiveCells ==
    ASSUME IInv
    PROVE  /\ \A h \in LiveHeads : h \in Cells \ stale
           /\ \A i : Listed(i) => i \in Items /\ i \in Cells \ stale /\ next[i] # i
           /\ \A i \in Cells : Loose(i) => Alone(Memory, Cells \ stale, i)
           /\ \A c \in Cells \ stale : /\ next[c] \in Cells \ stale
                                       /\ prev[c] \in Cells \ stale
                                       /\ next[prev[c]] = c /\ prev[next[c]] = c
  BY DEF IInv, Sound, Memory, LiveHeads, Listed, Loose, Alone, Cells, list_empty

LEMMA InitHead == ASSUME IInv, NEW h \in Heads, init_head(h) PROVE IInv'
<1>1. Alone(Memory, Cells \ stale, h)
  BY DEF init_head, Alone, Memory, list_empty, Cells
<1>2. Sound(INIT_LIST_HEAD(Memory, h), (Cells \ stale) \cup {h})
  BY <1>1, InitSound DEF IInv
<1>3. (Cells \ stale) \cup {h} = Cells \ stale'
  BY <1>1 DEF init_head, Alone
<1> QED
  BY <1>2, <1>3 DEF IInv, init_head, Becomes, Memory, INIT_LIST_HEAD, Link

LEMMA Add ==
    ASSUME IInv, NEW i \in Items, NEW cell, cell \in LiveHeads \/ Listed(cell), i # cell,
           list_add(i, cell)
    PROVE  IInv'
<1>1. i \in Cells /\ Alone(Memory, Cells \ stale, i)
  BY LiveCells DEF list_add, Cells
<1>2. cell \in Cells \ stale /\ next[cell] \in Cells \ stale
  BY LiveCells
<1>3. Sound(__list_add(Memory, i, cell, next[cell]), (Cells \ stale) \cup {i})
  BY <1>1, <1>2, AddSound DEF IInv, Memory
<1>4. (Cells \ stale) \cup {i} = Cells \ stale'
  BY <1>1 DEF list_add
<1> QED
  BY <1>3, <1>4 DEF IInv, list_add, Becomes, Memory, __list_add, Link

LEMMA AddTail ==
    ASSUME IInv, NEW i \in Items, NEW h \in LiveHeads, list_add_tail(i, h)
    PROVE  IInv'
<1>1. i \in Cells /\ Alone(Memory, Cells \ stale, i)
  BY LiveCells DEF list_add_tail, Cells
<1>2. h \in Cells \ stale /\ prev[h] \in Cells \ stale /\ next[prev[h]] = h /\ h # i
  BY LiveCells, ListAssumption DEF LiveHeads
<1>3. i # prev[h]
  BY <1>1, <1>2 DEF Alone, Memory
<1>4. Sound(__list_add(Memory, i, prev[h], h), (Cells \ stale) \cup {i})
  BY <1>1, <1>2, <1>3, AddSound DEF IInv, Memory
<1>5. (Cells \ stale) \cup {i} = Cells \ stale'
  BY <1>1 DEF list_add_tail
<1> QED
  BY <1>4, <1>5 DEF IInv, list_add_tail, Becomes, Memory, __list_add, Link

(* What list_del and its kin leave. *)
LEMMA Unlinked ==
    ASSUME IInv, NEW e \in Cells \ stale, next[e] # e
    PROVE  /\ Sound(__list_del_entry(Memory, e), Cells \ (stale \cup {e}))
           /\ e \in Cells
           /\ Alone(__list_del_entry(Memory, e), Cells \ (stale \cup {e}), e)
<1>1. (Cells \ stale) \ {e} = Cells \ (stale \cup {e})
  OBVIOUS
<1> QED
  BY <1>1, DelSound DEF IInv, Memory, Alone

LEMMA Del == ASSUME IInv, NEW i, Listed(i), list_del(i) PROVE IInv'
<1>1. Sound(Poisoned(__list_del_entry(Memory, i), i), Cells \ (stale \cup {i}))
  BY LiveCells, Unlinked, PoisonSound
<1> QED
  BY <1>1 DEF IInv, list_del, Becomes, Memory, Poisoned

(* An item that is taken out and points to itself after that. *)
LEMMA Initialised ==
    ASSUME IInv, NEW i \in Cells \ stale, next[i] # i
    PROVE  Sound(INIT_LIST_HEAD(__list_del_entry(Memory, i), i), Cells \ stale)
<1> DEFINE m == __list_del_entry(Memory, i)
           S == Cells \ (stale \cup {i})
<1>1. Sound(m, S) /\ Alone(m, S, i)
  BY Unlinked
<1>2. S \cup {i} = Cells \ stale
  OBVIOUS
<1> HIDE DEF m, S
<1>3. Sound(INIT_LIST_HEAD(m, i), S \cup {i})
  BY <1>1, InitSound
<1> QED
  BY <1>2, <1>3 DEF m

LEMMA DelInit == ASSUME IInv, NEW i, Listed(i), list_del_init(i) PROVE IInv'
<1>1. Sound(INIT_LIST_HEAD(__list_del_entry(Memory, i), i), Cells \ stale)
  BY LiveCells, Initialised
<1> QED
  BY <1>1 DEF IInv, list_del_init, Becomes, Memory, INIT_LIST_HEAD, Link

(* The item that takes another's place. *)
LEMMA Replacing ==
    ASSUME IInv, NEW old, Listed(old), NEW new \in Items \ {old}, Loose(new)
    PROVE  /\ Sound(Replaced(Memory, old, new), Cells \ ((stale \ {new}) \cup {old}))
           /\ old \in Cells /\ old \notin stale
<1>1. old \in Cells \ stale /\ next[old] # old
  BY LiveCells
<1>2. new \in Cells /\ Alone(Memory, Cells \ stale, new)
  BY LiveCells DEF Cells
<1>3. Sound(Replaced(Memory, old, new), ((Cells \ stale) \cup {new}) \ {old})
  BY <1>1, <1>2, ReplaceSound DEF IInv, Memory
<1>4. ((Cells \ stale) \cup {new}) \ {old} = Cells \ ((stale \ {new}) \cup {old})
  BY <1>1, <1>2
<1> QED
  BY <1>1, <1>3, <1>4

LEMMA Replace ==
    ASSUME IInv, NEW old, Listed(old), NEW new \in Items \ {old}, list_replace(old, new)
    PROVE  IInv'
<1>1. Sound(Replaced(Memory, old, new), Cells \ ((stale \ {new}) \cup {old}))
  BY Replacing DEF list_replace
<1> QED
  BY <1>1 DEF IInv, list_replace, Becomes, Memory, Replaced, Link

LEMMA ReplaceInit ==
    ASSUME IInv, NEW old, Listed(old), NEW new \in Items \ {old},
           list_replace_init(old, new)
    PROVE  IInv'
<1> DEFINE S == Cells \ ((stale \ {new}) \cup {old})
<1>1. Sound(Replaced(Memory, old, new), S) /\ old \in Cells /\ old \notin stale
  BY Replacing DEF list_replace_init
<1>2. Sound(INIT_LIST_HEAD(Replaced(Memory, old, new), old), S \cup {old})
  <2>1. Alone(Replaced(Memory, old, new), S, old)
    BY <1>1 DEF Alone
  <2> HIDE DEF S
  <2> QED
    BY <1>1, <2>1, InitSound
<1>3. S \cup {old} = Cells \ (stale \ {new})
  BY <1>1
<1> QED
  BY <1>2, <1>3 DEF IInv, list_replace_init, Becomes, Memory, INIT_LIST_HEAD, Link

(* The item that is taken out stays alone until it is added again. *)
LEMMA Moving ==
    ASSUME IInv, NEW i \in Cells \ stale, next[i] # i,
           NEW p, NEW n, p # i,
           LET m == __list_del_entry(Memory, i)
               S == Cells \ (stale \cup {i})
           IN p \in S /\ n \in S /\ m.next[p] = n
    PROVE  Sound(__list_add(__list_del_entry(Memory, i), i, p, n), Cells \ stale)
<1> DEFINE m == __list_del_entry(Memory, i)
           S == Cells \ (stale \cup {i})
<1>1. Sound(m, S) /\ Alone(m, S, i)
  BY Unlinked
<1>2. S \cup {i} = Cells \ stale
  OBVIOUS
<1>3. p \in S /\ n \in S /\ m.next[p] = n
  OBVIOUS
<1> HIDE DEF m, S
<1>4. Sound(__list_add(m, i, p, n), S \cup {i})
  BY <1>1, <1>3, AddSound
<1> QED
  BY <1>2, <1>4 DEF m

LEMMA Move ==
    ASSUME IInv, NEW i, Listed(i), NEW h \in LiveHeads, list_move(i, h)
    PROVE  IInv'
<1> DEFINE m == __list_del_entry(Memory, i)
           S == Cells \ (stale \cup {i})
<1>1. i \in Cells \ stale /\ next[i] # i /\ h # i /\ h \in S
  BY LiveCells, ListAssumption DEF LiveHeads
<1>2. m.next[h] \in S
  <2>1. Sound(m, S)
    BY <1>1, Unlinked
  <2> HIDE DEF m, S
  <2> QED
    BY <1>1, <2>1 DEF Sound
<1>3. Sound(__list_add(m, i, h, m.next[h]), Cells \ stale)
  BY <1>1, <1>2, Moving
<1> QED
  BY <1>3 DEF IInv, list_move, Becomes, Memory, __list_add, Link

(* list_move_tail, and list_rotate_left by it, whose item is next to the head. *)
LEMMA MoveTail ==
    ASSUME IInv, NEW i \in Cells \ stale, next[i] # i, NEW h \in LiveHeads, h # i,
           list_move_tail(i, h)
    PROVE  IInv'
<1> DEFINE m == __list_del_entry(Memory, i)
           S == Cells \ (stale \cup {i})
<1>1. h # i /\ h \in S
  BY LiveCells
<1>2. m.prev[h] \in S /\ m.next[m.prev[h]] = h /\ m.prev[h] # i
  <2>1. Sound(m, S)
    BY Unlinked
  <2>2. i \notin S
    OBVIOUS
  <2> HIDE DEF m, S
  <2> QED
    BY <1>1, <2>1, <2>2 DEF Sound
<1>3. Sound(__list_add(m, i, m.prev[h], h), Cells \ stale)
  BY <1>1, <1>2, Moving
<1> QED
  BY <1>3 DEF IInv, list_move_tail, Becomes, Memory, __list_add, Link

LEMMA OutQueue == ASSUME IInv, NEW h \in LiveHeads, out_queue(h) PROVE IInv'
<1> DEFINE e == next[h]
           m == __list_del_entry(Memory, e)
<1>1. h \in Cells \ stale /\ e \in Cells \ stale
  BY LiveCells
<1>2. Sound(INIT_LIST_HEAD(m, e), Cells \ stale)
  <2>1. CASE next[e] = e
    <3>1. m = Memory
      BY <1>1, <2>1, LiveCells
         DEF IInv, Sound, Memory, __list_del_entry, __list_del, Link
    <3>2. (Cells \ stale) \cup {e} = Cells \ stale
      BY <1>1
    <3>3. Sound(Memory, Cells \ stale) /\ Alone(Memory, Cells \ stale, e)
      BY <1>1, <2>1 DEF IInv, Alone, Memory
    <3>4. Sound(INIT_LIST_HEAD(Memory, e), (Cells \ stale) \cup {e})
      BY <3>3, InitSound
    <3> QED
      BY <3>1, <3>2, <3>4
  <2>2. CASE next[e] # e
    BY <1>1, <2>2, Initialised
  <2> QED
    BY <2>1, <2>2
<1> QED
  BY <1>2 DEF IInv, out_queue, Becomes, Memory, INIT_LIST_HEAD, Link

LEMMA Cut ==
    ASSUME IInv, NEW list \in Heads, NEW h \in LiveHeads, NEW entry \in Entries(h),
           h # list, list_cut_position(list, h, entry)
    PROVE  IInv'
<1>1. Alone(Memory, Cells \ stale, list) /\ list \in Cells
  BY DEF list_cut_position, Alone, Memory, list_empty, Cells
<1>2. h \in Cells \ stale /\ entry \in Cells \ stale /\ list # entry
  BY LiveCells, ListAssumption DEF Entries, Listed, LiveHeads
<1>3. Cells \ stale' = (Cells \ stale) \cup {list}
  BY <1>1 DEF list_cut_position
<1>4. CASE entry = h
  <2>1. Sound(INIT_LIST_HEAD(Memory, list), (Cells \ stale) \cup {list})
    BY <1>1, InitSound DEF IInv
  <2> QED
    BY <1>3, <1>4, <2>1 DEF IInv, list_cut_position, Becomes, Memory, INIT_LIST_HEAD, Link
<1>5. CASE entry # h
  <2>1. Sound(CutOff(Memory, list, h, entry), (Cells \ stale) \cup {list})
    BY <1>1, <1>2, <1>5, CutSound DEF IInv
  <2> QED
    BY <1>3, <1>5, <2>1 DEF IInv, list_cut_position, Becomes, Memory, CutOff, Link
<1> QED
  BY <1>4, <1>5

LEMMA Splice ==
    ASSUME IInv, NEW list \in LiveHeads, NEW h \in LiveHeads, NEW front, NEW init,
           list_splice(list, h, front, init)
    PROVE  IInv'
<1> DEFINE S == (Cells \ stale) \ {list}
           m == IF front THEN Spliced(Memory, list, h, next[h])
                ELSE Spliced(Memory, list, prev[h], h)
<1>1. /\ list \in Cells \ stale /\ next[list] # list
      /\ h \in Cells \ stale /\ next[h] \in Cells \ stale /\ prev[h] \in Cells \ stale
      /\ next[prev[h]] = h /\ prev[next[h]] = h
      /\ list \notin {h, next[h], prev[h]}
  BY LiveCells DEF list_splice, list_empty
<1>2. Sound(m, S)
  <2>1. CASE front
    <3>1. Sound(Spliced(Memory, list, h, next[h]), S)
      BY <1>1, SpliceSound DEF IInv, Memory
    <3> QED
      BY <2>1, <3>1
  <2>2. CASE ~ front
    <3>1. Sound(Spliced(Memory, list, prev[h], h), S)
      BY <1>1, SpliceSound DEF IInv, Memory
    <3> QED
      BY <2>2, <3>1
  <2> QED
    BY <2>1, <2>2
<1>3. CASE init
  <2>1. Becomes(INIT_LIST_HEAD(m, list)) /\ stale' = stale
    BY <1>3 DEF list_splice
  <2>2. Alone(m, S, list)
    BY <1>1 DEF Alone
  <2>3. S \cup {list} = Cells \ stale
    BY <1>1
  <2> HIDE DEF m, S
  <2>4. Sound(INIT_LIST_HEAD(m, list), S \cup {list})
    BY <1>2, <2>2, InitSound
  <2> QED
    BY <2>1, <2>3, <2>4 DEF IInv, Becomes, Memory, INIT_LIST_HEAD, Link
<1>4. CASE ~ init
  <2>1. Becomes(m) /\ stale' = stale \cup {list}
    BY <1>4 DEF list_splice
  <2>2. Cells \ (stale \cup {list}) = S
    OBVIOUS
  <2>3. m = [next |-> m.next, prev |-> m.prev]
    BY <1>2 DEF Sound
  <2> HIDE DEF m, S
  <2> QED
    BY <1>2, <2>1, <2>2, <2>3 DEF IInv, Becomes, Memory
<1> QED
  BY <1>3, <1>4

(* The calls that a loop's body may make, too. *)
LEMMA Called == ASSUME IInv, NEW i, Listed(i), CallOn(i) PROVE IInv'
<1>1. /\ i \in Items /\ i \in Cells \ stale /\ next[i] # i
      /\ \A h \in LiveHeads : h # i
  BY LiveCells, ListAssumption DEF LiveHeads
<1> QED
  BY <1>1, Del, DelInit, Replace, ReplaceInit, Move, MoveTail DEF CallOn

LEMMA NextInv == IInv /\ [Next]_vars => IInv'
<1> SUFFICES ASSUME IInv, [Next]_vars PROVE IInv'
  OBVIOUS
<1>1. ASSUME NEW h \in Heads, init_head(h) PROVE IInv'
  BY <1>1, InitHead
<1>2. ASSUME NEW i \in Items, NEW cell \in LiveHeads \cup {c \in Items : Listed(c)}, i # cell,
             list_add(i, cell)
      PROVE  IInv'
  BY <1>2, Add
<1>3. ASSUME NEW i \in Items, NEW h \in LiveHeads, list_add_tail(i, h) PROVE IInv'
  BY <1>3, AddTail
<1>4. ASSUME NEW i \in Items, Listed(i), CallOn(i) PROVE IInv'
  BY <1>4, Called
<1>5. ASSUME NEW h \in LiveHeads, list_rotate_left(h) PROVE IInv'
  <2>1. h \in Cells \ stale /\ next[h] \in Cells \ stale
    BY LiveCells
  <2>2. next[next[h]] # next[h] /\ h # next[h]
    BY <1>5, <2>1, LiveCells DEF list_rotate_left, list_empty
  <2> QED
    BY <1>5, <2>1, <2>2, MoveTail DEF list_rotate_left
<1>6. ASSUME NEW h \in LiveHeads, out_queue(h) PROVE IInv'
  BY <1>6, OutQueue
<1>7. ASSUME NEW list \in Heads, NEW h \in LiveHeads, NEW entry \in Entries(h), h # list,
             list_cut_position(list, h, entry)
      PROVE  IInv'
  BY <1>7, Cut
<1>8. ASSUME NEW list \in LiveHeads, NEW h \in LiveHeads, NEW front \in BOOLEAN,
             NEW init \in BOOLEAN, list_splice(list, h, front, init)
      PROVE  IInv'
  BY <1>8, Splice
<1>9. ASSUME \/ \E h \in LiveHeads : LoopStart(h)
             \/ LoopStep \/ LoopEnd \/ UNCHANGED vars
      PROVE  IInv'
  BY <1>9 DEF IInv, Memory, LoopStart, LoopStep, LoopEnd, vars
<1>10. CursorListed /\ CallOn(loop.pos) => IInv'
  BY Called DEF CursorListed
<1> QED
  BY <1>1, <1>2, <1>3, <1>4, <1>5, <1>6, <1>7, <1>8, <1>9, <1>10 DEF Next

(* The pointers around every cell of a live list agree, after any sequence of   *)
(* calls and whatever a safe loop's body does to its cursor (the functions of   *)
(* linux_kenel_list.h, dllist.h and list.h).                                    *)
THEOREM LinksHold == Spec => []LinksAgree
<1>1. IInv => LinksAgree
  BY DEF IInv, Sound, Memory, LinksAgree
<1> QED
  BY InitInv, NextInv, <1>1, PTL DEF Spec

--------------------------------------------------------------------------
(* The sequences that the pointers of lists represent.                            *)

(* Induction for a set of numbers up to N: if it missed one, adding one would map the *)
(* numbers below that into themselves, all but 0.                                     *)
LEMMA SetInduction ==
    ASSUME NEW N \in Nat, NEW T, 0 \in T, \A n \in 0 .. N - 1 : n \in T => n + 1 \in T
    PROVE  \A n \in 0 .. N : n \in T
<1> SUFFICES ASSUME NEW m \in 0 .. N, m \notin T
             PROVE  FALSE
  OBVIOUS
<1> DEFINE B == {n \in 0 .. N : \A k \in 0 .. n : k \in T}
           succ == [n \in B |-> n + 1]
<1>1. 0 \in B
  OBVIOUS
<1>2. IsFiniteSet(B) /\ Cardinality(B) \in Nat
  <2>1. IsFiniteSet(0 .. N)
    BY FS_Interval
  <2> QED BY <2>1, FS_Subset, FS_CardinalityType
<1>3. IsFiniteSet(B \ {0}) /\ Cardinality(B \ {0}) < Cardinality(B)
  <2>1. IsFiniteSet(B \ {0}) /\ Cardinality(B \ {0}) = Cardinality(B) - 1
    <3> HIDE DEF B
    <3> QED BY <1>1, <1>2, FS_RemoveElement
  <2> QED BY <1>2, <2>1
<1>4. succ \in [B -> B \ {0}]
  <2> SUFFICES ASSUME NEW n \in B PROVE n + 1 \in B \ {0}
    OBVIOUS
  <2>1. n < m /\ n \in 0 .. N - 1
    OBVIOUS
  <2>2. n \in T /\ n + 1 \in T
    BY <2>1
  <2>3. \A k \in 0 .. n + 1 : k \in 0 .. n \/ k = n + 1
    BY <2>1
  <2> QED BY <2>1, <2>2, <2>3
<1> HIDE DEF succ
<1>5. PICK x, y \in B : x # y /\ succ[x] = succ[y]
  BY <1>2, <1>3, <1>4, FS_PigeonHole
<1>6. succ[x] = x + 1 /\ succ[y] = y + 1
  BY DEF succ
<1>7. x \in Nat /\ y \in Nat
  OBVIOUS
<1>8. x # y /\ x + 1 = y + 1
  BY <1>5, <1>6
<1> QED BY <1>7, <1>8

(* The cell at place k of the list s with head h: the head is before the first item and *)
(* behind the last.                                                                      *)
Spot(h, s, k) == IF k \in 1 .. Len(s) THEN s[k] ELSE h

(* The pointers of the cells around head h make s its list. *)
Ring(m, h, s) ==
    /\ s \in Seq(Items)
    /\ \A j, k \in 1 .. Len(s) : s[j] = s[k] => j = k
    /\ \A k \in 0 .. Len(s) : /\ m.next[Spot(h, s, k)] = Spot(h, s, k + 1)
                              /\ m.prev[Spot(h, s, k + 1)] = Spot(h, s, k)

Pointers(m) ==
    /\ m = [next |-> m.next, prev |-> m.prev]
    /\ m.next \in [Cells -> Cells \cup {NULL}]
    /\ m.prev \in [Cells -> Cells \cup {NULL}]

IsOn(S, st, i) == \E h \in Heads \ st : \E k \in 1 .. Len(S[h]) : S[h][k] = i

(* In a memory m in which the cells of st are stale, S are the lists. *)
Rep(m, st, S) ==
    /\ Pointers(m) /\ st \subseteq Cells
    /\ S \in [Heads -> Seq(Items) \cup {None}]
    /\ \A h \in Heads : S[h] = None <=> h \in st
    /\ \A h \in Heads \ st : Ring(m, h, S[h]) /\ \A k \in 1 .. Len(S[h]) : S[h][k] \notin st
    /\ \A g, h \in Heads \ st : \A j \in 1 .. Len(S[g]), k \in 1 .. Len(S[h]) : S[g][j] = S[h][k] => g = h
    /\ \A i \in Items \ st : m.next[i] = i \/ IsOn(S, st, i)

(* Of the lists only those of the heads of C change. *)
Changes(m, st, S, w, stw, T, C) ==
    /\ Pointers(w) /\ stw \subseteq Cells
    /\ T \in [Heads -> Seq(Items) \cup {None}]
    /\ \A g \in C : T[g] = None <=> g \in stw
    /\ \A g \in Heads \ C : T[g] = S[g] /\ (g \in st <=> g \in stw)
    /\ \A g \in C \ stw : Ring(w, g, T[g]) /\ \A k \in 1 .. Len(T[g]) : T[g][k] \notin stw
    /\ \A g \in Heads \ (C \cup st) :
          /\ \A k \in 0 .. Len(S[g]) : /\ w.next[Spot(g, S[g], k)] = m.next[Spot(g, S[g], k)]
                                       /\ w.prev[Spot(g, S[g], k + 1)] = m.prev[Spot(g, S[g], k + 1)]
          /\ \A k \in 1 .. Len(S[g]) : S[g][k] \notin stw
    /\ \A g \in C \ stw, h \in Heads \ stw : g # h =>
          \A j \in 1 .. Len(T[g]), k \in 1 .. Len(T[h]) : T[g][j] # T[h][k]
    /\ \A i \in Items \ stw : w.next[i] = i \/ IsOn(T, stw, i)

(* Lists that a call does not touch stay. *)
LEMMA RepChange ==
    ASSUME NEW m, NEW st, NEW S, Rep(m, st, S), NEW w, NEW stw, NEW T, NEW C \in SUBSET Heads,
           Changes(m, st, S, w, stw, T, C)
    PROVE  Rep(w, stw, T)
<1> USE DEF Changes
<1>1. \A g \in Heads : T[g] = None <=> g \in stw
  BY DEF Rep
<1>2. ASSUME NEW g \in Heads \ stw
      PROVE  Ring(w, g, T[g]) /\ \A k \in 1 .. Len(T[g]) : T[g][k] \notin stw
  <2>1. CASE g \in C
    BY <2>1
  <2>2. CASE g \notin C
    <3>1. g \in Heads \ (C \cup st) /\ T[g] = S[g] /\ Ring(m, g, S[g])
      BY <2>2 DEF Rep
    <3>2. Ring(w, g, S[g])
      BY <3>1 DEF Ring
    <3> QED BY <3>1, <3>2
  <2> QED BY <2>1, <2>2
<1>3. ASSUME NEW g \in Heads \ stw, NEW h \in Heads \ stw, NEW j \in 1 .. Len(T[g]), NEW k \in 1 .. Len(T[h]),
             T[g][j] = T[h][k], g # h
      PROVE  FALSE
  <2>1. CASE g \in C
    BY <1>3, <2>1
  <2>2. CASE h \in C
    BY <1>3, <2>2
  <2>3. CASE g \notin C /\ h \notin C
    <3>1. T[g] = S[g] /\ T[h] = S[h] /\ g \in Heads \ st /\ h \in Heads \ st
      BY <2>3
    <3> QED BY <1>3, <3>1 DEF Rep
  <2> QED BY <2>1, <2>2, <2>3
<1> QED BY <1>1, <1>2, <1>3 DEF Rep

LEMMA Lens ==
    ASSUME NEW m, NEW st, NEW S, Rep(m, st, S), NEW h \in Heads \ st
    PROVE  S[h] \in Seq(Items) /\ Len(S[h]) \in Nat /\ \A k \in 1 .. Len(S[h]) : S[h][k] \in Items
<1>1. S[h] \in Seq(Items)
  BY DEF Rep, Ring
<1> QED BY <1>1

(* No cell is at two places. *)
LEMMA Spots ==
    ASSUME NEW m, NEW st, NEW S, Rep(m, st, S), NEW h \in Heads \ st
    PROVE  /\ \A k \in Int : Spot(h, S[h], k) \in Cells \ st
           /\ Spot(h, S[h], 0) = h /\ Spot(h, S[h], Len(S[h]) + 1) = h
           /\ \A j, k \in 0 .. Len(S[h]) : Spot(h, S[h], j) = Spot(h, S[h], k) => j = k
           /\ \A j, k \in 1 .. Len(S[h]) + 1 : Spot(h, S[h], j) = Spot(h, S[h], k) => j = k
           /\ \A g \in Heads \ st : g # h => \A j, k \in Int : Spot(h, S[h], j) # Spot(g, S[g], k)
<1>1. /\ S[h] \in Seq(Items) /\ Len(S[h]) \in Nat /\ h \in Cells \ st
      /\ \A k \in 1 .. Len(S[h]) : S[h][k] \in Items /\ S[h][k] \notin st
  BY Lens DEF Rep, Cells
<1>2. \A k \in Int : Spot(h, S[h], k) \in Cells \ st
  BY <1>1 DEF Spot, Cells
<1>3. Spot(h, S[h], 0) = h /\ Spot(h, S[h], Len(S[h]) + 1) = h
  BY <1>1 DEF Spot
<1>4. h \notin Items /\ \A j, k \in 1 .. Len(S[h]) : S[h][j] = S[h][k] => j = k
  BY ListAssumption DEF Rep, Ring
<1>5. /\ \A j, k \in 0 .. Len(S[h]) : Spot(h, S[h], j) = Spot(h, S[h], k) => j = k
      /\ \A j, k \in 1 .. Len(S[h]) + 1 : Spot(h, S[h], j) = Spot(h, S[h], k) => j = k
  BY <1>1, <1>4 DEF Spot
<1>6. ASSUME NEW g \in Heads \ st, g # h, NEW j \in Int, NEW k \in Int
      PROVE  Spot(h, S[h], j) # Spot(g, S[g], k)
  <2>1. \A a \in 1 .. Len(S[g]) : S[g][a] \in Items
    BY Lens
  <2>2. g \notin Items
    BY ListAssumption
  <2>3. \A a \in 1 .. Len(S[h]), b \in 1 .. Len(S[g]) : S[h][a] # S[g][b]
    BY <1>6 DEF Rep
  <2> QED BY <1>1, <1>4, <1>6, <2>1, <2>2, <2>3 DEF Spot
<1> QED BY <1>2, <1>3, <1>5, <1>6

LEMMA Around ==
    ASSUME NEW m, NEW st, NEW S, Rep(m, st, S), NEW h \in Heads \ st, NEW k \in 0 .. Len(S[h])
    PROVE  /\ m.next[Spot(h, S[h], k)] = Spot(h, S[h], k + 1)
           /\ m.prev[Spot(h, S[h], k + 1)] = Spot(h, S[h], k)
  BY DEF Rep, Ring

(* An item that a caller may add is on no list, and one that it may name is on one. *)
LEMMA LooseFree ==
    ASSUME NEW m, NEW st, NEW S, Rep(m, st, S), NEW i \in Items, i \in st \/ m.next[i] = i
    PROVE  ~IsOn(S, st, i)
<1> SUFFICES ASSUME NEW h \in Heads \ st, NEW k \in 1 .. Len(S[h]), S[h][k] = i
             PROVE  FALSE
  BY DEF IsOn
<1>1. Len(S[h]) \in Nat /\ i \notin st
  BY Lens DEF Rep
<1>2. Spot(h, S[h], k) = i
  BY <1>1 DEF Spot
<1>3. Spot(h, S[h], k + 1) = i
  BY <1>1, <1>2, Around
<1>4. CASE k = Len(S[h])
  BY <1>1, <1>3, <1>4, ListAssumption DEF Spot
<1>5. CASE k # Len(S[h])
  <2>1. k \in 0 .. Len(S[h]) /\ k + 1 \in 0 .. Len(S[h]) /\ k # k + 1
    BY <1>1, <1>5
  <2> QED BY <1>2, <1>3, <2>1, Spots
<1> QED BY <1>4, <1>5

LEMMA ListedOn ==
    ASSUME NEW m, NEW st, NEW S, Rep(m, st, S), NEW i \in Items, i \notin st, m.next[i] # i
    PROVE  \E h \in Heads \ st : \E k \in 1 .. Len(S[h]) : S[h][k] = i /\ Spot(h, S[h], k) = i
<1>1. IsOn(S, st, i)
  BY DEF Rep
<1> QED BY <1>1 DEF IsOn, Spot

--------------------------------------------------------------------------
(* The sequences that the calls make. *)
LEMMA SeqEqualItems ==
    ASSUME NEW s \in Seq(Items), NEW t \in Seq(Items), Len(s) = Len(t), \A j \in 1 .. Len(s) : s[j] = t[j]
    PROVE  s = t
  OBVIOUS

LEMMA CatIs ==
    ASSUME NEW s \in Seq(Items), NEW r \in Seq(Items)
    PROVE  /\ s \o r \in Seq(Items) /\ Len(s \o r) = Len(s) + Len(r) /\ Len(s) \in Nat /\ Len(r) \in Nat
           /\ \A j \in 1 .. Len(s) + Len(r) : (s \o r)[j] = IF j <= Len(s) THEN s[j] ELSE r[j - Len(s)]
           /\ \A h : \A j \in 0 .. Len(s) + Len(r) + 1 :
                 Spot(h, s \o r, j) = IF j <= Len(s) THEN Spot(h, s, j) ELSE Spot(h, r, j - Len(s))
<1> DEFINE t == s \o r
<1>1. /\ t \in Seq(Items) /\ Len(t) = Len(s) + Len(r) /\ Len(s) \in Nat /\ Len(r) \in Nat
      /\ \A j \in 1 .. Len(s) + Len(r) : t[j] = IF j <= Len(s) THEN s[j] ELSE r[j - Len(s)]
  OBVIOUS
<1> HIDE DEF t
<1>2. \A h : \A j \in 0 .. Len(s) + Len(r) + 1 :
         Spot(h, t, j) = IF j <= Len(s) THEN Spot(h, s, j) ELSE Spot(h, r, j - Len(s))
  BY <1>1 DEF Spot
<1> QED BY <1>1, <1>2 DEF t

(* t is s with i at place k, and s without its place k. *)
Widened(t, s, k, i) ==
    /\ t \in Seq(Items) /\ Len(t) = Len(s) + 1
    /\ \A j \in 1 .. Len(s) + 1 : t[j] = IF j < k THEN s[j] ELSE IF j = k THEN i ELSE s[j - 1]
    /\ \A h : \A j \in 0 .. Len(s) + 2 :
          Spot(h, t, j) = IF j < k THEN Spot(h, s, j) ELSE IF j = k THEN i ELSE Spot(h, s, j - 1)

Narrowed(t, s, k) ==
    /\ t \in Seq(Items) /\ Len(t) = Len(s) - 1
    /\ \A j \in 1 .. Len(s) - 1 : t[j] = IF j < k THEN s[j] ELSE s[j + 1]
    /\ \A h : \A j \in 0 .. Len(s) : Spot(h, t, j) = IF j < k THEN Spot(h, s, j) ELSE Spot(h, s, j + 1)

LEMMA InsertIs ==
    ASSUME NEW s \in Seq(Items), NEW k \in 1 .. Len(s) + 1, NEW i \in Items
    PROVE  Widened(InsertAt(s, k, i), s, k, i)
<1>1. Len(s) \in Nat
  OBVIOUS
<1> DEFINE a == SubSeq(s, 1, k - 1)
           b == SubSeq(s, k, Len(s))
           t == InsertAt(s, k, i)
<1>2. a \in Seq(Items) /\ Len(a) = k - 1 /\ \A j \in 1 .. k - 1 : a[j] = s[j]
  BY <1>1
<1>3. b \in Seq(Items) /\ Len(b) = Len(s) - (k - 1) /\ \A j \in 1 .. Len(s) - (k - 1) : b[j] = s[j + (k - 1)]
  BY <1>1
<1>e. <<i>> \in Seq(Items) /\ Len(<<i>>) = 1 /\ <<i>>[1] = i
  OBVIOUS
<1>4. PICK e : e = <<i>> /\ e \in Seq(Items) /\ Len(e) = 1 /\ e[1] = i
  BY <1>e, Zenon
<1>5. t = (a \o e) \o b
  BY <1>4 DEF InsertAt
<1> HIDE DEF a, b, t
<1> DEFINE c == a \o e
<1>6. c \in Seq(Items) /\ Len(c) = k /\ \A j \in 1 .. k : c[j] = IF j < k THEN a[j] ELSE i
  <2>1. /\ c \in Seq(Items) /\ Len(c) = Len(a) + Len(e)
        /\ \A j \in 1 .. Len(a) + Len(e) : c[j] = IF j <= Len(a) THEN a[j] ELSE e[j - Len(a)]
    BY <1>2, <1>4, CatIs, Zenon
  <2> HIDE DEF c
  <2> QED BY <1>1, <1>2, <1>4, <2>1
<1> HIDE DEF c
<1>7. /\ c \o b \in Seq(Items) /\ Len(c \o b) = Len(c) + Len(b)
      /\ \A j \in 1 .. Len(c) + Len(b) : (c \o b)[j] = IF j <= Len(c) THEN c[j] ELSE b[j - Len(c)]
  BY <1>3, <1>6, CatIs, Zenon
<1>8. t = c \o b
  BY <1>5 DEF c
<1>9. /\ t \in Seq(Items) /\ Len(t) = Len(s) + 1
      /\ \A j \in 1 .. Len(s) + 1 : t[j] = IF j <= k THEN c[j] ELSE b[j - k]
  BY <1>1, <1>3, <1>6, <1>7, <1>8
<1>10. ASSUME NEW j \in 1 .. Len(s) + 1
       PROVE  t[j] = IF j < k THEN s[j] ELSE IF j = k THEN i ELSE s[j - 1]
  <2>1. CASE j < k
    <3>1. j \in 1 .. k - 1 /\ j \in 1 .. k /\ j <= k
      BY <1>1, <2>1
    <3>2. t[j] = c[j]
      BY <1>9, <3>1, Zenon
    <3>3. c[j] = a[j]
      BY <1>6, <2>1, <3>1, Zenon
    <3>4. a[j] = s[j]
      BY <1>2, <3>1, Zenon
    <3> QED BY <2>1, <3>2, <3>3, <3>4, Zenon
  <2>2. CASE j = k
    <3>1. j \in 1 .. k /\ j <= k /\ ~(j < k)
      BY <1>1, <2>2
    <3>2. t[j] = c[j]
      BY <1>9, <3>1, Zenon
    <3>3. c[j] = i
      BY <1>6, <3>1, Zenon
    <3> QED BY <2>2, <3>1, <3>2, <3>3, Zenon
  <2>3. CASE j > k
    <3>1. j - k \in 1 .. Len(s) - (k - 1) /\ (j - k) + (k - 1) = j - 1
      BY <1>1, <2>3
    <3>2. t[j] = b[j - k]
      BY <1>9, <2>3
    <3>3. b[j - k] = s[(j - k) + (k - 1)]
      BY <1>3, <3>1
    <3>4. ~(j < k) /\ j # k
      BY <1>1, <2>3
    <3> QED BY <3>1, <3>2, <3>3, <3>4
  <2> QED BY <1>1, <2>1, <2>2, <2>3
<1>11. \A h : \A j \in 0 .. Len(s) + 2 :
          Spot(h, t, j) = IF j < k THEN Spot(h, s, j) ELSE IF j = k THEN i ELSE Spot(h, s, j - 1)
  BY <1>1, <1>9, <1>10 DEF Spot
<1> QED BY <1>9, <1>10, <1>11 DEF t, Widened

LEMMA RemoveIs ==
    ASSUME NEW s \in Seq(Items), NEW k \in 1 .. Len(s)
    PROVE  Narrowed(RemoveAt(s, k), s, k)
<1>1. Len(s) \in Nat
  OBVIOUS
<1> DEFINE a == SubSeq(s, 1, k - 1)
           b == SubSeq(s, k + 1, Len(s))
           t == RemoveAt(s, k)
<1>2. a \in Seq(Items) /\ Len(a) = k - 1 /\ \A j \in 1 .. k - 1 : a[j] = s[j]
  BY <1>1
<1>3. b \in Seq(Items) /\ Len(b) = Len(s) - k /\ \A j \in 1 .. Len(s) - k : b[j] = s[j + k]
  BY <1>1
<1>4. t = a \o b
  BY DEF RemoveAt
<1> HIDE DEF a, b, t
<1>5. /\ a \o b \in Seq(Items) /\ Len(a \o b) = Len(a) + Len(b)
      /\ \A j \in 1 .. Len(a) + Len(b) : (a \o b)[j] = IF j <= Len(a) THEN a[j] ELSE b[j - Len(a)]
  BY <1>2, <1>3, CatIs, Zenon
<1>6. /\ t \in Seq(Items) /\ Len(t) = Len(s) - 1
      /\ \A j \in 1 .. Len(s) - 1 : t[j] = IF j < k THEN a[j] ELSE b[j - (k - 1)]
  BY <1>1, <1>2, <1>3, <1>4, <1>5
<1>7. ASSUME NEW j \in 1 .. Len(s) - 1
      PROVE  t[j] = IF j < k THEN s[j] ELSE s[j + 1]
  <2>1. CASE j < k
    <3>1. j \in 1 .. k - 1
      BY <1>1, <2>1
    <3>2. t[j] = a[j]
      BY <1>6, <2>1, Zenon
    <3>3. a[j] = s[j]
      BY <1>2, <3>1, Zenon
    <3> QED BY <2>1, <3>2, <3>3, Zenon
  <2>2. CASE j >= k
    <3>1. j - (k - 1) \in 1 .. Len(s) - k /\ (j - (k - 1)) + k = j + 1
      BY <1>1, <2>2
    <3> QED BY <1>1, <1>3, <1>6, <2>2, <3>1
  <2> QED BY <1>1, <2>1, <2>2
<1>8. \A h : \A j \in 0 .. Len(s) : Spot(h, t, j) = IF j < k THEN Spot(h, s, j) ELSE Spot(h, s, j + 1)
  BY <1>1, <1>6, <1>7 DEF Spot
<1> QED BY <1>6, <1>7, <1>8 DEF t, Narrowed

LEMMA CutIs ==
    ASSUME NEW s \in Seq(Items), NEW k \in 0 .. Len(s)
    PROVE  /\ SubSeq(s, 1, k) \in Seq(Items) /\ Len(SubSeq(s, 1, k)) = k
           /\ SubSeq(s, k + 1, Len(s)) \in Seq(Items) /\ Len(SubSeq(s, k + 1, Len(s))) = Len(s) - k
           /\ \A j \in 1 .. k : SubSeq(s, 1, k)[j] = s[j]
           /\ \A j \in 1 .. Len(s) - k : SubSeq(s, k + 1, Len(s))[j] = s[j + k]
  OBVIOUS

(* How a call sees the first and the last place. *)
LEMMA InsertEnds ==
    ASSUME NEW s \in Seq(Items), NEW i \in Items
    PROVE  <<i>> \o s = InsertAt(s, 1, i) /\ s \o <<i>> = InsertAt(s, Len(s) + 1, i)
<1>1. Len(s) \in Nat /\ 0 + 1 = 1
  OBVIOUS
<1>2. /\ <<i>> \o s \in Seq(Items) /\ Len(<<i>> \o s) = Len(s) + 1
      /\ \A j \in 1 .. Len(s) + 1 : (<<i>> \o s)[j] = IF j = 1 THEN i ELSE s[j - 1]
  BY <1>1
<1>3. /\ s \o <<i>> \in Seq(Items) /\ Len(s \o <<i>>) = Len(s) + 1
      /\ \A j \in 1 .. Len(s) + 1 : (s \o <<i>>)[j] = IF j <= Len(s) THEN s[j] ELSE i
  BY <1>1
<1>4. /\ InsertAt(s, 1, i) \in Seq(Items) /\ Len(InsertAt(s, 1, i)) = Len(s) + 1
      /\ \A j \in 1 .. Len(s) + 1 : InsertAt(s, 1, i)[j] = IF j = 1 THEN i ELSE s[j - 1]
  <2>1. PICK z \in 1 .. Len(s) + 1 : z = 1
    BY <1>1
  <2>2. Widened(InsertAt(s, z, i), s, z, i)
    BY InsertIs
  <2> QED BY <1>1, <2>1, <2>2 DEF Widened
<1>5. /\ InsertAt(s, Len(s) + 1, i) \in Seq(Items) /\ Len(InsertAt(s, Len(s) + 1, i)) = Len(s) + 1
      /\ \A j \in 1 .. Len(s) + 1 : InsertAt(s, Len(s) + 1, i)[j] = IF j <= Len(s) THEN s[j] ELSE i
  <2>1. PICK z \in 1 .. Len(s) + 1 : z = Len(s) + 1
    BY <1>1
  <2>2. Widened(InsertAt(s, z, i), s, z, i)
    BY InsertIs
  <2> QED BY <1>1, <2>1, <2>2 DEF Widened
<1> QED BY <1>1, <1>2, <1>3, <1>4, <1>5, SeqEqualItems

(* A replaced item is taken out, and another put in at its place. *)
LEMMA ReplaceIs ==
    ASSUME NEW s \in Seq(Items), NEW k \in 1 .. Len(s), NEW i \in Items
    PROVE  InsertAt(RemoveAt(s, k), k, i) = [s EXCEPT ![k] = i]
<1> DEFINE r == RemoveAt(s, k)
           t == InsertAt(r, k, i)
           u == [s EXCEPT ![k] = i]
<1>1. Len(s) \in Nat /\ r \in Seq(Items) /\ Len(r) = Len(s) - 1
      /\ \A j \in 1 .. Len(s) - 1 : r[j] = IF j < k THEN s[j] ELSE s[j + 1]
  BY RemoveIs DEF Narrowed
<1>2. u \in Seq(Items) /\ Len(u) = Len(s) /\ \A j \in 1 .. Len(s) : u[j] = IF j = k THEN i ELSE s[j]
  BY <1>1
<1> HIDE DEF r, u
<1>3. k \in 1 .. Len(r) + 1
  BY <1>1
<1>4. t \in Seq(Items) /\ Len(t) = Len(r) + 1
      /\ \A j \in 1 .. Len(r) + 1 : t[j] = IF j < k THEN r[j] ELSE IF j = k THEN i ELSE r[j - 1]
  <2>1. Widened(t, r, k, i)
    BY <1>1, <1>3, InsertIs
  <2> QED BY <2>1 DEF Widened
<1> HIDE DEF t
<1>5. ASSUME NEW j \in 1 .. Len(s)
      PROVE  t[j] = u[j]
  <2>1. CASE j < k
    <3>1. j \in 1 .. Len(r) + 1 /\ j \in 1 .. Len(s) - 1 /\ j # k
      BY <1>1, <2>1
    <3> QED BY <1>1, <1>2, <1>4, <2>1, <3>1
  <2>2. CASE j = k
    BY <1>1, <1>2, <1>4, <2>2
  <2>3. CASE j > k
    <3>1. j - 1 \in 1 .. Len(r) /\ ~(j - 1 < k) /\ (j - 1) + 1 = j
      BY <1>1, <2>3
    <3> QED BY <1>1, <1>2, <1>4, <2>3, <3>1
  <2> QED BY <1>1, <2>1, <2>2, <2>3
<1>6. Len(t) = Len(s)
  BY <1>1, <1>4
<1>7. t = u
  BY <1>2, <1>4, <1>5, <1>6, SeqEqualItems
<1> QED BY <1>7 DEF t, r, u

--------------------------------------------------------------------------
(* What the functions of the headers do to the lists. *)
LEMMA InsertKeeps ==
    ASSUME NEW m, NEW st, NEW S, Rep(m, st, S), NEW h \in Heads \ st, NEW k \in 1 .. Len(S[h]) + 1,
           NEW i \in Items, i \in st \/ m.next[i] = i,
           NEW p, p = Spot(h, S[h], k - 1), NEW n, n = Spot(h, S[h], k), NEW w, w = __list_add(m, i, p, n)
    PROVE  Rep(w, st \ {i}, [S EXCEPT ![h] = InsertAt(S[h], k, i)])
<1> DEFINE s == S[h]
           t == InsertAt(s, k, i)
           T == [S EXCEPT ![h] = t]
<1>1. s \in Seq(Items) /\ Len(s) \in Nat /\ k - 1 \in 0 .. Len(s) /\ (k - 1) + 1 = k /\ h \in Cells
  BY Lens DEF Cells
<1>2. /\ t \in Seq(Items) /\ Len(t) = Len(s) + 1
      /\ \A j \in 1 .. Len(s) + 1 : t[j] = IF j < k THEN s[j] ELSE IF j = k THEN i ELSE s[j - 1]
      /\ \A j \in 0 .. Len(s) + 2 : Spot(h, t, j) = IF j < k THEN Spot(h, s, j) ELSE IF j = k THEN i ELSE Spot(h, s, j - 1)
  <2>1. Widened(t, s, k, i)
    BY <1>1, InsertIs
  <2> HIDE DEF t, s
  <2> QED BY <2>1 DEF Widened
<1>3. ~IsOn(S, st, i)
  BY LooseFree
<1>4. /\ \A g \in Heads \ st : \A j \in Int : Spot(g, S[g], j) \in Cells \ st /\ Spot(g, S[g], j) # i
      /\ i \in Cells /\ p \in Cells \ st /\ n \in Cells \ st /\ p # i /\ n # i
  <2>1. ASSUME NEW g \in Heads \ st, NEW j \in Int
        PROVE  Spot(g, S[g], j) \in Cells \ st /\ Spot(g, S[g], j) # i
    <3>1. Spot(g, S[g], j) # i
      BY <1>3, ListAssumption DEF Spot, IsOn
    <3> QED BY <3>1, Spots
  <2> QED BY <1>1, <2>1 DEF Cells
<1>5. /\ w = [next |-> w.next, prev |-> w.prev]
      /\ w.next \in [Cells -> Cells \cup {NULL}] /\ w.prev \in [Cells -> Cells \cup {NULL}]
      /\ \A c \in Cells : /\ w.next[c] = IF c = i THEN n ELSE IF c = p THEN i ELSE m.next[c]
                          /\ w.prev[c] = IF c = i THEN p ELSE IF c = n THEN i ELSE m.prev[c]
  <2>1. Pointers(m)
    BY DEF Rep
  <2> QED BY <1>4, <2>1 DEF Pointers, __list_add, Link
<1> HIDE DEF t
<1>6. ASSUME NEW j \in 0 .. Len(t)
      PROVE  w.next[Spot(h, t, j)] = Spot(h, t, j + 1) /\ w.prev[Spot(h, t, j + 1)] = Spot(h, t, j)
  <2>0. j \in Int /\ j \in 0 .. Len(s) + 2 /\ j + 1 \in 0 .. Len(s) + 2
    BY <1>1, <1>2
  <2>1. CASE j < k - 1
    <3>1. j \in 0 .. Len(s) /\ j # k - 1 /\ j + 1 # k /\ j + 1 < k /\ j < k /\ j + 1 \in 1 .. Len(s) + 1 /\ k \in 1 .. Len(s) + 1
      BY <1>1, <2>0, <2>1
    <3>2. Spot(h, t, j) = Spot(h, s, j) /\ Spot(h, t, j + 1) = Spot(h, s, j + 1)
      BY <1>2, <2>0, <3>1
    <3>3. Spot(h, s, j) # p /\ Spot(h, s, j + 1) # n
      BY <1>1, <3>1, Spots
    <3>4. m.next[Spot(h, s, j)] = Spot(h, s, j + 1) /\ m.prev[Spot(h, s, j + 1)] = Spot(h, s, j)
      BY <3>1, Around
    <3> QED BY <1>4, <1>5, <2>0, <3>2, <3>3, <3>4
  <2>2. CASE j = k - 1
    <3>1. Spot(h, t, j) = p /\ Spot(h, t, j + 1) = i
      BY <1>1, <1>2, <2>0, <2>2
    <3> QED BY <1>4, <1>5, <3>1
  <2>3. CASE j = k
    <3>1. Spot(h, t, j) = i /\ Spot(h, t, j + 1) = n
      BY <1>1, <1>2, <2>0, <2>3
    <3> QED BY <1>4, <1>5, <3>1
  <2>4. CASE j > k
    <3>1. /\ j - 1 \in 0 .. Len(s) /\ j - 1 # k - 1 /\ j # k /\ ~(j < k) /\ j \in 1 .. Len(s) + 1 /\ k \in 1 .. Len(s) + 1
          /\ (j - 1) + 1 = j /\ (j + 1) - 1 = j /\ ~(j + 1 < k) /\ j + 1 # k
      BY <1>1, <1>2, <2>0, <2>4
    <3>2. Spot(h, t, j) = Spot(h, s, j - 1) /\ Spot(h, t, j + 1) = Spot(h, s, j)
      BY <1>2, <2>0, <3>1
    <3>3. Spot(h, s, j - 1) # p /\ Spot(h, s, j) # n
      BY <1>1, <3>1, Spots
    <3>4. m.next[Spot(h, s, j - 1)] = Spot(h, s, j) /\ m.prev[Spot(h, s, j)] = Spot(h, s, j - 1)
      BY <3>1, Around
    <3>5. j - 1 \in Int
      BY <3>1
    <3> QED BY <1>4, <1>5, <2>0, <3>2, <3>3, <3>4, <3>5
  <2> QED BY <1>1, <2>0, <2>1, <2>2, <2>3, <2>4
<1>7. ASSUME NEW a \in 1 .. Len(t), NEW b \in 1 .. Len(t), t[a] = t[b]
      PROVE  a = b
  <2>1. /\ \A j \in 1 .. Len(s) : s[j] # i
        /\ \A c, d \in 1 .. Len(s) : s[c] = s[d] => c = d
    BY <1>3 DEF IsOn, Rep, Ring
  <2>2. ASSUME NEW j \in 1 .. Len(s) + 1
        PROVE  \/ j = k /\ t[j] = i
               \/ j < k /\ j \in 1 .. Len(s) /\ t[j] = s[j]
               \/ j > k /\ j - 1 \in 1 .. Len(s) /\ t[j] = s[j - 1]
    <3>1. t[j] = IF j < k THEN s[j] ELSE IF j = k THEN i ELSE s[j - 1]
      BY <1>2
    <3>2. j < k => j \in 1 .. Len(s)
      BY <1>1
    <3>3. j > k => j - 1 \in 1 .. Len(s)
      BY <1>1
    <3>4. j < k \/ j = k \/ j > k
      BY <1>1
    <3> QED BY <1>1, <3>1, <3>2, <3>3, <3>4
  <2>3. a \in 1 .. Len(s) + 1 /\ b \in 1 .. Len(s) + 1
    BY <1>2
  <2>4. CASE a = k \/ b = k
    BY <1>7, <2>1, <2>2, <2>3, <2>4
  <2>5. CASE a < k /\ b < k
    BY <1>7, <2>1, <2>2, <2>3, <2>5
  <2>6. CASE a > k /\ b > k
    <3>1. a - 1 \in 1 .. Len(s) /\ b - 1 \in 1 .. Len(s) /\ s[a - 1] = s[b - 1]
      BY <1>7, <2>2, <2>3, <2>6
    <3>2. a - 1 = b - 1
      BY <2>1, <3>1
    <3> QED BY <2>3, <3>2
  <2>7. CASE a < k /\ b > k
    <3>1. a \in 1 .. Len(s) /\ b - 1 \in 1 .. Len(s) /\ s[a] = s[b - 1]
      BY <1>7, <2>2, <2>3, <2>7
    <3>2. a = b - 1
      BY <2>1, <3>1
    <3> QED BY <2>3, <2>7, <3>2
  <2>8. CASE a > k /\ b < k
    <3>1. a - 1 \in 1 .. Len(s) /\ b \in 1 .. Len(s) /\ s[a - 1] = s[b]
      BY <1>7, <2>2, <2>3, <2>8
    <3>2. a - 1 = b
      BY <2>1, <3>1
    <3> QED BY <2>3, <2>8, <3>2
  <2> QED BY <2>3, <2>4, <2>5, <2>6, <2>7, <2>8
<1>8. Ring(w, h, t)
  BY <1>2, <1>6, <1>7 DEF Ring
<1>9. ASSUME NEW j \in 1 .. Len(t)
      PROVE  t[j] = i \/ \E a \in 1 .. Len(s) : t[j] = s[a]
  <2>1. j \in 1 .. Len(s) + 1
    BY <1>2
  <2>2. CASE j > k
    <3>1. j - 1 \in 1 .. Len(s) /\ t[j] = s[j - 1]
      BY <1>1, <1>2, <2>1, <2>2
    <3> QED BY <3>1
  <2> QED BY <1>1, <1>2, <2>1, <2>2
<1>10. /\ \E j \in 1 .. Len(t) : t[j] = i
       /\ \A a \in 1 .. Len(s) : \E j \in 1 .. Len(t) : t[j] = s[a]
  <2>1. k \in 1 .. Len(t) /\ t[k] = i
    BY <1>1, <1>2
  <2>2. ASSUME NEW a \in 1 .. Len(s)
        PROVE  \E j \in 1 .. Len(t) : t[j] = s[a]
    <3>1. CASE a < k
      <4>1. a \in 1 .. Len(t) /\ a \in 1 .. Len(s) + 1
        BY <1>1, <1>2
      <4> QED BY <1>2, <3>1, <4>1
    <3>2. CASE a >= k
      <4>1. a + 1 \in 1 .. Len(t) /\ ~(a + 1 < k) /\ a + 1 # k /\ (a + 1) - 1 = a
        BY <1>1, <1>2, <3>2
      <4> QED BY <1>2, <4>1
    <3> QED BY <1>1, <3>1, <3>2
  <2> QED BY <2>1, <2>2
<1> HIDE DEF s
<1>11. /\ \A a \in 1 .. Len(s) : s[a] \notin st
       /\ \A g \in Heads \ ({h} \cup st) : \A b \in 1 .. Len(S[g]) : S[g][b] # i /\ S[g][b] \notin st /\ \A a \in 1 .. Len(s) : s[a] # S[g][b]
  BY <1>3 DEF Rep, IsOn, s
<1>12. T \in [Heads -> Seq(Items) \cup {None}] /\ T[h] = t /\ \A g \in Heads \ {h} : T[g] = S[g]
  BY <1>2 DEF Rep
<1>13. h \notin st \ {i} /\ T[h] # None /\ st \ {i} \subseteq Cells /\ Heads \cap Items = {}
  BY <1>2, <1>12, AbstractionAssumption, ListAssumption DEF Rep
<1>14. ASSUME NEW g \in Heads \ ({h} \cup st), NEW j \in 0 .. Len(S[g])
       PROVE  /\ w.next[Spot(g, S[g], j)] = m.next[Spot(g, S[g], j)]
              /\ w.prev[Spot(g, S[g], j + 1)] = m.prev[Spot(g, S[g], j + 1)]
  <2>1. j \in Int /\ j + 1 \in Int /\ k - 1 \in Int /\ k \in Int
    BY <1>1
  <2>2. \A a, b \in Int : Spot(g, S[g], a) # Spot(h, S[h], b)
    BY Spots
  <2> QED BY <1>4, <1>5, <2>1, <2>2
<1>15. ASSUME NEW c \in Items \ (st \ {i})
       PROVE  w.next[c] = c \/ IsOn(T, st \ {i}, c)
  <2>0. Heads \ (st \ {i}) = Heads \ st
    BY <1>13
  <2>1. CASE c = i
    BY <1>10, <1>12, <1>13, <2>1 DEF IsOn
  <2>2. CASE c # i /\ IsOn(S, st, c)
    <3>1. PICK g \in Heads \ st : \E b \in 1 .. Len(S[g]) : S[g][b] = c
      BY <2>2 DEF IsOn
    <3>2. CASE g = h
      BY <1>10, <1>12, <2>0, <3>1, <3>2 DEF IsOn, s
    <3>3. CASE g # h
      BY <1>12, <2>0, <3>1, <3>3 DEF IsOn
    <3> QED BY <3>2, <3>3
  <2>3. CASE c # i /\ ~IsOn(S, st, c)
    <3>1. c \in Items \ st /\ m.next[c] = c /\ c \in Cells
      BY <2>3 DEF Rep, Cells
    <3>2. c # p
      <4>1. p \in Items => IsOn(S, st, p)
        BY <1>1, ListAssumption DEF Spot, IsOn
      <4> QED BY <2>3, <4>1
    <3> QED BY <1>5, <2>3, <3>1, <3>2
  <2> QED BY <2>1, <2>2, <2>3
<1>16. /\ Pointers(w) /\ {h} \in SUBSET Heads
       /\ \A g \in Heads \ {h} : T[g] = S[g] /\ (g \in st <=> g \in st \ {i})
       /\ \A g \in {h} : T[g] = None <=> g \in st \ {i}
  BY <1>5, <1>12, <1>13 DEF Pointers
<1>17. \A g \in {h} \ (st \ {i}) : Ring(w, g, T[g]) /\ \A j \in 1 .. Len(T[g]) : T[g][j] \notin st \ {i}
  BY <1>8, <1>9, <1>11, <1>12
<1>18. \A g \in Heads \ ({h} \cup st) :
          /\ \A j \in 0 .. Len(S[g]) : /\ w.next[Spot(g, S[g], j)] = m.next[Spot(g, S[g], j)]
                                       /\ w.prev[Spot(g, S[g], j + 1)] = m.prev[Spot(g, S[g], j + 1)]
          /\ \A j \in 1 .. Len(S[g]) : S[g][j] \notin st \ {i}
  BY <1>11, <1>14
<1>19. \A g \in {h} \ (st \ {i}), f \in Heads \ (st \ {i}) : g # f =>
          \A a \in 1 .. Len(T[g]), b \in 1 .. Len(T[f]) : T[g][a] # T[f][b]
  BY <1>9, <1>11, <1>12, <1>16
<1>20. T \in [Heads -> Seq(Items) \cup {None}] /\ st \ {i} \subseteq Cells
  BY <1>12, <1>13
<1> HIDE DEF T
<1>21. Rep(w, st \ {i}, T)
  <2>1. Changes(m, st, S, w, st \ {i}, T, {h})
    BY <1>15, <1>16, <1>17, <1>18, <1>19, <1>20 DEF Changes
  <2> QED BY <1>16, <2>1, RepChange
<1> QED BY <1>21 DEF T, s, t

(* The rest of a list without its place k, whatever the cell there points to then. *)
LEMMA DeleteKeeps ==
    ASSUME NEW m, NEW st, NEW S, Rep(m, st, S), NEW h \in Heads \ st, NEW k \in 1 .. Len(S[h]),
           NEW e, e = S[h][k], NEW w, Pointers(w),
           \A c \in Cells \ {e} : /\ w.next[c] = IF c = m.prev[e] THEN m.next[e] ELSE m.next[c]
                                  /\ w.prev[c] = IF c = m.next[e] THEN m.prev[e] ELSE m.prev[c]
    PROVE  Rep(w, st \cup {e}, [S EXCEPT ![h] = RemoveAt(S[h], k)])
<1> DEFINE s == S[h]
           t == RemoveAt(s, k)
           T == [S EXCEPT ![h] = t]
           p == m.prev[e]
           n == m.next[e]
<1>1. s \in Seq(Items) /\ Len(s) \in Nat /\ h \in Cells /\ k \in 1 .. Len(s)
  BY Lens DEF Cells
<1>2. /\ t \in Seq(Items) /\ Len(t) = Len(s) - 1
      /\ \A j \in 1 .. Len(s) - 1 : t[j] = IF j < k THEN s[j] ELSE s[j + 1]
      /\ \A j \in 0 .. Len(s) : Spot(h, t, j) = IF j < k THEN Spot(h, s, j) ELSE Spot(h, s, j + 1)
  <2>1. Narrowed(t, s, k)
    BY <1>1, RemoveIs
  <2> HIDE DEF t, s
  <2> QED BY <2>1 DEF Narrowed
<1>3. e = Spot(h, s, k) /\ p = Spot(h, s, k - 1) /\ n = Spot(h, s, k + 1) /\ e \in Items /\ e \notin st
  <2>1. e = Spot(h, s, k) /\ e \in Items /\ e \notin st
    BY <1>1 DEF Spot, Rep
  <2>2. k \in 0 .. Len(s) /\ k - 1 \in 0 .. Len(s) /\ (k - 1) + 1 = k
    BY <1>1
  <2>3. m.next[Spot(h, s, k)] = Spot(h, s, k + 1)
    BY <2>2, Around
  <2>4. m.prev[Spot(h, s, (k - 1) + 1)] = Spot(h, s, k - 1)
    BY <2>2, Around
  <2> QED BY <2>1, <2>2, <2>3, <2>4
<1>4. /\ \A g \in Heads \ st : \A j \in Int : Spot(g, S[g], j) \in Cells
      /\ \A g \in Heads \ st : g # h => \A j, l \in Int : Spot(h, s, l) # Spot(g, S[g], j)
      /\ \A j, l \in 0 .. Len(s) : j # l => Spot(h, s, j) # Spot(h, s, l)
      /\ \A j, l \in 1 .. Len(s) + 1 : j # l => Spot(h, s, j) # Spot(h, s, l)
  BY Spots
<1>5. ASSUME NEW c \in Cells, c # e
      PROVE  w.next[c] = (IF c = p THEN n ELSE m.next[c]) /\ w.prev[c] = (IF c = n THEN p ELSE m.prev[c])
  BY <1>5
<1> HIDE DEF t, p, n
<1>6. ASSUME NEW j \in 0 .. Len(t)
      PROVE  w.next[Spot(h, t, j)] = Spot(h, t, j + 1) /\ w.prev[Spot(h, t, j + 1)] = Spot(h, t, j)
  <2>0. /\ j \in Int /\ j \in 0 .. Len(s) /\ j + 1 \in 0 .. Len(s) /\ k \in 0 .. Len(s) /\ k \in 1 .. Len(s) + 1
        /\ k - 1 \in 0 .. Len(s) /\ k + 1 \in 1 .. Len(s) + 1 /\ k # k - 1 /\ k # k + 1 /\ (j + 1) + 1 \in 1 .. Len(s) + 1
        /\ k \in Int /\ (j + 1) + 1 \in Int /\ j + 1 \in Int /\ k - 1 \in Int /\ k + 1 \in Int
    <3>1. PICK l \in Nat : l = Len(s)
      BY <1>1
    <3>2. j \in 0 .. l - 1 /\ k \in 1 .. l
      BY <1>1, <1>2, <3>1
    <3>3. /\ j \in Int /\ j \in 0 .. l /\ j + 1 \in 0 .. l /\ k \in 0 .. l /\ k \in 1 .. l + 1
          /\ k - 1 \in 0 .. l /\ k + 1 \in 1 .. l + 1 /\ k # k - 1 /\ k # k + 1 /\ (j + 1) + 1 \in 1 .. l + 1
          /\ k \in Int /\ (j + 1) + 1 \in Int /\ j + 1 \in Int /\ k - 1 \in Int /\ k + 1 \in Int
      BY <3>2
    <3> QED BY <3>1, <3>3, Zenon
  <2>1. CASE j < k - 1
    <3>1. j # k - 1 /\ j # k /\ j + 1 # k /\ j + 1 # k + 1 /\ j + 1 < k /\ j < k /\ j + 1 \in 1 .. Len(s) + 1
      BY <1>1, <2>0, <2>1
    <3>2. Spot(h, t, j) = Spot(h, s, j) /\ Spot(h, t, j + 1) = Spot(h, s, j + 1)
      BY <1>2, <2>0, <3>1
    <3>3. Spot(h, s, j) # e /\ Spot(h, s, j) # p /\ Spot(h, s, j + 1) # e /\ Spot(h, s, j + 1) # n
      BY <1>3, <1>4, <2>0, <3>1
    <3>4. m.next[Spot(h, s, j)] = Spot(h, s, j + 1) /\ m.prev[Spot(h, s, j + 1)] = Spot(h, s, j)
      BY <2>0, Around
    <3> QED BY <1>4, <1>5, <2>0, <3>2, <3>3, <3>4
  <2>2. CASE j = k - 1
    <3>1. Spot(h, t, j) = p /\ Spot(h, t, j + 1) = n
      <4>1. j < k /\ ~(j + 1 < k) /\ j + 1 = k
        BY <1>1, <2>0, <2>2
      <4> QED BY <1>2, <1>3, <2>0, <2>2, <4>1
    <3>2. p # e /\ n # e /\ p \in Cells /\ n \in Cells
      BY <1>3, <1>4, <2>0
    <3> QED BY <1>5, <3>1, <3>2
  <2>3. CASE j >= k
    <3>1. /\ j + 1 # k - 1 /\ j + 1 # k /\ (j + 1) + 1 # k /\ (j + 1) + 1 # k + 1 /\ ~(j + 1 < k) /\ ~(j < k)
          /\ j + 1 \in 1 .. Len(s) + 1
      BY <1>1, <2>0, <2>3
    <3>2. Spot(h, t, j) = Spot(h, s, j + 1) /\ Spot(h, t, j + 1) = Spot(h, s, (j + 1) + 1)
      BY <1>2, <2>0, <3>1
    <3>3. Spot(h, s, j + 1) # e /\ Spot(h, s, j + 1) # p /\ Spot(h, s, (j + 1) + 1) # e /\ Spot(h, s, (j + 1) + 1) # n
      BY <1>3, <1>4, <2>0, <3>1
    <3>4. m.next[Spot(h, s, j + 1)] = Spot(h, s, (j + 1) + 1) /\ m.prev[Spot(h, s, (j + 1) + 1)] = Spot(h, s, j + 1)
      BY <2>0, Around
    <3> QED BY <1>4, <1>5, <2>0, <3>2, <3>3, <3>4
  <2> QED BY <1>1, <2>0, <2>1, <2>2, <2>3
<1> DEFINE was(j) == IF j < k THEN j ELSE j + 1
<1>7. ASSUME NEW j \in 1 .. Len(t)
      PROVE  was(j) \in 1 .. Len(s) /\ was(j) # k /\ t[j] = s[was(j)]
  <2>1. j \in 1 .. Len(s) - 1
    BY <1>2
  <2>2. CASE j < k
    <3>1. j \in 1 .. Len(s) /\ j # k
      BY <1>1, <2>1, <2>2
    <3> QED BY <1>2, <2>1, <2>2, <3>1
  <2>3. CASE j >= k
    <3>1. j + 1 \in 1 .. Len(s) /\ j + 1 # k /\ ~(j < k)
      BY <1>1, <2>1, <2>3
    <3> QED BY <1>2, <2>1, <3>1
  <2> QED BY <1>1, <2>1, <2>2, <2>3
<1>8. ASSUME NEW a \in 1 .. Len(t), NEW b \in 1 .. Len(t), t[a] = t[b]
      PROVE  a = b
  <2>1. \A c, d \in 1 .. Len(s) : s[c] = s[d] => c = d
    BY DEF Rep, Ring
  <2> HIDE DEF was
  <2>2. was(a) = was(b)
    <3>1. PICK c, d : c = was(a) /\ d = was(b)
      OBVIOUS
    <3>2. c \in 1 .. Len(s) /\ t[a] = s[c]
      BY <1>7, <3>1
    <3>3. d \in 1 .. Len(s) /\ t[b] = s[d]
      BY <1>7, <3>1
    <3> QED BY <1>8, <2>1, <3>1, <3>2, <3>3
  <2> QED BY <1>1, <1>2, <2>2 DEF was
<1> HIDE DEF was
<1>9. Ring(w, h, t)
  BY <1>2, <1>6, <1>8 DEF Ring
<1>10. ASSUME NEW a \in 1 .. Len(s), a # k
       PROVE  \E j \in 1 .. Len(t) : t[j] = s[a]
  <2>1. CASE a < k
    <3>1. a \in 1 .. Len(t) /\ a \in 1 .. Len(s) - 1
      BY <1>1, <1>2, <2>1
    <3> QED BY <1>2, <2>1, <3>1
  <2>2. CASE a > k
    <3>1. a - 1 \in 1 .. Len(t) /\ a - 1 \in 1 .. Len(s) - 1 /\ ~(a - 1 < k) /\ (a - 1) + 1 = a
      BY <1>1, <1>2, <2>2
    <3>2. t[a - 1] = s[(a - 1) + 1]
      BY <1>2, <3>1
    <3> QED BY <3>1, <3>2
  <2> QED BY <1>1, <1>10, <2>1, <2>2
<1>11. /\ \A a, b \in 1 .. Len(s) : s[a] = s[b] => a = b
       /\ \A a \in 1 .. Len(s) : s[a] \notin st
       /\ \A g \in Heads \ ({h} \cup st) : \A b \in 1 .. Len(S[g]) : S[g][b] \notin st /\ \A a \in 1 .. Len(s) : s[a] # S[g][b]
  BY DEF Rep, Ring
<1>12. \A j \in 1 .. Len(t) : t[j] \notin st \cup {e}
  BY <1>1, <1>7, <1>11
<1>13. \A g \in Heads \ ({h} \cup st) : \A b \in 1 .. Len(S[g]) : S[g][b] \notin st \cup {e} /\ \A a \in 1 .. Len(t) : t[a] # S[g][b]
  BY <1>1, <1>7, <1>11
<1>14. /\ T \in [Heads -> Seq(Items) \cup {None}] /\ T[h] = t /\ \A g \in Heads \ {h} : T[g] = S[g]
  BY <1>2 DEF Rep
<1>15. h \notin st \cup {e} /\ T[h] # None /\ st \cup {e} \subseteq Cells /\ Heads \cap Items = {}
       /\ \A g \in Heads : g \in st \cup {e} <=> g \in st
  BY <1>2, <1>3, <1>14, AbstractionAssumption, ListAssumption DEF Rep, Cells
<1>16. ASSUME NEW g \in Heads \ ({h} \cup st), NEW j \in 0 .. Len(S[g])
       PROVE  /\ w.next[Spot(g, S[g], j)] = m.next[Spot(g, S[g], j)]
              /\ w.prev[Spot(g, S[g], j + 1)] = m.prev[Spot(g, S[g], j + 1)]
  <2>1. j \in Int /\ j + 1 \in Int /\ k - 1 \in Int /\ k + 1 \in Int /\ k \in Int
    BY <1>1
  <2>2. \A a \in Int : Spot(g, S[g], a) # e /\ Spot(g, S[g], a) # p /\ Spot(g, S[g], a) # n /\ Spot(g, S[g], a) \in Cells
    BY <1>3, <1>4, <2>1
  <2> QED BY <1>5, <2>1, <2>2
<1>17. ASSUME NEW c \in Items \ (st \cup {e})
       PROVE  w.next[c] = c \/ IsOn(T, st \cup {e}, c)
  <2>1. CASE IsOn(S, st, c)
    <3>1. PICK g \in Heads \ st : \E b \in 1 .. Len(S[g]) : S[g][b] = c
      BY <2>1 DEF IsOn
    <3>2. CASE g = h
      BY <1>10, <1>14, <1>15, <1>17, <3>1, <3>2 DEF IsOn
    <3>3. CASE g # h
      BY <1>14, <1>15, <3>1, <3>3 DEF IsOn
    <3> QED BY <3>2, <3>3
  <2>2. CASE ~IsOn(S, st, c)
    <3>1. c \in Items \ st /\ m.next[c] = c /\ c \in Cells /\ c # e
      BY <1>17, <2>2 DEF Rep, Cells
    <3>2. c # p
      <4>1. p \in Items => IsOn(S, st, p)
        BY <1>1, <1>3, ListAssumption DEF Spot, IsOn
      <4> QED BY <2>2, <3>1, <4>1
    <3> QED BY <1>5, <3>1, <3>2
  <2> QED BY <2>1, <2>2
<1> HIDE DEF s, T
<1>18. Changes(m, st, S, w, st \cup {e}, T, {h})
  <2>1. /\ \A g \in Heads \ {h} : T[g] = S[g] /\ (g \in st <=> g \in st \cup {e})
        /\ \A g \in {h} : T[g] = None <=> g \in st \cup {e}
    BY <1>14, <1>15
  <2>2. \A g \in {h} \ (st \cup {e}) : Ring(w, g, T[g]) /\ \A j \in 1 .. Len(T[g]) : T[g][j] \notin st \cup {e}
    BY <1>9, <1>12, <1>14
  <2>3. \A g \in Heads \ ({h} \cup st) :
           /\ \A j \in 0 .. Len(S[g]) : /\ w.next[Spot(g, S[g], j)] = m.next[Spot(g, S[g], j)]
                                        /\ w.prev[Spot(g, S[g], j + 1)] = m.prev[Spot(g, S[g], j + 1)]
           /\ \A j \in 1 .. Len(S[g]) : S[g][j] \notin st \cup {e}
    BY <1>13, <1>16
  <2>4. \A g \in {h} \ (st \cup {e}), f \in Heads \ (st \cup {e}) : g # f =>
           \A a \in 1 .. Len(T[g]), b \in 1 .. Len(T[f]) : T[g][a] # T[f][b]
    BY <1>13, <1>14, <1>15
  <2> QED BY <1>14, <1>15, <1>17, <2>1, <2>2, <2>3, <2>4 DEF Changes
<1>19. Rep(w, st \cup {e}, T)
  BY <1>18, RepChange
<1> QED BY <1>19 DEF T, s, t

(* What next and prev of a head are, and when it is empty. *)
LEMMA Ends ==
    ASSUME NEW m, NEW st, NEW S, Rep(m, st, S), NEW h \in Heads \ st
    PROVE  /\ m.next[h] = Spot(h, S[h], 1) /\ m.prev[h] = Spot(h, S[h], Len(S[h]))
           /\ m.next[h] = h <=> S[h] = << >>
           /\ S[h] # << >> => Len(S[h]) > 0 /\ m.next[h] = S[h][1] /\ m.prev[h] = S[h][Len(S[h])]
           /\ S[h] = << >> => m.prev[h] = h /\ Len(S[h]) = 0
<1>1. /\ S[h] \in Seq(Items) /\ Len(S[h]) \in Nat /\ 0 \in 0 .. Len(S[h]) /\ Len(S[h]) \in 0 .. Len(S[h])
      /\ \A j \in 1 .. Len(S[h]) : S[h][j] \in Items
  BY Lens
<1>2. Spot(h, S[h], 0) = h /\ Spot(h, S[h], Len(S[h]) + 1) = h
  BY Spots
<1>3. m.next[Spot(h, S[h], 0)] = Spot(h, S[h], 0 + 1) /\ m.prev[Spot(h, S[h], Len(S[h]) + 1)] = Spot(h, S[h], Len(S[h]))
  BY <1>1, Around
<1>4. m.next[h] = Spot(h, S[h], 1) /\ m.prev[h] = Spot(h, S[h], Len(S[h]))
  BY <1>2, <1>3
<1>5. h \notin Items
  BY ListAssumption
<1>6. S[h] = << >> <=> Len(S[h]) = 0
  BY <1>1
<1>7. CASE Len(S[h]) = 0
  BY <1>1, <1>4, <1>6, <1>7 DEF Spot
<1>8. CASE Len(S[h]) > 0
  <2>1. 1 \in 1 .. Len(S[h]) /\ Len(S[h]) \in 1 .. Len(S[h])
    BY <1>1, <1>8
  <2> QED BY <1>1, <1>4, <1>5, <1>6, <1>8, <2>1 DEF Spot
<1> QED BY <1>1, <1>7, <1>8

(* An item that is on no list may point anywhere while it is stale, and must point to *)
(* itself otherwise.                                                                  *)
LEMMA FreeKeeps ==
    ASSUME NEW m, NEW st, NEW S, Rep(m, st, S), NEW i \in Items, ~IsOn(S, st, i), NEW w, Pointers(w),
           \A c \in Cells \ {i} : w.next[c] = m.next[c] /\ w.prev[c] = m.prev[c],
           NEW stw, stw \ {i} = st \ {i}, i \in stw \/ w.next[i] = i
    PROVE  Rep(w, stw, S)
<1>1. \A g \in Heads \ st : \A j \in Int : Spot(g, S[g], j) \in Cells /\ Spot(g, S[g], j) # i
  <2>1. ASSUME NEW g \in Heads \ st, NEW j \in Int
        PROVE  Spot(g, S[g], j) # i
    BY ListAssumption DEF Spot, IsOn
  <2> QED BY <2>1, Spots
<1>2. stw \subseteq Cells /\ \A g \in Heads : g \in st <=> g \in stw
  BY ListAssumption DEF Rep, Cells
<1>3. ASSUME NEW g \in Heads \ st
      PROVE  /\ \A k \in 0 .. Len(S[g]) : /\ w.next[Spot(g, S[g], k)] = m.next[Spot(g, S[g], k)]
                                          /\ w.prev[Spot(g, S[g], k + 1)] = m.prev[Spot(g, S[g], k + 1)]
             /\ \A k \in 1 .. Len(S[g]) : S[g][k] \notin stw
  <2>1. ASSUME NEW k \in 0 .. Len(S[g])
        PROVE  /\ w.next[Spot(g, S[g], k)] = m.next[Spot(g, S[g], k)]
               /\ w.prev[Spot(g, S[g], k + 1)] = m.prev[Spot(g, S[g], k + 1)]
    <3>1. k \in Int /\ k + 1 \in Int
      OBVIOUS
    <3> QED BY <1>1, <3>1
  <2>2. \A k \in 1 .. Len(S[g]) : S[g][k] \notin st /\ S[g][k] # i
    BY DEF Rep, IsOn
  <2> QED BY <2>1, <2>2
<1>4. ASSUME NEW c \in Items \ stw
      PROVE  w.next[c] = c \/ IsOn(S, stw, c)
  <2>1. c = i \/ (c \in Items \ st /\ c \in Cells \ {i})
    BY DEF Cells
  <2>2. Heads \ st = Heads \ stw
    BY <1>2
  <2> QED BY <1>4, <2>1, <2>2 DEF Rep, IsOn
<1>5. Changes(m, st, S, w, stw, S, {})
  <2>1. S \in [Heads -> Seq(Items) \cup {None}]
    BY DEF Rep
  <2> QED BY <1>2, <1>3, <1>4, <2>1 DEF Changes
<1> QED BY <1>5, RepChange

(* A head starts, or starts again when it has no items. *)
LEMMA HeadKeeps ==
    ASSUME NEW m, NEW st, NEW S, Rep(m, st, S), NEW h \in Heads, h \in st \/ m.next[h] = h
    PROVE  Rep(INIT_LIST_HEAD(m, h), st \ {h}, [S EXCEPT ![h] = << >>])
<1> DEFINE w == INIT_LIST_HEAD(m, h)
           T == [S EXCEPT ![h] = << >>]
           e == << >>
<1>1. h \in Cells /\ h \notin Items
  BY ListAssumption DEF Cells
<1>2. /\ Pointers(w) /\ w.next[h] = h /\ w.prev[h] = h
      /\ \A c \in Cells \ {h} : w.next[c] = m.next[c] /\ w.prev[c] = m.prev[c]
  <2>1. Pointers(m)
    BY DEF Rep
  <2> QED BY <1>1, <2>1 DEF Pointers, INIT_LIST_HEAD, Link
<1>3. \A g \in Heads \ ({h} \cup st) : \A j \in Int : Spot(g, S[g], j) \in Cells \ {h}
  <2>1. ASSUME NEW g \in Heads \ ({h} \cup st), NEW j \in Int
        PROVE  Spot(g, S[g], j) # h
    <3>1. \A k \in 1 .. Len(S[g]) : S[g][k] \in Items
      BY Lens
    <3> QED BY <1>1, <3>1 DEF Spot
  <2> QED BY <2>1, Spots
<1>4. e \in Seq(Items) /\ Len(e) = 0
  OBVIOUS
<1>5. h \in st \/ S[h] = << >>
  BY Ends
<1> HIDE DEF w, e
<1>6. Ring(w, h, e)
  <2>1. ASSUME NEW k \in 0 .. Len(e)
        PROVE  w.next[Spot(h, e, k)] = Spot(h, e, k + 1) /\ w.prev[Spot(h, e, k + 1)] = Spot(h, e, k)
    BY <1>2, <1>4 DEF Spot
  <2> QED BY <1>4, <2>1 DEF Ring
<1>7. T \in [Heads -> Seq(Items) \cup {None}] /\ T[h] = e /\ \A g \in Heads \ {h} : T[g] = S[g]
  BY <1>4 DEF Rep, e
<1>8. ASSUME NEW g \in Heads \ ({h} \cup st)
      PROVE  /\ \A k \in 0 .. Len(S[g]) : /\ w.next[Spot(g, S[g], k)] = m.next[Spot(g, S[g], k)]
                                          /\ w.prev[Spot(g, S[g], k + 1)] = m.prev[Spot(g, S[g], k + 1)]
             /\ \A k \in 1 .. Len(S[g]) : S[g][k] \notin st \ {h}
  <2>1. ASSUME NEW k \in 0 .. Len(S[g])
        PROVE  /\ w.next[Spot(g, S[g], k)] = m.next[Spot(g, S[g], k)]
               /\ w.prev[Spot(g, S[g], k + 1)] = m.prev[Spot(g, S[g], k + 1)]
    <3>1. k \in Int /\ k + 1 \in Int
      OBVIOUS
    <3> QED BY <1>2, <1>3, <3>1
  <2>2. \A k \in 1 .. Len(S[g]) : S[g][k] \notin st
    BY DEF Rep
  <2> QED BY <2>1, <2>2
<1>9. ASSUME NEW c \in Items \ (st \ {h})
      PROVE  w.next[c] = c \/ IsOn(T, st \ {h}, c)
  <2>1. c \in Items \ st /\ c \in Cells \ {h}
    BY <1>1 DEF Cells
  <2>2. CASE IsOn(S, st, c)
    <3>1. PICK g \in Heads \ st : \E k \in 1 .. Len(S[g]) : S[g][k] = c
      BY <2>2 DEF IsOn
    <3>2. g # h
      BY <1>4, <1>5, <3>1 DEF e
    <3> QED BY <1>7, <3>1, <3>2 DEF IsOn
  <2> QED BY <1>2, <2>1, <2>2 DEF Rep
<1> HIDE DEF T
<1>10. Changes(m, st, S, w, st \ {h}, T, {h})
  <2>1. T[h] # None
    BY <1>4, <1>7, AbstractionAssumption
  <2>2. st \ {h} \subseteq Cells
    BY DEF Rep
  <2>3. \A g \in {h} \ (st \ {h}) : Ring(w, g, T[g]) /\ \A k \in 1 .. Len(T[g]) : T[g][k] \notin st \ {h}
    BY <1>4, <1>6, <1>7
  <2>4. \A g \in {h} \ (st \ {h}), f \in Heads \ (st \ {h}) : g # f =>
           \A a \in 1 .. Len(T[g]), b \in 1 .. Len(T[f]) : T[g][a] # T[f][b]
    BY <1>4, <1>7
  <2> QED BY <1>2, <1>7, <1>8, <1>9, <2>1, <2>2, <2>3, <2>4 DEF Changes
<1>11. Rep(w, st \ {h}, T)
  BY <1>10, RepChange
<1> QED BY <1>11 DEF w, T, e

(* u is s with r between its places k and k + 1. *)
Inlaid(u, s, k, r) ==
    /\ u \in Seq(Items) /\ Len(u) = Len(s) + Len(r)
    /\ \A j \in 1 .. k : u[j] = s[j]
    /\ \A j \in 1 .. Len(r) : u[k + j] = r[j]
    /\ \A j \in k + 1 .. Len(s) : u[j + Len(r)] = s[j]

LEMMA InlaidEnds ==
    ASSUME NEW s \in Seq(Items), NEW r \in Seq(Items)
    PROVE  Inlaid(r \o s, s, 0, r) /\ Inlaid(s \o r, s, Len(s), r)
<1>1. /\ r \o s \in Seq(Items) /\ Len(r \o s) = Len(s) + Len(r) /\ Len(s) \in Nat /\ Len(r) \in Nat
      /\ s \o r \in Seq(Items) /\ Len(s \o r) = Len(s) + Len(r)
  OBVIOUS
<1>2. /\ \A j \in 1 .. Len(r) : (r \o s)[0 + j] = r[j]
      /\ \A j \in 0 + 1 .. Len(s) : (r \o s)[j + Len(r)] = s[j]
  OBVIOUS
<1>3. /\ \A j \in 1 .. Len(s) : (s \o r)[j] = s[j]
      /\ \A j \in 1 .. Len(r) : (s \o r)[Len(s) + j] = r[j]
  OBVIOUS
<1> QED BY <1>1, <1>2, <1>3 DEF Inlaid

(* The items of list g go between two places of list h, and g is no list any more. *)
LEMMA SpliceKeeps ==
    ASSUME NEW m, NEW st, NEW S, Rep(m, st, S), NEW h \in Heads \ st, NEW g \in Heads \ st, g # h, S[g] # << >>,
           NEW k \in 0 .. Len(S[h]), NEW u, Inlaid(u, S[h], k, S[g]),
           NEW p, p = Spot(h, S[h], k), NEW n, n = Spot(h, S[h], k + 1),
           NEW w, w = Spliced(m, g, p, n)
    PROVE  Rep(w, st \cup {g}, [S EXCEPT ![h] = u, ![g] = None])
<1> DEFINE s == S[h]
           r == S[g]
           T == [S EXCEPT ![h] = u, ![g] = None]
<1>1. PICK a \in Nat, b \in Nat : a = Len(s) /\ b = Len(r) /\ b > 0 /\ k \in 0 .. a
  BY Lens, Ends
<1>2. /\ s \in Seq(Items) /\ r \in Seq(Items) /\ h \in Cells /\ g \in Cells /\ h \notin Items /\ g \notin Items
      /\ \A j \in 1 .. a : s[j] \in Items /\ Spot(h, s, j) = s[j]
      /\ \A j \in 1 .. b : r[j] \in Items /\ Spot(g, r, j) = r[j]
  BY <1>1, Lens, ListAssumption DEF Cells, Spot
<1>3. /\ u \in Seq(Items) /\ Len(u) = a + b
      /\ \A j \in 1 .. k : u[j] = s[j]
      /\ \A j \in 1 .. b : u[k + j] = r[j]
      /\ \A j \in k + 1 .. a : u[j + b] = s[j]
  BY <1>1 DEF Inlaid
<1>4. m.next[g] = r[1] /\ m.prev[g] = r[b]
  BY <1>1, Ends
<1>5. /\ \A f \in Heads \ st : \A j \in Int : Spot(f, S[f], j) \in Cells \ st
      /\ \A f \in Heads \ st : f # h => \A j, l \in Int : Spot(h, s, l) # Spot(f, S[f], j)
      /\ \A f \in Heads \ st : f # g => \A j, l \in Int : Spot(g, r, l) # Spot(f, S[f], j)
  BY Spots
<1>6. /\ \A j, l \in 0 .. a : j # l => Spot(h, s, j) # Spot(h, s, l)
      /\ \A j, l \in 1 .. a + 1 : j # l => Spot(h, s, j) # Spot(h, s, l)
      /\ \A j, l \in 0 .. b : j # l => Spot(g, r, j) # Spot(g, r, l)
      /\ \A j, l \in 1 .. b + 1 : j # l => Spot(g, r, j) # Spot(g, r, l)
      /\ Spot(g, r, 0) = g /\ Spot(g, r, b + 1) = g
  BY <1>1, Spots
<1>7. /\ \A j \in 0 .. a : m.next[Spot(h, s, j)] = Spot(h, s, j + 1) /\ m.prev[Spot(h, s, j + 1)] = Spot(h, s, j)
      /\ \A j \in 0 .. b : m.next[Spot(g, r, j)] = Spot(g, r, j + 1) /\ m.prev[Spot(g, r, j + 1)] = Spot(g, r, j)
  BY <1>1, Around
<1>8. p \in Cells /\ n \in Cells /\ r[1] \in Items /\ r[b] \in Items /\ r[1] \in Cells /\ r[b] \in Cells
  BY <1>1, <1>2, <1>5 DEF Cells
<1>9. /\ Pointers(w)
      /\ \A c \in Cells : /\ w.next[c] = IF c = r[b] THEN n ELSE IF c = p THEN r[1] ELSE m.next[c]
                          /\ w.prev[c] = IF c = n THEN r[b] ELSE IF c = r[1] THEN p ELSE m.prev[c]
  <2>1. Pointers(m)
    BY DEF Rep
  <2>2. w = Link(Link(m, p, r[1]), r[b], n)
    BY <1>4 DEF Spliced
  <2> HIDE DEF r
  <2> QED BY <1>8, <2>1, <2>2 DEF Pointers, Link
<1> HIDE DEF s, r
<1>10. /\ \A j \in 0 .. k : Spot(h, u, j) = Spot(h, s, j)
       /\ \A j \in 1 .. b : Spot(h, u, k + j) = Spot(g, r, j)
       /\ \A j \in k + 1 .. a + 1 : Spot(h, u, j + b) = Spot(h, s, j)
  <2>1. ASSUME NEW j \in 0 .. k
        PROVE  Spot(h, u, j) = Spot(h, s, j)
    <3>1. j \in 1 .. k => j \in 1 .. Len(u) /\ j \in 1 .. Len(s)
      BY <1>1, <1>3
    <3>2. j \notin 1 .. k => j \notin 1 .. Len(u) /\ j \notin 1 .. Len(s)
      BY <1>1, <1>3
    <3> QED BY <1>3, <3>1, <3>2 DEF Spot
  <2>2. ASSUME NEW j \in 1 .. b
        PROVE  Spot(h, u, k + j) = Spot(g, r, j)
    <3>1. k + j \in 1 .. Len(u)
      BY <1>1, <1>3
    <3> QED BY <1>2, <1>3, <3>1 DEF Spot
  <2>3. ASSUME NEW j \in k + 1 .. a + 1
        PROVE  Spot(h, u, j + b) = Spot(h, s, j)
    <3>1. CASE j \in k + 1 .. a
      <4>1. j + b \in 1 .. Len(u) /\ j \in 1 .. a
        BY <1>1, <1>3, <3>1
      <4> QED BY <1>2, <1>3, <3>1, <4>1 DEF Spot
    <3>2. CASE j = a + 1
      <4>1. j + b \notin 1 .. Len(u) /\ j \notin 1 .. Len(s)
        BY <1>1, <1>3, <3>2
      <4> QED BY <4>1 DEF Spot
    <3> QED BY <1>1, <3>1, <3>2
  <2> QED BY <2>1, <2>2, <2>3
<1>11. ASSUME NEW j \in 0 .. Len(u)
       PROVE  w.next[Spot(h, u, j)] = Spot(h, u, j + 1) /\ w.prev[Spot(h, u, j + 1)] = Spot(h, u, j)
  <2>0. j \in 0 .. a + b
    BY <1>3
  <2>h. \A x \in Int, y \in Int : Spot(h, s, x) # Spot(g, r, y) /\ Spot(h, s, x) \in Cells /\ Spot(g, r, x) \in Cells
    BY <1>5 DEF s, r
  <2>e. r[1] = Spot(g, r, 1) /\ r[b] = Spot(g, r, b) /\ 1 \in Int /\ b \in Int /\ k \in Int /\ k + 1 \in Int
    BY <1>1, <1>2
  <2>p. p = Spot(h, s, k) /\ n = Spot(h, s, k + 1)
    BY DEF s
  <2>1. CASE j < k
    <3>1. /\ j \in 0 .. k /\ j + 1 \in 0 .. k /\ j \in 0 .. a /\ k \in 0 .. a /\ j # k /\ j + 1 # k + 1
          /\ j + 1 \in 1 .. a + 1 /\ k + 1 \in 1 .. a + 1 /\ j \in Int /\ j + 1 \in Int
      BY <1>1, <2>0, <2>1
    <3>2. Spot(h, u, j) = Spot(h, s, j) /\ Spot(h, u, j + 1) = Spot(h, s, j + 1)
      BY <1>10, <3>1
    <3>3. Spot(h, s, j) # p /\ Spot(h, s, j + 1) # n
      BY <1>6, <2>p, <3>1
    <3> QED BY <1>7, <1>9, <2>h, <2>e, <3>1, <3>2, <3>3
  <2>2. CASE j = k
    <3>1. k \in 0 .. k /\ 1 \in 1 .. b
      BY <1>1
    <3>2. Spot(h, u, k) = p /\ Spot(h, u, k + 1) = r[1]
      BY <1>10, <2>e, <2>p, <3>1
    <3>3. p # r[b] /\ n # r[1]
      BY <2>h, <2>e, <2>p
    <3> QED BY <1>8, <1>9, <2>2, <3>2, <3>3
  <2>3. CASE k < j /\ j < k + b
    <3>1. PICK l \in 1 .. b - 1 : j = k + l
      <4>1. j - k \in 1 .. b - 1 /\ j = k + (j - k)
        BY <1>1, <2>0, <2>3
      <4> QED BY <4>1
    <3>2. /\ l \in 1 .. b /\ l + 1 \in 1 .. b /\ l \in 0 .. b /\ b \in 0 .. b /\ l # b /\ l + 1 # 1 /\ 1 \in 1 .. b + 1
          /\ l + 1 \in 1 .. b + 1 /\ l \in Int /\ l + 1 \in Int /\ j + 1 = k + (l + 1)
      BY <1>1, <3>1
    <3>3. Spot(h, u, j) = Spot(g, r, l) /\ Spot(h, u, j + 1) = Spot(g, r, l + 1)
      BY <1>10, <3>1, <3>2
    <3>4. Spot(g, r, l) # r[b] /\ Spot(g, r, l + 1) # r[1]
      BY <1>6, <2>e, <3>2
    <3>5. Spot(g, r, l) # p /\ Spot(g, r, l + 1) # n
      BY <2>h, <2>e, <2>p, <3>2
    <3>6. m.next[Spot(g, r, l)] = Spot(g, r, l + 1) /\ m.prev[Spot(g, r, l + 1)] = Spot(g, r, l)
      BY <1>7, <3>2
    <3>7. Spot(g, r, l) \in Cells /\ Spot(g, r, l + 1) \in Cells
      BY <2>h, <3>2
    <3> QED BY <1>9, <3>3, <3>4, <3>5, <3>6, <3>7
  <2>4. CASE j = k + b
    <3>1. b \in 1 .. b /\ k + 1 \in k + 1 .. a + 1 /\ j + 1 = (k + 1) + b
      BY <1>1, <2>4
    <3>2. Spot(h, u, j) = r[b] /\ Spot(h, u, j + 1) = n
      BY <1>10, <2>4, <2>e, <2>p, <3>1
    <3> QED BY <1>8, <1>9, <3>2
  <2>5. CASE j > k + b
    <3>1. PICK l \in k + 1 .. a : j = l + b
      <4>1. j - b \in k + 1 .. a /\ j = (j - b) + b
        BY <1>1, <2>0, <2>5
      <4> QED BY <4>1
    <3>2. /\ l \in k + 1 .. a + 1 /\ l + 1 \in k + 1 .. a + 1 /\ l \in 0 .. a /\ k \in 0 .. a /\ l # k /\ l + 1 # k + 1
          /\ l + 1 \in 1 .. a + 1 /\ k + 1 \in 1 .. a + 1 /\ l \in Int /\ l + 1 \in Int /\ j + 1 = (l + 1) + b
      BY <1>1, <3>1
    <3>3. Spot(h, u, j) = Spot(h, s, l) /\ Spot(h, u, j + 1) = Spot(h, s, l + 1)
      BY <1>10, <3>1, <3>2
    <3>4. Spot(h, s, l) # p /\ Spot(h, s, l + 1) # n
      BY <1>6, <2>p, <3>2
    <3> QED BY <1>7, <1>9, <2>h, <2>e, <3>2, <3>3, <3>4
  <2> QED BY <1>1, <2>0, <2>1, <2>2, <2>3, <2>4, <2>5
<1>12. ASSUME NEW j \in 1 .. Len(u)
       PROVE  \/ j <= k /\ j \in 1 .. a /\ u[j] = s[j]
              \/ k < j /\ j <= k + b /\ j - k \in 1 .. b /\ u[j] = r[j - k]
              \/ j > k + b /\ j - b \in k + 1 .. a /\ j - b \in 1 .. a /\ u[j] = s[j - b]
  <2>1. j \in 1 .. a + b
    BY <1>3
  <2>2. CASE j <= k
    BY <1>1, <1>3, <2>1, <2>2
  <2>3. CASE k < j /\ j <= k + b
    <3>1. j - k \in 1 .. b /\ k + (j - k) = j
      BY <1>1, <2>1, <2>3
    <3> QED BY <1>3, <2>3, <3>1
  <2>4. CASE j > k + b
    <3>1. j - b \in k + 1 .. a /\ (j - b) + b = j /\ j - b \in 1 .. a
      BY <1>1, <2>1, <2>4
    <3> QED BY <1>3, <2>4, <3>1
  <2> QED BY <1>1, <2>1, <2>2, <2>3, <2>4
<1>13. /\ \A x, y \in 1 .. a : s[x] = s[y] => x = y
       /\ \A x, y \in 1 .. b : r[x] = r[y] => x = y
       /\ \A x \in 1 .. a, y \in 1 .. b : s[x] # r[y]
       /\ \A x \in 1 .. a : s[x] \notin st
       /\ \A y \in 1 .. b : r[y] \notin st
  <2>1. /\ \A x, y \in 1 .. Len(S[h]) : S[h][x] = S[h][y] => x = y
        /\ \A x \in 1 .. Len(S[h]) : S[h][x] \notin st
    BY DEF Rep, Ring
  <2>2. /\ \A x, y \in 1 .. Len(S[g]) : S[g][x] = S[g][y] => x = y
        /\ \A x \in 1 .. Len(S[g]) : S[g][x] \notin st
    BY DEF Rep, Ring
  <2>3. \A x \in 1 .. Len(S[h]), y \in 1 .. Len(S[g]) : S[h][x] # S[g][y]
    BY DEF Rep
  <2> QED BY <1>1, <2>1, <2>2, <2>3 DEF s, r
<1>14. ASSUME NEW x \in 1 .. Len(u), NEW y \in 1 .. Len(u), u[x] = u[y]
       PROVE  x = y
  <2>0. x \in Int /\ y \in Int /\ k \in Int /\ a \in Int /\ b \in Int
    BY <1>1
  <2>1. CASE x <= k
    BY <1>12, <1>13, <1>14, <2>0, <2>1
  <2>2. CASE k < x /\ x <= k + b
    BY <1>12, <1>13, <1>14, <2>0, <2>2
  <2>3. CASE x > k + b
    BY <1>12, <1>13, <1>14, <2>0, <2>3
  <2> QED BY <2>0, <2>1, <2>2, <2>3
<1>15. Ring(w, h, u)
  BY <1>3, <1>11, <1>14 DEF Ring
<1>16. \A j \in 1 .. Len(u) : \/ \E x \in 1 .. a : u[j] = s[x]
                              \/ \E y \in 1 .. b : u[j] = r[y]
  BY <1>12
<1>17. /\ \A x \in 1 .. a : \E j \in 1 .. Len(u) : u[j] = s[x]
       /\ \A y \in 1 .. b : \E j \in 1 .. Len(u) : u[j] = r[y]
  <2>1. ASSUME NEW x \in 1 .. a
        PROVE  \E j \in 1 .. Len(u) : u[j] = s[x]
    <3>1. CASE x <= k
      <4>1. x \in 1 .. Len(u) /\ x \in 1 .. k
        BY <1>1, <1>3, <3>1
      <4> QED BY <1>3, <4>1
    <3>2. CASE x > k
      <4>1. x + b \in 1 .. Len(u) /\ x \in k + 1 .. a
        BY <1>1, <1>3, <3>2
      <4> QED BY <1>3, <4>1
    <3> QED BY <1>1, <3>1, <3>2
  <2>2. ASSUME NEW y \in 1 .. b
        PROVE  \E j \in 1 .. Len(u) : u[j] = r[y]
    <3>1. k + y \in 1 .. Len(u)
      BY <1>1, <1>3
    <3> QED BY <1>3, <3>1
  <2> QED BY <2>1, <2>2
<1>18. /\ T \in [Heads -> Seq(Items) \cup {None}] /\ T[h] = u /\ T[g] = None /\ \A f \in Heads \ {g, h} : T[f] = S[f]
  BY <1>3 DEF Rep
<1> HIDE DEF T
<1>19. /\ u # None /\ st \cup {g} \subseteq Cells /\ {g, h} \in SUBSET Heads
       /\ {g, h} \ (st \cup {g}) = {h} /\ Heads \ (st \cup {g}) = (Heads \ st) \ {g}
  BY <1>2, <1>3, AbstractionAssumption DEF Rep
<1>20. ASSUME NEW f \in Heads \ ({g, h} \cup st)
       PROVE  /\ \A j \in 1 .. Len(S[f]) : S[f][j] \notin st \cup {g}
              /\ \A x \in 1 .. Len(u), y \in 1 .. Len(S[f]) : u[x] # S[f][y]
  <2>1. \A j \in 1 .. Len(S[f]) : S[f][j] \notin st /\ S[f][j] \in Items
    BY Lens DEF Rep
  <2>2. /\ \A x \in 1 .. a, y \in 1 .. Len(S[f]) : s[x] # S[f][y]
        /\ \A x \in 1 .. b, y \in 1 .. Len(S[f]) : r[x] # S[f][y]
    BY <1>1 DEF Rep, s, r
  <2>3. \A x \in 1 .. Len(u), y \in 1 .. Len(S[f]) : u[x] # S[f][y]
    BY <1>16, <2>2
  <2>4. \A j \in 1 .. Len(S[f]) : S[f][j] \notin st \cup {g}
    BY <1>2, <2>1
  <2> QED BY <2>3, <2>4
<1>21. ASSUME NEW f \in Heads \ ({g, h} \cup st), NEW j \in 0 .. Len(S[f])
       PROVE  /\ w.next[Spot(f, S[f], j)] = m.next[Spot(f, S[f], j)]
              /\ w.prev[Spot(f, S[f], j + 1)] = m.prev[Spot(f, S[f], j + 1)]
  <2>1. j \in Int /\ j + 1 \in Int /\ k \in Int /\ k + 1 \in Int /\ b \in Int /\ 1 \in Int
    BY <1>1
  <2>2. r[1] = Spot(g, r, 1) /\ r[b] = Spot(g, r, b) /\ p = Spot(h, s, k) /\ n = Spot(h, s, k + 1)
    BY <1>1, <1>2 DEF s, r
  <2>3. ASSUME NEW x \in Int
        PROVE  /\ Spot(f, S[f], x) # r[1] /\ Spot(f, S[f], x) # r[b] /\ Spot(f, S[f], x) # p /\ Spot(f, S[f], x) # n
               /\ Spot(f, S[f], x) \in Cells
    BY <1>5, <2>1, <2>2
  <2> QED BY <1>9, <2>1, <2>3
<1>22. ASSUME NEW c \in Items \ (st \cup {g})
       PROVE  w.next[c] = c \/ IsOn(T, st \cup {g}, c)
  <2>1. CASE IsOn(S, st, c)
    <3>1. PICK f \in Heads \ st : \E j \in 1 .. Len(S[f]) : S[f][j] = c
      BY <2>1 DEF IsOn
    <3>2. CASE f \in {g, h}
      <4>1. \E j \in 1 .. Len(u) : u[j] = c
        BY <1>1, <1>17, <3>1, <3>2 DEF s, r
      <4> QED BY <1>18, <1>19, <4>1 DEF IsOn
    <3>3. CASE f \notin {g, h}
      BY <1>18, <1>19, <3>1, <3>3 DEF IsOn
    <3> QED BY <3>2, <3>3
  <2>2. CASE ~IsOn(S, st, c)
    <3>1. c \in Items \ st /\ m.next[c] = c /\ c \in Cells
      BY <1>22, <2>2 DEF Rep, Cells
    <3>2. c # r[b]
      <4>1. b \in 1 .. Len(S[g]) /\ S[g][b] = r[b]
        BY <1>1 DEF r
      <4> QED BY <2>2, <4>1 DEF IsOn
    <3>3. c # p
      <4>1. p \in Items => IsOn(S, st, p)
        BY ListAssumption DEF Spot, IsOn
      <4> QED BY <2>2, <3>1, <4>1
    <3> QED BY <1>9, <3>1, <3>2, <3>3
  <2> QED BY <2>1, <2>2
<1>23. Changes(m, st, S, w, st \cup {g}, T, {g, h})
  <2>1. /\ \A f \in {g, h} : T[f] = None <=> f \in st \cup {g}
        /\ \A f \in Heads \ {g, h} : T[f] = S[f] /\ (f \in st <=> f \in st \cup {g})
    BY <1>18, <1>19
  <2>2. \A f \in {g, h} \ (st \cup {g}) : Ring(w, f, T[f]) /\ \A j \in 1 .. Len(T[f]) : T[f][j] \notin st \cup {g}
    <3>1. \A j \in 1 .. Len(u) : u[j] \notin st \cup {g}
      BY <1>2, <1>13, <1>16
    <3> QED BY <1>15, <1>18, <1>19, <3>1
  <2>3. \A f \in Heads \ ({g, h} \cup st) :
           /\ \A j \in 0 .. Len(S[f]) : /\ w.next[Spot(f, S[f], j)] = m.next[Spot(f, S[f], j)]
                                        /\ w.prev[Spot(f, S[f], j + 1)] = m.prev[Spot(f, S[f], j + 1)]
           /\ \A j \in 1 .. Len(S[f]) : S[f][j] \notin st \cup {g}
    BY <1>20, <1>21
  <2>4. \A f \in {g, h} \ (st \cup {g}), e \in Heads \ (st \cup {g}) : f # e =>
           \A x \in 1 .. Len(T[f]), y \in 1 .. Len(T[e]) : T[f][x] # T[e][y]
    BY <1>18, <1>19, <1>20
  <2> QED BY <1>9, <1>18, <1>19, <1>22, <2>1, <2>2, <2>3, <2>4 DEF Changes
<1>24. Rep(w, st \cup {g}, T)
  BY <1>19, <1>23, RepChange
<1> QED BY <1>24 DEF T

(* u is the first k items of s, and v the rest. *)
Halves(u, v, s, k) ==
    /\ u \in Seq(Items) /\ Len(u) = k /\ \A j \in 1 .. k : u[j] = s[j]
    /\ v \in Seq(Items) /\ Len(v) = Len(s) - k /\ \A j \in 1 .. Len(s) - k : v[j] = s[j + k]

LEMMA HalvesAre ==
    ASSUME NEW s \in Seq(Items), NEW k \in 0 .. Len(s)
    PROVE  Halves(SubSeq(s, 1, k), SubSeq(s, k + 1, Len(s)), s, k)
  BY CutIs DEF Halves

(* The first k items of list h become list l, which had none. *)
LEMMA CutKeeps ==
    ASSUME NEW m, NEW st, NEW S, Rep(m, st, S), NEW h \in Heads \ st, NEW l \in Heads, l # h, l \in st \/ m.next[l] = l,
           NEW k \in 1 .. Len(S[h]), NEW e, e = S[h][k],
           NEW u, NEW v, Halves(u, v, S[h], k),
           NEW w, w = CutOff(m, l, h, e)
    PROVE  Rep(w, st \ {l}, [S EXCEPT ![l] = u, ![h] = v])
<1> DEFINE s == S[h]
           T == [S EXCEPT ![l] = u, ![h] = v]
           rest == m.next[e]
<1>1. PICK a \in Nat : a = Len(s) /\ k \in 1 .. a
  BY Lens
<1>2. /\ s \in Seq(Items) /\ h \in Cells /\ l \in Cells /\ h \notin Items /\ l \notin Items
      /\ \A j \in 1 .. a : s[j] \in Items /\ Spot(h, s, j) = s[j] /\ s[j] \in Cells /\ s[j] \notin st
      /\ \A x, y \in 1 .. a : s[x] = s[y] => x = y
  <2>1. s \in Seq(Items) /\ h \in Cells /\ l \in Cells /\ h \notin Items /\ l \notin Items
    BY Lens, ListAssumption DEF Cells
  <2>2. \A j \in 1 .. a : s[j] \in Items /\ Spot(h, s, j) = s[j] /\ s[j] \in Cells
    BY <1>1, Lens DEF Spot, Cells
  <2>3. (\A j \in 1 .. a : s[j] \notin st) /\ \A x, y \in 1 .. a : s[x] = s[y] => x = y
    BY <1>1 DEF Rep, Ring
  <2> QED BY <2>1, <2>2, <2>3
<1>3. /\ u \in Seq(Items) /\ Len(u) = k /\ \A j \in 1 .. k : u[j] = s[j]
      /\ v \in Seq(Items) /\ Len(v) = a - k /\ \A j \in 1 .. a - k : v[j] = s[j + k]
  BY <1>1 DEF Halves
<1>4. l \in st \/ S[l] = << >>
  BY Ends
<1>5. /\ \A f \in Heads \ st : \A j \in Int : Spot(f, S[f], j) \in Cells \ st
      /\ \A f \in Heads \ st : f # h => \A j, x \in Int : Spot(h, s, x) # Spot(f, S[f], j)
  BY Spots
<1>6. /\ \A j, x \in 0 .. a : j # x => Spot(h, s, j) # Spot(h, s, x)
      /\ \A j, x \in 1 .. a + 1 : j # x => Spot(h, s, j) # Spot(h, s, x)
      /\ Spot(h, s, 0) = h /\ Spot(h, s, a + 1) = h
  BY <1>1, Spots
<1>7. \A j \in 0 .. a : m.next[Spot(h, s, j)] = Spot(h, s, j + 1) /\ m.prev[Spot(h, s, j + 1)] = Spot(h, s, j)
  BY <1>1, Around
<1>8. ASSUME NEW f \in Heads \ ({l} \cup st), NEW j \in Int
      PROVE  Spot(f, S[f], j) # l
  <2>1. \A x \in 1 .. Len(S[f]) : S[f][x] \in Items
    BY Lens
  <2> QED BY <1>2, <2>1 DEF Spot
<1>9. /\ e = Spot(h, s, k) /\ rest = Spot(h, s, k + 1) /\ m.next[h] = Spot(h, s, 1)
      /\ e = s[k] /\ Spot(h, s, 1) = s[1] /\ s[1] \in Items /\ e \in Items
  <2>1. e = s[k] /\ k \in 1 .. a /\ k \in 0 .. a /\ 1 \in 1 .. a
    BY <1>1
  <2>2. e = Spot(h, s, k) /\ Spot(h, s, 1) = s[1] /\ s[1] \in Items /\ e \in Items
    BY <1>2, <2>1
  <2>3. m.next[h] = Spot(h, s, 1)
    BY Ends
  <2> QED BY <1>7, <2>1, <2>2, <2>3
<1>10. rest \in Cells /\ e \in Cells /\ s[1] \in Cells /\ rest # s[1] /\ e # l /\ e # h /\ s[1] # l /\ s[1] # h /\ rest # l
  <2>1. k + 1 \in Int /\ k + 1 \in 1 .. a + 1 /\ 1 \in 1 .. a + 1 /\ k + 1 # 1 /\ k \in 1 .. a /\ 1 \in 1 .. a
    BY <1>1
  <2> QED BY <1>2, <1>5, <1>6, <1>8, <1>9, <2>1
<1>11. /\ Pointers(w)
       /\ \A c \in Cells : /\ w.next[c] = IF c = h THEN rest ELSE IF c = e THEN l ELSE IF c = l THEN s[1] ELSE m.next[c]
                           /\ w.prev[c] = IF c = rest THEN h ELSE IF c = l THEN e ELSE IF c = s[1] THEN l ELSE m.prev[c]
  <2>1. Pointers(m)
    BY DEF Rep
  <2>2. w = Link(Link(Link(m, l, s[1]), e, l), h, rest)
    BY <1>9 DEF CutOff
  <2> HIDE DEF s, rest
  <2>3. /\ w.next = [[[m.next EXCEPT ![l] = s[1]] EXCEPT ![e] = l] EXCEPT ![h] = rest]
        /\ w.prev = [[[m.prev EXCEPT ![s[1]] = l] EXCEPT ![l] = e] EXCEPT ![rest] = h]
        /\ w = [next |-> w.next, prev |-> w.prev]
    BY <2>2 DEF Link
  <2>4. /\ m.next \in [Cells -> Cells \cup {NULL}]
        /\ m.prev \in [Cells -> Cells \cup {NULL}]
    BY <2>1 DEF Pointers
  <2>5. /\ w.next \in [Cells -> Cells \cup {NULL}]
        /\ \A c \in Cells : w.next[c] = IF c = h THEN rest ELSE IF c = e THEN l ELSE IF c = l THEN s[1] ELSE m.next[c]
    BY <1>2, <1>10, <2>3, <2>4, SMTT(60)
  <2>6. /\ w.prev \in [Cells -> Cells \cup {NULL}]
        /\ \A c \in Cells : w.prev[c] = IF c = rest THEN h ELSE IF c = l THEN e ELSE IF c = s[1] THEN l ELSE m.prev[c]
    BY <1>2, <1>10, <2>3, <2>4, SMTT(60)
  <2> QED BY <2>3, <2>5, <2>6 DEF Pointers
<1> HIDE DEF s, rest
<1>12. /\ Spot(l, u, 0) = l /\ Spot(l, u, k + 1) = l /\ \A j \in 1 .. k : Spot(l, u, j) = Spot(h, s, j)
       /\ Spot(h, v, 0) = h /\ \A j \in 1 .. a - k + 1 : Spot(h, v, j) = Spot(h, s, j + k)
  <2>1. Spot(l, u, 0) = l /\ Spot(l, u, k + 1) = l /\ Spot(h, v, 0) = h
    BY <1>1, <1>3 DEF Spot
  <2>2. ASSUME NEW j \in 1 .. k
        PROVE  Spot(l, u, j) = Spot(h, s, j)
    <3>1. j \in 1 .. Len(u) /\ j \in 1 .. Len(s)
      BY <1>1, <1>3
    <3> QED BY <1>3, <3>1 DEF Spot
  <2>3. ASSUME NEW j \in 1 .. a - k + 1
        PROVE  Spot(h, v, j) = Spot(h, s, j + k)
    <3>1. CASE j \in 1 .. a - k
      <4>1. j \in 1 .. Len(v) /\ j + k \in 1 .. Len(s)
        BY <1>1, <1>3, <3>1
      <4> QED BY <1>3, <3>1, <4>1 DEF Spot
    <3>2. CASE j = a - k + 1
      <4>1. j \notin 1 .. Len(v) /\ j + k \notin 1 .. Len(s)
        BY <1>1, <1>3, <3>2
      <4> QED BY <4>1 DEF Spot
    <3> QED BY <1>1, <3>1, <3>2
  <2> QED BY <2>1, <2>2, <2>3
<1>13. \A j \in Int : Spot(h, s, j) \in Cells /\ Spot(h, s, j) # l
  BY <1>5, <1>8 DEF s
<1>14. ASSUME NEW j \in 0 .. Len(u)
       PROVE  w.next[Spot(l, u, j)] = Spot(l, u, j + 1) /\ w.prev[Spot(l, u, j + 1)] = Spot(l, u, j)
  <2>0. j \in 0 .. k
    BY <1>3
  <2>1. CASE j = 0
    <3>1. Spot(l, u, j) = l /\ Spot(l, u, j + 1) = s[1]
      <4>1. 1 \in 1 .. k /\ j + 1 = 1
        BY <1>1, <2>1
      <4> QED BY <1>9, <1>12, <2>1, <4>1
    <3> QED BY <1>2, <1>10, <1>11, <3>1
  <2>2. CASE j # 0 /\ j # k
    <3>1. /\ j \in 1 .. k /\ j + 1 \in 1 .. k /\ j \in 0 .. a /\ k \in 0 .. a /\ 0 \in 0 .. a /\ j + 1 \in 1 .. a + 1 /\ 1 \in 1 .. a + 1
          /\ k + 1 \in 1 .. a + 1 /\ j # k /\ j # 0 /\ j + 1 # 1 /\ j + 1 # k + 1 /\ j \in Int /\ j + 1 \in Int
      BY <1>1, <2>0, <2>2
    <3>2. Spot(l, u, j) = Spot(h, s, j) /\ Spot(l, u, j + 1) = Spot(h, s, j + 1)
      BY <1>12, <3>1
    <3>3. Spot(h, s, j) # e /\ Spot(h, s, j) # h /\ Spot(h, s, j + 1) # s[1] /\ Spot(h, s, j + 1) # rest
      BY <1>6, <1>9, <3>1
    <3>4. m.next[Spot(h, s, j)] = Spot(h, s, j + 1) /\ m.prev[Spot(h, s, j + 1)] = Spot(h, s, j)
      BY <1>7, <3>1
    <3> QED BY <1>11, <1>13, <3>1, <3>2, <3>3, <3>4
  <2>3. CASE j = k
    <3>1. Spot(l, u, j) = e /\ Spot(l, u, j + 1) = l
      <4>1. k \in 1 .. k
        BY <1>1
      <4> QED BY <1>9, <1>12, <2>3, <4>1
    <3> QED BY <1>2, <1>10, <1>11, <3>1
  <2> QED BY <2>1, <2>2, <2>3
<1>15. ASSUME NEW j \in 0 .. Len(v)
       PROVE  w.next[Spot(h, v, j)] = Spot(h, v, j + 1) /\ w.prev[Spot(h, v, j + 1)] = Spot(h, v, j)
  <2>0. j \in 0 .. a - k
    BY <1>3
  <2>1. CASE j = 0
    <3>1. Spot(h, v, j) = h /\ Spot(h, v, j + 1) = rest
      <4>1. 1 \in 1 .. a - k + 1 /\ j + 1 = 1 /\ 1 + k = k + 1
        BY <1>1, <2>1
      <4> QED BY <1>9, <1>12, <2>1, <4>1
    <3> QED BY <1>2, <1>10, <1>11, <3>1
  <2>2. CASE j # 0
    <3>1. PICK i \in Int : i = j + k
      BY <1>1
    <3>2. /\ j \in 1 .. a - k + 1 /\ j + 1 \in 1 .. a - k + 1 /\ (j + 1) + k = i + 1 /\ i \in 0 .. a /\ k \in 0 .. a /\ 0 \in 0 .. a
          /\ i # k /\ i # 0 /\ i + 1 \in 1 .. a + 1 /\ 1 \in 1 .. a + 1 /\ k + 1 \in 1 .. a + 1 /\ i + 1 # 1 /\ i + 1 # k + 1 /\ i + 1 \in Int
      BY <1>1, <2>0, <2>2, <3>1
    <3>3. Spot(h, v, j) = Spot(h, s, i) /\ Spot(h, v, j + 1) = Spot(h, s, i + 1)
      BY <1>12, <3>1, <3>2
    <3>4. Spot(h, s, i) # e /\ Spot(h, s, i) # h /\ Spot(h, s, i + 1) # s[1] /\ Spot(h, s, i + 1) # rest
      BY <1>6, <1>9, <3>2
    <3>5. m.next[Spot(h, s, i)] = Spot(h, s, i + 1) /\ m.prev[Spot(h, s, i + 1)] = Spot(h, s, i)
      BY <1>7, <3>2
    <3> QED BY <1>11, <1>13, <3>1, <3>2, <3>3, <3>4, <3>5
  <2> QED BY <2>1, <2>2
<1>16. /\ \A x \in 1 .. Len(u) : x \in 1 .. a /\ u[x] = s[x]
       /\ \A y \in 1 .. Len(v) : y + k \in 1 .. a /\ v[y] = s[y + k]
       /\ \A x \in 1 .. Len(u), y \in 1 .. Len(v) : u[x] # v[y]
       /\ Len(u) \in Nat /\ Len(v) \in Nat
  <2>1. \A x \in 1 .. Len(u) : x \in 1 .. a /\ u[x] = s[x]
    BY <1>1, <1>3
  <2>2. \A y \in 1 .. Len(v) : y + k \in 1 .. a /\ v[y] = s[y + k]
    BY <1>1, <1>3
  <2>3. ASSUME NEW x \in 1 .. Len(u), NEW y \in 1 .. Len(v)
        PROVE  u[x] # v[y]
    <3>1. x # y + k /\ x \in 1 .. a /\ y + k \in 1 .. a
      BY <1>1, <1>3
    <3> QED BY <1>2, <2>1, <2>2, <3>1
  <2> QED BY <1>1, <1>3, <2>1, <2>2, <2>3
<1>17. Ring(w, l, u)
  <2>1. \A x, y \in 1 .. Len(u) : u[x] = u[y] => x = y
    BY <1>2, <1>16
  <2> QED BY <1>3, <1>14, <2>1 DEF Ring
<1>18. Ring(w, h, v)
  <2>1. ASSUME NEW x \in 1 .. Len(v), NEW y \in 1 .. Len(v), v[x] = v[y]
        PROVE  x = y
    <3>1. x + k = y + k
      BY <1>2, <1>16, <2>1
    <3> QED BY <1>1, <1>16, <3>1
  <2> QED BY <1>3, <1>15, <2>1 DEF Ring
<1>19. ASSUME NEW x \in 1 .. a
       PROVE  \/ \E j \in 1 .. Len(u) : u[j] = s[x]
              \/ \E j \in 1 .. Len(v) : v[j] = s[x]
  <2>1. CASE x <= k
    <3>1. x \in 1 .. Len(u)
      BY <1>1, <1>3, <2>1
    <3> QED BY <1>16, <3>1
  <2>2. CASE x > k
    <3>1. x - k \in 1 .. Len(v) /\ (x - k) + k = x
      BY <1>1, <1>3, <2>2
    <3> QED BY <1>16, <3>1
  <2> QED BY <1>1, <2>1, <2>2
<1>20. /\ T \in [Heads -> Seq(Items) \cup {None}] /\ T[l] = u /\ T[h] = v /\ \A f \in Heads \ {l, h} : T[f] = S[f]
  BY <1>3 DEF Rep
<1> HIDE DEF T
<1>21. /\ u # None /\ v # None /\ st \ {l} \subseteq Cells /\ {l, h} \in SUBSET Heads
       /\ h \notin st /\ {l, h} \ (st \ {l}) = {l, h} /\ Heads \ st \subseteq Heads \ (st \ {l})
  BY <1>3, AbstractionAssumption DEF Rep
<1>22. ASSUME NEW f \in Heads \ ({l, h} \cup st)
       PROVE  /\ \A j \in 1 .. Len(S[f]) : S[f][j] \notin st
              /\ \A x \in 1 .. Len(u), y \in 1 .. Len(S[f]) : u[x] # S[f][y]
              /\ \A x \in 1 .. Len(v), y \in 1 .. Len(S[f]) : v[x] # S[f][y]
  <2>1. \A j \in 1 .. Len(S[f]) : S[f][j] \notin st
    BY DEF Rep
  <2>2. \A x \in 1 .. a, y \in 1 .. Len(S[f]) : s[x] # S[f][y]
    BY <1>1 DEF Rep, s
  <2>3. \A x \in 1 .. Len(u), y \in 1 .. Len(S[f]) : u[x] # S[f][y]
    BY <1>16, <2>2
  <2>4. \A x \in 1 .. Len(v), y \in 1 .. Len(S[f]) : v[x] # S[f][y]
    BY <1>16, <2>2
  <2> QED BY <2>1, <2>3, <2>4
<1>23. ASSUME NEW f \in Heads \ ({l, h} \cup st), NEW j \in 0 .. Len(S[f])
       PROVE  /\ w.next[Spot(f, S[f], j)] = m.next[Spot(f, S[f], j)]
              /\ w.prev[Spot(f, S[f], j + 1)] = m.prev[Spot(f, S[f], j + 1)]
  <2>1. j \in Int /\ j + 1 \in Int /\ k \in Int /\ k + 1 \in Int /\ 1 \in Int /\ 0 \in Int
    BY <1>1
  <2>2. ASSUME NEW x \in Int
        PROVE  /\ Spot(f, S[f], x) # s[1] /\ Spot(f, S[f], x) # e /\ Spot(f, S[f], x) # rest /\ Spot(f, S[f], x) # h
               /\ Spot(f, S[f], x) # l /\ Spot(f, S[f], x) \in Cells
    BY <1>5, <1>6, <1>8, <1>9, <2>1 DEF s
  <2> QED BY <1>11, <2>1, <2>2
<1>24. ASSUME NEW c \in Items \ (st \ {l})
       PROVE  w.next[c] = c \/ IsOn(T, st \ {l}, c)
  <2>0. c \in Items \ st /\ c \in Cells /\ c # l /\ c # h /\ l \in Heads \ (st \ {l}) /\ h \in Heads \ (st \ {l})
    BY <1>2, <1>21 DEF Cells
  <2>1. CASE IsOn(S, st, c)
    <3>1. PICK f \in Heads \ st : \E j \in 1 .. Len(S[f]) : S[f][j] = c
      BY <2>1 DEF IsOn
    <3>2. CASE f = h
      <4>1. \E x \in 1 .. a : s[x] = c
        BY <1>1, <3>1, <3>2 DEF s
      <4>2. (\E j \in 1 .. Len(u) : u[j] = c) \/ \E j \in 1 .. Len(v) : v[j] = c
        BY <1>19, <4>1
      <4> QED BY <1>20, <2>0, <4>2 DEF IsOn
    <3>3. CASE f = l
      BY <1>4, <3>1, <3>3
    <3>4. CASE f \notin {l, h}
      BY <1>20, <1>21, <3>1, <3>4 DEF IsOn
    <3> QED BY <3>2, <3>3, <3>4
  <2>2. CASE ~IsOn(S, st, c)
    <3>1. m.next[c] = c
      BY <2>0, <2>2 DEF Rep
    <3>2. c # e
      BY <2>2 DEF IsOn
    <3> QED BY <1>11, <2>0, <3>1, <3>2
  <2> QED BY <2>1, <2>2
<1>25. Changes(m, st, S, w, st \ {l}, T, {l, h})
  <2>1. /\ \A f \in {l, h} : T[f] = None <=> f \in st \ {l}
        /\ \A f \in Heads \ {l, h} : T[f] = S[f] /\ (f \in st <=> f \in st \ {l})
    BY <1>20, <1>21
  <2>2. \A f \in {l, h} \ (st \ {l}) : Ring(w, f, T[f]) /\ \A j \in 1 .. Len(T[f]) : T[f][j] \notin st \ {l}
    <3>1. /\ \A j \in 1 .. Len(u) : u[j] \notin st
          /\ \A j \in 1 .. Len(v) : v[j] \notin st
      BY <1>2, <1>16
    <3> QED BY <1>17, <1>18, <1>20, <1>21, <3>1
  <2>3. \A f \in Heads \ ({l, h} \cup st) :
           /\ \A j \in 0 .. Len(S[f]) : /\ w.next[Spot(f, S[f], j)] = m.next[Spot(f, S[f], j)]
                                        /\ w.prev[Spot(f, S[f], j + 1)] = m.prev[Spot(f, S[f], j + 1)]
           /\ \A j \in 1 .. Len(S[f]) : S[f][j] \notin st \ {l}
    BY <1>22, <1>23
  <2>4. \A f \in {l, h} \ (st \ {l}), g \in Heads \ (st \ {l}) : f # g =>
           \A x \in 1 .. Len(T[f]), y \in 1 .. Len(T[g]) : T[f][x] # T[g][y]
    <3>1. \A g \in Heads \ (st \ {l}) : g \in {l, h} \/ g \in Heads \ ({l, h} \cup st)
      OBVIOUS
    <3>2. \A x \in 1 .. Len(v), y \in 1 .. Len(u) : v[x] # u[y]
      BY <1>16
    <3>3. ASSUME NEW g \in Heads \ (st \ {l}), g # l
          PROVE  \A x \in 1 .. Len(u), y \in 1 .. Len(T[g]) : u[x] # T[g][y]
      BY <1>16, <1>20, <1>22, <3>1, <3>3
    <3>4. ASSUME NEW g \in Heads \ (st \ {l}), g # h
          PROVE  \A x \in 1 .. Len(v), y \in 1 .. Len(T[g]) : v[x] # T[g][y]
      BY <1>20, <1>22, <3>1, <3>2, <3>4
    <3> QED BY <1>20, <3>3, <3>4
  <2> QED BY <1>11, <1>20, <1>21, <1>24, <2>1, <2>2, <2>3, <2>4 DEF Changes
<1>26. Rep(w, st \ {l}, T)
  BY <1>21, <1>25, RepChange
<1> QED BY <1>26 DEF T

--------------------------------------------------------------------------
(* Following a pointer. *)
IsRound(w, pointer, h, most) ==
    w = [k \in 0 .. most |-> IF k = 0 THEN pointer[h]
                             ELSE IF w[k - 1] \in {h, NULL} THEN w[k - 1]
                             ELSE pointer[w[k - 1]]]

LEMMA RoundGoesOn ==
    ASSUME NEW most \in Nat, NEW w, NEW pointer, NEW h, IsRound(w, pointer, h, most), NEW k \in 0 .. most - 1
    PROVE  w[k + 1] = IF w[k] \in {h, NULL} THEN w[k] ELSE pointer[w[k]]
<1>1. k + 1 \in 0 .. most /\ k + 1 # 0 /\ k + 1 - 1 = k
  OBVIOUS
<1> DEFINE body == [j \in 0 .. most |-> IF j = 0 THEN pointer[h]
                                        ELSE IF w[j - 1] \in {h, NULL} THEN w[j - 1]
                                        ELSE pointer[w[j - 1]]]
<1>2. w = body
  BY Zenon DEF IsRound
<1>3. body[k + 1] = IF w[k + 1 - 1] \in {h, NULL} THEN w[k + 1 - 1] ELSE pointer[w[k + 1 - 1]]
  BY <1>1
<1> HIDE DEF body
<1>4. w[k + 1] = body[k + 1]
  BY <1>2
<1> QED BY <1>1, <1>3, <1>4

(* list_for_each goes through the items in order, and ends. *)
LEMMA AlongIs ==
    ASSUME NEW h \in Heads, NEW s \in Seq(Items), \A j, k \in 1 .. Len(s) : s[j] = s[k] => j = k,
           NEW pointer, \A k \in 0 .. Len(s) : pointer[Spot(h, s, k)] = Spot(h, s, k + 1)
    PROVE  Along(pointer, h) = s
<1>1. PICK n \in Nat : n = Len(s)
  OBVIOUS
<1>2. h \notin Items /\ NULL \notin Items /\ h # NULL /\ IsFiniteSet(Cells) /\ Items \subseteq Cells
  BY ListAssumption, AbstractionAssumption DEF Cells
<1>3. \A k \in 1 .. n : s[k] \in Items /\ s[k] # h /\ s[k] # NULL /\ Spot(h, s, k) = s[k]
  BY <1>1, <1>2 DEF Spot
<1>4. Spot(h, s, 0) = h /\ Spot(h, s, n + 1) = h
  BY <1>1 DEF Spot
<1> DEFINE most == Cardinality(Cells)
<1>5. most \in Nat /\ n <= most
  <2>1. most \in Nat
    BY <1>2, FS_CardinalityType
  <2>2. IsFiniteSet(1 .. n) /\ Cardinality(1 .. n) = n
    BY FS_Interval
  <2>3. s \in [1 .. n -> Cells]
    BY <1>1, <1>2
  <2>4. ~(most < Cardinality(1 .. n))
    BY <1>1, <1>2, <2>2, <2>3, FS_PigeonHole
  <2> QED BY <2>1, <2>2, <2>4
<1> DEFINE g == [k \in 0 .. most |-> IF k < n THEN s[k + 1] ELSE h]
<1> HIDE DEF most
<1>6. \A k \in 0 .. n : pointer[Spot(h, s, k)] = Spot(h, s, k + 1)
  BY <1>1
<1>7. IsRound(g, pointer, h, most)
  <2> SUFFICES ASSUME NEW k \in 0 .. most
               PROVE  g[k] = IF k = 0 THEN pointer[h]
                             ELSE IF g[k - 1] \in {h, NULL} THEN g[k - 1] ELSE pointer[g[k - 1]]
    BY DEF IsRound
  <2>1. CASE k = 0
    <3>1. pointer[h] = Spot(h, s, 1)
      BY <1>4, <1>6
    <3>2. CASE n = 0
      BY <1>4, <1>5, <2>1, <3>1, <3>2
    <3>3. CASE n > 0
      <4>1. 1 \in 1 .. n /\ k < n /\ k + 1 = 1
        BY <2>1, <3>3
      <4>2. g[k] = s[1]
        BY <4>1
      <4> QED BY <1>3, <2>1, <3>1, <4>1, <4>2
    <3> QED BY <3>2, <3>3
  <2>2. CASE k # 0
    <3>1. k - 1 \in 0 .. most /\ k \in 1 .. most /\ (k - 1) + 1 = k
      BY <1>5, <2>2
    <3>2. CASE k - 1 < n
      <4>1. k \in 1 .. n /\ k \in 0 .. n /\ g[k - 1] = s[k]
        BY <3>1, <3>2
      <4>2. pointer[s[k]] = Spot(h, s, k + 1)
        BY <1>3, <1>6, <4>1
      <4>3. g[k] = Spot(h, s, k + 1)
        <5>1. CASE k < n
          <6>1. k + 1 \in 1 .. n /\ g[k] = s[k + 1]
            BY <3>1, <5>1
          <6> QED BY <1>3, <6>1
        <5>2. CASE k = n
          BY <1>4, <3>1, <5>2
        <5> QED BY <4>1, <5>1, <5>2
      <4> QED BY <1>3, <2>2, <4>1, <4>2, <4>3
    <3>3. CASE ~(k - 1 < n)
      <4>1. g[k - 1] = h /\ g[k] = h
        BY <3>1, <3>3
      <4> QED BY <2>2, <4>1
    <3> QED BY <3>2, <3>3
  <2> QED BY <2>1, <2>2
<1> HIDE DEF g
<1> DEFINE f == CHOOSE w : IsRound(w, pointer, h, most)
<1>8. IsRound(f, pointer, h, most)
  BY <1>7
<1> HIDE DEF f
<1>9. \A k \in 0 .. most : f[k] = g[k]
  <2> DEFINE T == {k \in 0 .. most : f[k] = g[k]}
  <2>1. 0 \in T
    BY <1>5, <1>7, <1>8 DEF IsRound
  <2>2. ASSUME NEW k \in 0 .. most - 1, k \in T
        PROVE  k + 1 \in T
    <3>1. k + 1 \in 0 .. most /\ f[k] = g[k]
      BY <1>5, <2>2
    <3>2. f[k + 1] = IF f[k] \in {h, NULL} THEN f[k] ELSE pointer[f[k]]
      BY <1>5, <1>8, RoundGoesOn
    <3>3. g[k + 1] = IF g[k] \in {h, NULL} THEN g[k] ELSE pointer[g[k]]
      BY <1>5, <1>7, RoundGoesOn
    <3> QED BY <3>1, <3>2, <3>3
  <2> HIDE DEF T
  <2>3. \A k \in 0 .. most : k \in T
    BY <1>5, <2>1, <2>2, SetInduction
  <2> QED BY <2>3 DEF T
<1> DEFINE ends == {k \in 0 .. most : f[k] \in {h, NULL}} \cup {most}
<1>10. Along(pointer, h) = [k \in 1 .. Min(ends) |-> f[k - 1]]
  BY Zenon DEF Along, IsRound, most, f
<1>11. n \in ends /\ \A y \in ends : y \in Int /\ n <= y
  <2>1. n \in 0 .. most /\ f[n] = h
    BY <1>5, <1>9 DEF g
  <2>2. ASSUME NEW y \in ends
        PROVE  y \in Int /\ n <= y
    <3>1. y \in 0 .. most
      BY <1>5
    <3>2. y < n => f[y] = s[y + 1] /\ y + 1 \in 1 .. n
      BY <1>5, <1>9, <3>1 DEF g
    <3> QED BY <1>3, <1>5, <3>1, <3>2
  <2> QED BY <2>1, <2>2
<1>12. Min(ends) = n
  <2> HIDE DEF ends
  <2>1. Min(ends) \in ends /\ \A y \in ends : Min(ends) <= y
    BY <1>11 DEF Min
  <2>2. PICK x : x = Min(ends)
    OBVIOUS
  <2>3. x \in Int /\ x <= n /\ n <= x
    BY <1>11, <2>1, <2>2
  <2> QED BY <2>2, <2>3
<1>13. ASSUME NEW k \in 1 .. n
       PROVE  f[k - 1] = s[k]
  <2>1. k - 1 \in 0 .. most /\ k - 1 < n /\ (k - 1) + 1 = k
    BY <1>5
  <2> QED BY <1>9, <2>1 DEF g
<1> HIDE DEF ends
<1>14. Along(pointer, h) = [k \in 1 .. n |-> s[k]]
  BY <1>10, <1>12, <1>13
<1>15. s = [k \in 1 .. n |-> s[k]]
  BY <1>1
<1> QED BY <1>14, <1>15

LEMMA ForwardIs ==
    ASSUME NEW st, NEW S, Rep(Memory, st, S), NEW h \in Heads \ st
    PROVE  Forward(h) = S[h]
<1>1. /\ S[h] \in Seq(Items) /\ \A j, k \in 1 .. Len(S[h]) : S[h][j] = S[h][k] => j = k
      /\ \A k \in 0 .. Len(S[h]) : next[Spot(h, S[h], k)] = Spot(h, S[h], k + 1)
  BY DEF Rep, Ring, Memory
<1> QED BY <1>1, AlongIs DEF Forward

LEMMA AlongLists ==
    ASSUME NEW m, NEW st, NEW S, Rep(m, st, S), NEW h \in Heads \ st
    PROVE  Along(m.next, h) = S[h]
<1>1. /\ S[h] \in Seq(Items) /\ \A j, k \in 1 .. Len(S[h]) : S[h][j] = S[h][k] => j = k
      /\ \A k \in 0 .. Len(S[h]) : m.next[Spot(h, S[h], k)] = Spot(h, S[h], k + 1)
  BY DEF Rep, Ring
<1> QED BY <1>1, AlongIs

RepInv == Rep(Memory, stale, Lists)

LEMMA RepInit == Init => RepInv
<1> SUFFICES ASSUME Init PROVE RepInv
  OBVIOUS
<1>1. Pointers(Memory)
  BY DEF Init, Pointers, Memory
<1>2. Heads \ stale = {} /\ Items \ stale = {} /\ stale = Cells
  BY DEF Init, Cells
<1>3. Lists \in [Heads -> Seq(Items) \cup {None}] /\ \A h \in Heads : Lists[h] = None
  BY <1>2 DEF Lists, Cells
<1> QED BY <1>1, <1>2, <1>3 DEF RepInv, Rep, Cells

(* A call that leaves the memory m, in which T are the lists, leaves the lists T. *)
LEMMA Reaches ==
    ASSUME NEW m, NEW T, Becomes(m), Rep(m, stale', T)
    PROVE  Lists' = T /\ RepInv'
<1>1. m = Memory'
  BY DEF Becomes, Memory, Rep, Pointers
<1>2. /\ T = [h \in Heads |-> T[h]]
      /\ \A h \in Heads : T[h] = IF h \in stale' THEN None ELSE Along(next', h)
  <2>1. T = [h \in Heads |-> T[h]] /\ \A h \in Heads : T[h] = None <=> h \in stale'
    BY DEF Rep
  <2>2. next' = m.next
    BY DEF Becomes
  <2>3. \A h \in Heads \ stale' : Along(next', h) = T[h]
    BY <2>2, AlongLists
  <2> QED BY <2>1, <2>3
<1>3. Lists' = [h \in Heads |-> IF h \in stale' THEN None ELSE Along(next', h)]
  BY DEF Lists, Forward
<1>4. Lists' = T
  BY <1>2, <1>3, Zenon
<1> QED BY <1>1, <1>4 DEF RepInv

LEMMA ListsAre ==
    ASSUME RepInv
    PROVE  /\ Pointers(Memory) /\ stale \subseteq Cells
           /\ Lists = [h \in Heads |-> Lists[h]]
           /\ Abstract!Live = Heads \ stale /\ LiveHeads = Heads \ stale
           /\ \A h \in LiveHeads : Lists[h] \in Seq(Items)
           /\ \A i \in Items : Abstract!Free(i) <=> ~IsOn(Lists, stale, i)
<1>1. /\ Pointers(Memory) /\ stale \subseteq Cells
      /\ Lists = [h \in Heads |-> Lists[h]]
      /\ Abstract!Live = Heads \ stale /\ LiveHeads = Heads \ stale
      /\ \A h \in LiveHeads : Lists[h] \in Seq(Items)
  <2>1. /\ Pointers(Memory) /\ stale \subseteq Cells
        /\ Lists = [h \in Heads |-> Lists[h]] /\ LiveHeads = Heads \ stale
    BY DEF RepInv, Rep, Lists, LiveHeads
  <2>2. \A h \in LiveHeads : Lists[h] \in Seq(Items)
    BY <2>1, Lens DEF RepInv
  <2>3. Abstract!Live = Heads \ stale
    BY DEF RepInv, Rep, Abstract!Live
  <2> QED BY <2>1, <2>2, <2>3
<1>2. ASSUME NEW i \in Items
      PROVE  Abstract!Free(i) <=> ~IsOn(Lists, stale, i)
  <2>1. \A h \in Heads \ stale : i \in Abstract!Range(Lists[h]) <=> \E k \in 1 .. Len(Lists[h]) : Lists[h][k] = i
    <3>1. \A h \in Heads \ stale : DOMAIN Lists[h] = 1 .. Len(Lists[h])
      BY <1>1
    <3> QED BY <3>1 DEF Abstract!Range
  <2> QED BY <1>1, <2>1 DEF Abstract!Free, IsOn
<1> QED BY <1>1, <1>2

(* ListSpec has its own copies of the operators on sequences. *)
LEMMA SameEdits ==
    /\ \A s, k, i : Abstract!InsertAt(s, k, i) = InsertAt(s, k, i)
    /\ \A s, k : Abstract!RemoveAt(s, k) = RemoveAt(s, k)
  BY DEF InsertAt, RemoveAt, Abstract!InsertAt, Abstract!RemoveAt

LEMMA InitHeadSteps ==
    ASSUME RepInv, NEW h \in Heads, init_head(h)
    PROVE  RepInv' /\ Abstract!Empty(h)
<1> DEFINE T == [Lists EXCEPT ![h] = << >>]
<1>1. Rep(INIT_LIST_HEAD(Memory, h), stale \ {h}, T)
  BY HeadKeeps DEF RepInv, init_head, list_empty, Memory
<1> HIDE DEF T
<1>2. Lists' = T /\ RepInv'
  BY <1>1, Reaches DEF init_head
<1> QED BY <1>2 DEF Abstract!Empty, T

(* An item that a caller adds is on no list. *)
LEMMA LooseIs ==
    ASSUME RepInv, NEW i \in Items, Loose(i)
    PROVE  (i \in stale \/ Memory.next[i] = i) /\ ~IsOn(Lists, stale, i) /\ Abstract!Free(i)
<1>1. i \in stale \/ Memory.next[i] = i
  BY DEF Loose, list_empty, Memory
<1>2. ~IsOn(Lists, stale, i)
  BY <1>1, LooseFree DEF RepInv
<1> QED BY <1>1, <1>2, ListsAre

LEMMA InsertSteps ==
    ASSUME RepInv, NEW i \in Items, Loose(i), NEW h \in LiveHeads, NEW k \in 1 .. Len(Lists[h]) + 1,
           NEW p, p = Spot(h, Lists[h], k - 1), NEW n, n = Spot(h, Lists[h], k),
           Becomes(__list_add(Memory, i, p, n)), stale' = stale \ {i}
    PROVE  RepInv' /\ Abstract!Insert(h, k, i)
<1>1. h \in Heads \ stale
  BY ListsAre
<1>2. i \in stale \/ Memory.next[i] = i
  BY LooseIs
<1> DEFINE T == [Lists EXCEPT ![h] = InsertAt(Lists[h], k, i)]
           w == __list_add(Memory, i, p, n)
<1>3. Rep(w, stale \ {i}, T)
  BY <1>1, <1>2, InsertKeeps DEF RepInv
<1> HIDE DEF T, w
<1>4. Lists' = T /\ RepInv'
  BY <1>3, Reaches DEF w
<1>5. Lists' = [Lists EXCEPT ![h] = Abstract!InsertAt(@, k, i)]
  BY <1>4, SameEdits, Zenon DEF T
<1> QED BY <1>4, <1>5, LooseIs DEF Abstract!Insert

LEMMA AddSteps ==
    ASSUME RepInv, NEW i \in Items, NEW cell, cell \in LiveHeads \/ Listed(cell), i # cell, list_add(i, cell)
    PROVE  RepInv' /\ \E h \in LiveHeads : \E k \in 1 .. Len(Lists[h]) + 1 : Abstract!Insert(h, k, i)
<1>1. Loose(i) /\ Becomes(__list_add(Memory, i, cell, next[cell])) /\ stale' = stale \ {i}
  BY DEF list_add
<1>2. PICK h \in LiveHeads : \E k \in 0 .. Len(Lists[h]) : cell = Spot(h, Lists[h], k)
  <2>1. CASE cell \in LiveHeads
    <3>1. cell \in Heads \ stale
      BY <2>1, ListsAre
    <3>2. cell = Spot(cell, Lists[cell], 0) /\ 0 \in 0 .. Len(Lists[cell])
      BY <3>1, Spots, Lens DEF RepInv
    <3> QED BY <2>1, <3>2
  <2>2. CASE Listed(cell)
    <3>1. cell \in Items /\ cell \notin stale /\ Memory.next[cell] # cell
      BY <2>2 DEF Listed, Loose, list_empty, Memory
    <3>2. PICK h \in Heads \ stale : \E k \in 1 .. Len(Lists[h]) : Spot(h, Lists[h], k) = cell
      BY <3>1, ListedOn DEF RepInv
    <3> QED BY <3>2, ListsAre
  <2> QED BY <2>1, <2>2
<1>3. PICK k \in 0 .. Len(Lists[h]) : cell = Spot(h, Lists[h], k)
  BY <1>2
<1>4. h \in Heads \ stale /\ k + 1 \in 1 .. Len(Lists[h]) + 1 /\ (k + 1) - 1 = k
  BY ListsAre
<1>5. next[cell] = Spot(h, Lists[h], k + 1)
  BY <1>3, <1>4, Around DEF RepInv, Memory
<1>6. RepInv' /\ Abstract!Insert(h, k + 1, i)
  BY <1>1, <1>3, <1>4, <1>5, InsertSteps
<1> QED BY <1>4, <1>6

LEMMA AddTailSteps ==
    ASSUME RepInv, NEW i \in Items, NEW h \in LiveHeads, list_add_tail(i, h)
    PROVE  RepInv' /\ \E k \in 1 .. Len(Lists[h]) + 1 : Abstract!Insert(h, k, i)
<1>1. Loose(i) /\ Becomes(__list_add(Memory, i, prev[h], h)) /\ stale' = stale \ {i}
  BY DEF list_add_tail
<1>2. h \in Heads \ stale
  BY ListsAre
<1>3. PICK k : k = Len(Lists[h]) + 1
  OBVIOUS
<1>4. k \in 1 .. Len(Lists[h]) + 1 /\ k - 1 = Len(Lists[h])
  BY <1>2, <1>3, Lens DEF RepInv
<1>5. prev[h] = Spot(h, Lists[h], k - 1) /\ h = Spot(h, Lists[h], k)
  BY <1>2, <1>3, <1>4, Ends, Spots DEF RepInv, Memory
<1>6. RepInv' /\ Abstract!Insert(h, k, i)
  BY <1>1, <1>4, <1>5, InsertSteps
<1> QED BY <1>4, <1>6

LEMMA ListedAt ==
    ASSUME RepInv, NEW i, Listed(i)
    PROVE  /\ i \in Items /\ i \in Cells \ stale
           /\ \E g \in LiveHeads : \E j \in 1 .. Len(Lists[g]) : Lists[g][j] = i
<1>1. i \in Items /\ i \notin stale /\ Memory.next[i] # i
  BY DEF Listed, Loose, list_empty, Memory
<1>2. \E h \in Heads \ stale : \E k \in 1 .. Len(Lists[h]) : Lists[h][k] = i /\ Spot(h, Lists[h], k) = i
  BY <1>1, ListedOn DEF RepInv
<1> QED BY <1>1, <1>2, ListsAre DEF Cells

(* The memory after __list_del_entry. *)
LEMMA Unlinks ==
    ASSUME NEW m, NEW st, NEW S, Rep(m, st, S), NEW h \in Heads \ st, NEW k \in 1 .. Len(S[h]), NEW e, e = S[h][k],
           NEW w, w = __list_del_entry(m, e)
    PROVE  /\ Pointers(w) /\ e \in Items /\ e \in Cells \ st
           /\ \A c \in Cells : /\ w.next[c] = IF c = m.prev[e] THEN m.next[e] ELSE m.next[c]
                               /\ w.prev[c] = IF c = m.next[e] THEN m.prev[e] ELSE m.prev[c]
           /\ m.prev[e] = Spot(h, S[h], k - 1) /\ m.next[e] = Spot(h, S[h], k + 1)
           /\ m.prev[e] # e /\ m.next[e] # e /\ m.prev[e] \in Cells \ st /\ m.next[e] \in Cells \ st
<1>1. PICK a \in Nat : a = Len(S[h]) /\ k \in 1 .. a
  BY Lens
<1>2. e \in Items /\ e \in Cells \ st /\ e = Spot(h, S[h], k)
  <2>1. e \in Items
    BY Lens
  <2> QED BY <2>1 DEF Rep, Spot, Cells
<1>3. /\ k \in 0 .. a /\ k - 1 \in 0 .. a /\ (k - 1) + 1 = k /\ k # k - 1 /\ k # k + 1
      /\ k \in 1 .. a + 1 /\ k + 1 \in 1 .. a + 1 /\ k - 1 \in Int /\ k + 1 \in Int
  BY <1>1
<1>4. m.next[Spot(h, S[h], k)] = Spot(h, S[h], k + 1)
  BY <1>1, <1>3, Around
<1>5. m.prev[Spot(h, S[h], (k - 1) + 1)] = Spot(h, S[h], k - 1)
  BY <1>1, <1>3, Around
<1>6. m.prev[e] = Spot(h, S[h], k - 1) /\ m.next[e] = Spot(h, S[h], k + 1)
  BY <1>2, <1>3, <1>4, <1>5
<1>7. m.prev[e] # e /\ m.next[e] # e /\ m.prev[e] \in Cells \ st /\ m.next[e] \in Cells \ st
  BY <1>1, <1>2, <1>3, <1>6, Spots
<1>8. PICK p \in Cells, n \in Cells : p = m.prev[e] /\ n = m.next[e]
  BY <1>7
<1>9. w = Link(m, p, n)
  BY <1>8 DEF __list_del_entry, __list_del
<1>10. Pointers(m)
  BY DEF Rep
<1>11. /\ Pointers(w)
       /\ \A c \in Cells : /\ w.next[c] = IF c = p THEN n ELSE m.next[c]
                           /\ w.prev[c] = IF c = n THEN p ELSE m.prev[c]
  BY <1>8, <1>9, <1>10 DEF Link, Pointers
<1> QED BY <1>2, <1>6, <1>7, <1>8, <1>11

LEMMA TakenOut ==
    ASSUME NEW m, NEW st, NEW S, Rep(m, st, S), NEW h \in Heads \ st, NEW k \in 1 .. Len(S[h]), NEW e, e = S[h][k]
    PROVE  Rep(__list_del_entry(m, e), st \cup {e}, [S EXCEPT ![h] = RemoveAt(S[h], k)])
<1>1. PICK w : w = __list_del_entry(m, e)
  OBVIOUS
<1>2. Pointers(w) /\ \A c \in Cells \ {e} : /\ w.next[c] = IF c = m.prev[e] THEN m.next[e] ELSE m.next[c]
                                           /\ w.prev[c] = IF c = m.next[e] THEN m.prev[e] ELSE m.prev[c]
  BY <1>1, Unlinks
<1>3. Rep(w, st \cup {e}, [S EXCEPT ![h] = RemoveAt(S[h], k)])
  BY <1>2, DeleteKeeps
<1> QED BY <1>1, <1>3

LEMMA PoisonedIs ==
    ASSUME NEW m, Pointers(m), NEW e \in Cells, NEW w, w = Poisoned(m, e) \/ w = INIT_LIST_HEAD(m, e)
    PROVE  /\ Pointers(w) /\ \A c \in Cells \ {e} : w.next[c] = m.next[c] /\ w.prev[c] = m.prev[c]
           /\ w = INIT_LIST_HEAD(m, e) => w.next[e] = e
<1>1. CASE w = Poisoned(m, e)
  <2>1. /\ Pointers(w) /\ \A c \in Cells \ {e} : w.next[c] = m.next[c] /\ w.prev[c] = m.prev[c]
        /\ w.next[e] = NULL
    BY <1>1 DEF Pointers, Poisoned
  <2>2. INIT_LIST_HEAD(m, e).next[e] = e /\ e # NULL
    BY ListAssumption DEF Pointers, INIT_LIST_HEAD, Link, Cells
  <2> QED BY <2>1, <2>2
<1>2. CASE w = INIT_LIST_HEAD(m, e)
  BY <1>2 DEF Pointers, INIT_LIST_HEAD, Link
<1> QED BY <1>1, <1>2

(* An item leaves its place. *)
LEMMA DeletePlace ==
    ASSUME RepInv, NEW g \in LiveHeads, NEW j \in 1 .. Len(Lists[g]), NEW i, i = Lists[g][j],
           list_del(i) \/ list_del_init(i)
    PROVE  RepInv' /\ Lists' = [Lists EXCEPT ![g] = RemoveAt(@, j)]
<1>2. Lists[g][j] = i
  OBVIOUS
<1>3. i \in Items /\ i \in Cells /\ i \notin stale /\ g \in Heads \ stale
  <2>1. g \in Heads \ stale /\ i \in Items
    BY ListsAre, Lens DEF RepInv
  <2> QED BY <2>1 DEF RepInv, Rep, Cells
<1> DEFINE T == [Lists EXCEPT ![g] = RemoveAt(Lists[g], j)]
           d == __list_del_entry(Memory, i)
<1>4. Rep(d, stale \cup {i}, T)
  BY <1>2, <1>3, TakenOut DEF RepInv
<1> HIDE DEF T, d
<1>5. Pointers(d) /\ ~IsOn(T, stale \cup {i}, i)
  <2>1. i \in stale \cup {i}
    OBVIOUS
  <2> QED BY <1>3, <1>4, <2>1, LooseFree DEF Rep
<1>6. Lists' = T /\ RepInv'
  <2>1. CASE list_del(i)
    <3>1. Becomes(Poisoned(d, i)) /\ stale' = stale \cup {i}
      BY <2>1 DEF list_del, d
    <3>2. PICK w : w = Poisoned(d, i)
      OBVIOUS
    <3>3. Pointers(w) /\ \A c \in Cells \ {i} : w.next[c] = d.next[c] /\ w.prev[c] = d.prev[c]
      BY <1>3, <1>5, <3>2, PoisonedIs
    <3>4. Rep(w, stale', T)
      <4>1. stale' \ {i} = (stale \cup {i}) \ {i} /\ i \in stale'
        BY <3>1
      <4> QED BY <1>3, <1>4, <1>5, <3>3, <4>1, FreeKeeps
    <3> QED BY <3>1, <3>2, <3>4, Reaches
  <2>2. CASE list_del_init(i)
    <3>1. Becomes(INIT_LIST_HEAD(d, i)) /\ stale' = stale
      BY <2>2 DEF list_del_init, d
    <3>2. PICK w : w = INIT_LIST_HEAD(d, i)
      OBVIOUS
    <3>3. /\ Pointers(w) /\ \A c \in Cells \ {i} : w.next[c] = d.next[c] /\ w.prev[c] = d.prev[c]
          /\ w.next[i] = i
      BY <1>3, <1>5, <3>2, PoisonedIs
    <3>4. Rep(w, stale', T)
      <4>1. stale' \ {i} = (stale \cup {i}) \ {i}
        BY <3>1
      <4> QED BY <1>3, <1>4, <1>5, <3>3, <4>1, FreeKeeps
    <3> QED BY <3>1, <3>2, <3>4, Reaches
  <2> QED BY <2>1, <2>2
<1> QED BY <1>6, Zenon DEF T

LEMMA DeleteSteps ==
    ASSUME RepInv, NEW i, Listed(i), list_del(i) \/ list_del_init(i)
    PROVE  RepInv' /\ \E g \in LiveHeads : \E j \in 1 .. Len(Lists[g]) : Abstract!Delete(g, j)
<1>1. PICK g \in LiveHeads : \E j \in 1 .. Len(Lists[g]) : Lists[g][j] = i
  BY ListedAt
<1>2. PICK j \in 1 .. Len(Lists[g]) : Lists[g][j] = i
  BY <1>1
<1>3. RepInv' /\ Lists' = [Lists EXCEPT ![g] = RemoveAt(@, j)]
  BY <1>2, DeletePlace
<1>4. Lists' = [Lists EXCEPT ![g] = Abstract!RemoveAt(@, j)]
  BY <1>3, SameEdits, Zenon
<1> QED BY <1>3, <1>4 DEF Abstract!Delete

(* list_replace is __list_del_entry of the old item and __list_add of the new one. *)
LEMMA ReplacedIs ==
    ASSUME NEW m, NEW st, NEW S, Rep(m, st, S), NEW h \in Heads \ st, NEW k \in 1 .. Len(S[h]), NEW old, old = S[h][k],
           NEW new \in Items, new # old, new \in st \/ m.next[new] = new
    PROVE  /\ Replaced(m, old, new) = __list_add(__list_del_entry(m, old), new, m.prev[old], m.next[old])
           /\ new \in st \/ __list_del_entry(m, old).next[new] = new
<1>1. PICK d : d = __list_del_entry(m, old)
  OBVIOUS
<1>2. /\ m.prev[old] \in Cells \ st /\ m.next[old] \in Cells \ st
      /\ m.prev[old] = Spot(h, S[h], k - 1) /\ m.next[old] = Spot(h, S[h], k + 1)
      /\ \A c \in Cells : d.next[c] = IF c = m.prev[old] THEN m.next[old] ELSE m.next[c]
  BY <1>1, Unlinks
<1>3. PICK p \in Cells, n \in Cells : p = m.prev[old] /\ n = m.next[old]
  BY <1>2
<1>4. new # p /\ new # n
  <2>1. ~IsOn(S, st, new)
    BY LooseFree
  <2> QED BY <1>2, <1>3, <2>1, ListAssumption DEF Spot, IsOn
<1>5. new \in st \/ d.next[new] = new
  BY <1>2, <1>3, <1>4 DEF Cells
<1>6. Pointers(m)
  BY DEF Rep
<1>7. /\ Replaced(m, old, new) = Link(Link(m, new, n), p, new)
      /\ __list_add(__list_del_entry(m, old), new, p, n) = Link(Link(Link(m, p, n), p, new), new, n)
  BY <1>3 DEF Replaced, __list_add, __list_del_entry, __list_del
<1>8. Link(Link(m, new, n), p, new) = Link(Link(Link(m, p, n), p, new), new, n)
  <2>1. new \in Cells
    BY DEF Cells
  <2>2. /\ m.next \in [Cells -> Cells \cup {NULL}]
        /\ m.prev \in [Cells -> Cells \cup {NULL}]
    BY <1>6 DEF Pointers
  <2>3. [[m.next EXCEPT ![new] = n] EXCEPT ![p] = new] = [[[m.next EXCEPT ![p] = n] EXCEPT ![p] = new] EXCEPT ![new] = n]
    BY <1>4, <2>1, <2>2
  <2>4. [[m.prev EXCEPT ![n] = new] EXCEPT ![new] = p] = [[[m.prev EXCEPT ![n] = p] EXCEPT ![new] = p] EXCEPT ![n] = new]
    BY <1>4, <2>1, <2>2
  <2> QED BY <2>3, <2>4 DEF Link
<1> QED BY <1>1, <1>3, <1>5, <1>7, <1>8

LEMMA ReplaceKeeps ==
    ASSUME NEW m, NEW st, NEW S, Rep(m, st, S), NEW h \in Heads \ st, NEW k \in 1 .. Len(S[h]), NEW old, old = S[h][k],
           NEW new \in Items, new # old, new \in st \/ m.next[new] = new
    PROVE  Rep(Replaced(m, old, new), (st \ {new}) \cup {old}, [S EXCEPT ![h][k] = new])
<1> DEFINE d == __list_del_entry(m, old)
           T == [S EXCEPT ![h] = RemoveAt(S[h], k)]
           U == [T EXCEPT ![h] = InsertAt(T[h], k, new)]
           st1 == st \cup {old}
<1>1. S[h] \in Seq(Items) /\ S = [g \in Heads |-> S[g]] /\ old \in Items
  BY Lens DEF Rep
<1>2. Rep(d, st1, T)
  BY TakenOut
<1>3. /\ Replaced(m, old, new) = __list_add(d, new, m.prev[old], m.next[old])
      /\ new \in st1 \/ d.next[new] = new
  BY ReplacedIs
<1>4. T[h] = RemoveAt(S[h], k)
  BY <1>1, Zenon
<1>5. Narrowed(RemoveAt(S[h], k), S[h], k)
  BY <1>1, RemoveIs
<1>6. m.prev[old] = Spot(h, S[h], k - 1) /\ m.next[old] = Spot(h, S[h], k + 1)
  <2>1. PICK w : w = d
    OBVIOUS
  <2> QED BY <2>1, Unlinks
<1>7. h \in Heads \ st1
  BY <1>1, ListAssumption
<1> HIDE DEF T, d, st1
<1>8. /\ k \in 1 .. Len(T[h]) + 1
      /\ m.prev[old] = Spot(h, T[h], k - 1) /\ m.next[old] = Spot(h, T[h], k)
  <2>1. PICK a \in Nat : a = Len(S[h]) /\ k \in 1 .. a
    BY <1>1
  <2>2. /\ Len(T[h]) = a - 1
        /\ \A j \in 0 .. a : Spot(h, T[h], j) = IF j < k THEN Spot(h, S[h], j) ELSE Spot(h, S[h], j + 1)
    BY <1>4, <1>5, <2>1 DEF Narrowed
  <2>3. k - 1 \in 0 .. a /\ k - 1 < k /\ k \in 0 .. a /\ ~(k < k) /\ k \in 1 .. (a - 1) + 1
    BY <2>1
  <2> QED BY <1>6, <2>2, <2>3
<1>9. Rep(__list_add(d, new, m.prev[old], m.next[old]), st1 \ {new}, U)
  BY <1>2, <1>3, <1>7, <1>8, InsertKeeps
<1>10. st1 \ {new} = (st \ {new}) \cup {old}
  BY DEF st1
<1>11. U = [S EXCEPT ![h][k] = new]
  <2>1. InsertAt(T[h], k, new) = [S[h] EXCEPT ![k] = new]
    BY <1>1, <1>4, ReplaceIs
  <2>2. U = [S EXCEPT ![h] = InsertAt(T[h], k, new)]
    BY <1>1 DEF T
  <2> QED BY <2>1, <2>2
<1> QED BY <1>3, <1>9, <1>10, <1>11

(* An item takes the place of another. *)
LEMMA ReplacePlace ==
    ASSUME RepInv, NEW g \in LiveHeads, NEW j \in 1 .. Len(Lists[g]), NEW old, old = Lists[g][j],
           NEW new \in Items \ {old}, list_replace(old, new) \/ list_replace_init(old, new)
    PROVE  RepInv' /\ Abstract!Free(new) /\ Lists' = [Lists EXCEPT ![g][j] = new]
<1>2. Lists[g][j] = old
  OBVIOUS
<1>3. old \in Items /\ old \in Cells /\ old \notin stale /\ g \in Heads \ stale
  <2>1. g \in Heads \ stale /\ old \in Items
    BY ListsAre, Lens DEF RepInv
  <2> QED BY <2>1 DEF RepInv, Rep, Cells
<1>4. Loose(new)
  BY DEF list_replace, list_replace_init
<1>5. (new \in stale \/ Memory.next[new] = new) /\ Abstract!Free(new)
  BY <1>4, LooseIs
<1> DEFINE T == [Lists EXCEPT ![g][j] = new]
           d == Replaced(Memory, old, new)
           st == (stale \ {new}) \cup {old}
<1>6. Rep(d, st, T)
  BY <1>2, <1>3, <1>5, ReplaceKeeps DEF RepInv
<1>s. old \in st /\ st \ {old} = (stale \ {new}) \ {old}
  OBVIOUS
<1> HIDE DEF T, d, st
<1>7. Pointers(d) /\ ~IsOn(T, st, old)
  BY <1>3, <1>6, <1>s, LooseFree DEF Rep
<1>8. Lists' = T /\ RepInv'
  <2>1. CASE list_replace(old, new)
    <3>1. Becomes(d) /\ stale' = st
      BY <2>1 DEF list_replace, d, st
    <3> QED BY <1>6, <3>1, Reaches
  <2>2. CASE list_replace_init(old, new)
    <3>1. Becomes(INIT_LIST_HEAD(d, old)) /\ stale' = stale \ {new}
      BY <2>2 DEF list_replace_init, d
    <3>2. PICK w : w = INIT_LIST_HEAD(d, old)
      OBVIOUS
    <3>3. /\ Pointers(w) /\ \A c \in Cells \ {old} : w.next[c] = d.next[c] /\ w.prev[c] = d.prev[c]
          /\ w.next[old] = old
      BY <1>3, <1>7, <3>2, PoisonedIs
    <3>4. Rep(w, stale', T)
      <4>1. stale' \ {old} = st \ {old}
        BY <1>s, <3>1
      <4> QED BY <1>3, <1>6, <1>7, <3>3, <4>1, FreeKeeps
    <3> QED BY <3>1, <3>2, <3>4, Reaches
  <2> QED BY <2>1, <2>2
<1> QED BY <1>5, <1>8 DEF T

LEMMA ReplaceSteps ==
    ASSUME RepInv, NEW old, Listed(old), NEW new \in Items \ {old}, list_replace(old, new) \/ list_replace_init(old, new)
    PROVE  RepInv' /\ \E g \in LiveHeads : \E j \in 1 .. Len(Lists[g]) : Abstract!Replace(g, j, new)
<1>1. PICK g \in LiveHeads : \E j \in 1 .. Len(Lists[g]) : Lists[g][j] = old
  BY ListedAt
<1>2. PICK j \in 1 .. Len(Lists[g]) : Lists[g][j] = old
  BY <1>1
<1>3. RepInv' /\ Abstract!Free(new) /\ Lists' = [Lists EXCEPT ![g][j] = new]
  BY <1>2, ReplacePlace
<1> QED BY <1>3 DEF Abstract!Replace

(* An item that is taken out goes to the front or the back of a list. *)
LEMMA MoveKeeps ==
    ASSUME RepInv, NEW g \in LiveHeads, NEW j \in 1 .. Len(Lists[g]), NEW i, i = Lists[g][j], NEW h \in LiveHeads,
           list_move(i, h) \/ list_move_tail(i, h)
    PROVE  RepInv' /\ \E front \in BOOLEAN : Abstract!Move(g, j, h, front)
<1>1. g \in Heads \ stale /\ h \in Heads \ stale /\ g \in Heads
  BY ListsAre
<1>2. i \in Items /\ i \in Cells /\ i \notin stale
  <2>1. i \in Items
    BY <1>1, Lens DEF RepInv
  <2> QED BY <1>1, <2>1 DEF RepInv, Rep, Cells
<1> DEFINE T == [Lists EXCEPT ![g] = RemoveAt(Lists[g], j)]
           d == __list_del_entry(Memory, i)
           st == stale \cup {i}
<1>3. Rep(d, st, T)
  BY <1>1, TakenOut DEF RepInv
<1>4. h \in Heads \ st /\ i \in st /\ st \ {i} = stale
  BY <1>1, <1>2, ListAssumption
<1> HIDE DEF st
<1>5. Lists = [f \in Heads |-> Lists[f]]
  BY ListsAre
<1>6. T = [Lists EXCEPT ![g] = Abstract!RemoveAt(Lists[g], j)]
  BY SameEdits, Zenon
<1> HIDE DEF T, d
<1>7. T[h] \in Seq(Items) /\ Len(T[h]) \in Nat
  BY <1>3, <1>4, Lens
<1>8. CASE list_move(i, h)
  <2>1. Becomes(__list_add(d, i, h, d.next[h])) /\ stale' = stale
    BY <1>8 DEF list_move, d
  <2>2. PICK k : k = 1
    OBVIOUS
  <2>3. k \in 1 .. Len(T[h]) + 1 /\ k - 1 = 0
    BY <1>7, <2>2
  <2>4. h = Spot(h, T[h], k - 1) /\ d.next[h] = Spot(h, T[h], k)
    BY <1>3, <1>4, <2>2, <2>3, Ends, Spots
  <2>5. Rep(__list_add(d, i, h, d.next[h]), st \ {i}, [T EXCEPT ![h] = InsertAt(T[h], k, i)])
    BY <1>2, <1>3, <1>4, <2>3, <2>4, InsertKeeps
  <2>6. Lists' = [T EXCEPT ![h] = InsertAt(T[h], 1, i)] /\ RepInv'
    BY <1>4, <2>1, <2>2, <2>5, Reaches
  <2>7. <<i>> \o T[h] = InsertAt(T[h], 1, i)
    BY <1>2, <1>7, InsertEnds
  <2>8. Lists' = [T EXCEPT ![h] = <<i>> \o @]
    BY <2>6, <2>7, Zenon
  <2>9. Abstract!Move(g, j, h, TRUE)
    BY <1>6, <2>8 DEF Abstract!Move
  <2> QED BY <2>6, <2>9
<1>9. CASE list_move_tail(i, h)
  <2>1. Becomes(__list_add(d, i, d.prev[h], h)) /\ stale' = stale
    BY <1>9 DEF list_move_tail, d
  <2>2. PICK k : k = Len(T[h]) + 1
    OBVIOUS
  <2>3. k \in 1 .. Len(T[h]) + 1 /\ k - 1 = Len(T[h])
    BY <1>7, <2>2
  <2>4. d.prev[h] = Spot(h, T[h], k - 1) /\ h = Spot(h, T[h], k)
    BY <1>3, <1>4, <2>2, <2>3, Ends, Spots
  <2>5. Rep(__list_add(d, i, d.prev[h], h), st \ {i}, [T EXCEPT ![h] = InsertAt(T[h], k, i)])
    BY <1>2, <1>3, <1>4, <2>3, <2>4, InsertKeeps
  <2>6. Lists' = [T EXCEPT ![h] = InsertAt(T[h], Len(T[h]) + 1, i)] /\ RepInv'
    BY <1>4, <2>1, <2>2, <2>5, Reaches
  <2>7. T[h] \o <<i>> = InsertAt(T[h], Len(T[h]) + 1, i)
    BY <1>2, <1>7, InsertEnds
  <2>8. Lists' = [T EXCEPT ![h] = @ \o <<i>>]
    BY <2>6, <2>7, Zenon
  <2>9. Abstract!Move(g, j, h, FALSE)
    BY <1>6, <2>8 DEF Abstract!Move
  <2> QED BY <2>6, <2>9
<1> QED BY <1>8, <1>9

LEMMA MoveSteps ==
    ASSUME RepInv, NEW i, Listed(i), NEW h \in LiveHeads, list_move(i, h) \/ list_move_tail(i, h)
    PROVE  /\ RepInv'
           /\ \E g \in LiveHeads, front \in BOOLEAN : \E j \in 1 .. Len(Lists[g]) : Abstract!Move(g, j, h, front)
<1>1. PICK g \in LiveHeads : \E j \in 1 .. Len(Lists[g]) : Lists[g][j] = i
  BY ListedAt
<1>2. PICK j \in 1 .. Len(Lists[g]) : Lists[g][j] = i
  BY <1>1
<1>3. RepInv' /\ \E front \in BOOLEAN : Abstract!Move(g, j, h, front)
  BY <1>2, MoveKeeps
<1> QED BY <1>3

(* The first item of a list. *)
LEMMA FirstItem ==
    ASSUME RepInv, NEW h \in LiveHeads, ~list_empty(h)
    PROVE  1 \in 1 .. Len(Lists[h]) /\ next[h] = Lists[h][1] /\ Lists[h] # << >>
<1>1. h \in Heads \ stale /\ Memory.next[h] # h
  BY ListsAre DEF list_empty, Memory
<1>2. Lists[h] # << >> /\ Len(Lists[h]) > 0 /\ Memory.next[h] = Lists[h][1] /\ Len(Lists[h]) \in Nat
  BY <1>1, Ends, Lens DEF RepInv
<1> QED BY <1>2 DEF Memory

LEMMA RotateSteps ==
    ASSUME RepInv, NEW h \in LiveHeads, list_rotate_left(h)
    PROVE  /\ RepInv'
           /\ \E front \in BOOLEAN : \E j \in 1 .. Len(Lists[h]) : Abstract!Move(h, j, h, front)
<1>1. ~list_empty(h) /\ list_move_tail(next[h], h)
  BY DEF list_rotate_left
<1>2. 1 \in 1 .. Len(Lists[h]) /\ next[h] = Lists[h][1]
  BY <1>1, FirstItem
<1>3. PICK j \in 1 .. Len(Lists[h]) : next[h] = Lists[h][j]
  BY <1>2
<1>4. RepInv' /\ \E front \in BOOLEAN : Abstract!Move(h, j, h, front)
  BY <1>1, <1>3, MoveKeeps
<1> QED BY <1>4

(* The first item leaves a queue; an empty queue stays as it is. *)
LEMMA OutQueueSteps ==
    ASSUME RepInv, NEW h \in LiveHeads, out_queue(h)
    PROVE  RepInv' /\ (\/ Abstract!Empty(h)
                       \/ \E j \in 1 .. Len(Lists[h]) : Abstract!Delete(h, j))
<1>1. h \in Heads \ stale /\ h \in Cells
  BY ListsAre DEF Cells
<1>2. Becomes(INIT_LIST_HEAD(__list_del_entry(Memory, next[h]), next[h])) /\ stale' = stale
  BY DEF out_queue
<1>3. CASE list_empty(h)
  <2>1. Memory.next[h] = h
    BY <1>3 DEF list_empty, Memory
  <2>2. Lists[h] = << >> /\ Memory.prev[h] = h /\ next[h] = h
    BY <1>1, <2>1, Ends DEF RepInv, Memory
  <2>3. Rep(INIT_LIST_HEAD(Memory, h), stale \ {h}, [Lists EXCEPT ![h] = << >>])
    BY <1>1, <2>1, HeadKeeps DEF RepInv
  <2>4. INIT_LIST_HEAD(__list_del_entry(Memory, next[h]), next[h]) = INIT_LIST_HEAD(Memory, h)
    <3>1. /\ Memory.next \in [Cells -> Cells \cup {NULL}]
          /\ Memory.prev \in [Cells -> Cells \cup {NULL}]
      BY ListsAre DEF Pointers
    <3>2. __list_del_entry(Memory, h) = Link(Memory, h, h)
      BY <2>1, <2>2 DEF __list_del_entry, __list_del
    <3>3. Link(Link(Memory, h, h), h, h) = Link(Memory, h, h)
      <4>1. /\ [[Memory.next EXCEPT ![h] = h] EXCEPT ![h] = h] = [Memory.next EXCEPT ![h] = h]
            /\ [[Memory.prev EXCEPT ![h] = h] EXCEPT ![h] = h] = [Memory.prev EXCEPT ![h] = h]
        BY <1>1, <3>1
      <4> QED BY <4>1 DEF Link
    <3> QED BY <2>2, <3>2, <3>3 DEF INIT_LIST_HEAD
  <2>5. stale \ {h} = stale'
    BY <1>1, <1>2
  <2>6. Lists' = [Lists EXCEPT ![h] = << >>] /\ RepInv'
    BY <1>2, <2>3, <2>4, <2>5, Reaches
  <2> QED BY <2>6 DEF Abstract!Empty
<1>4. CASE ~list_empty(h)
  <2>1. 1 \in 1 .. Len(Lists[h]) /\ next[h] = Lists[h][1]
    BY <1>4, FirstItem
  <2>2. PICK j \in 1 .. Len(Lists[h]) : next[h] = Lists[h][j]
    BY <2>1
  <2>3. PICK i : i = next[h]
    OBVIOUS
  <2>4. i \in Items /\ i \in Cells /\ i \notin stale
    <3>1. i \in Items
      BY <1>1, <2>2, <2>3, Lens DEF RepInv
    <3> QED BY <1>1, <2>2, <2>3, <3>1 DEF RepInv, Rep, Cells
  <2> DEFINE T == [Lists EXCEPT ![h] = RemoveAt(Lists[h], j)]
             d == __list_del_entry(Memory, i)
  <2>5. Rep(d, stale \cup {i}, T)
    BY <1>1, <2>2, <2>3, TakenOut DEF RepInv
  <2> HIDE DEF T, d
  <2>6. Pointers(d) /\ ~IsOn(T, stale \cup {i}, i)
    <3>1. i \in stale \cup {i}
      OBVIOUS
    <3> QED BY <2>4, <2>5, <3>1, LooseFree DEF Rep
  <2>7. PICK w : w = INIT_LIST_HEAD(d, i)
    OBVIOUS
  <2>8. /\ Pointers(w) /\ \A c \in Cells \ {i} : w.next[c] = d.next[c] /\ w.prev[c] = d.prev[c]
        /\ w.next[i] = i
    BY <2>4, <2>6, <2>7, PoisonedIs
  <2>9. Rep(w, stale', T)
    <3>1. stale' \ {i} = (stale \cup {i}) \ {i}
      BY <1>2
    <3> QED BY <2>4, <2>5, <2>6, <2>8, <3>1, FreeKeeps
  <2>10. Lists' = T /\ RepInv'
    BY <1>2, <2>3, <2>7, <2>9, Reaches DEF d
  <2>11. Lists' = [Lists EXCEPT ![h] = Abstract!RemoveAt(@, j)]
    BY <2>10, SameEdits, Zenon DEF T
  <2> QED BY <2>10, <2>11 DEF Abstract!Delete
<1> QED BY <1>3, <1>4

LEMMA CutSteps ==
    ASSUME RepInv, NEW list \in Heads, NEW h \in LiveHeads, NEW entry \in Entries(h), h # list,
           list_cut_position(list, h, entry)
    PROVE  RepInv' /\ \E k \in 0 .. Len(Lists[h]) : Abstract!Cut(list, h, k)
<1>1. /\ h \in Heads \ stale /\ ~list_empty(h) /\ stale' = stale \ {list}
      /\ ~(next[h] = prev[h] /\ next[h] # entry /\ h # entry)
      /\ list \in stale \/ Memory.next[list] = list
  BY ListsAre DEF list_cut_position, MayCut, list_is_singular, list_empty, Memory
<1>2. Lists[h] \in Seq(Items) /\ Len(Lists[h]) \in Nat /\ Lists = [f \in Heads |-> Lists[f]] /\ Lists[list] \in {None, << >>}
  <2>1. Lists[h] \in Seq(Items) /\ Len(Lists[h]) \in Nat /\ Lists = [f \in Heads |-> Lists[f]]
    BY <1>1, ListsAre, Lens DEF RepInv
  <2>2. list \in stale => Lists[list] = None
    BY DEF Lists
  <2>3. list \notin stale => Lists[list] = << >>
    BY <1>1, Ends DEF RepInv
  <2> QED BY <2>1, <2>2, <2>3
<1>3. CASE entry = h
  <2>1. Becomes(INIT_LIST_HEAD(Memory, list))
    BY <1>3 DEF list_cut_position
  <2>2. Rep(INIT_LIST_HEAD(Memory, list), stale \ {list}, [Lists EXCEPT ![list] = << >>])
    BY <1>1, HeadKeeps DEF RepInv
  <2>3. Lists' = [Lists EXCEPT ![list] = << >>] /\ RepInv'
    BY <1>1, <2>1, <2>2, Reaches
  <2>4. SubSeq(Lists[h], 1, 0) = << >> /\ SubSeq(Lists[h], 0 + 1, Len(Lists[h])) = Lists[h]
    BY <1>2
  <2>5. PICK k \in 0 .. Len(Lists[h]) : k = 0
    BY <1>2
  <2>6. Lists' = [Lists EXCEPT ![list] = SubSeq(Lists[h], 1, k), ![h] = SubSeq(@, k + 1, Len(@))]
    BY <1>2, <2>3, <2>4, <2>5
  <2>7. Abstract!Cut(list, h, k)
    BY <1>2, <2>6, Zenon DEF Abstract!Cut
  <2> QED BY <2>3, <2>7
<1>4. CASE entry # h
  <2>1. Becomes(CutOff(Memory, list, h, entry))
    BY <1>4 DEF list_cut_position
  <2>2. PICK k \in 1 .. Len(Lists[h]) : entry = Lists[h][k]
    <3>1. CASE list_is_singular(h)
      <4>1. next[h] = entry
        BY <1>1, <1>4, <3>1 DEF list_is_singular
      <4> QED BY <1>1, <4>1, FirstItem
    <3>2. CASE ~list_is_singular(h)
      <4>1. entry \in Range(Forward(h))
        BY <1>4, <3>2 DEF Entries
      <4>2. Forward(h) = Lists[h] /\ DOMAIN Lists[h] = 1 .. Len(Lists[h])
        BY <1>1, <1>2, ForwardIs DEF RepInv
      <4> QED BY <4>1, <4>2 DEF Range
    <3> QED BY <3>1, <3>2
  <2>3. PICK u, v : u = SubSeq(Lists[h], 1, k) /\ v = SubSeq(Lists[h], k + 1, Len(Lists[h]))
    OBVIOUS
  <2>4. Halves(u, v, Lists[h], k)
    <3>1. k \in 0 .. Len(Lists[h])
      BY <1>2
    <3> QED BY <1>2, <2>3, <3>1, HalvesAre
  <2>5. PICK w : w = CutOff(Memory, list, h, entry)
    OBVIOUS
  <2>6. Rep(w, stale \ {list}, [Lists EXCEPT ![list] = u, ![h] = v])
    BY <1>1, <2>2, <2>4, <2>5, CutKeeps DEF RepInv
  <2>7. Lists' = [Lists EXCEPT ![list] = u, ![h] = v] /\ RepInv'
    BY <1>1, <2>1, <2>5, <2>6, Reaches
  <2>8. Lists' = [Lists EXCEPT ![list] = SubSeq(Lists[h], 1, k), ![h] = SubSeq(@, k + 1, Len(@))]
    BY <1>2, <2>3, <2>7, Zenon
  <2>9. Abstract!Cut(list, h, k)
    BY <1>2, <2>8, Zenon DEF Abstract!Cut
  <2>10. k \in 0 .. Len(Lists[h])
    BY <1>2
  <2> QED BY <2>7, <2>9, <2>10
<1> QED BY <1>3, <1>4

LEMMA SpliceSteps ==
    ASSUME RepInv, NEW list \in LiveHeads, NEW h \in LiveHeads, NEW front \in BOOLEAN, NEW init \in BOOLEAN,
           list_splice(list, h, front, init)
    PROVE  RepInv' /\ list # h /\ Abstract!Splice(list, h, front, init)
<1>1. h \in Heads \ stale /\ list \in Heads \ stale /\ list # h /\ ~list_empty(list)
  BY ListsAre DEF list_splice
<1>2. PICK s, r : s = Lists[h] /\ r = Lists[list]
  OBVIOUS
<1>3. /\ s \in Seq(Items) /\ Len(s) \in Nat /\ r \in Seq(Items) /\ r # << >> /\ Lists = [f \in Heads |-> Lists[f]]
      /\ 0 \in 0 .. Len(s) /\ Len(s) \in 0 .. Len(s)
  BY <1>1, <1>2, ListsAre, Lens, FirstItem DEF RepInv
<1>4. /\ h = Spot(h, s, 0) /\ next[h] = Spot(h, s, 0 + 1)
      /\ prev[h] = Spot(h, s, Len(s)) /\ h = Spot(h, s, Len(s) + 1)
  BY <1>1, <1>2, Ends, Spots DEF RepInv, Memory
<1>5. PICK u : u = IF front THEN r \o s ELSE s \o r
  OBVIOUS
<1>6. PICK w : w = IF front THEN Spliced(Memory, list, h, next[h]) ELSE Spliced(Memory, list, prev[h], h)
  OBVIOUS
<1> DEFINE T == [Lists EXCEPT ![h] = u, ![list] = None]
<1>7. Rep(w, stale \cup {list}, T)
  <2>1. Inlaid(r \o s, s, 0, r) /\ Inlaid(s \o r, s, Len(s), r)
    BY <1>3, InlaidEnds
  <2>2. CASE front
    <3>1. PICK k \in 0 .. Len(s) : k = 0
      BY <1>3
    <3>2. Inlaid(u, s, k, r)
      BY <1>5, <2>1, <2>2, <3>1
    <3>3. h = Spot(h, s, k) /\ next[h] = Spot(h, s, k + 1)
      BY <1>4, <3>1
    <3>4. w = Spliced(Memory, list, h, next[h])
      BY <1>6, <2>2
    <3> QED BY <1>1, <1>2, <1>3, <3>2, <3>3, <3>4, SpliceKeeps DEF RepInv
  <2>3. CASE ~front
    <3>1. PICK k \in 0 .. Len(s) : k = Len(s)
      BY <1>3
    <3>2. Inlaid(u, s, k, r)
      BY <1>5, <2>1, <2>3, <3>1
    <3>3. prev[h] = Spot(h, s, k) /\ h = Spot(h, s, k + 1)
      BY <1>4, <3>1
    <3>4. w = Spliced(Memory, list, prev[h], h)
      BY <1>6, <2>3
    <3> QED BY <1>1, <1>2, <1>3, <3>2, <3>3, <3>4, SpliceKeeps DEF RepInv
  <2> QED BY <2>2, <2>3
<1> HIDE DEF T
<1>8. CASE init
  <2>1. Becomes(INIT_LIST_HEAD(w, list)) /\ stale' = stale
    BY <1>6, <1>8 DEF list_splice
  <2>2. list \in stale \cup {list} /\ (stale \cup {list}) \ {list} = stale'
    BY <1>1, <2>1
  <2>3. Rep(INIT_LIST_HEAD(w, list), (stale \cup {list}) \ {list}, [T EXCEPT ![list] = << >>])
    <3>1. PICK st : st = stale \cup {list}
      OBVIOUS
    <3>2. Rep(w, st, T) /\ list \in st /\ list \in Heads
      BY <1>1, <1>7, <2>2, <3>1
    <3>3. Rep(INIT_LIST_HEAD(w, list), st \ {list}, [T EXCEPT ![list] = << >>])
      BY <3>2, HeadKeeps
    <3> QED BY <3>1, <3>3
  <2>4. Lists' = [T EXCEPT ![list] = << >>] /\ RepInv'
    BY <2>1, <2>2, <2>3, Reaches
  <2>5. Lists' = [Lists EXCEPT ![h] = u, ![list] = << >>]
    BY <1>1, <1>3, <2>4 DEF T
  <2>6. Lists' = [Lists EXCEPT ![h] = IF front THEN Lists[list] \o @ ELSE @ \o Lists[list],
                               ![list] = IF init THEN << >> ELSE None]
    BY <1>2, <1>5, <1>8, <2>5, Zenon
  <2> QED BY <1>1, <2>4, <2>6 DEF Abstract!Splice
<1>9. CASE ~init
  <2>1. Becomes(w) /\ stale' = stale \cup {list}
    BY <1>6, <1>9 DEF list_splice
  <2>2. Lists' = T /\ RepInv'
    BY <1>7, <2>1, Reaches
  <2>3. Lists' = [Lists EXCEPT ![h] = IF front THEN Lists[list] \o @ ELSE @ \o Lists[list],
                               ![list] = IF init THEN << >> ELSE None]
    BY <1>2, <1>5, <1>9, <2>2, Zenon DEF T
  <2> QED BY <1>1, <2>2, <2>3 DEF Abstract!Splice
<1> QED BY <1>8, <1>9

(* The calls that a loop's body may make, too. *)
LEMMA CalledSteps == ASSUME RepInv, NEW i, Listed(i), CallOn(i) PROVE RepInv' /\ Abstract!Next
<1>1. LiveHeads = Abstract!Live
  BY ListsAre
<1>2. ASSUME list_del(i) \/ list_del_init(i)
      PROVE  RepInv' /\ Abstract!Next
  BY <1>1, <1>2, DeleteSteps DEF Abstract!Next
<1>3. ASSUME NEW new \in Items \ {i}, list_replace(i, new) \/ list_replace_init(i, new)
      PROVE  RepInv' /\ Abstract!Next
  BY <1>1, <1>3, ReplaceSteps DEF Abstract!Next
<1>4. ASSUME NEW h \in LiveHeads, list_move(i, h) \/ list_move_tail(i, h)
      PROVE  RepInv' /\ Abstract!Next
  BY <1>1, <1>4, MoveSteps DEF Abstract!Next
<1> QED BY <1>2, <1>3, <1>4 DEF CallOn

(* A step that leaves the memory alone leaves the lists alone. *)
LEMMA StillSteps == ASSUME RepInv, UNCHANGED <<next, prev, stale>> PROVE RepInv' /\ UNCHANGED Lists
  BY DEF RepInv, Rep, Lists, Memory, Forward

LEMMA ListsStep == RepInv /\ [Next]_vars => RepInv' /\ [Abstract!Next]_Lists
<1> SUFFICES ASSUME RepInv, [Next]_vars PROVE RepInv' /\ [Abstract!Next]_Lists
  OBVIOUS
<1>0. LiveHeads = Abstract!Live
  BY ListsAre
<1>1. ASSUME NEW h \in Heads, init_head(h) PROVE RepInv' /\ Abstract!Next
  BY <1>1, InitHeadSteps DEF Abstract!Next
<1>2. ASSUME NEW i \in Items, NEW cell \in LiveHeads \cup {c \in Items : Listed(c)}, i # cell,
             list_add(i, cell)
      PROVE  RepInv' /\ Abstract!Next
  BY <1>0, <1>2, AddSteps DEF Abstract!Next
<1>3. ASSUME NEW i \in Items, NEW h \in LiveHeads, list_add_tail(i, h) PROVE RepInv' /\ Abstract!Next
  BY <1>0, <1>3, AddTailSteps DEF Abstract!Next
<1>4. ASSUME NEW i, Listed(i), CallOn(i) PROVE RepInv' /\ Abstract!Next
  BY <1>4, CalledSteps
<1>5. ASSUME NEW h \in LiveHeads, list_rotate_left(h) PROVE RepInv' /\ Abstract!Next
  BY <1>0, <1>5, RotateSteps DEF Abstract!Next
<1>6. ASSUME NEW h \in LiveHeads, out_queue(h) PROVE RepInv' /\ Abstract!Next
  <2>1. h \in Heads
    BY ListsAre
  <2> QED BY <1>0, <1>6, <2>1, OutQueueSteps DEF Abstract!Next
<1>7. ASSUME NEW list \in Heads, NEW h \in LiveHeads, NEW entry \in Entries(h), h # list,
             list_cut_position(list, h, entry)
      PROVE  RepInv' /\ Abstract!Next
  BY <1>0, <1>7, CutSteps DEF Abstract!Next
<1>8. ASSUME NEW list \in LiveHeads, NEW h \in LiveHeads, NEW front \in BOOLEAN,
             NEW init \in BOOLEAN, list_splice(list, h, front, init)
      PROVE  RepInv' /\ Abstract!Next
  BY <1>0, <1>8, SpliceSteps DEF Abstract!Next
<1>9. ASSUME \/ \E h \in LiveHeads : LoopStart(h)
             \/ LoopStep \/ LoopEnd \/ UNCHANGED vars
      PROVE  RepInv' /\ UNCHANGED Lists
  BY <1>9, StillSteps DEF LoopStart, LoopStep, LoopEnd, vars
<1>10. CursorListed /\ CallOn(loop.pos) => RepInv' /\ Abstract!Next
  BY CalledSteps DEF CursorListed
<1> QED
  BY <1>1, <1>2, <1>3, <1>4, <1>5, <1>6, <1>7, <1>8, <1>9, <1>10 DEF Next

(* Whatever the heads and the items are, each call edits the lists as its name says. *)
THEOREM ListsAreEdited == Spec => ListsImplemented
<1>1. Init => RepInv /\ Abstract!Init
  <2>1. Init => Lists = [h \in Heads |-> None]
    BY DEF Init, Lists, Cells
  <2> QED BY <2>1, RepInit DEF Abstract!Init
<1> QED
  BY <1>1, ListsStep, PTL DEF Spec, ListsImplemented, Abstract!Spec

(* The items of t from behind its place d on are those that a loop l has still to visit. *)
Remains(l, t, d) ==
    LET v == Len(l.visited)
        rest == Len(l.first) - v
    IN /\ d \in Nat /\ Len(t) = d + rest
       /\ \A j \in 1 .. rest : t[d + j] = l.first[v + j]
       /\ l.n = Spot(l.head, t, d + 1)
       /\ \A j \in 1 .. Len(t) : t[j] = l.pos => j = d

(* A loop that has begun visited the first items of those there were at its start, in *)
(* order, and the others are still at the end of its list, behind the cursor.         *)
Going ==
    /\ loop = [head |-> loop.head, pos |-> loop.pos, n |-> loop.n,
               visited |-> loop.visited, first |-> loop.first]
    /\ loop.head \in LiveHeads
    /\ loop.first \in Seq(Items) /\ loop.visited \in Seq(Items)
    /\ Len(loop.visited) \in 1 .. Len(loop.first)
    /\ \A j \in 1 .. Len(loop.visited) : loop.visited[j] = loop.first[j]
    /\ loop.pos = loop.first[Len(loop.visited)]
    /\ \E d \in Nat : Remains(loop, Lists[loop.head], d)

RoundInv == RepInv /\ (Idle \/ Going)

LEMMA StartGoes ==
    ASSUME RepInv, NEW h \in LiveHeads, LoopStart(h)
    PROVE  RepInv' /\ Going'
<1>1. RepInv' /\ Lists' = Lists /\ LiveHeads' = LiveHeads
  BY StillSteps DEF LoopStart, LiveHeads
<1>2. PICK s : s = Lists[h]
  OBVIOUS
<1>3. h \in Heads \ stale /\ s \in Seq(Items) /\ Forward(h) = s /\ 1 \in 1 .. Len(s) /\ next[h] = s[1]
  BY <1>2, ListsAre, ForwardIs, FirstItem DEF RepInv, LoopStart
<1>4. PICK a \in Nat : a = Len(s) /\ 1 \in 1 .. a /\ 1 \in 0 .. a
  BY <1>3
<1>5. next[s[1]] = Spot(h, s, 1 + 1)
  <2>1. s[1] = Spot(h, s, 1)
    BY <1>3 DEF Spot
  <2>2. Memory.next[Spot(h, s, 1)] = Spot(h, s, 1 + 1)
    BY <1>2, <1>3, <1>4, Around DEF RepInv
  <2> QED BY <2>1, <2>2 DEF Memory
<1>6. s[1] \in Items /\ \A j \in 1 .. a : s[j] = s[1] => j = 1
  BY <1>2, <1>3, <1>4 DEF RepInv, Rep, Ring
<1>7. loop' = [head |-> h, pos |-> s[1], n |-> Spot(h, s, 1 + 1), visited |-> << s[1] >>, first |-> s]
  BY <1>3, <1>5 DEF LoopStart
<1>8. << s[1] >> \in Seq(Items) /\ Len(<< s[1] >>) = 1 /\ << s[1] >>[1] = s[1]
  BY <1>6
<1>9. PICK u : u = << s[1] >>
  OBVIOUS
<1>10. /\ loop'.head = h /\ loop'.pos = s[1] /\ loop'.n = Spot(h, s, 1 + 1) /\ loop'.visited = u
       /\ loop'.first = s
       /\ loop' = [head |-> h, pos |-> s[1], n |-> Spot(h, s, 1 + 1), visited |-> u, first |-> s]
  BY <1>7, <1>9
<1>11. u \in Seq(Items) /\ Len(u) = 1 /\ u[1] = s[1]
  BY <1>8, <1>9
<1>12. Remains(loop', s, 1)
  <2>1. a = 1 + (a - 1) /\ \A j \in 1 .. a - 1 : s[1 + j] = s[1 + j]
    BY <1>4
  <2> QED BY <1>4, <1>6, <1>10, <1>11, <2>1 DEF Remains
<1>13. \A j \in 1 .. Len(u) : u[j] = s[j]
  BY <1>11
<1> QED BY <1>1, <1>2, <1>3, <1>4, <1>10, <1>11, <1>12, <1>13 DEF Going

LEMMA Advanced ==
    ASSUME NEW l, NEW h, NEW p, NEW n, NEW u, NEW f, NEW q, NEW k, NEW w,
           l = [head |-> h, pos |-> p, n |-> n, visited |-> u, first |-> f]
    PROVE  [l EXCEPT !.pos = q, !.n = k, !.visited = w] =
           [head |-> h, pos |-> q, n |-> k, visited |-> w, first |-> f]
<1>1. PICK m : m = [l EXCEPT !.pos = q, !.n = k, !.visited = w]
  OBVIOUS
<1>2. /\ DOMAIN m = {"head", "pos", "n", "visited", "first"}
      /\ m.head = h /\ m.pos = q /\ m.n = k /\ m.visited = w /\ m.first = f
  BY <1>1
<1> QED BY <1>1, <1>2

LEMMA StepGoes ==
    ASSUME RepInv, Going, LoopStep
    PROVE  RepInv' /\ Going'
<1>1. RepInv' /\ Lists' = Lists /\ LiveHeads' = LiveHeads
  BY StillSteps DEF LoopStep, LiveHeads
<1>2. PICK h, s, f, u : h = loop.head /\ s = Lists[h] /\ f = loop.first /\ u = loop.visited
  OBVIOUS
<1>3. /\ h \in Heads \ stale /\ s \in Seq(Items) /\ f \in Seq(Items) /\ u \in Seq(Items)
      /\ \A j, k \in 1 .. Len(s) : s[j] = s[k] => j = k
  BY <1>2, ListsAre DEF Going, RepInv, Rep, Ring
<1>4. PICK d \in Nat : Remains(loop, s, d)
  BY <1>2 DEF Going
<1>5. PICK v, b \in Nat : v = Len(u) /\ b = Len(f) /\ v \in 1 .. b /\ \A j \in 1 .. v : u[j] = f[j]
  BY <1>2, <1>3 DEF Going
<1>6. /\ Len(s) = d + (b - v) /\ \A j \in 1 .. b - v : s[d + j] = f[v + j]
      /\ loop.n = Spot(h, s, d + 1)
  BY <1>2, <1>4, <1>5 DEF Remains
<1>7. v + 1 \in 1 .. b /\ d + 1 \in 1 .. Len(s)
  <2>1. loop.n # h
    BY <1>2 DEF LoopStep, Successor
  <2>2. d + 1 \in 1 .. Len(s)
    BY <1>6, <2>1 DEF Spot
  <2> QED BY <1>5, <1>6, <2>2
<1>8. loop.n = s[d + 1] /\ s[d + 1] = f[v + 1] /\ s[d + 1] \in Items
  <2>1. 1 \in 1 .. b - v
    BY <1>5, <1>7
  <2> QED BY <1>3, <1>6, <1>7, <2>1 DEF Spot
<1>9. next[loop.n] = Spot(h, s, (d + 1) + 1)
  <2>1. d + 1 \in 0 .. Len(s)
    BY <1>7
  <2>2. Memory.next[Spot(h, s, d + 1)] = Spot(h, s, (d + 1) + 1)
    BY <1>2, <1>3, <2>1, Around DEF RepInv
  <2> QED BY <1>6, <2>2 DEF Memory
<1>10. PICK w : w = Append(u, s[d + 1])
  OBVIOUS
<1>11. w \in Seq(Items) /\ Len(w) = v + 1 /\ \A j \in 1 .. v + 1 : w[j] = f[j]
  <2>1. w \in Seq(Items) /\ Len(w) = v + 1 /\ \A j \in 1 .. v + 1 : w[j] = IF j = v + 1 THEN s[d + 1] ELSE u[j]
    BY <1>3, <1>5, <1>8, <1>10
  <2> QED BY <1>5, <1>8, <2>1
<1>12. loop' = [head |-> h, pos |-> s[d + 1], n |-> Spot(h, s, (d + 1) + 1), visited |-> w, first |-> f]
  <2>1. PICK p, n : loop = [head |-> h, pos |-> p, n |-> n, visited |-> u, first |-> f]
    BY <1>2, Zenon DEF Going
  <2>2. loop' = [loop EXCEPT !.pos = loop.n, !.n = next[loop.n], !.visited = Append(u, loop.n)]
    BY <1>2 DEF LoopStep, Successor
  <2>3. loop.n = s[d + 1] /\ next[loop.n] = Spot(h, s, (d + 1) + 1) /\ Append(u, loop.n) = w
    BY <1>8, <1>9, <1>10
  <2>4. loop' = [loop EXCEPT !.pos = s[d + 1], !.n = Spot(h, s, (d + 1) + 1), !.visited = w]
    BY <2>2, <2>3
  <2> QED BY <2>1, <2>4, Advanced, Zenon
<1>13. /\ loop'.head = h /\ loop'.pos = s[d + 1] /\ loop'.n = Spot(h, s, (d + 1) + 1) /\ loop'.visited = w
       /\ loop'.first = f
  BY <1>12
<1>14. Remains(loop', s, d + 1)
  <2>1. d + 1 \in Nat /\ Len(s) = (d + 1) + (b - (v + 1))
    BY <1>5, <1>6
  <2>2. \A j \in 1 .. b - (v + 1) : s[(d + 1) + j] = f[(v + 1) + j]
    <3>1. ASSUME NEW j \in 1 .. b - (v + 1)
          PROVE  s[(d + 1) + j] = f[(v + 1) + j]
      <4>1. PICK i \in 1 .. b - v : i = j + 1
        BY <1>5
      <4>2. d + i = (d + 1) + j /\ v + i = (v + 1) + j
        BY <1>5, <4>1
      <4>3. s[d + i] = f[v + i]
        BY <1>6
      <4> QED BY <4>2, <4>3
    <3> QED BY <3>1
  <2>3. \A j \in 1 .. Len(s) : s[j] = s[d + 1] => j = d + 1
    BY <1>3, <1>7
  <2> QED BY <1>5, <1>11, <1>13, <2>1, <2>2, <2>3 DEF Remains
<1>15. h \in LiveHeads /\ Lists'[h] = s /\ loop'.pos = f[v + 1]
  BY <1>1, <1>2, <1>8, <1>13 DEF Going
<1>16. d + 1 \in Nat
  BY <1>4
<1> QED BY <1>1, <1>3, <1>5, <1>7, <1>11, <1>12, <1>13, <1>14, <1>15, <1>16 DEF Going

(* What is behind the place d of a sequence of length a is at the end of it. *)
IsBehind(a, d, rest) ==
    /\ d - 1 \in Nat /\ d \in Nat /\ a - 1 = (d - 1) + rest /\ (d - 1) + 1 = d /\ d \in 0 .. a
    /\ \A j \in 1 .. rest : /\ (d - 1) + j \in 1 .. a - 1 /\ ~((d - 1) + j < d) /\ (d - 1) + j + 1 = d + j
                            /\ d + j \in 1 .. a /\ d + j # d
    /\ \A j \in 1 .. a - 1 : j \in 1 .. a /\ j + 1 \in 1 .. a /\ (j < d => j # d) /\ (~(j < d) => j + 1 # d)
    /\ d + 1 # d /\ d + 1 \in Int

LEMMA Behind ==
    ASSUME NEW a \in Nat, NEW d \in 1 .. a, NEW rest \in Nat, a = d + rest
    PROVE  IsBehind(a, d, rest)
  BY DEF IsBehind

(* Sequences that differ at the place d, or only have no such place, end alike. *)
LEMMA RestStays ==
    ASSUME NEW s \in Seq(Items), NEW a \in Nat, a = Len(s), NEW d \in 1 .. a, NEW l, Remains(l, s, d),
           NEW rest \in Nat, rest = Len(l.first) - Len(l.visited), s[d] = l.pos
    PROVE  /\ \A t : Narrowed(t, s, d) => \E c \in Nat : Remains(l, t, c)
           /\ \A i \in Items \ {l.pos} : Remains(l, [s EXCEPT ![d] = i], d)
<1>1. PICK v, f, pos : v = Len(l.visited) /\ f = l.first /\ pos = l.pos
  OBVIOUS
<1>2. /\ a = d + rest /\ \A j \in 1 .. rest : s[d + j] = f[v + j]
      /\ l.n = Spot(l.head, s, d + 1)
      /\ \A j \in 1 .. a : s[j] = pos => j = d
  BY <1>1 DEF Remains
<1>3. \A t, c : Remains(l, t, c) <=>
         /\ c \in Nat /\ Len(t) = c + rest
         /\ \A j \in 1 .. rest : t[c + j] = f[v + j]
         /\ l.n = Spot(l.head, t, c + 1)
         /\ \A j \in 1 .. Len(t) : t[j] = pos => j = c
  BY <1>1, Zenon DEF Remains
<1>4. /\ d - 1 \in Nat /\ d \in Nat /\ a - 1 = (d - 1) + rest /\ (d - 1) + 1 = d /\ d \in 0 .. a
      /\ \A j \in 1 .. rest : /\ (d - 1) + j \in 1 .. a - 1 /\ ~((d - 1) + j < d) /\ (d - 1) + j + 1 = d + j
                              /\ d + j \in 1 .. a /\ d + j # d
      /\ \A j \in 1 .. a - 1 : j \in 1 .. a /\ j + 1 \in 1 .. a /\ (j < d => j # d) /\ (~(j < d) => j + 1 # d)
      /\ d + 1 # d /\ d + 1 \in Int
  <2>1. IsBehind(a, d, rest)
    BY <1>2, Behind
  <2> QED BY <2>1, Zenon DEF IsBehind
<1>5. ASSUME NEW t, Narrowed(t, s, d)
      PROVE  Remains(l, t, d - 1)
  <2>1. Len(t) = a - 1 /\ \A j \in 1 .. a - 1 : t[j] = IF j < d THEN s[j] ELSE s[j + 1]
    BY <1>5 DEF Narrowed
  <2>2. \A j \in 0 .. a : Spot(l.head, t, j) = IF j < d THEN Spot(l.head, s, j) ELSE Spot(l.head, s, j + 1)
    BY <1>5 DEF Narrowed
  <2>3. l.n = Spot(l.head, t, (d - 1) + 1)
    BY <1>2, <1>4, <2>2
  <2>4. ASSUME NEW j \in 1 .. rest
        PROVE  t[(d - 1) + j] = f[v + j]
    <3>1. PICK i : i = (d - 1) + j
      OBVIOUS
    <3>2. i \in 1 .. a - 1 /\ ~(i < d) /\ i + 1 = d + j
      BY <1>4, <3>1
    <3>3. t[i] = s[i + 1]
      BY <2>1, <3>2
    <3> QED BY <1>2, <3>1, <3>2, <3>3
  <2>5. ASSUME NEW j \in 1 .. a - 1
        PROVE  t[j] # pos
    <3>1. j \in 1 .. a /\ j + 1 \in 1 .. a /\ (j < d => j # d) /\ (~(j < d) => j + 1 # d)
      BY <1>4, Zenon
    <3> QED BY <1>2, <2>1, <3>1, Zenon
  <2> QED BY <1>3, <1>4, <2>1, <2>3, <2>4, <2>5, Zenon
<1>6. ASSUME NEW i \in Items \ {pos}
      PROVE  Remains(l, [s EXCEPT ![d] = i], d)
  <2>1. PICK t : t = [s EXCEPT ![d] = i]
    OBVIOUS
  <2>2. Len(t) = a /\ \A j \in 1 .. a : t[j] = IF j = d THEN i ELSE s[j]
    BY <2>1
  <2>3. l.n = Spot(l.head, t, d + 1)
    BY <1>2, <1>4, <2>2 DEF Spot
  <2>4. \A j \in 1 .. rest : t[d + j] = f[v + j]
    BY <1>2, <1>4, <2>2, Zenon
  <2>5. \A j \in 1 .. Len(t) : t[j] = pos => j = d
    BY <1>2, <2>2, Zenon
  <2> QED BY <1>2, <1>3, <1>4, <2>1, <2>2, <2>3, <2>4, <2>5, Zenon
<1> QED BY <1>1, <1>4, <1>5, <1>6

(* A call on the cursor, or on any item while there is no loop. *)
LEMMA BodyGoes ==
    ASSUME RepInv, Going, CursorListed, CallOn(loop.pos)
    PROVE  RepInv' /\ Going'
<1>1. PICK h, s, i : h = loop.head /\ s = Lists[h] /\ i = loop.pos
  OBVIOUS
<1>2. /\ h \in Heads \ stale /\ h \in LiveHeads /\ s \in Seq(Items) /\ Forward(h) = s /\ Len(s) \in Nat
      /\ Lists = [g \in Heads |-> Lists[g]]
  BY <1>1, ListsAre, ForwardIs DEF Going, RepInv
<1>3. PICK d \in Nat : Remains(loop, s, d)
  BY <1>1 DEF Going
<1>4. Len(loop.first) - Len(loop.visited) \in Nat
  <2>1. Len(loop.first) \in Nat /\ Len(loop.visited) \in 1 .. Len(loop.first)
    BY DEF Going
  <2> QED BY <2>1
<1>5. d \in 1 .. Len(s) /\ s[d] = i
  <2>1. \E j \in 1 .. Len(s) : s[j] = i
    <3>1. i \in Range(s)
      BY <1>1, <1>2 DEF CursorListed
    <3>2. DOMAIN s = 1 .. Len(s)
      BY <1>2
    <3> QED BY <3>1, <3>2 DEF Range
  <2> QED BY <1>1, <2>1, <1>3 DEF Remains
<1>6. UNCHANGED loop /\ RepInv'
  <2>1. UNCHANGED loop
    BY DEF CallOn, list_del, list_del_init, list_replace, list_replace_init, list_move, list_move_tail
  <2> QED BY <2>1, CalledSteps DEF CursorListed
<1>7. /\ \A t : Narrowed(t, s, d) => \E c \in Nat : Remains(loop', t, c)
      /\ \A new \in Items \ {i} : Remains(loop', [s EXCEPT ![d] = new], d)
  BY <1>1, <1>2, <1>3, <1>4, <1>5, <1>6, RestStays
<1>8. Narrowed(RemoveAt(s, d), s, d)
  BY <1>2, <1>5, RemoveIs
<1>9. h \in LiveHeads'
  <2>1. i \in Items /\ h \notin Items
    BY <1>1, <1>2, ListAssumption DEF CursorListed, Listed
  <2>2. stale' \subseteq stale \cup Items
    BY <1>1, <2>1 DEF CallOn, list_del, list_del_init, list_replace, list_replace_init, list_move, list_move_tail
  <2> QED BY <1>2, <2>1, <2>2 DEF LiveHeads
<1>10. \E c \in Nat : Remains(loop', Lists'[h], c)
  <2>1. CASE list_del(i) \/ list_del_init(i)
    <3>1. Lists' = [Lists EXCEPT ![h] = RemoveAt(@, d)]
      BY <1>1, <1>2, <1>5, <2>1, DeletePlace
    <3>2. Lists'[h] = RemoveAt(s, d)
      BY <1>1, <1>2, <3>1, Zenon
    <3> QED BY <1>7, <1>8, <3>2
  <2>2. ASSUME NEW new \in Items \ {i}, list_replace(i, new) \/ list_replace_init(i, new)
        PROVE  \E c \in Nat : Remains(loop', Lists'[h], c)
    <3>1. Lists' = [Lists EXCEPT ![h][d] = new]
      <4>1. h \in LiveHeads /\ d \in 1 .. Len(Lists[h]) /\ i = Lists[h][d]
        BY <1>1, <1>2, <1>5
      <4> QED BY <2>2, <4>1, ReplacePlace
    <3>2. Lists'[h] = [s EXCEPT ![d] = new]
      BY <1>1, <1>2, <3>1, Zenon
    <3> QED BY <1>3, <1>7, <3>2
  <2>3. ASSUME NEW g \in LiveHeads \ {h}, list_move(i, g) \/ list_move_tail(i, g)
        PROVE  \E c \in Nat : Remains(loop', Lists'[h], c)
    <3>1. PICK front \in BOOLEAN : Abstract!Move(h, d, g, front)
      BY <1>1, <1>2, <1>5, <2>3, MoveKeeps
    <3>2. Lists'[h] = Abstract!RemoveAt(s, d)
      BY <1>1, <1>2, <2>3, <3>1, Zenon DEF Abstract!Move
    <3>3. Lists'[h] = RemoveAt(s, d)
      BY <3>2, SameEdits
    <3> QED BY <1>7, <1>8, <3>3
  <2> QED BY <1>1, <2>1, <2>2, <2>3 DEF CallOn
<1> QED
  <2>1. loop'.head = h /\ Going /\ UNCHANGED loop
    BY <1>1, <1>6
  <2>2. \E c \in Nat : Remains(loop', Lists'[loop'.head], c)
    BY <1>10, <2>1
  <2> QED BY <1>6, <1>9, <2>1, <2>2 DEF Going

(* Each step but the last keeps a loop going, and the last has visited all. *)
LEMMA RoundStep == RoundInv /\ [Next]_vars => /\ RoundInv'
                                              /\ ~Idle /\ loop' = NoLoop => loop.visited = loop.first
<1> SUFFICES ASSUME RoundInv, [Next]_vars
             PROVE  /\ RoundInv'
                    /\ ~Idle /\ loop' = NoLoop => loop.visited = loop.first
  OBVIOUS
<1>1. RepInv /\ RepInv'
  BY ListsStep DEF RoundInv
<1>2. Going => ~Idle
  <2>1. NoLoop.head = NULL
    BY DEF NoLoop
  <2> QED BY <2>1, ListAssumption DEF Going, Idle, LiveHeads
<1>3. ASSUME Idle, UNCHANGED loop PROVE RoundInv'
  BY <1>1, <1>3 DEF RoundInv, Idle
<1>4. ASSUME Going' PROVE RoundInv' /\ loop' # NoLoop
  <2>1. NoLoop.head = NULL
    BY DEF NoLoop
  <2>2. loop'.head \in Heads
    BY <1>4 DEF Going, LiveHeads
  <2> QED BY <1>1, <1>4, <2>1, <2>2, ListAssumption DEF RoundInv
<1>5. CASE Idle
  <2>1. UNCHANGED loop \/ \E h \in LiveHeads : LoopStart(h)
    BY <1>5, Zenon
       DEF Next, vars, CallOn, init_head, list_add, list_add_tail, list_del, list_del_init, list_replace,
           list_replace_init, list_move, list_move_tail, list_rotate_left, out_queue, list_cut_position,
           list_splice, CursorListed, LoopStep, LoopEnd
  <2> QED BY <1>1, <1>3, <1>4, <1>5, <2>1, StartGoes
<1>6. CASE Going
  <2>1. \/ CursorListed /\ CallOn(loop.pos)
        \/ LoopStep \/ LoopEnd \/ UNCHANGED vars
    BY <1>2, <1>6, Zenon
       DEF Next, init_head, list_add, list_add_tail, list_rotate_left, out_queue, list_cut_position,
           list_splice, LoopStart
  <2>2. CASE UNCHANGED vars
    <3>1. Lists' = Lists /\ LiveHeads' = LiveHeads /\ UNCHANGED loop
      BY <1>1, <2>2, StillSteps DEF vars, LiveHeads
    <3>2. Going'
      BY <1>6, <3>1 DEF Going, Remains
    <3> QED BY <1>4, <3>2
  <2>3. CASE LoopEnd
    <3>1. loop' = NoLoop /\ loop.n \in {loop.head, NULL}
      BY <2>3 DEF LoopEnd, Successor
    <3>2. PICK h, s, f, u : h = loop.head /\ s = Lists[h] /\ f = loop.first /\ u = loop.visited
      OBVIOUS
    <3>3. h \in Heads /\ s \in Seq(Items) /\ f \in Seq(Items) /\ u \in Seq(Items)
      BY <1>1, <1>6, <3>2, ListsAre DEF Going, LiveHeads
    <3>4. PICK v, b \in Nat : v = Len(u) /\ b = Len(f) /\ v \in 1 .. b /\ \A j \in 1 .. v : u[j] = f[j]
      BY <1>6, <3>2, <3>3 DEF Going
    <3>5. PICK d \in Nat : Len(s) = d + (b - v) /\ loop.n = Spot(h, s, d + 1)
      BY <1>6, <3>2, <3>4 DEF Going, Remains
    <3>6. ~(d + 1 \in 1 .. Len(s))
      BY <3>1, <3>2, <3>3, <3>5, ListAssumption DEF Spot
    <3>7. v = b
      BY <3>4, <3>5, <3>6
    <3>8. u = f
      BY <3>3, <3>4, <3>7, SeqEqualItems
    <3> QED BY <1>1, <3>1, <3>2, <3>8 DEF RoundInv, Idle
  <2> QED BY <1>1, <1>4, <1>6, <2>1, <2>2, <2>3, StepGoes, BodyGoes
<1> QED BY <1>5, <1>6 DEF RoundInv

(* A loop that may take its cursor off the list visits every item there was. *)
THEOREM SafeLoopsVisitAll == Spec => SafeLoopVisitsAll
<1>1. Init => RoundInv
  BY RepInit DEF RoundInv, Init, Idle
<1>2. RoundInv /\ [Next]_vars => [~Idle /\ loop' = NoLoop => loop.visited = loop.first]_vars
  BY RoundStep
<1> QED
  BY <1>1, <1>2, RoundStep, PTL DEF Spec, SafeLoopVisitsAll

(* Followed by prev, a list is the same the other way round. *)
LEMMA BackwardIs ==
    ASSUME RepInv, NEW h \in LiveHeads
    PROVE  Backward(h) = Reverse(Forward(h))
<1>1. PICK s : s = Lists[h]
  OBVIOUS
<1>2. /\ h \in Heads \ stale /\ s \in Seq(Items) /\ Forward(h) = s
      /\ \A j, k \in 1 .. Len(s) : s[j] = s[k] => j = k
      /\ \A k \in 0 .. Len(s) : prev[Spot(h, s, k + 1)] = Spot(h, s, k)
  BY <1>1, ListsAre, ForwardIs DEF RepInv, Rep, Ring, Memory
<1>3. PICK b \in Nat : b = Len(s)
  BY <1>2
<1>4. \A j \in 1 .. b : s[j] \in Items
  BY <1>2, <1>3
<1>5. PICK r : r = [j \in 1 .. b |-> s[(b - j) + 1]]
  OBVIOUS
<1>6. r \in Seq(Items) /\ Len(r) = b /\ \A j \in 1 .. b : r[j] = s[(b - j) + 1]
  <2>1. \A j \in 1 .. b : (b - j) + 1 \in 1 .. b
    OBVIOUS
  <2> QED BY <1>3, <1>4, <1>5, <2>1
<1>7. Reverse(s) = r
  BY <1>3, <1>5, Zenon DEF Reverse
<1>8. ASSUME NEW j \in 1 .. b, NEW k \in 1 .. b, r[j] = r[k]
      PROVE  j = k
  <2>1. (b - j) + 1 \in 1 .. Len(s) /\ (b - k) + 1 \in 1 .. Len(s)
    BY <1>3
  <2>2. (b - j) + 1 = (b - k) + 1
    BY <1>2, <1>6, <1>8, <2>1
  <2> QED BY <2>2
<1>9. ASSUME NEW k \in 0 .. b
      PROVE  prev[Spot(h, r, k)] = Spot(h, r, k + 1)
  <2>1. \A j \in 0 .. b + 1 : Spot(h, r, j) = Spot(h, s, (b - j) + 1)
    BY <1>3, <1>6 DEF Spot
  <2>2. PICK i \in 0 .. Len(s) : i = b - k /\ i + 1 = (b - k) + 1 /\ i = (b - (k + 1)) + 1
    BY <1>3
  <2>3. Spot(h, r, k) = Spot(h, s, i + 1) /\ Spot(h, r, k + 1) = Spot(h, s, i)
    <3>1. k \in 0 .. b + 1 /\ k + 1 \in 0 .. b + 1
      OBVIOUS
    <3> QED BY <2>1, <2>2, <3>1
  <2> QED BY <1>2, <2>2, <2>3
<1>10. Along(prev, h) = r
  <2>1. \A j, k \in 1 .. Len(r) : r[j] = r[k] => j = k
    BY <1>6, <1>8
  <2>2. \A k \in 0 .. Len(r) : prev[Spot(h, r, k)] = Spot(h, r, k + 1)
    BY <1>6, <1>9
  <2>3. h \in Heads /\ r \in Seq(Items)
    BY <1>2, <1>6
  <2> QED BY <2>1, <2>2, <2>3, AlongIs, Zenon
<1> QED BY <1>2, <1>7, <1>10 DEF Backward

(* Every list reads the same backwards, and no item is on two lists or twice on one. *)
THEOREM ListsReadBothWays == Spec => []ListsAreLists
<1>1. RepInv => ListsAreLists
  <2> SUFFICES ASSUME RepInv, NEW h \in LiveHeads
               PROVE  /\ Backward(h) = Reverse(Forward(h))
                      /\ Range(Forward(h)) \subseteq Items
                      /\ IsInjective(Forward(h))
                      /\ \A g \in LiveHeads \ {h} : Range(Forward(h)) \cap Range(Forward(g)) = {}
    BY DEF ListsAreLists
  <2>1. \A g \in LiveHeads : /\ g \in Heads \ stale /\ Lists[g] \in Seq(Items) /\ Forward(g) = Lists[g]
                             /\ DOMAIN Lists[g] = 1 .. Len(Lists[g])
    BY ListsAre, ForwardIs DEF RepInv
  <2>2. Range(Forward(h)) \subseteq Items
    BY <2>1 DEF Range
  <2>3. IsInjective(Forward(h))
    BY <2>1 DEF IsInjective, RepInv, Rep, Ring
  <2>4. \A g \in LiveHeads \ {h} : Range(Forward(h)) \cap Range(Forward(g)) = {}
    BY <2>1 DEF Range, RepInv, Rep
  <2> QED BY <2>2, <2>3, <2>4, BackwardIs
<1> QED
  BY <1>1, RepInit, ListsStep, PTL DEF Spec

--------------------------------------------------------------------------
(* The hash lists of the same header. *)
CONSTANT POISON
VARIABLES at, pprev

H == INSTANCE HashList

(* What a pointer of a hash list may be besides a place. *)
Marks == {NULL, POISON}

(* Which places are in use: heads that have been initialised, and nodes on a list. *)
InUse(m) == {h \in Heads : m.at[h] # POISON}
            \cup {n \in Items : m.pprev[n] \notin {NULL, POISON, n}}

(* A node in use knows the place that points to it, which is in use, and a node that a    *)
(* place in use points to knows that place; one in no list points to nothing.  That the   *)
(* links go round in a circle, which no call makes, need not be excluded.                 *)
Paired(m) ==
    /\ m = [at |-> m.at, pprev |-> m.pprev]
    /\ m.at \in [H!Places -> Items \cup Marks]
    /\ m.pprev \in [Items -> H!Places \cup Marks]
    /\ \A n \in Items : n \in InUse(m) => m.pprev[n] \in InUse(m) /\ m.at[m.pprev[n]] = n
    /\ \A p \in InUse(m) : m.at[p] # NULL => /\ m.at[p] \in Items /\ m.at[p] # p
                                             /\ m.pprev[m.at[p]] = p
    /\ \A n \in Items : m.pprev[n] \in {NULL, n} => m.at[n] \in {NULL, n}

HInv == Paired(H!Memory)

(* The marks are no cells, as LIST_POISON1 and LIST_POISON2 are no addresses. *)
Apart == Marks \cap H!Places = {} /\ NULL # POISON

(* The calls. *)
LEMMA InitPaired == ASSUME Apart, H!Init PROVE HInv
  BY ListAssumption DEF Apart, H!Init, HInv, Paired, H!Memory, InUse, Marks, H!Places

(* Two cells of memory that are written, one after the other. *)
LEMMA TwoWritten ==
    ASSUME NEW S, NEW T, NEW f \in [S -> T], NEW x \in S, NEW y \in S, x # y, NEW u \in T, NEW v \in T,
           NEW g, g = [[f EXCEPT ![x] = u] EXCEPT ![y] = v]
    PROVE  g \in [S -> T] /\ g[x] = u /\ g[y] = v /\ \A q \in S \ {x, y} : g[q] = f[q]
  OBVIOUS

(* The node that is taken out: the place that points to it points to the one behind it,   *)
(* which knows that place.                                                                *)
LEMMA WrittenPaired ==
    ASSUME Apart, NEW m, Paired(m), NEW n \in Items, n \in InUse(m), NEW mark \in Marks,
           NEW f, f = [[m.at EXCEPT ![m.pprev[n]] = m.at[n]] EXCEPT ![n] = mark],
           NEW g, g = IF m.at[n] = NULL THEN [m.pprev EXCEPT ![n] = mark]
                      ELSE [[m.pprev EXCEPT ![m.at[n]] = m.pprev[n]] EXCEPT ![n] = mark]
    PROVE  Paired([at |-> f, pprev |-> g])
<1> DEFINE t == [at |-> f, pprev |-> g]
           p == m.pprev[n]
           b == m.at[n]
<1>1. /\ m.at \in [H!Places -> Items \cup Marks] /\ m.pprev \in [Items -> H!Places \cup Marks]
      /\ m = [at |-> m.at, pprev |-> m.pprev]
      /\ p \in InUse(m) /\ p \in H!Places /\ p # n /\ m.at[p] = n /\ n \in H!Places
      /\ b = NULL \/ (b \in Items /\ b # n /\ m.pprev[b] = n)
  <2>1. /\ m.at \in [H!Places -> Items \cup Marks] /\ m.pprev \in [Items -> H!Places \cup Marks]
        /\ m = [at |-> m.at, pprev |-> m.pprev]
    BY DEF Paired
  <2>2. p \in InUse(m) /\ m.at[p] = n
    BY DEF Paired
  <2>3. n \notin Heads /\ p # n /\ n \in H!Places /\ InUse(m) \subseteq H!Places
    BY ListAssumption DEF InUse, H!Places
  <2>4. b # NULL => b \in Items /\ b # n /\ m.pprev[b] = n
    BY DEF Paired
  <2> QED
    BY <2>1, <2>2, <2>3, <2>4
<1>2. m.at \in [H!Places -> Items \cup Marks] /\ m.pprev \in [Items -> H!Places \cup Marks]
  BY <1>1
<1>3. /\ f = [[m.at EXCEPT ![p] = b] EXCEPT ![n] = mark]
      /\ b = NULL => g = [m.pprev EXCEPT ![n] = mark]
      /\ b # NULL => g = [[m.pprev EXCEPT ![b] = p] EXCEPT ![n] = mark]
  OBVIOUS
<1>4. t = [at |-> t.at, pprev |-> t.pprev]
  OBVIOUS
<1>5. CASE b = NULL
  <2>1. /\ f \in [H!Places -> Items \cup Marks] /\ g \in [Items -> H!Places \cup Marks]
        /\ f[n] = mark /\ g[n] = mark /\ f[p] = NULL
        /\ \A q \in H!Places \ {n, p} : f[q] = m.at[q]
        /\ \A q \in Items \ {n} : g[q] = m.pprev[q]
    <3>1. /\ n \in H!Places /\ p \in H!Places /\ p # n
          /\ b \in Items \cup Marks /\ mark \in Items \cup Marks
      BY <1>1, <1>5 DEF Marks
    <3> HIDE DEF p, b
    <3>2. /\ f \in [H!Places -> Items \cup Marks] /\ f[n] = mark /\ f[p] = b
          /\ \A q \in H!Places \ {n, p} : f[q] = m.at[q]
      BY <3>1, <1>2, <1>3
    <3>3. /\ g \in [Items -> H!Places \cup Marks] /\ g[n] = mark
          /\ \A q \in Items \ {n} : g[q] = m.pprev[q]
      <4>1. m.pprev \in [Items -> H!Places \cup Marks] /\ mark \in H!Places \cup Marks
        BY <1>1
      <4> QED BY <4>1, <1>5, <1>3
    <3> QED
      BY <3>2, <3>3, <1>5
  <2>2. InUse(t) = InUse(m) \ {n}
    BY <2>1, <1>1, ListAssumption DEF Apart, InUse, Marks, H!Places
  <2>3. \A q \in Items : q \in InUse(t) => g[q] \in InUse(t) /\ f[g[q]] = q
    BY <2>1, <2>2, <1>1, <1>5, ListAssumption DEF Paired, Apart, InUse, H!Places
  <2>4. \A q \in InUse(t) : f[q] # NULL => f[q] \in Items /\ f[q] # q /\ g[f[q]] = q
    BY <2>1, <2>2, <1>1, <1>5, ListAssumption DEF Paired, Apart, InUse, H!Places
  <2>5. \A q \in Items : g[q] \in {NULL, q} => f[q] \in {NULL, q}
    BY <2>1, <1>1, ListAssumption DEF Paired, Apart, Marks, H!Places
  <2>6. t.at = f /\ t.pprev = g
    OBVIOUS
  <2> HIDE DEF t
  <2>7. Paired(t)
    BY <2>1, <2>3, <2>4, <2>5, <2>6, <1>4 DEF Paired
  <2> QED
    BY <2>7 DEF t
<1>6. CASE b # NULL
  <2>1. /\ f \in [H!Places -> Items \cup Marks] /\ g \in [Items -> H!Places \cup Marks]
        /\ f[n] = mark /\ g[n] = mark /\ f[p] = b /\ g[b] = p
        /\ \A q \in H!Places \ {n, p} : f[q] = m.at[q]
        /\ \A q \in Items \ {n, b} : g[q] = m.pprev[q]
    <3>1. /\ n \in H!Places /\ p \in H!Places /\ p # n /\ b \in Items /\ b # n
          /\ b \in Items \cup Marks /\ mark \in Items \cup Marks
          /\ p \in H!Places \cup Marks /\ mark \in H!Places \cup Marks
      BY <1>1, <1>6 DEF Marks
    <3> HIDE DEF p, b
    <3>2. /\ f \in [H!Places -> Items \cup Marks] /\ f[n] = mark /\ f[p] = b
          /\ \A q \in H!Places \ {n, p} : f[q] = m.at[q]
      BY <3>1, <1>2, <1>3
    <3>3. /\ g \in [Items -> H!Places \cup Marks] /\ g[n] = mark /\ g[b] = p
          /\ \A q \in Items \ {n, b} : g[q] = m.pprev[q]
      BY <3>1, <1>6, <1>2, <1>3
    <3> QED
      BY <3>2, <3>3
  <2>2. InUse(t) = InUse(m) \ (IF b = p THEN {n, b} ELSE {n})
    BY <2>1, <1>1, <1>6, ListAssumption DEF Paired, Apart, InUse, Marks, H!Places
  <2>3. \A q \in Items : q \in InUse(t) => g[q] \in InUse(t) /\ f[g[q]] = q
    BY <2>1, <2>2, <1>1, <1>6, ListAssumption DEF Paired, Apart, InUse, H!Places
  <2>4. \A q \in InUse(t) : f[q] # NULL => f[q] \in Items /\ f[q] # q /\ g[f[q]] = q
    BY <2>1, <2>2, <1>1, <1>6, ListAssumption DEF Paired, Apart, InUse, H!Places
  <2>5. \A q \in Items : g[q] \in {NULL, q} => f[q] \in {NULL, q}
    BY <2>1, <1>1, <1>6, ListAssumption DEF Paired, Apart, Marks, H!Places
  <2>6. t.at = f /\ t.pprev = g
    OBVIOUS
  <2> HIDE DEF t
  <2>7. Paired(t)
    BY <2>1, <2>3, <2>4, <2>5, <2>6, <1>4 DEF Paired
  <2> QED
    BY <2>7 DEF t
<1> QED
  BY <1>5, <1>6

(* A node is put at a head, before one, and behind one; a whole list gets another head. *)
LEMMA AddHead ==
    ASSUME Apart, HInv, NEW n \in Items, NEW h \in H!LiveHeads, H!hlist_add_head(n, h) PROVE HInv'
  BY ListAssumption, SMTT(60) DEF Apart, HInv, H!Memory, H!hlist_add_head, H!Listed, H!Becomes, H!PointBack, Paired, InUse, Marks, H!Places, H!LiveHeads

LEMMA AddBefore ==
    ASSUME Apart, HInv, NEW n \in Items, NEW behind \in Items \ {n}, H!hlist_add_before(n, behind) PROVE HInv'
  BY ListAssumption, SMTT(60) DEF Apart, HInv, H!Memory, H!hlist_add_before, H!Listed, H!Becomes, H!PointBack, Paired, InUse, Marks, H!Places, H!LiveHeads

LEMMA AddAfter ==
    ASSUME Apart, HInv, NEW n \in Items, NEW behind \in Items \ {n}, H!hlist_add_after(n, behind) PROVE HInv'
  BY ListAssumption, SMTT(60) DEF Apart, HInv, H!Memory, H!hlist_add_after, H!Listed, H!Becomes, H!PointBack, Paired, InUse, Marks, H!Places, H!LiveHeads

LEMMA MoveList ==
    ASSUME Apart, HInv, NEW old \in H!LiveHeads, NEW new \in Heads \ {old}, H!hlist_move_list(old, new) PROVE HInv'
  BY ListAssumption, SMTT(60) DEF Apart, HInv, H!Memory, H!hlist_move_list, H!MovedList, H!Listed, H!Becomes, H!PointBack, Paired, InUse, Marks, H!Places, H!LiveHeads

(* A node of a list is taken out of it. *)
LEMMA Delete ==
    ASSUME Apart, HInv, NEW n \in Items, n \in InUse(H!Memory),
           H!hlist_del(n) \/ H!hlist_del_init(n)
    PROVE  HInv'
<1> DEFINE d == H!__hlist_del(n)
<1>1. PICK mark \in Marks : H!Becomes([d EXCEPT !.at[n] = mark, !.pprev[n] = mark])
  BY DEF H!hlist_del, H!hlist_del_init, Marks
<1>2. PICK f, g :
          /\ f = [[at EXCEPT ![pprev[n]] = at[n]] EXCEPT ![n] = mark]
          /\ g = IF at[n] = NULL THEN [pprev EXCEPT ![n] = mark]
                 ELSE [[pprev EXCEPT ![at[n]] = pprev[n]] EXCEPT ![n] = mark]
  OBVIOUS
<1>3. at' = f /\ pprev' = g
  BY <1>1, <1>2 DEF H!Becomes, H!__hlist_del, H!PointBack, H!Memory
<1>4. Paired([at |-> f, pprev |-> g])
  BY <1>2, WrittenPaired DEF HInv, H!Memory
<1> QED
  BY <1>3, <1>4 DEF HInv, H!Memory

(* A node that is marked as if it were on a list points to itself from behind, so it is   *)
(* taken out of nothing.                                                                  *)
LEMMA DeleteFake ==
    ASSUME Apart, HInv, NEW n \in Items, n \notin InUse(H!Memory),
           H!hlist_del(n) \/ H!hlist_del_init(n)
    PROVE  HInv'
  BY ListAssumption, SMTT(60) DEF Apart, HInv, H!Memory, H!hlist_del, H!hlist_del_init, H!__hlist_del,
     H!hlist_unhashed, H!Listed, H!Becomes, H!PointBack, Paired, InUse, Marks, H!Places

(* A head that is initialised, and a node that is marked. *)
LEMMA InitHash ==
    ASSUME Apart, HInv, NEW h \in Heads, H!INIT_HLIST_HEAD(h) PROVE HInv'
  BY ListAssumption, SMTT(60) DEF Apart, HInv, H!Memory, H!INIT_HLIST_HEAD, H!Becomes, Paired, InUse, Marks, H!Places

LEMMA AddFake ==
    ASSUME Apart, HInv, NEW n \in Items, H!hlist_add_fake(n) PROVE HInv'
  BY ListAssumption, SMTT(60) DEF Apart, HInv, H!Memory, H!hlist_add_fake, H!hlist_unhashed, H!Becomes, Paired, InUse, Marks, H!Places

(* No sequence of calls on hash lists leaves a node whose place does not point to it, or a *)
(* place whose node does not know it (hlist_add_head, hlist_del and their kin).            *)
THEOREM HashLinksHold == ASSUME Apart PROVE H!Spec => []H!PlacesAgree
<1>1. H!Init => HInv
  BY InitPaired
<1>2. HInv /\ [H!Next]_H!vars => HInv'
  <2> SUFFICES ASSUME HInv, [H!Next]_H!vars PROVE HInv'
    OBVIOUS
  <2>1. CASE UNCHANGED H!vars
    BY <2>1 DEF H!vars, HInv, H!Memory
  <2> QED
    BY <2>1, InitHash, Delete, DeleteFake, AddFake, AddHead, AddBefore, AddAfter, MoveList DEF H!Next
<1>3. HInv => H!PlacesAgree
  BY DEF HInv, H!Memory, Paired, H!PlacesAgree, H!Listed, H!LiveHeads, InUse
<1> QED
  BY <1>1, <1>2, <1>3, PTL DEF H!Spec

--------------------------------------------------------------------------

(* The hash table of a JSON object. *)
CONSTANTS Keys, Values, Hash, STARTING_CAPACITY, MaxCapacity, Clears, OBJECT_INVALID_IX
VARIABLE object

O == INSTANCE JsonObject

(* The least number of a set that is not empty. *)
LEMMA LeastOf ==
    ASSUME NEW N \in Nat, NEW T \in SUBSET (0 .. N), T # {}
    PROVE  O!Min(T) \in T /\ \A y \in T : O!Min(T) <= y
<1>1. \E x \in T : \A y \in T : x <= y
  <2> SUFFICES ASSUME \A x \in T : \E y \in T : ~(x <= y)
               PROVE  FALSE
    OBVIOUS
  <2> DEFINE Missed == {n \in 0 .. N : \A k \in 0 .. n : k \notin T}
  <2>1. 0 \in Missed
    <3>1. 0 \notin T
      <4> SUFFICES ASSUME 0 \in T PROVE FALSE
        OBVIOUS
      <4>1. PICK y \in T : ~(0 <= y)
        OBVIOUS
      <4> QED BY <4>1
    <3> QED BY <3>1
  <2>2. ASSUME NEW n \in 0 .. N - 1, n \in Missed
        PROVE  n + 1 \in Missed
    <3>1. n + 1 \notin T
      <4> SUFFICES ASSUME n + 1 \in T PROVE FALSE
        OBVIOUS
      <4>1. PICK y \in T : ~(n + 1 <= y)
        OBVIOUS
      <4>2. y \in 0 .. n
        BY <4>1
      <4> QED BY <2>2, <4>2
    <3> QED BY <2>2, <3>1
  <2> HIDE DEF Missed
  <2>3. \A n \in 0 .. N : n \in Missed
    BY <2>1, <2>2, SetInduction
  <2>4. N \in Missed
    BY <2>3
  <2> QED BY <2>4 DEF Missed
<1> QED BY <1>1 DEF O!Min

--------------------------------------------------------------------------
(* Where a probe that begins with the remainder h is after i steps.           *)
Place(h, i, cap) == IF h + i < cap THEN h + i ELSE h + i - cap

(* Division with a remainder, as the provers are to see it. *)
LEMMA Remainder ==
    ASSUME NEW n \in Nat, n > 0, NEW a \in Nat
    PROVE  a % n \in 0 .. n - 1 /\ a \div n \in Int /\ a = n * (a \div n) + (a % n)
<1>1. a % n \in 0 .. n - 1 /\ a \div n \in Int
  OBVIOUS
<1>2. a = n * (a \div n) + (a % n)
  BY Z3
<1> QED BY <1>1, <1>2

LEMMA Division ==
    ASSUME NEW n \in Nat, n > 0, NEW q \in Int, NEW r \in 0 .. n - 1, NEW a \in Nat, a = n * q + r
    PROVE  a % n = r
<1>1. a \div n = q
  OBVIOUS
<1> QED BY <1>1

LEMMA SumDivision ==
    ASSUME NEW n \in Nat, n > 0, NEW b \in Int, NEW s \in 0 .. n - 1, NEW h \in Nat, NEW i \in Nat, h + i = n * b + s
    PROVE  (h + i) % n = s
<1>1. PICK a \in Nat : a = h + i
  OBVIOUS
<1>2. a = n * b + s
  BY <1>1
<1>3. a \div n = b
  BY <1>2
<1>4. a % n = s
  BY <1>2, <1>3
<1> QED BY <1>1, <1>4

(* The cells a probe looks at go round the end of the table at most once. *)
LEMMA ProbeIs ==
    ASSUME NEW n \in Nat, n > 0, NEW h \in Nat, NEW i \in 0 .. n - 1
    PROVE  h % n \in 0 .. n - 1 /\ (h + i) % n = Place(h % n, i, n)
<1> DEFINE q == h \div n
           r == h % n
<1>1. r \in 0 .. n - 1 /\ q \in Int /\ h = n * q + r
  BY Remainder
<1> HIDE DEF q, r
<1>2. CASE r + i < n
  <2>1. h + i = n * q + (r + i) /\ r + i \in 0 .. n - 1 /\ h + i \in Nat
    BY <1>1, <1>2
  <2>2. (h + i) % n = r + i
    BY <1>1, <2>1, Division
  <2> QED BY <1>1, <1>2, <2>2 DEF Place, r
<1>3. CASE ~(r + i < n)
  <2>1. PICK b \in Int : b = q + 1
    BY <1>1
  <2>2. PICK s \in 0 .. n - 1 : s = r + i - n
    BY <1>1, <1>3
  <2>3. n * b = n * q + n
    BY <1>1, <2>1
  <2>4. h + i = n * b + s /\ h + i \in Nat
    BY <1>1, <2>2, <2>3
  <2>5. (h + i) % n = s
    BY <2>4, SumDivision
  <2> QED BY <1>1, <1>3, <2>2, <2>5 DEF Place, r
<1> QED BY <1>2, <1>3

--------------------------------------------------------------------------
(* The third part: the hash table of a JSON object.  Its cells, its items, and the cell *)
(* that the hash of an item names.                                                      *)
CellsOf(o) == 0 .. o.cap - 1
Members(o) == 0 .. o.count - 1
HomeOf(o, i) == o.items[i].hash % o.cap

(* Whether a probe that begins at cell h and ends at cell c passes cell x. *)
OnPath(x, h, c) == IF h <= c THEN h <= x /\ x < c ELSE h <= x \/ x < c

ItemRecords == [name : Keys, value : Values, cell_ix : Nat, hash : Nat]

(* The fields of an object. *)
ObjType(o) ==
    /\ o = [cap |-> o.cap, count |-> o.count, cells |-> o.cells, items |-> o.items]
    /\ o.cap \in Nat /\ o.count \in Nat /\ o.count <= O!ItemCapacity(o.cap)
    /\ o.cells \in [CellsOf(o) -> Nat \cup {OBJECT_INVALID_IX}]
    /\ o.items = [i \in 0 .. O!ItemCapacity(o.cap) - 1 |-> o.items[i]]

(* Every item but none of cell gap has its cell, and every other cell that is not empty *)
(* its item; no two items have one name.                                               *)
Linked(o, gap) ==
    /\ \A i \in Members(o) :
          /\ o.items[i] \in ItemRecords /\ o.items[i].hash = Hash[o.items[i].name]
          /\ o.items[i].cell_ix \in CellsOf(o) /\ o.items[i].cell_ix # gap
          /\ o.cells[o.items[i].cell_ix] = i
    /\ \A c \in CellsOf(o) : c # gap /\ o.cells[c] # OBJECT_INVALID_IX =>
          o.cells[c] \in Members(o) /\ o.items[o.cells[c]].cell_ix = c
    /\ \A i, j \in Members(o) : o.items[i].name = o.items[j].name => i = j

(* No empty cell is on the way from the cell its hash names to an item. *)
Reached(o) == \A i \in Members(o), x \in CellsOf(o) :
    OnPath(x, HomeOf(o, i), o.items[i].cell_ix) => o.cells[x] # OBJECT_INVALID_IX

(* The inductive invariant. *)
ObjInv(o) == ObjType(o) /\ Linked(o, -1) /\ Reached(o)

(* The table has more cells than it has room for items, and a table that grows has more of both. *)
LEMMA Capacities ==
    ASSUME NEW cap \in Nat
    PROVE  /\ O!ItemCapacity(cap) \in Nat /\ O!ItemCapacity(cap) <= cap
           /\ cap > 0 => O!ItemCapacity(cap) < cap
           /\ cap > 1 => O!ItemCapacity(cap) > 0
           /\ \A more \in Nat : more >= 2 * cap /\ more > 1 => O!ItemCapacity(cap) < O!ItemCapacity(more)
BY DEF O!ItemCapacity

(* The cell that the hash of an item names is one of the table. *)
LEMMA HomeType ==
    ASSUME O!Parameters, NEW o, ObjType(o), NEW gap, Linked(o, gap), NEW i \in Members(o)
    PROVE  HomeOf(o, i) \in CellsOf(o) /\ o.cap > 0
<1>1. o.items[i].hash \in Nat /\ o.items[i].cell_ix \in CellsOf(o) /\ o.cap \in Nat
  BY DEF Linked, ItemRecords, ObjType
<1>2. o.cap > 0
  BY <1>1 DEF CellsOf
<1> QED BY <1>1, <1>2, Remainder DEF HomeOf, CellsOf

(* As the items have fewer places than there are cells, a cell is free. *)
LEMMA FreeCell ==
    ASSUME O!Parameters, NEW o, ObjType(o), Linked(o, -1), o.cap > 0
    PROVE  \E z \in CellsOf(o) : o.cells[z] = OBJECT_INVALID_IX
<1> SUFFICES ASSUME \A z \in CellsOf(o) : o.cells[z] # OBJECT_INVALID_IX
             PROVE  FALSE
  OBVIOUS
<1>1. o.cap \in Nat /\ o.count \in Nat /\ o.count < o.cap
  BY Capacities DEF ObjType
<1>2. /\ \A c \in CellsOf(o) : o.cells[c] \in Members(o) /\ o.items[o.cells[c]].cell_ix = c
      /\ o.cells \in [CellsOf(o) -> Members(o)]
  <2>1. \A c \in CellsOf(o) : c # -1
    BY <1>1 DEF CellsOf
  <2>2. \A c \in CellsOf(o) : o.cells[c] \in Members(o) /\ o.items[o.cells[c]].cell_ix = c
    BY <2>1 DEF Linked
  <2> QED BY <2>2 DEF ObjType
<1>3. /\ IsFiniteSet(CellsOf(o)) /\ IsFiniteSet(Members(o))
      /\ Cardinality(Members(o)) < Cardinality(CellsOf(o))
  <2> DEFINE a == o.cap - 1
             b == o.count - 1
  <2>1. a \in Int /\ b \in Int
    BY <1>1
  <2> HIDE DEF a, b
  <2>2. IsFiniteSet(0 .. a) /\ Cardinality(0 .. a) = IF 0 > a THEN 0 ELSE a - 0 + 1
    BY <2>1, FS_Interval
  <2>3. IsFiniteSet(0 .. b) /\ Cardinality(0 .. b) = IF 0 > b THEN 0 ELSE b - 0 + 1
    BY <2>1, FS_Interval
  <2>4. CellsOf(o) = 0 .. a /\ Members(o) = 0 .. b
    BY DEF CellsOf, Members, a, b
  <2>5. (IF 0 > a THEN 0 ELSE a - 0 + 1) = o.cap /\ (IF 0 > b THEN 0 ELSE b - 0 + 1) = o.count
    BY <1>1 DEF a, b
  <2> QED BY <1>1, <2>2, <2>3, <2>4, <2>5
<1>4. PICK x, y \in CellsOf(o) : x # y /\ o.cells[x] = o.cells[y]
  BY <1>2, <1>3, FS_PigeonHole
<1> QED BY <1>2, <1>4

--------------------------------------------------------------------------
(* How many steps a probe that begins at cell h takes to cell x.              *)
Dist(h, x, n) == IF h <= x THEN x - h ELSE x - h + n

(* Steps and cells determine each other. *)
LEMMA Distances ==
    ASSUME NEW n \in Nat, n > 0, NEW h \in 0 .. n - 1
    PROVE  /\ \A i \in 0 .. n - 1 : Place(h, i, n) \in 0 .. n - 1 /\ Dist(h, Place(h, i, n), n) = i
           /\ \A x \in 0 .. n - 1 : Dist(h, x, n) \in 0 .. n - 1 /\ Place(h, Dist(h, x, n), n) = x
           /\ \A x, c \in 0 .. n - 1 : OnPath(x, h, c) <=> Dist(h, x, n) < Dist(h, c, n)
BY DEF Place, Dist, OnPath

(* A lookup ends at the cell of the item of that name, or at a free one (json_object_get_cell_ix). *)
LEMMA Lookup ==
    ASSUME O!Parameters, NEW o, ObjInv(o), o.cap > 0, NEW k \in Keys
    PROVE  /\ Hash[k] % o.cap \in CellsOf(o)
           /\ O!CellIx(o, k) \in CellsOf(o)
           /\ \A i \in Members(o) : o.items[i].name = k => O!CellIx(o, k) = o.items[i].cell_ix
           /\ (\A i \in Members(o) : o.items[i].name # k) =>
                 /\ o.cells[O!CellIx(o, k)] = OBJECT_INVALID_IX
                 /\ \A x \in CellsOf(o) : OnPath(x, Hash[k] % o.cap, O!CellIx(o, k)) =>
                                            o.cells[x] # OBJECT_INVALID_IX
<1> DEFINE n == o.cap
           h == Hash[k] % n
<1>1. n \in Nat /\ n > 0 /\ Hash[k] \in Nat
  BY DEF ObjInv, ObjType, O!Parameters
<1>2. h \in 0 .. n - 1 /\ CellsOf(o) = 0 .. n - 1 /\ \A i \in 0 .. n - 1 : O!Probe(o, k, i) = Place(h, i, n)
  <2>1. h \in 0 .. n - 1
    BY <1>1, Remainder
  <2>2. ASSUME NEW i \in 0 .. n - 1 PROVE (Hash[k] + i) % n = Place(h, i, n)
    BY <1>1, ProbeIs
  <2> QED BY <2>1, <2>2 DEF O!Probe, CellsOf
<1> HIDE DEF h
<1>3. /\ \A i \in 0 .. n - 1 : Place(h, i, n) \in 0 .. n - 1 /\ Dist(h, Place(h, i, n), n) = i
      /\ \A x \in 0 .. n - 1 : Dist(h, x, n) \in 0 .. n - 1 /\ Place(h, Dist(h, x, n), n) = x
      /\ \A x, c \in 0 .. n - 1 : OnPath(x, h, c) <=> Dist(h, x, n) < Dist(h, c, n)
  BY <1>1, <1>2, Distances
<1>4. \A x \in CellsOf(o) : x # -1
  BY <1>1 DEF CellsOf
<1>5. ASSUME NEW x \in CellsOf(o), o.cells[x] # OBJECT_INVALID_IX
      PROVE  /\ o.cells[x] \in Members(o) /\ o.items[o.cells[x]].cell_ix = x
             /\ O!Matches(o, k, o.cells[x]) <=> o.items[o.cells[x]].name = k
  <2>1. o.cells[x] \in Members(o) /\ o.items[o.cells[x]].cell_ix = x
    BY <1>4, <1>5 DEF ObjInv, Linked
  <2>2. o.items[o.cells[x]].hash = Hash[o.items[o.cells[x]].name]
    BY <2>1 DEF ObjInv, Linked
  <2> QED BY <2>1, <2>2 DEF O!Matches
<1>6. /\ O!Stops(o, k) \in SUBSET (0 .. n - 1)
      /\ \A i \in 0 .. n - 1 : i \in O!Stops(o, k) <=>
            (o.cells[Place(h, i, n)] # OBJECT_INVALID_IX => O!Matches(o, k, o.cells[Place(h, i, n)]))
  BY <1>2 DEF O!Stops
<1>7. O!Stops(o, k) # {}
  <2>1. PICK z \in CellsOf(o) : o.cells[z] = OBJECT_INVALID_IX
    BY FreeCell DEF ObjInv
  <2>2. Dist(h, z, n) \in O!Stops(o, k)
    BY <1>2, <1>3, <1>6, <2>1
  <2> QED BY <2>2
<1> DEFINE m == O!Min(O!Stops(o, k))
           c == O!CellIx(o, k)
<1>8. m \in O!Stops(o, k) /\ \A i \in O!Stops(o, k) : m <= i
  <2>1. n - 1 \in Nat
    BY <1>1
  <2> QED BY <1>6, <1>7, <2>1, LeastOf
<1>9. m \in 0 .. n - 1 /\ c = Place(h, m, n) /\ c \in 0 .. n - 1 /\ Dist(h, c, n) = m
  <2>1. m \in 0 .. n - 1
    BY <1>6, <1>8
  <2>2. c = Place(h, m, n)
    BY <1>2, <1>7, <2>1 DEF O!CellIx
  <2> QED BY <1>3, <2>1, <2>2
<1> HIDE DEF m, c
<1>10. ASSUME NEW x \in 0 .. n - 1, OnPath(x, h, c)
       PROVE  o.cells[x] # OBJECT_INVALID_IX
  <2>1. Dist(h, x, n) \in 0 .. n - 1 /\ Dist(h, x, n) < m /\ Place(h, Dist(h, x, n), n) = x
    BY <1>3, <1>9, <1>10
  <2>2. Dist(h, x, n) \notin O!Stops(o, k)
    BY <1>8, <1>9, <2>1
  <2> QED BY <1>6, <2>1, <2>2
<1>11. ASSUME NEW i \in Members(o), o.items[i].name = k
       PROVE  c = o.items[i].cell_ix
  <2> DEFINE d == o.items[i].cell_ix
  <2>1. /\ d \in 0 .. n - 1 /\ o.cells[d] = i /\ HomeOf(o, i) = h
        /\ i # OBJECT_INVALID_IX
    <3>1. d \in CellsOf(o) /\ o.cells[d] = i /\ o.items[i].hash = Hash[k]
      BY <1>11 DEF ObjInv, Linked
    <3>2. i \in Nat /\ OBJECT_INVALID_IX \notin Nat
      BY DEF Members, ObjInv, ObjType, O!Parameters
    <3> QED BY <1>2, <3>1, <3>2 DEF HomeOf, h
  <2> HIDE DEF d
  <2>2. Dist(h, d, n) \in O!Stops(o, k) /\ m <= Dist(h, d, n)
    <3>1. O!Matches(o, k, o.cells[d])
      BY <1>2, <1>5, <1>11, <2>1
    <3>2. Dist(h, d, n) \in O!Stops(o, k)
      BY <1>3, <1>6, <2>1, <3>1
    <3> QED BY <1>8, <3>2
  <2>3. CASE m = Dist(h, d, n)
    BY <1>3, <1>9, <2>1, <2>3 DEF d
  <2>4. CASE m < Dist(h, d, n)
    <3>1. OnPath(c, h, d)
      BY <1>3, <1>9, <2>1, <2>4
    <3>2. o.cells[c] # OBJECT_INVALID_IX
      BY <1>2, <1>9, <2>1, <3>1 DEF ObjInv, Reached, d
    <3>3. O!Matches(o, k, o.cells[c])
      BY <1>6, <1>8, <1>9, <3>2
    <3>4. /\ o.cells[c] \in Members(o) /\ o.items[o.cells[c]].cell_ix = c
          /\ o.items[o.cells[c]].name = k
      BY <1>2, <1>5, <1>9, <3>2, <3>3
    <3>5. o.cells[c] = i
      BY <1>11, <3>4 DEF ObjInv, Linked
    <3> QED BY <3>4, <3>5
  <2> QED BY <1>3, <1>9, <2>1, <2>2, <2>3, <2>4
<1>12. ASSUME \A i \in Members(o) : o.items[i].name # k
       PROVE  o.cells[c] = OBJECT_INVALID_IX
  <2> SUFFICES ASSUME o.cells[c] # OBJECT_INVALID_IX PROVE FALSE
    OBVIOUS
  <2>1. O!Matches(o, k, o.cells[c])
    BY <1>6, <1>8, <1>9
  <2> QED BY <1>2, <1>5, <1>9, <1>12, <2>1
<1> QED BY <1>2, <1>9, <1>10, <1>11, <1>12 DEF h, c

(* A name is found exactly if an item has it, and its value is the value of the item. *)
LEMMA FoundIs ==
    ASSUME O!Parameters, NEW o, ObjInv(o), NEW k \in Keys
    PROVE  /\ O!Found(o, k) <=> \E i \in Members(o) : o.items[i].name = k
           /\ \A i \in Members(o) : o.items[i].name = k =>
                 /\ O!CellIx(o, k) \in CellsOf(o) /\ o.cells[O!CellIx(o, k)] = i
                 /\ O!CellIx(o, k) = o.items[i].cell_ix
                 /\ O!ValueOf(o, k) = o.items[i].value
           /\ ~O!ReadsFreed(o, k)
<1>1. /\ o.cap \in Nat /\ o.count \in Nat /\ OBJECT_INVALID_IX \notin Nat
      /\ o.count <= o.cap
  BY Capacities DEF ObjInv, ObjType, O!Parameters
<1>2. CASE o.cap = 0
  <2>1. Members(o) = {} /\ O!Stops(o, k) = {}
    BY <1>1, <1>2 DEF Members, O!Stops
  <2>2. ~O!Found(o, k) /\ ~O!ReadsFreed(o, k)
    BY <1>2, <2>1 DEF O!Found, O!CellIx, O!ReadsFreed
  <2> QED BY <2>1, <2>2
<1>3. CASE o.cap > 0
  <2> DEFINE c == O!CellIx(o, k)
  <2>1. /\ c \in CellsOf(o)
        /\ \A i \in Members(o) : o.items[i].name = k => c = o.items[i].cell_ix
        /\ (\A i \in Members(o) : o.items[i].name # k) => o.cells[c] = OBJECT_INVALID_IX
    BY <1>3, Lookup
  <2>2. c # OBJECT_INVALID_IX
    BY <1>1, <2>1 DEF CellsOf
  <2>3. \A i \in Members(o) : i # OBJECT_INVALID_IX /\ o.cells[o.items[i].cell_ix] = i
    BY <1>1 DEF Members, ObjInv, Linked
  <2>4. ~O!ReadsFreed(o, k)
    <3> SUFFICES ASSUME NEW i \in 0 .. o.cap - 1, o.cells[O!Probe(o, k, i)] # OBJECT_INVALID_IX,
                        o.items[o.cells[O!Probe(o, k, i)]].name = NULL
                 PROVE  FALSE
      BY DEF O!ReadsFreed
    <3>1. O!Probe(o, k, i) \in CellsOf(o) /\ O!Probe(o, k, i) # -1
      <4>1. Hash[k] + i \in Nat
        BY <1>1 DEF O!Parameters
      <4> QED BY <1>1, <1>3, <4>1, Remainder DEF O!Probe, CellsOf
    <3>2. o.cells[O!Probe(o, k, i)] \in Members(o)
      BY <3>1 DEF ObjInv, Linked
    <3> QED BY <3>2 DEF ObjInv, Linked, ItemRecords, O!Parameters
  <2> HIDE DEF c
  <2>5. O!Found(o, k) <=> o.cells[c] # OBJECT_INVALID_IX
    BY <2>2 DEF O!Found, c
  <2>6. O!ValueOf(o, k) = o.items[o.cells[c]].value
    BY DEF O!ValueOf, c
  <2> QED BY <2>1, <2>3, <2>4, <2>5, <2>6 DEF c
<1> QED BY <1>1, <1>2, <1>3

(* json_object_add of a name that is not there, when there is room. *)
LEMMA AppendedKeeps ==
    ASSUME O!Parameters, NEW o, ObjInv(o), o.count < O!ItemCapacity(o.cap),
           NEW k \in Keys, NEW v \in Values, \A i \in Members(o) : o.items[i].name # k,
           NEW p, p = O!Appended(o, k, v)
    PROVE  /\ ObjInv(p) /\ p.cap = o.cap /\ p.count = o.count + 1
           /\ \A i \in Members(o) : p.items[i] = o.items[i]
           /\ p.items[o.count].name = k /\ p.items[o.count].value = v
<1> DEFINE n == o.cap
           c == O!CellIx(o, k)
           h == Hash[k] % n
           it == O!Item(k, v, c)
<1>1. /\ n \in Nat /\ n > 0 /\ o.count \in Nat /\ OBJECT_INVALID_IX \notin Nat
      /\ o = [cap |-> n, count |-> o.count, cells |-> o.cells, items |-> o.items]
      /\ o.cells \in [CellsOf(o) -> Nat \cup {OBJECT_INVALID_IX}]
      /\ o.items = [i \in 0 .. O!ItemCapacity(n) - 1 |-> o.items[i]]
      /\ O!ItemCapacity(n) \in Nat
  <2>1. n \in Nat
    BY DEF ObjInv, ObjType
  <2> QED BY <2>1, Capacities DEF ObjInv, ObjType, O!Parameters
<1>2. /\ c \in CellsOf(o) /\ o.cells[c] = OBJECT_INVALID_IX /\ h \in CellsOf(o)
      /\ \A x \in CellsOf(o) : OnPath(x, h, c) => o.cells[x] # OBJECT_INVALID_IX
  BY <1>1, Lookup
<1>3. /\ it.name = k /\ it.value = v /\ it.cell_ix = c /\ it.hash = Hash[k] /\ it \in ItemRecords
  BY <1>1, <1>2 DEF O!Item, ItemRecords, O!Parameters, CellsOf
<1> HIDE DEF it, c, h
<1>4. /\ p.cap = n /\ p.count = o.count + 1
      /\ p.cells = [o.cells EXCEPT ![c] = o.count]
      /\ p.items = [o.items EXCEPT ![o.count] = it]
      /\ p = [cap |-> p.cap, count |-> p.count, cells |-> p.cells, items |-> p.items]
  BY <1>1 DEF O!Appended, c, it
<1>5. CellsOf(p) = CellsOf(o) /\ Members(p) = Members(o) \cup {o.count} /\ o.count \notin Members(o)
  BY <1>1, <1>4 DEF CellsOf, Members
<1>6. /\ p.cells[c] = o.count /\ \A x \in CellsOf(o) : x # c => p.cells[x] = o.cells[x]
      /\ p.items[o.count] = it /\ \A i \in Members(o) : p.items[i] = o.items[i]
  <2>1. Members(o) \subseteq 0 .. O!ItemCapacity(n) - 1 /\ o.count \in 0 .. O!ItemCapacity(n) - 1
    BY <1>1 DEF Members
  <2> QED BY <1>1, <1>2, <1>4, <1>5, <2>1
<1>7. ObjType(p)
  <2>1. p.cells \in [CellsOf(p) -> Nat \cup {OBJECT_INVALID_IX}]
    BY <1>1, <1>4, <1>5
  <2>2. p.items = [i \in 0 .. O!ItemCapacity(p.cap) - 1 |-> p.items[i]]
    BY <1>1, <1>4
  <2>3. p.cap \in Nat /\ p.count \in Nat /\ p.count <= O!ItemCapacity(p.cap)
    BY <1>1, <1>4
  <2> QED BY <1>4, <2>1, <2>2, <2>3 DEF ObjType
<1>8. Linked(p, -1)
  <2>1. ASSUME NEW i \in Members(p)
        PROVE  /\ p.items[i] \in ItemRecords /\ p.items[i].hash = Hash[p.items[i].name]
               /\ p.items[i].cell_ix \in CellsOf(p) /\ p.items[i].cell_ix # -1
               /\ p.cells[p.items[i].cell_ix] = i
    <3>1. CASE i = o.count
      <4>1. c # -1
        BY <1>2 DEF CellsOf
      <4> QED BY <1>2, <1>3, <1>5, <1>6, <3>1, <4>1
    <3>2. CASE i \in Members(o)
      <4>1. o.cells[o.items[i].cell_ix] = i /\ i # OBJECT_INVALID_IX
        <5>1. o.cells[o.items[i].cell_ix] = i
          BY <3>2 DEF ObjInv, Linked
        <5>2. i \in Nat
          BY <1>1, <3>2 DEF Members
        <5> QED BY <1>1, <5>1, <5>2
      <4>2. o.items[i].cell_ix # c
        BY <1>2, <4>1
      <4> QED BY <1>5, <1>6, <3>2, <4>1, <4>2 DEF ObjInv, Linked
    <3> QED BY <1>5, <3>1, <3>2
  <2>2. ASSUME NEW x \in CellsOf(p), x # -1, p.cells[x] # OBJECT_INVALID_IX
        PROVE  p.cells[x] \in Members(p) /\ p.items[p.cells[x]].cell_ix = x
    <3>1. CASE x = c
      BY <1>3, <1>5, <1>6, <3>1
    <3>2. CASE x # c
      <4>1. p.cells[x] = o.cells[x] /\ o.cells[x] \in Members(o) /\ o.items[o.cells[x]].cell_ix = x
        BY <1>5, <1>6, <2>2, <3>2 DEF ObjInv, Linked
      <4> QED BY <1>5, <1>6, <4>1
    <3> QED BY <3>1, <3>2
  <2>3. ASSUME NEW i \in Members(p), NEW j \in Members(p), p.items[i].name = p.items[j].name
        PROVE  i = j
    <3>1. CASE i \in Members(o) /\ j \in Members(o)
      BY <1>6, <2>3, <3>1 DEF ObjInv, Linked
    <3> QED BY <1>3, <1>5, <1>6, <2>3, <3>1
  <2> QED BY <2>1, <2>2, <2>3 DEF Linked
<1>9. Reached(p)
  <2> SUFFICES ASSUME NEW i \in Members(p), NEW x \in CellsOf(p),
                      OnPath(x, HomeOf(p, i), p.items[i].cell_ix)
               PROVE  p.cells[x] # OBJECT_INVALID_IX
    BY DEF Reached
  <2>1. CASE x = c
    BY <1>1, <1>6, <2>1
  <2>2. CASE x # c /\ i \in Members(o)
    <3>1. HomeOf(p, i) = HomeOf(o, i) /\ p.items[i] = o.items[i]
      BY <1>4, <1>6, <2>2 DEF HomeOf
    <3>2. o.cells[x] # OBJECT_INVALID_IX
      BY <1>5, <2>2, <3>1 DEF ObjInv, Reached
    <3> QED BY <1>5, <1>6, <2>2, <3>2
  <2>3. CASE x # c /\ i = o.count
    <3>1. HomeOf(p, i) = h /\ p.items[i].cell_ix = c
      BY <1>3, <1>4, <1>6, <2>3 DEF HomeOf, h
    <3>2. o.cells[x] # OBJECT_INVALID_IX
      BY <1>2, <1>5, <3>1
    <3> QED BY <1>5, <1>6, <2>3, <3>2
  <2> QED BY <1>5, <2>1, <2>2, <2>3
<1> QED BY <1>3, <1>4, <1>6, <1>7, <1>8, <1>9 DEF ObjInv

--------------------------------------------------------------------------
(* p has the names and values of o, in the same order.                        *)
Same(o, p) ==
    /\ p.count = o.count
    /\ \A i \in Members(o) : p.items[i].name = o.items[i].name /\ p.items[i].value = o.items[i].value

(* json_object_init. *)
LEMMA FreshIs ==
    ASSUME O!Parameters, NEW cap \in Nat, NEW o, o = O!Fresh(cap)
    PROVE  ObjInv(o) /\ o.cap = cap /\ o.count = 0
<1>1. /\ o.cap = cap /\ o.count = 0 /\ O!ItemCapacity(cap) \in Nat
      /\ o.cells = [c \in 0 .. cap - 1 |-> OBJECT_INVALID_IX]
      /\ o.items = [i \in 0 .. O!ItemCapacity(cap) - 1 |-> NULL]
      /\ o = [cap |-> o.cap, count |-> o.count, cells |-> o.cells, items |-> o.items]
  BY Capacities DEF O!Fresh
<1>2. Members(o) = {} /\ CellsOf(o) = 0 .. cap - 1
  BY <1>1 DEF Members, CellsOf
<1>3. ObjType(o)
  <2>1. o.items = [i \in 0 .. O!ItemCapacity(o.cap) - 1 |-> o.items[i]]
    BY <1>1
  <2>2. o.cells \in [CellsOf(o) -> Nat \cup {OBJECT_INVALID_IX}]
    BY <1>1, <1>2
  <2>3. o.count \in Nat /\ o.count <= O!ItemCapacity(o.cap)
    BY <1>1
  <2> QED BY <1>1, <2>1, <2>2, <2>3 DEF ObjType
<1>4. Linked(o, -1) /\ Reached(o)
  BY <1>1, <1>2 DEF Linked, Reached
<1> QED BY <1>1, <1>3, <1>4 DEF ObjInv

(* f is the recursive function of json_object_grow_and_rehash, up to n items. *)
IsCopies(f, o, n) ==
    f = [m \in 0 .. n |-> IF m = 0 THEN O!Fresh(O!NewCapacity(o))
                          ELSE O!Appended(f[m - 1], o.items[m - 1].name, o.items[m - 1].value)]

(* An equation that f[m] is told by f[m - 1] has a solution. *)
LEMMA CopiesExist ==
    ASSUME NEW o, o.count \in Nat
    PROVE  \E f : IsCopies(f, o, o.count)
<1> DEFINE N == o.count
           NextCell(y, m) == O!Appended(y, o.items[m - 1].name, o.items[m - 1].value)
           T == {n \in 0 .. N : \E f : IsCopies(f, o, n)}
<1>1. 0 \in T
  <2> DEFINE f == [m \in 0 .. 0 |-> O!Fresh(O!NewCapacity(o))]
  <2>1. IsCopies(f, o, 0)
    BY DEF IsCopies
  <2> QED BY <2>1
<1>2. ASSUME NEW n \in 0 .. N - 1, n \in T
      PROVE  n + 1 \in T
  <2>1. PICK f : IsCopies(f, o, n)
    BY <1>2
  <2> DEFINE g == [m \in 0 .. n + 1 |-> IF m \in 0 .. n THEN f[m] ELSE NextCell(f[n], n + 1)]
  <2>2. ASSUME NEW m \in 0 .. n + 1
        PROVE  g[m] = IF m = 0 THEN O!Fresh(O!NewCapacity(o)) ELSE NextCell(g[m - 1], m)
    <3> HIDE DEF NextCell
    <3>1. \A l \in 0 .. n : f[l] = IF l = 0 THEN O!Fresh(O!NewCapacity(o)) ELSE NextCell(f[l - 1], l)
      BY <2>1 DEF IsCopies, NextCell
    <3> QED BY <3>1
  <2>3. IsCopies(g, o, n + 1)
    <3> DEFINE r == [m \in 0 .. n + 1 |-> IF m = 0 THEN O!Fresh(O!NewCapacity(o)) ELSE NextCell(g[m - 1], m)]
    <3>1. g = r
      <4> HIDE DEF NextCell
      <4> QED BY <2>2
    <3> QED BY <3>1 DEF IsCopies
  <2> QED BY <2>3
<1> HIDE DEF T
<1>3. N \in T
  <2>1. \A n \in 0 .. N : n \in T
    BY <1>1, <1>2, SetInduction
  <2> QED BY <2>1
<1> QED BY <1>3 DEF T

(* json_object_grow_and_rehash keeps the items, and makes room for one. *)
LEMMA GrownKeeps ==
    ASSUME O!Parameters, NEW o, ObjInv(o), NEW p, p = O!Grown(o)
    PROVE  ObjInv(p) /\ Same(o, p) /\ p.count < O!ItemCapacity(p.cap)
<1> DEFINE N == o.count
           cap == O!NewCapacity(o)
           f == CHOOSE g : IsCopies(g, o, N)
<1>1. N \in Nat /\ o.cap \in Nat /\ N <= O!ItemCapacity(o.cap)
  BY DEF ObjInv, ObjType
<1>2. IsCopies(f, o, N)
  BY <1>1, CopiesExist
<1>3. p = f[N]
  BY DEF O!Grown, IsCopies
<1> HIDE DEF f
<1>4. /\ f[0] = O!Fresh(cap)
      /\ \A n \in 0 .. N - 1 : f[n + 1] = O!Appended(f[n], o.items[n].name, o.items[n].value)
  <2>1. \A m \in 0 .. N : f[m] = IF m = 0 THEN O!Fresh(cap)
                                 ELSE O!Appended(f[m - 1], o.items[m - 1].name, o.items[m - 1].value)
    BY <1>2, Zenon DEF IsCopies
  <2>2. 0 \in 0 .. N /\ \A n \in 0 .. N - 1 : n + 1 \in 0 .. N /\ n + 1 # 0 /\ n + 1 - 1 = n
    BY <1>1
  <2> QED BY <2>1, <2>2
<1>5. cap \in Nat /\ N < O!ItemCapacity(cap)
  <2>1. cap \in Nat /\ cap >= 2 * o.cap /\ cap > 1
    BY <1>1 DEF O!NewCapacity, O!Parameters
  <2>2. O!ItemCapacity(o.cap) < O!ItemCapacity(cap) /\ O!ItemCapacity(cap) \in Nat /\ O!ItemCapacity(o.cap) \in Nat
    BY <1>1, <2>1, Capacities
  <2> QED BY <1>1, <2>1, <2>2
<1> HIDE DEF cap
<1> DEFINE T == {n \in 0 .. N :
                   /\ ObjInv(f[n]) /\ f[n].cap = cap /\ f[n].count = n
                   /\ \A i \in 0 .. n - 1 : f[n].items[i].name = o.items[i].name /\ f[n].items[i].value = o.items[i].value}
<1>6. 0 \in T
  BY <1>1, <1>4, <1>5, FreshIs
<1>7. ASSUME NEW n \in 0 .. N - 1, n \in T
      PROVE  n + 1 \in T
  <2> DEFINE k == o.items[n].name
             v == o.items[n].value
             a == f[n]
             b == f[n + 1]
  <2>1. /\ ObjInv(a) /\ a.cap = cap /\ a.count = n
        /\ \A i \in 0 .. n - 1 : a.items[i].name = o.items[i].name /\ a.items[i].value = o.items[i].value
        /\ b = O!Appended(a, k, v)
    BY <1>4, <1>7
  <2> HIDE DEF a, b
  <2>2. k \in Keys /\ v \in Values /\ \A i \in 0 .. n - 1 : o.items[i].name # k
    <3>1. n \in Members(o) /\ \A i \in 0 .. n - 1 : i \in Members(o) /\ i # n
      BY <1>1 DEF Members
    <3> QED BY <3>1 DEF ObjInv, Linked, ItemRecords
  <2> HIDE DEF k, v
  <2>3. Members(a) = 0 .. n - 1
    BY <2>1 DEF Members
  <2>4. a.count < O!ItemCapacity(a.cap)
    BY <1>1, <1>5, <2>1, Capacities
  <2>5. /\ ObjInv(b) /\ b.cap = a.cap /\ b.count = a.count + 1
        /\ \A i \in Members(a) : b.items[i] = a.items[i]
        /\ b.items[a.count].name = k /\ b.items[a.count].value = v
    BY <2>1, <2>2, <2>3, <2>4, AppendedKeeps
  <2>6. \A i \in 0 .. n + 1 - 1 : b.items[i].name = o.items[i].name /\ b.items[i].value = o.items[i].value
    BY <2>1, <2>3, <2>5 DEF k, v
  <2>7. n + 1 \in 0 .. N /\ b.cap = cap /\ b.count = n + 1
    BY <1>1, <2>1, <2>5
  <2> QED BY <2>5, <2>6, <2>7 DEF b
<1> HIDE DEF T
<1>8. N \in T
  <2>1. \A n \in 0 .. N : n \in T
    BY <1>1, <1>6, <1>7, SetInduction
  <2> QED BY <1>1, <2>1
<1> QED BY <1>3, <1>5, <1>8 DEF T, Same, Members

(* So there is room, or it is made. *)
LEMMA RoomKeeps ==
    ASSUME O!Parameters, NEW o, ObjInv(o), NEW p, p = O!Room(o)
    PROVE  ObjInv(p) /\ Same(o, p) /\ p.count < O!ItemCapacity(p.cap)
<1>1. CASE O!IsFull(o)
  BY <1>1, GrownKeeps DEF O!Room
<1>2. CASE ~O!IsFull(o)
  <2>1. o.count \in Nat /\ O!ItemCapacity(o.cap) \in Nat
    BY Capacities DEF ObjInv, ObjType
  <2> QED BY <1>2, <2>1 DEF O!Room, O!IsFull, Same
<1> QED BY <1>1, <1>2

(* json_object_set_value of a name that is there. *)
Renewed(o, i, v) == [o EXCEPT !.items[i].value = v]

(* Another value under the same name changes nothing else. *)
LEMMA RenewedKeeps ==
    ASSUME O!Parameters, NEW o, ObjInv(o), NEW i \in Members(o), NEW v \in Values,
           NEW p, p = Renewed(o, i, v)
    PROVE  /\ ObjInv(p) /\ p.count = o.count
           /\ \A j \in Members(o) : p.items[j].name = o.items[j].name
                                    /\ p.items[j].value = IF j = i THEN v ELSE o.items[j].value
<1>1. /\ o = [cap |-> o.cap, count |-> o.count, cells |-> o.cells, items |-> o.items]
      /\ o.items = [j \in 0 .. O!ItemCapacity(o.cap) - 1 |-> o.items[j]]
      /\ Members(o) \subseteq 0 .. O!ItemCapacity(o.cap) - 1
      /\ o.items[i] \in ItemRecords
  <2>1. O!ItemCapacity(o.cap) \in Nat
    BY Capacities DEF ObjInv, ObjType
  <2>2. o.count \in Nat /\ o.count <= O!ItemCapacity(o.cap)
    BY DEF ObjInv, ObjType
  <2>3. Members(o) \subseteq 0 .. O!ItemCapacity(o.cap) - 1
    BY <2>1, <2>2 DEF Members
  <2> QED BY <2>3 DEF ObjInv, ObjType, Linked
<1> DEFINE it == [o.items[i] EXCEPT !.value = v]
<1>2. /\ p.cap = o.cap /\ p.count = o.count /\ p.cells = o.cells
      /\ p.items = [o.items EXCEPT ![i] = it]
      /\ p = [cap |-> p.cap, count |-> p.count, cells |-> p.cells, items |-> p.items]
  BY <1>1 DEF Renewed
<1>3. /\ it \in ItemRecords /\ it.name = o.items[i].name /\ it.value = v
      /\ it.cell_ix = o.items[i].cell_ix /\ it.hash = o.items[i].hash
  BY <1>1 DEF ItemRecords
<1> HIDE DEF it
<1>4. p.items[i] = it /\ \A j \in Members(o) : j # i => p.items[j] = o.items[j]
  BY <1>1, <1>2
<1>5. Members(p) = Members(o) /\ CellsOf(p) = CellsOf(o)
  BY <1>2 DEF Members, CellsOf
<1>6. \A j \in Members(o) : /\ p.items[j] \in ItemRecords /\ p.items[j].name = o.items[j].name
                            /\ p.items[j].cell_ix = o.items[j].cell_ix /\ p.items[j].hash = o.items[j].hash
                            /\ p.items[j].value = IF j = i THEN v ELSE o.items[j].value
  BY <1>3, <1>4 DEF ObjInv, Linked
<1>7. ObjType(p)
  <2>1. p.items = [j \in 0 .. O!ItemCapacity(p.cap) - 1 |-> p.items[j]]
    BY <1>1, <1>2
  <2>2. ObjType(o)
    BY DEF ObjInv
  <2> QED BY <1>2, <1>5, <2>1, <2>2 DEF ObjType
<1>8. Linked(p, -1)
  BY <1>2, <1>5, <1>6 DEF ObjInv, Linked
<1>9. Reached(p)
  BY <1>2, <1>5, <1>6 DEF ObjInv, Reached, HomeOf
<1> QED BY <1>2, <1>6, <1>7, <1>8, <1>9 DEF ObjInv

--------------------------------------------------------------------------
(* The item that is removed gives its place to the last one, and leaves its cell as a gap. *)
LEMMA LastMovedIs ==
    ASSUME O!Parameters, NEW o, ObjInv(o), NEW i \in Members(o), NEW p, p = O!LastMoved(o, i),
           NEW cell, cell = o.items[i].cell_ix
    PROVE  /\ ObjType(p) /\ Linked(p, cell) /\ Reached(p)
           /\ p.cap = o.cap /\ p.count = o.count - 1
           /\ cell \in CellsOf(p) /\ p.cells[cell] # OBJECT_INVALID_IX
           /\ \A c \in CellsOf(o) : p.cells[c] = OBJECT_INVALID_IX <=> o.cells[c] = OBJECT_INVALID_IX
           /\ \A j \in Members(p) : p.items[j] = o.items[IF j = i THEN o.count - 1 ELSE j]
<1> DEFINE n == o.cap
           most == O!ItemCapacity(n)
           last == o.count - 1
           it == o.items[last]
           lc == it.cell_ix
<1>1. /\ n \in Nat /\ o.count \in Nat /\ most \in Nat /\ o.count <= most /\ OBJECT_INVALID_IX \notin Nat
      /\ i \in 0 .. last /\ last \in Nat /\ Members(o) = 0 .. last
      /\ o = [cap |-> n, count |-> o.count, cells |-> o.cells, items |-> o.items]
      /\ o.cells \in [CellsOf(o) -> Nat \cup {OBJECT_INVALID_IX}]
      /\ o.items = [j \in 0 .. most - 1 |-> o.items[j]]
  <2>1. n \in Nat /\ o.count \in Nat /\ most \in Nat
    BY Capacities DEF ObjInv, ObjType
  <2>2. i \in 0 .. last /\ last \in Nat /\ Members(o) = 0 .. last
    BY <2>1 DEF Members
  <2> QED BY <2>1, <2>2 DEF ObjInv, ObjType, O!Parameters
<1>2. \A j \in 0 .. last : j \in 0 .. most - 1
  BY <1>1
<1>3. /\ \A j \in 0 .. last :
            /\ o.items[j] \in ItemRecords /\ o.items[j].hash = Hash[o.items[j].name]
            /\ o.items[j].cell_ix \in CellsOf(o) /\ o.cells[o.items[j].cell_ix] = j
      /\ \A c \in CellsOf(o) : o.cells[c] # OBJECT_INVALID_IX =>
            o.cells[c] \in 0 .. last /\ o.items[o.cells[c]].cell_ix = c
      /\ \A j, l \in 0 .. last : o.items[j].name = o.items[l].name => j = l
  <2>1. \A c \in CellsOf(o) : c # -1
    BY <1>1 DEF CellsOf
  <2> QED BY <1>1, <2>1 DEF ObjInv, Linked
<1>4. lc \in CellsOf(o) /\ o.cells[lc] = last /\ cell \in CellsOf(o) /\ o.cells[cell] = i
  <2>1. last \in 0 .. last
    BY <1>1
  <2> HIDE DEF last
  <2> QED BY <1>1, <1>3, <2>1
<1> HIDE DEF lc, it, last, most
<1>5. /\ p.cap = n /\ p.count = last
      /\ p.cells = IF i < last THEN [o.cells EXCEPT ![lc] = i] ELSE o.cells
      /\ p.items = IF i < last THEN [o.items EXCEPT ![last] = NULL, ![i] = it] ELSE [o.items EXCEPT ![last] = NULL]
      /\ p = [cap |-> p.cap, count |-> p.count, cells |-> p.cells, items |-> p.items]
  <2>1. CASE i < last
    BY <1>1, <2>1 DEF O!LastMoved, lc, it, last
  <2>2. CASE ~(i < last)
    BY <1>1, <2>2 DEF O!LastMoved, lc, it, last
  <2> QED BY <2>1, <2>2
<1>6. Members(p) = 0 .. last - 1 /\ CellsOf(p) = CellsOf(o)
  BY <1>5 DEF Members, CellsOf
<1>7. \A j \in 0 .. last - 1 : p.items[j] = IF j = i THEN it ELSE o.items[j]
  BY <1>1, <1>2, <1>5
<1>8. /\ \A c \in CellsOf(o) : c # lc => p.cells[c] = o.cells[c]
      /\ i < last => p.cells[lc] = i
      /\ ~(i < last) => p.cells[lc] = last /\ lc = cell /\ i = last
  <2>1. \A c \in CellsOf(o) : c # lc => p.cells[c] = o.cells[c]
    BY <1>1, <1>5
  <2>2. i < last => p.cells[lc] = i
    BY <1>1, <1>4, <1>5
  <2>3. ~(i < last) => p.cells[lc] = last /\ i = last
    BY <1>1, <1>4, <1>5
  <2>4. i = last => lc = cell
    BY DEF lc, it
  <2> QED BY <2>1, <2>2, <2>3, <2>4
<1>9. ObjType(p)
  <2>1. p.cells \in [CellsOf(p) -> Nat \cup {OBJECT_INVALID_IX}]
    <3>1. [o.cells EXCEPT ![lc] = i] \in [CellsOf(o) -> Nat \cup {OBJECT_INVALID_IX}]
      <4>1. i \in Nat
        BY <1>1
      <4>2. o.cells \in [CellsOf(o) -> Nat \cup {OBJECT_INVALID_IX}]
        BY <1>1
      <4> QED BY <4>1, <4>2
    <3> QED BY <1>1, <1>5, <1>6, <3>1
  <2>2. p.items = [j \in 0 .. O!ItemCapacity(p.cap) - 1 |-> p.items[j]]
    BY <1>1, <1>5 DEF most
  <2>3. p.cap \in Nat /\ p.count \in Nat /\ p.count <= O!ItemCapacity(p.cap)
    BY <1>1, <1>5 DEF most, last
  <2> QED BY <1>5, <2>1, <2>2, <2>3 DEF ObjType
<1>10. \A c \in CellsOf(o) : p.cells[c] = OBJECT_INVALID_IX <=> o.cells[c] = OBJECT_INVALID_IX
  <2>1. i # OBJECT_INVALID_IX /\ last # OBJECT_INVALID_IX
    BY <1>1
  <2> QED BY <1>4, <1>8, <2>1
<1>11. Linked(p, cell)
  <2>1. ASSUME NEW j \in 0 .. last - 1
        PROVE  /\ p.items[j] \in ItemRecords /\ p.items[j].hash = Hash[p.items[j].name]
               /\ p.items[j].cell_ix \in CellsOf(o) /\ p.items[j].cell_ix # cell
               /\ p.cells[p.items[j].cell_ix] = j
    <3>1. j \in 0 .. last /\ last \in 0 .. last /\ j # last
      BY <1>1
    <3>2. CASE j = i
      <4>1. i < last /\ p.items[j] = it /\ cell # lc
        <5>1. i < last /\ i # last
          BY <1>1, <3>1, <3>2
        <5>2. p.items[j] = it
          BY <1>7, <3>2
        <5> QED BY <1>4, <5>1, <5>2
      <4> QED BY <1>3, <1>4, <1>8, <3>1, <3>2, <4>1 DEF it, lc
    <3>3. CASE j # i
      <4>1. p.items[j] = o.items[j]
        BY <1>7, <3>3
      <4>2. o.items[j].cell_ix # lc /\ o.items[j].cell_ix # cell
        BY <1>3, <1>4, <3>1, <3>3
      <4> QED BY <1>3, <1>8, <3>1, <4>1, <4>2
    <3> QED BY <3>2, <3>3
  <2>2. ASSUME NEW c \in CellsOf(o), c # cell, p.cells[c] # OBJECT_INVALID_IX
        PROVE  p.cells[c] \in 0 .. last - 1 /\ p.items[p.cells[c]].cell_ix = c
    <3>1. CASE c = lc
      <4>1. i < last /\ p.cells[c] = i /\ i \in 0 .. last - 1
        BY <1>1, <1>8, <2>2, <3>1
      <4>2. p.items[i] = it
        BY <1>7, <4>1
      <4> QED BY <3>1, <4>1, <4>2 DEF lc
    <3>2. CASE c # lc
      <4>1. p.cells[c] = o.cells[c] /\ o.cells[c] \in 0 .. last /\ o.items[o.cells[c]].cell_ix = c
        BY <1>3, <1>8, <2>2, <3>2
      <4>2. o.cells[c] # i /\ o.cells[c] # last
        BY <2>2, <3>2, <4>1 DEF lc, it
      <4>3. o.cells[c] \in 0 .. last - 1
        BY <1>1, <4>1, <4>2
      <4> QED BY <1>7, <4>1, <4>2, <4>3
    <3> QED BY <3>1, <3>2
  <2>3. ASSUME NEW j \in 0 .. last - 1, NEW l \in 0 .. last - 1, p.items[j].name = p.items[l].name
        PROVE  j = l
    <3>1. j \in 0 .. last /\ l \in 0 .. last /\ last \in 0 .. last /\ j # last /\ l # last
      BY <1>1
    <3> QED BY <1>3, <1>7, <2>3, <3>1 DEF it
  <2> QED BY <1>6, <2>1, <2>2, <2>3 DEF Linked
<1>12. Reached(p)
  <2> SUFFICES ASSUME NEW j \in 0 .. last - 1, NEW x \in CellsOf(o),
                      OnPath(x, HomeOf(p, j), p.items[j].cell_ix)
               PROVE  o.cells[x] # OBJECT_INVALID_IX
    BY <1>6, <1>10 DEF Reached
  <2>1. PICK l \in 0 .. last : p.items[j] = o.items[l]
    <3>1. j \in 0 .. last /\ last \in 0 .. last
      BY <1>1
    <3> QED BY <1>7, <3>1 DEF it
  <2>2. HomeOf(p, j) = HomeOf(o, l)
    BY <1>5, <2>1 DEF HomeOf
  <2> QED BY <1>1, <2>1, <2>2 DEF ObjInv, Reached, last
<1>13. p.cells[cell] # OBJECT_INVALID_IX
  BY <1>1, <1>4, <1>10
<1> QED BY <1>4, <1>5, <1>6, <1>7, <1>9, <1>10, <1>11, <1>12, <1>13 DEF it, last

--------------------------------------------------------------------------
(* The cells as a circle: g is the gap, j the cell that is looked at, h the home and c the *)
(* cell of an item; the loop began at cell b.                                              *)
LEMMA Circle ==
    ASSUME NEW n \in Nat, NEW b \in 0 .. n - 1, NEW g \in 0 .. n - 1, NEW j \in 0 .. n - 1,
           Dist(b, g, n) < Dist(b, j, n), NEW h \in 0 .. n - 1
    PROVE  /\ OnPath(g, h, j) <=> \/ j > g /\ (h <= g \/ h > j)
                                  \/ j < g /\ h <= g /\ h > j
           /\ OnPath(g, h, j) => /\ ~OnPath(j, h, g)
                                 /\ \A x \in 0 .. n - 1 : OnPath(x, h, g) => OnPath(x, h, j)
           /\ \A c \in 0 .. n - 1 : Dist(b, j, n) < Dist(b, c, n) /\ OnPath(g, h, c) => OnPath(j, h, c)
           /\ \A c, z \in 0 .. n - 1 :
                 Dist(b, c, n) < Dist(b, j, n) /\ Dist(b, j, n) < Dist(b, z, n) /\ OnPath(j, h, c) => OnPath(z, h, c)
BY DEF OnPath, Dist

(* The loop of json_object_remove_internal, when x cells after the removed one have been   *)
(* looked at: every item but those of cells that are still to come is reached without the  *)
(* gap.                                                                                    *)
Turning(o, cell, s, x) ==
    /\ s = [o |-> s.o, gap |-> s.gap, ends |-> s.ends] /\ s.ends \in BOOLEAN
    /\ ObjType(s.o) /\ s.o.cap = o.cap /\ Same(o, s.o)
    /\ s.gap \in CellsOf(o) /\ Dist(cell, s.gap, o.cap) <= x
    /\ Linked(s.o, s.gap) /\ Reached(s.o)
    /\ \A c \in CellsOf(o) : s.o.cells[c] = OBJECT_INVALID_IX <=> o.cells[c] = OBJECT_INVALID_IX
    /\ s.ends => \A i \in Members(o) : ~OnPath(s.gap, HomeOf(s.o, i), s.o.items[i].cell_ix)
    /\ ~s.ends =>
          /\ \A c \in CellsOf(o) : Dist(cell, c, o.cap) <= x => o.cells[c] # OBJECT_INVALID_IX
          /\ \A i \in Members(o) : OnPath(s.gap, HomeOf(s.o, i), s.o.items[i].cell_ix) =>
                                       Dist(cell, s.o.items[i].cell_ix, o.cap) > x

(* A turn of the loop. *)
Turn(o, cell, s, x) ==
    LET j == (cell + x) % o.cap
    IN CASE s.ends \/ s.o.cells[j] = OBJECT_INVALID_IX -> [s EXCEPT !.ends = TRUE]
         [] ~s.ends /\ s.o.cells[j] # OBJECT_INVALID_IX ->
                IF O!MustMove(s.o, s.gap, j)
                THEN [o |-> O!Moved(s.o, s.gap, j), gap |-> j, ends |-> FALSE]
                ELSE s

(* An item that a lookup would no longer reach is moved into the gap. *)
LEMMA MovedKeeps ==
    ASSUME O!Parameters, NEW o, ObjType(o), NEW g \in CellsOf(o), Linked(o, g), Reached(o),
           NEW j \in CellsOf(o), j # g, o.cells[j] # OBJECT_INVALID_IX,
           OnPath(g, HomeOf(o, o.cells[j]), j), o.cells[g] # OBJECT_INVALID_IX,
           ~OnPath(j, HomeOf(o, o.cells[j]), g),
           \A x \in CellsOf(o) : OnPath(x, HomeOf(o, o.cells[j]), g) => OnPath(x, HomeOf(o, o.cells[j]), j),
           NEW p, p = O!Moved(o, g, j)
    PROVE  /\ ObjType(p) /\ Linked(p, j) /\ Reached(p) /\ p.cap = o.cap /\ Same(o, p)
           /\ \A c \in CellsOf(o) : p.cells[c] = OBJECT_INVALID_IX <=> o.cells[c] = OBJECT_INVALID_IX
           /\ \A i \in Members(o) : HomeOf(p, i) = HomeOf(o, i)
           /\ o.cells[j] \in Members(o) /\ p.items[o.cells[j]].cell_ix = g
           /\ \A i \in Members(o) : i # o.cells[j] => p.items[i].cell_ix = o.items[i].cell_ix
                                                      /\ o.items[i].cell_ix # j
<1> DEFINE m == o.cells[j]
           most == O!ItemCapacity(o.cap)
           it == [o.items[m] EXCEPT !.cell_ix = g]
<1>1. m \in Members(o) /\ o.items[m].cell_ix = j /\ o.items[m] \in ItemRecords /\ m \in Nat
      /\ o.items[m].hash = Hash[o.items[m].name]
  BY DEF Linked, Members
<1>2. /\ o = [cap |-> o.cap, count |-> o.count, cells |-> o.cells, items |-> o.items]
      /\ o.items = [i \in 0 .. most - 1 |-> o.items[i]]
      /\ o.cells \in [CellsOf(o) -> Nat \cup {OBJECT_INVALID_IX}]
      /\ o.cap \in Nat /\ OBJECT_INVALID_IX \notin Nat
  BY DEF ObjType, O!Parameters
<1>3. Members(o) \subseteq 0 .. most - 1
  <2>1. o.count \in Nat /\ o.count <= most /\ most \in Nat
    BY Capacities DEF ObjType
  <2> QED BY <2>1 DEF Members
<1>4. /\ it \in ItemRecords /\ it.cell_ix = g /\ it.name = o.items[m].name /\ it.value = o.items[m].value
      /\ it.hash = o.items[m].hash
  <2>1. g \in Nat
    BY <1>2 DEF CellsOf
  <2> QED BY <1>1, <2>1 DEF ItemRecords
<1> HIDE DEF m, most, it
<1>5. /\ p.cap = o.cap /\ p.count = o.count
      /\ p.cells = [o.cells EXCEPT ![g] = m] /\ p.items = [o.items EXCEPT ![m] = it]
      /\ p = [cap |-> p.cap, count |-> p.count, cells |-> p.cells, items |-> p.items]
  BY <1>2 DEF O!Moved, m, it
<1>6. Members(p) = Members(o) /\ CellsOf(p) = CellsOf(o)
  BY <1>5 DEF Members, CellsOf
<1>7. /\ p.items[m] = it /\ \A i \in Members(o) : i # m => p.items[i] = o.items[i]
      /\ p.cells[g] = m /\ \A c \in CellsOf(o) : c # g => p.cells[c] = o.cells[c]
  BY <1>1, <1>2, <1>3, <1>5
<1>8. ObjType(p)
  <2>1. p.cells \in [CellsOf(p) -> Nat \cup {OBJECT_INVALID_IX}]
    BY <1>1, <1>2, <1>5, <1>6
  <2>2. p.items = [i \in 0 .. O!ItemCapacity(p.cap) - 1 |-> p.items[i]]
    BY <1>2, <1>5 DEF most
  <2>3. p.cap \in Nat /\ p.count \in Nat /\ p.count <= O!ItemCapacity(p.cap)
    BY <1>5 DEF ObjType
  <2> QED BY <1>5, <2>1, <2>2, <2>3 DEF ObjType
<1>9. \A i \in Members(o) : i # m => /\ o.items[i].cell_ix # j /\ o.items[i].cell_ix # g
                                     /\ o.items[i].cell_ix \in CellsOf(o) /\ o.cells[o.items[i].cell_ix] = i
  BY DEF Linked, m
<1>10. Linked(p, j)
  <2>1. ASSUME NEW i \in Members(o)
        PROVE  /\ p.items[i] \in ItemRecords /\ p.items[i].hash = Hash[p.items[i].name]
               /\ p.items[i].cell_ix \in CellsOf(o) /\ p.items[i].cell_ix # j
               /\ p.cells[p.items[i].cell_ix] = i
    <3>1. CASE i = m
      BY <1>1, <1>4, <1>7, <3>1
    <3>2. CASE i # m
      BY <1>7, <1>9, <3>2 DEF Linked
    <3> QED BY <3>1, <3>2
  <2>2. ASSUME NEW c \in CellsOf(o), c # j, p.cells[c] # OBJECT_INVALID_IX
        PROVE  p.cells[c] \in Members(o) /\ p.items[p.cells[c]].cell_ix = c
    <3>1. CASE c = g
      BY <1>1, <1>4, <1>7, <3>1
    <3>2. CASE c # g
      <4>1. p.cells[c] = o.cells[c] /\ o.cells[c] \in Members(o) /\ o.items[o.cells[c]].cell_ix = c
        BY <1>7, <2>2, <3>2 DEF Linked
      <4> QED BY <1>1, <1>7, <2>2, <4>1
    <3> QED BY <3>1, <3>2
  <2>3. \A i, l \in Members(o) : p.items[i].name = p.items[l].name => i = l
    BY <1>1, <1>4, <1>7 DEF Linked
  <2> QED BY <1>6, <2>1, <2>2, <2>3 DEF Linked
<1>11. \A c \in CellsOf(o) : p.cells[c] = OBJECT_INVALID_IX <=> o.cells[c] = OBJECT_INVALID_IX
  BY <1>1, <1>2, <1>7
<1>12. \A i \in Members(o) : HomeOf(p, i) = HomeOf(o, i)
  <2>1. \A i \in Members(o) : p.items[i].hash = o.items[i].hash
    BY <1>1, <1>4, <1>7
  <2> QED BY <1>5, <2>1 DEF HomeOf
<1>13. Reached(p)
  <2> SUFFICES ASSUME NEW i \in Members(o), NEW x \in CellsOf(o),
                      OnPath(x, HomeOf(o, i), p.items[i].cell_ix)
               PROVE  o.cells[x] # OBJECT_INVALID_IX
    BY <1>6, <1>11, <1>12 DEF Reached
  <2>1. CASE i = m
    <3>1. OnPath(x, HomeOf(o, m), j)
      BY <1>4, <1>7, <2>1 DEF m
    <3> QED BY <1>1, <3>1 DEF Reached
  <2>2. CASE i # m
    BY <1>7, <2>2 DEF Reached
  <2> QED BY <2>1, <2>2
<1>14. Same(o, p)
  BY <1>1, <1>4, <1>5, <1>7 DEF Same
<1> QED BY <1>1, <1>4, <1>5, <1>7, <1>8, <1>9, <1>10, <1>11, <1>12, <1>13, <1>14 DEF m

(* A turn keeps what is said of the loop. *)
LEMMA TurnKeeps ==
    ASSUME O!Parameters, NEW o, ObjType(o), NEW cell \in CellsOf(o), NEW z \in CellsOf(o), o.cells[z] = OBJECT_INVALID_IX,
           NEW x \in 0 .. o.cap - 2, NEW s, Turning(o, cell, s, x),
           NEW t, t = Turn(o, cell, s, x + 1)
    PROVE  Turning(o, cell, t, x + 1)
<1> DEFINE n == o.cap
           y == x + 1
           j == (cell + y) % n
           g == s.gap
           u == s.o
<1>1. n \in Nat /\ n > 0 /\ cell \in 0 .. n - 1 /\ y \in 0 .. n - 1 /\ y = x + 1 /\ x \in Nat
  BY DEF ObjType, CellsOf
<1>2. j = Place(cell, y, n) /\ j \in 0 .. n - 1 /\ Dist(cell, j, n) = y
  <2>1. cell % n = cell
    BY <1>1
  <2>2. j = Place(cell, y, n)
    BY <1>1, <2>1, ProbeIs
  <2> HIDE DEF j, y
  <2>3. \A i \in 0 .. n - 1 : Place(cell, i, n) \in 0 .. n - 1 /\ Dist(cell, Place(cell, i, n), n) = i
    BY <1>1, Distances
  <2> QED BY <1>1, <2>2, <2>3
<1> HIDE DEF j, y
<1>3. /\ s = [o |-> u, gap |-> g, ends |-> s.ends] /\ s.ends \in BOOLEAN
      /\ ObjType(u) /\ u.cap = n /\ Same(o, u)
      /\ g \in CellsOf(o) /\ Dist(cell, g, n) <= x
      /\ Linked(u, g) /\ Reached(u)
      /\ \A c \in CellsOf(o) : u.cells[c] = OBJECT_INVALID_IX <=> o.cells[c] = OBJECT_INVALID_IX
      /\ s.ends => \A i \in Members(o) : ~OnPath(g, HomeOf(u, i), u.items[i].cell_ix)
      /\ ~s.ends =>
            /\ \A c \in CellsOf(o) : Dist(cell, c, n) <= x => o.cells[c] # OBJECT_INVALID_IX
            /\ \A i \in Members(o) : OnPath(g, HomeOf(u, i), u.items[i].cell_ix) =>
                                         Dist(cell, u.items[i].cell_ix, n) > x
  BY DEF Turning
<1>4. CellsOf(o) = 0 .. n - 1 /\ CellsOf(u) = CellsOf(o) /\ Members(u) = Members(o)
  BY <1>3 DEF CellsOf, Members, Same
<1>5. j \in CellsOf(o) /\ Dist(cell, g, n) < Dist(cell, j, n) /\ j # g /\ Dist(cell, g, n) \in Int
  <2>1. \A a \in 0 .. n - 1 : Dist(cell, a, n) \in 0 .. n - 1
    BY <1>1, Distances
  <2>2. Dist(cell, g, n) \in 0 .. n - 1 /\ Dist(cell, g, n) <= x
    BY <1>3, <1>4, <2>1
  <2>3. Dist(cell, g, n) < y
    BY <1>1, <2>2
  <2> QED BY <1>1, <1>2, <1>4, <2>2, <2>3
<1>6. \A i \in Members(o) : HomeOf(u, i) \in 0 .. n - 1 /\ u.items[i].cell_ix \in 0 .. n - 1
                            /\ u.cells[u.items[i].cell_ix] = i /\ i # OBJECT_INVALID_IX
  <2>1. \A i \in Members(u) : HomeOf(u, i) \in CellsOf(u)
    BY <1>3, HomeType
  <2>2. \A i \in Members(u) : i \in Nat /\ OBJECT_INVALID_IX \notin Nat
    BY <1>3 DEF Members, ObjType, O!Parameters
  <2> QED BY <1>3, <1>4, <2>1, <2>2 DEF Linked
<1>7. ASSUME NEW h \in 0 .. n - 1
      PROVE  /\ OnPath(g, h, j) <=> \/ j > g /\ (h <= g \/ h > j)
                                    \/ j < g /\ h <= g /\ h > j
             /\ OnPath(g, h, j) => /\ ~OnPath(j, h, g)
                                   /\ \A a \in 0 .. n - 1 : OnPath(a, h, g) => OnPath(a, h, j)
             /\ \A c \in 0 .. n - 1 : Dist(cell, j, n) < Dist(cell, c, n) /\ OnPath(g, h, c) => OnPath(j, h, c)
             /\ \A c, a \in 0 .. n - 1 :
                   Dist(cell, c, n) < Dist(cell, j, n) /\ Dist(cell, j, n) < Dist(cell, a, n) /\ OnPath(j, h, c)
                       => OnPath(a, h, c)
  <2>1. g \in 0 .. n - 1
    BY <1>3, <1>4
  <2> QED BY <1>1, <1>2, <1>5, <2>1, Circle
<1>8. ASSUME NEW c \in 0 .. n - 1
      PROVE  Dist(cell, c, n) \in 0 .. n - 1 /\ (Dist(cell, c, n) = y => c = j)
  <2>1. Dist(cell, c, n) \in 0 .. n - 1 /\ Place(cell, Dist(cell, c, n), n) = c
    BY <1>1, Distances
  <2> QED BY <1>2, <2>1
<1>9. CASE s.ends
  <2>1. t = [o |-> u, gap |-> g, ends |-> TRUE]
    BY <1>3, <1>9 DEF Turn, y, j
  <2>2. t.o = u /\ t.gap = g /\ t.ends = TRUE /\ Dist(cell, g, n) <= y
    BY <1>1, <1>5, <1>3, <2>1
  <2> QED BY <1>3, <1>9, <2>1, <2>2 DEF Turning, y
<1>10. CASE ~s.ends /\ u.cells[j] = OBJECT_INVALID_IX
  <2>1. t = [o |-> u, gap |-> g, ends |-> TRUE]
    BY <1>3, <1>10 DEF Turn, y, j
  <2>2. t.o = u /\ t.gap = g /\ t.ends = TRUE /\ Dist(cell, g, n) <= y
    BY <1>1, <1>5, <1>3, <2>1
  <2>3. ASSUME NEW i \in Members(o), OnPath(g, HomeOf(u, i), u.items[i].cell_ix)
        PROVE  FALSE
    <3>1. Dist(cell, u.items[i].cell_ix, n) > x /\ u.items[i].cell_ix # j
      BY <1>3, <1>6, <1>10, <2>3
    <3>2. Dist(cell, u.items[i].cell_ix, n) > y
      BY <1>1, <1>6, <1>8, <3>1
    <3>3. OnPath(j, HomeOf(u, i), u.items[i].cell_ix)
      BY <1>2, <1>6, <1>7, <2>3, <3>2
    <3> QED BY <1>3, <1>4, <1>5, <1>10, <3>3 DEF Reached
  <2> QED BY <1>3, <2>1, <2>2, <2>3 DEF Turning, y
<1>11. CASE ~s.ends /\ u.cells[j] # OBJECT_INVALID_IX
  <2> DEFINE m == u.cells[j]
  <2>1. m \in Members(o) /\ u.items[m].cell_ix = j /\ HomeOf(u, m) \in 0 .. n - 1
        /\ o.cells[j] # OBJECT_INVALID_IX
    BY <1>3, <1>4, <1>5, <1>6, <1>11 DEF Linked
  <2>2. O!MustMove(u, g, j) <=> OnPath(g, HomeOf(u, m), j)
    <3>1. HomeOf(u, m) = O!Home(u, j)
      BY DEF HomeOf, O!Home
    <3> QED BY <1>7, <2>1, <3>1 DEF O!MustMove
  <2>3. \A c \in CellsOf(o) : Dist(cell, c, n) <= y => o.cells[c] # OBJECT_INVALID_IX
    <3> SUFFICES ASSUME NEW c \in CellsOf(o), Dist(cell, c, n) <= y
                 PROVE  o.cells[c] # OBJECT_INVALID_IX
      OBVIOUS
    <3>1. Dist(cell, c, n) <= x \/ c = j
      <4>1. Dist(cell, c, n) \in 0 .. n - 1 /\ (Dist(cell, c, n) = y => c = j)
        BY <1>4, <1>8
      <4> QED BY <1>1, <4>1
    <3> QED BY <1>3, <1>11, <2>1, <3>1
  <2>4. CASE O!MustMove(u, g, j)
    <3>1. t = [o |-> O!Moved(u, g, j), gap |-> j, ends |-> FALSE]
      BY <1>11, <2>4 DEF Turn, y, j
    <3> DEFINE p == t.o
    <3>2. p = O!Moved(u, g, j) /\ t.gap = j /\ t.ends = FALSE /\ t = [o |-> p, gap |-> j, ends |-> FALSE]
      <4>1. t.o = O!Moved(u, g, j) /\ t.gap = j /\ t.ends = FALSE
        BY <3>1
      <4> QED BY <3>1, <4>1
    <3> HIDE DEF p
    <3>3. OnPath(g, HomeOf(u, m), j) /\ ~OnPath(j, HomeOf(u, m), g)
          /\ \A a \in CellsOf(u) : OnPath(a, HomeOf(u, m), g) => OnPath(a, HomeOf(u, m), j)
      BY <1>4, <1>7, <2>1, <2>2, <2>4
    <3>4. u.cells[g] # OBJECT_INVALID_IX /\ g \in CellsOf(u) /\ j \in CellsOf(u)
      BY <1>3, <1>4, <1>5, <1>11
    <3>5. /\ ObjType(p) /\ Linked(p, j) /\ Reached(p) /\ p.cap = u.cap /\ Same(u, p)
          /\ \A c \in CellsOf(u) : p.cells[c] = OBJECT_INVALID_IX <=> u.cells[c] = OBJECT_INVALID_IX
          /\ \A i \in Members(u) : HomeOf(p, i) = HomeOf(u, i)
          /\ p.items[m].cell_ix = g
          /\ \A i \in Members(u) : i # m => p.items[i].cell_ix = u.items[i].cell_ix
                                           /\ u.items[i].cell_ix # j
      BY <1>3, <1>5, <1>11, <3>2, <3>3, <3>4, MovedKeeps
    <3>6. ASSUME NEW i \in Members(o), OnPath(j, HomeOf(p, i), p.items[i].cell_ix)
          PROVE  Dist(cell, p.items[i].cell_ix, n) > y
      <4>1. i # m
        BY <1>4, <2>1, <3>3, <3>5, <3>6
      <4> DEFINE c == u.items[i].cell_ix
                 h == HomeOf(u, i)
      <4>2. OnPath(j, h, c) /\ c # j /\ p.items[i].cell_ix = c /\ c \in 0 .. n - 1 /\ h \in 0 .. n - 1
        BY <1>4, <1>6, <3>5, <3>6, <4>1
      <4> HIDE DEF c, h
      <4> SUFFICES ASSUME Dist(cell, c, n) <= y
                   PROVE  FALSE
        BY <1>1, <1>8, <4>2
      <4>3. Dist(cell, c, n) < y
        BY <1>1, <1>8, <4>2
      <4>4. Dist(cell, z, n) > y
        BY <1>1, <1>4, <1>8, <2>3
      <4>5. OnPath(z, h, c)
        BY <1>2, <1>4, <1>7, <4>2, <4>3, <4>4, SMTT(60)
      <4>6. u.cells[z] # OBJECT_INVALID_IX
        BY <1>3, <1>4, <4>5 DEF Reached, c, h
      <4> QED BY <1>3, <4>6
    <3>7. Same(o, p)
      BY <1>3, <1>4, <3>5 DEF Same
    <3>8. \A c \in CellsOf(o) : p.cells[c] = OBJECT_INVALID_IX <=> o.cells[c] = OBJECT_INVALID_IX
      BY <1>3, <1>4, <3>5
    <3>9. Dist(cell, j, n) <= y
      BY <1>1, <1>2
    <3> QED BY <1>3, <1>5, <2>3, <3>2, <3>5, <3>6, <3>7, <3>8, <3>9 DEF Turning, p, y
  <2>5. CASE ~O!MustMove(u, g, j)
    <3>1. t = s
      BY <1>11, <2>5 DEF Turn, y, j
    <3>2. ASSUME NEW i \in Members(o), OnPath(g, HomeOf(u, i), u.items[i].cell_ix)
          PROVE  Dist(cell, u.items[i].cell_ix, n) > y
      <4>1. i # m
        BY <2>1, <2>2, <2>5, <3>2
      <4>2. u.items[i].cell_ix # j
        BY <1>6, <4>1
      <4>3. Dist(cell, u.items[i].cell_ix, n) > x
        BY <1>3, <1>11, <3>2
      <4> QED BY <1>1, <1>6, <1>8, <4>2, <4>3
    <3>3. Dist(cell, g, n) <= y
      BY <1>1, <1>3, <1>5
    <3> QED BY <1>3, <1>11, <2>3, <3>1, <3>2, <3>3 DEF Turning, y
  <2> QED BY <2>4, <2>5
<1> QED BY <1>3, <1>9, <1>10, <1>11

(* f is the recursive function of json_object_remove_internal, up to n cells. *)
IsTurns(f, o, cell, n) ==
    f = [x \in 0 .. n |-> IF x = 0 THEN [o |-> o, gap |-> cell, ends |-> FALSE]
                          ELSE Turn(o, cell, f[x - 1], x)]

(* The recursive function of the loop, again. *)
LEMMA TurnsExist ==
    ASSUME NEW o, NEW cell, NEW N \in Nat
    PROVE  \E f : IsTurns(f, o, cell, N)
<1> DEFINE First == [o |-> o, gap |-> cell, ends |-> FALSE]
           T == {n \in 0 .. N : \E f : IsTurns(f, o, cell, n)}
<1>1. 0 \in T
  <2> DEFINE f == [m \in 0 .. 0 |-> First]
  <2>1. IsTurns(f, o, cell, 0)
    BY DEF IsTurns
  <2> QED BY <2>1
<1>2. ASSUME NEW n \in 0 .. N - 1, n \in T
      PROVE  n + 1 \in T
  <2>1. PICK f : IsTurns(f, o, cell, n)
    BY <1>2
  <2> DEFINE g == [m \in 0 .. n + 1 |-> IF m \in 0 .. n THEN f[m] ELSE Turn(o, cell, f[n], n + 1)]
  <2>2. ASSUME NEW m \in 0 .. n + 1
        PROVE  g[m] = IF m = 0 THEN First ELSE Turn(o, cell, g[m - 1], m)
    <3> HIDE DEF First
    <3>1. \A l \in 0 .. n : f[l] = IF l = 0 THEN First ELSE Turn(o, cell, f[l - 1], l)
      BY <2>1 DEF IsTurns, First
    <3> QED BY <3>1
  <2>3. IsTurns(g, o, cell, n + 1)
    BY <2>2 DEF IsTurns
  <2> QED BY <2>3
<1> HIDE DEF T
<1>3. N \in T
  <2>1. \A n \in 0 .. N : n \in T
    BY <1>1, <1>2, SetInduction
  <2> QED BY <2>1
<1> QED BY <1>3 DEF T

(* When the loop has met a free cell, the gap may be one too: nothing is reached through it. *)
LEMMA ShiftedKeeps ==
    ASSUME O!Parameters, NEW o, ObjType(o), NEW cell \in CellsOf(o), Linked(o, cell), Reached(o),
           o.cells[cell] # OBJECT_INVALID_IX, NEW z \in CellsOf(o), o.cells[z] = OBJECT_INVALID_IX,
           NEW p, p = O!Shifted(o, cell)
    PROVE  ObjInv(p) /\ Same(o, p)
<1> DEFINE N == o.cap - 1
           f == CHOOSE g : IsTurns(g, o, cell, N)
           s == f[N]
<1>1. N \in Nat /\ o.cap \in Nat /\ CellsOf(o) = 0 .. N /\ cell \in 0 .. N
  BY DEF ObjType, CellsOf
<1>2. IsTurns(f, o, cell, N)
  BY <1>1, TurnsExist
<1>3. p = [s.o EXCEPT !.cells[s.gap] = OBJECT_INVALID_IX]
  BY DEF O!Shifted, IsTurns, Turn
<1> HIDE DEF f
<1>4. /\ f[0] = [o |-> o, gap |-> cell, ends |-> FALSE]
      /\ \A x \in 0 .. N - 1 : f[x + 1] = Turn(o, cell, f[x], x + 1)
  <2>1. \A x \in 0 .. N : f[x] = IF x = 0 THEN [o |-> o, gap |-> cell, ends |-> FALSE]
                                 ELSE Turn(o, cell, f[x - 1], x)
    BY <1>2, Zenon DEF IsTurns
  <2>2. 0 \in 0 .. N /\ \A x \in 0 .. N - 1 : x + 1 \in 0 .. N /\ x + 1 # 0 /\ x + 1 - 1 = x
    BY <1>1
  <2> DEFINE First == [o |-> o, gap |-> cell, ends |-> FALSE]
  <2> HIDE DEF First
  <2>3. \A x \in 0 .. N : f[x] = IF x = 0 THEN First ELSE Turn(o, cell, f[x - 1], x)
    BY <2>1 DEF First
  <2> HIDE DEF N
  <2>4. f[0] = First /\ \A x \in 0 .. N - 1 : f[x + 1] = Turn(o, cell, f[x], x + 1)
    BY <2>2, <2>3
  <2> QED BY <2>4 DEF First
<1> DEFINE T == {x \in 0 .. N : Turning(o, cell, f[x], x)}
<1>5. 0 \in T
  <2> DEFINE q == f[0]
  <2>1. q.o = o /\ q.gap = cell /\ q.ends = FALSE /\ q = [o |-> q.o, gap |-> q.gap, ends |-> q.ends]
    BY <1>4
  <2> HIDE DEF q
  <2>2. \A c \in 0 .. N : (Dist(cell, c, o.cap) <= 0 => c = cell) /\ Dist(cell, c, o.cap) \in Nat
        /\ Dist(cell, cell, o.cap) = 0
    BY <1>1 DEF Dist
  <2>3. \A i \in Members(o) : o.items[i].cell_ix \in 0 .. N /\ o.items[i].cell_ix # cell
    BY <1>1 DEF Linked
  <2>4. \A i \in Members(o) : Dist(cell, o.items[i].cell_ix, o.cap) > 0
    BY <2>2, <2>3
  <2>5. Turning(o, cell, q, 0)
    <3>1. Same(o, o) /\ Dist(cell, q.gap, o.cap) <= 0 /\ q.gap \in CellsOf(o)
      BY <1>1, <2>1, <2>2 DEF Same
    <3>2. \A c \in CellsOf(o) : Dist(cell, c, o.cap) <= 0 => o.cells[c] # OBJECT_INVALID_IX
      BY <1>1, <2>2
    <3> QED BY <2>1, <2>4, <3>1, <3>2 DEF Turning
  <2> QED BY <1>1, <2>5 DEF q
<1>6. ASSUME NEW x \in 0 .. N - 1, x \in T
      PROVE  x + 1 \in T
  <2>1. Turning(o, cell, f[x], x) /\ x \in 0 .. o.cap - 2 /\ x + 1 \in 0 .. N
    BY <1>1, <1>6
  <2>2. Turning(o, cell, f[x + 1], x + 1)
    BY <1>4, <2>1, TurnKeeps
  <2> QED BY <2>1, <2>2
<1> HIDE DEF T
<1>7. Turning(o, cell, s, N)
  <2>1. \A x \in 0 .. N : x \in T
    BY <1>1, <1>5, <1>6, SetInduction
  <2> QED BY <1>1, <2>1 DEF T
<1> DEFINE u == s.o
           g == s.gap
<1> HIDE DEF s
<1>8. /\ ObjType(u) /\ u.cap = o.cap /\ Same(o, u) /\ g \in CellsOf(o)
      /\ Linked(u, g) /\ Reached(u)
      /\ u = [cap |-> u.cap, count |-> u.count, cells |-> u.cells, items |-> u.items]
      /\ u.cells \in [CellsOf(u) -> Nat \cup {OBJECT_INVALID_IX}]
  BY <1>7 DEF Turning, ObjType
<1>9. CellsOf(u) = CellsOf(o) /\ Members(u) = Members(o)
  BY <1>8 DEF CellsOf, Members, Same
<1>10. \A i \in Members(u) : ~OnPath(g, HomeOf(u, i), u.items[i].cell_ix)
  <2>1. CASE s.ends
    BY <1>7, <1>9, <2>1 DEF Turning
  <2>2. CASE ~s.ends
    <3>1. \A c \in CellsOf(o) : Dist(cell, c, o.cap) \in 0 .. N
      BY <1>1 DEF Dist
    <3>2. \A i \in Members(u) : u.items[i].cell_ix \in CellsOf(o)
      BY <1>8, <1>9 DEF Linked
    <3>3. \A i \in Members(u) : ~(Dist(cell, u.items[i].cell_ix, o.cap) > N)
      <4> SUFFICES ASSUME NEW i \in Members(u), Dist(cell, u.items[i].cell_ix, o.cap) > N
                   PROVE  FALSE
        OBVIOUS
      <4>1. Dist(cell, u.items[i].cell_ix, o.cap) \in 0 .. N
        BY <3>1, <3>2
      <4> HIDE DEF N
      <4> QED BY <1>1, <4>1
    <3> QED BY <1>7, <1>9, <2>2, <3>3 DEF Turning
  <2> QED BY <2>1, <2>2
<1> HIDE DEF u, g
<1>11. /\ p.cap = u.cap /\ p.count = u.count /\ p.items = u.items
       /\ p.cells = [u.cells EXCEPT ![g] = OBJECT_INVALID_IX]
       /\ p = [cap |-> p.cap, count |-> p.count, cells |-> p.cells, items |-> p.items]
  BY <1>3, <1>8 DEF u, g
<1>12. /\ p.cells[g] = OBJECT_INVALID_IX /\ \A c \in CellsOf(u) : c # g => p.cells[c] = u.cells[c]
       /\ CellsOf(p) = CellsOf(u) /\ Members(p) = Members(u)
       /\ p.cells \in [CellsOf(p) -> Nat \cup {OBJECT_INVALID_IX}]
  <2>1. CellsOf(p) = CellsOf(u) /\ Members(p) = Members(u)
    BY <1>11 DEF CellsOf, Members
  <2> QED BY <1>8, <1>9, <1>11, <2>1
<1>13. ObjType(p)
  BY <1>8, <1>11, <1>12 DEF ObjType
<1>14. Linked(p, -1)
  <2>1. \A c \in CellsOf(u) : c # -1
    BY <1>1, <1>9
  <2> QED BY <1>8, <1>11, <1>12, <2>1 DEF Linked
<1>15. Reached(p)
  <2>1. \A i \in Members(u) : HomeOf(p, i) = HomeOf(u, i)
    BY <1>11 DEF HomeOf
  <2> QED BY <1>8, <1>10, <1>11, <1>12, <2>1 DEF Reached
<1>16. Same(o, p)
  BY <1>8, <1>11 DEF Same
<1> QED BY <1>13, <1>14, <1>15, <1>16 DEF ObjInv

--------------------------------------------------------------------------
(* What lookups find in o. *)
Found(o) == [k \in {j \in Keys : O!Found(o, j)} |-> O!ValueOf(o, k)]

M == INSTANCE MapSpec WITH map <- Found(object)

(* The items are the graph of a function. *)
LEMMA FoundType ==
    ASSUME O!Parameters, NEW o, ObjInv(o)
    PROVE  /\ \A k : k \in DOMAIN Found(o) <=> \E i \in Members(o) : o.items[i].name = k
           /\ \A i \in Members(o) : Found(o)[o.items[i].name] = o.items[i].value
<1>1. \A i \in Members(o) : o.items[i].name \in Keys
  BY DEF ObjInv, Linked, ItemRecords
<1>2. ASSUME NEW k \in Keys
      PROVE  /\ O!Found(o, k) <=> \E i \in Members(o) : o.items[i].name = k
             /\ \A i \in Members(o) : o.items[i].name = k => O!ValueOf(o, k) = o.items[i].value
  BY FoundIs
<1> QED BY <1>1, <1>2 DEF Found

(* What has the same items is the same map. *)
LEMMA SameFound ==
    ASSUME O!Parameters, NEW o, ObjInv(o), NEW p, ObjInv(p), Same(o, p)
    PROVE  Found(p) = Found(o)
<1>f. /\ \A b : b \in DOMAIN Found(o) <=> \E l \in Members(o) : o.items[l].name = b
      /\ \A l \in Members(o) : Found(o)[o.items[l].name] = o.items[l].value
      /\ \A b : b \in DOMAIN Found(p) <=> \E l \in Members(p) : p.items[l].name = b
      /\ \A l \in Members(p) : Found(p)[p.items[l].name] = p.items[l].value
  BY FoundType
<1>1. Members(p) = Members(o)
  BY DEF Same, Members
<1>2. DOMAIN Found(p) = DOMAIN Found(o)
  BY <1>1, <1>f DEF Same
<1>3. ASSUME NEW k \in DOMAIN Found(o)
      PROVE  Found(p)[k] = Found(o)[k]
  <2>1. PICK i \in Members(o) : o.items[i].name = k
    BY <1>f
  <2>2. Found(o)[k] = o.items[i].value
    BY <2>1, <1>f
  <2>3. p.items[i].name = k /\ p.items[i].value = o.items[i].value
    BY <2>1 DEF Same
  <2>4. Found(p)[k] = p.items[i].value
    BY <1>1, <2>3, <1>f
  <2> QED BY <2>2, <2>3, <2>4
<1> QED BY <1>2, <1>3 DEF Found

(* p has item i of name k and value v, and the other items of o. *)
PutAt(o, p, i, k, v) ==
    /\ i \in Members(p) /\ p.items[i].name = k /\ p.items[i].value = v
    /\ \A j \in Members(p) : j # i => \E l \in Members(o) : /\ o.items[l].name = p.items[j].name
                                                          /\ o.items[l].value = p.items[j].value
    /\ \A l \in Members(o) : o.items[l].name # k => \E j \in Members(p) : o.items[l].name = p.items[j].name

(* Put of MapSpec. *)
WithPut(map, k, v) == [j \in DOMAIN map \cup {k} |-> IF j = k THEN v ELSE map[j]]

(* One more item, or a renewed one, is one more pair of the map, or a renewed one. *)
LEMMA PutFound ==
    ASSUME O!Parameters, NEW o, ObjInv(o), NEW p, ObjInv(p), NEW i, NEW k, NEW v, PutAt(o, p, i, k, v)
    PROVE  Found(p) = WithPut(Found(o), k, v)
<1>p. /\ i \in Members(p) /\ p.items[i].name = k /\ p.items[i].value = v
      /\ \A j \in Members(p) : j # i => \E l \in Members(o) : /\ o.items[l].name = p.items[j].name
                                                            /\ o.items[l].value = p.items[j].value
      /\ \A l \in Members(o) : o.items[l].name # k => \E j \in Members(p) : o.items[l].name = p.items[j].name
  BY DEF PutAt
<1>f. /\ \A b : b \in DOMAIN Found(o) <=> \E l \in Members(o) : o.items[l].name = b
      /\ \A l \in Members(o) : Found(o)[o.items[l].name] = o.items[l].value
      /\ \A b : b \in DOMAIN Found(p) <=> \E l \in Members(p) : p.items[l].name = b
      /\ \A l \in Members(p) : Found(p)[p.items[l].name] = p.items[l].value
  BY FoundType
<1>1. DOMAIN Found(p) = DOMAIN Found(o) \cup {k}
  <2>1. ASSUME NEW a \in DOMAIN Found(p)
        PROVE  a \in DOMAIN Found(o) \cup {k}
    <3>1. PICK j \in Members(p) : p.items[j].name = a
      BY <1>f, <1>p
    <3> QED BY <3>1, <1>f, <1>p
  <2>2. ASSUME NEW a \in DOMAIN Found(o), a # k
        PROVE  a \in DOMAIN Found(p)
    <3>1. PICK l \in Members(o) : o.items[l].name = a
      BY <1>f, <1>p
    <3>2. PICK j \in Members(p) : a = p.items[j].name
      BY <2>2, <3>1, <1>p
    <3> QED BY <3>2, <1>f
  <2>3. k \in DOMAIN Found(p)
    BY <1>f, <1>p
  <2> QED BY <2>1, <2>2, <2>3
<1>2. ASSUME NEW a \in DOMAIN Found(p)
      PROVE  Found(p)[a] = IF a = k THEN v ELSE Found(o)[a]
  <2>1. PICK j \in Members(p) : p.items[j].name = a
    BY <1>f, <1>p
  <2>2. Found(p)[a] = p.items[j].value
    BY <2>1, <1>f
  <2>3. CASE a = k
    <3>1. Found(p)[k] = v
      BY <1>f, <1>p
    <3> QED BY <2>3, <3>1
  <2>4. CASE a # k
    <3>1. PICK l \in Members(o) : o.items[l].name = a /\ o.items[l].value = p.items[j].value
      BY <2>1, <2>4, <1>p
    <3>2. Found(o)[a] = o.items[l].value
      BY <3>1, <1>f
    <3> QED BY <2>2, <2>4, <3>1, <3>2
  <2> QED BY <2>3, <2>4
<1>3. Found(p) = [j \in DOMAIN Found(p) |-> Found(p)[j]]
  BY DEF Found
<1> QED BY <1>1, <1>2, <1>3 DEF WithPut

(* p has the items of o but i. *)
DroppedAt(o, p, i) ==
    /\ \A j \in Members(p) : \E l \in Members(o) : /\ o.items[l].name = p.items[j].name /\ l # i
                                                 /\ o.items[l].value = p.items[j].value
    /\ \A l \in Members(o) : l # i => \E j \in Members(p) : o.items[l].name = p.items[j].name

(* Drop of MapSpec. *)
WithDrop(map, k) == [j \in DOMAIN map \ {k} |-> map[j]]

(* One item less is one pair less. *)
LEMMA DropFound ==
    ASSUME O!Parameters, NEW o, ObjInv(o), NEW p, ObjInv(p), NEW i \in Members(o), DroppedAt(o, p, i)
    PROVE  Found(p) = WithDrop(Found(o), o.items[i].name)
<1>p. /\ \A j \in Members(p) : \E l \in Members(o) : /\ o.items[l].name = p.items[j].name /\ l # i
                                                   /\ o.items[l].value = p.items[j].value
      /\ \A l \in Members(o) : l # i => \E j \in Members(p) : o.items[l].name = p.items[j].name
  BY DEF DroppedAt
<1> DEFINE k == o.items[i].name
<1>f. /\ \A b : b \in DOMAIN Found(o) <=> \E l \in Members(o) : o.items[l].name = b
      /\ \A l \in Members(o) : Found(o)[o.items[l].name] = o.items[l].value
      /\ \A b : b \in DOMAIN Found(p) <=> \E l \in Members(p) : p.items[l].name = b
      /\ \A l \in Members(p) : Found(p)[p.items[l].name] = p.items[l].value
  BY FoundType
<1>1. DOMAIN Found(p) = DOMAIN Found(o) \ {k}
  <2>1. ASSUME NEW a \in DOMAIN Found(p)
        PROVE  a \in DOMAIN Found(o) \ {k}
    <3>1. PICK j \in Members(p) : p.items[j].name = a
      BY <1>f
    <3>2. PICK l \in Members(o) : o.items[l].name = a /\ l # i
      BY <3>1, <1>p
    <3>3. a # k
      BY <3>2 DEF ObjInv, Linked
    <3> QED BY <3>2, <3>3, <1>f
  <2>2. ASSUME NEW a \in DOMAIN Found(o), a # k
        PROVE  a \in DOMAIN Found(p)
    <3>1. PICK l \in Members(o) : o.items[l].name = a
      BY <1>f
    <3>2. PICK j \in Members(p) : a = p.items[j].name
      BY <2>2, <3>1, <1>p
    <3> QED BY <3>2, <1>f
  <2> QED BY <2>1, <2>2
<1>2. ASSUME NEW a \in DOMAIN Found(p)
      PROVE  Found(p)[a] = Found(o)[a]
  <2>1. PICK j \in Members(p) : p.items[j].name = a
    BY <1>f
  <2>2. Found(p)[a] = p.items[j].value
    BY <2>1, <1>f
  <2>3. PICK l \in Members(o) : o.items[l].name = a /\ o.items[l].value = p.items[j].value
    BY <2>1, <1>p
  <2>4. Found(o)[a] = o.items[l].value
    BY <2>3, <1>f
  <2> QED BY <2>2, <2>3, <2>4
<1>3. Found(p) = [j \in DOMAIN Found(p) |-> Found(p)[j]]
  BY DEF Found
<1> QED BY <1>1, <1>2, <1>3 DEF WithDrop

(* The calls as calls on the map: a name that was not there, *)
LEMMA AppendedPuts ==
    ASSUME O!Parameters, NEW o, ObjInv(o), NEW k \in Keys, NEW v \in Values, ~O!Found(o, k),
           NEW p, p = O!Appended(O!Room(o), k, v)
    PROVE  /\ ObjInv(p)
           /\ Found(p) = WithPut(Found(o), k, v)
<1> DEFINE r == O!Room(o)
<1>1. ObjInv(r) /\ Same(o, r) /\ r.count < O!ItemCapacity(r.cap)
  BY RoomKeeps
<1>2. p = O!Appended(r, k, v)
  OBVIOUS
<1> HIDE DEF r
<1>3. Members(r) = Members(o) /\ r.count \in Nat
  BY <1>1 DEF Members, Same, ObjInv, ObjType
<1>4. \A i \in Members(o) : o.items[i].name # k
  BY FoundIs
<1>5. \A i \in Members(r) : r.items[i].name # k
  BY <1>1, <1>3, <1>4 DEF Same
<1>6. /\ ObjInv(p) /\ p.cap = r.cap /\ p.count = r.count + 1
      /\ \A i \in Members(r) : p.items[i] = r.items[i]
      /\ p.items[r.count].name = k /\ p.items[r.count].value = v
  BY <1>1, <1>2, <1>5, AppendedKeeps
<1>7. Members(p) = Members(o) \cup {r.count}
  <2>1. Members(p) = Members(r) \cup {r.count}
    BY <1>3, <1>6 DEF Members
  <2> QED BY <1>3, <2>1
<1>8. \A j \in Members(o) : p.items[j].name = o.items[j].name /\ p.items[j].value = o.items[j].value
  BY <1>1, <1>3, <1>6 DEF Same
<1>9. PutAt(o, p, r.count, k, v)
  BY <1>6, <1>7, <1>8 DEF PutAt
<1> QED BY <1>6, <1>9, PutFound

(* json_object_set_value, with every allocation that may fail, *)
LEMMA SetValueKeeps ==
    ASSUME O!Parameters, ObjInv(object), NEW k \in Keys, NEW v \in Values,
           NEW fails \in {"none", "grow", "name"}, O!SetValue(k, v, fails)
    PROVE  /\ ObjInv(object')
           /\ \/ Found(object') = Found(object)
              \/ Found(object') = WithPut(Found(object), k, v)
<1> DEFINE o == object
           p == object'
<1>1. CASE O!Found(o, k)
  <2>1. p = [o EXCEPT !.items[o.cells[O!CellIx(o, k)]].value = v]
    BY <1>1 DEF O!SetValue
  <2>2. PICK i \in Members(o) : o.items[i].name = k
    BY <1>1, FoundIs
  <2>3. o.cells[O!CellIx(o, k)] = i
    BY <2>2, FoundIs
  <2>4. p = Renewed(o, i, v)
    BY <2>1, <2>3 DEF Renewed
  <2> HIDE DEF o, p
  <2>o. ObjInv(o)
    BY DEF o
  <2>5. /\ ObjInv(p) /\ p.count = o.count
        /\ \A j \in Members(o) : p.items[j].name = o.items[j].name
                                 /\ p.items[j].value = IF j = i THEN v ELSE o.items[j].value
    BY <2>o, <2>4, RenewedKeeps
  <2>6. Members(p) = Members(o)
    BY <2>5 DEF Members
  <2>7. Found(p) = WithPut(Found(o), k, v)
    <3>1. PutAt(o, p, i, k, v)
      BY <2>2, <2>5, <2>6 DEF PutAt
    <3> QED BY <2>o, <2>5, <3>1, PutFound
  <2> QED BY <2>5, <2>7 DEF o, p
<1>2. CASE ~O!Found(o, k) /\ fails = "none"
  <2>1. p = O!Appended(O!Room(o), k, v)
    BY <1>2 DEF O!SetValue
  <2>2. ObjInv(o) /\ ~O!Found(o, k)
    BY <1>2
  <2> HIDE DEF o, p
  <2>3. ObjInv(p) /\ Found(p) = WithPut(Found(o), k, v)
    BY <2>1, <2>2, AppendedPuts
  <2> QED BY <2>3 DEF o, p
<1>3. CASE ~O!Found(o, k) /\ fails = "grow"
  BY <1>3 DEF O!SetValue
<1>4. CASE ~O!Found(o, k) /\ fails = "name"
  <2>1. p = O!Room(o)
    BY <1>4 DEF O!SetValue
  <2>2. ObjInv(p) /\ Same(o, p)
    BY <2>1, RoomKeeps
  <2> QED BY <2>2, SameFound
<1> QED BY <1>1, <1>2, <1>3, <1>4

(* json_object_remove, *)
LEMMA RemoveKeeps ==
    ASSUME O!Parameters, ObjInv(object), NEW k \in Keys, O!Remove(k)
    PROVE  /\ ObjInv(object')
           /\ k \in DOMAIN Found(object)
           /\ Found(object') = WithDrop(Found(object), k)
<1> DEFINE o == object
           p == object'
<1>1. O!Found(o, k) /\ p = O!Shifted(O!LastMoved(o, o.cells[O!CellIx(o, k)]), O!CellIx(o, k))
  BY DEF O!Remove
<1> HIDE DEF p
<1>2. PICK i \in Members(o) : o.items[i].name = k
  BY <1>1, FoundIs
<1>3. o.cells[O!CellIx(o, k)] = i /\ O!CellIx(o, k) = o.items[i].cell_ix
  BY <1>2, FoundIs
<1> DEFINE m == O!LastMoved(o, i)
           cell == o.items[i].cell_ix
<1>4. p = O!Shifted(m, cell)
  BY <1>1, <1>3
<1> HIDE DEF o, m, cell
<1>5. ObjInv(o)
  BY DEF o
<1>6. /\ ObjType(m) /\ Linked(m, cell) /\ Reached(m)
      /\ m.cap = o.cap /\ m.count = o.count - 1
      /\ cell \in CellsOf(m) /\ m.cells[cell] # OBJECT_INVALID_IX
      /\ \A c \in CellsOf(o) : m.cells[c] = OBJECT_INVALID_IX <=> o.cells[c] = OBJECT_INVALID_IX
      /\ \A j \in Members(m) : m.items[j] = o.items[IF j = i THEN o.count - 1 ELSE j]
  BY <1>5, LastMovedIs DEF m, cell
<1>7. CellsOf(m) = CellsOf(o) /\ o.count \in Nat /\ o.cap > 0
  BY <1>5, <1>6, HomeType DEF CellsOf, ObjInv, ObjType
<1>8. PICK z \in CellsOf(m) : m.cells[z] = OBJECT_INVALID_IX
  BY <1>5, <1>6, <1>7, FreeCell DEF ObjInv
<1>9. ObjInv(p) /\ Same(m, p)
  BY <1>4, <1>6, <1>8, ShiftedKeeps
<1>10. /\ Members(o) = 0 .. o.count - 1 /\ Members(m) = 0 .. o.count - 2 /\ Members(p) = Members(m)
       /\ i \in 0 .. o.count - 1
  BY <1>6, <1>7, <1>9 DEF Members, Same
<1>11. ASSUME NEW j \in Members(p)
       PROVE  \E l \in Members(o) : /\ o.items[l].name = p.items[j].name /\ l # i
                                    /\ o.items[l].value = p.items[j].value
  <2> DEFINE l == IF j = i THEN o.count - 1 ELSE j
  <2>1. l \in Members(o) /\ l # i
    BY <1>7, <1>10
  <2>2. m.items[j] = o.items[l]
    BY <1>6, <1>10
  <2> HIDE DEF l
  <2>3. p.items[j].name = o.items[l].name /\ p.items[j].value = o.items[l].value
    BY <1>9, <1>10, <2>2 DEF Same
  <2> QED BY <2>1, <2>3
<1>12. ASSUME NEW l \in Members(o), l # i
       PROVE  \E j \in Members(p) : o.items[l].name = p.items[j].name
  <2> DEFINE j == IF l = o.count - 1 THEN i ELSE l
  <2>1. j \in Members(p) /\ l = IF j = i THEN o.count - 1 ELSE j
    BY <1>7, <1>10, <1>12
  <2> HIDE DEF j
  <2>2. m.items[j] = o.items[l]
    BY <1>6, <1>10, <2>1
  <2>3. p.items[j].name = o.items[l].name
    BY <1>9, <1>10, <2>1, <2>2 DEF Same
  <2> QED BY <2>1, <2>3
<1>13. Found(p) = WithDrop(Found(o), o.items[i].name)
  <2>1. DroppedAt(o, p, i)
    BY <1>11, <1>12 DEF DroppedAt
  <2> QED BY <1>5, <1>9, <2>1, DropFound
<1>14. k \in DOMAIN Found(o)
  BY <1>2, <1>5, FoundType
<1> QED BY <1>2, <1>9, <1>13, <1>14 DEF o, p

(* and so every step. *)
LEMMA ObjectStep ==
    ASSUME O!Parameters, ~Clears, ObjInv(object), O!Next
    PROVE  /\ ObjInv(object')
           /\ \/ Found(object') = Found(object)
              \/ \E k \in Keys, v \in Values : Found(object') = WithPut(Found(object), k, v)
              \/ \E k \in Keys : k \in DOMAIN Found(object) /\ Found(object') = WithDrop(Found(object), k)
<1>1. ASSUME NEW k \in Keys, NEW v \in Values, NEW fails \in {"none", "grow", "name"}, O!SetValue(k, v, fails)
      PROVE  ObjInv(object') /\ (Found(object') = Found(object) \/ Found(object') = WithPut(Found(object), k, v))
  BY <1>1, SetValueKeeps
<1>2. ASSUME NEW k \in Keys, NEW v \in Values, O!Add(k, v)
      PROVE  ObjInv(object') /\ Found(object') = WithPut(Found(object), k, v)
  <2>1. ~O!Found(object, k) /\ object' = O!Appended(O!Room(object), k, v)
    BY <1>2 DEF O!Add
  <2> QED BY <2>1, AppendedPuts
<1>3. ASSUME NEW k \in Keys, O!Remove(k)
      PROVE  ObjInv(object') /\ k \in DOMAIN Found(object) /\ Found(object') = WithDrop(Found(object), k)
  BY <1>3, RemoveKeeps
<1> QED BY <1>1, <1>2, <1>3 DEF O!Next, O!Clear

(* An object is empty at first. *)
LEMMA ObjectInitial == ASSUME O!Parameters, O!Init PROVE ObjInv(object) /\ DOMAIN Found(object) = {}
<1>1. ObjInv(object) /\ object.count = 0
  BY FreshIs DEF O!Init
<1>2. Members(object) = {}
  BY <1>1 DEF Members
<1> QED BY <1>1, <1>2, FoundType

(* Items and full cells are as many. *)
LEMMA CellsCounted ==
    ASSUME O!Parameters, NEW o, ObjInv(o)
    PROVE  Cardinality({c \in CellsOf(o) : o.cells[c] # OBJECT_INVALID_IX}) = o.count
<1> DEFINE S == Members(o)
           R == {c \in CellsOf(o) : o.cells[c] # OBJECT_INVALID_IX}
           f == [i \in S |-> o.items[i].cell_ix]
<1>1. o.count \in Nat /\ o.cap \in Nat /\ OBJECT_INVALID_IX \notin Nat
  BY DEF ObjInv, ObjType, O!Parameters
<1>2. \A i \in S : o.items[i].cell_ix \in R /\ o.cells[o.items[i].cell_ix] = i
  <2>1. \A i \in S : i # OBJECT_INVALID_IX
    BY <1>1 DEF Members
  <2> QED BY <2>1 DEF ObjInv, Linked
<1>3. \A c \in R : o.cells[c] \in S /\ o.items[o.cells[c]].cell_ix = c
  <2>1. \A c \in CellsOf(o) : c # -1
    BY <1>1 DEF CellsOf
  <2> QED BY <2>1 DEF ObjInv, Linked
<1> HIDE DEF S, R
<1>4. f \in Bijection(S, R)
  <2>1. f \in [S -> R]
    BY <1>2
  <2>2. \A a, b \in S : f[a] = f[b] => a = b
    BY <1>2
  <2>3. \A c \in R : \E i \in S : f[i] = c
    BY <1>3
  <2> QED BY <2>1, <2>2, <2>3, Fun_IsBij
<1>5. IsFiniteSet(S) /\ Cardinality(S) = o.count
  <2> DEFINE b == o.count - 1
  <2>1. b \in Int
    BY <1>1
  <2> HIDE DEF b
  <2>2. IsFiniteSet(0 .. b) /\ Cardinality(0 .. b) = IF 0 > b THEN 0 ELSE b - 0 + 1
    BY <2>1, FS_Interval
  <2>3. S = 0 .. b /\ (IF 0 > b THEN 0 ELSE b - 0 + 1) = o.count
    BY <1>1 DEF S, Members, b
  <2> QED BY <2>2, <2>3
<1> HIDE DEF f
<1>6. ExistsBijection(S, R)
  BY <1>4, Fun_ExistsBij
<1>7. Cardinality(R) = Cardinality(S)
  BY <1>5, <1>6, FS_Bijection
<1> QED BY <1>5, <1>7 DEF R

(* The invariant says what the run checks. *)
LEMMA ObjectSound == ASSUME O!Parameters, ObjInv(object) PROVE O!FoundIsLive /\ O!ItemsAreReached
<1> DEFINE o == object
<1>1. o.count \in Nat /\ o.cap \in Nat /\ o.count <= o.cap /\ (o.cap > 0 => o.count < o.cap)
      /\ DOMAIN o.cells = CellsOf(o)
  <2>1. o.cap \in Nat
    BY DEF ObjInv, ObjType
  <2> QED BY <2>1, Capacities DEF ObjInv, ObjType
<1>2. O!FoundIsLive
  <2> SUFFICES ASSUME NEW k \in Keys
               PROVE  ~O!ReadsFreed(o, k) /\ (O!Found(o, k) => o.cells[O!CellIx(o, k)] < o.count)
    BY DEF O!FoundIsLive
  <2>1. ASSUME O!Found(o, k) PROVE o.cells[O!CellIx(o, k)] < o.count
    <3>1. PICK i \in Members(o) : o.items[i].name = k
      BY <2>1, FoundIs
    <3>2. o.cells[O!CellIx(o, k)] = i /\ i < o.count
      BY <1>1, <3>1, FoundIs DEF Members
    <3> QED BY <3>2
  <2> QED BY <2>1, FoundIs
<1>3. ASSUME NEW i \in 0 .. o.count - 1
      PROVE  /\ O!CellIx(o, o.items[i].name) = o.items[i].cell_ix /\ o.cells[o.items[i].cell_ix] = i
             /\ o.items[i].hash = Hash[o.items[i].name]
  <2>1. i \in Members(o) /\ o.items[i].name \in Keys
    BY DEF Members, ObjInv, Linked, ItemRecords
  <2> QED BY <2>1, FoundIs DEF ObjInv, Linked
<1>4. Cardinality({c \in DOMAIN o.cells : o.cells[c] # OBJECT_INVALID_IX}) = o.count
  BY <1>1, CellsCounted
<1>5. O!ItemsAreReached
  <2>1. O!Cardinality({c \in DOMAIN o.cells : o.cells[c] # OBJECT_INVALID_IX}) = o.count
    BY <1>4 DEF O!Cardinality, Cardinality
  <2>2. o.count < o.cap \/ o.cap = 0
    BY <1>1
  <2> QED BY <1>3, <2>1, <2>2 DEF O!ItemsAreReached
<1> QED BY <1>2, <1>5

(* For any hash function, and any program that does not call json_object_clear, whatever  *)
(* is set, added and removed and whichever allocation fails: a lookup ends at an item that *)
(* is there, every item is found from the cell its hash names, and the table has as many   *)
(* full cells as items and a free one.                                                     *)
THEOREM ObjectHolds == ASSUME O!Parameters, ~Clears PROVE O!Spec => [](O!FoundIsLive /\ O!ItemsAreReached)
<1>1. O!Init => ObjInv(object)
  BY ObjectInitial
<1>2. ObjInv(object) /\ [O!Next]_O!vars => ObjInv(object)'
  <2> SUFFICES ASSUME ObjInv(object), [O!Next]_O!vars PROVE ObjInv(object')
    OBVIOUS
  <2> QED BY ObjectStep DEF O!vars
<1>3. ObjInv(object) => O!FoundIsLive /\ O!ItemsAreReached
  BY ObjectSound
<1> QED BY <1>1, <1>2, <1>3, PTL DEF O!Spec

(* And what lookups find is the map the calls promise, whatever the names hash to: each   *)
(* call of json_object_set_value, json_object_add and json_object_remove is a step of     *)
(* MapSpec or changes nothing.                                                            *)
THEOREM ObjectsAreMaps == ASSUME O!Parameters, ~Clears PROVE O!Spec => M!Spec
<1>1. O!Init => ObjInv(object)
  BY ObjectInitial
<1>2. ObjInv(object) /\ [O!Next]_O!vars => ObjInv(object)'
  <2> SUFFICES ASSUME ObjInv(object), [O!Next]_O!vars PROVE ObjInv(object')
    OBVIOUS
  <2> QED BY ObjectStep DEF O!vars
<1>3. O!Init => M!Init
  <2> SUFFICES ASSUME O!Init PROVE M!Init
    OBVIOUS
  <2>1. DOMAIN Found(object) = {}
    BY ObjectInitial
  <2> QED BY <2>1 DEF Found, M!Init, M!Empty
<1>4. ObjInv(object) /\ [O!Next]_O!vars => [M!Next]_(Found(object))
  <2> SUFFICES ASSUME ObjInv(object), O!Next, Found(object)' # Found(object)
               PROVE  M!Next
    BY DEF O!vars, Found, O!Found, O!ValueOf
  <2>1. CASE \E k \in Keys, v \in Values : Found(object') = WithPut(Found(object), k, v)
    BY <2>1 DEF M!Next, M!Put, WithPut, Found
  <2>2. CASE \E k \in Keys : k \in DOMAIN Found(object) /\ Found(object') = WithDrop(Found(object), k)
    BY <2>2 DEF M!Next, M!Drop, WithDrop, Found
  <2> QED BY <2>1, <2>2, ObjectStep
<1> QED BY <1>1, <1>2, <1>3, <1>4, PTL DEF O!Spec, M!Spec, Found
=============================================================================
