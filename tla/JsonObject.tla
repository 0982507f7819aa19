----------------------------- MODULE JsonObject -----------------------------
(***************************************************************************)
(* The hash table behind a JSON object (parson/src/parson.c): open         *)
(* addressing with linear probing, a table of cells that index the arrays  *)
(* of items, and a removal that moves the last item into the gap and shifts *)
(* cells back.                                                             *)
(*                                                                         *)
(* The arrays are functions from 0.  A name that has been freed, or an     *)
(* entry of an array that was never written, is NULL.                      *)
(***************************************************************************)
EXTENDS Naturals, FiniteSetsExt

CONSTANTS
    Keys, Values,
    Hash,              \* hash_string of each key
    STARTING_CAPACITY, \* of cells
    MaxCapacity,       \* bound of the model: the largest table
    Clears,            \* whether the program calls json_object_clear
    NULL,
    OBJECT_INVALID_IX

VARIABLES object

vars == object

(* What a run is told; OBJECT_INVALID_IX is the greatest size_t. *)
Parameters ==
    /\ Hash \in [Keys -> Nat] /\ NULL \notin Keys
    /\ STARTING_CAPACITY \in Nat /\ STARTING_CAPACITY > 1
    /\ OBJECT_INVALID_IX \notin Nat

(* json_object_init: floor(capacity * 0.7) items *)
ItemCapacity(cap) == (cap * 7) \div 10

Fresh(cap) == [cap |-> cap, count |-> 0,
               cells |-> [c \in 0 .. cap - 1 |-> OBJECT_INVALID_IX],
               items |-> [i \in 0 .. ItemCapacity(cap) - 1 |-> NULL]]

Init == object = Fresh(0)

(* An item: names[i], values[i], cell_ixs[i], hashes[i] *)
Item(k, v, ix) == [name |-> k, value |-> v, cell_ix |-> ix, hash |-> Hash[k]]

(* json_object_get_cell_ix *)
Probe(o, k, i) == (Hash[k] + i) % o.cap

Matches(o, k, cell) == o.items[cell].hash = Hash[k] /\ o.items[cell].name = k

Stops(o, k) == {i \in 0 .. o.cap - 1 :
                   LET cell == o.cells[Probe(o, k, i)]
                   IN IF cell = OBJECT_INVALID_IX THEN TRUE ELSE Matches(o, k, cell)}

CellIx(o, k) == LET stops == Stops(o, k)
                IN IF stops = {} THEN OBJECT_INVALID_IX ELSE Probe(o, k, Min(stops))

Found(o, k) == CellIx(o, k) # OBJECT_INVALID_IX /\ o.cells[CellIx(o, k)] # OBJECT_INVALID_IX

(* json_object_getn_value *)
ValueOf(o, k) == o.items[o.cells[CellIx(o, k)]].value

(* A lookup of k compares it with a name that has been freed: the hashes, which are left *)
(* behind, are equal.                                                                   *)
ReadsFreed(o, k) ==
    \E i \in 0 .. o.cap - 1 :
        LET cell == o.cells[Probe(o, k, i)]
        IN /\ cell # OBJECT_INVALID_IX
           /\ o.items[cell].name = NULL /\ o.items[cell].hash = Hash[k]
           /\ \A j \in Stops(o, k) : i < j

(* The last lines of json_object_add and json_object_set_value *)
Appended(o, k, v) ==
    [o EXCEPT !.cells[CellIx(o, k)] = o.count,
              !.items[o.count] = Item(k, v, CellIx(o, k)),
              !.count = @ + 1]

(* json_object_grow_and_rehash *)
NewCapacity(o) == IF o.cap * 2 > STARTING_CAPACITY THEN o.cap * 2 ELSE STARTING_CAPACITY

Grown(o) ==
    LET copy[n \in 0 .. o.count] ==
            IF n = 0 THEN Fresh(NewCapacity(o))
            ELSE Appended(copy[n - 1], o.items[n - 1].name, o.items[n - 1].value)
    IN copy[o.count]

IsFull(o) == o.count >= ItemCapacity(o.cap)

Room(o) == IF IsFull(o) THEN Grown(o) ELSE o

MayGrow(o) == IsFull(o) => NewCapacity(o) <= MaxCapacity

Usable(k) == ~ReadsFreed(object, k)

(* json_object_set_value.  fails: which of its allocations has failed. *)
SetValue(k, v, fails) ==
    /\ Usable(k) /\ MayGrow(object)
    /\ fails = "grow" => ~Found(object, k) /\ IsFull(object)
    /\ fails = "name" => ~Found(object, k)
    /\ object' = CASE Found(object, k) -> [object EXCEPT !.items[object.cells[CellIx(object, k)]].value = v]
                   [] ~Found(object, k) /\ fails = "none" -> Appended(Room(object), k, v)
                   [] fails = "grow" -> object
                   [] fails = "name" -> Room(object)

(* json_object_add, of the parser, of deep copies and of json_object_dotset_value: a name *)
(* that is there already is refused, and so is one when the table cannot grow.          *)
Add(k, v) ==
    /\ Usable(k) /\ MayGrow(object) /\ ~Found(object, k)
    /\ object' = Appended(Room(object), k, v)

--------------------------------------------------------------------------
(* json_object_remove_internal: the cell of the removed item is emptied, and each of the *)
(* cells after it that a lookup would no longer reach is moved into the gap, which moves *)
(* the gap.  The last item's entries, which no cell names any more, are not kept.        *)
Home(o, j) == o.items[o.cells[j]].hash % o.cap

(* Mutant of MustMove: the wrap at the end of the table is forgotten. *)
MustMoveUnwrapped(o, gap, j) == Home(o, j) <= gap

MustMove(o, gap, j) == \/ j > gap /\ (Home(o, j) <= gap \/ Home(o, j) > j)
                       \/ j < gap /\ Home(o, j) <= gap /\ Home(o, j) > j

Moved(o, gap, j) == [o EXCEPT !.items[o.cells[j]].cell_ix = gap, !.cells[gap] = o.cells[j]]

Shifted(o, cell) ==
    LET step[x \in 0 .. o.cap - 1] ==
            IF x = 0 THEN [o |-> o, gap |-> cell, ends |-> FALSE]
            ELSE LET s == step[x - 1]
                     j == (cell + x) % o.cap
                 IN CASE s.ends \/ s.o.cells[j] = OBJECT_INVALID_IX -> [s EXCEPT !.ends = TRUE]
                      [] ~s.ends /\ s.o.cells[j] # OBJECT_INVALID_IX ->
                             IF MustMove(s.o, s.gap, j)
                             THEN [o |-> Moved(s.o, s.gap, j), gap |-> j, ends |-> FALSE]
                             ELSE s
        last == step[o.cap - 1]
    IN [last.o EXCEPT !.cells[last.gap] = OBJECT_INVALID_IX]

LastMoved(o, i) ==
    LET last == o.count - 1
        n == [o EXCEPT !.items[last] = NULL, !.count = last]
    IN IF i < last THEN [n EXCEPT !.items[i] = o.items[last], !.cells[o.items[last].cell_ix] = i]
       ELSE n

Remove(k) ==
    /\ Usable(k) /\ Found(object, k)
    /\ object' = Shifted(LastMoved(object, object.cells[CellIx(object, k)]), CellIx(object, k))

(* json_object_clear: the cells are left as they are. *)
Clear ==
    /\ Clears
    /\ object' = [object EXCEPT
                      !.items = [i \in DOMAIN @ |->
                                    IF i < object.count THEN [@[i] EXCEPT !.name = NULL] ELSE @[i]],
                      !.count = 0]

Next == \/ \E k \in Keys, v \in Values, fails \in {"none", "grow", "name"} : SetValue(k, v, fails)
        \/ \E k \in Keys, v \in Values : Add(k, v)
        \/ \E k \in Keys : Remove(k)
        \/ Clear

Spec == Init /\ [][Next]_vars
--------------------------------------------------------------------------
(* A lookup never ends at an item that is no longer there, and never reads a name that    *)
(* has been freed.                                                                        *)
FoundIsLive == \A k \in Keys :
    ~ReadsFreed(object, k) /\ (Found(object, k) => object.cells[CellIx(object, k)] < object.count)

(* Every item is reached from the cell its hash names, without an empty cell on the way,  *)
(* and its cell and it name each other; a free cell ends every probe.                     *)
ItemsAreReached ==
    /\ \A i \in 0 .. object.count - 1 :
          LET it == object.items[i] IN
          /\ CellIx(object, it.name) = it.cell_ix /\ object.cells[it.cell_ix] = i
          /\ it.hash = Hash[it.name]
    /\ object.cap > 0 => Cardinality({c \in DOMAIN object.cells :
                                          object.cells[c] # OBJECT_INVALID_IX}) = object.count
    /\ object.count < object.cap \/ object.cap = 0

(* What lookups find is a map: a name that is set is found with its last value until it   *)
(* is removed, and no other name is.                                                      *)
Map == INSTANCE MapSpec WITH
           map <- [k \in {j \in Keys : Found(object, j)} |-> ValueOf(object, k)]

ObjectIsMap == Map!Spec
=============================================================================
