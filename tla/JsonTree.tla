------------------------------ MODULE JsonTree ------------------------------
(***************************************************************************)
(* Who owns the values of a JSON document (parson/src/parson.c): the       *)
(* containers and the program that calls the library, which makes, moves,  *)
(* copies and frees values while allocations fail.                         *)
(*                                                                         *)
(* A leaf stands for a string, a number, a boolean or null.  The program   *)
(* frees only what it owns, gives away only what it owns, and puts no      *)
(* value into itself.                                                      *)
(***************************************************************************)
EXTENDS Naturals, Sequences, SequencesExt, FiniteSetsExt

CONSTANTS
    Keys,       \* names, without a dot
    MaxValues,  \* bound of the model: values that exist at once
    MaxPath,    \* bound of the model: names between dots
    MaxHeld,    \* bound of the model: values that the program owns at once
    NULL

VARIABLES
    vals,   \* the JSON_Values: NULL when not allocated
    held,   \* the values that the program owns
    last    \* what the last call returned, and what it was given when it set a name

vars == <<vals, held, last>>

Ids == 1 .. MaxValues
Types == {"object", "array", "leaf"}

New(type) == [type |-> type, parent |-> NULL, kids |-> <<>>]
Pair(k, v) == [name |-> k, id |-> v]

Live(V) == {i \in Ids : V[i] # NULL}
Spare(V) == Min(Ids \ Live(V))
Kids(V, i) == {V[i].kids[j].id : j \in 1 .. Len(V[i].kids)}

RECURSIVE Below(_, _)
Below(V, i) == {i} \cup UNION {Below(V, j) : j \in Kids(V, i)}

(* json_value_free, json_object_free, json_array_free *)
Free(V, i) == LET gone == Below(V, i) IN [j \in Ids |-> IF j \in gone THEN NULL ELSE V[j]]

(* What a call does: the values after it, whether it returned JSONSuccess, and how many   *)
(* allocations are left until one fails; 0 when none does.                               *)
Did(V, ok, n) == [vals |-> V, ok |-> ok, left |-> n]

Fails(n) == n = 1
Less(n) == IF n > 0 THEN n - 1 ELSE 0

At(V, i, k) == {j \in 1 .. Len(V[i].kids) : V[i].kids[j].name = k}
ValueAt(V, i, k) == V[i].kids[Min(At(V, i, k))].id

(* json_object_set_value; one allocation stands for the larger table and for the name. *)
Placed(V, o, k, v) ==
    IF At(V, o, k) # {}
    THEN [Free(V, ValueAt(V, o, k)) EXCEPT ![o].kids[Min(At(V, o, k))].id = v, ![v].parent = o]
    ELSE [V EXCEPT ![o].kids = Append(@, Pair(k, v)), ![v].parent = o]

Put(V, o, k, v, n) ==
    IF V[v].parent # NULL THEN Did(V, FALSE, n)
    ELSE IF At(V, o, k) = {} /\ Fails(n) THEN Did(V, FALSE, 0)
    ELSE Did(Placed(V, o, k, v), TRUE, IF At(V, o, k) = {} THEN Less(n) ELSE n)

(* json_object_remove_internal: the last pair takes the place of the removed one. *)
Without(kids, j) == IF j = Len(kids) THEN Front(kids)
                    ELSE [Front(kids) EXCEPT ![j] = kids[Len(kids)]]

RemoveKey(V, o, k, frees) ==
    IF At(V, o, k) = {} THEN Did(V, FALSE, 0)
    ELSE LET W == IF frees THEN Free(V, ValueAt(V, o, k)) ELSE V
         IN Did([W EXCEPT ![o].kids = Without(@, Min(At(V, o, k)))], TRUE, 0)

(* json_object_dotremove_internal *)
RECURSIVE DotRemove(_, _, _, _)
DotRemove(V, o, path, frees) ==
    CASE Len(path) = 1 -> RemoveKey(V, o, path[1], frees)
      [] Len(path) > 1 /\ (At(V, o, path[1]) = {} \/ V[ValueAt(V, o, path[1])].type # "object") ->
             Did(V, FALSE, 0)
      [] OTHER -> DotRemove(V, ValueAt(V, o, path[1]), Tail(path), frees)

(* The end of json_object_dotset_value: the new object is put into the one that was given, *)
(* or taken apart when the copy of its name, or the place for it, cannot be allocated.    *)
(* Mutant of Undone: the value is taken out, and the new object is forgotten. *)
UndoneHalf(V, new, path) == DotRemove(V, new, path, FALSE).vals

Undone(V, new, path) == Free(DotRemove(V, new, path, FALSE).vals, new)

(* json_object_dotset_value *)
RECURSIVE DotSet(_, _, _, _, _)
DotSet(V, o, path, v, n) ==
    CASE Len(path) = 1 -> Put(V, o, path[1], v, n)
      [] Len(path) > 1 /\ At(V, o, path[1]) # {} ->
             LET i == ValueAt(V, o, path[1])
             IN IF V[i].type # "object" THEN Did(V, FALSE, n) ELSE DotSet(V, i, Tail(path), v, n)
      [] Len(path) > 1 /\ At(V, o, path[1]) = {} /\ Fails(n) -> Did(V, FALSE, 0)
      [] OTHER ->
             LET new == Spare(V)
                 in == DotSet([V EXCEPT ![new] = New("object")], new, Tail(path), v, Less(n))
             IN CASE ~in.ok -> Did(Free(in.vals, new), FALSE, in.left)
                  [] in.ok /\ Fails(in.left) -> Did(Undone(in.vals, new, Tail(path)), FALSE, 0)
                  [] OTHER -> Did([in.vals EXCEPT ![o].kids = Append(@, Pair(path[1], new)),
                                                  ![new].parent = o], TRUE, Less(in.left))

(* json_object_dotget_value *)
RECURSIVE DotGet(_, _, _)
DotGet(V, o, path) ==
    IF V[o].type # "object" \/ At(V, o, path[1]) = {} THEN NULL
    ELSE IF Len(path) = 1 THEN ValueAt(V, o, path[1])
    ELSE DotGet(V, ValueAt(V, o, path[1]), Tail(path))

(* json_array_append_value, json_array_replace_value, json_array_remove *)
AppendValue(V, a, v, n) ==
    IF V[v].parent # NULL \/ Fails(n) THEN Did(V, FALSE, 0)
    ELSE Did([V EXCEPT ![a].kids = Append(@, Pair(NULL, v)), ![v].parent = a], TRUE, 0)

ReplaceValue(V, a, ix, v) ==
    IF V[v].parent # NULL \/ ix > Len(V[a].kids) THEN Did(V, FALSE, 0)
    ELSE LET W == Free(V, V[a].kids[ix].id)
         IN Did([W EXCEPT ![a].kids[ix].id = v, ![v].parent = a], TRUE, 0)

ArrayRemove(V, a, ix) ==
    IF ix > Len(V[a].kids) THEN Did(V, FALSE, 0)
    ELSE LET W == Free(V, V[a].kids[ix].id)
         IN Did([W EXCEPT ![a].kids = SubSeq(@, 1, ix - 1) \o SubSeq(@, ix + 1, Len(@))], TRUE, 0)

(* json_array_clear, json_object_clear *)
Cleared(V, i) == LET all == UNION {Below(V, j) : j \in Kids(V, i)}
                 IN [j \in Ids |-> IF j \in all THEN NULL
                                   ELSE IF j = i THEN [V[i] EXCEPT !.kids = <<>>] ELSE V[j]]

(* json_value_deep_copy: the values are copied one after the other into spare ones.  When  *)
(* an allocation fails, what has been copied is freed, the value included that was to be *)
(* put into the copy.                                                                    *)
CopiedTo(r, at) == [vals |-> r.vals, ok |-> r.ok, left |-> r.left, at |-> at]

Dropped(V, i) == Free(V, i)

RECURSIVE CopyAll(_, _, _, _)
RECURSIVE Copy(_, _, _)
Copy(V, i, n) ==
    IF Fails(n) THEN CopiedTo(Did(V, FALSE, 0), NULL)
    ELSE LET new == Spare(V)
             r == CopyAll([V EXCEPT ![new] = New(V[i].type)], new, V[i].kids, Less(n))
         IN IF r.ok THEN CopiedTo(r, new) ELSE CopiedTo(Did(Free(r.vals, new), FALSE, 0), NULL)

CopyAll(V, new, kids, n) ==
    IF kids = <<>> THEN Did(V, TRUE, n)
    ELSE LET c == Copy(V, Head(kids).id, n)
             W == [c.vals EXCEPT ![new].kids = Append(@, Pair(Head(kids).name, c.at)),
                                 ![c.at].parent = new]
         IN CASE ~c.ok                  -> Did(c.vals, FALSE, 0)
              [] c.ok /\ Fails(c.left)  -> Did(Dropped(c.vals, c.at), FALSE, 0)
              [] c.ok /\ ~Fails(c.left) -> CopyAll(W, new, Tail(kids), Less(c.left))

--------------------------------------------------------------------------
Other(ok) == [op |-> "other", ok |-> ok]
SetOf(o, path, v, r) == IF r.ok THEN [op |-> "set", ok |-> TRUE, in |-> o, path |-> path, value |-> v]
                        ELSE Other(FALSE)

Init == /\ vals = [i \in Ids |-> NULL]
        /\ held = {}
        /\ last = Other(TRUE)

Paths == UNION {[1 .. n -> Keys] : n \in 1 .. MaxPath}
Allocations == 0 .. 2 * MaxPath

(* The containers that the program can reach. *)
Reached(type) == {i \in UNION {Below(vals, h) : h \in held} : vals[i].type = type}

Spares(n) == Cardinality(Ids \ Live(vals)) >= n

MayGive(i, v) == v \in held /\ i \notin Below(vals, v)

Result(r, call) == vals' = r.vals /\ last' = call

(* A call is passed a value: it owns it from now on when it succeeds. *)
Gives(v, r, call) == Result(r, call) /\ held' = IF r.ok THEN held \ {v} ELSE held

(* json_object_set_string, json_object_dotset_string, json_array_append_string,            *)
(* json_array_replace_string and those like them: the value is made first, and freed when  *)
(* it could not be put.                                                                    *)
MadeAndPut(r, v) == IF r.ok THEN r ELSE Did(Free(r.vals, v), FALSE, 0)

Makes(v, r, call) == Result(MadeAndPut(r, v), call) /\ UNCHANGED held

WithLeaf == [vals EXCEPT ![Spare(vals)] = New("leaf")]

MayHold == Cardinality(held) < MaxHeld

InitValue(type) == /\ Spares(1) /\ MayHold
                   /\ Result(Did([vals EXCEPT ![Spare(vals)] = New(type)], TRUE, 0), Other(TRUE))
                   /\ held' = held \cup {Spare(vals)}

Set(o, path, v, n) == LET r == DotSet(vals, o, path, v, n)
                      IN MayGive(o, v) /\ Spares(Len(path) - 1) /\ Gives(v, r, SetOf(o, path, v, r))

SetNew(o, path, n) == LET v == Spare(vals)
                          r == DotSet(WithLeaf, o, path, v, n)
                      IN Spares(Len(path)) /\ Makes(v, r, SetOf(o, path, v, r))

AppendTo(a, v, n) == LET r == AppendValue(vals, a, v, n)
                     IN MayGive(a, v) /\ Gives(v, r, Other(r.ok))

AppendNew(a, n) == LET r == AppendValue(WithLeaf, a, Spare(vals), n)
                   IN Spares(1) /\ Makes(Spare(vals), r, Other(r.ok))

Replace(a, ix, v) == LET r == ReplaceValue(vals, a, ix, v)
                     IN MayGive(a, v) /\ Gives(v, r, Other(r.ok))

ReplaceNew(a, ix) == LET r == ReplaceValue(WithLeaf, a, ix, Spare(vals))
                     IN Spares(1) /\ Makes(Spare(vals), r, Other(r.ok))

RemovePath(o, path) == LET r == DotRemove(vals, o, path, TRUE)
                       IN Result(r, Other(r.ok)) /\ UNCHANGED held

RemoveIndex(a, ix) == LET r == ArrayRemove(vals, a, ix)
                      IN Result(r, Other(r.ok)) /\ UNCHANGED held

Clear(i) == Result(Did(Cleared(vals, i), TRUE, 0), Other(TRUE)) /\ UNCHANGED held

DeepCopy(i, n) == LET c == Copy(vals, i, n)
                  IN /\ Spares(Cardinality(Below(vals, i))) /\ MayHold
                     /\ Result(c, Other(c.ok))
                     /\ held' = IF c.ok THEN held \cup {c.at} ELSE held

FreeValue(v) == /\ Result(Did(Free(vals, v), TRUE, 0), Other(TRUE))
                /\ held' = held \ {v}

Next == \/ \E type \in Types : InitValue(type)
        \/ \E o \in Reached("object"), path \in Paths, n \in Allocations :
              SetNew(o, path, n) \/ (\E v \in held : Set(o, path, v, n))
        \/ \E a \in Reached("array"), n \in 0 .. 1 : AppendNew(a, n) \/ (\E v \in held : AppendTo(a, v, n))
        \/ \E a \in Reached("array"), ix \in Ids : \/ ReplaceNew(a, ix) \/ RemoveIndex(a, ix)
                                                \/ \E v \in held : Replace(a, ix, v)
        \/ \E o \in Reached("object"), path \in Paths : RemovePath(o, path)
        \/ \E i \in Reached("object") \cup Reached("array") : Clear(i)
        \/ \E i \in Reached("object") \cup Reached("array") \cup Reached("leaf"), n \in Allocations : DeepCopy(i, n)
        \/ \E v \in held : FreeValue(v)

Spec == Init /\ [][Next]_vars
--------------------------------------------------------------------------
(* Every value that is allocated has one owner: the program, or one place in one          *)
(* container; nothing that has been freed is owned, and no call leaks a value.            *)
Places(i) == {<<c, j>> \in Live(vals) \X Ids : j <= Len(vals[c].kids) /\ vals[c].kids[j].id = i}

OneOwner == \A i \in Ids :
    Cardinality(Places(i)) + (IF i \in held THEN 1 ELSE 0) = (IF i \in Live(vals) THEN 1 ELSE 0)

(* A value in a container says that it is there. *)
KidsKnowParents == \A c \in Live(vals) : \A i \in Kids(vals, c) : vals[i].parent = c

(* What a path was set to is found by it, in an object whose other names are as before. *)
SetIsFound == [][last'.op = "set" /\ last'.ok =>
    /\ DotGet(vals', last'.in, last'.path) = last'.value
    /\ \A path \in Paths : path[1] # last'.path[1] =>
          DotGet(vals', last'.in, path) = DotGet(vals, last'.in, path)]_vars

(* A call that fails leaves every document as it was. *)
FailureKeepsAll == [][~last'.ok =>
    /\ held' = held /\ Live(vals') = Live(vals)
    /\ \A i \in Live(vals) : vals'[i].kids = vals[i].kids]_vars
=============================================================================
