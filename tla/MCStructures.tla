---------------------------- MODULE MCStructures ----------------------------
(***************************************************************************)
(* Small instances of the data structures: KernelList, HashList, and       *)
(* parson's JsonObject and JsonTree.  A behaviour is one of one of them:   *)
(* the others stay as they begin.                                          *)
(***************************************************************************)
EXTENDS KernelList, TLC

CONSTANTS
    POISON,
    k1, k2, k3, k4, Values, STARTING_CAPACITY, MaxCapacity, Clears, OBJECT_INVALID_IX,
    Keys, MaxValues, MaxPath, MaxHeld

VARIABLES
    structure,      \* which of them it is
    at, pprev,
    object,
    vals, held, last

(* A table of four cells in which the first three names meet, and one of eight in *)
(* which they go round its end.                                                   *)
MCHash == k1 :> 7 @@ k2 :> 15 @@ k3 :> 3 @@ k4 :> 0

H == INSTANCE HashList
O == INSTANCE JsonObject WITH Keys <- {k1, k2, k3, k4}, Hash <- MCHash
T == INSTANCE JsonTree

(* What the theorems about objects assume of the table. *)
ASSUME ParametersHold == O!Parameters

hlist == <<at, pprev>>
tree  == <<vals, held, last>>

MCInit == /\ structure \in {"list", "hlist", "object", "tree"}
          /\ Init /\ H!Init /\ O!Init /\ T!Init

MCNext ==
    /\ UNCHANGED structure
    /\ \/ structure = "list" /\ Next /\ UNCHANGED <<hlist, object, tree>>
       \/ structure = "hlist" /\ H!Next /\ UNCHANGED <<vars, object, tree>>
       \/ structure = "object" /\ O!Next /\ UNCHANGED <<vars, hlist, tree>>
       \/ structure = "tree" /\ T!Next /\ UNCHANGED <<vars, hlist, object>>

MCSpec == MCInit /\ [][MCNext]_<<structure, vars, hlist, object, tree>>

(* No step depends on what the call before returned, and the properties look at what the *)
(* step itself returns: states that differ in it only are one.                           *)
View == <<structure, vars, hlist, object, vals, held>>

(* The names of JsonTree are alike, and so are the items of the lists and their heads; *)
(* no property of this module is one of liveness.                                      *)
Symmetry == Permutations(Keys) \cup Permutations(Items) \cup Permutations(Heads)

--------------------------------------------------------------------------
(* Whatever calls came before, no structure holds a pointer that does not lead back or    *)
(* leads to what is gone: the nodes of hash lists, the cells and items of an object, the  *)
(* owners and parents of JSON values.                                                     *)
NothingDangles ==
    /\ H!PlacesAgree
    /\ O!FoundIsLive /\ O!ItemsAreReached
    /\ T!OneOwner /\ T!KidsKnowParents

(* The lists, the hash lists and the objects implement sequences and a map: every call    *)
(* does to them what its name says.                                                       *)
StructuresImplemented == ListsImplemented /\ H!HashListsImplemented /\ O!ObjectIsMap

(* A call of json_object_dotset_value and the like is done as a whole: what it set is     *)
(* found, and when it fails every document is as it was.                                  *)
CallsAreWhole == T!SetIsFound /\ T!FailureKeepsAll
=============================================================================
