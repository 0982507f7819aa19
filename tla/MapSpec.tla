------------------------------- MODULE MapSpec ------------------------------
(***************************************************************************)
(* What a JSON object of parson.h promises: a map from names to values,    *)
(* in which a name is set or removed, or nothing happens.                  *)
(***************************************************************************)
CONSTANTS Keys, Values

VARIABLE map

Empty == [k \in {} |-> k]

Init == map = Empty

Put(k, v) == map' = [j \in DOMAIN map \cup {k} |-> IF j = k THEN v ELSE map[j]]

Drop(k) == k \in DOMAIN map /\ map' = [j \in DOMAIN map \ {k} |-> map[j]]

DropAll == map' = Empty

Next == \/ \E k \in Keys, v \in Values : Put(k, v)
        \/ \E k \in Keys : Drop(k)
        \/ DropAll

Spec == Init /\ [][Next]_map
=============================================================================
