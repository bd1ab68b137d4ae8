-------------------------------- MODULE KVMap --------------------------------
(***************************************************************************)
(* What a HashTable promises its users: a map from keys to values.         *)
(***************************************************************************)
EXTENDS UnorderedMap

CONSTANTS Keys, Values, Absent

VARIABLES
  map,    \* the pairs in the table
  result  \* what the last Find or Remove reported

vars == <<map, result>>

Init ==
  /\ map = <<>>
  /\ result = Absent

Lookup(k) == IF k \in DOMAIN map THEN map[k] ELSE Absent

Insert(k, v) == map' = Put(map, k, v) /\ UNCHANGED result

Find(k) == result' = Lookup(k) /\ UNCHANGED map

Remove(k) == result' = (k \in DOMAIN map) /\ map' = Erase(map, k)

Next ==
  \E k \in Keys :
    \/ Find(k)
    \/ Remove(k)
    \/ \E v \in Values : Insert(k, v)

Spec == Init /\ [][Next]_vars

=============================================================================
