---------------------------- MODULE UniqueIndex ----------------------------
(***************************************************************************)
(* What an index with unique keys promises: Insert refuses a key that is   *)
(* there, GetValue finds exactly what was inserted and not removed since.  *)
(* An Insert may also fail for want of memory, and then changes nothing.   *)
(***************************************************************************)
EXTENDS UnorderedMap

CONSTANTS Keys, Values, Absent

VARIABLES
  map,    \* the pairs in the index
  result  \* what the last Insert or GetValue returned

vars == <<map, result>>

Init ==
  /\ map = <<>>
  /\ result = Absent

Insert(k, v) ==
  /\ k \notin DOMAIN map
  /\ map' = Put(map, k, v)
  /\ result' = TRUE

InsertFails == result' = FALSE /\ UNCHANGED map

GetValue(k) ==
  /\ result' = IF k \in DOMAIN map THEN map[k] ELSE Absent
  /\ UNCHANGED map

Remove(k) == map' = Erase(map, k) /\ UNCHANGED result

Next ==
  \/ InsertFails
  \/ \E k \in Keys :
       \/ GetValue(k)
       \/ Remove(k)
       \/ \E v \in Values : Insert(k, v)

Spec == Init /\ [][Next]_vars

=============================================================================
