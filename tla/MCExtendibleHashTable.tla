----------------------- MODULE MCExtendibleHashTable -----------------------
(***************************************************************************)
(* Instance of the hash table for TLC: keys are small integers and hash to *)
(* themselves, as std::hash<int> does.  0, 4 and 8 agree in two bits, so   *)
(* that their bucket splits three rounds deep; 1, 3 and 5 agree in one, so *)
(* that a second bucket splits, before or after it, with and without a     *)
(* doubling of the directory.                                              *)
(***************************************************************************)
EXTENDS ExtendibleHashTable

MCKeys == {0, 1, 3, 4, 5, 8}
MCHash == [k \in MCKeys |-> k]

=============================================================================
