---------------------------- MODULE UnorderedMap ----------------------------
(***************************************************************************)
(* The two updates the code makes on its associative containers            *)
(* (std::unordered_map in the replacer, the extendible hash table that the *)
(* buffer pool uses as its page table).  A container is the function from  *)
(* the keys it holds to the values it holds for them.                      *)
(***************************************************************************)
EXTENDS Functions

\* map[k] = v, creating the entry when k has none.
Put(map, k, v) ==
  [x \in DOMAIN map \cup {k} |-> IF x = k THEN v ELSE map[x]]

\* map.erase(k); nothing happens when k has no entry.
Erase(map, k) == Restrict(map, DOMAIN map \ {k})

=============================================================================
