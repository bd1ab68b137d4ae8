------------------------------ MODULE PageStore ------------------------------
(***************************************************************************)
(* What the buffer pool promises its callers: a growing array of pages in  *)
(* memory.  Caching, eviction, write-back, flushing and deletion of cached *)
(* copies do not show.                                                     *)
(***************************************************************************)
EXTENDS Integers

CONSTANTS Values, Zero

VARIABLES
  allocated,  \* page ids handed out so far: 0 .. allocated - 1
  content     \* page id -> what a reader of the page sees

vars == <<allocated, content>>

Init ==
  /\ allocated = 0
  /\ content = <<>>

New ==
  /\ allocated' = allocated + 1
  /\ content' = [p \in 0 .. allocated |-> IF p = allocated THEN Zero ELSE content[p]]

Write(p, v) ==
  /\ content' = [content EXCEPT ![p] = v]
  /\ UNCHANGED allocated

Next ==
  \/ New
  \/ \E p \in 0 .. allocated - 1, v \in Values : Write(p, v)

Spec == Init /\ [][Next]_vars

=============================================================================
