----------------------------- MODULE LRUKHistory -----------------------------
(***************************************************************************)
(* LRUKReplacer with a history variable: accesses keeps every access time  *)
(* of a tracked frame, which the replacer trims to the last K.  The        *)
(* variable is only written, never read, by the actions.                   *)
(***************************************************************************)
EXTENDS LRUKReplacer

VARIABLE accesses

hvars == <<vars, accesses>>

HistoryInit == Init /\ accesses = <<>>

\* An access is appended; a frame the replacer forgets loses its accesses.
Remember ==
  accesses' =
    [f \in DOMAIN node_store' |->
       LET before == IF f \in DOMAIN accesses THEN accesses[f] ELSE <<>>
           accessed == \/ f \notin Tracked
                       \/ node_store'[f].history # node_store[f].history
       IN  IF accessed THEN Append(before, current_timestamp') ELSE before]

HistoryNext == Next /\ Remember

HistorySpec == HistoryInit /\ [][HistoryNext]_hvars

-----------------------------------------------------------------------------

AnyTieBreak == INSTANCE LRUKPolicy WITH
  evictable <- EvictableFrames, now <- current_timestamp, EarliestFirst <- FALSE

EarliestTieBreak == INSTANCE LRUKPolicy WITH
  evictable <- EvictableFrames, now <- current_timestamp, EarliestFirst <- TRUE

\* Evict takes a frame of greatest backward k-distance among the evictable ones,
\* measured on the complete access times, and no access or removal is missed.
ImplementsLRUK == AnyTieBreak!Spec

\* The same with the tie-break of lru_k_replacer.h:63-64: "If multiple frames
\* have inf backward k-distance, then evict the frame with the earliest
\* timestamp overall."
ImplementsLRUKEarliestFirst == EarliestTieBreak!Spec

=============================================================================
