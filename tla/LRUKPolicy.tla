----------------------------- MODULE LRUKPolicy -----------------------------
(***************************************************************************)
(* The policy an LRU-K replacer promises, stated over the complete list of *)
(* access times of each frame instead of the queues and trimmed histories  *)
(* the code keeps.  Evict takes an evictable frame of greatest backward    *)
(* k-distance: a frame with fewer than K accesses has distance +inf, the   *)
(* distance of any other is the age of its kth last access.                *)
(***************************************************************************)
EXTENDS Integers, Sequences, UnorderedMap

CONSTANTS
  Frames, K, MaxTimestamp, NoFrame,
  EarliestFirst  \* among frames at distance +inf, the one whose first recorded
                 \* access is earliest must go first

VARIABLES
  accesses,   \* tracked frame -> the times of all its accesses, oldest first
  evictable,  \* tracked frames that may be evicted
  now,        \* time of the last access
  victim      \* outcome of the last Evict

vars == <<accesses, evictable, now, victim>>

Init ==
  /\ accesses = <<>>
  /\ evictable = {}
  /\ now = 0
  /\ victim = NoFrame

RecordAccess(f) ==
  /\ now < MaxTimestamp
  /\ now' = now + 1
  /\ accesses' = Put(accesses, f, IF f \in DOMAIN accesses
                                  THEN Append(accesses[f], now')
                                  ELSE <<now'>>)
  /\ UNCHANGED <<evictable, victim>>

SetEvictable(f) ==
  /\ f \in DOMAIN accesses
  /\ evictable' \in {evictable \cup {f}, evictable \ {f}}
  /\ UNCHANGED <<accesses, now, victim>>

Forget(f) ==
  /\ f \in evictable
  /\ evictable' = evictable \ {f}
  /\ accesses' = Erase(accesses, f)
  /\ UNCHANGED now

\* Fewer than K accesses: backward k-distance +inf.
Infinite(f) == Len(accesses[f]) < K

KthLastAccess(f) == accesses[f][Len(accesses[f]) - K + 1]

\* f's backward k-distance is at least g's.
AtLeastAsFar(f, g) ==
  \/ /\ Infinite(f)
     /\ Infinite(g) /\ EarliestFirst => accesses[f][1] <= accesses[g][1]
  \/ ~Infinite(f) /\ ~Infinite(g) /\ KthLastAccess(f) <= KthLastAccess(g)

Evict ==
  \/ \E f \in evictable :
       /\ \A g \in evictable : AtLeastAsFar(f, g)
       /\ Forget(f)
       /\ victim' = f
  \/ evictable = {} /\ victim' = NoFrame /\ UNCHANGED <<accesses, evictable, now>>

Remove(f) == Forget(f) /\ UNCHANGED victim

Next ==
  \/ Evict
  \/ \E f \in Frames : RecordAccess(f) \/ SetEvictable(f) \/ Remove(f)

Spec == Init /\ [][Next]_vars

=============================================================================
