------------------------------ MODULE Replacer ------------------------------
(***************************************************************************)
(* What the buffer pool relies on when it calls its replacer: the replacer *)
(* tracks the frames that were accessed, a tracked frame is evictable or   *)
(* not, and Evict hands out some evictable frame and forgets it, failing   *)
(* only when no frame is evictable.  WHICH evictable frame is the policy's *)
(* business (LRUKPolicy), not the pool's.                                  *)
(***************************************************************************)

CONSTANTS
  Frames,   \* frame ids, 0 .. replacer_size_ - 1 in the code
  NoFrame   \* "Evict returned false"

VARIABLES
  tracked,    \* frames with an access history
  evictable,  \* tracked frames that may be evicted
  victim      \* outcome of the last Evict

vars == <<tracked, evictable, victim>>

Init ==
  /\ tracked = {}
  /\ evictable = {}
  /\ victim = NoFrame

RecordAccess(f) ==
  /\ tracked' = tracked \cup {f}
  /\ UNCHANGED <<evictable, victim>>

SetEvictable(f, set_evictable) ==
  /\ f \in tracked
  /\ evictable' = IF set_evictable THEN evictable \cup {f} ELSE evictable \ {f}
  /\ UNCHANGED <<tracked, victim>>

Forget(f) ==
  /\ f \in evictable
  /\ tracked' = tracked \ {f}
  /\ evictable' = evictable \ {f}

Evict ==
  \/ \E f \in Frames : Forget(f) /\ victim' = f
  \/ evictable = {} /\ victim' = NoFrame /\ UNCHANGED <<tracked, evictable>>

Remove(f) == Forget(f) /\ UNCHANGED victim

Next ==
  \/ Evict
  \/ \E f \in Frames :
       \/ RecordAccess(f)
       \/ Remove(f)
       \/ \E set_evictable \in BOOLEAN : SetEvictable(f, set_evictable)

Spec == Init /\ [][Next]_vars

=============================================================================
