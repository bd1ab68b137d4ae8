---------------------------- MODULE LRUKReplacer ----------------------------
(***************************************************************************)
(* LRUKReplacer (src/buffer/lru_k_replacer.cpp): the LRU-K replacement     *)
(* policy of the buffer pool.  Every public member function runs under     *)
(* latch_, so each is one action.                                          *)
(*                                                                         *)
(* A frame with an entry in node_store_ is tracked.  (is_present_ is TRUE  *)
(* in every entry: RecordAccess, the only function that creates one, sets  *)
(* it at once; "present" is therefore membership in DOMAIN node_store.)    *)
(*                                                                         *)
(* A definition under a comment "Fault:" is no part of the model: it is a  *)
(* plausible mistake in the definition below it, kept to show that the     *)
(* properties notice it.                                                   *)
(***************************************************************************)
EXTENDS Integers, Sequences, FiniteSets, UnorderedMap

CONSTANTS
  Frames,       \* the valid frame ids, 0 .. replacer_size_ - 1
  K,            \* k_
  MaxTimestamp, \* bound on current_timestamp_: how many accesses a run records
  NoFrame       \* "Evict returned false"

ASSUME FramesAssumption == IsFiniteSet(Frames) /\ NoFrame \notin Frames
ASSUME KAssumption == K \in Nat
ASSUME MaxTimestampAssumption == MaxTimestamp \in Nat

VARIABLES
  node_store,          \* node_store_: tracked frame -> its LRUKFrame
  inf_distance_list,   \* inf_distance_list_: evictable, fewer than K accesses
  finite_distance_map, \* finite_distance_map_: evictable, K accesses -> kth last
  current_timestamp,   \* current_timestamp_
  curr_size,           \* curr_size_
  victim               \* *frame_id of the last Evict, NoFrame if it failed

vars == <<node_store, inf_distance_list, finite_distance_map,
          current_timestamp, curr_size, victim>>

Lists == INSTANCE SequencesExt

\* struct LRUKFrame, less is_present_.
LRUKFrame == [history : Seq(Nat), is_evictable : BOOLEAN, is_in_inf : BOOLEAN]

\* The entry node_store_[frame_id] creates for a frame it has not seen.
FreshFrame == [history |-> <<>>, is_evictable |-> FALSE, is_in_inf |-> FALSE]

Tracked == DOMAIN node_store
EvictableFrames == {f \in Tracked : node_store[f].is_evictable}

\* inf_distance_list_.remove(f).  std::list::remove drops every occurrence; the
\* list never holds f twice (InfListHasNoDuplicates), so the first is all.
ListRemove(list, f) == Lists!RemoveFirst(list, f)

-----------------------------------------------------------------------------

Init ==
  /\ node_store = <<>>
  /\ inf_distance_list = <<>>
  /\ finite_distance_map = <<>>
  /\ current_timestamp = 0
  /\ curr_size = 0
  /\ victim = NoFrame

(***************************************************************************)
(* RecordAccess.                                                           *)
(***************************************************************************)

\* push_back of the new timestamp, pop_front when more than k_ are kept.
Recorded(history, now) ==
  LET pushed == Append(history, now)
  IN  IF Len(pushed) > K THEN Tail(pushed) ELSE pushed

\* Fault: the size is compared with k_ before the access is counted.
HasFiniteDistanceLate(frame) ==
  frame.is_evictable /\ Len(frame.history) > K /\ K > 0

\* Fault: only a frame that leaves the list gets a distance; the `else if` that
\* refreshes the distance of one that already has it is missing.
HasFiniteDistanceOnce(frame) ==
  frame.is_evictable /\ Len(frame.history) = K /\ K > 0 /\ frame.is_in_inf

\* "frame.is_evictable_ && frame.history_.size() == k_ && k_ > 0".
HasFiniteDistance(frame) ==
  frame.is_evictable /\ Len(frame.history) = K /\ K > 0

RecordAccess(f) ==
  LET frame == IF f \in Tracked THEN node_store[f] ELSE FreshFrame
      now == current_timestamp + 1
      accessed == [frame EXCEPT !.history = Recorded(@, now)]
      finite == HasFiniteDistance(accessed)
      leaves_inf == finite /\ frame.is_in_inf
  IN  /\ current_timestamp < MaxTimestamp
      /\ current_timestamp' = now
      /\ node_store' =
           Put(node_store, f, [accessed EXCEPT !.is_in_inf = @ /\ ~leaves_inf])
      /\ inf_distance_list' = IF leaves_inf THEN ListRemove(inf_distance_list, f)
                                            ELSE inf_distance_list
      /\ finite_distance_map' =
           IF finite THEN Put(finite_distance_map, f, Head(accessed.history))
                     ELSE finite_distance_map
      /\ UNCHANGED <<curr_size, victim>>

(***************************************************************************)
(* SetEvictable.  A call for an untracked frame, or one that asks for what *)
(* already holds, returns without changing anything.                       *)
(***************************************************************************)

MakeEvictable(f) ==
  LET infinite == Len(node_store[f].history) < K
  IN  /\ node_store' = [node_store EXCEPT ![f].is_evictable = TRUE,
                                          ![f].is_in_inf = @ \/ infinite]
      /\ inf_distance_list' = IF infinite THEN Append(inf_distance_list, f)
                                          ELSE inf_distance_list
      /\ finite_distance_map' =
           IF infinite \/ K = 0
           THEN finite_distance_map
           ELSE Put(finite_distance_map, f, Head(node_store[f].history))
      /\ curr_size' = curr_size + 1

\* Fault: the map is always the one that is cleaned.
UnlistFromMap(f) ==
  /\ finite_distance_map' = Erase(finite_distance_map, f)
  /\ UNCHANGED inf_distance_list

\* inf_distance_list_.remove / finite_distance_map_.erase, by is_in_inf_.
Unlist(f) ==
  IF node_store[f].is_in_inf
  THEN /\ inf_distance_list' = ListRemove(inf_distance_list, f)
       /\ UNCHANGED finite_distance_map
  ELSE /\ finite_distance_map' = Erase(finite_distance_map, f)
       /\ UNCHANGED inf_distance_list

MakeUnevictable(f) ==
  /\ node_store' = [node_store EXCEPT ![f].is_evictable = FALSE,
                                      ![f].is_in_inf = FALSE]
  /\ Unlist(f)
  /\ curr_size' = curr_size - 1

\* Fault: the early return for "currently_evictable == set_evictable" is missing.
SetEvictableAgain(f, set_evictable) ==
  /\ f \in Tracked
  /\ IF set_evictable THEN MakeEvictable(f) ELSE MakeUnevictable(f)
  /\ UNCHANGED <<current_timestamp, victim>>

SetEvictable(f, set_evictable) ==
  /\ f \in Tracked
  /\ node_store[f].is_evictable # set_evictable
  /\ IF set_evictable THEN MakeEvictable(f) ELSE MakeUnevictable(f)
  /\ UNCHANGED <<current_timestamp, victim>>

(***************************************************************************)
(* Evict.                                                                  *)
(***************************************************************************)

EvictNothing ==
  /\ curr_size = 0
  /\ victim' = NoFrame
  /\ UNCHANGED <<node_store, inf_distance_list, finite_distance_map,
                 current_timestamp, curr_size>>

\* Fault: Evict does not count the frame it gives away.
EvictFrameUncounted(f) ==
  /\ victim' = f
  /\ node_store' = Erase(node_store, f)
  /\ UNCHANGED <<curr_size, current_timestamp>>

\* Both ways to evict end with the same three assignments.
EvictFrame(f) ==
  /\ victim' = f
  /\ node_store' = Erase(node_store, f)
  /\ curr_size' = curr_size - 1
  /\ UNCHANGED current_timestamp

EvictInfinite ==
  /\ curr_size # 0
  /\ inf_distance_list # <<>>
  /\ inf_distance_list' = Tail(inf_distance_list)
  /\ UNCHANGED finite_distance_map
  /\ EvictFrame(Head(inf_distance_list))

\* Fault: the comparison of the scan is turned around.
OldestReversed(f) ==
  /\ f \in DOMAIN finite_distance_map
  /\ \A g \in DOMAIN finite_distance_map :
       finite_distance_map[f] >= finite_distance_map[g]

\* The frame the scan of finite_distance_map_ settles on: a least kth last
\* access.  An empty map would make the code dereference end(); that
\* EvictHasCandidate rules out.
Oldest(f) ==
  /\ f \in DOMAIN finite_distance_map
  /\ \A g \in DOMAIN finite_distance_map :
       finite_distance_map[f] <= finite_distance_map[g]

EvictFinite(f) ==
  /\ curr_size # 0
  /\ inf_distance_list = <<>>
  /\ Oldest(f)
  /\ finite_distance_map' = Erase(finite_distance_map, f)
  /\ UNCHANGED inf_distance_list
  /\ EvictFrame(f)

(***************************************************************************)
(* Remove.  An untracked frame: nothing.  A tracked frame that is not      *)
(* evictable: BUSTUB_ASSERT(false); the buffer pool never makes that call  *)
(* (BufferPool, ReplacerAgrees).                                           *)
(***************************************************************************)

\* Fault: with assertions compiled out, nothing stops the removal of a frame that
\* is not evictable.
RemoveUnchecked(f) ==
  /\ f \in Tracked
  /\ Unlist(f)
  /\ curr_size' = curr_size - 1
  /\ node_store' = Erase(node_store, f)
  /\ UNCHANGED <<current_timestamp, victim>>

Remove(f) ==
  /\ f \in EvictableFrames
  /\ Unlist(f)
  /\ curr_size' = curr_size - 1
  /\ node_store' = Erase(node_store, f)
  /\ UNCHANGED <<current_timestamp, victim>>

Next ==
  \/ EvictNothing
  \/ EvictInfinite
  \/ \E f \in Frames :
       \/ EvictFinite(f)
       \/ RecordAccess(f)
       \/ Remove(f)
       \/ \E set_evictable \in BOOLEAN : SetEvictable(f, set_evictable)

Spec == Init /\ [][Next]_vars

-----------------------------------------------------------------------------

TypeOK ==
  /\ DOMAIN node_store \subseteq Frames
  /\ node_store \in [DOMAIN node_store -> LRUKFrame]
  /\ inf_distance_list \in Seq(Frames)
  /\ DOMAIN finite_distance_map \subseteq Frames
  /\ finite_distance_map \in [DOMAIN finite_distance_map -> Nat]
  /\ current_timestamp \in 0 .. MaxTimestamp
  /\ curr_size \in Nat
  /\ victim \in Frames \cup {NoFrame}

(***************************************************************************)
(* What keeps the four containers and the counter in step.  All of it is   *)
(* derived data: Evict trusts the list, the map and curr_size_ and never   *)
(* looks at the histories they were derived from.                          *)
(***************************************************************************)

\* A tracked frame was accessed, and of its accesses at most the last K are
\* kept: history_.front() is then the kth last access of a full history, and
\* is never read from an empty list.
HistoriesBounded == \A f \in Tracked : Len(node_store[f].history) \in 1 .. K

\* curr_size_, incremented and decremented in four functions, is the number of
\* evictable frames ("size is equal to number of evictable entries").
SizeIsEvictableCount == curr_size = Cardinality(EvictableFrames)

\* A frame accessed again while it waits in the list, or made evictable twice,
\* must not be queued twice: Evict would hand out a frame it already gave away.
InfListHasNoDuplicates ==
  \A i, j \in 1 .. Len(inf_distance_list) :
    inf_distance_list[i] = inf_distance_list[j] => i = j

\* is_in_inf_ is the only record of where a frame is listed, and every removal
\* trusts it.  The list holds exactly the evictable frames with fewer than K
\* accesses, the map exactly the evictable frames with K.
EvictableFramesAreListed ==
  /\ \A f \in Tracked :
       node_store[f].is_in_inf <=> f \in Range(inf_distance_list)
  /\ Range(inf_distance_list) =
       {f \in EvictableFrames : Len(node_store[f].history) < K}
  /\ DOMAIN finite_distance_map =
       {f \in EvictableFrames : Len(node_store[f].history) = K}

\* The two together: where a frame waits to be evicted.
EvictableFramesAreListedOnce == EvictableFramesAreListed /\ InfListHasNoDuplicates

\* The map caches the front of the history; an access to an evictable frame must
\* refresh it, or Evict compares stale distances.
FiniteDistancesAreFresh ==
  \A f \in DOMAIN finite_distance_map :
    finite_distance_map[f] = Head(node_store[f].history)

\* When Evict gets past "curr_size_ == 0" there is a frame to evict: otherwise
\* it dereferences finite_distance_map_.begin() of an empty map.
EvictHasCandidate ==
  curr_size # 0 => inf_distance_list # <<>> \/ DOMAIN finite_distance_map # {}

(***************************************************************************)
(* The pool sees no more of the replacer than the contract Replacer.       *)
(***************************************************************************)

Contract == INSTANCE Replacer WITH
  tracked <- Tracked, evictable <- EvictableFrames

\* Every step of the policy is a step the contract allows: frames become
\* evictable only by SetEvictable, Evict hands out an evictable frame and fails
\* only when there is none.
ImplementsReplacer == Contract!Spec

=============================================================================
