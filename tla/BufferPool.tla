----------------------------- MODULE BufferPool -----------------------------
(***************************************************************************)
(* BufferPoolManagerInstance (src/buffer/buffer_pool_manager_instance.cpp):*)
(* a fixed array of frames that caches disk pages.  Every public call runs *)
(* under latch_ from beginning to end, so each is one action.  What is NOT *)
(* under latch_ is the content of a page: the caller of NewPage or         *)
(* FetchPage gets a Page * and writes through it (Modify) until it unpins. *)
(*                                                                         *)
(* The callers are arbitrary here: they may unpin, flush or delete any     *)
(* page at any time, with any dirty flag.  BufferPoolClients adds callers  *)
(* that keep the protocol.                                                 *)
(*                                                                         *)
(* The two parts of the pool appear through what they promise: the         *)
(* replacer is the contract Replacer (tracked, evictable), implemented by  *)
(* LRUKReplacer; the page table is a map, implemented by                   *)
(* ExtendibleHashTable.                                                    *)
(*                                                                         *)
(* A definition under a comment "Fault:" is no part of the model: it is a  *)
(* plausible mistake in the definition below it, kept to show that the     *)
(* properties notice it.                                                   *)
(***************************************************************************)
EXTENDS Integers, Sequences, FiniteSets, UnorderedMap

CONSTANTS
  PoolSize,  \* pool_size_
  MaxPages,  \* bound on next_page_id_: how many pages a run allocates
  MaxPins,   \* bound on pin_count_
  Values,    \* contents of a page
  Zero       \* the content ResetMemory leaves

ASSUME PoolAssumption == PoolSize \in Nat /\ MaxPages \in Nat /\ MaxPins \in Nat
ASSUME ZeroAssumption == Zero \in Values

VARIABLES
  pages,         \* pages_
  page_table,    \* page_table_: page id -> frame
  free_list,     \* free_list_
  next_page_id,  \* next_page_id_
  tracked,       \* replacer_: frames with an access history
  evictable,     \* replacer_: frames that may be evicted
  disk           \* the pages of the database file

pool == <<pages, page_table, free_list, next_page_id>>
replacer == <<tracked, evictable>>
vars == <<pool, replacer, disk>>

Frames == 0 .. PoolSize - 1
PageIds == 0 .. MaxPages - 1
INVALID_PAGE_ID == -1

Page == [page_id : PageIds \cup {INVALID_PAGE_ID}, pin_count : Nat,
         is_dirty : BOOLEAN, data : Values]

\* A frame without a page.
EmptyPage == [page_id |-> INVALID_PAGE_ID, pin_count |-> 0,
              is_dirty |-> FALSE, data |-> Zero]

Cached(page_id) == page_id \in DOMAIN page_table
FrameOf(page_id) == pages[page_table[page_id]]

Allocated == 0 .. next_page_id - 1

-----------------------------------------------------------------------------

Init ==
  /\ pages = [f \in Frames |-> EmptyPage]
  /\ page_table = <<>>
  /\ free_list = [i \in 1 .. PoolSize |-> i - 1]
  /\ next_page_id = 0
  /\ tracked = {}
  /\ evictable = {}
  /\ disk = [p \in PageIds |-> Zero]

(***************************************************************************)
(* Taking a frame: the free list first, then the replacer (lines 45-69 of  *)
(* NewPgImp and 107-129 of FetchPgImp are the same code).                  *)
(***************************************************************************)

\* The frames the call may end up with; none means it returns nullptr.
Takeable == IF free_list # <<>> THEN {Head(free_list)} ELSE evictable

\* Fault: the victim is dropped as if it were clean.
WriteBackForgotten(f) == disk

\* The dirty page of a victim goes to its own place on disk.
WriteBack(f) ==
  IF pages[f].is_dirty THEN [disk EXCEPT ![pages[f].page_id] = pages[f].data]
                       ELSE disk

\* Fault: the page table keeps the mapping of the victim.
TableWithoutNothing(f) == page_table

\* The mapping of a victim goes; a frame of the free list has none.
TableWithout(f) ==
  IF free_list # <<>> THEN page_table ELSE Erase(page_table, pages[f].page_id)

DiskAfterTaking(f) == IF free_list # <<>> THEN disk ELSE WriteBack(f)

\* Fault: the front of the free list is read but not popped.
RestOfFreeListUnpopped == free_list

RestOfFreeList == IF free_list # <<>> THEN Tail(free_list) ELSE free_list

\* Fault: the access is recorded, but the frame stays evictable.
PinInReplacerStillEvictable(f) ==
  /\ tracked' = tracked \cup {f}
  /\ UNCHANGED evictable

\* RecordAccess(f), SetEvictable(f, false), the end of NewPgImp and FetchPgImp.
\* (After Evict has forgotten f, RecordAccess tracks it afresh.)
PinInReplacer(f) ==
  /\ tracked' = tracked \cup {f}
  /\ evictable' = evictable \ {f}

NewPgImp(f) ==
  /\ next_page_id < MaxPages
  /\ f \in Takeable
  /\ free_list' = RestOfFreeList
  /\ next_page_id' = next_page_id + 1
  /\ pages' = [pages EXCEPT ![f] = [EmptyPage EXCEPT !.page_id = next_page_id,
                                                     !.pin_count = 1]]
  /\ disk' = [DiskAfterTaking(f) EXCEPT ![next_page_id] = Zero]
  /\ page_table' = Put(TableWithout(f), next_page_id, f)
  /\ PinInReplacer(f)

(***************************************************************************)
(* FetchPgImp.                                                             *)
(***************************************************************************)

\* Fault: a hit sets the pin count as a miss does.
FetchHitPinsOnce(page_id) ==
  /\ Cached(page_id)
  /\ FrameOf(page_id).pin_count < MaxPins
  /\ pages' = [pages EXCEPT ![page_table[page_id]].pin_count = 1]
  /\ PinInReplacer(page_table[page_id])
  /\ UNCHANGED <<page_table, free_list, next_page_id, disk>>

FetchHit(page_id) ==
  /\ Cached(page_id)
  /\ FrameOf(page_id).pin_count < MaxPins
  /\ pages' = [pages EXCEPT ![page_table[page_id]].pin_count = @ + 1]
  /\ PinInReplacer(page_table[page_id])
  /\ UNCHANGED <<page_table, free_list, next_page_id, disk>>

FetchMiss(page_id, f) ==
  /\ ~Cached(page_id)
  /\ f \in Takeable
  /\ free_list' = RestOfFreeList
  /\ disk' = DiskAfterTaking(f)
  /\ pages' = [pages EXCEPT ![f] = [page_id |-> page_id, pin_count |-> 1,
                                    is_dirty |-> FALSE, data |-> disk'[page_id]]]
  /\ page_table' = Put(TableWithout(f), page_id, f)
  /\ PinInReplacer(f)
  /\ UNCHANGED next_page_id

\* NewPgImp and FetchPgImp without a frame return nullptr and change nothing.
ReturnNull ==
  /\ Takeable = {}
  /\ UNCHANGED vars

(***************************************************************************)
(* The other calls.  Each of them first looks page_id up and returns if it *)
(* is not cached.                                                          *)
(***************************************************************************)

\* replacer_->SetEvictable(f, true): nothing for a frame it does not track.
UnpinInReplacer(f) ==
  /\ evictable' = IF f \in tracked THEN evictable \cup {f} ELSE evictable
  /\ UNCHANGED tracked

\* Fault: the flag of the last caller replaces the others'.
UnpinnedLastFlag(page, is_dirty) ==
  [page EXCEPT !.pin_count = @ - 1, !.is_dirty = is_dirty]

\* One pin less; the dirty flag is only ever set here, never cleared.
Unpinned(page, is_dirty) ==
  [page EXCEPT !.pin_count = @ - 1, !.is_dirty = @ \/ is_dirty]

\* Fault: the pin count is not looked at.
UnpinPgImpUnchecked(page_id, is_dirty) ==
  /\ Cached(page_id)
  /\ pages' = [pages EXCEPT ![page_table[page_id]] = Unpinned(@, is_dirty)]
  /\ IF FrameOf(page_id).pin_count = 1 THEN UnpinInReplacer(page_table[page_id])
                                       ELSE UNCHANGED replacer
  /\ UNCHANGED <<page_table, free_list, next_page_id, disk>>

UnpinPgImp(page_id, is_dirty) ==
  /\ Cached(page_id)
  /\ FrameOf(page_id).pin_count > 0
  /\ pages' = [pages EXCEPT ![page_table[page_id]] = Unpinned(@, is_dirty)]
  /\ IF FrameOf(page_id).pin_count = 1 THEN UnpinInReplacer(page_table[page_id])
                                       ELSE UNCHANGED replacer
  /\ UNCHANGED <<page_table, free_list, next_page_id, disk>>

FlushPgImp(page_id) ==
  /\ Cached(page_id)
  /\ disk' = [disk EXCEPT ![page_id] = FrameOf(page_id).data]
  /\ pages' = [pages EXCEPT ![page_table[page_id]].is_dirty = FALSE]
  /\ UNCHANGED <<page_table, free_list, next_page_id, replacer>>

\* The pages FlushAllPgsImp writes.
Flushable(f) == pages[f].page_id # INVALID_PAGE_ID /\ pages[f].is_dirty

\* Fault: the frame number is taken for the page id.
FlushAllPgsImpByFrame ==
  /\ disk' = [p \in PageIds |->
                IF p \in Frames /\ Flushable(p) THEN pages[p].data ELSE disk[p]]
  /\ pages' = [f \in Frames |-> [pages[f] EXCEPT !.is_dirty = FALSE]]
  /\ UNCHANGED <<page_table, free_list, next_page_id, replacer>>

FlushAllPgsImp ==
  /\ disk' = [p \in PageIds |->
                IF \E f \in Frames : Flushable(f) /\ pages[f].page_id = p
                THEN LET f == CHOOSE f \in Frames : Flushable(f) /\ pages[f].page_id = p
                     IN  pages[f].data
                ELSE disk[p]]
  /\ pages' = [f \in Frames |-> IF Flushable(f)
                                THEN [pages[f] EXCEPT !.is_dirty = FALSE]
                                ELSE pages[f]]
  /\ UNCHANGED <<page_table, free_list, next_page_id, replacer>>

\* replacer_->Remove(f): a tracked frame must be evictable there, or the
\* BUSTUB_ASSERT of LRUKReplacer::Remove fires (ReplacerAgrees).
RemoveFromReplacer(f) ==
  /\ tracked' = tracked \ {f}
  /\ evictable' = evictable \ {f}

DeletePgImp(page_id) ==
  /\ Cached(page_id)
  /\ FrameOf(page_id).pin_count = 0
  /\ disk' = WriteBack(page_table[page_id])
  /\ RemoveFromReplacer(page_table[page_id])
  /\ page_table' = Erase(page_table, page_id)
  /\ pages' = [pages EXCEPT ![page_table[page_id]] = EmptyPage]
  /\ free_list' = Append(free_list, page_table[page_id])
  /\ UNCHANGED next_page_id

\* A caller that holds a pin writes the page through its Page *, outside latch_.
Modify(f, v) ==
  /\ pages[f].pin_count > 0
  /\ pages' = [pages EXCEPT ![f].data = v]
  /\ UNCHANGED <<page_table, free_list, next_page_id, replacer, disk>>

Next ==
  \/ \E f \in Frames : NewPgImp(f)
  \/ ReturnNull
  \/ FlushAllPgsImp
  \/ \E f \in Frames, v \in Values : Modify(f, v)
  \/ \E page_id \in Allocated :
       \/ FetchHit(page_id)
       \/ \E f \in Frames : FetchMiss(page_id, f)
       \/ \E is_dirty \in BOOLEAN : UnpinPgImp(page_id, is_dirty)
       \/ FlushPgImp(page_id)
       \/ DeletePgImp(page_id)

Spec == Init /\ [][Next]_vars

-----------------------------------------------------------------------------

TypeOK ==
  /\ pages \in [Frames -> Page]
  /\ DOMAIN page_table \subseteq PageIds
  /\ page_table \in [DOMAIN page_table -> Frames]
  /\ free_list \in Seq(Frames)
  /\ next_page_id \in 0 .. MaxPages
  /\ tracked \subseteq Frames
  /\ evictable \subseteq Frames
  /\ disk \in [PageIds -> Values]

\* The page table and the page_id_ of the frames are inverse to each other: no
\* page is in two frames, no frame answers for two pages, and eviction, which
\* only knows the frame, removes the right mapping.  Only allocated pages are
\* cached, so the id a new page gets has no frame yet.
TableConsistent ==
  /\ DOMAIN page_table \subseteq Allocated
  /\ \A p \in DOMAIN page_table : FrameOf(p).page_id = p
  /\ \A f \in Frames : pages[f].page_id # INVALID_PAGE_ID =>
       Cached(pages[f].page_id) /\ page_table[pages[f].page_id] = f

\* Every frame is in exactly one place: on the free list, once, and then it is
\* clean, unpinned and unknown to the replacer; or it holds a page.
FrameAccounting ==
  /\ \A f \in Frames :
       f \in Range(free_list) <=> pages[f].page_id = INVALID_PAGE_ID
  /\ \A f \in Range(free_list) : pages[f] = EmptyPage /\ f \notin tracked
  /\ \A i, j \in 1 .. Len(free_list) : free_list[i] = free_list[j] => i = j

\* The replacer agrees with the pin counts: it tracks the frames that hold a
\* page and may evict exactly those nobody has pinned.  DeletePgImp then never
\* runs into the assertion of LRUKReplacer::Remove.
ReplacerAgrees ==
  /\ tracked = {f \in Frames : pages[f].page_id # INVALID_PAGE_ID}
  /\ evictable = {f \in tracked : pages[f].pin_count = 0}

\* NewPage and FetchPage return nullptr only when every frame is pinned ("nullptr
\* if all frames are currently in use and not evictable").
NullMeansAllPinned ==
  Takeable = {} => \A f \in Frames : pages[f].pin_count > 0

\* While anybody holds a pin on it, a frame keeps its page: a Page * stays valid
\* across every call other threads make.
PinnedFramesKeepTheirPage ==
  [][\A f \in Frames :
       pages[f].pin_count > 0 => pages'[f].page_id = pages[f].page_id]_vars

\* A dirty page leaves its frame only after its content reached the disk, at the
\* place of that page.
NoDirtyPageIsDropped ==
  [][\A f \in Frames :
       pages[f].is_dirty /\ pages'[f].page_id # pages[f].page_id
         => disk'[pages[f].page_id] = pages[f].data]_vars

\* What is written to the place of a page on disk is that page's cached content,
\* or the zeroes of a page being allocated.
DiskGetsOwnPageOnly ==
  [][\A p \in PageIds : disk'[p] # disk[p] =>
       \/ Cached(p) /\ disk'[p] = FrameOf(p).data
       \/ p = next_page_id /\ disk'[p] = Zero]_vars

=============================================================================
