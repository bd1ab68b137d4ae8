-------------------------- MODULE BufferPoolProofs --------------------------
(***************************************************************************)
(* The invariants of BufferPool, for any pool size, any number of pages    *)
(* and any callers, and the safety of Page * and of dirty pages that       *)
(* follows from them.                                                      *)
(*                                                                         *)
(* Then the pool with its callers, for any number of them: the pins are    *)
(* exactly the callers' pages, a Page * stays valid while it is held, and  *)
(* what a caller reads is what was last written to the page (the pool      *)
(* implements PageStore).                                                  *)
(***************************************************************************)
EXTENDS BufferPoolClients, DataLemmas, FiniteSetTheorems

IInv ==
  /\ TypeOK
  /\ TableConsistent
  /\ FrameAccounting
  /\ ReplacerAgrees

\* Page ids are natural numbers, INVALID_PAGE_ID is not.
LEMMA InvalidIsNoPage == INVALID_PAGE_ID \notin PageIds
BY PoolAssumption DEF INVALID_PAGE_ID, PageIds

LEMMA IntervalGrows ==
  ASSUME NEW m \in Int, NEW n \in Int, m <= n
  PROVE  0 .. m - 1 \subseteq 0 .. n - 1
OBVIOUS

LEMMA EmptyPageType == EmptyPage \in Page
BY ZeroAssumption DEF EmptyPage, Page

\* What the invariant says of a cached page and its frame.
LEMMA CachedPage ==
  ASSUME IInv, NEW p, Cached(p)
  PROVE  /\ p \in PageIds
         /\ p \in Allocated
         /\ page_table[p] \in Frames
         /\ pages[page_table[p]] \in Page
         /\ pages[page_table[p]].page_id = p
         /\ p # INVALID_PAGE_ID
         /\ page_table[p] \in tracked
<1> USE DEF IInv
<1>1. p \in PageIds /\ page_table[p] \in Frames /\ p \in Allocated
  BY DEF TypeOK, Cached, TableConsistent
<1>2. pages[page_table[p]] \in Page /\ pages[page_table[p]].page_id = p
  BY <1>1 DEF TypeOK, TableConsistent, Cached, FrameOf
<1>3. p # INVALID_PAGE_ID
  BY <1>1, InvalidIsNoPage
<1> QED
  BY <1>1, <1>2, <1>3 DEF ReplacerAgrees

(***************************************************************************)
(* Taking a frame.                                                         *)
(***************************************************************************)

\* A frame that can be taken is unpinned; taking it removes it from the free
\* list and its page, if it has one, from the page table.
LEMMA TakeableFrame ==
  ASSUME IInv, NEW f \in Takeable
  PROVE  /\ f \in Frames
         /\ pages[f].pin_count = 0
         /\ RestOfFreeList \in Seq(Frames)
         /\ Range(RestOfFreeList) = Range(free_list) \ {f}
         /\ NoDuplicates(RestOfFreeList)
         /\ TableWithout(f) \in [DOMAIN TableWithout(f) -> Frames \ {f}]
         /\ DOMAIN TableWithout(f) = DOMAIN page_table \ {pages[f].page_id}
         /\ \A p \in DOMAIN TableWithout(f) : TableWithout(f)[p] = page_table[p]
         /\ DiskAfterTaking(f) \in [PageIds -> Values]
         /\ pages[f].is_dirty => /\ free_list = <<>>
                                 /\ pages[f].page_id \in DOMAIN page_table
<1> USE DEF IInv
<1>1. /\ free_list \in Seq(Frames) /\ NoDuplicates(free_list)
      /\ page_table \in [DOMAIN page_table -> Frames]
      /\ DOMAIN page_table \subseteq PageIds
      /\ disk \in [PageIds -> Values]
  BY DEF TypeOK, FrameAccounting, NoDuplicates
<1>2. CASE free_list # <<>>
  <2>1. /\ f = Head(free_list)
        /\ RestOfFreeList = Tail(free_list)
        /\ TableWithout(f) = page_table
        /\ DiskAfterTaking(f) = disk
    BY <1>2 DEF Takeable, RestOfFreeList, TableWithout, DiskAfterTaking
  <2>2. /\ f \in Range(free_list)
        /\ Tail(free_list) \in Seq(Frames)
        /\ Range(Tail(free_list)) = Range(free_list) \ {f}
        /\ NoDuplicates(Tail(free_list))
    BY <1>1, <1>2, <2>1, TailNoDuplicates
  <2>3. f \in Frames
    BY <1>1, <1>2, <2>1, HeadTailProperties
  <2>4. /\ pages[f] = EmptyPage
        /\ pages[f].page_id = INVALID_PAGE_ID
        /\ pages[f].pin_count = 0
        /\ pages[f].is_dirty = FALSE
    <3>1. pages[f] = EmptyPage
      BY <2>2 DEF FrameAccounting
    <3> QED
      BY <3>1 DEF EmptyPage
  <2>5. INVALID_PAGE_ID \notin DOMAIN page_table
    BY <1>1, InvalidIsNoPage
  <2>6. \A p \in DOMAIN page_table : page_table[p] # f
    BY <1>1, <2>4, <2>5, CachedPage DEF Cached
  <2> QED
    BY <1>1, <2>1, <2>2, <2>3, <2>4, <2>5, <2>6
<1>3. CASE free_list = <<>>
  <2>1. /\ f \in evictable
        /\ RestOfFreeList = free_list
        /\ TableWithout(f) = Erase(page_table, pages[f].page_id)
        /\ DiskAfterTaking(f) = WriteBack(f)
    BY <1>3 DEF Takeable, RestOfFreeList, TableWithout, DiskAfterTaking
  <2>2. f \in Frames /\ pages[f].pin_count = 0 /\ pages[f].page_id # INVALID_PAGE_ID
    BY <2>1 DEF ReplacerAgrees
  <2>3. Cached(pages[f].page_id) /\ page_table[pages[f].page_id] = f
    BY <2>2 DEF TableConsistent
  <2>4. Range(free_list) = {}
    BY <1>3 DEF Range
  <2>5. /\ DOMAIN TableWithout(f) = DOMAIN page_table \ {pages[f].page_id}
        /\ \A p \in DOMAIN TableWithout(f) : TableWithout(f)[p] = page_table[p]
        /\ TableWithout(f) = [p \in DOMAIN TableWithout(f) |-> TableWithout(f)[p]]
    BY <2>1 DEF Erase, Restrict
  <2>6. \A p \in DOMAIN TableWithout(f) : TableWithout(f)[p] \in Frames \ {f}
    BY <1>1, <2>5, CachedPage DEF Cached
  <2>7. TableWithout(f) \in [DOMAIN TableWithout(f) -> Frames \ {f}]
    BY <2>5, <2>6
  <2>8. WriteBack(f) \in [PageIds -> Values]
    <3>1. pages[f].data \in Values
      BY <2>2 DEF TypeOK, Page
    <3> QED
      BY <1>1, <3>1 DEF WriteBack
  <2> QED
    BY <1>1, <1>3, <2>1, <2>2, <2>3, <2>4, <2>5, <2>7, <2>8 DEF Cached
<1> QED
  BY <1>2, <1>3

\* Putting a page that is not cached into a frame that can be taken.
LEMMA InstallInvariant ==
  ASSUME IInv,
         NEW f \in Takeable, NEW q \in PageIds, q \in Allocated', ~Cached(q),
         NEW page \in Page, page.page_id = q, page.pin_count > 0,
         pages' = [pages EXCEPT ![f] = page],
         page_table' = Put(TableWithout(f), q, f),
         free_list' = RestOfFreeList,
         PinInReplacer(f),
         next_page_id' \in 0 .. MaxPages, next_page_id' >= next_page_id,
         disk' \in [PageIds -> Values]
  PROVE  IInv'
<1> USE DEF IInv
<1>1. /\ f \in Frames
      /\ RestOfFreeList \in Seq(Frames)
      /\ Range(RestOfFreeList) = Range(free_list) \ {f}
      /\ NoDuplicates(RestOfFreeList)
      /\ TableWithout(f) \in [DOMAIN TableWithout(f) -> Frames \ {f}]
      /\ DOMAIN TableWithout(f) = DOMAIN page_table \ {pages[f].page_id}
      /\ \A p \in DOMAIN TableWithout(f) : TableWithout(f)[p] = page_table[p]
  BY TakeableFrame
<1>2. /\ pages' \in [Frames -> Page]
      /\ pages'[f] = page
      /\ \A g \in Frames : g # f => pages'[g] = pages[g]
  BY <1>1 DEF TypeOK
<1>3. q # INVALID_PAGE_ID /\ q \notin DOMAIN page_table
  BY InvalidIsNoPage DEF Cached
<1>4. /\ DOMAIN page_table' = (DOMAIN page_table \ {pages[f].page_id}) \cup {q}
      /\ page_table'[q] = f
      /\ \A p \in DOMAIN page_table \ {pages[f].page_id} :
           page_table'[p] = page_table[p] /\ page_table[p] # f
      /\ page_table' \in [DOMAIN page_table' -> Frames]
  BY <1>1, <1>3 DEF Put
<1>5. TypeOK'
  <2>1. DOMAIN page_table' \subseteq PageIds
    BY <1>4 DEF TypeOK
  <2>2. tracked' \subseteq Frames /\ evictable' \subseteq Frames
    BY <1>1 DEF PinInReplacer, TypeOK
  <2> QED
    BY <1>1, <1>2, <1>4, <2>1, <2>2 DEF TypeOK, Frames, PageIds
<1>6. TableConsistent'
  <2>1. DOMAIN page_table' \subseteq Allocated'
    <3>1. /\ next_page_id \in Int /\ next_page_id' \in Int
          /\ next_page_id <= next_page_id'
      BY DEF TypeOK
    <3>2. Allocated \subseteq Allocated'
      BY <3>1, IntervalGrows DEF Allocated
    <3> QED
      BY <1>4, <3>2 DEF TableConsistent
  <2>2. \A p \in DOMAIN page_table' : pages'[page_table'[p]].page_id = p
    <3>1. \A p \in DOMAIN page_table \ {pages[f].page_id} :
            page_table[p] \in Frames /\ pages[page_table[p]].page_id = p
      BY CachedPage DEF Cached
    <3> QED
      BY <1>2, <1>4, <3>1
  <2>3. ASSUME NEW g \in Frames, pages'[g].page_id # INVALID_PAGE_ID
        PROVE  /\ pages'[g].page_id \in DOMAIN page_table'
               /\ page_table'[pages'[g].page_id] = g
    <3>1. CASE g = f
      BY <1>2, <1>4, <3>1
    <3>2. CASE g # f
      <4>1. /\ pages[g].page_id \in DOMAIN page_table
            /\ page_table[pages[g].page_id] = g
            /\ pages'[g] = pages[g]
        BY <1>2, <2>3, <3>2 DEF TableConsistent, Cached
      <4>2. pages[g].page_id # pages[f].page_id
        <5>1. CASE pages[f].page_id = INVALID_PAGE_ID
          BY <2>3, <4>1, <5>1
        <5>2. CASE pages[f].page_id # INVALID_PAGE_ID
          BY <1>1, <3>2, <4>1, <5>2 DEF TableConsistent
        <5> QED
          BY <5>1, <5>2
      <4> QED
        BY <1>4, <4>1, <4>2
    <3> QED
      BY <3>1, <3>2
  <2> QED
    BY <2>1, <2>2, <2>3 DEF TableConsistent, Cached, FrameOf, Frames
<1>7. FrameAccounting'
  <2>1. /\ Range(free_list') = Range(free_list) \ {f}
        /\ NoDuplicates(free_list')
    BY <1>1
  <2>2. \A g \in Frames :
          g \in Range(free_list') <=> pages'[g].page_id = INVALID_PAGE_ID
    BY <1>2, <1>3, <2>1 DEF FrameAccounting
  <2>3. \A g \in Range(free_list') : pages'[g] = EmptyPage /\ g \notin tracked'
    <3>1. \A g \in Range(free_list') : g \in Frames /\ g # f
      BY <1>1, <2>1, RangeOfSeq
    <3> QED
      BY <1>2, <2>1, <3>1 DEF FrameAccounting, PinInReplacer
  <2> QED
    BY <2>1, <2>2, <2>3 DEF FrameAccounting, NoDuplicates, Frames
<1>8. ReplacerAgrees'
  <2>1. \A g \in Frames : g \in tracked' <=> pages'[g].page_id # INVALID_PAGE_ID
    BY <1>1, <1>2, <1>3 DEF PinInReplacer, ReplacerAgrees
  <2>2. \A g \in Frames :
          g \in evictable' <=> g \in tracked' /\ pages'[g].pin_count = 0
    BY <1>1, <1>2 DEF PinInReplacer, ReplacerAgrees
  <2>3. tracked' \subseteq Frames /\ evictable' \subseteq Frames
    BY <1>5 DEF TypeOK, Frames
  <2> QED
    BY <2>1, <2>2, <2>3 DEF ReplacerAgrees, Frames
<1> QED
  BY <1>5, <1>6, <1>7, <1>8

\* Calls that leave every page in its frame.
LEMMA SamePlacesInvariant ==
  ASSUME IInv,
         pages' \in [Frames -> Page],
         \A f \in Frames : pages'[f].page_id = pages[f].page_id,
         \A f \in Frames : pages[f] = EmptyPage => pages'[f] = EmptyPage,
         UNCHANGED <<page_table, free_list, next_page_id, tracked>>,
         evictable' = {f \in tracked : pages'[f].pin_count = 0},
         disk' \in [PageIds -> Values]
  PROVE  IInv'
<1> USE DEF IInv
<1>1. TypeOK'
  BY DEF TypeOK, Frames, PageIds
<1>2. TableConsistent'
  <2>1. \A p \in DOMAIN page_table' : pages'[page_table'[p]].page_id = p
    BY CachedPage DEF Cached
  <2>2. \A f \in Frames : pages'[f].page_id # INVALID_PAGE_ID =>
          /\ pages'[f].page_id \in DOMAIN page_table'
          /\ page_table'[pages'[f].page_id] = f
    BY DEF TableConsistent, Cached
  <2>3. DOMAIN page_table' \subseteq Allocated'
    BY DEF TableConsistent, Allocated
  <2> QED
    BY <2>1, <2>2, <2>3 DEF TableConsistent, Cached, FrameOf, Frames
<1>3. FrameAccounting'
  <2>1. \A f \in Frames :
          f \in Range(free_list') <=> pages'[f].page_id = INVALID_PAGE_ID
    BY DEF FrameAccounting
  <2>2. \A f \in Range(free_list') : pages'[f] = EmptyPage /\ f \notin tracked'
    <3>1. Range(free_list) \subseteq Frames
      BY RangeOfSeq DEF TypeOK
    <3> QED
      BY <3>1 DEF FrameAccounting
  <2> QED
    BY <2>1, <2>2 DEF FrameAccounting, Frames
<1>4. ReplacerAgrees'
  BY DEF ReplacerAgrees, Frames
<1> QED
  BY <1>1, <1>2, <1>3, <1>4

(***************************************************************************)
(* The actions.                                                            *)
(***************************************************************************)

LEMMA InitInvariant == Init => IInv
<1> SUFFICES ASSUME Init
             PROVE  IInv
  OBVIOUS
<1>1. pages \in [Frames -> Page] /\ \A f \in Frames : pages[f] = EmptyPage
  BY EmptyPageType DEF Init
<1>2. /\ free_list \in Seq(Frames)
      /\ Len(free_list) = PoolSize
      /\ \A i \in 1 .. PoolSize : free_list[i] = i - 1
  <2>1. free_list = [i \in 1 .. PoolSize |-> i - 1]
    BY DEF Init
  <2>2. \A i \in 1 .. PoolSize : i - 1 \in Frames
    BY PoolAssumption DEF Frames
  <2> QED
    BY <2>1, <2>2, PoolAssumption
<1>3. Range(free_list) = Frames
  <2>1. Range(free_list) = {free_list[i] : i \in 1 .. PoolSize}
    BY <1>2, RangeEquality
  <2>2. \A f \in Frames : f + 1 \in 1 .. PoolSize /\ free_list[f + 1] = f
    BY <1>2, PoolAssumption DEF Frames
  <2>3. \A i \in 1 .. PoolSize : free_list[i] \in Frames
    BY <1>2, PoolAssumption DEF Frames
  <2> QED
    BY <2>1, <2>2, <2>3
<1>4. TypeOK
  BY <1>1, <1>2, PoolAssumption, ZeroAssumption DEF Init, TypeOK
<1>5. TableConsistent
  BY <1>1 DEF Init, TableConsistent, EmptyPage
<1>6. FrameAccounting
  <2>1. \A i, j \in 1 .. Len(free_list) : free_list[i] = free_list[j] => i = j
    BY <1>2
  <2>2. \A f \in Frames : pages[f].page_id = INVALID_PAGE_ID /\ f \notin tracked
    BY <1>1 DEF Init, EmptyPage
  <2> QED
    BY <1>1, <1>3, <2>1, <2>2 DEF FrameAccounting
<1>7. ReplacerAgrees
  BY <1>1 DEF Init, ReplacerAgrees, EmptyPage
<1> QED
  BY <1>4, <1>5, <1>6, <1>7 DEF IInv

LEMMA FilledPage ==
  ASSUME NEW empty \in Page, NEW q \in PageIds
  PROVE  LET page == [empty EXCEPT !.page_id = q, !.pin_count = 1]
         IN  page \in Page /\ page.page_id = q /\ page.pin_count > 0
<1> DEFINE page == [empty EXCEPT !.page_id = q, !.pin_count = 1]
<1>1. q \in PageIds \cup {INVALID_PAGE_ID} /\ 1 \in Nat
  OBVIOUS
<1>2. page \in Page
  BY <1>1 DEF Page
<1>3. page.page_id = q /\ page.pin_count = 1
  BY DEF Page
<1> QED
  BY <1>2, <1>3

LEMMA NewPgInvariant ==
  ASSUME IInv, NEW f \in Frames, NewPgImp(f)
  PROVE  IInv'
<1> DEFINE page == [EmptyPage EXCEPT !.page_id = next_page_id, !.pin_count = 1]
<1>1. next_page_id \in 0 .. MaxPages /\ next_page_id < MaxPages
  BY DEF IInv, TypeOK, NewPgImp
<1>2. /\ next_page_id \in PageIds
      /\ next_page_id' = next_page_id + 1
      /\ next_page_id' \in 0 .. MaxPages
      /\ next_page_id' >= next_page_id
      /\ next_page_id \in 0 .. next_page_id' - 1
  BY <1>1, PoolAssumption DEF NewPgImp, PageIds
<1>3. ~Cached(next_page_id)
  <2>1. next_page_id \notin Allocated
    BY <1>1 DEF Allocated
  <2> QED
    BY <2>1 DEF IInv, TableConsistent, Cached
<1>4. page \in Page /\ page.page_id = next_page_id /\ page.pin_count > 0
  BY <1>2, EmptyPageType, FilledPage
<1>5. f \in Takeable /\ DiskAfterTaking(f) \in [PageIds -> Values]
  BY TakeableFrame DEF NewPgImp
<1>6. /\ pages' = [pages EXCEPT ![f] = page]
      /\ page_table' = Put(TableWithout(f), next_page_id, f)
      /\ free_list' = RestOfFreeList
      /\ PinInReplacer(f)
      /\ disk' \in [PageIds -> Values]
  BY <1>2, <1>5, ZeroAssumption DEF NewPgImp
<1> HIDE DEF page
<1>7. next_page_id \in Allocated'
  BY <1>2 DEF Allocated
<1> QED
  BY <1>2, <1>3, <1>4, <1>5, <1>6, <1>7, InstallInvariant

LEMMA FetchMissInvariant ==
  ASSUME IInv, NEW q \in Allocated, NEW f \in Frames, FetchMiss(q, f)
  PROVE  IInv'
<1> DEFINE page == [page_id |-> q, pin_count |-> 1, is_dirty |-> FALSE,
                    data |-> disk'[q]]
<1>1. /\ next_page_id \in 0 .. MaxPages /\ next_page_id' \in 0 .. MaxPages
      /\ next_page_id' = next_page_id /\ next_page_id' >= next_page_id
  BY PoolAssumption DEF IInv, TypeOK, FetchMiss
<1>2. q \in PageIds /\ q \in Allocated'
  BY <1>1, PoolAssumption DEF Allocated, PageIds
<1>3. f \in Takeable /\ ~Cached(q) /\ DiskAfterTaking(f) \in [PageIds -> Values]
  BY TakeableFrame DEF FetchMiss
<1>4. disk' \in [PageIds -> Values] /\ disk'[q] \in Values
  BY <1>2, <1>3 DEF FetchMiss
<1>5. page \in Page /\ page.page_id = q /\ page.pin_count > 0
  BY <1>2, <1>4 DEF Page
<1>6. /\ pages' = [pages EXCEPT ![f] = page]
      /\ page_table' = Put(TableWithout(f), q, f)
      /\ free_list' = RestOfFreeList
      /\ PinInReplacer(f)
  BY DEF FetchMiss
<1> HIDE DEF page
<1> QED
  BY <1>1, <1>2, <1>3, <1>4, <1>5, <1>6, InstallInvariant

LEMMA FetchHitInvariant ==
  ASSUME IInv, NEW q, FetchHit(q)
  PROVE  IInv'
<1> DEFINE f == page_table[q]
<1>1. /\ f \in Frames /\ pages[f] \in Page /\ f \in tracked
      /\ pages[f].page_id # INVALID_PAGE_ID
  BY CachedPage DEF FetchHit
<1>2. pages' = [pages EXCEPT ![f].pin_count = @ + 1]
  BY DEF FetchHit
<1>3. /\ UNCHANGED <<page_table, free_list, next_page_id, disk>>
      /\ tracked' = tracked \cup {f}
      /\ evictable' = evictable \ {f}
  BY DEF FetchHit, PinInReplacer
<1> HIDE DEF f
<1>4. /\ pages' \in [Frames -> Page]
      /\ pages'[f].page_id = pages[f].page_id
      /\ pages'[f].pin_count = pages[f].pin_count + 1
      /\ \A g \in Frames : g # f => pages'[g] = pages[g]
  <2> DEFINE page == [pages[f] EXCEPT !.pin_count = @ + 1]
  <2>1. pages \in [Frames -> Page]
    BY DEF IInv, TypeOK
  <2>2. /\ page \in Page
        /\ page.page_id = pages[f].page_id
        /\ page.pin_count = pages[f].pin_count + 1
    BY <1>1 DEF Page
  <2>3. pages' = [pages EXCEPT ![f] = page]
    BY <1>2
  <2> HIDE DEF page
  <2> QED
    BY <1>1, <2>1, <2>2, <2>3
<1>5. pages'[f].pin_count # 0
  BY <1>1, <1>4 DEF Page
<1>6. \A g \in Frames : pages[g] = EmptyPage => pages'[g] = EmptyPage
  BY <1>1, <1>4 DEF EmptyPage
<1>7. evictable' = {g \in tracked : pages'[g].pin_count = 0}
  BY <1>3, <1>4, <1>5 DEF IInv, ReplacerAgrees
<1> QED
  BY <1>1, <1>3, <1>4, <1>6, <1>7, SamePlacesInvariant DEF IInv, TypeOK

LEMMA UnpinnedPage ==
  ASSUME NEW page \in Page, page.pin_count > 0, NEW is_dirty \in BOOLEAN
  PROVE  /\ Unpinned(page, is_dirty) \in Page
         /\ Unpinned(page, is_dirty).page_id = page.page_id
         /\ Unpinned(page, is_dirty).pin_count = page.pin_count - 1
<1> DEFINE flag == page.is_dirty \/ is_dirty
<1>1. flag \in BOOLEAN
  OBVIOUS
<1>2. Unpinned(page, is_dirty) = [page EXCEPT !.pin_count = @ - 1, !.is_dirty = flag]
  BY Zenon DEF Unpinned
<1>3. page.pin_count - 1 \in Nat
  BY DEF Page
<1> HIDE DEF flag
<1> QED
  BY <1>1, <1>2, <1>3 DEF Page

LEMMA UnpinInvariant ==
  ASSUME IInv, NEW q, NEW is_dirty \in BOOLEAN, UnpinPgImp(q, is_dirty)
  PROVE  IInv'
<1> DEFINE f == page_table[q]
<1>1. /\ f \in Frames /\ pages[f] \in Page /\ f \in tracked
      /\ pages[f].page_id # INVALID_PAGE_ID
  BY CachedPage DEF UnpinPgImp
<1>2. /\ pages' = [pages EXCEPT ![f] = Unpinned(@, is_dirty)]
      /\ pages[f].pin_count > 0
      /\ IF pages[f].pin_count = 1 THEN UnpinInReplacer(f) ELSE UNCHANGED replacer
  BY DEF UnpinPgImp, FrameOf
<1>3. UNCHANGED <<page_table, free_list, next_page_id, disk>>
  BY DEF UnpinPgImp
<1> HIDE DEF f
<1>4. /\ pages' \in [Frames -> Page]
      /\ pages'[f].page_id = pages[f].page_id
      /\ pages'[f].pin_count = pages[f].pin_count - 1
      /\ \A g \in Frames : g # f => pages'[g] = pages[g]
  <2> DEFINE page == Unpinned(pages[f], is_dirty)
  <2>1. pages \in [Frames -> Page]
    BY DEF IInv, TypeOK
  <2>2. /\ page \in Page
        /\ page.page_id = pages[f].page_id
        /\ page.pin_count = pages[f].pin_count - 1
    BY <1>1, <1>2, UnpinnedPage
  <2>3. pages' = [pages EXCEPT ![f] = page]
    BY <1>2
  <2> HIDE DEF page
  <2> QED
    BY <1>1, <2>1, <2>2, <2>3
<1>5. \A g \in Frames : pages[g] = EmptyPage => pages'[g] = EmptyPage
  BY <1>1, <1>4 DEF EmptyPage
<1>6. /\ evictable = {g \in tracked : pages[g].pin_count = 0}
      /\ tracked \subseteq Frames
  BY DEF IInv, ReplacerAgrees
<1>7. tracked' = tracked /\ evictable' = {g \in tracked : pages'[g].pin_count = 0}
  <2>1. CASE pages[f].pin_count = 1
    <3>1. tracked' = tracked /\ evictable' = evictable \cup {f}
      BY <1>1, <1>2, <2>1 DEF UnpinInReplacer
    <3>2. pages'[f].pin_count = 0
      BY <1>4, <2>1
    <3> QED
      BY <1>1, <1>4, <1>6, <3>1, <3>2
  <2>2. CASE pages[f].pin_count # 1
    <3>1. tracked' = tracked /\ evictable' = evictable
      BY <1>2, <2>2 DEF replacer
    <3>2. pages'[f].pin_count # 0 /\ pages[f].pin_count # 0
      BY <1>1, <1>2, <1>4, <2>2 DEF Page
    <3> QED
      BY <1>1, <1>4, <1>6, <3>1, <3>2
  <2> QED
    BY <2>1, <2>2
<1> QED
  BY <1>3, <1>4, <1>5, <1>7, SamePlacesInvariant DEF IInv, TypeOK

\* Clearing the dirty flag changes nothing else.
LEMMA CleanedPage ==
  ASSUME NEW page \in Page
  PROVE  /\ [page EXCEPT !.is_dirty = FALSE] \in Page
         /\ [page EXCEPT !.is_dirty = FALSE].page_id = page.page_id
         /\ [page EXCEPT !.is_dirty = FALSE].pin_count = page.pin_count
         /\ page = EmptyPage => [page EXCEPT !.is_dirty = FALSE] = EmptyPage
<1>1. /\ [page EXCEPT !.is_dirty = FALSE] \in Page
      /\ [page EXCEPT !.is_dirty = FALSE].page_id = page.page_id
      /\ [page EXCEPT !.is_dirty = FALSE].pin_count = page.pin_count
  BY DEF Page
<1>2. page.is_dirty = FALSE => [page EXCEPT !.is_dirty = FALSE] = page
  BY DEF Page
<1>3. EmptyPage.is_dirty = FALSE
  BY DEF EmptyPage
<1> QED
  BY <1>1, <1>2, <1>3

LEMMA FlushInvariant ==
  ASSUME IInv, NEW q, FlushPgImp(q)
  PROVE  IInv'
<1> DEFINE f == page_table[q]
<1>1. f \in Frames /\ pages[f] \in Page /\ q \in PageIds
  BY CachedPage DEF FlushPgImp
<1>2. /\ pages' = [pages EXCEPT ![f].is_dirty = FALSE]
      /\ disk' = [disk EXCEPT ![q] = pages[f].data]
      /\ UNCHANGED <<page_table, free_list, next_page_id, tracked, evictable>>
  BY DEF FlushPgImp, FrameOf, replacer
<1> HIDE DEF f
<1>3. /\ pages' \in [Frames -> Page]
      /\ \A g \in Frames : pages'[g].page_id = pages[g].page_id
      /\ \A g \in Frames : pages'[g].pin_count = pages[g].pin_count
      /\ \A g \in Frames : pages[g] = EmptyPage => pages'[g] = EmptyPage
  <2>1. pages \in [Frames -> Page]
    BY DEF IInv, TypeOK
  <2>2. \A g \in Frames :
          pages'[g] = IF g = f THEN [pages[g] EXCEPT !.is_dirty = FALSE]
                               ELSE pages[g]
    BY <1>1, <1>2, <2>1
  <2>3. pages' = [g \in Frames |-> pages'[g]]
    BY <1>2, <2>1
  <2> QED
    BY ZenonT(40), <2>1, <2>2, <2>3, CleanedPage
<1>4. disk' \in [PageIds -> Values]
  BY <1>1, <1>2 DEF IInv, TypeOK, Page
<1>5. evictable' = {g \in tracked : pages'[g].pin_count = 0}
  BY <1>2, <1>3 DEF IInv, ReplacerAgrees
<1> QED
  BY <1>2, <1>3, <1>4, <1>5, SamePlacesInvariant

LEMMA FlushAllInvariant ==
  ASSUME IInv, FlushAllPgsImp
  PROVE  IInv'
<1>1. /\ pages' = [f \in Frames |-> IF Flushable(f)
                                    THEN [pages[f] EXCEPT !.is_dirty = FALSE]
                                    ELSE pages[f]]
      /\ UNCHANGED <<page_table, free_list, next_page_id, tracked, evictable>>
  BY DEF FlushAllPgsImp, replacer
<1>2. /\ pages' \in [Frames -> Page]
      /\ \A f \in Frames : pages'[f].page_id = pages[f].page_id
      /\ \A f \in Frames : pages'[f].pin_count = pages[f].pin_count
      /\ \A f \in Frames : pages[f] = EmptyPage => pages'[f] = EmptyPage
  <2>1. pages \in [Frames -> Page]
    BY DEF IInv, TypeOK
  <2>2. \A f \in Frames :
          \/ pages'[f] = [pages[f] EXCEPT !.is_dirty = FALSE]
          \/ pages'[f] = pages[f]
    BY <1>1
  <2>3. pages' = [f \in Frames |-> pages'[f]]
    BY <1>1
  <2> QED
    BY <2>1, <2>2, <2>3, CleanedPage
<1>3. disk' \in [PageIds -> Values]
  <2> DEFINE Source(p) == CHOOSE f \in Frames : Flushable(f) /\ pages[f].page_id = p
  <2>1. \A p \in PageIds :
          (\E f \in Frames : Flushable(f) /\ pages[f].page_id = p)
            => pages[Source(p)].data \in Values
    BY DEF IInv, TypeOK, Page
  <2>2. disk' = [p \in PageIds |->
                   IF \E f \in Frames : Flushable(f) /\ pages[f].page_id = p
                   THEN pages[Source(p)].data ELSE disk[p]]
    BY DEF FlushAllPgsImp
  <2> HIDE DEF Source
  <2> QED
    BY <2>1, <2>2 DEF IInv, TypeOK
<1>4. evictable' = {f \in tracked : pages'[f].pin_count = 0}
  BY <1>1, <1>2 DEF IInv, ReplacerAgrees
<1> QED
  BY <1>1, <1>2, <1>3, <1>4, SamePlacesInvariant

LEMMA ModifyInvariant ==
  ASSUME IInv, NEW f \in Frames, NEW v \in Values, Modify(f, v)
  PROVE  IInv'
<1>1. /\ pages' = [pages EXCEPT ![f].data = v]
      /\ pages[f].pin_count > 0
      /\ UNCHANGED <<page_table, free_list, next_page_id, tracked, evictable, disk>>
  BY DEF Modify, replacer
<1>2. /\ pages' \in [Frames -> Page]
      /\ \A g \in Frames : pages'[g].page_id = pages[g].page_id
      /\ \A g \in Frames : pages'[g].pin_count = pages[g].pin_count
      /\ \A g \in Frames : pages[g] = EmptyPage => pages'[g] = EmptyPage
  <2>1. pages \in [Frames -> Page]
    BY DEF IInv, TypeOK
  <2>2. \A g \in Frames :
          pages'[g] = IF g = f THEN [pages[g] EXCEPT !.data = v] ELSE pages[g]
    BY <1>1, <2>1
  <2>3. pages' = [g \in Frames |-> pages'[g]]
    BY <1>1, <2>1
  <2>4. pages[f] # EmptyPage
    BY <1>1 DEF EmptyPage
  <2>5. \A page \in Page : /\ [page EXCEPT !.data = v] \in Page
                           /\ [page EXCEPT !.data = v].page_id = page.page_id
                           /\ [page EXCEPT !.data = v].pin_count = page.pin_count
    BY DEF Page
  <2> QED
    BY <2>1, <2>2, <2>3, <2>4, <2>5
<1>3. evictable' = {g \in tracked : pages'[g].pin_count = 0}
  BY <1>1, <1>2 DEF IInv, ReplacerAgrees
<1> QED
  BY <1>1, <1>2, <1>3, SamePlacesInvariant DEF IInv, TypeOK

LEMMA DeletePgInvariant ==
  ASSUME IInv, NEW q, DeletePgImp(q)
  PROVE  IInv'
<1> DEFINE f == page_table[q]
<1>1. /\ f \in Frames /\ pages[f] \in Page /\ q \in PageIds /\ q \in DOMAIN page_table
      /\ pages[f].page_id = q /\ q # INVALID_PAGE_ID
  BY CachedPage DEF DeletePgImp, Cached
<1>2. /\ pages' = [pages EXCEPT ![f] = EmptyPage]
      /\ page_table' = Erase(page_table, q)
      /\ free_list' = Append(free_list, f)
      /\ tracked' = tracked \ {f}
      /\ evictable' = evictable \ {f}
      /\ disk' = WriteBack(f)
      /\ next_page_id' = next_page_id
  BY DEF DeletePgImp, RemoveFromReplacer
<1>3. \A p \in DOMAIN page_table \ {q} :
        page_table[p] \in Frames /\ page_table[p] # f /\ pages[page_table[p]].page_id = p
  BY <1>1, CachedPage DEF Cached
<1> HIDE DEF f
<1>4. /\ pages' \in [Frames -> Page]
      /\ pages'[f] = EmptyPage
      /\ pages'[f].page_id = INVALID_PAGE_ID
      /\ pages'[f].pin_count = 0
      /\ \A g \in Frames : g # f => pages'[g] = pages[g]
  <2>1. pages \in [Frames -> Page]
    BY DEF IInv, TypeOK
  <2>2. EmptyPage.page_id = INVALID_PAGE_ID /\ EmptyPage.pin_count = 0
    BY DEF EmptyPage
  <2> QED
    BY <1>1, <1>2, <2>1, <2>2, EmptyPageType
<1>5. /\ DOMAIN page_table' = DOMAIN page_table \ {q}
      /\ \A p \in DOMAIN page_table' : page_table'[p] = page_table[p]
      /\ page_table' = [p \in DOMAIN page_table' |-> page_table'[p]]
  BY <1>2 DEF Erase, Restrict
<1>6. /\ free_list' \in Seq(Frames)
      /\ Range(free_list') = Range(free_list) \cup {f}
      /\ NoDuplicates(free_list')
  <2>1. f \notin Range(free_list)
    BY <1>1 DEF IInv, FrameAccounting
  <2>2. free_list \in Seq(Frames) /\ NoDuplicates(free_list)
    BY DEF IInv, TypeOK, FrameAccounting, NoDuplicates
  <2>3. /\ Append(free_list, f) \in Seq(Frames)
        /\ Range(Append(free_list, f)) = Range(free_list) \cup {f}
        /\ NoDuplicates(Append(free_list, f))
    BY <1>1, <2>1, <2>2, AppendFresh
  <2> QED
    BY <1>2, <2>3
<1>7. TypeOK'
  <2>1. page_table' \in [DOMAIN page_table' -> Frames]
    BY <1>3, <1>5
  <2>2. DOMAIN page_table' \subseteq PageIds
    BY <1>5 DEF IInv, TypeOK
  <2>3. disk' \in [PageIds -> Values]
    BY <1>1, <1>2 DEF IInv, TypeOK, WriteBack, Page
  <2> QED
    BY <1>2, <1>4, <1>6, <2>1, <2>2, <2>3 DEF IInv, TypeOK, Frames, PageIds
<1>8. TableConsistent'
  <2>1. \A p \in DOMAIN page_table' : pages'[page_table'[p]].page_id = p
    BY <1>3, <1>4, <1>5
  <2>2. \A g \in Frames : pages'[g].page_id # INVALID_PAGE_ID =>
          /\ pages'[g].page_id \in DOMAIN page_table'
          /\ page_table'[pages'[g].page_id] = g
    <3>1. \A g \in Frames : g # f /\ pages[g].page_id # INVALID_PAGE_ID =>
            /\ pages[g].page_id \in DOMAIN page_table \ {q}
            /\ page_table[pages[g].page_id] = g
      BY <1>1 DEF IInv, TableConsistent, Cached, f
    <3> QED
      BY <1>4, <1>5, <3>1
  <2>3. DOMAIN page_table' \subseteq Allocated'
    BY <1>2, <1>5 DEF IInv, TableConsistent, Allocated
  <2> QED
    BY <2>1, <2>2, <2>3 DEF TableConsistent, Cached, FrameOf, Frames
<1>9. FrameAccounting'
  <2>1. \A g \in Frames :
          g \in Range(free_list') <=> pages'[g].page_id = INVALID_PAGE_ID
    BY <1>1, <1>4, <1>6 DEF IInv, FrameAccounting
  <2>2. \A g \in Range(free_list') : pages'[g] = EmptyPage /\ g \notin tracked'
    <3>1. Range(free_list) \subseteq Frames
      BY RangeOfSeq DEF IInv, TypeOK
    <3> QED
      BY <1>2, <1>4, <1>6, <3>1 DEF IInv, FrameAccounting
  <2> QED
    BY <1>6, <2>1, <2>2 DEF FrameAccounting, NoDuplicates, Frames
<1>10. ReplacerAgrees'
  <2>1. \A g \in Frames : g \in tracked' <=> pages'[g].page_id # INVALID_PAGE_ID
    BY <1>1, <1>2, <1>4 DEF IInv, ReplacerAgrees
  <2>2. \A g \in Frames :
          g \in evictable' <=> g \in tracked' /\ pages'[g].pin_count = 0
    BY <1>1, <1>2, <1>4 DEF IInv, ReplacerAgrees
  <2>3. tracked' \subseteq Frames /\ evictable' \subseteq Frames
    BY <1>7 DEF TypeOK, Frames
  <2> QED
    BY <2>1, <2>2, <2>3 DEF ReplacerAgrees, Frames
<1> QED
  BY <1>7, <1>8, <1>9, <1>10 DEF IInv

LEMMA NextInvariant ==
  ASSUME IInv, [Next]_vars
  PROVE  IInv'
<1>1. ASSUME NEW f \in Frames, NewPgImp(f)
      PROVE  IInv'
  BY <1>1, NewPgInvariant
<1>2. CASE ReturnNull \/ UNCHANGED vars
  BY <1>2 DEF ReturnNull, vars, pool, replacer, IInv, TypeOK, TableConsistent,
              FrameAccounting, ReplacerAgrees, Allocated, Cached, FrameOf
<1>3. CASE FlushAllPgsImp
  BY <1>3, FlushAllInvariant
<1>4. ASSUME NEW f \in Frames, NEW v \in Values, Modify(f, v)
      PROVE  IInv'
  BY <1>4, ModifyInvariant
<1>5. ASSUME NEW q \in Allocated, FetchHit(q)
      PROVE  IInv'
  BY <1>5, FetchHitInvariant
<1>6. ASSUME NEW q \in Allocated, NEW f \in Frames, FetchMiss(q, f)
      PROVE  IInv'
  BY <1>6, FetchMissInvariant
<1>7. ASSUME NEW q \in Allocated, NEW is_dirty \in BOOLEAN, UnpinPgImp(q, is_dirty)
      PROVE  IInv'
  BY <1>7, UnpinInvariant
<1>8. ASSUME NEW q \in Allocated, FlushPgImp(q)
      PROVE  IInv'
  BY <1>8, FlushInvariant
<1>9. ASSUME NEW q \in Allocated, DeletePgImp(q)
      PROVE  IInv'
  BY <1>9, DeletePgInvariant
<1> QED
  BY <1>1, <1>2, <1>3, <1>4, <1>5, <1>6, <1>7, <1>8, <1>9 DEF Next

LEMMA Invariance == Spec => []IInv
<1>1. IInv /\ [Next]_vars => IInv'
  BY NextInvariant
<1> QED
  BY <1>1, InitInvariant, PTL DEF Spec

-----------------------------------------------------------------------------
(***************************************************************************)
(* The theorems.                                                           *)
(***************************************************************************)

\* Type correctness; pin_count_ never becomes negative, whatever callers unpin.
THEOREM TypeCorrect == Spec => []TypeOK
<1>1. IInv => TypeOK
  BY DEF IInv
<1> QED
  BY <1>1, Invariance, PTL

\* The page table and the frames agree: no page is in two frames, whatever calls
\* came in between.
THEOREM TableCorrect == Spec => []TableConsistent
<1>1. IInv => TableConsistent
  BY DEF IInv
<1> QED
  BY <1>1, Invariance, PTL

\* Every frame is either on the free list, once, or holds a page: none is lost by
\* eviction or deletion, and none is given to two pages.
THEOREM FramesAccounted == Spec => []FrameAccounting
<1>1. IInv => FrameAccounting
  BY DEF IInv
<1> QED
  BY <1>1, Invariance, PTL

\* The replacer may evict exactly the unpinned frames that hold a page, and
\* DeletePgImp never runs into the assertion in LRUKReplacer::Remove.
THEOREM ReplacerCorrect == Spec => []ReplacerAgrees
<1>1. IInv => ReplacerAgrees
  BY DEF IInv
<1> QED
  BY <1>1, Invariance, PTL

\* NewPage and FetchPage return nullptr only when every frame is pinned.
THEOREM NullOnlyWhenFull == Spec => []NullMeansAllPinned
<1>1. ASSUME IInv, Takeable = {}, NEW f \in Frames
      PROVE  pages[f].pin_count > 0
  <2>1. evictable = {} /\ Range(free_list) = {}
    BY <1>1 DEF Takeable, Range
  <2>2. pages[f].page_id # INVALID_PAGE_ID
    BY <1>1, <2>1 DEF IInv, FrameAccounting
  <2>3. pages[f].pin_count # 0
    BY <1>1, <2>1, <2>2 DEF IInv, ReplacerAgrees
  <2> QED
    BY <1>1, <2>3 DEF IInv, TypeOK, Page
<1>2. IInv => NullMeansAllPinned
  BY <1>1 DEF NullMeansAllPinned
<1> QED
  BY <1>2, Invariance, PTL

\* The frames whose page a step replaces: only NewPgImp, FetchMiss and DeletePgImp
\* do that, for one unpinned frame, and a dirty page goes to disk first.
LEMMA FrameStep ==
  ASSUME IInv, [Next]_vars, NEW g \in Frames, pages'[g].page_id # pages[g].page_id
  PROVE  /\ pages[g].pin_count = 0
         /\ pages[g].is_dirty => disk'[pages[g].page_id] = pages[g].data
<1>1. pages \in [Frames -> Page] /\ disk \in [PageIds -> Values]
  BY DEF IInv, TypeOK
<1>2. ASSUME NEW f \in Takeable, pages[f].is_dirty
      PROVE  /\ DiskAfterTaking(f) = [disk EXCEPT ![pages[f].page_id] = pages[f].data]
             /\ pages[f].page_id \in DOMAIN page_table
             /\ pages[f].page_id \in PageIds
  <2>1. free_list = <<>> /\ pages[f].page_id \in DOMAIN page_table
    BY <1>2, TakeableFrame
  <2> QED
    BY <1>2, <2>1 DEF DiskAfterTaking, WriteBack, IInv, TypeOK
<1>3. ASSUME NEW f \in Frames, NewPgImp(f)
      PROVE  /\ pages[g].pin_count = 0
             /\ pages[g].is_dirty => disk'[pages[g].page_id] = pages[g].data
  <2>1. g = f /\ f \in Takeable
    BY <1>1, <1>3 DEF NewPgImp
  <2>2. pages[g].pin_count = 0
    BY <2>1, TakeableFrame
  <2>3. ASSUME pages[g].is_dirty
        PROVE  disk'[pages[g].page_id] = pages[g].data
    <3>1. pages[g].page_id # next_page_id
      <4>1. next_page_id \notin Allocated
        BY DEF IInv, TypeOK, Allocated
      <4> QED
        BY <1>2, <2>1, <2>3, <4>1 DEF IInv, TableConsistent
    <3>2. disk' = [DiskAfterTaking(f) EXCEPT ![next_page_id] = Zero]
      BY <1>3 DEF NewPgImp
    <3> QED
      BY <1>1, <1>2, <2>1, <2>3, <3>1, <3>2
  <2> QED
    BY <2>2, <2>3
<1>4. ASSUME NEW q \in Allocated, NEW f \in Frames, FetchMiss(q, f)
      PROVE  /\ pages[g].pin_count = 0
             /\ pages[g].is_dirty => disk'[pages[g].page_id] = pages[g].data
  <2>1. g = f /\ f \in Takeable /\ disk' = DiskAfterTaking(f)
    BY <1>1, <1>4 DEF FetchMiss
  <2>2. pages[g].pin_count = 0
    BY <2>1, TakeableFrame
  <2> QED
    BY <1>1, <1>2, <2>1, <2>2
<1>5. ASSUME NEW q \in Allocated, DeletePgImp(q)
      PROVE  /\ pages[g].pin_count = 0
             /\ pages[g].is_dirty => disk'[pages[g].page_id] = pages[g].data
  <2>1. /\ page_table[q] \in Frames /\ q \in PageIds
        /\ pages[page_table[q]].page_id = q
    BY <1>5, CachedPage DEF DeletePgImp
  <2>2. /\ pages' = [pages EXCEPT ![page_table[q]] = EmptyPage]
        /\ pages[page_table[q]].pin_count = 0
        /\ disk' = WriteBack(page_table[q])
    BY <1>5 DEF DeletePgImp, FrameOf
  <2>3. g = page_table[q]
    BY <1>1, <2>2
  <2> QED
    BY <1>1, <2>1, <2>2, <2>3 DEF WriteBack
<1>6. ASSUME \/ ReturnNull \/ FlushAllPgsImp \/ UNCHANGED vars
             \/ \E f \in Frames, v \in Values : Modify(f, v)
             \/ \E q \in Allocated :
                  \/ FetchHit(q) \/ FlushPgImp(q)
                  \/ \E is_dirty \in BOOLEAN : UnpinPgImp(q, is_dirty)
      PROVE  pages'[g].page_id = pages[g].page_id
  <2>1. CASE ReturnNull \/ UNCHANGED vars
    BY <2>1 DEF ReturnNull, vars, pool
  <2>2. CASE FlushAllPgsImp
    BY <1>1, <2>2, CleanedPage DEF FlushAllPgsImp
  <2>3. ASSUME NEW f \in Frames, NEW v \in Values, Modify(f, v)
        PROVE  pages'[g].page_id = pages[g].page_id
    BY <1>1, <2>3 DEF Modify, Page
  <2>4. ASSUME NEW q \in Allocated, FetchHit(q)
        PROVE  pages'[g].page_id = pages[g].page_id
    BY <1>1, <2>4 DEF FetchHit, Page
  <2>5. ASSUME NEW q \in Allocated, FlushPgImp(q)
        PROVE  pages'[g].page_id = pages[g].page_id
    BY <1>1, <2>5 DEF FlushPgImp, Page
  <2>6. ASSUME NEW q \in Allocated, NEW is_dirty \in BOOLEAN, UnpinPgImp(q, is_dirty)
        PROVE  pages'[g].page_id = pages[g].page_id
    BY <1>1, <2>6, UnpinnedPage DEF UnpinPgImp, FrameOf
  <2> QED
    BY <1>6, <2>1, <2>2, <2>3, <2>4, <2>5, <2>6
<1> QED
  BY <1>3, <1>4, <1>5, <1>6 DEF Next

\* While anybody holds a pin on it, a frame keeps its page.
THEOREM PinnedFramesAreStable == Spec => PinnedFramesKeepTheirPage
<1>1. ASSUME IInv, [Next]_vars, NEW f \in Frames, pages[f].pin_count > 0
      PROVE  pages'[f].page_id = pages[f].page_id
  BY <1>1, FrameStep
<1>2. IInv /\ [Next]_vars =>
        [\A f \in Frames :
           pages[f].pin_count > 0 => pages'[f].page_id = pages[f].page_id]_vars
  BY <1>1
<1> QED
  BY <1>2, Invariance, PTL DEF Spec, PinnedFramesKeepTheirPage

\* A dirty page leaves the pool only after it was written to its place on disk.
THEOREM DirtyPagesReachDisk == Spec => NoDirtyPageIsDropped
<1>1. IInv /\ [Next]_vars =>
        [\A f \in Frames :
           pages[f].is_dirty /\ pages'[f].page_id # pages[f].page_id
             => disk'[pages[f].page_id] = pages[f].data]_vars
  BY FrameStep
<1> QED
  BY <1>1, Invariance, PTL DEF Spec, NoDirtyPageIsDropped

\* A victim's page is cached, and its place on disk gets what its frame holds.
LEMMA VictimsOwnPlace ==
  ASSUME IInv, NEW f \in Takeable, NEW p \in PageIds, DiskAfterTaking(f)[p] # disk[p]
  PROVE  Cached(p) /\ DiskAfterTaking(f)[p] = FrameOf(p).data
<1>1. free_list = <<>> /\ f \in evictable /\ pages[f].is_dirty
  BY DEF Takeable, DiskAfterTaking, WriteBack
<1>2. DiskAfterTaking(f) = [disk EXCEPT ![pages[f].page_id] = pages[f].data]
  BY <1>1 DEF DiskAfterTaking, WriteBack
<1>3. disk \in [PageIds -> Values]
  BY DEF IInv, TypeOK
<1>4. p = pages[f].page_id
  BY <1>2, <1>3
<1>5. f \in Frames /\ p # INVALID_PAGE_ID
  BY <1>4, TakeableFrame, InvalidIsNoPage
<1>6. Cached(p) /\ page_table[p] = f
  BY <1>4, <1>5 DEF IInv, TableConsistent
<1> QED
  BY <1>2, <1>3, <1>4, <1>6 DEF FrameOf

\* What one step may write to the place of a page on disk.
LEMMA DiskStep ==
  ASSUME IInv, [Next]_vars, NEW p \in PageIds, disk'[p] # disk[p]
  PROVE  \/ Cached(p) /\ disk'[p] = FrameOf(p).data
         \/ p = next_page_id /\ disk'[p] = Zero
<1>1. disk \in [PageIds -> Values]
  BY DEF IInv, TypeOK
<1>2. ASSUME NEW f \in Frames, NewPgImp(f)
      PROVE  \/ Cached(p) /\ disk'[p] = FrameOf(p).data
             \/ p = next_page_id /\ disk'[p] = Zero
  <2>1. /\ f \in Takeable
        /\ DiskAfterTaking(f) \in [PageIds -> Values]
        /\ disk' = [DiskAfterTaking(f) EXCEPT ![next_page_id] = Zero]
    BY <1>2, TakeableFrame DEF NewPgImp
  <2> QED
    BY <2>1, VictimsOwnPlace
<1>3. ASSUME NEW q \in Allocated, NEW f \in Frames, FetchMiss(q, f)
      PROVE  Cached(p) /\ disk'[p] = FrameOf(p).data
  BY <1>3, VictimsOwnPlace DEF FetchMiss
<1>4. ASSUME NEW q \in Allocated, FlushPgImp(q)
      PROVE  Cached(p) /\ disk'[p] = FrameOf(p).data
  BY <1>1, <1>4 DEF FlushPgImp
<1>5. ASSUME FlushAllPgsImp
      PROVE  Cached(p) /\ disk'[p] = FrameOf(p).data
  <2>1. \E f \in Frames : Flushable(f) /\ pages[f].page_id = p
    BY <1>5 DEF FlushAllPgsImp
  <2> DEFINE g == CHOOSE f \in Frames : Flushable(f) /\ pages[f].page_id = p
  <2>2. g \in Frames /\ pages[g].page_id = p /\ Flushable(g)
    BY <2>1
  <2>3. disk'[p] = pages[g].data
    BY <1>5, <2>1 DEF FlushAllPgsImp
  <2> HIDE DEF g
  <2>4. Cached(p) /\ page_table[p] = g
    BY <2>2 DEF Flushable, IInv, TableConsistent
  <2> QED
    BY <2>3, <2>4 DEF FrameOf
<1>6. ASSUME NEW q \in Allocated, DeletePgImp(q)
      PROVE  Cached(p) /\ disk'[p] = FrameOf(p).data
  <2>1. Cached(q) /\ pages[page_table[q]].page_id = q
    BY <1>6, CachedPage DEF DeletePgImp
  <2>2. disk' = WriteBack(page_table[q])
    BY <1>6 DEF DeletePgImp
  <2>3. p = q /\ disk'[p] = pages[page_table[q]].data
    BY <1>1, <2>1, <2>2 DEF WriteBack
  <2> QED
    BY <2>1, <2>3 DEF FrameOf
<1>7. ASSUME \/ ReturnNull \/ UNCHANGED vars
             \/ \E f \in Frames, v \in Values : Modify(f, v)
             \/ \E q \in Allocated :
                  \/ FetchHit(q)
                  \/ \E is_dirty \in BOOLEAN : UnpinPgImp(q, is_dirty)
      PROVE  FALSE
  BY <1>7 DEF ReturnNull, vars, Modify, FetchHit, UnpinPgImp
<1> QED
  BY <1>2, <1>3, <1>4, <1>5, <1>6, <1>7 DEF Next

\* No call ever writes a page to the place of another one: eviction, flushing and
\* deletion write a cached page to its own place, NewPage zeroes the new one's.
THEOREM DiskPagesAreTheirOwn == Spec => DiskGetsOwnPageOnly
<1>1. IInv /\ [Next]_vars =>
        [\A p \in PageIds : disk'[p] # disk[p] =>
           \/ Cached(p) /\ disk'[p] = FrameOf(p).data
           \/ p = next_page_id /\ disk'[p] = Zero]_vars
  BY DiskStep
<1> QED
  BY <1>1, Invariance, PTL DEF Spec, DiskGetsOwnPageOnly

-----------------------------------------------------------------------------
(***************************************************************************)
(* The pool with its callers.                                              *)
(***************************************************************************)

\* Callers have a table of pages each, and only write pages they hold.
HoldersTypeOK ==
  /\ held = [c \in Clients |-> held[c]]
  /\ wrote \in [Clients -> SUBSET PageIds]
  /\ \A c \in Clients : wrote[c] \subseteq DOMAIN held[c]

CInv ==
  /\ IInv
  /\ HoldersTypeOK
  /\ PinCountIsHolders
  /\ PointersAreValid
  /\ CleanPagesAreOnDisk

LEMMA HoldersFinite ==
  ASSUME NEW p
  PROVE  /\ IsFiniteSet(Holders(p)) /\ Cardinality(Holders(p)) \in Nat
         /\ Cardinality(Holders(p)) = 0 <=> Holders(p) = {}
BY ClientsAssumption, FS_Subset, FS_CardinalityType, FS_EmptySet DEF Holders

\* The page a caller holds is cached, in the frame the caller knows, and pinned.
LEMMA HeldPage ==
  ASSUME CInv, NEW c \in Clients, NEW p \in DOMAIN held[c]
  PROVE  /\ Cached(p) /\ p \in PageIds
         /\ page_table[p] = held[c][p] /\ held[c][p] \in Frames
         /\ pages[page_table[p]].pin_count > 0
<1>1. Cached(p) /\ page_table[p] = held[c][p]
  BY DEF CInv, PointersAreValid
<1>2. p \in PageIds /\ page_table[p] \in Frames
  BY <1>1, CachedPage DEF CInv
<1>3. pages[page_table[p]].pin_count = Cardinality(Holders(p))
  BY <1>1 DEF CInv, PinCountIsHolders, Cached, FrameOf
<1>4. Cardinality(Holders(p)) \in Nat /\ Cardinality(Holders(p)) # 0
  BY HoldersFinite DEF Holders
<1> QED
  BY <1>1, <1>2, <1>3, <1>4

\* A frame without a page is not pinned: it is on the free list.
LEMMA EmptyFramesUnpinned ==
  ASSUME IInv, NEW f \in Frames, pages[f].page_id = INVALID_PAGE_ID
  PROVE  pages[f].pin_count = 0
<1>1. pages[f] = EmptyPage
  BY DEF IInv, FrameAccounting
<1> QED
  BY <1>1 DEF EmptyPage

\* Getting a page adds the caller to the holders of that page and of no other.
LEMMA ReceiveHolders ==
  ASSUME HoldersTypeOK, NEW c \in Clients, NEW q \in PageIds, NEW f,
         q \notin DOMAIN held[c], Receive(c, q, f)
  PROVE  /\ HoldersTypeOK'
         /\ wrote' = wrote
         /\ DOMAIN held'[c] = DOMAIN held[c] \cup {q} /\ held'[c][q] = f
         /\ \A d \in Clients : d # c => DOMAIN held'[d] = DOMAIN held[d]
         /\ \A d \in Clients : \A p \in DOMAIN held[d] : held'[d][p] = held[d][p]
         /\ Cardinality(Holders(q)') = Cardinality(Holders(q)) + 1
         /\ \A p : p # q => Holders(p)' = Holders(p)
<1>1. held' = [held EXCEPT ![c] = Put(held[c], q, f)] /\ wrote' = wrote
  BY DEF Receive
<1>2. /\ held' = [d \in Clients |-> held'[d]]
      /\ held'[c] = Put(held[c], q, f)
      /\ \A d \in Clients : d # c => held'[d] = held[d]
  BY <1>1 DEF HoldersTypeOK
<1>3. /\ DOMAIN held'[c] = DOMAIN held[c] \cup {q}
      /\ held'[c][q] = f
      /\ \A p \in DOMAIN held[c] : held'[c][p] = held[c][p]
  BY <1>2 DEF Put
<1>4. HoldersTypeOK'
  BY <1>1, <1>2, <1>3 DEF HoldersTypeOK, PageIds
<1>5. Holders(q)' = Holders(q) \cup {c} /\ c \notin Holders(q)
  BY <1>2, <1>3 DEF Holders
<1>6. Cardinality(Holders(q)') = Cardinality(Holders(q)) + 1
  BY <1>5, HoldersFinite, FS_AddElement
<1>7. ASSUME NEW p, p # q
      PROVE  Holders(p)' = Holders(p)
  BY <1>2, <1>3, <1>7 DEF Holders
<1> QED
  BY <1>1, <1>2, <1>3, <1>4, <1>6, <1>7

\* Giving a page back removes the caller, and that one only.
LEMMA UnpinHolders ==
  ASSUME HoldersTypeOK, NEW c \in Clients, NEW q \in DOMAIN held[c],
         held' = [held EXCEPT ![c] = Erase(@, q)],
         wrote' = [wrote EXCEPT ![c] = @ \ {q}]
  PROVE  /\ HoldersTypeOK'
         /\ \A d \in Clients : DOMAIN held'[d] \subseteq DOMAIN held[d]
         /\ \A d \in Clients : \A p \in DOMAIN held'[d] : held'[d][p] = held[d][p]
         /\ \A d \in Clients : \A p :
              p \in wrote'[d] <=> p \in wrote[d] /\ ~(d = c /\ p = q)
         /\ Cardinality(Holders(q)') = Cardinality(Holders(q)) - 1
         /\ \A p : p # q => Holders(p)' = Holders(p)
<1>1. /\ held' = [d \in Clients |-> held'[d]]
      /\ held'[c] = Erase(held[c], q)
      /\ \A d \in Clients : d # c => held'[d] = held[d]
  BY DEF HoldersTypeOK
<1>2. /\ DOMAIN held'[c] = DOMAIN held[c] \ {q}
      /\ \A p \in DOMAIN held'[c] : held'[c][p] = held[c][p]
  BY <1>1 DEF Erase, Restrict
<1>3. /\ wrote' \in [Clients -> SUBSET PageIds]
      /\ wrote'[c] = wrote[c] \ {q}
      /\ \A d \in Clients : d # c => wrote'[d] = wrote[d]
  BY DEF HoldersTypeOK
<1>4. HoldersTypeOK'
  BY <1>1, <1>2, <1>3 DEF HoldersTypeOK, PageIds
<1>5. Holders(q)' = Holders(q) \ {c} /\ c \in Holders(q)
  BY <1>1, <1>2 DEF Holders
<1>6. Cardinality(Holders(q)') = Cardinality(Holders(q)) - 1
  BY <1>5, HoldersFinite, FS_RemoveElement
<1>7. ASSUME NEW p, p # q
      PROVE  Holders(p)' = Holders(p)
  BY <1>1, <1>2, <1>7 DEF Holders
<1> QED
  BY <1>1, <1>2, <1>3, <1>4, <1>6, <1>7

(***************************************************************************)
(* The actions.                                                            *)
(***************************************************************************)

LEMMA ClientsInitInvariant == ClientsInit => CInv
<1> SUFFICES ASSUME ClientsInit
             PROVE  CInv
  OBVIOUS
<1>1. IInv
  BY InitInvariant DEF ClientsInit
<1>2. /\ page_table = <<>>
      /\ held = [c \in Clients |-> <<>>] /\ wrote = [c \in Clients |-> {}]
  BY DEF ClientsInit, Init
<1>3. HoldersTypeOK
  BY <1>2 DEF HoldersTypeOK
<1>4. PinCountIsHolders
  BY <1>1, <1>2, EmptyFramesUnpinned DEF PinCountIsHolders
<1>5. PointersAreValid /\ CleanPagesAreOnDisk
  BY <1>2 DEF PointersAreValid, CleanPagesAreOnDisk
<1> QED
  BY <1>1, <1>3, <1>4, <1>5 DEF CInv

\* A page that a caller gets in a frame of its own: the end of NewPage and of a
\* FetchPage that misses.
LEMMA InstallForClient ==
  ASSUME CInv, IInv',
         NEW c \in Clients, NEW f \in Takeable,
         NEW q \in PageIds, ~Cached(q),
         NEW page \in Page, page.page_id = q, page.pin_count = 1,
         page.data = disk'[q],
         pages' = [pages EXCEPT ![f] = page],
         page_table' = Put(TableWithout(f), q, f),
         \A p \in DOMAIN page_table \ {pages[f].page_id} : disk'[p] = disk[p],
         Receive(c, q, f)
  PROVE  CInv'
<1>1. /\ f \in Frames
      /\ pages[f].pin_count = 0
      /\ TableWithout(f) \in [DOMAIN TableWithout(f) -> Frames \ {f}]
      /\ DOMAIN TableWithout(f) = DOMAIN page_table \ {pages[f].page_id}
      /\ \A p \in DOMAIN TableWithout(f) : TableWithout(f)[p] = page_table[p]
  BY TakeableFrame DEF CInv
<1>2. pages \in [Frames -> Page]
  BY DEF CInv, IInv, TypeOK
<1>3. /\ pages'[f] = page
      /\ \A g \in Frames : g # f => pages'[g] = pages[g]
  BY <1>1, <1>2
<1>4. /\ DOMAIN page_table' = (DOMAIN page_table \ {pages[f].page_id}) \cup {q}
      /\ page_table'[q] = f
      /\ q \notin DOMAIN page_table
      /\ \A p \in DOMAIN page_table \ {pages[f].page_id} :
           /\ page_table'[p] = page_table[p]
           /\ page_table[p] \in Frames
           /\ page_table[p] # f
  BY <1>1 DEF Put, Cached
<1>5. q \notin DOMAIN held[c] /\ Holders(q) = {} /\ HoldersTypeOK
  BY DEF CInv, PointersAreValid, Holders
<1>6. /\ HoldersTypeOK' /\ wrote' = wrote
      /\ DOMAIN held'[c] = DOMAIN held[c] \cup {q} /\ held'[c][q] = f
      /\ \A d \in Clients : d # c => DOMAIN held'[d] = DOMAIN held[d]
      /\ \A d \in Clients : \A p \in DOMAIN held[d] : held'[d][p] = held[d][p]
      /\ Cardinality(Holders(q)') = Cardinality(Holders(q)) + 1
      /\ \A p : p # q => Holders(p)' = Holders(p)
  BY <1>5, ReceiveHolders
<1>7. PinCountIsHolders'
  <2>1. Cardinality(Holders(q)') = 1
    BY <1>5, <1>6, FS_EmptySet
  <2>2. \A p \in DOMAIN page_table' :
          pages'[page_table'[p]].pin_count = Cardinality(Holders(p)')
    BY <1>3, <1>4, <1>6, <2>1 DEF CInv, PinCountIsHolders, FrameOf
  <2>3. \A g \in Frames :
          pages'[g].page_id = INVALID_PAGE_ID => pages'[g].pin_count = 0
    BY <1>3, InvalidIsNoPage DEF CInv, PinCountIsHolders
  <2> QED
    BY <2>2, <2>3 DEF PinCountIsHolders, FrameOf, Frames
<1>8. PointersAreValid'
  <2>1. ASSUME NEW d \in Clients, NEW p \in DOMAIN held[d]
        PROVE  /\ p \in DOMAIN page_table \ {pages[f].page_id}
               /\ page_table[p] = held[d][p]
    <3>1. /\ p \in DOMAIN page_table /\ page_table[p] = held[d][p]
          /\ pages[page_table[p]].pin_count > 0
      BY <2>1, HeldPage DEF Cached
    <3>2. page_table[p] # f
      BY <1>1, <3>1
    <3>3. p # pages[f].page_id
      <4>1. p # INVALID_PAGE_ID
        BY <3>1, CachedPage DEF CInv, Cached
      <4> QED
        BY <1>1, <3>2, <4>1 DEF CInv, IInv, TableConsistent
    <3> QED
      BY <3>1, <3>3
  <2>2. ASSUME NEW d \in Clients, NEW p \in DOMAIN held'[d]
        PROVE  p \in DOMAIN page_table' /\ page_table'[p] = held'[d][p]
    <3>1. CASE p \in DOMAIN held[d]
      BY <1>4, <1>6, <2>1, <3>1
    <3>2. CASE d = c /\ p = q
      BY <1>4, <1>6, <3>2
    <3> QED
      BY <1>6, <2>2, <3>1, <3>2
  <2> QED
    BY <2>2 DEF PointersAreValid, Cached
<1>9. CleanPagesAreOnDisk'
  <2>1. ASSUME NEW p \in DOMAIN page_table \ {pages[f].page_id}
        PROVE  \/ pages'[page_table'[p]].is_dirty
               \/ \E d \in Clients : p \in wrote'[d]
               \/ disk'[p] = pages'[page_table'[p]].data
    BY <1>3, <1>4, <1>6 DEF CInv, CleanPagesAreOnDisk, FrameOf
  <2>2. disk'[q] = pages'[page_table'[q]].data
    BY <1>3, <1>4
  <2> QED
    BY <1>4, <2>1, <2>2 DEF CleanPagesAreOnDisk, FrameOf
<1> QED
  BY <1>6, <1>7, <1>8, <1>9 DEF CInv

\* Taking a frame writes to disk at most the page the frame held.
LEMMA TakingSparesOthers ==
  ASSUME IInv, NEW f \in Takeable, NEW p \in PageIds, p # pages[f].page_id
  PROVE  DiskAfterTaking(f)[p] = disk[p]
<1>1. disk \in [PageIds -> Values]
  BY DEF IInv, TypeOK
<1> QED
  BY <1>1 DEF DiskAfterTaking, WriteBack

LEMMA ClientNewPageInvariant ==
  ASSUME CInv, NEW c \in Clients, NEW f \in Frames, ClientNewPage(c, f)
  PROVE  CInv'
<1> DEFINE page == [EmptyPage EXCEPT !.page_id = next_page_id, !.pin_count = 1]
<1>1. NewPgImp(f) /\ Receive(c, next_page_id, f)
  BY DEF ClientNewPage
<1>2. IInv'
  BY <1>1, NewPgInvariant DEF CInv
<1>3. next_page_id \in PageIds /\ next_page_id \notin Allocated
  BY <1>1, PoolAssumption DEF CInv, IInv, TypeOK, NewPgImp, PageIds, Allocated
<1>4. ~Cached(next_page_id)
  BY <1>3 DEF CInv, IInv, TableConsistent, Cached
<1>5. /\ page \in Page /\ page.page_id = next_page_id /\ page.pin_count = 1
      /\ page.data = Zero
  <2>1. page \in Page /\ page.page_id = next_page_id
    BY <1>3, EmptyPageType, FilledPage
  <2> QED
    BY <2>1 DEF EmptyPage
<1>6. /\ f \in Takeable /\ DiskAfterTaking(f) \in [PageIds -> Values]
      /\ disk' = [DiskAfterTaking(f) EXCEPT ![next_page_id] = Zero]
      /\ pages' = [pages EXCEPT ![f] = page]
      /\ page_table' = Put(TableWithout(f), next_page_id, f)
  BY <1>1, TakeableFrame DEF NewPgImp, CInv
<1> HIDE DEF page
<1>7. disk'[next_page_id] = Zero
  BY <1>3, <1>6
<1>8. \A p \in DOMAIN page_table \ {pages[f].page_id} : disk'[p] = disk[p]
  BY <1>4, <1>6, CachedPage, TakingSparesOthers DEF CInv, Cached
<1> QED
  BY <1>1, <1>2, <1>3, <1>4, <1>5, <1>6, <1>7, <1>8, InstallForClient

LEMMA ClientFetchMissInvariant ==
  ASSUME CInv, NEW c \in Clients, NEW q \in Allocated, NEW f \in Frames,
         ClientFetchMiss(c, q, f)
  PROVE  CInv'
<1> DEFINE page == [page_id |-> q, pin_count |-> 1, is_dirty |-> FALSE,
                    data |-> disk'[q]]
<1>1. FetchMiss(q, f) /\ Receive(c, q, f)
  BY DEF ClientFetchMiss
<1>2. IInv'
  BY <1>1, FetchMissInvariant DEF CInv
<1>3. q \in PageIds
  BY PoolAssumption DEF CInv, IInv, TypeOK, Allocated, PageIds
<1>4. /\ ~Cached(q) /\ f \in Takeable
      /\ disk' = DiskAfterTaking(f) /\ DiskAfterTaking(f) \in [PageIds -> Values]
      /\ pages' = [pages EXCEPT ![f] = page]
      /\ page_table' = Put(TableWithout(f), q, f)
  BY <1>1, TakeableFrame DEF FetchMiss, CInv
<1>5. /\ page \in Page /\ page.page_id = q /\ page.pin_count = 1
      /\ page.data = disk'[q]
  BY <1>3, <1>4 DEF Page
<1> HIDE DEF page
<1>6. \A p \in DOMAIN page_table \ {pages[f].page_id} : disk'[p] = disk[p]
  BY <1>4, CachedPage, TakingSparesOthers DEF CInv, Cached
<1> QED
  BY <1>1, <1>2, <1>3, <1>4, <1>5, <1>6, InstallForClient

\* Calls that keep every page in its frame and touch one frame only.
LEMMA ChangedPage ==
  ASSUME NEW page \in Page, NEW v \in Values
  PROVE  /\ LET r == [page EXCEPT !.pin_count = @ + 1]
            IN  /\ r.pin_count = page.pin_count + 1 /\ r.page_id = page.page_id
                /\ r.is_dirty = page.is_dirty /\ r.data = page.data
         /\ LET r == [page EXCEPT !.data = v]
            IN  /\ r.pin_count = page.pin_count /\ r.page_id = page.page_id
                /\ r.data = v
         /\ LET r == [page EXCEPT !.is_dirty = FALSE]
            IN  /\ r.pin_count = page.pin_count /\ r.page_id = page.page_id
                /\ r.is_dirty = FALSE /\ r.data = page.data
BY DEF Page

LEMMA ClientFetchHitInvariant ==
  ASSUME CInv, NEW c \in Clients, NEW q \in Allocated, ClientFetchHit(c, q)
  PROVE  CInv'
<1> DEFINE f == page_table[q]
<1>1. /\ c \notin Holders(q) /\ FetchHit(q) /\ Cached(q)
      /\ Receive(c, q, f)
      /\ pages' = [pages EXCEPT ![f].pin_count = @ + 1]
      /\ page_table' = page_table /\ disk' = disk
  BY DEF ClientFetchHit, FetchHit
<1>2. IInv'
  BY <1>1, FetchHitInvariant DEF CInv
<1>3. q \in PageIds /\ f \in Frames /\ pages[f].page_id = q /\ q # INVALID_PAGE_ID
  BY <1>1, CachedPage DEF CInv
<1>4. pages \in [Frames -> Page]
  BY DEF CInv, IInv, TypeOK
<1>5. q \notin DOMAIN held[c] /\ HoldersTypeOK
  BY <1>1 DEF Holders, CInv
<1>6. /\ HoldersTypeOK' /\ wrote' = wrote
      /\ DOMAIN held'[c] = DOMAIN held[c] \cup {q} /\ held'[c][q] = f
      /\ \A d \in Clients : d # c => DOMAIN held'[d] = DOMAIN held[d]
      /\ \A d \in Clients : \A p \in DOMAIN held[d] : held'[d][p] = held[d][p]
      /\ Cardinality(Holders(q)') = Cardinality(Holders(q)) + 1
      /\ \A p : p # q => Holders(p)' = Holders(p)
  BY <1>1, <1>3, <1>5, ReceiveHolders
<1>7. /\ pages'[f].pin_count = pages[f].pin_count + 1
      /\ pages'[f].page_id = pages[f].page_id
      /\ pages'[f].is_dirty = pages[f].is_dirty
      /\ pages'[f].data = pages[f].data
      /\ \A g \in Frames : g # f => pages'[g] = pages[g]
  BY <1>1, <1>3, <1>4, ChangedPage, ZeroAssumption
<1>8. \A p \in DOMAIN page_table \ {q} : page_table[p] \in Frames /\ page_table[p] # f
  BY <1>3, CachedPage DEF CInv, Cached
<1>9. PinCountIsHolders'
  <2>1. \A p \in DOMAIN page_table :
          pages'[page_table[p]].pin_count = Cardinality(Holders(p)')
    BY <1>1, <1>6, <1>7, <1>8 DEF CInv, PinCountIsHolders, FrameOf
  <2>2. \A g \in Frames :
          pages'[g].page_id = INVALID_PAGE_ID => pages'[g].pin_count = 0
    BY <1>3, <1>7 DEF CInv, PinCountIsHolders
  <2> QED
    BY <1>1, <2>1, <2>2 DEF PinCountIsHolders, FrameOf, Frames
<1>10. PointersAreValid'
  <2>1. ASSUME NEW d \in Clients, NEW p \in DOMAIN held'[d]
        PROVE  p \in DOMAIN page_table /\ page_table[p] = held'[d][p]
    <3>1. CASE p \in DOMAIN held[d]
      BY <1>6, <3>1, HeldPage DEF Cached
    <3>2. CASE d = c /\ p = q
      BY <1>1, <1>6, <3>2 DEF Cached
    <3> QED
      BY <1>6, <2>1, <3>1, <3>2
  <2> QED
    BY <1>1, <2>1 DEF PointersAreValid, Cached
<1>11. CleanPagesAreOnDisk'
  BY <1>1, <1>6, <1>7, <1>8 DEF CInv, CleanPagesAreOnDisk, FrameOf
<1> QED
  BY <1>2, <1>6, <1>9, <1>10, <1>11 DEF CInv

LEMMA ClientWriteInvariant ==
  ASSUME CInv, NEW c \in Clients, NEW q \in Allocated, NEW v \in Values,
         ClientWrite(c, q, v)
  PROVE  CInv'
<1> DEFINE f == held[c][q]
<1>1. /\ q \in DOMAIN held[c]
      /\ Modify(f, v)
      /\ pages' = [pages EXCEPT ![f].data = v]
      /\ page_table' = page_table /\ disk' = disk /\ held' = held
      /\ wrote' = [wrote EXCEPT ![c] = @ \cup {q}]
  BY DEF ClientWrite, Modify, Holders
<1>2. Cached(q) /\ q \in PageIds /\ page_table[q] = f /\ f \in Frames
  BY <1>1, HeldPage
<1>3. IInv'
  BY <1>1, <1>2, ModifyInvariant DEF CInv
<1>4. pages \in [Frames -> Page]
  BY DEF CInv, IInv, TypeOK
<1>5. /\ \A g \in Frames : /\ pages'[g].pin_count = pages[g].pin_count
                           /\ pages'[g].page_id = pages[g].page_id
      /\ \A g \in Frames : g # f => pages'[g] = pages[g]
  BY <1>1, <1>2, <1>4, ChangedPage
<1>6. /\ wrote' \in [Clients -> SUBSET PageIds]
      /\ wrote'[c] = wrote[c] \cup {q}
      /\ \A d \in Clients : d # c => wrote'[d] = wrote[d]
  BY <1>1, <1>2 DEF CInv, HoldersTypeOK
<1>7. HoldersTypeOK'
  BY <1>1, <1>6 DEF CInv, HoldersTypeOK, PageIds
<1>8. \A p \in DOMAIN page_table : page_table[p] \in Frames
  BY DEF CInv, IInv, TypeOK
<1>9. PinCountIsHolders' /\ PointersAreValid'
  BY <1>1, <1>5, <1>8 DEF CInv, PinCountIsHolders, PointersAreValid, FrameOf, Cached,
                          Holders, Frames
<1>10. CleanPagesAreOnDisk'
  <2>1. \A p \in DOMAIN page_table \ {q} : page_table[p] # f
    BY <1>2, CachedPage DEF CInv, Cached
  <2> QED
    BY <1>1, <1>5, <1>6, <1>8, <2>1 DEF CInv, CleanPagesAreOnDisk, FrameOf
<1> QED
  BY <1>3, <1>7, <1>9, <1>10 DEF CInv

\* One unpin: the flag is set if it was, or if the caller says so.
LEMMA UnpinnedFlag ==
  ASSUME NEW page \in Page, NEW is_dirty \in BOOLEAN
  PROVE  /\ Unpinned(page, is_dirty).data = page.data
         /\ page.is_dirty => Unpinned(page, is_dirty).is_dirty
         /\ is_dirty => Unpinned(page, is_dirty).is_dirty
<1> DEFINE flag == page.is_dirty \/ is_dirty
<1>1. Unpinned(page, is_dirty) = [page EXCEPT !.pin_count = @ - 1, !.is_dirty = flag]
  BY Zenon DEF Unpinned
<1> HIDE DEF flag
<1>2. Unpinned(page, is_dirty).data = page.data
  BY <1>1 DEF Page
<1>3. Unpinned(page, is_dirty).is_dirty = flag
  BY <1>1 DEF Page
<1>4. (page.is_dirty => flag) /\ (is_dirty => flag)
  BY Zenon DEF flag
<1> QED
  BY <1>2, <1>3, <1>4

LEMMA ClientUnpinInvariant ==
  ASSUME CInv, NEW c \in Clients, NEW q \in Allocated, NEW is_dirty \in BOOLEAN,
         ClientUnpin(c, q, is_dirty)
  PROVE  CInv'
<1> DEFINE f == page_table[q]
<1>1. /\ q \in DOMAIN held[c]
      /\ q \in wrote[c] => is_dirty
      /\ UnpinPgImp(q, is_dirty)
      /\ pages[f].pin_count > 0
      /\ pages' = [pages EXCEPT ![f] = Unpinned(@, is_dirty)]
      /\ page_table' = page_table /\ disk' = disk
      /\ held' = [held EXCEPT ![c] = Erase(@, q)]
      /\ wrote' = [wrote EXCEPT ![c] = @ \ {q}]
  BY DEF ClientUnpin, UnpinPgImp, Holders, FrameOf
<1>2. IInv'
  BY <1>1, UnpinInvariant DEF CInv
<1>3. Cached(q) /\ q \in PageIds /\ f \in Frames /\ pages[f].page_id = q
  BY <1>1, HeldPage, CachedPage DEF CInv
<1>4. pages \in [Frames -> Page]
  BY DEF CInv, IInv, TypeOK
<1>5. /\ pages'[f].pin_count = pages[f].pin_count - 1
      /\ pages'[f].page_id = pages[f].page_id
      /\ pages'[f].data = pages[f].data
      /\ pages[f].is_dirty => pages'[f].is_dirty
      /\ is_dirty => pages'[f].is_dirty
      /\ \A g \in Frames : g # f => pages'[g] = pages[g]
  <2>1. pages'[f] = Unpinned(pages[f], is_dirty) /\ pages[f] \in Page
    BY <1>1, <1>3, <1>4
  <2>2. /\ pages'[f].pin_count = pages[f].pin_count - 1
        /\ pages'[f].page_id = pages[f].page_id
        /\ pages'[f].data = pages[f].data
    BY <1>1, <2>1, UnpinnedPage, UnpinnedFlag
  <2>3. /\ pages[f].is_dirty => pages'[f].is_dirty
        /\ is_dirty => pages'[f].is_dirty
    BY <2>1, UnpinnedFlag
  <2>4. \A g \in Frames : g # f => pages'[g] = pages[g]
    BY <1>1, <1>3, <1>4
  <2> QED
    BY <2>2, <2>3, <2>4
<1>6. /\ HoldersTypeOK'
      /\ \A d \in Clients : DOMAIN held'[d] \subseteq DOMAIN held[d]
      /\ \A d \in Clients : \A p \in DOMAIN held'[d] : held'[d][p] = held[d][p]
      /\ \A d \in Clients : \A p :
           p \in wrote'[d] <=> p \in wrote[d] /\ ~(d = c /\ p = q)
      /\ Cardinality(Holders(q)') = Cardinality(Holders(q)) - 1
      /\ \A p : p # q => Holders(p)' = Holders(p)
  BY <1>1, UnpinHolders DEF CInv
<1>7. \A p \in DOMAIN page_table \ {q} : page_table[p] \in Frames /\ page_table[p] # f
  BY <1>3, CachedPage DEF CInv, Cached
<1>8. PinCountIsHolders'
  <2>1. \A p \in DOMAIN page_table :
          pages'[page_table[p]].pin_count = Cardinality(Holders(p)')
    BY <1>3, <1>5, <1>6, <1>7 DEF CInv, PinCountIsHolders, FrameOf, Cached
  <2>2. \A g \in Frames :
          pages'[g].page_id = INVALID_PAGE_ID => pages'[g].pin_count = 0
    BY <1>3, <1>5, InvalidIsNoPage DEF CInv, PinCountIsHolders
  <2> QED
    BY <1>1, <2>1, <2>2 DEF PinCountIsHolders, FrameOf, Frames
<1>9. PointersAreValid'
  BY <1>1, <1>6 DEF CInv, PointersAreValid, Cached
<1>10. CleanPagesAreOnDisk'
  <2>1. ASSUME NEW p \in DOMAIN page_table
        PROVE  \/ pages'[page_table[p]].is_dirty
               \/ \E d \in Clients : p \in wrote'[d]
               \/ disk[p] = pages'[page_table[p]].data
    <3>1. \/ pages[page_table[p]].is_dirty
          \/ \E d \in Clients : p \in wrote[d]
          \/ disk[p] = pages[page_table[p]].data
      BY DEF CInv, CleanPagesAreOnDisk, FrameOf
    <3>2. CASE p # q
      BY <1>5, <1>6, <1>7, <3>1, <3>2
    <3>3. CASE p = q
      BY <1>1, <1>5, <1>6, <3>1, <3>3
    <3> QED
      BY <3>2, <3>3
  <2> QED
    BY <1>1, <2>1 DEF CleanPagesAreOnDisk, FrameOf
<1> QED
  BY <1>2, <1>6, <1>8, <1>9, <1>10 DEF CInv

\* Calls that leave pages in their frames and pinned as they are.
LEMMA SameHolders ==
  ASSUME CInv, page_table' = page_table, held' = held, wrote' = wrote,
         \A g \in Frames : /\ pages'[g].pin_count = pages[g].pin_count
                           /\ pages'[g].page_id = pages[g].page_id
  PROVE  HoldersTypeOK' /\ PinCountIsHolders' /\ PointersAreValid'
<1>1. \A p \in DOMAIN page_table : page_table[p] \in Frames
  BY DEF CInv, IInv, TypeOK
<1>2. HoldersTypeOK'
  BY DEF CInv, HoldersTypeOK, PageIds
<1>3. PinCountIsHolders'
  BY <1>1 DEF CInv, PinCountIsHolders, FrameOf, Holders, Frames
<1>4. PointersAreValid'
  BY DEF CInv, PointersAreValid, Cached
<1> QED
  BY <1>2, <1>3, <1>4

\* Flushing a page makes it clean by writing it.
LEMMA ClientFlushInvariant ==
  ASSUME CInv, NEW q \in Allocated, ClientFlush(q)
  PROVE  CInv'
<1> DEFINE f == page_table[q]
<1>1. /\ FlushPgImp(q) /\ Cached(q)
      /\ disk' = [disk EXCEPT ![q] = pages[f].data]
      /\ pages' = [pages EXCEPT ![f].is_dirty = FALSE]
      /\ page_table' = page_table /\ held' = held /\ wrote' = wrote
  BY DEF ClientFlush, FlushPgImp, FrameOf
<1>2. IInv'
  BY <1>1, FlushInvariant DEF CInv
<1>3. q \in PageIds /\ f \in Frames /\ pages[f].page_id = q
  BY <1>1, CachedPage DEF CInv
<1>4. pages \in [Frames -> Page] /\ disk \in [PageIds -> Values]
  BY DEF CInv, IInv, TypeOK
<1>5. /\ \A g \in Frames : /\ pages'[g].pin_count = pages[g].pin_count
                           /\ pages'[g].page_id = pages[g].page_id
                           /\ pages'[g].data = pages[g].data
      /\ \A g \in Frames : g # f => pages'[g] = pages[g]
  BY <1>1, <1>3, <1>4, ChangedPage
<1>6. \A p \in DOMAIN page_table : p \in PageIds /\ page_table[p] \in Frames
  BY DEF CInv, IInv, TypeOK
<1>7. HoldersTypeOK' /\ PinCountIsHolders' /\ PointersAreValid'
  BY <1>1, <1>5, SameHolders
<1>8. CleanPagesAreOnDisk'
  <2>1. \A p \in DOMAIN page_table \ {q} : page_table[p] # f
    BY <1>3, CachedPage DEF CInv, Cached
  <2> QED
    BY <1>1, <1>3, <1>4, <1>5, <1>6, <2>1 DEF CInv, CleanPagesAreOnDisk, FrameOf
<1> QED
  BY <1>2, <1>7, <1>8 DEF CInv

\* FlushAllPages writes each dirty page to its own place and leaves the others.
LEMMA FlushAllEffect ==
  ASSUME IInv, FlushAllPgsImp
  PROVE  /\ \A g \in Frames : /\ pages'[g].pin_count = pages[g].pin_count
                              /\ pages'[g].page_id = pages[g].page_id
                              /\ pages'[g].data = pages[g].data
         /\ \A p \in DOMAIN page_table :
              disk'[p] = IF FrameOf(p).is_dirty THEN FrameOf(p).data ELSE disk[p]
         /\ \A p \in PageIds : ~Cached(p) => disk'[p] = disk[p]
<1>1. pages \in [Frames -> Page]
  BY DEF IInv, TypeOK
<1>2. \A g \in Frames : /\ pages'[g].pin_count = pages[g].pin_count
                        /\ pages'[g].page_id = pages[g].page_id
                        /\ pages'[g].data = pages[g].data
  <2>1. \A g \in Frames :
          pages'[g] = IF Flushable(g) THEN [pages[g] EXCEPT !.is_dirty = FALSE]
                                      ELSE pages[g]
    BY DEF FlushAllPgsImp
  <2> QED
    BY ZenonT(40), <1>1, <2>1, ChangedPage, ZeroAssumption
<1>3. ASSUME NEW p \in PageIds
      PROVE  \/ /\ Cached(p) /\ FrameOf(p).is_dirty
                /\ disk'[p] = FrameOf(p).data
             \/ /\ Cached(p) => ~FrameOf(p).is_dirty
                /\ disk'[p] = disk[p]
  <2> DEFINE g == CHOOSE f \in Frames : Flushable(f) /\ pages[f].page_id = p
  <2>1. CASE \E f \in Frames : Flushable(f) /\ pages[f].page_id = p
    <3>1. g \in Frames /\ Flushable(g) /\ pages[g].page_id = p
      BY <2>1
    <3>2. disk'[p] = pages[g].data
      BY <2>1 DEF FlushAllPgsImp
    <3> HIDE DEF g
    <3>3. Cached(p) /\ page_table[p] = g
      BY <3>1 DEF Flushable, IInv, TableConsistent
    <3> QED
      BY <3>1, <3>2, <3>3 DEF FrameOf, Flushable
  <2>2. CASE ~ \E f \in Frames : Flushable(f) /\ pages[f].page_id = p
    <3>1. disk'[p] = disk[p]
      BY <2>2 DEF FlushAllPgsImp
    <3>2. Cached(p) => ~FrameOf(p).is_dirty
      BY <2>2, CachedPage DEF Flushable, FrameOf
    <3> QED
      BY <3>1, <3>2
  <2> QED
    BY <2>1, <2>2
<1>4. DOMAIN page_table \subseteq PageIds
  BY DEF IInv, TypeOK
<1> QED
  BY <1>2, <1>3, <1>4 DEF Cached

LEMMA ClientFlushAllInvariant ==
  ASSUME CInv, ClientFlushAll
  PROVE  CInv'
<1>1. /\ FlushAllPgsImp
      /\ page_table' = page_table /\ held' = held /\ wrote' = wrote
  BY DEF ClientFlushAll, FlushAllPgsImp
<1>2. IInv'
  BY <1>1, FlushAllInvariant DEF CInv
<1>3. /\ \A g \in Frames : /\ pages'[g].pin_count = pages[g].pin_count
                           /\ pages'[g].page_id = pages[g].page_id
                           /\ pages'[g].data = pages[g].data
      /\ \A p \in DOMAIN page_table :
           disk'[p] = IF FrameOf(p).is_dirty THEN FrameOf(p).data ELSE disk[p]
  BY <1>1, FlushAllEffect DEF CInv
<1>4. \A p \in DOMAIN page_table : page_table[p] \in Frames
  BY DEF CInv, IInv, TypeOK
<1>5. HoldersTypeOK' /\ PinCountIsHolders' /\ PointersAreValid'
  BY <1>1, <1>3, SameHolders
<1>6. CleanPagesAreOnDisk'
  BY <1>1, <1>3, <1>4 DEF CInv, CleanPagesAreOnDisk, FrameOf
<1> QED
  BY <1>2, <1>5, <1>6 DEF CInv

\* Deleting a page nobody holds changes nothing for the others.
LEMMA ClientDeleteInvariant ==
  ASSUME CInv, NEW q \in Allocated, ClientDelete(q)
  PROVE  CInv'
<1> DEFINE f == page_table[q]
<1>1. /\ DeletePgImp(q) /\ Cached(q) /\ pages[f].pin_count = 0
      /\ disk' = WriteBack(f)
      /\ page_table' = Erase(page_table, q)
      /\ pages' = [pages EXCEPT ![f] = EmptyPage]
      /\ held' = held /\ wrote' = wrote
  BY DEF ClientDelete, DeletePgImp, FrameOf
<1>2. IInv'
  BY <1>1, DeletePgInvariant DEF CInv
<1>3. q \in PageIds /\ f \in Frames /\ pages[f].page_id = q
  BY <1>1, CachedPage DEF CInv
<1>4. pages \in [Frames -> Page] /\ disk \in [PageIds -> Values]
  BY DEF CInv, IInv, TypeOK
<1>5. /\ \A g \in Frames : g # f => pages'[g] = pages[g]
      /\ \A p \in PageIds : p # q => disk'[p] = disk[p]
  BY <1>1, <1>3, <1>4 DEF WriteBack
<1>6. /\ DOMAIN page_table' = DOMAIN page_table \ {q}
      /\ \A p \in DOMAIN page_table' : page_table'[p] = page_table[p]
  BY <1>1 DEF Erase, Restrict
<1>7. \A p \in DOMAIN page_table' : /\ p \in PageIds /\ p # q
                                    /\ page_table[p] \in Frames /\ page_table[p] # f
  BY <1>3, <1>6, CachedPage DEF CInv, Cached
<1>8. HoldersTypeOK'
  BY <1>1 DEF CInv, HoldersTypeOK, PageIds
<1>9. PinCountIsHolders'
  <2>1. \A g \in Frames :
          pages'[g].page_id = INVALID_PAGE_ID => pages'[g].pin_count = 0
    BY <1>2, EmptyFramesUnpinned, <1>1, <1>3, <1>4, <1>5 DEF EmptyPage, CInv, PinCountIsHolders
  <2>2. \A p \in DOMAIN page_table' :
          pages'[page_table'[p]].pin_count = Cardinality(Holders(p)')
    BY <1>1, <1>5, <1>6, <1>7 DEF CInv, PinCountIsHolders, FrameOf, Holders
  <2> QED
    BY <2>1, <2>2 DEF PinCountIsHolders, FrameOf, Frames
<1>10. PointersAreValid'
  <2>1. ASSUME NEW d \in Clients, NEW p \in DOMAIN held[d]
        PROVE  p \in DOMAIN page_table' /\ page_table'[p] = held[d][p]
    <3>1. p \in DOMAIN page_table /\ page_table[p] = held[d][p] /\ p # q
      BY <1>1, <2>1, HeldPage DEF Cached
    <3> QED
      BY <1>6, <3>1
  <2> QED
    BY <1>1, <2>1 DEF PointersAreValid, Cached
<1>11. CleanPagesAreOnDisk'
  BY <1>1, <1>5, <1>6, <1>7 DEF CInv, CleanPagesAreOnDisk, FrameOf
<1> QED
  BY <1>2, <1>8, <1>9, <1>10, <1>11 DEF CInv

LEMMA ClientsNextInvariant ==
  ASSUME CInv, [ClientsNext]_cvars
  PROVE  CInv'
<1>1. CASE ClientGetsNull \/ UNCHANGED cvars
  <2>1. UNCHANGED cvars
    BY <1>1 DEF ClientGetsNull, ReturnNull, cvars
  <2>2. IInv'
    BY <2>1, NextInvariant DEF cvars, CInv
  <2> QED
    BY <2>1, <2>2 DEF cvars, vars, pool, CInv, HoldersTypeOK, PinCountIsHolders,
                      PointersAreValid, CleanPagesAreOnDisk, Cached, FrameOf, Holders,
                      Frames, PageIds
<1>2. CASE ClientFlushAll
  BY <1>2, ClientFlushAllInvariant
<1>3. ASSUME NEW c \in Clients, NEW f \in Frames, ClientNewPage(c, f)
      PROVE  CInv'
  BY <1>3, ClientNewPageInvariant
<1>4. ASSUME NEW q \in Allocated, ClientFlush(q) \/ ClientDelete(q)
      PROVE  CInv'
  BY <1>4, ClientFlushInvariant, ClientDeleteInvariant
<1>5. ASSUME NEW q \in Allocated, NEW c \in Clients, ClientFetchHit(c, q)
      PROVE  CInv'
  BY <1>5, ClientFetchHitInvariant
<1>6. ASSUME NEW q \in Allocated, NEW c \in Clients, NEW f \in Frames,
             ClientFetchMiss(c, q, f)
      PROVE  CInv'
  BY <1>6, ClientFetchMissInvariant
<1>7. ASSUME NEW q \in Allocated, NEW c \in Clients, NEW v \in Values,
             ClientWrite(c, q, v)
      PROVE  CInv'
  BY <1>7, ClientWriteInvariant
<1>8. ASSUME NEW q \in Allocated, NEW c \in Clients, NEW is_dirty \in BOOLEAN,
             ClientUnpin(c, q, is_dirty)
      PROVE  CInv'
  BY <1>8, ClientUnpinInvariant
<1> QED
  BY <1>1, <1>2, <1>3, <1>4, <1>5, <1>6, <1>7, <1>8 DEF ClientsNext

LEMMA ClientsInvariance == ClientsSpec => []CInv
<1>1. CInv /\ [ClientsNext]_cvars => CInv'
  BY ClientsNextInvariant
<1> QED
  BY <1>1, ClientsInitInvariant, PTL DEF ClientsSpec

-----------------------------------------------------------------------------
(***************************************************************************)
(* The pool implements PageStore.                                          *)
(***************************************************************************)

\* What a reader of page p sees: the refinement mapping of Store, page by page.
Seen(p) == IF Cached(p) THEN FrameOf(p).data ELSE disk[p]

\* Writing back an unpinned page leaves its content on disk: a dirty page is
\* written, a clean one that nobody holds is there already.
LEMMA WrittenBack ==
  ASSUME CInv, NEW p, Cached(p), FrameOf(p).pin_count = 0
  PROVE  /\ WriteBack(page_table[p])[p] = FrameOf(p).data
         /\ \A r \in PageIds : r # p => WriteBack(page_table[p])[r] = disk[r]
<1>1. p \in PageIds /\ pages[page_table[p]].page_id = p
  BY CachedPage DEF CInv
<1>2. disk \in [PageIds -> Values]
  BY DEF CInv, IInv, TypeOK
<1>3. \A c \in Clients : p \notin wrote[c]
  BY HeldPage DEF CInv, HoldersTypeOK, FrameOf
<1>4. FrameOf(p).is_dirty \/ disk[p] = FrameOf(p).data
  BY <1>3 DEF CInv, CleanPagesAreOnDisk, Cached
<1> QED
  BY <1>1, <1>2, <1>4 DEF WriteBack, FrameOf

\* Putting a page into a frame shows readers of that page what was put there,
\* and readers of other pages, the victim's among them, what they saw before.
LEMMA InstallKeepsContent ==
  ASSUME CInv, NEW f \in Takeable, NEW q \in PageIds, ~Cached(q),
         NEW page \in Page,
         pages' = [pages EXCEPT ![f] = page],
         page_table' = Put(TableWithout(f), q, f),
         \A p \in PageIds : p # q => disk'[p] = DiskAfterTaking(f)[p]
  PROVE  /\ Seen(q)' = page.data
         /\ \A p \in PageIds : p # q => Seen(p)' = Seen(p)
<1>1. /\ f \in Frames /\ pages[f].pin_count = 0
      /\ TableWithout(f) \in [DOMAIN TableWithout(f) -> Frames \ {f}]
      /\ DOMAIN TableWithout(f) = DOMAIN page_table \ {pages[f].page_id}
      /\ \A p \in DOMAIN TableWithout(f) : TableWithout(f)[p] = page_table[p]
  BY TakeableFrame DEF CInv
<1>2. pages \in [Frames -> Page]
  BY DEF CInv, IInv, TypeOK
<1>3. /\ pages'[f] = page
      /\ \A g \in Frames : g # f => pages'[g] = pages[g]
  BY <1>1, <1>2
<1>4. /\ DOMAIN page_table' = (DOMAIN page_table \ {pages[f].page_id}) \cup {q}
      /\ page_table'[q] = f
      /\ q \notin DOMAIN page_table
      /\ \A p \in DOMAIN page_table \ {pages[f].page_id} :
           /\ page_table'[p] = page_table[p]
           /\ page_table[p] \in Frames
           /\ page_table[p] # f
  BY <1>1 DEF Put, Cached
<1>5. Seen(q)' = page.data
  BY <1>3, <1>4 DEF Seen, Cached, FrameOf
<1>6. ASSUME NEW p \in PageIds, p # q
      PROVE  Seen(p)' = Seen(p)
  <2>1. CASE p \in DOMAIN page_table /\ p # pages[f].page_id
    <3>1. p \in DOMAIN page_table' /\ pages'[page_table'[p]] = pages[page_table[p]]
      BY <1>3, <1>4, <2>1
    <3> QED
      BY <2>1, <3>1 DEF Seen, Cached, FrameOf
  <2>2. CASE p \notin DOMAIN page_table
    <3>1. p \notin DOMAIN page_table' /\ disk'[p] = DiskAfterTaking(f)[p]
      BY <1>4, <1>6, <2>2
    <3>2. p # pages[f].page_id
      BY <1>1, <1>6, <2>2, InvalidIsNoPage DEF CInv, IInv, TableConsistent, Cached
    <3>3. DiskAfterTaking(f)[p] = disk[p]
      BY <3>2, TakingSparesOthers DEF CInv
    <3> QED
      BY <2>2, <3>1, <3>3 DEF Seen, Cached
  <2>3. CASE p \in DOMAIN page_table /\ p = pages[f].page_id
    <3>1. page_table[p] = f
      BY <1>1, <2>3, InvalidIsNoPage DEF CInv, IInv, TableConsistent
    <3>2. DiskAfterTaking(f) = WriteBack(f)
      <4>1. f \notin Range(free_list)
        BY <1>1, <2>3, InvalidIsNoPage DEF CInv, IInv, FrameAccounting
      <4>2. free_list # <<>> => Head(free_list) \in Range(free_list)
        BY TailNoDuplicates DEF CInv, IInv, TypeOK, FrameAccounting, NoDuplicates
      <4> QED
        BY <4>1, <4>2 DEF Takeable, DiskAfterTaking
    <3>3. WriteBack(f)[p] = FrameOf(p).data
      BY <1>1, <2>3, <3>1, WrittenBack DEF Cached, FrameOf
    <3>4. p \notin DOMAIN page_table' /\ disk'[p] = DiskAfterTaking(f)[p]
      BY <1>4, <1>6, <2>3
    <3> QED
      BY <2>3, <3>2, <3>3, <3>4 DEF Seen, Cached
  <2> QED
    BY <2>1, <2>2, <2>3
<1> QED
  BY <1>5, <1>6

\* Calls that leave the page table and the data of every page as they are, and
\* write to disk only what the page holds.
LEMMA SameContent ==
  ASSUME IInv, page_table' = page_table,
         \A g \in Frames : pages'[g].data = pages[g].data,
         \A p \in PageIds : ~Cached(p) => disk'[p] = disk[p]
  PROVE  \A p \in PageIds : Seen(p)' = Seen(p)
<1>1. \A p \in DOMAIN page_table : page_table[p] \in Frames
  BY DEF IInv, TypeOK
<1> QED
  BY <1>1 DEF Seen, Cached, FrameOf

LEMMA StoreInit == ClientsInit => Store!Init
<1> SUFFICES ASSUME ClientsInit
             PROVE  Store!Init
  OBVIOUS
<1>1. next_page_id = 0 /\ Allocated = {}
  BY DEF ClientsInit, Init, Allocated
<1> QED
  BY <1>1 DEF Store!Init

\* What the calls that do not write show of the pages: nothing, but that a new page
\* is there, full of zeroes.
LEMMA ContentSteps ==
  ASSUME CInv, [ClientsNext]_cvars,
         ~ \E c \in Clients, q \in Allocated, v \in Values : ClientWrite(c, q, v)
  PROVE  \/ /\ next_page_id' = next_page_id
            /\ \A p \in PageIds : Seen(p)' = Seen(p)
         \/ /\ next_page_id' = next_page_id + 1
            /\ \E q \in PageIds :
                 /\ q = next_page_id /\ Seen(q)' = Zero
                 /\ \A p \in PageIds : p # q => Seen(p)' = Seen(p)
<1> DEFINE Same == /\ next_page_id' = next_page_id
                   /\ \A p \in PageIds : Seen(p)' = Seen(p)
<1>1. pages \in [Frames -> Page] /\ disk \in [PageIds -> Values]
  BY DEF CInv, IInv, TypeOK
<1>2. ASSUME NEW c \in Clients, NEW f \in Frames, ClientNewPage(c, f)
      PROVE  /\ next_page_id' = next_page_id + 1
             /\ \E q \in PageIds :
                  /\ q = next_page_id /\ Seen(q)' = Zero
                  /\ \A p \in PageIds : p # q => Seen(p)' = Seen(p)
  <2> DEFINE page == [EmptyPage EXCEPT !.page_id = next_page_id, !.pin_count = 1]
  <2>1. NewPgImp(f)
    BY <1>2 DEF ClientNewPage
  <2>2. next_page_id \in PageIds /\ next_page_id \notin Allocated
    BY <2>1, PoolAssumption DEF CInv, IInv, TypeOK, NewPgImp, PageIds, Allocated
  <2>3. ~Cached(next_page_id)
    BY <2>2 DEF CInv, IInv, TableConsistent, Cached
  <2>4. page \in Page /\ page.data = Zero
    <3>1. page \in Page
      BY <2>2, EmptyPageType, FilledPage
    <3> QED
      BY <3>1 DEF EmptyPage
  <2>5. /\ f \in Takeable /\ DiskAfterTaking(f) \in [PageIds -> Values]
        /\ disk' = [DiskAfterTaking(f) EXCEPT ![next_page_id] = Zero]
        /\ pages' = [pages EXCEPT ![f] = page]
        /\ page_table' = Put(TableWithout(f), next_page_id, f)
        /\ next_page_id' = next_page_id + 1
    BY <2>1, TakeableFrame DEF NewPgImp, CInv
  <2> HIDE DEF page
  <2>6. \A p \in PageIds : p # next_page_id => disk'[p] = DiskAfterTaking(f)[p]
    BY <2>5
  <2>7. PICK q \in PageIds : q = next_page_id
    BY <2>2
  <2>8. /\ Seen(q)' = page.data
        /\ \A p \in PageIds : p # q => Seen(p)' = Seen(p)
    BY <2>3, <2>4, <2>5, <2>6, <2>7, InstallKeepsContent
  <2> QED
    BY <2>4, <2>5, <2>7, <2>8
<1>3. ASSUME NEW q \in Allocated, NEW c \in Clients, NEW f \in Frames,
             ClientFetchMiss(c, q, f)
      PROVE  Same
  <2> DEFINE page == [page_id |-> q, pin_count |-> 1, is_dirty |-> FALSE,
                      data |-> disk'[q]]
  <2>1. FetchMiss(q, f) /\ q \in PageIds
    BY <1>3, PoolAssumption DEF ClientFetchMiss, CInv, IInv, TypeOK, Allocated, PageIds
  <2>2. /\ ~Cached(q) /\ f \in Takeable
        /\ disk' = DiskAfterTaking(f) /\ DiskAfterTaking(f) \in [PageIds -> Values]
        /\ pages' = [pages EXCEPT ![f] = page]
        /\ page_table' = Put(TableWithout(f), q, f)
        /\ next_page_id' = next_page_id
    BY <2>1, TakeableFrame DEF FetchMiss, CInv
  <2>3. page \in Page /\ page.data = disk'[q]
    BY <2>1, <2>2 DEF Page
  <2> HIDE DEF page
  <2>4. /\ Seen(q)' = page.data
        /\ \A p \in PageIds : p # q => Seen(p)' = Seen(p)
    BY <2>1, <2>2, <2>3, InstallKeepsContent
  <2>5. Seen(q)' = Seen(q)
    <3>1. q # pages[f].page_id
      <4>1. f \in Frames
        BY <2>2, TakeableFrame DEF CInv
      <4> QED
        BY <2>1, <2>2, <4>1, InvalidIsNoPage DEF CInv, IInv, TableConsistent
    <3> QED
      BY <2>1, <2>2, <2>3, <2>4, <3>1, TakingSparesOthers DEF Seen, CInv
  <2> QED
    BY <2>2, <2>4, <2>5
<1>4. ASSUME NEW q \in Allocated, NEW c \in Clients, ClientFetchHit(c, q)
      PROVE  Same
  <2>1. /\ pages' = [pages EXCEPT ![page_table[q]].pin_count = @ + 1]
        /\ UNCHANGED <<page_table, next_page_id, disk>>
    BY <1>4 DEF ClientFetchHit, FetchHit
  <2>2. \A g \in Frames : pages'[g].data = pages[g].data
    BY <1>1, <2>1, ChangedPage, ZeroAssumption
  <2> QED
    BY <2>1, <2>2, SameContent DEF CInv
<1>5. ASSUME NEW q \in Allocated, NEW c \in Clients, NEW is_dirty \in BOOLEAN,
             ClientUnpin(c, q, is_dirty)
      PROVE  Same
  <2>1. /\ pages' = [pages EXCEPT ![page_table[q]] = Unpinned(@, is_dirty)]
        /\ UNCHANGED <<page_table, next_page_id, disk>>
    BY <1>5 DEF ClientUnpin, UnpinPgImp
  <2>2. \A g \in Frames : pages'[g].data = pages[g].data
    BY <1>1, <2>1, UnpinnedFlag
  <2> QED
    BY <2>1, <2>2, SameContent DEF CInv
<1>6. ASSUME NEW q \in Allocated, ClientFlush(q)
      PROVE  Same
  <2>1. /\ Cached(q)
        /\ disk' = [disk EXCEPT ![q] = FrameOf(q).data]
        /\ pages' = [pages EXCEPT ![page_table[q]].is_dirty = FALSE]
        /\ UNCHANGED <<page_table, next_page_id>>
    BY <1>6 DEF ClientFlush, FlushPgImp
  <2>2. \A g \in Frames : pages'[g].data = pages[g].data
    BY <1>1, <2>1, ChangedPage, ZeroAssumption
  <2>3. \A p \in PageIds : ~Cached(p) => disk'[p] = disk[p]
    BY <1>1, <2>1
  <2> QED
    BY <2>1, <2>2, <2>3, SameContent DEF CInv
<1>7. CASE ClientFlushAll
  <2>1. FlushAllPgsImp /\ UNCHANGED <<page_table, next_page_id>>
    BY <1>7 DEF ClientFlushAll, FlushAllPgsImp
  <2> QED
    BY <2>1, FlushAllEffect, SameContent DEF CInv
<1>8. ASSUME NEW q \in Allocated, ClientDelete(q)
      PROVE  Same
  <2>1. /\ Cached(q) /\ FrameOf(q).pin_count = 0
        /\ disk' = WriteBack(page_table[q])
        /\ page_table' = Erase(page_table, q)
        /\ pages' = [pages EXCEPT ![page_table[q]] = EmptyPage]
        /\ next_page_id' = next_page_id
    BY <1>8 DEF ClientDelete, DeletePgImp
  <2>2. /\ DOMAIN page_table' = DOMAIN page_table \ {q}
        /\ \A p \in DOMAIN page_table' : page_table'[p] = page_table[p]
    BY <2>1 DEF Erase, Restrict
  <2>3. /\ disk'[q] = FrameOf(q).data
        /\ \A p \in PageIds : p # q => disk'[p] = disk[p]
    BY <2>1, WrittenBack
  <2>4. \A p \in DOMAIN page_table' : pages'[page_table[p]] = pages[page_table[p]]
    BY <1>1, <2>1, <2>2, CachedPage DEF CInv, Cached
  <2>5. ASSUME NEW p \in PageIds
        PROVE  Seen(p)' = Seen(p)
    BY <2>1, <2>2, <2>3, <2>4 DEF Seen, Cached, FrameOf
  <2> QED
    BY <2>1, <2>5
<1>9. CASE ClientGetsNull \/ UNCHANGED cvars
  BY <1>9 DEF ClientGetsNull, ReturnNull, cvars, vars, pool, Seen, Cached, FrameOf
<1> QED
  BY <1>2, <1>3, <1>4, <1>5, <1>6, <1>7, <1>8, <1>9 DEF ClientsNext

\* A write through a held pointer shows on its page and on no other.
LEMMA WriteStep ==
  ASSUME CInv, NEW c \in Clients, NEW q \in Allocated, NEW v \in Values,
         ClientWrite(c, q, v)
  PROVE  /\ next_page_id' = next_page_id
         /\ Seen(q)' = v
         /\ \A p \in PageIds : p # q => Seen(p)' = Seen(p)
<1> DEFINE f == held[c][q]
<1>1. /\ q \in DOMAIN held[c]
      /\ pages' = [pages EXCEPT ![f].data = v]
      /\ page_table' = page_table /\ disk' = disk /\ next_page_id' = next_page_id
  BY DEF ClientWrite, Modify, Holders
<1>2. Cached(q) /\ page_table[q] = f /\ f \in Frames /\ pages[f].page_id = q
  BY <1>1, HeldPage, CachedPage DEF CInv
<1>3. pages \in [Frames -> Page]
  BY DEF CInv, IInv, TypeOK
<1>4. /\ pages'[f].data = v
      /\ \A g \in Frames : g # f => pages'[g] = pages[g]
  BY <1>1, <1>2, <1>3, ChangedPage
<1>5. \A p \in DOMAIN page_table \ {q} : page_table[p] \in Frames /\ page_table[p] # f
  BY <1>2, CachedPage DEF CInv, Cached
<1>6. Seen(q)' = v
  BY <1>1, <1>2, <1>4 DEF Seen, Cached, FrameOf
<1>7. \A p \in PageIds : p # q => Seen(p)' = Seen(p)
  BY <1>1, <1>4, <1>5 DEF Seen, Cached, FrameOf
<1> QED
  BY <1>1, <1>6, <1>7

LEMMA StoreStep ==
  ASSUME CInv, [ClientsNext]_cvars
  PROVE  [Store!Next]_(Store!vars)
<1> DEFINE content == [p \in Allocated |-> IF Cached(p) THEN FrameOf(p).data
                                                        ELSE disk[p]]
<1>1. content = [p \in Allocated |-> Seen(p)] /\ Allocated \subseteq PageIds
  <2>1. Allocated \subseteq PageIds
    BY PoolAssumption DEF CInv, IInv, TypeOK, Allocated, PageIds
  <2> QED
    BY <2>1 DEF Seen
<1>2. content' = [p \in Allocated' |-> Seen(p)']
  BY DEF Seen
<1>3. next_page_id \in Nat
  BY DEF CInv, IInv, TypeOK
<1>4. ASSUME NEW c \in Clients, NEW q \in Allocated, NEW v \in Values,
             ClientWrite(c, q, v)
      PROVE  Store!Write(q, v)
  <2>1. Allocated' = Allocated /\ next_page_id' = next_page_id
    BY <1>4, WriteStep DEF Allocated
  <2>2. /\ Seen(q)' = v
        /\ \A p \in Allocated : p # q => Seen(p)' = Seen(p)
    BY <1>1, <1>4, WriteStep
  <2>3. content' = [p \in Allocated |-> IF p = q THEN v ELSE Seen(p)]
    BY <1>2, <2>1, <2>2
  <2>4. content' = [content EXCEPT ![q] = v]
    BY <1>1, <2>3
  <2> QED
    BY <2>1, <2>4 DEF Store!Write
<1>5. CASE /\ next_page_id' = next_page_id
           /\ \A p \in PageIds : Seen(p)' = Seen(p)
  <2>1. Allocated' = Allocated
    BY <1>5 DEF Allocated
  <2>2. content' = content
    BY <1>1, <1>2, <1>5, <2>1
  <2> QED
    BY <1>5, <2>2 DEF Store!vars
<1>6. ASSUME next_page_id' = next_page_id + 1,
             NEW q \in PageIds, q = next_page_id, Seen(q)' = Zero,
             \A p \in PageIds : p # q => Seen(p)' = Seen(p)
      PROVE  Store!New
  <2>1. Allocated' = 0 .. next_page_id
    BY <1>3, <1>6 DEF Allocated
  <2>2. \A p \in 0 .. next_page_id : p = next_page_id \/ p \in Allocated
    BY <1>3 DEF Allocated
  <2>3. content' = [p \in 0 .. next_page_id |->
                      IF p = next_page_id THEN Zero ELSE content[p]]
    BY <1>1, <1>2, <1>6, <2>1, <2>2
  <2> QED
    BY <1>6, <2>3 DEF Store!New
<1> HIDE DEF content
<1>7. CASE \E c \in Clients, q \in Allocated, v \in Values : ClientWrite(c, q, v)
  BY <1>4, <1>7 DEF Store!Next, Allocated
<1>8. CASE ~ \E c \in Clients, q \in Allocated, v \in Values : ClientWrite(c, q, v)
  BY <1>5, <1>6, <1>8, ContentSteps DEF Store!Next
<1> QED
  BY <1>7, <1>8

-----------------------------------------------------------------------------
(***************************************************************************)
(* The theorems.                                                           *)
(***************************************************************************)

\* The pin count of a page is the number of callers that hold it.
THEOREM PinsAreHolders == ClientsSpec => []PinCountIsHolders
<1>1. CInv => PinCountIsHolders
  BY DEF CInv
<1> QED
  BY <1>1, ClientsInvariance, PTL

\* A Page * points at the page it was given for as long as its caller holds it,
\* whatever the other callers do meanwhile.
THEOREM PointersStayValid == ClientsSpec => []PointersAreValid
<1>1. CInv => PointersAreValid
  BY DEF CInv
<1> QED
  BY <1>1, ClientsInvariance, PTL

\* A page that looks clean and that no holder has written is the same on disk.
THEOREM CleanMeansOnDisk == ClientsSpec => []CleanPagesAreOnDisk
<1>1. CInv => CleanPagesAreOnDisk
  BY DEF CInv
<1> QED
  BY <1>1, ClientsInvariance, PTL

\* The pool is a page store: what a caller reads from a page is what was last
\* written to it, through eviction, write-back, flushing and deletion.
THEOREM PoolIsPageStore == ClientsSpec => ImplementsPageStore
<1>1. ClientsInit => Store!Init
  BY StoreInit
<1>2. CInv /\ [ClientsNext]_cvars => [Store!Next]_(Store!vars)
  BY StoreStep
<1> QED
  BY <1>1, <1>2, ClientsInvariance, PTL DEF ClientsSpec, ImplementsPageStore, Store!Spec

\* Callers that keep the protocol are callers of the pool: a write through a held
\* pointer goes to a pinned frame of the pool.  What is proved of Spec, of dirty
\* pages for instance, holds with them.
THEOREM ClientsUseThePool == ClientsSpec => Spec
<1>1. ClientsInit => Init
  BY DEF ClientsInit
<1>2. ASSUME CInv, [ClientsNext]_cvars
      PROVE  [Next]_vars
  <2>1. ASSUME NEW c \in Clients, NEW q \in Allocated, NEW v \in Values,
               ClientWrite(c, q, v)
        PROVE  \E f \in Frames : Modify(f, v)
    BY <1>2, <2>1, HeldPage DEF ClientWrite, Holders
  <2>2. ASSUME ClientsNext,
               ~ \E c \in Clients, q \in Allocated, v \in Values : ClientWrite(c, q, v)
        PROVE  Next
    BY <2>2 DEF ClientsNext, ClientFlushAll, ClientGetsNull, ClientNewPage, ClientFlush,
                ClientDelete, ClientFetchHit, ClientFetchMiss, ClientUnpin, Next
  <2>3. CASE UNCHANGED cvars
    BY <2>3 DEF cvars
  <2> QED
    BY <1>2, <2>1, <2>2, <2>3 DEF Next
<1>3. CInv /\ [ClientsNext]_cvars => [Next]_vars
  BY <1>2
<1> QED
  BY <1>1, <1>3, ClientsInvariance, PTL DEF ClientsSpec, Spec

=============================================================================
