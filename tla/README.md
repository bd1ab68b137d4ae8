# A formal model of the storage engine in DBSPwork

This directory models the storage layer in `src/project2-submission/src`: the
LRU-K replacer, the buffer pool, the extendible hash table that serves as its
page table, and the B+ tree index. (`src/project1-submission` holds the first
three once more, byte for byte; the modules are mapped to the second copy.)
TLC checks the modules on small instances, and TLAPS proves the invariants and the
contracts of the replacer, the pool, its clients and the hash table, the shape of the
tree, and that a tree that only grows is an index, for every value of their constants.

## 1. Inventory

| Component | Source | State | Operations |
|---|---|---|---|
| LRU-K replacer | `buffer/lru_k_replacer.{h,cpp}` | `node_store_` (history, flags), `inf_distance_list_`, `finite_distance_map_`, `current_timestamp_`, `curr_size_` | `RecordAccess`, `SetEvictable`, `Evict`, `Remove`, `Size` |
| Buffer pool | `buffer/buffer_pool_manager_instance.{h,cpp}` | `pages_`, `page_table_`, `free_list_`, `next_page_id_` | `NewPg`, `FetchPg`, `UnpinPg`, `FlushPg`, `FlushAllPgs`, `DeletePg` |
| Extendible hash table | `container/hash/extendible_hash_table.{h,cpp}` | `global_depth_`, `dir_`, buckets (`depth_`, `list_`), `num_buckets_` | `Find`, `Insert`, `Remove`, getters |
| B+ tree | `storage/index/b_plus_tree.{h,cpp}` | `root_page_id_`, its pages in the pool, its record in the header page | `GetValue`, `Insert`, `Remove`, `Begin`, `End` |
| Tree pages | `storage/page/b_plus_tree_*` | sorted arrays, sizes, parent and sibling ids | search, insert, remove, `MoveHalfTo`, `MoveAllTo`, `MoveFirstToEndOf`, `MoveLastToFrontOf` |
| Index iterator | `storage/index/index_iterator.{h,cpp}` | a pinned leaf `Page *`, an index, `is_end_` | `operator*`, `operator++`, destructor |
| Header page, disk manager, `Page` | not in the repository | | used by the code above; modelled from that use |
| Log manager, transactions | not in the repository | | passed through, never used |

How they interact:

* The pool calls the replacer and the page table while it holds its `latch_`. It
  tells the replacer about every access, every first and last pin, and every
  deletion; it asks it for a victim when the free list is empty.
* The tree calls the pool for every page it visits, gets a `Page *`, reads and
  writes the page **outside** the pool's latch, and unpins it with a dirty flag.
* The tree's `GetValue`, `Insert`, `Remove` and `Begin` hold `tree_latch_` throughout.
  An iterator holds a pin on its leaf but does not take the latch to advance: it
  reads leaves in the middle of other threads' splits and merges.
* Everything the tree knows about itself is in pages: a child names its parent, a
  leaf names its right sibling, the header page names the root.

What is hard:

* **Derived data.** The replacer keeps four containers and a counter in step with
  the histories; `Evict` trusts them blindly. The pool keeps a table, frames, a
  free list and the replacer in step.
* **Writes outside the latch.** A flush, an eviction or another thread's unpin
  may come between a write through a `Page *` and the unpin that declares it.
* **Long restructurings.** A split of a hash bucket may take several rounds; an
  insertion into the tree may split, a removal may borrow or merge, at every
  level, and every moved child has to be told of its new parent.
* **Pins across recursion.** A split or a merge keeps the pages of every level it
  came through pinned, and writes some of them through several pointers. Each pin
  has to be given back once, after the write was declared, on every path.
* **Loops under a latch.** `ExtendibleHashTable::Insert` and the recursion up the
  tree have to end, or everybody waits.

What makes each component correct:

* replacer: it is an LRU-K policy, measured on complete access histories; the
  victim is evictable; the count is right;
* pool: no two frames for a page, no page in a free frame, no pinned frame given
  away, no modification lost; altogether an array of pages;
* hash table: a map, whose directory stays a partition of the hash suffixes;
* tree: a search tree, balanced, at least half full, complete, whose parent and
  sibling pointers are right; altogether an index with unique keys; each of its
  calls keeps the pin protocol and needs few frames;
* iterator: it starts at the right pair, misses no key that was there when the scan
  began (the code does, if `operator++` reads a leaf that is just being split), and
  reaches the end.

`PROJECT.json` lists the hazards of the code at their lines, each with the
properties that watch it.

## 2. Modules

| Module | Models | Uses |
|---|---|---|
| `UnorderedMap` | `operator[]`/`erase` of maps as functions | |
| `Replacer` | **contract**: what the pool relies on in its replacer | |
| `LRUKPolicy` | **contract**: LRU-K over complete access histories | |
| `LRUKReplacer` | `LRUKReplacer` | implements `Replacer` |
| `LRUKHistory` | the same with a history variable `accesses` | implements `LRUKPolicy` |
| `BufferPool` | `BufferPoolManagerInstance`, arbitrary callers | the replacer as `Replacer` describes it |
| `PageStore` | **contract**: a growing array of pages | |
| `BufferPoolClients` | threads that keep the pin protocol, over `BufferPool` | implements `PageStore` |
| `KVMap` | **contract**: a map | |
| `ExtendibleHashTable` | `ExtendibleHashTable` | implements `KVMap` |
| `BPlusTreePages` | the arrays of leaf and internal pages, as pure operators | |
| `UniqueIndex` | **contract**: an index with unique keys | |
| `BPlusTree` | `BPlusTree`, over the array of pages the pool promises | implements `UniqueIndex` while it only grows |
| `BPlusTreePins` | the pages each step of `BPlusTree` pins, writes and unpins | every action of `BPlusTree` |
| `IndexIterator` | `IndexIterator` and the two forms of `Begin`, beside running calls | every action of `BPlusTree` |
| `MCLRUKReplacer`, `MCBufferPoolClients`, `MCExtendibleHashTable`, `MCBPlusTree` | instances for TLC: symmetry, hash function, growth before shrinking | |
| `LRUKReplacerProofs` (with `LRUKHistory`), `BufferPoolProofs` (with `BufferPoolClients`), `ExtendibleHashTableProofs`, `BPlusTreePagesProofs`, `BPlusTreeProofs`, `BPlusTreePinsProofs` | theorems about the module each is named after | `DataLemmas` |
| `GrowingIndexProofs` | theorems about `BPlusTree` and `IndexIterator` while the tree only grows | `BPlusTreeProofs` |
| `DataLemmas` | facts about lists and numbers that these proofs share | |

Variables carry the names of the members without the trailing underscore,
actions those of the functions. A member function under a latch is one action.
Two are cut into steps: `ExtendibleHashTable::Insert` (one action per round of
its loop, `inserting` holds its arguments) and the tree's `Insert` and `Remove`
(one action per level, `todo` holds the arguments of the next call up the tree).
No other call of the component starts in between, as the latch demands.

Some modelling decisions:

* `is_present_` is TRUE in every entry of `node_store_`, so it is not a variable:
  presence is membership in the domain. `Remove` of a frame that is not evictable
  runs into `BUSTUB_ASSERT(false)` and is not a step; that the pool never makes
  such a call is `ReplacerAgrees` in `BufferPool`.
* `NewPgImp` and `FetchPgImp` take the frame `f` as a parameter: `Takeable` is
  the front of the free list, or any evictable frame. Every choice of a
  replacer that keeps the contract is therefore covered, LRU-K's among them.
* A write through a `Page *` is the action `Modify`, enabled for pinned frames.
  In `BufferPoolClients` it goes through the pointer the caller holds, whatever
  page is in that frame by now.
* A bucket's list is a map, a bucket's identity the number of its creation.
* A tree page's array is the sequence of its pairs within `GetSize()`. Searches are
  the bisections of the standard library, probe by probe, because leaf pages do get
  out of order (section 5).
* In `BPlusTree` the pool is what `PageStore` says: pages that keep what is written
  to them. Ids are not reused, because the pool's `DeletePg` only drops the cached
  copy.
* `BPlusTreePins` conjoins each action of `BPlusTree` with the pool's calls that the
  code makes in that step, in order, as a sequence folded over a bag of pins.
  `held` is the stack of pages that the functions of the running call unpin when
  they return: `InsertIntoParent` and `CoalesceOrRedistribute` call themselves
  before that. `pool.misused` collects what `BufferPoolClients` assumes callers
  never do, so the two modules meet at the protocol and not at the frames.
* `operator++` is two actions, leaving a leaf and entering the next one, because it
  holds no page in between. Reading a leaf that is just being split
  (`leaf->SetSize(0)`, then one pair after the other) is a third one,
  `AdvanceDuringSplit`, which finds any size up to `leaf_max_size_` and the old or
  the new sibling. `due` is a history variable: the keys stored when the scan began
  that it still has to come to. It loses the key the scan stands at with every
  `operator++`, and all keys of a leaf that is read in the middle of its split, because
  the code may skip those (section 5).
* A call of the tree for which the pool has no frame is modelled where the code
  handles it, in `Insert` before a leaf splits (`InsertRefused`).

Definitions under a comment "Fault:" are not used by the model. Each is the
definition below it with a plausible mistake in it; `PROJECT.json` pairs it with a
property that notices the mistake.

## 3. Runs

| Run | Instance | States | Shows |
|---|---|---|---|
| `LRUKReplacer_K2` | 3 frames, K = 2, 8 accesses | 170 000 | containers and counter in step; LRU-K policy on full histories; the pool's contract |
| `BufferPool` | 3 frames, 4 pages, 2 pins, any callers | 860 000 | table, frames, free list and replacer agree; pinned frames and dirty pages are safe |
| `BufferPoolClients` | 2 frames, 3 pages, 2 threads | 33 000 | pin counts are holders; pointers stay valid; an array of pages |
| `ExtendibleHashTable` | 6 keys, buckets of 2, depth up to 3 | 195 000 | a map through every order of splits; every `Insert` returns |
| `BPlusTree_Grow` (`IndexIterator`) | 5 keys, 2 values, leaves of 2, internal pages of 3, 10 pages, one scan at a time | 87 000 | search tree, sibling chain, unique index; where `Begin(key)` starts; scans miss nothing between splits, in the middle of a split keys of that leaf at most, and end |
| `BPlusTree` (`BPlusTreePins`) | 4 keys, leaves of 2, internal pages of 4, 6 pages | 147 000 | insertions and removals in any order: types, pairs kept by borrowings, merges and root changes, calls end |
| `BPlusTree_Shrink` (`MCBPlusTree`) | 7 keys, 9 pages: grown to three levels, then taken apart | 74 000 | all borrowings and merges at leaf and internal level; parent pointers, balance, occupancy, nothing cut off; pins given back, writes declared, frames bounded |

The bounds and why they suffice:

* **Replacer.** With three frames two can wait in one container while the third
  is in the other; with K = 2 and eight accesses each frame passes from new to
  infinite to finite distance, its history is trimmed, and it can be evicted and
  come back. Frames are interchangeable, so symmetry is sound; the run checks no
  liveness.
* **Pool.** Fewer frames than pages make eviction, write-back and refetching
  unavoidable; two pins on one page let one holder leave before the other; two
  contents tell a fresh page from a stale one.
* **Hash table.** The hashes of three keys agree in two low bits, so that an `Insert`
  splits three rounds deep; three others agree in one bit, so that a second bucket
  splits before or after, with and without doubling the directory. Eight directory
  entries leave buckets shared by one, two and four of them.
* **Tree.** Pages are as small as the code works with, so that splits, borrowings
  and merges happen all the time and cascade through an internal level. In
  `BPlusTree_Grow` internal pages have room for three children, so that they split
  with five keys. In runs that remove, `internal_max_size_` is 4: with 3 the code
  may leave an internal page with one child and then read the slot behind it,
  where the model stops (`Underflowing`; with 5 keys and 5 pages TLC reports that as
  a deadlock). `BPlusTree_Shrink` inserts, when pages are used up, only where a leaf
  has room: with 9 pages the internal level has split and has two internal pages to
  borrow from and merge with.
* **Iterator.** One scan at a time is enough: iterators share nothing but the tree. It
  may begin at any time and at any key, is overtaken by splits of its leaf, of the
  next leaf and of the root, and may be destroyed anywhere.

`MaxTimestamp`, `MaxPages`, `MaxPins` and `MaxDepth` bound counters that the code
does not bound. They are guards of the actions that count.
`BPlusTree_Shrink` ends when the tree is empty and no page is left to allocate,
so it does not check for deadlock.

**Fairness** is assumed for two things. A call that is running goes on: in the hash
table `WF(InsertPair \/ Split)`, in the tree `WF(InsertStep \/ RemoveStep)`.
Those steps run under the latch of the component and wait for nobody;
`InsertReturns` and `EveryCallReturns` hold under it. And a scan that was begun goes
on (`IteratorFairness`): it is a loop that calls `operator++` until the end, and
`operator++` takes only the pool's latch. `ScanEnds` holds under it, in a run where
insertions may come between any two steps of the scan for as long as there are
keys. Nothing says that anybody calls anything. In the hash table the claim rests on hashes that differ within
`MaxDepth` bits; when more keys than a bucket holds share all bits, the loop of
`Insert` doubles the directory until memory runs out.

## 4. Contracts

* `LRUKReplacer` implements `Replacer` under `tracked <- DOMAIN node_store`,
  `evictable <- EvictableFrames`. This is what entitles `BufferPool` to a
  nondeterministic victim.
* `LRUKHistory` implements `LRUKPolicy`: the trimmed histories and the two
  containers take the same victims as the complete histories would.
* `BufferPoolClients` implements `PageStore`: a page's content is its frame's, or
  the disk's when it is not cached. Every eviction, flush and deletion is a
  stuttering step. This is what entitles `BPlusTree` to its array of pages.
* `ExtendibleHashTable` implements `KVMap`, which entitles `BufferPool` to a map.
* `BPlusTree` implements `UniqueIndex` under `GrowingSpec`. With removals it does not
  (section 5); what survives them is in the runs `BPlusTree` and `BPlusTree_Shrink`.

All five are model-checked and proved (section 6).

## 5. Where the code and its documentation part

Each of these runs has one property, which quotes the documentation, and TLC shows
how the code violates it.

* `LRUKReplacer_TieBreak`: among frames with fewer than K accesses the header
  promises the one with the earliest timestamp; the code takes the one that
  became evictable first.
* `BPlusTree_LeafOrder`: a merge appends the pairs of the left leaf to those of the
  right one, so a leaf is no longer in order.
* `BPlusTree_UniqueKeys`: after a merge the separator in front of the surviving leaf
  still excludes the keys it took over: they are not found, and can be inserted
  again. A leaf that holds a key twice loses one of the two pairs when it splits (its halves
  are filled by `Insert`, which refuses the second), and may be left less than half
  full; internal pages never are (`Balanced`), leaves only as long as no key is
  inserted twice (`LeavesAreHalfFull`).
* `BPlusTree_Header`: a tree that was emptied and starts again calls `InsertRecord`
  for a name the header page already has, and the record keeps `INVALID_PAGE_ID`.

* `IndexIterator_Advance`: after a merge of leaves `MoveAllTo` makes the surviving leaf
  its own successor, because the emptied leaf is always the left one of the two.
  `operator++` at its last pair goes back to its first pair, for ever; and from the
  leaf before, it goes to the emptied page and takes that for the end.

Four more were met and have no run of their own. With `k_ = 0` `SetEvictable` counts a
frame and lists it nowhere, and `Evict` dereferences `end()`: `EvictHasCandidate`
fails with `K = 0` after two steps, and the theorems assume `K > 0`.
`FlushAllPages` skips a page that was written through its pointer and not unpinned
yet, which `FlushPage` writes; its holder's unpin makes it dirty. A leaf split first
empties the leaf, under `tree_latch_`, and `operator++` reads size and sibling without
the latch: a scan at the first of two entries may find no second one and become the
end iterator, or go on behind the pairs that the split moves to the new leaf, although
the header says "advance to next entry" (`index_iterator.h:35`). `ScanMissesNoOtherLeaf`
exempts the keys of that leaf: without `KeysOf(it[i].page)` in `AdvanceDuringSplit` TLC finds
it violated at the first split. And with
`internal_max_size_ = 3` a removal may read the slot behind the size of an internal page
(section 3).

## 6. Proofs

All proofs have the same outline: an inductive invariant, one lemma per action that
keeps it, a lemma `Spec => []` of it, and short theorems that follow. A refinement
adds two facts: initial states map to initial states, and under the invariant every
step maps to a step of the contract or to a stutter. The only assumptions are the
named ones of the modules, and `K > 0` for the replacer (section 5).

**`LRUKReplacerProofs`**: `TypeCorrect`, `SizeCorrect`, `ListsCorrect`,
`DistancesCorrect`, `EvictIsSafe`, `Refinement`.
`SizeIsEvictableCount` is not inductive alone. That `Evict` removes an *evictable*
frame, so that the decrement is right, needs to know that the list and the map hold
evictable frames only (`EvictableFramesAreListed`). That `is_in_inf_` finds the
container a frame leaves needs the lengths of the histories (`HistoriesBounded`). That
the list loses the frame altogether when its first occurrence goes needs
`InfListHasNoDuplicates`. `IInv` is their conjunction with `TypeOK` and
`FiniteDistancesAreFresh`. `Refinement` maps every action to the contract's
action of the same name, `Evict`'s to its two outcomes.

The second part of the module is about `LRUKHistory`: `ReplacerIsLRUK`, that the replacer
follows `LRUKPolicy`. The invariant `HInv` adds to `IInv` that a trimmed history is the end of the complete
one (`LastOf`), and that no access lies in the future. The policy compares distances
in complete histories. `DistanceFromHistory` computes them from the trimmed ones:
infinite exactly when the trimmed history is shorter than K, and otherwise fixed by
its first element. From there on the smallest timestamp in the finite map, or
any frame of the infinite list, is a frame of greatest distance (`VictimIsFarthest`).

**`BufferPoolProofs`** (for any pool size, any number of pages, pins and contents, and
any callers): `TypeCorrect`, `TableCorrect`, `FramesAccounted`, `ReplacerCorrect`,
`NullOnlyWhenFull`, `PinnedFramesAreStable`, `DirtyPagesReachDisk`,
`DiskPagesAreTheirOwn`. `IInv` is `TypeOK`, `TableConsistent`,
`FrameAccounting` and `ReplacerAgrees`; none of them is inductive without the others:
a frame that is taken must not be another page's (table), must not be on the free
list any more (accounting) and must be unpinned (replacer). Taking a frame is proved
once (`InstallInvariant`), for the two functions that do it; calls that move no page
are proved once too (`SamePlacesInvariant`). The three action properties follow from
`IInv` and the step.

The second part of the module is about `BufferPoolClients` (any finite set of threads): `PinsAreHolders`,
`PointersStayValid`, `CleanMeansOnDisk`, `PoolIsPageStore`, `ClientsUseThePool`. `CInv`
is `IInv` of the pool and, about the threads, the first three of these and the types
of what they hold. A pointer stays valid because its frame is pinned
(`PinCountIsHolders`) and pinned frames are not taken (`ReplacerAgrees`). A clean page
is on disk *unless somebody wrote it and has not declared it yet*, which only
makes sense when the pointer still leads to the page. `PoolIsPageStore`: the content
of a page does not change when its frame is taken, because a victim is unpinned, hence
either dirty and written back or clean and on disk already (`InstallKeepsContent`).
`ClientsUseThePool`: a step of the clients is a step of `BufferPool`, so what is proved
of arbitrary callers holds for them.

**`ExtendibleHashTableProofs`** (any keys, hash function, bucket size and greatest
depth): `TypeCorrect`, `DirectoryStaysPartition`, `NoBucketIsLost`, `DepthStaysNeeded`,
`TableIsMap`. `IInv` has six conjuncts. `DirectoryIsPartition` says that two entries
name the same bucket exactly when their indices agree in the bucket's local depth's
last bits; it is kept by a split only if the bucket's entries are exactly one
residue class, which is what it says, and only if every bucket is named by some entry
(`EveryBucketReached`). `DepthIsNeeded` bounds local depths by the global one; without
that, redirecting the entries of a split bucket might touch none. `PairsInPlace` says
that a pair is where `Find` looks; redistribution needs that its bucket's class falls
into two. A round that splits changes no pair (`SplitKeepsMap`), and so is a stutter of
`KVMap`. The arithmetic is that of remainders of powers of two: an index has one of
two remainders at the next depth (`NextBit`), and doubling the directory leaves the
remainders of both halves alone (`FirstOfHalves`).

**`BPlusTreeProofs`** (any keys, values and page sizes): `TypeCorrect`,
`ParentPointersAreRight`, `NothingGetsCutOff`, `PairsAreNeverLost`, all from `Invariance`;
`TreeStaysBalanced` from `BalanceInvariance`; and, for a tree that only grows,
`GrowingLeavesAreInOrder`.

The properties speak of the moments between calls; the invariant has to speak of the
middle of a split or a merge. `IInv` is

* `PagesTyped` and `OthersTyped`: types, sizes of leaves, and that every page id in a
  page or in a pending call is that of an allocated page (page ids are 1 to their
  number, so the next one is fresh);
* for some set `T` of pages and some `level` of each of them, `TreeShape`: a page of
  `T` is a leaf exactly at level 0 (`Levels`), internal pages have children and name each once
  (`NodesAreSound`), children are in `T`, one level down, and name their parent
  (`ParentsOfKids`), the root is on top (`RootOnTop`), every other page of `T` is a child of the page
  it names (`KidsOfParents`), and leaves outside `T` are empty
  (`LeavesOutsideAreEmpty`);
* `CallShape`: what the pending call knows. In the middle of a split there is one page,
  `Pending`, that no page points to yet: it is in `T`, at the level of the page it was
  split from, and `KidsOfParents` makes an exception for it alone. In the middle of a removal
  the page that underflowed is in `T`, is not the root and is short of pairs.

`level` is what makes this inductive without induction over the height of the tree: that the three
pages of a redistribution are different (`UnderflowFacts`), that a merged page was not
the root, and that no page is its own ancestor all follow from comparing levels.
`ParentsAgree` needs `KidsOfParents` too, because a split reads `parent_page_id_` of pages that
an earlier split moved. What redistributions and merges do to the tree is proved once for both,
apart from which pairs they move (`KidsMoved`). `FindLeafPage` takes as many steps
down as there are pages; `DescentReachesLeaf` proves, by `NatInductionSet`, that this ends in
a leaf of `T`. `InTree` is `T` itself (`InTreeIsTheTree`), again by iteration, because
levels stay below the number of pages.

`PairsAreNeverLost` compares how often a pair stands on the leaves before and after a step in the middle of
a call. The split of a leaf begins a call and is not among them (it may lose a pair, section 5; in a tree that
only grows `GrowingTreeIsIndex` covers it). Of the others only redistributing and merging leaves moves pairs. Both take pairs over the border between
two neighbours, so that the two arrays put together are the same sequence before and after
(`BorderMoves`); and as the places of a pair on two leaves are as many
as its places on the two arrays put together (`PairsOnOneShelf`), none is lost or doubled,
*whichever two leaves they are* (`TwoLeavesRearranged`). The theorem therefore also covers
the merges that put a leaf out of order (section 5).

`TreeStaysBalanced` has two halves. That all leaves are equally deep is `level` once more: the
pages `i` steps below the root are at `i` levels less (`DepthsOfTree`). How full pages are
takes a second invariant on the same `T`, `Filled`: between calls an internal page holds at least
half of what it may and an internal root two children; in the middle of a call the root may be down
to one, the page that underflowed is short by exactly one, and the page that
was just split is half full even if it is the root, because it is about to lose that
rank. A merge then has room (`CoalesceKeepsFilled`: half less one and half are less than a page
holds), a page that lends keeps half, and both halves of a split are half full
(`HalvesAreFilled`). One case needs a fact of its own: with `internal_max_size_ = 3` half is
one child, and a root must not give way to a page with one child; `Filled` says that it then gives way to a leaf.
Nothing of the kind holds of leaves (section 5).

`GrowingLeavesAreInOrder` rests on what the two loops of a leaf split do: whatever the pairs, a
cleared page filled by `Insert` ends up in order without duplicates (`RefilledAscending`); and in a
page in order the bisection finds the place of every key (`LowerBoundFound`, `HoldsKey`).

**`GrowingIndexProofs`** (any keys, values and page sizes, insertions only):
`GrownSeparatorsSeparate`, `GrownLeavesAreHalfFull`, `GrownKeysAreUnique`,
`GrownLeafChainIsInOrder` and `GrowingTreeIsIndex`, all from `GrowingInvariance`; and, of
`IndexIterator`, `BeginReturnsFirstNotLess` and `ScansMissNoOtherLeaf`.

What `TreeShape` leaves open is which keys may be where. `GrowingInv` says that
there is an assignment `scope` of sets of numbers to pages, such that

* the root's scope is all numbers, and the separators of an internal page divide its scope among
  its children in their order (`Divided`);
* every leaf holds keys of its own scope, in order (`LeavesFit`), and is half full unless it is the root
  (`HalfFull`);
* the scopes of two leaves lie apart, one before the other (`InARow`), and a leaf names the
  leaf whose scope comes next (`Linked`);
* in the middle of a split the page that nobody points to yet has the upper part of the scope
  that the page it was split from had, from the separator upwards (`SplitAt`).

Scopes are a witness, as levels are, and not read off the pages: the interval of a page would have to be
computed down from the root, by a recursion that exists only in a tree. A split changes two scopes and
no others: the page keeps what is below the separator, the new page gets the rest. Until the new page is
linked from its parent the parent's `Divided` would be false, and `Divided` speaks
there of the two scopes together (`Covered`); linking it turns one share into two (`InsertedShares`). When an
internal page splits in its turn, its children keep their scopes and only the border between two of them moves
up. `FindLeafPage` descends into the scope that holds the key (`BelowInScope` is the converse: what is
below a page is in its scope), so that the leaf it ends in is the only one that may hold the key. From
that follow uniqueness, the separators and, with `LowerBoundFound`, that a lookup answers what is stored;
`IndexStep` takes each action to a step of `UniqueIndex`, and the middle of a split, which
moves pairs but stores the same ones, to a stutter. The chain follows from `Linked`. Half full: a leaf
splits when it holds `LeafMax` pairs with different keys, and both halves of these are enough.

`BeginReturnsFirstNotLess`: the leaf for `k` is the only one whose scope holds `k`, leaves before it hold
smaller keys, and the leaf it names is not empty and holds the next greater ones. One look to the right is therefore
enough, which it would not be if a leaf could be empty. Scans change nothing in the tree, so
that its invariant holds beside them (`ScansLetTheTreeGrow`).

`ScansMissNoOtherLeaf`: the property speaks of the keys in the chain of leaves ahead of a scan, and no step
of the scan or of the tree could be followed on that set directly. The invariant `ScansOnTheirWay` says
something that each leaf shows alone: a key the scan owes either stands behind its position in its leaf, or is stored
and greater than all keys of that leaf (`IsAhead`). An insertion only moves keys back in a leaf
(`KeysMoveBack`), and a split moves them back or to pages behind it and drops none in
between (`LeafKept`), so that what is ahead of a scan that rests stays ahead (`StaysAhead`). A scan that reads the
leaf in the middle of its split need not come to keys of this leaf any more, and for them the theorem says nothing;
the others are greater than all keys of both halves, and hence ahead wherever the scan goes on
(`SplitUnderScan`, `HalvesBefore`). When the scan leaves a leaf otherwise, the owed keys are greater than those of the leaf, hence in scopes that
come after it, and the next leaf begins the rest (`EnteredOnItsWay`). A scan from the beginning
starts in the leaf whose scope no other comes before (`LeftmostIsFirst`). Last, `IsAhead` implies
`Ahead`: that the recursive function in `Ahead` exists, and ends, is itself proved, because each leaf
has fewer leaves after it than the leaf before it (`CollectorExists`, `CollectsAll`).

**`BPlusTreePinsProofs`** (any keys, values, page sizes and heights, all of `Insert`,
`GetValue` and `Remove`): `PinsInvariance`, `EveryPinIsGivenBack`, `ThePinProtocolIsKept`,
`FramesAreEnough`.
The state of the pool after a step is a fold over the calls of the step. That the fold
exists, and that the calls of two lists one after the other do what the first does and then the
second, is proved by `NatInductionSet` on the number of calls (`OutcomesExist`,
`OutcomeOfBoth`). From there on lists of calls are reasoned about as programs are:
`Does(calls, tidy, frames, c, d)` says that, with the pages pinned as often as `c` says, the calls keep
the protocol, never have more than `frames` pages pinned at once, and leave the pins `d`; with `tidy`, that
they also leave no write undeclared if there was none before.
There is one such lemma for each list of calls (`DoesDescent`, `DoesAdopting`,
`DoesWritingSiblings`, ...), put together with `DoesBoth` and, for as many calls as there are levels or
children, `DoesAll`. `GivesAllBack(held, c)` says that unpinning the held pages one after the
other uses up the pins `c` exactly. The invariant `CallPins` says that of what the running call
holds, and that the pages which the next step will write or unpin are among the pinned ones. That the
pages the calls name are allocated, and that the descent ends in the leaf that `FindLeafPage` returns, comes
from the tree's own invariant, which holds beside the pins (`PinsStepsAreSteps`).

`FramesAreEnough` (`FramesSuffice` for trees of any height) cannot be read off the pins alone: how many
pages a call holds depends on how far it has come up. `PinsInv` therefore uses the levels that
`TreeShape` provides: a call that has got to a page of level `l` has at most `2 * (l + 1)`
pages pinned (`PinsOfLevels`). Each step says how much more room it needs (`Room`), three pages at most. The two steps
that go on with the parent, `ParentSplits` and `Coalesce`, pin two pages or one that they keep and
get exactly one level higher, which is why `ParentSplitsShaped` and `CoalesceShaped` state the levels after
the step and not only that there are some. They, and borrowing, start below the root, so that what they need on
top fits under the root's level (`OneHigher`); a step at the root needs two pages more, which is the
`+ 2`. And the level of the root is the height less one (`HeightOfTree`, by `DepthsOfTree`).

**`BPlusTreePagesProofs`**: what the operators on arrays return, for arrays of any length:
the bisection stays in the array, insertion, removal and splitting keep the pairs they
should, and sorting by insertion adds one pair; in an array in order, a key is found exactly if
it is there; and how the separators of an internal page cut a scope into shares, one per child, before and
after a child is inserted and the array is split (`Share`, `SeparatorsAscend`).

**`DataLemmas`**: lists without duplicates; induction over the natural
numbers for a *set* (`NatInductionSet`), a least number of a set (`LeastExists`), monotone
products, uniqueness of quotients.
The library's induction theorem takes a predicate as parameter, and the installed
provers cannot instantiate it; the form with a set follows from the library's
facts on injections between intervals, and serves wherever the induction
hypothesis can be written as membership. The prover knows nothing of `2 ^ n`, so
the hash table has its own recursive function `PowerOfTwo`; that such a function exists
is proved with `NatInductionSet` (`PowersExist`), not assumed.

The inductive invariants were checked by TLC on the instances of section 3 before
they were proved.

Only model-checked:

* the liveness properties `InsertReturns`, `EveryCallReturns` and `ScanEnds`: liveness
  under fairness is outside the provers' reach;
* `LeavesAreHalfFull` in the presence of removals: it is no invariant of `Spec` (section 5); in the
  run that checks it no leaf splits that holds a key twice. It is proved for a tree that only grows.

In `BPlusTree`, `BPlusTreePages` and `IndexIterator` loops and recursions of the code are functions of the
number of rounds (`PathTo`, and with it `Descent`, `LeftmostLeaf`, `Below`, `PartitionPoint`, `WithPairSorted`), up to as many as
can be needed, and not recursive functions on pages: such a function exists only if the tree has no
cycle, which is what is to be proved.

## 7. Not modelled

* Byte layout of pages, `GenericKey` and its comparator: keys are numbers in order.
* `DeletePage` in calls of the tree: it drops the cached copy of a page or is refused,
  and `BufferPoolClients` shows that callers do not see either. A frame shortage in the
  middle of a call: the code dereferences the null pointer; `FramesSuffice` says how
  many frames rule that out, and is proved. `MaxPages` only starts a call if it can get its pages.
* The slots of an internal page behind its size, and functions nobody calls
  (`RemoveFromParent`, the leaf's `MoveHalfTo`, `GetFirstKey`).
* Copies of iterators, which the code never makes (each would unpin in its destructor);
  an iterator that reads a leaf in the middle of an insertion, a removal or a merge,
  where pairs are being shifted, and `operator*` in the middle of any of them.
* A restart: `next_page_id_` starts at 0 again whatever is on disk, and the code has
  nothing to recover with.
* `FetchPage` of ids that were never allocated (the tree makes no such call), and
  overflow of the 32-bit page id.
* Failing or reordered disk writes, and the log: the code passes `log_manager_` and
  `Transaction *` on and never uses them.

## 8. Plan

Done, in this order: replacer and its contracts, pool, pool with clients, hash table,
tree; proofs of the replacer and of the pool; pins of the tree's calls; iterators;
proofs of LRU-K, of the pool's clients and its contract, of the hash table and its
contract; proofs of the tree's shape, its balance and the pairs in it; proofs of the growing
tree, its contract, where a scan of it begins and what the scan meets; proofs of the pins
of the tree's calls.

Further modelling that would show something new:

1. Internal pages with the slots behind their size, for `internal_max_size_ = 3`.
2. `BufferPoolParts`: the pool with `LRUKReplacer` itself and the hash table as the page
   table, to confirm the contracts by composition.
