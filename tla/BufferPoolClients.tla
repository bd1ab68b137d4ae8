-------------------------- MODULE BufferPoolClients --------------------------
(***************************************************************************)
(* The buffer pool with the callers it is written for, the threads that    *)
(* run BPlusTree and IndexIterator operations: a caller unpins exactly the *)
(* pages it holds, once each, and says "dirty" when it wrote the page.     *)
(* Calls of different callers interleave freely, and so do writes through  *)
(* the Page * of one caller with the calls of the others.                  *)
(***************************************************************************)
EXTENDS BufferPool

CONSTANT Clients

ASSUME ClientsAssumption == IsFiniteSet(Clients)

VARIABLES
  held,   \* held[c]: page id -> the frame whose Page * c got for it
  wrote   \* wrote[c]: pages c wrote since it got them

cvars == <<vars, held, wrote>>

Holders(page_id) == {c \in Clients : page_id \in DOMAIN held[c]}

ClientsInit ==
  /\ Init
  /\ held = [c \in Clients |-> <<>>]
  /\ wrote = [c \in Clients |-> {}]

\* c receives the pointer to frame f.
Receive(c, page_id, f) ==
  /\ held' = [held EXCEPT ![c] = Put(@, page_id, f)]
  /\ UNCHANGED wrote

ClientNewPage(c, f) ==
  /\ NewPgImp(f)
  /\ Receive(c, next_page_id, f)

ClientFetchHit(c, page_id) ==
  /\ c \notin Holders(page_id)
  /\ FetchHit(page_id)
  /\ Receive(c, page_id, page_table[page_id])

ClientFetchMiss(c, page_id, f) ==
  /\ c \notin Holders(page_id)
  /\ FetchMiss(page_id, f)
  /\ Receive(c, page_id, f)

\* Through the pointer: whatever page the frame holds by now.
ClientWrite(c, page_id, v) ==
  /\ c \in Holders(page_id)
  /\ Modify(held[c][page_id], v)
  /\ wrote' = [wrote EXCEPT ![c] = @ \cup {page_id}]
  /\ UNCHANGED held

\* A writer says dirty; a reader may, too.
ClientUnpin(c, page_id, is_dirty) ==
  /\ c \in Holders(page_id)
  /\ page_id \in wrote[c] => is_dirty
  /\ UnpinPgImp(page_id, is_dirty)
  /\ held' = [held EXCEPT ![c] = Erase(@, page_id)]
  /\ wrote' = [wrote EXCEPT ![c] = @ \ {page_id}]

\* FlushPage, FlushAllPages and DeletePage may be called for pages others use.
ClientFlush(page_id) == FlushPgImp(page_id) /\ UNCHANGED <<held, wrote>>
ClientFlushAll == FlushAllPgsImp /\ UNCHANGED <<held, wrote>>
ClientDelete(page_id) == DeletePgImp(page_id) /\ UNCHANGED <<held, wrote>>
ClientGetsNull == ReturnNull /\ UNCHANGED <<held, wrote>>

ClientsNext ==
  \/ ClientFlushAll
  \/ ClientGetsNull
  \/ \E c \in Clients, f \in Frames : ClientNewPage(c, f)
  \/ \E page_id \in Allocated :
       \/ ClientFlush(page_id)
       \/ ClientDelete(page_id)
       \/ \E c \in Clients :
            \/ ClientFetchHit(c, page_id)
            \/ \E f \in Frames : ClientFetchMiss(c, page_id, f)
            \/ \E v \in Values : ClientWrite(c, page_id, v)
            \/ \E is_dirty \in BOOLEAN : ClientUnpin(c, page_id, is_dirty)

ClientsSpec == ClientsInit /\ [][ClientsNext]_cvars

-----------------------------------------------------------------------------

\* The pin count of a page is the number of callers that hold it; no call of
\* another thread can bring it to zero early.  It also means a holder's unpin
\* never returns false.
PinCountIsHolders ==
  /\ \A f \in Frames : pages[f].page_id = INVALID_PAGE_ID => pages[f].pin_count = 0
  /\ \A p \in DOMAIN page_table : FrameOf(p).pin_count = Cardinality(Holders(p))

\* The Page * a caller holds still points at the page it asked for.
PointersAreValid ==
  \A c \in Clients : \A p \in DOMAIN held[c] :
    Cached(p) /\ page_table[p] = held[c][p]

\* A page that is clean and that nobody has written through a pointer since is
\* the same in memory and on disk, so dropping it loses nothing.  A flush between
\* two writes of one holder, or an unpin of a reader after a writer's, must not
\* make a modified page look clean.
CleanPagesAreOnDisk ==
  \A p \in DOMAIN page_table :
    \/ FrameOf(p).is_dirty
    \/ \E c \in Clients : p \in wrote[c]
    \/ disk[p] = FrameOf(p).data

\* A reader of page p sees the last write to p, wherever the page has been since.
Store == INSTANCE PageStore WITH
  allocated <- next_page_id,
  content <- [p \in Allocated |-> IF Cached(p) THEN FrameOf(p).data ELSE disk[p]]

\* Eviction, write-back, flushing and deletion never show in the content of a
\* page; only writes through a pointer do, and a new page starts zeroed.
ImplementsPageStore == Store!Spec

=============================================================================
