--------------------------- MODULE BPlusTreeProofs ---------------------------
(***************************************************************************)
(* With insertions and removals in any order the pages of the tree form a  *)
(* tree, whose parent pointers are right and which is balanced; nothing    *)
(* that is stored gets cut off it, and restructuring keeps every pair.     *)
(* While it only grows, its leaves are in order.  For any keys and values  *)
(* and any page sizes.                                                     *)
(***************************************************************************)
EXTENDS BPlusTree, BPlusTreePagesProofs

-----------------------------------------------------------------------------
(***************************************************************************)
(* The inductive invariant.                                                *)
(***************************************************************************)

KeyOrZero == Keys \cup {ZeroKey}
LeafPair == [key : Keys, value : Values]
ChildPair == [key : KeyOrZero, value : Nat]

LeafPage == [leaf : {TRUE}, parent : Int, next : Int, array : Seq(LeafPair)]
InternalPage == [leaf : {FALSE}, parent : Int, next : Int, array : Seq(ChildPair)]

PageOrNone == DOMAIN pages \cup {INVALID_PAGE_ID}

\* Page ids are counted; no leaf is fuller than a leaf can be; a page an array or a
\* pointer names exists.
PagesTyped ==
  /\ IsFiniteSet(DOMAIN pages)
  /\ DOMAIN pages = 1 .. Cardinality(DOMAIN pages)
  /\ \A p \in DOMAIN pages :
       /\ pages[p] \in LeafPage \cup InternalPage
       /\ pages[p].parent \in PageOrNone
       /\ pages[p].next \in PageOrNone
       /\ pages[p].leaf => Len(pages[p].array) <= LeafMax
       /\ ~pages[p].leaf => Children(pages[p].array) \subseteq DOMAIN pages

OthersTyped ==
  /\ root_page_id \in PageOrNone
  /\ header \in PageOrNone \cup {NoRecord}
  /\ todo \in Todo
  /\ result \in Values \cup BOOLEAN \cup {Absent}

Kids(store, p) == IF store[p].leaf THEN {} ELSE Children(store[p].array)

\* level[p] is how far p is above the leaves, which are all equally far down.
Levels(store, T, level) ==
  /\ T \subseteq DOMAIN store
  /\ level \in [T -> Nat]
  /\ \A p \in T : store[p].leaf <=> level[p] = 0

NodesAreSound(store, T) ==
  \A p \in T : ~store[p].leaf => store[p].array # <<>> /\ EachOnce(store[p].array)

ParentsOfKids(store, T, level) ==
  \A p \in T : \A c \in Kids(store, p) :
    c \in T /\ store[c].parent = p /\ level[p] = level[c] + 1

RootOnTop(store, root, T, level) ==
  /\ root = INVALID_PAGE_ID => T = {}
  /\ root # INVALID_PAGE_ID =>
       /\ root \in T
       /\ store[root].parent = INVALID_PAGE_ID
       /\ level[root] < Cardinality(DOMAIN store)
       /\ \A p \in T : level[p] <= level[root]

KidsOfParents(store, root, new, T) ==
  \A p \in T \ {root, new} :
    store[p].parent \in T /\ p \in Kids(store, store[p].parent)

LeavesOutsideAreEmpty(store, T) ==
  \A p \in DOMAIN store \ T : store[p].leaf => store[p].array = <<>>

\* The pages in T form a tree with its root on top; the page new, while there is one,
\* has no place in it yet.
TreeShape(store, root, new, T, level) ==
  /\ Levels(store, T, level)
  /\ NodesAreSound(store, T)
  /\ ParentsOfKids(store, T, level)
  /\ RootOnTop(store, root, T, level)
  /\ KidsOfParents(store, root, new, T)
  /\ LeavesOutsideAreEmpty(store, T)

Pending == IF todo.op = "insert" THEN todo.new ELSE INVALID_PAGE_ID

\* What the running call knows: a page that was split and its new sibling; a page
\* other than the root with too few pairs; an internal root.
CallShape(T, level) ==
  /\ todo.op = "insert" =>
       /\ {todo.old, todo.new} \subseteq T
       /\ todo.new \notin {todo.old, root_page_id}
       /\ level[todo.new] = level[todo.old]
       /\ pages[todo.new].parent = pages[todo.old].parent
       /\ \A p \in T : todo.new \notin Kids(pages, p)
  /\ todo.op = "underflow" =>
       /\ todo.page \in T \ {root_page_id}
       /\ Size(todo.page) < MinSize(todo.page)
  /\ todo.op = "adjust root" =>
       todo.page = root_page_id /\ ~pages[root_page_id].leaf

\* The pages of the tree are those in T.
SoundTree(T) ==
  /\ PagesTyped
  /\ OthersTyped
  /\ \E level :
       TreeShape(pages, root_page_id, Pending, T, level) /\ CallShape(T, level)

\* The same, with the levels.
Shaped(T, level) ==
  /\ PagesTyped
  /\ OthersTyped
  /\ TreeShape(pages, root_page_id, Pending, T, level)
  /\ CallShape(T, level)

\* A step after which the tree has at most one page more.
SoundAfter(T) == \E U : U \subseteq T \cup {NewPageId} /\ SoundTree(U)'

\* The same of a step of an insertion: a new page is a page of the tree.
GrownAfter(T) ==
  \E U : /\ U \subseteq T \cup {NewPageId}
         /\ U = T \cup (DOMAIN pages' \ DOMAIN pages)
         /\ SoundTree(U)'

IInv == \E T : SoundTree(T)

-----------------------------------------------------------------------------
(***************************************************************************)
(* Consequences.                                                           *)
(***************************************************************************)

LEMMA PageKinds ==
  ASSUME PagesTyped, NEW p \in DOMAIN pages
  PROVE  /\ p \in Nat \ {0} /\ p # INVALID_PAGE_ID
         /\ pages[p].leaf \in BOOLEAN
         /\ pages[p].leaf => pages[p] \in LeafPage /\ pages[p].array \in Seq(LeafPair)
         /\ ~pages[p].leaf => pages[p] \in InternalPage /\ pages[p].array \in Seq(ChildPair)
         /\ Size(p) \in Nat
<1>1. Cardinality(DOMAIN pages) \in Nat
  BY FS_CardinalityType DEF PagesTyped
<1>2. p \in Nat \ {0} /\ p # INVALID_PAGE_ID
  BY <1>1 DEF PagesTyped, INVALID_PAGE_ID
<1>3. pages[p] \in LeafPage \cup InternalPage
  BY DEF PagesTyped
<1>4. CASE pages[p] \in LeafPage
  <2>1. pages[p].leaf = TRUE /\ pages[p].array \in Seq(LeafPair)
    BY <1>4 DEF LeafPage
  <2>2. Size(p) \in Nat
    BY <2>1, LenProperties DEF Size
  <2> QED
    BY <1>2, <1>4, <2>1, <2>2
<1>5. CASE pages[p] \in InternalPage
  <2>1. pages[p].leaf = FALSE /\ pages[p].array \in Seq(ChildPair)
    BY <1>5 DEF InternalPage
  <2>2. Size(p) \in Nat
    BY <2>1, LenProperties DEF Size
  <2> QED
    BY <1>2, <1>5, <2>1, <2>2
<1> QED
  BY <1>3, <1>4, <1>5

\* A set of pages a descent does not leave: each has the page it goes on to, one level
\* further down.
Descends(T, level, k) ==
  /\ root_page_id \in T /\ T \subseteq DOMAIN pages /\ level \in [T -> Nat]
  /\ level[root_page_id] < Cardinality(DOMAIN pages)
  /\ \A p \in T : pages[p].leaf <=> level[p] = 0
  /\ \A p \in T : ~pages[p].leaf =>
       /\ ChildFor(pages[p].array, k) \in T
       /\ level[p] = level[ChildFor(pages[p].array, k)] + 1

LEMMA DescentEndsAtLeaf ==
  ASSUME PagesTyped, NEW T, NEW level, NEW k, Descends(T, level, k)
  PROVE  /\ FindLeafPage(k) \in T
         /\ pages[FindLeafPage(k)].leaf
         /\ DOMAIN PathTo(k) = 0 .. Cardinality(DOMAIN pages)
         /\ \A n \in DOMAIN PathTo(k) : PathTo(k)[n] \in T
<1> DEFINE n == Cardinality(DOMAIN pages)
           Step(p) == IF pages[p].leaf THEN p ELSE ChildFor(pages[p].array, k)
           g == [y \in (1 .. n) \X T |-> Step(y[2])]
           Path == CHOOSE f : f = [i \in 0 .. n |-> IF i = 0 THEN root_page_id ELSE Step(f[i - 1])]
<1>1. n \in Nat
  BY FS_CardinalityType DEF PagesTyped
<1>2. PathTo(k) = Path /\ FindLeafPage(k) = Path[n]
  BY DEF FindLeafPage, PathTo
<1>3. /\ root_page_id \in T /\ T \subseteq DOMAIN pages /\ level \in [T -> Nat]
      /\ level[root_page_id] < n
      /\ \A p \in T : pages[p].leaf <=> level[p] = 0
  BY DEF Descends
<1>4. ASSUME NEW p \in T
      PROVE  /\ Step(p) \in T
             /\ pages[p].leaf => Step(p) = p
             /\ ~pages[p].leaf => level[p] = level[Step(p)] + 1
  <2>1. CASE pages[p].leaf
    BY <2>1
  <2>2. CASE ~pages[p].leaf
    BY <2>2 DEF Descends
  <2> QED
    BY <2>1, <2>2
<1> HIDE DEF Step, n
<1>5. g \in [(1 .. n) \X T -> T]
  BY <1>4
<1>6. \A i \in 1 .. n : \A p \in T : g[<<i, p>>] = Step(p)
  OBVIOUS
<1>7. Path = CHOOSE f : f = [i \in 0 .. n |-> IF i = 0 THEN root_page_id ELSE Step(f[i - 1])]
  OBVIOUS
<1> HIDE DEF g, Path
<1>8. PICK h : Course(h, T, root_page_id, n, g)
  BY <1>1, <1>3, <1>5, CourseExists
<1>9. \A i \in 1 .. n : h[i] = Step(h[i - 1])
  <2> TAKE i \in 1 .. n
  <2>1. i - 1 \in 0 .. n
    BY <1>1
  <2>2. h[i - 1] \in T
    BY <1>8, <2>1 DEF Course
  <2> QED
    BY <1>6, <1>8, <2>2 DEF Course
<1>10. Path = [i \in 0 .. n |-> IF i = 0 THEN root_page_id ELSE Step(Path[i - 1])]
  <2>1. h = [i \in 0 .. n |-> IF i = 0 THEN root_page_id ELSE Step(h[i - 1])]
    BY <1>8, <1>9 DEF Course
  <2> QED
    BY <1>7, <2>1
<1>11. Path[0] = root_page_id /\ \A i \in 1 .. n : Path[i] = Step(Path[i - 1])
  BY <1>1, <1>10
<1> DEFINE Good == {i \in 0 .. n :
                      /\ Path[i] \in T
                      /\ level[Path[i]] = 0 \/ level[Path[i]] + i <= level[root_page_id]}
           id == [i \in 0 .. n |-> i]
<1>12. id[0] \in Good
  BY <1>1, <1>3, <1>11
<1>13. \A i \in 1 .. n : id[i - 1] \in Good => id[i] \in Good
  <2> SUFFICES ASSUME NEW i \in 1 .. n, id[i - 1] \in Good
               PROVE  id[i] \in Good
    OBVIOUS
  <2> DEFINE p == Path[i - 1]
  <2>1. i - 1 \in 0 .. n /\ id[i - 1] = i - 1
    BY <1>1
  <2>2. p \in T /\ (level[p] = 0 \/ level[p] + (i - 1) <= level[root_page_id])
    BY <2>1
  <2>3. Path[i] = Step(p)
    BY <1>11
  <2> HIDE DEF p
  <2>4. Step(p) \in T
    BY <1>4, <2>2
  <2>5. level[p] \in Nat /\ level[Step(p)] \in Nat /\ level[root_page_id] \in Nat
    BY <1>3, <2>2, <2>4
  <2>6. CASE pages[p].leaf
    <3>1. level[Step(p)] = 0
      BY <1>3, <1>4, <2>2, <2>6
    <3> QED
      BY <1>1, <2>3, <2>4, <3>1
  <2>7. CASE ~pages[p].leaf
    <3>1. level[p] = level[Step(p)] + 1
      BY <1>4, <2>2, <2>7
    <3>2. level[Step(p)] + i <= level[root_page_id]
      BY <1>1, <2>2, <2>5, <3>1
    <3> QED
      BY <1>1, <2>3, <2>4, <3>2
  <2> QED
    BY <2>6, <2>7
<1>14. \A i \in 0 .. n : id[i] \in Good
  <2> HIDE DEF id, Good
  <2> QED
    BY <1>1, <1>12, <1>13, UpToInduction
<1>15. Path[n] \in T /\ (level[Path[n]] = 0 \/ level[Path[n]] + n <= level[root_page_id])
  <2>1. n \in 0 .. n /\ id[n] = n
    BY <1>1
  <2> QED
    BY <1>14, <2>1
<1>16. level[Path[n]] = 0
  <2>1. level[Path[n]] \in Nat /\ level[root_page_id] \in Nat /\ level[root_page_id] < n
    BY <1>3, <1>15
  <2> QED
    BY <1>1, <1>15, <2>1
<1>17. DOMAIN Path = 0 .. n /\ \A i \in 0 .. n : Path[i] \in T
  <2>1. \A i \in 0 .. n : Path[i] \in T
    BY <1>14 DEF Good
  <2>2. DOMAIN Path = 0 .. n
    BY <1>10
  <2> QED
    BY <2>1, <2>2
<1>18. n = Cardinality(DOMAIN pages)
  BY DEF n
<1> QED
  BY <1>2, <1>3, <1>15, <1>16, <1>17, <1>18

\* The descent ends at a leaf of the tree.
LEMMA DescentReachesLeaf ==
  ASSUME PagesTyped, NEW T, NEW level, NEW new,
         TreeShape(pages, root_page_id, new, T, level), ~IsEmpty, NEW k
  PROVE  /\ FindLeafPage(k) \in T
         /\ pages[FindLeafPage(k)].leaf
         /\ DOMAIN PathTo(k) = 0 .. Cardinality(DOMAIN pages)
         /\ \A n \in DOMAIN PathTo(k) : PathTo(k)[n] \in T
<1>1. /\ root_page_id \in T /\ T \subseteq DOMAIN pages /\ level \in [T -> Nat]
      /\ level[root_page_id] < Cardinality(DOMAIN pages)
      /\ \A p \in T : pages[p].leaf <=> level[p] = 0
  BY DEF TreeShape, Levels, RootOnTop, IsEmpty
<1>2. ASSUME NEW p \in T, ~pages[p].leaf
      PROVE  /\ ChildFor(pages[p].array, k) \in T
             /\ level[p] = level[ChildFor(pages[p].array, k)] + 1
  <2>1. pages[p].array \in Seq(ChildPair) /\ pages[p].array # <<>>
    BY <1>1, <1>2, PageKinds DEF TreeShape, NodesAreSound
  <2>2. ChildFor(pages[p].array, k) \in Kids(pages, p)
    BY <1>2, <2>1, ChildForIsChild DEF Kids
  <2> QED
    BY <2>2 DEF TreeShape, ParentsOfKids
<1>3. Descends(T, level, k)
  BY <1>1, <1>2 DEF Descends
<1> QED
  BY <1>3, DescentEndsAtLeaf

LEMMA NewPage ==
  ASSUME PagesTyped, NEW D, D = DOMAIN pages \cup {NewPageId}
  PROVE  /\ NewPageId \in Nat \ {0} /\ NewPageId # INVALID_PAGE_ID
         /\ NewPageId \notin DOMAIN pages
         /\ IsFiniteSet(D)
         /\ Cardinality(D) = Cardinality(DOMAIN pages) + 1
         /\ D = 1 .. Cardinality(D)
<1> DEFINE n == Cardinality(DOMAIN pages)
<1>1. n \in Nat
  BY FS_CardinalityType DEF PagesTyped
<1>2. DOMAIN pages = 1 .. n /\ NewPageId = n + 1
  BY DEF PagesTyped, NewPageId
<1>3. NewPageId \notin DOMAIN pages
  BY <1>1, <1>2
<1>4. IsFiniteSet(D) /\ Cardinality(D) = n + 1
  BY <1>3, FS_AddElement DEF PagesTyped
<1>5. n = Cardinality(DOMAIN pages)
  OBVIOUS
<1> HIDE DEF n
<1>6. D = 1 .. n + 1
  BY <1>1, <1>2
<1>7. NewPageId \in Nat \ {0} /\ NewPageId # INVALID_PAGE_ID
  BY <1>1, <1>2 DEF INVALID_PAGE_ID
<1> QED
  BY <1>3, <1>4, <1>5, <1>6, <1>7

\* Changing what a leaf of the tree holds leaves the tree as it is.
LEMMA LeafChange ==
  ASSUME PagesTyped, NEW T, NEW level, NEW root, NEW new,
         TreeShape(pages, root, new, T, level),
         NEW leaf \in T, pages[leaf].leaf,
         NEW array \in Seq(LeafPair), Len(array) <= LeafMax,
         pages' = [pages EXCEPT ![leaf].array = array]
  PROVE  /\ PagesTyped'
         /\ TreeShape(pages', root, new, T, level)
         /\ DOMAIN pages' = DOMAIN pages
         /\ pages'[leaf].array = array
         /\ \A p \in DOMAIN pages : /\ pages'[p].leaf = pages[p].leaf
                                    /\ pages'[p].parent = pages[p].parent
                                    /\ Kids(pages', p) = Kids(pages, p)
<1>1. leaf \in DOMAIN pages
  BY DEF TreeShape, Levels
<1>2. DOMAIN pages' = DOMAIN pages
  OBVIOUS
<1>3. \A p \in DOMAIN pages : p # leaf => pages'[p] = pages[p]
  OBVIOUS
<1>4. pages'[leaf] = [pages[leaf] EXCEPT !.array = array]
  BY <1>1
<1>5. pages[leaf] \in LeafPage
  BY <1>1, PageKinds
<1>6. /\ pages'[leaf] \in LeafPage
      /\ pages'[leaf].leaf
      /\ pages'[leaf].parent = pages[leaf].parent
      /\ pages'[leaf].next = pages[leaf].next
      /\ pages'[leaf].array = array
  BY ZenonT(40), <1>4, <1>5 DEF LeafPage
<1>7. \A p \in DOMAIN pages : /\ pages'[p].leaf = pages[p].leaf
                              /\ pages'[p].parent = pages[p].parent
                              /\ pages'[p].next = pages[p].next
                              /\ p # leaf => pages'[p].array = pages[p].array
                              /\ Kids(pages', p) = Kids(pages, p)
  BY <1>3, <1>6 DEF Kids, LeafPage
<1>8. PagesTyped'
  BY <1>2, <1>3, <1>6, <1>7 DEF PagesTyped, PageOrNone
<1>9. TreeShape(pages', root, new, T, level)
  <2>1. T \subseteq DOMAIN pages
    BY DEF TreeShape, Levels
  <2>2. Levels(pages', T, level)
    BY <1>2, <1>7 DEF TreeShape, Levels
  <2>3. NodesAreSound(pages', T)
    BY <1>7, <2>1 DEF TreeShape, NodesAreSound
  <2>4. ParentsOfKids(pages', T, level)
    BY <1>7, <2>1 DEF TreeShape, ParentsOfKids
  <2>5. RootOnTop(pages', root, T, level)
    BY <1>2, <1>7, <2>1 DEF TreeShape, RootOnTop
  <2>6. KidsOfParents(pages', root, new, T)
    <3> SUFFICES ASSUME NEW p \in T \ {root, new}
                 PROVE  pages'[p].parent \in T /\ p \in Kids(pages', pages'[p].parent)
      BY DEF KidsOfParents
    <3>1. pages[p].parent \in T /\ p \in Kids(pages, pages[p].parent)
      BY DEF TreeShape, KidsOfParents
    <3>2. pages'[p].parent = pages[p].parent
      BY <1>7, <2>1
    <3>3. Kids(pages', pages[p].parent) = Kids(pages, pages[p].parent)
      BY <1>7, <2>1, <3>1
    <3> QED
      BY <3>1, <3>2, <3>3
  <2>7. LeavesOutsideAreEmpty(pages', T)
    BY <1>2, <1>3 DEF TreeShape, LeavesOutsideAreEmpty
  <2> QED
    BY <2>2, <2>3, <2>4, <2>5, <2>6, <2>7 DEF TreeShape
<1> QED
  BY <1>2, <1>6, <1>7, <1>8, <1>9

\* The leaf the descent ends at, as the actions find it.
LEMMA FoundLeaf ==
  ASSUME PagesTyped, NEW T, NEW level, NEW new,
         TreeShape(pages, root_page_id, new, T, level), ~IsEmpty, NEW k
  PROVE  /\ FindLeafPage(k) \in T
         /\ FindLeafPage(k) \in DOMAIN pages
         /\ pages[FindLeafPage(k)].leaf
         /\ pages[FindLeafPage(k)].array \in Seq(LeafPair)
         /\ Size(FindLeafPage(k)) \in Nat
<1>1. FindLeafPage(k) \in T /\ pages[FindLeafPage(k)].leaf
  BY DescentReachesLeaf
<1>2. FindLeafPage(k) \in DOMAIN pages
  BY <1>1 DEF TreeShape, Levels
<1> QED
  BY <1>1, <1>2, PageKinds

\* In the tree exactly the root has no parent.
LEMMA OnlyRootHasNoParent ==
  ASSUME PagesTyped, NEW T, NEW level, NEW new,
         TreeShape(pages, root_page_id, new, T, level), NEW p \in T, p # new
  PROVE  /\ IsRootPage(p) <=> p = root_page_id
         /\ root_page_id # INVALID_PAGE_ID
<1>1. T \subseteq DOMAIN pages /\ INVALID_PAGE_ID \notin DOMAIN pages
  BY PageKinds DEF TreeShape, Levels
<1>2. root_page_id # INVALID_PAGE_ID
  BY DEF TreeShape, RootOnTop
<1>3. p = root_page_id => pages[p].parent = INVALID_PAGE_ID
  BY <1>2 DEF TreeShape, RootOnTop
<1>4. p # root_page_id => pages[p].parent \in T
  BY DEF TreeShape, KidsOfParents
<1> QED
  BY <1>1, <1>2, <1>3, <1>4 DEF IsRootPage

\* When the root is a leaf it is the whole tree.
LEMMA LeafAlone ==
  ASSUME PagesTyped, NEW T, NEW level,
         TreeShape(pages, root_page_id, INVALID_PAGE_ID, T, level),
         root_page_id \in T, pages[root_page_id].leaf
  PROVE  T = {root_page_id}
<1> SUFFICES ASSUME NEW p \in T, p # root_page_id
             PROVE  FALSE
  OBVIOUS
<1>1. T \subseteq DOMAIN pages /\ level \in [T -> Nat] /\ level[root_page_id] = 0
  BY DEF TreeShape, Levels
<1>2. p # INVALID_PAGE_ID /\ root_page_id # INVALID_PAGE_ID
  BY <1>1, PageKinds
<1> DEFINE q == pages[p].parent
<1>3. q \in T /\ p \in Kids(pages, q)
  BY <1>2 DEF TreeShape, KidsOfParents
<1>4. level[q] = level[p] + 1 /\ level[q] <= level[root_page_id]
  BY <1>2, <1>3 DEF TreeShape, ParentsOfKids, RootOnTop
<1> HIDE DEF q
<1>5. level[q] \in Nat /\ level[p] \in Nat
  BY <1>1, <1>3
<1> QED
  BY <1>1, <1>4, <1>5

\* Between calls nothing is known of one.
LEMMA QuietCall ==
  ASSUME NEW T, NEW level, todo = Idle
  PROVE  CallShape(T, level) /\ Pending = INVALID_PAGE_ID /\ todo \in Todo
<1>1. todo.op = "idle"
  BY DEF Idle
<1>2. todo \in Todo
  BY DEF Todo
<1> QED
  BY <1>1, <1>2 DEF CallShape, Pending

\* The pairs of a leaf of the tree.
LEMMA LeafArrays ==
  ASSUME PagesTyped, NEW k \in Keys, NEW v \in Values
  PROVE  /\ Pair(k, v) \in LeafPair
         /\ \A pair \in LeafPair : pair = Pair(pair.key, pair.value)
BY DEF Pair, LeafPair

LEMMA QuietAfter ==
  ASSUME NEW T, NEW level, todo' = Idle
  PROVE  CallShape(T, level)' /\ Pending' = INVALID_PAGE_ID /\ todo' \in Todo'
<1>1. todo'.op = "idle"
  BY DEF Idle
<1>2. todo' \in Todo'
  BY DEF Todo
<1> QED
  BY <1>1, <1>2 DEF CallShape, Pending

-----------------------------------------------------------------------------
(***************************************************************************)
(* Every action keeps the invariant.                                       *)
(***************************************************************************)

LEMMA InitIInv == Init => IInv
<1> SUFFICES ASSUME Init
             PROVE  IInv
  OBVIOUS
<1>1. DOMAIN pages = {}
  BY DEF Init
<1>2. IsFiniteSet(DOMAIN pages) /\ Cardinality(DOMAIN pages) = 0
  BY <1>1, FS_EmptySet
<1>3. PagesTyped
  BY <1>1, <1>2 DEF PagesTyped
<1>4. OthersTyped
  BY QuietCall DEF Init, OthersTyped, PageOrNone
<1>5. TreeShape(pages, root_page_id, Pending, {}, [p \in {} |-> 0])
  BY <1>1 DEF Init, TreeShape, Levels, NodesAreSound, ParentsOfKids, RootOnTop,
              KidsOfParents, LeavesOutsideAreEmpty
<1>6. CallShape({}, [p \in {} |-> 0])
  BY QuietCall DEF Init
<1> QED
  BY <1>3, <1>4, <1>5, <1>6 DEF IInv, SoundTree

LEMMA GetValueKeepsSound ==
  ASSUME NEW T, SoundTree(T), NEW k \in Keys, GetValue(k) \/ InsertRefused(k)
  PROVE  GrownAfter(T)
<1>1. UNCHANGED <<pages, root_page_id, header, todo>>
  BY DEF GetValue, InsertRefused
<1>2. PagesTyped'
  BY <1>1 DEF SoundTree, PagesTyped, PageOrNone, Children
<1>3. ASSUME NEW level
      PROVE  /\ TreeShape(pages, root_page_id, Pending, T, level)'
                  = TreeShape(pages, root_page_id, Pending, T, level)
             /\ CallShape(T, level)' = CallShape(T, level)
  BY <1>1 DEF TreeShape, Levels, NodesAreSound, ParentsOfKids, RootOnTop, KidsOfParents,
              LeavesOutsideAreEmpty, Kids, Pending, CallShape, Size, MinSize, MaxSize
<1>4. OthersTyped'
  <2>1. result' \in Values \cup BOOLEAN \cup {Absent}
    <3>1. CASE InsertRefused(k)
      BY <3>1 DEF InsertRefused
    <3>2. CASE GetValue(k) /\ ~Found(k)
      BY <3>2 DEF GetValue
    <3>3. CASE GetValue(k) /\ Found(k)
      <4> DEFINE leaf == FindLeafPage(k)
                 at == LowerBound(pages[leaf].array, k)
      <4>1. PagesTyped /\ ~IsEmpty
        BY <3>3 DEF SoundTree, Found
      <4>2. leaf \in DOMAIN pages /\ pages[leaf].leaf
        BY <4>1, DescentReachesLeaf DEF SoundTree, TreeShape, Levels
      <4>3. pages[leaf].array \in Seq(LeafPair) /\ Holds(pages[leaf].array, k)
        BY <3>3, <4>1, <4>2, PageKinds DEF Found
      <4>4. at \in 1 .. Len(pages[leaf].array)
        BY <4>3, HeldPair
      <4>5. result' = pages[leaf].array[at].value
        BY <3>3 DEF GetValue, ValueOf
      <4> HIDE DEF leaf, at
      <4>6. pages[leaf].array[at] \in LeafPair
        BY <4>3, <4>4, ElementOfSeq
      <4> QED
        BY <4>5, <4>6 DEF LeafPair
    <3> QED
      BY <3>1, <3>2, <3>3
  <2>2. /\ DOMAIN pages' = DOMAIN pages /\ PageOrNone' = PageOrNone
        /\ Todo' = Todo
    BY <1>1 DEF PageOrNone, Todo
  <2> QED
    BY <1>1, <2>1, <2>2 DEF SoundTree, OthersTyped
<1>5. SoundTree(T)'
  BY <1>2, <1>3, <1>4 DEF SoundTree
<1>6. T \subseteq T \cup {NewPageId} /\ T = T \cup (DOMAIN pages' \ DOMAIN pages)
  BY <1>1
<1> QED
  BY <1>5, <1>6 DEF GrownAfter

\* What is known of the variables besides pages.
LEMMA OthersKept ==
  ASSUME OthersTyped, DOMAIN pages \subseteq DOMAIN pages',
         root_page_id' \in DOMAIN pages' \cup {INVALID_PAGE_ID},
         \/ UNCHANGED header
         \/ header' \in {root_page_id', header},
         todo' \in Todo',
         result' \in Values \cup BOOLEAN \cup {Absent}
  PROVE  OthersTyped'
BY DEF OthersTyped, PageOrNone

LEMMA InsertIntoLeafKeepsSound ==
  ASSUME NEW T, SoundTree(T), NEW k \in Keys, NEW v \in Values, InsertIntoLeaf(k, v)
  PROVE  GrownAfter(T)
<1> DEFINE leaf == FindLeafPage(k)
           array == LeafInsert(pages[leaf].array, k, v)
<1>1. /\ todo = Idle /\ ~IsEmpty
      /\ Size(leaf) < LeafMax
      /\ pages' = [pages EXCEPT ![leaf].array = array]
      /\ result' = TRUE
      /\ UNCHANGED <<root_page_id, header, todo>>
  BY DEF InsertIntoLeaf
<1>2. PagesTyped /\ OthersTyped
  BY DEF SoundTree
<1>3. PICK level : TreeShape(pages, root_page_id, Pending, T, level)
  BY DEF SoundTree
<1>4. /\ leaf \in T /\ pages[leaf].leaf
      /\ pages[leaf].array \in Seq(LeafPair) /\ Size(leaf) \in Nat
  BY <1>1, <1>2, <1>3, FoundLeaf
<1>5. array \in Seq(LeafPair) /\ Len(array) = Size(leaf) + 1
  <2>1. Pair(k, v) \in LeafPair
    BY <1>2, LeafArrays
  <2>2. Size(leaf) = Len(pages[leaf].array)
    BY DEF Size
  <2> HIDE DEF leaf
  <2> QED
    BY <1>4, <2>1, <2>2, LeafInsertPositions
<1> HIDE DEF leaf, array
<1>6. Len(array) <= LeafMax
  BY <1>1, <1>4, <1>5, SizesAssumption
<1>7. /\ PagesTyped'
      /\ TreeShape(pages', root_page_id, Pending, T, level)
      /\ DOMAIN pages' = DOMAIN pages
  BY <1>1, <1>2, <1>3, <1>4, <1>5, <1>6, LeafChange
<1>8. /\ CallShape(T, level)'
      /\ Pending = INVALID_PAGE_ID /\ Pending' = INVALID_PAGE_ID
      /\ todo' \in Todo'
  BY <1>1, QuietCall, QuietAfter
<1>9. OthersTyped'
  BY <1>1, <1>2, <1>7, <1>8, OthersKept DEF OthersTyped, PageOrNone
<1>10. TreeShape(pages', root_page_id', Pending', T, level)
  BY <1>1, <1>7, <1>8
<1>11. SoundTree(T)'
  BY <1>7, <1>8, <1>9, <1>10 DEF SoundTree
<1>12. T \subseteq T \cup {NewPageId} /\ T = T \cup (DOMAIN pages' \ DOMAIN pages)
  BY <1>7
<1> QED
  BY <1>11, <1>12 DEF GrownAfter

\* A page is added, and the others keep to their kinds.
LEMMA PageAdded ==
  ASSUME PagesTyped, DOMAIN pages' = DOMAIN pages \cup {NewPageId},
         \A p \in DOMAIN pages' :
           /\ pages'[p] \in LeafPage \cup InternalPage
           /\ pages'[p].parent \in DOMAIN pages' \cup {INVALID_PAGE_ID}
           /\ pages'[p].next \in DOMAIN pages' \cup {INVALID_PAGE_ID}
           /\ pages'[p].leaf => Len(pages'[p].array) <= LeafMax
           /\ ~pages'[p].leaf => Children(pages'[p].array) \subseteq DOMAIN pages'
  PROVE  PagesTyped'
<1> DEFINE D == DOMAIN pages'
<1>1. IsFiniteSet(D) /\ D = 1 .. Cardinality(D)
  <2>1. D = DOMAIN pages \cup {NewPageId}
    OBVIOUS
  <2> HIDE DEF D
  <2> QED
    BY <2>1, NewPage
<1> QED
  BY <1>1 DEF PagesTyped, PageOrNone

LEMMA StartNewTreeKeepsSound ==
  ASSUME NEW T, SoundTree(T), NEW k \in Keys, NEW v \in Values, StartNewTree(k, v)
  PROVE  GrownAfter(T)
<1>0. PICK new, page : /\ new = NewPageId
                       /\ page = Leaf(INVALID_PAGE_ID, INVALID_PAGE_ID, <<Pair(k, v)>>)
  OBVIOUS
<1> DEFINE T2 == {new}
           level2 == [p \in T2 |-> 0]
<1>1. /\ todo = Idle /\ IsEmpty
      /\ pages' = Put(pages, new, page)
      /\ root_page_id' = new /\ header' \in {new, header}
      /\ result' = TRUE /\ UNCHANGED todo
  BY <1>0 DEF StartNewTree, InsertRecord
<1>2. PagesTyped /\ OthersTyped
  BY DEF SoundTree
<1>3. PICK level : TreeShape(pages, root_page_id, Pending, T, level)
  BY DEF SoundTree
<1>4. T = {} /\ \A p \in DOMAIN pages : pages[p].leaf => pages[p].array = <<>>
  BY <1>1, <1>3 DEF TreeShape, RootOnTop, IsEmpty, LeavesOutsideAreEmpty
<1>5. /\ new \in Nat \ {0} /\ new # INVALID_PAGE_ID /\ new \notin DOMAIN pages
  BY <1>0, <1>2, NewPage
<1>6. /\ DOMAIN pages' = DOMAIN pages \cup {new}
      /\ pages'[new] = page
      /\ \A p \in DOMAIN pages : pages'[p] = pages[p]
  BY <1>1, <1>5 DEF Put
<1>7. /\ page \in LeafPage /\ page.leaf = TRUE
      /\ page.parent = INVALID_PAGE_ID /\ page.next = INVALID_PAGE_ID
      /\ Len(page.array) = 1
  <2>1. Pair(k, v) \in LeafPair
    BY <1>2, LeafArrays
  <2>2. <<Pair(k, v)>> \in Seq(LeafPair) /\ Len(<<Pair(k, v)>>) = 1
    BY <2>1
  <2> QED
    BY <1>0, <2>2 DEF LeafPage, Leaf, INVALID_PAGE_ID
<1>8. PagesTyped'
  <2>1. ASSUME NEW p \in DOMAIN pages'
        PROVE  /\ pages'[p] \in LeafPage \cup InternalPage
               /\ pages'[p].parent \in DOMAIN pages' \cup {INVALID_PAGE_ID}
               /\ pages'[p].next \in DOMAIN pages' \cup {INVALID_PAGE_ID}
               /\ pages'[p].leaf => Len(pages'[p].array) <= LeafMax
               /\ ~pages'[p].leaf => Children(pages'[p].array) \subseteq DOMAIN pages'
    <3>1. CASE p = new
      <4>1. 1 <= LeafMax
        BY SizesAssumption
      <4> QED
        BY <1>6, <1>7, <3>1, <4>1
    <3>2. CASE p \in DOMAIN pages
      BY <1>2, <1>6, <3>2 DEF PagesTyped, PageOrNone
    <3> QED
      BY <1>6, <3>1, <3>2
  <2>2. DOMAIN pages' = DOMAIN pages \cup {NewPageId}
    BY <1>0, <1>6
  <2> QED
    BY <1>2, <2>1, <2>2, PageAdded
<1>9. TreeShape(pages', new, INVALID_PAGE_ID, T2, level2)
  <2>1. Cardinality(DOMAIN pages') > 0
    <3>1. Cardinality(DOMAIN pages') = Cardinality(DOMAIN pages) + 1
      BY <1>0, <1>2, <1>6, NewPage
    <3>2. Cardinality(DOMAIN pages) \in Nat
      BY <1>2, FS_CardinalityType DEF PagesTyped
    <3> QED
      BY <3>1, <3>2
  <2>2. pages'[new].leaf = TRUE /\ pages'[new].parent = INVALID_PAGE_ID
    BY <1>6, <1>7
  <2>3. Kids(pages', new) = {}
    BY <2>2 DEF Kids
  <2>4. level2 \in [T2 -> Nat] /\ level2[new] = 0
    OBVIOUS
  <2>5. Levels(pages', T2, level2)
    BY <1>6, <2>2, <2>4 DEF Levels
  <2>6. NodesAreSound(pages', T2) /\ ParentsOfKids(pages', T2, level2)
    BY <2>2, <2>3 DEF NodesAreSound, ParentsOfKids
  <2>7. RootOnTop(pages', new, T2, level2)
    BY <1>5, <2>1, <2>2, <2>4 DEF RootOnTop
  <2>8. KidsOfParents(pages', new, INVALID_PAGE_ID, T2)
    BY DEF KidsOfParents
  <2>9. LeavesOutsideAreEmpty(pages', T2)
    BY <1>4, <1>6 DEF LeavesOutsideAreEmpty
  <2> QED
    BY <2>5, <2>6, <2>7, <2>8, <2>9 DEF TreeShape
<1>10. /\ CallShape(T2, level2)'
       /\ Pending' = INVALID_PAGE_ID
       /\ todo' \in Todo'
  BY <1>1, QuietAfter
<1>13. T2 \subseteq T \cup {NewPageId} /\ T2 = T \cup (DOMAIN pages' \ DOMAIN pages)
  BY <1>0, <1>4, <1>5, <1>6
<1> HIDE DEF T2, level2
<1>11. OthersTyped'
  BY <1>1, <1>2, <1>6, <1>10, OthersKept
<1>12. TreeShape(pages', root_page_id', Pending', T2, level2)
  BY <1>1, <1>9, <1>10
<1>14. SoundTree(T2)'
  BY <1>8, <1>10, <1>11, <1>12 DEF SoundTree
<1> QED
  BY <1>13, <1>14 DEF GrownAfter

LEMMA RemoveFromLeafKeepsSound ==
  ASSUME NEW T, SoundTree(T), NEW k \in Keys, RemoveFromLeaf(k)
  PROVE  SoundAfter(T)
<1>0. PICK leaf, array : leaf = FindLeafPage(k) /\ array = LeafRemove(pages[leaf].array, k)
  OBVIOUS
<1>1. /\ todo = Idle /\ ~IsEmpty /\ Holds(pages[leaf].array, k)
      /\ pages' = [pages EXCEPT ![leaf].array = array]
      /\ result' = result
  BY <1>0 DEF RemoveFromLeaf, Found
<1>2. PagesTyped /\ OthersTyped
  BY DEF SoundTree
<1>3. PICK level : TreeShape(pages, root_page_id, Pending, T, level)
  BY DEF SoundTree
<1>4. Pending = INVALID_PAGE_ID
  BY <1>1, QuietCall
<1>5. /\ leaf \in T /\ leaf \in DOMAIN pages /\ pages[leaf].leaf
      /\ pages[leaf].array \in Seq(LeafPair) /\ Size(leaf) \in Nat
  BY <1>1, <1>2, <1>3, <1>0, FoundLeaf
<1>6. Size(leaf) = Len(pages[leaf].array)
  BY DEF Size
<1>7. array \in Seq(LeafPair) /\ Len(array) = Size(leaf) - 1
  BY <1>0, <1>1, <1>5, <1>6, LeafRemovePositions
<1>8. \/ /\ leaf = root_page_id /\ Size(leaf) = 1
         /\ root_page_id' = INVALID_PAGE_ID /\ header' \in {root_page_id', header}
         /\ todo' = Idle
      \/ /\ leaf = root_page_id
         /\ UNCHANGED <<root_page_id, header>>
         /\ todo' = Idle
      \/ /\ leaf # root_page_id
         /\ UNCHANGED <<root_page_id, header>>
         /\ \/ todo' = Idle
            \/ /\ todo' = [op |-> "underflow", page |-> leaf]
               /\ Size(leaf) - 1 < MinSize(leaf)
  <2>1. IsRootPage(leaf) <=> leaf = root_page_id
    <3>1. leaf # INVALID_PAGE_ID
      BY <1>2, <1>5, PageKinds
    <3> QED
      BY <1>2, <1>3, <1>4, <1>5, <3>1, OnlyRootHasNoParent
  <2>2. leaf \in T /\ Size(leaf) \in Nat /\ MinSize(leaf) \in Int
    <3>1. MaxSize(leaf) \in Nat
      BY <1>5, SizesAssumption DEF MaxSize
    <3> QED
      BY <1>5, <3>1 DEF MinSize
  <2>3. CASE leaf = root_page_id /\ Size(leaf) = 1
    <3>1. SetRoot(INVALID_PAGE_ID) /\ UNCHANGED todo
      BY <1>0, <2>1, <2>3 DEF RemoveFromLeaf
    <3> QED
      BY <1>1, <2>3, <3>1 DEF SetRoot, UpdateRecord
  <2>4. CASE leaf = root_page_id /\ Size(leaf) # 1
    BY <1>0, <1>1, <2>1, <2>4 DEF RemoveFromLeaf
  <2>5. CASE leaf # root_page_id
    <3>1. /\ todo' = IF Underflows(leaf) THEN [op |-> "underflow", page |-> leaf] ELSE Idle
          /\ UNCHANGED <<root_page_id, header>>
      BY <1>0, <2>1, <2>5 DEF RemoveFromLeaf
    <3>2. Underflows(leaf) => Size(leaf) - 1 < MinSize(leaf)
      BY DEF Underflows
    <3>3. \/ todo' = Idle
          \/ /\ todo' = [op |-> "underflow", page |-> leaf]
             /\ Size(leaf) - 1 < MinSize(leaf)
      BY <3>1, <3>2, Zenon
    <3>4. UNCHANGED <<root_page_id, header>>
      BY <3>1
    <3> QED
      BY <2>5, <3>3, <3>4
  <2> QED
    BY <2>3, <2>4, <2>5
<1>9. Len(array) <= LeafMax
  BY <1>2, <1>5, <1>6, <1>7, SizesAssumption DEF PagesTyped
<1>10. /\ PagesTyped'
       /\ TreeShape(pages', root_page_id, INVALID_PAGE_ID, T, level)
       /\ DOMAIN pages' = DOMAIN pages
       /\ pages'[leaf].leaf = pages[leaf].leaf
  BY <1>1, <1>2, <1>3, <1>4, <1>5, <1>7, <1>9, LeafChange
<1>11. pages'[leaf].array = array
  BY <1>1, <1>2, <1>3, <1>4, <1>5, <1>7, <1>9, LeafChange
<1>12. result' \in Values \cup BOOLEAN \cup {Absent}
  BY <1>1, <1>2 DEF OthersTyped
<1>13. CASE leaf = root_page_id /\ Size(leaf) = 1
            /\ root_page_id' = INVALID_PAGE_ID /\ header' \in {root_page_id', header}
            /\ todo' = Idle
  <2> DEFINE level2 == [p \in {} |-> 0]
  <2>1. T = {leaf}
    BY <1>2, <1>3, <1>4, <1>5, <1>13, LeafAlone
  <2>2. array = <<>>
    BY <1>7, <1>13, EmptySeq
  <2>3. LeavesOutsideAreEmpty(pages', {})
    BY <1>10, <1>11, <2>1, <2>2 DEF TreeShape, LeavesOutsideAreEmpty
  <2>4. TreeShape(pages', INVALID_PAGE_ID, INVALID_PAGE_ID, {}, level2)
    BY <2>3 DEF TreeShape, Levels, NodesAreSound, ParentsOfKids, RootOnTop, KidsOfParents
  <2>5. /\ CallShape({}, level2)'
        /\ Pending' = INVALID_PAGE_ID
        /\ todo' \in Todo'
    BY <1>13, QuietAfter
  <2>6. OthersTyped'
    BY <1>2, <1>10, <1>12, <1>13, <2>5, OthersKept
  <2> HIDE DEF level2
  <2>7. TreeShape(pages', root_page_id', Pending', {}, level2)
    BY <1>13, <2>4, <2>5
  <2> QED
    BY <1>10, <2>5, <2>6, <2>7 DEF SoundTree, SoundAfter
<1>14. CASE UNCHANGED <<root_page_id, header>> /\ todo' = Idle
  <2>1. /\ CallShape(T, level)'
        /\ Pending' = INVALID_PAGE_ID
        /\ todo' \in Todo'
    BY <1>14, QuietAfter
  <2>2. OthersTyped'
    BY <1>2, <1>10, <1>12, <1>14, <2>1, OthersKept DEF OthersTyped, PageOrNone
  <2>3. TreeShape(pages', root_page_id', Pending', T, level)
    BY <1>10, <1>14, <2>1
  <2> QED
    BY <1>10, <2>1, <2>2, <2>3 DEF SoundTree, SoundAfter
<1>15. CASE /\ UNCHANGED <<root_page_id, header>> /\ leaf # root_page_id
            /\ todo' = [op |-> "underflow", page |-> leaf] /\ Size(leaf) - 1 < MinSize(leaf)
  <2>1. /\ todo'.op = "underflow" /\ todo'.page = leaf
        /\ Pending' = INVALID_PAGE_ID
    BY <1>15 DEF Pending
  <2>2. todo' \in Todo'
    BY <1>5, <1>10, <1>15 DEF Todo
  <2>3. Size(leaf)' < MinSize(leaf)'
    <3>1. Size(leaf)' = Size(leaf) - 1
      BY <1>7, <1>11 DEF Size
    <3>2. MinSize(leaf)' = MinSize(leaf)
      BY <1>10 DEF MinSize, MaxSize
    <3> QED
      BY <1>15, <3>1, <3>2
  <2>4. CallShape(T, level)'
    BY <1>5, <1>15, <2>1, <2>3 DEF CallShape, Size, MinSize, MaxSize
  <2>5. OthersTyped'
    BY <1>2, <1>10, <1>12, <1>15, <2>2, OthersKept DEF OthersTyped, PageOrNone
  <2>6. TreeShape(pages', root_page_id', Pending', T, level)
    BY <1>10, <1>15, <2>1
  <2> QED
    BY <1>10, <2>4, <2>5, <2>6 DEF SoundTree, SoundAfter
<1> QED
  BY <1>8, <1>13, <1>14, <1>15

\* Telling pages their parent changes nothing else in them.
LEMMA Reparented ==
  ASSUME NEW store, \A p \in DOMAIN store : store[p] \in LeafPage \cup InternalPage,
         NEW children, NEW parent \in Int,
         NEW s, s = WithParent(store, children, parent)
  PROVE  /\ DOMAIN s = DOMAIN store
         /\ \A p \in DOMAIN store :
              /\ s[p] \in LeafPage \cup InternalPage
              /\ s[p].leaf = store[p].leaf
              /\ s[p].next = store[p].next
              /\ s[p].array = store[p].array
              /\ s[p].parent = IF p \in children THEN parent ELSE store[p].parent
              /\ Kids(s, p) = Kids(store, p)
<1>1. DOMAIN s = DOMAIN store
  BY DEF WithParent
<1>2. ASSUME NEW p \in DOMAIN store
      PROVE  /\ s[p] \in LeafPage \cup InternalPage
             /\ s[p].leaf = store[p].leaf
             /\ s[p].next = store[p].next
             /\ s[p].array = store[p].array
             /\ s[p].parent = IF p \in children THEN parent ELSE store[p].parent
  <2>1. s[p] = IF p \in children THEN [store[p] EXCEPT !.parent = parent] ELSE store[p]
    BY DEF WithParent
  <2>2. CASE store[p] \in LeafPage
    BY <2>1, <2>2 DEF LeafPage
  <2>3. CASE store[p] \in InternalPage
    BY <2>1, <2>3 DEF InternalPage
  <2> QED
    BY <2>2, <2>3
<1> QED
  BY <1>1, <1>2 DEF Kids

LEMMA SplitLeafKeepsSound ==
  ASSUME NEW T, SoundTree(T), NEW k \in Keys, NEW v \in Values, SplitLeaf(k, v)
  PROVE  GrownAfter(T)
<1>0. PICK leaf, new, all, split, left, right, page :
        /\ leaf = FindLeafPage(k) /\ new = NewPageId
        /\ all = WithPairSorted(pages[leaf].array, k, v)
        /\ split = LeafSplitIndex(Len(all))
        /\ left = Refilled(SubSeq(all, 1, split))
        /\ right = Refilled(SubSeq(all, split + 1, Len(all)))
        /\ page = NewLeaf(leaf, right)
  OBVIOUS
<1>1. /\ todo = Idle /\ ~IsEmpty
      /\ Size(leaf) >= LeafMax
      /\ pages' = Put([pages EXCEPT ![leaf].array = left, ![leaf].next = new], new, page)
      /\ todo' = [op |-> "insert", old |-> leaf, key |-> right[1].key, new |-> new]
      /\ result' = TRUE
      /\ UNCHANGED <<root_page_id, header>>
  BY <1>0 DEF SplitLeaf
<1>2. PagesTyped /\ OthersTyped
  BY DEF SoundTree
<1>3. PICK level : TreeShape(pages, root_page_id, Pending, T, level)
  BY DEF SoundTree
<1>4. /\ T \subseteq DOMAIN pages /\ level \in [T -> Nat]
      /\ \A p \in T : pages[p].leaf <=> level[p] = 0
      /\ root_page_id \in T /\ pages[root_page_id].parent = INVALID_PAGE_ID
      /\ level[root_page_id] < Cardinality(DOMAIN pages)
      /\ \A p \in T : level[p] <= level[root_page_id]
  BY <1>1, <1>3 DEF TreeShape, Levels, RootOnTop, IsEmpty
<1>5. /\ leaf \in T /\ leaf \in DOMAIN pages /\ pages[leaf].leaf
      /\ pages[leaf].array \in Seq(LeafPair) /\ pages[leaf] \in LeafPage
      /\ Size(leaf) = LeafMax
  <2>1. /\ leaf \in T /\ leaf \in DOMAIN pages /\ pages[leaf].leaf
        /\ pages[leaf].array \in Seq(LeafPair) /\ Size(leaf) \in Nat
    BY <1>0, <1>1, <1>2, <1>3, FoundLeaf
  <2>2. Size(leaf) <= LeafMax
    BY <1>2, <2>1 DEF PagesTyped, Size
  <2> QED
    BY <1>1, <1>2, <2>1, <2>2, PageKinds, SizesAssumption
<1>6. /\ new \in Nat \ {0} /\ new # INVALID_PAGE_ID /\ new \notin DOMAIN pages
      /\ DOMAIN pages \cup {new} = 1 .. Cardinality(DOMAIN pages \cup {new})
      /\ Cardinality(DOMAIN pages \cup {new}) = Cardinality(DOMAIN pages) + 1
  BY <1>0, <1>2, NewPage
<1>7. /\ left \in Seq(LeafPair) /\ Len(left) <= LeafMax
      /\ right \in Seq(LeafPair) /\ Len(right) <= LeafMax
      /\ right[1].key \in Keys
  <2>1. all \in Seq(LeafPair) /\ Len(all) = LeafMax + 1
    <3>1. Pair(k, v) \in LeafPair
      BY <1>2, LeafArrays
    <3>2. all \in Seq(LeafPair) /\ Len(all) = Len(pages[leaf].array) + 1
      BY <1>0, <1>5, <3>1, SortedPositions
    <3> QED
      BY <1>5, <3>2 DEF Size
  <2>2. split \in 1 .. LeafMax
    BY <1>0, <2>1, SizesAssumption DEF LeafSplitIndex
  <2> DEFINE front == SubSeq(all, 1, split)
             back == SubSeq(all, split + 1, Len(all))
  <2>3. /\ front \in Seq(LeafPair) /\ Len(front) = split
        /\ back \in Seq(LeafPair) /\ Len(back) = LeafMax + 1 - split
    <3>1. split \in 0 .. Len(all)
      BY <2>1, <2>2, SizesAssumption
    <3>2. /\ front \in Seq(LeafPair) /\ Len(front) = split
          /\ back \in Seq(LeafPair) /\ Len(back) = Len(all) - split
      BY <2>1, <3>1, CutPositions
    <3> HIDE DEF front, back
    <3>3. Len(all) - split = LeafMax + 1 - split
      BY <2>1, <2>2, SizesAssumption
    <3> QED
      BY <3>2, <3>3
  <2>4. left = Refilled(front) /\ right = Refilled(back)
    BY <1>0
  <2> HIDE DEF front, back
  <2>5. \A pair \in LeafPair : pair = Pair(pair.key, pair.value)
    BY <1>2, LeafArrays
  <2>6. back # <<>>
    BY <2>2, <2>3, SizesAssumption
  <2>7. /\ left \in Seq(LeafPair) /\ Len(left) <= split
        /\ right \in Seq(LeafPair) /\ Len(right) <= LeafMax + 1 - split /\ Len(right) >= 1
    BY <2>3, <2>4, <2>5, <2>6, RefilledPositions
  <2>8. right[1] \in LeafPair
    <3>1. Len(right) \in Nat /\ 1 \in 1 .. Len(right)
      BY <2>7, LenProperties
    <3> QED
      BY <2>7, <3>1, ElementOfSeq
  <2>9. Len(left) \in Nat /\ Len(right) \in Nat
    BY <2>7, LenProperties
  <2> QED
    BY <2>2, <2>7, <2>8, <2>9, SizesAssumption DEF LeafPair
<1>8. /\ page \in LeafPage /\ page.leaf = TRUE /\ page.array = right
      /\ page.parent = pages[leaf].parent /\ page.next = pages[leaf].next
  <2>1. page = Leaf(pages[leaf].parent, pages[leaf].next, right)
    BY <1>0 DEF NewLeaf
  <2> QED
    BY <1>5, <1>7, <2>1 DEF Leaf, LeafPage
<1>9. /\ DOMAIN pages' = DOMAIN pages \cup {new}
      /\ pages'[new] = page
      /\ \A p \in DOMAIN pages : p # leaf => pages'[p] = pages[p]
      /\ pages'[leaf] = [pages[leaf] EXCEPT !.array = left, !.next = new]
  BY <1>1, <1>5, <1>6 DEF Put
<1>10. /\ pages'[leaf] \in LeafPage /\ pages'[leaf].leaf = TRUE
       /\ pages'[leaf].parent = pages[leaf].parent
       /\ pages'[leaf].next = new /\ pages'[leaf].array = left
  <2>1. new \in Int /\ left \in Seq(LeafPair)
    BY <1>6, <1>7
  <2>2. pages'[leaf] = [leaf |-> TRUE, parent |-> pages[leaf].parent, next |-> new, array |-> left]
    BY <1>5, <1>9 DEF LeafPage
  <2>3. pages[leaf].parent \in Int
    BY <1>5 DEF LeafPage
  <2> QED
    BY <2>1, <2>2, <2>3 DEF LeafPage
<1>11. /\ \A p \in DOMAIN pages : /\ pages'[p].leaf = pages[p].leaf
                                  /\ pages'[p].parent = pages[p].parent
                                  /\ p # leaf => pages'[p].array = pages[p].array
                                  /\ Kids(pages', p) = Kids(pages, p)
       /\ Kids(pages', new) = {}
       /\ pages'[new].leaf = TRUE /\ pages'[new].parent = pages[leaf].parent
  <2>1. pages[leaf].leaf = TRUE
    BY <1>5 DEF LeafPage
  <2> QED
    BY <1>8, <1>9, <1>10, <2>1 DEF Kids
<1>12. PagesTyped'
  <2>1. ASSUME NEW p \in DOMAIN pages'
        PROVE  /\ pages'[p] \in LeafPage \cup InternalPage
               /\ pages'[p].parent \in DOMAIN pages' \cup {INVALID_PAGE_ID}
               /\ pages'[p].next \in DOMAIN pages' \cup {INVALID_PAGE_ID}
               /\ pages'[p].leaf => Len(pages'[p].array) <= LeafMax
               /\ ~pages'[p].leaf => Children(pages'[p].array) \subseteq DOMAIN pages'
    <3>1. /\ pages[leaf].parent \in DOMAIN pages \cup {INVALID_PAGE_ID}
          /\ pages[leaf].next \in DOMAIN pages \cup {INVALID_PAGE_ID}
      BY <1>2, <1>5 DEF PagesTyped, PageOrNone
    <3>2. CASE p = new
      BY <1>7, <1>8, <1>9, <3>1, <3>2
    <3>3. CASE p = leaf
      BY <1>7, <1>9, <1>10, <3>1, <3>3
    <3>4. CASE p \in DOMAIN pages /\ p # leaf
      BY <1>2, <1>9, <3>4 DEF PagesTyped, PageOrNone
    <3> QED
      BY <1>9, <3>2, <3>3, <3>4
  <2>2. DOMAIN pages' = DOMAIN pages \cup {NewPageId}
    BY <1>0, <1>9
  <2> QED
    BY <1>2, <2>1, <2>2, PageAdded
<1>13. Pending = INVALID_PAGE_ID /\ Pending' = new
  BY <1>1, QuietCall DEF Pending
<1> DEFINE T2 == T \cup {new}
           level2 == [p \in T2 |-> IF p = new THEN 0 ELSE level[p]]
<1>14. /\ T2 \subseteq DOMAIN pages' /\ level2 \in [T2 -> Nat] /\ level2[new] = 0
       /\ \A p \in T : level2[p] = level[p] /\ p # new
  BY <1>4, <1>6, <1>9
<1> HIDE DEF level2
<1>15. TreeShape(pages', root_page_id, new, T2, level2)
  <2>1. Levels(pages', T2, level2)
    BY <1>4, <1>11, <1>14 DEF Levels
  <2>2. NodesAreSound(pages', T2)
    <3> SUFFICES ASSUME NEW p \in T2, ~pages'[p].leaf
                 PROVE  pages'[p].array # <<>> /\ EachOnce(pages'[p].array)
      BY DEF NodesAreSound
    <3>1. p \in T /\ p # leaf
      BY <1>10, <1>11
    <3> QED
      BY <1>3, <1>4, <1>11, <3>1 DEF TreeShape, NodesAreSound
  <2>3. ParentsOfKids(pages', T2, level2)
    <3> SUFFICES ASSUME NEW p \in T2, NEW c \in Kids(pages', p)
                 PROVE  c \in T2 /\ pages'[c].parent = p /\ level2[p] = level2[c] + 1
      BY DEF ParentsOfKids
    <3>1. p \in T /\ c \in Kids(pages, p)
      BY <1>4, <1>11
    <3>2. c \in T /\ pages[c].parent = p /\ level[p] = level[c] + 1
      BY <1>3, <3>1 DEF TreeShape, ParentsOfKids
    <3> QED
      BY <1>4, <1>11, <1>14, <3>1, <3>2
  <2>4. RootOnTop(pages', root_page_id, T2, level2)
    <3>1. level[root_page_id] \in Nat /\ Cardinality(DOMAIN pages) \in Nat
      BY <1>2, <1>4, FS_CardinalityType DEF PagesTyped
    <3>2. Cardinality(DOMAIN pages') = Cardinality(DOMAIN pages) + 1
      BY <1>6, <1>9
    <3>3. /\ root_page_id \in T2 /\ pages'[root_page_id].parent = INVALID_PAGE_ID
          /\ level2[root_page_id] < Cardinality(DOMAIN pages')
      BY <1>4, <1>11, <1>14, <3>1, <3>2
    <3>4. \A p \in T2 : level2[p] <= level2[root_page_id]
      BY <1>4, <1>14, <3>1
    <3>5. root_page_id # INVALID_PAGE_ID
      BY <1>1 DEF IsEmpty
    <3> QED
      BY <3>3, <3>4, <3>5 DEF RootOnTop
  <2>5. KidsOfParents(pages', root_page_id, new, T2)
    <3> SUFFICES ASSUME NEW p \in T2 \ {root_page_id, new}
                 PROVE  pages'[p].parent \in T2 /\ p \in Kids(pages', pages'[p].parent)
      BY DEF KidsOfParents
    <3>1. p \in T /\ p # INVALID_PAGE_ID
      BY <1>2, <1>4, PageKinds
    <3>2. pages[p].parent \in T /\ p \in Kids(pages, pages[p].parent)
      BY <1>3, <1>13, <3>1 DEF TreeShape, KidsOfParents
    <3> QED
      BY <1>4, <1>11, <3>1, <3>2
  <2>6. LeavesOutsideAreEmpty(pages', T2)
    BY <1>3, <1>5, <1>9, <1>11 DEF TreeShape, LeavesOutsideAreEmpty
  <2> QED
    BY <2>1, <2>2, <2>3, <2>4, <2>5, <2>6 DEF TreeShape
<1>16. CallShape(T2, level2)'
  <2>1. /\ todo'.op = "insert" /\ todo'.old = leaf /\ todo'.new = new
    BY <1>1
  <2>2. {leaf, new} \subseteq T2 /\ new \notin {leaf, root_page_id'}
    BY <1>1, <1>4, <1>5, <1>6
  <2>3. level2[new] = level2[leaf] /\ pages'[new].parent = pages'[leaf].parent
    BY <1>4, <1>5, <1>10, <1>11, <1>14
  <2>4. \A p \in T2 : new \notin Kids(pages', p)
    BY <1>3, <1>4, <1>6, <1>11 DEF TreeShape, ParentsOfKids
  <2> QED
    BY <2>1, <2>2, <2>3, <2>4 DEF CallShape
<1>17. todo' \in Todo'
  BY <1>1, <1>5, <1>7, <1>9 DEF Todo
<1>18. OthersTyped'
  BY <1>1, <1>2, <1>9, <1>17, OthersKept DEF OthersTyped, PageOrNone
<1>19. TreeShape(pages', root_page_id', Pending', T2, level2)
  BY <1>1, <1>13, <1>15
<1>20. T2 \subseteq T \cup {NewPageId} /\ T2 = T \cup (DOMAIN pages' \ DOMAIN pages)
  BY <1>0, <1>6, <1>9
<1> HIDE DEF T2
<1>21. SoundTree(T2)'
  BY <1>12, <1>16, <1>18, <1>19 DEF SoundTree
<1> QED
  BY <1>20, <1>21 DEF GrownAfter

\* What the running insertion finds: a page that was split, and a new page beside
\* it that nobody points to.
LEMMA InsertFacts ==
  ASSUME PagesTyped, OthersTyped, todo.op = "insert", NEW T, NEW level,
         TreeShape(pages, root_page_id, Pending, T, level), CallShape(T, level)
  PROVE  /\ Pending = todo.new
         /\ todo.old \in T /\ todo.new \in T /\ todo.new # todo.old /\ todo.new # root_page_id
         /\ level[todo.new] = level[todo.old]
         /\ pages[todo.new].parent = pages[todo.old].parent
         /\ todo.key \in KeyOrZero
         /\ todo.old \in Nat /\ todo.new \in Nat
         /\ \A p \in T : todo.new \notin Kids(pages, p)
         /\ T \subseteq DOMAIN pages /\ level \in [T -> Nat]
         /\ \A p \in T : pages[p].leaf <=> level[p] = 0
         /\ root_page_id \in T /\ root_page_id # INVALID_PAGE_ID
         /\ pages[root_page_id].parent = INVALID_PAGE_ID
         /\ level[root_page_id] < Cardinality(DOMAIN pages)
         /\ \A p \in T : level[p] <= level[root_page_id]
<1>1. Pending = todo.new
  BY DEF Pending
<1>2. /\ todo.old \in T /\ todo.new \in T /\ todo.new # todo.old /\ todo.new # root_page_id
      /\ level[todo.new] = level[todo.old]
      /\ pages[todo.new].parent = pages[todo.old].parent
      /\ \A p \in T : todo.new \notin Kids(pages, p)
  BY DEF CallShape
<1>3. T \subseteq DOMAIN pages /\ level \in [T -> Nat]
      /\ \A p \in T : pages[p].leaf <=> level[p] = 0
  BY DEF TreeShape, Levels
<1>4. root_page_id # INVALID_PAGE_ID
  BY <1>2 DEF TreeShape, RootOnTop
<1>5. /\ root_page_id \in T /\ pages[root_page_id].parent = INVALID_PAGE_ID
      /\ level[root_page_id] < Cardinality(DOMAIN pages)
      /\ \A p \in T : level[p] <= level[root_page_id]
  BY <1>4 DEF TreeShape, RootOnTop
<1>6. todo.key \in KeyOrZero
  <2>1. todo \in Todo
    BY DEF OthersTyped
  <2>2. todo # Idle
    BY DEF Idle
  <2>3. todo \notin [op : {"underflow", "adjust root"}, page : DOMAIN pages]
    OBVIOUS
  <2>4. todo \in [op : {"insert"}, old : DOMAIN pages, key : Keys \cup {ZeroKey},
                  new : DOMAIN pages]
    BY <2>1, <2>2, <2>3 DEF Todo
  <2> QED
    BY <2>4 DEF KeyOrZero
<1>7. todo.old \in Nat /\ todo.new \in Nat
  BY <1>2, <1>3, PageKinds
<1> QED
  BY <1>1, <1>2, <1>3, <1>4, <1>5, <1>6, <1>7

LEMMA NewRootKeepsSound ==
  ASSUME NEW T, SoundTree(T), NewRoot
  PROVE  GrownAfter(T)
<1>1. PagesTyped /\ OthersTyped
  BY DEF SoundTree
<1>2. PICK level : TreeShape(pages, root_page_id, Pending, T, level) /\ CallShape(T, level)
  BY DEF SoundTree
<1>0. PICK old, new, top, array, page, store :
        /\ old = todo.old /\ new = todo.new /\ top = NewPageId
        /\ array = <<Pair(ZeroKey, old), Pair(todo.key, new)>>
        /\ page = Internal(INVALID_PAGE_ID, array)
        /\ store = WithParent(pages, {old, new}, top)
  OBVIOUS
<1>3. /\ todo.op = "insert" /\ IsRootPage(old)
      /\ pages' = Put(store, top, page)
      /\ root_page_id' = top /\ header' \in {top, header}
      /\ todo' = Idle /\ result' = result
  BY <1>0 DEF NewRoot, SetRoot, UpdateRecord
<1>4. /\ Pending = new
      /\ old \in T /\ new \in T /\ new # old /\ new # root_page_id
      /\ level[new] = level[old]
      /\ todo.key \in KeyOrZero
      /\ old \in Nat /\ new \in Nat
      /\ \A p \in T : new \notin Kids(pages, p)
  BY <1>0, <1>1, <1>2, <1>3, InsertFacts
<1>5. /\ T \subseteq DOMAIN pages /\ level \in [T -> Nat]
      /\ \A p \in T : pages[p].leaf <=> level[p] = 0
      /\ root_page_id \in T /\ root_page_id # INVALID_PAGE_ID
      /\ pages[root_page_id].parent = INVALID_PAGE_ID
      /\ level[root_page_id] < Cardinality(DOMAIN pages)
      /\ \A p \in T : level[p] <= level[root_page_id]
  BY <1>0, <1>1, <1>2, <1>3, InsertFacts
<1>6. old = root_page_id
  BY <1>1, <1>2, <1>3, <1>4, OnlyRootHasNoParent
<1>7. /\ top \in Nat \ {0} /\ top # INVALID_PAGE_ID /\ top \notin DOMAIN pages
      /\ Cardinality(DOMAIN pages \cup {top}) = Cardinality(DOMAIN pages) + 1
  BY <1>0, <1>1, NewPage
<1>8. /\ array \in Seq(ChildPair) /\ Len(array) = 2
      /\ array[1].value = old /\ array[2].value = new
      /\ Children(array) = {old, new} /\ EachOnce(array) /\ array # <<>>
  <2>1. Pair(ZeroKey, old) \in ChildPair /\ Pair(todo.key, new) \in ChildPair
    BY <1>4 DEF Pair, ChildPair, KeyOrZero
  <2>2. /\ array \in Seq(ChildPair) /\ Len(array) = 2
        /\ array[1] = Pair(ZeroKey, old) /\ array[2] = Pair(todo.key, new)
    BY <1>0, <2>1
  <2>3. array[1].value = old /\ array[2].value = new
    BY <2>2 DEF Pair
  <2>4. \A i \in 1 .. Len(array) : i = 1 \/ i = 2
    BY <2>2
  <2>5. 1 \in 1 .. Len(array) /\ 2 \in 1 .. Len(array)
    BY <2>2
  <2>6. Children(array) = {old, new}
    BY <2>3, <2>4, <2>5 DEF Children
  <2>7. EachOnce(array)
    BY <1>4, <2>3, <2>4 DEF EachOnce
  <2> QED
    BY SMTT(30), <2>2, <2>3, <2>6, <2>7
<1>9. /\ page \in InternalPage /\ page.leaf = FALSE /\ page.array = array
      /\ page.parent = INVALID_PAGE_ID /\ page.next = INVALID_PAGE_ID
  BY <1>0, <1>8 DEF Internal, InternalPage, INVALID_PAGE_ID
<1>10. /\ DOMAIN store = DOMAIN pages
       /\ \A p \in DOMAIN pages :
            /\ store[p] \in LeafPage \cup InternalPage
            /\ store[p].leaf = pages[p].leaf
            /\ store[p].next = pages[p].next
            /\ store[p].array = pages[p].array
            /\ store[p].parent = IF p \in {old, new} THEN top ELSE pages[p].parent
            /\ Kids(store, p) = Kids(pages, p)
  <2>1. \A p \in DOMAIN pages : pages[p] \in LeafPage \cup InternalPage
    BY <1>1 DEF PagesTyped
  <2>2. top \in Int
    BY <1>7
  <2> QED
    BY <1>0, <2>1, <2>2, Reparented
<1>11. /\ DOMAIN pages' = DOMAIN pages \cup {top}
       /\ pages'[top] = page
       /\ \A p \in DOMAIN pages : pages'[p] = store[p]
  BY <1>3, <1>7, <1>10 DEF Put
<1>12. /\ \A p \in DOMAIN pages :
            /\ pages'[p].leaf = pages[p].leaf
            /\ pages'[p].array = pages[p].array
            /\ pages'[p].parent = IF p \in {old, new} THEN top ELSE pages[p].parent
            /\ Kids(pages', p) = Kids(pages, p)
       /\ Kids(pages', top) = {old, new}
       /\ pages'[top].leaf = FALSE /\ pages'[top].array = array
       /\ pages'[top].parent = INVALID_PAGE_ID
  BY <1>8, <1>9, <1>10, <1>11 DEF Kids
<1>13. PagesTyped'
  <2>1. ASSUME NEW p \in DOMAIN pages'
        PROVE  /\ pages'[p] \in LeafPage \cup InternalPage
               /\ pages'[p].parent \in DOMAIN pages' \cup {INVALID_PAGE_ID}
               /\ pages'[p].next \in DOMAIN pages' \cup {INVALID_PAGE_ID}
               /\ pages'[p].leaf => Len(pages'[p].array) <= LeafMax
               /\ ~pages'[p].leaf => Children(pages'[p].array) \subseteq DOMAIN pages'
    <3>1. CASE p = top
      BY <1>4, <1>5, <1>8, <1>9, <1>11, <3>1
    <3>2. CASE p \in DOMAIN pages
      BY <1>1, <1>10, <1>11, <3>2 DEF PagesTyped, PageOrNone
    <3> QED
      BY <1>11, <3>1, <3>2
  <2>2. DOMAIN pages' = DOMAIN pages \cup {NewPageId}
    BY <1>0, <1>11
  <2> QED
    BY <1>1, <2>1, <2>2, PageAdded
<1> DEFINE T2 == T \cup {top}
           level2 == [p \in T2 |-> IF p = top THEN level[old] + 1 ELSE level[p]]
<1>14. /\ T2 \subseteq DOMAIN pages' /\ level2 \in [T2 -> Nat] /\ level2[top] = level[old] + 1
       /\ \A p \in T : level2[p] = level[p] /\ p # top
  <2>1. T2 \subseteq DOMAIN pages'
    BY <1>5, <1>11
  <2>2. level[old] + 1 \in Nat /\ level2[top] = level[old] + 1
    BY <1>4, <1>5
  <2>3. \A p \in T : p # top
    BY <1>5, <1>7
  <2>4. \A p \in T : level2[p] = level[p]
    BY <2>3
  <2>5. \A p \in T2 : (IF p = top THEN level[old] + 1 ELSE level[p]) \in Nat
    BY <1>5, <2>2
  <2>6. level2 \in [T2 -> Nat]
    BY <2>5
  <2> QED
    BY <2>1, <2>2, <2>3, <2>4, <2>6
<1> HIDE DEF level2
<1>15. TreeShape(pages', top, INVALID_PAGE_ID, T2, level2)
  <2>0. level[old] \in Nat
    BY <1>4, <1>5
  <2>1. Levels(pages', T2, level2)
    BY <1>5, <1>12, <1>14, <2>0 DEF Levels
  <2>2. NodesAreSound(pages', T2)
    BY <1>2, <1>5, <1>8, <1>12 DEF TreeShape, NodesAreSound
  <2>3. ParentsOfKids(pages', T2, level2)
    <3> SUFFICES ASSUME NEW p \in T2, NEW c \in Kids(pages', p)
                 PROVE  c \in T2 /\ pages'[c].parent = p /\ level2[p] = level2[c] + 1
      BY DEF ParentsOfKids
    <3>1. CASE p = top
      BY <1>4, <1>5, <1>12, <1>14, <3>1
    <3>2. CASE p \in T
      <4>1. c \in Kids(pages, p)
        BY <1>5, <1>12, <3>2
      <4>2. c \in T /\ pages[c].parent = p /\ level[p] = level[c] + 1
        BY <1>2, <3>2, <4>1 DEF TreeShape, ParentsOfKids
      <4>3. c # new /\ c # old
        BY <1>1, <1>4, <1>5, <1>6, <3>2, <4>1, <4>2, PageKinds
      <4> QED
        BY <1>5, <1>12, <1>14, <3>2, <4>2, <4>3
    <3> QED
      BY <3>1, <3>2
  <2>4. RootOnTop(pages', top, T2, level2)
    <3>1. Cardinality(DOMAIN pages) \in Nat
      BY <1>1, FS_CardinalityType DEF PagesTyped
    <3>2. Cardinality(DOMAIN pages') = Cardinality(DOMAIN pages) + 1
      BY <1>7, <1>11
    <3>3. level2[top] < Cardinality(DOMAIN pages')
      BY <1>5, <1>6, <1>14, <2>0, <3>1, <3>2
    <3>4. \A p \in T2 : level2[p] <= level2[top]
      BY <1>5, <1>6, <1>14, <2>0
    <3> QED
      BY <1>7, <1>12, <3>3, <3>4 DEF RootOnTop
  <2>5. KidsOfParents(pages', top, INVALID_PAGE_ID, T2)
    <3> SUFFICES ASSUME NEW p \in T2 \ {top, INVALID_PAGE_ID}
                 PROVE  pages'[p].parent \in T2 /\ p \in Kids(pages', pages'[p].parent)
      BY DEF KidsOfParents
    <3>1. CASE p \in {old, new}
      BY <1>4, <1>5, <1>12, <3>1
    <3>2. CASE p \notin {old, new}
      <4>1. pages[p].parent \in T /\ p \in Kids(pages, pages[p].parent)
        BY <1>2, <1>4, <1>6, <3>2 DEF TreeShape, KidsOfParents
      <4> QED
        BY <1>5, <1>12, <3>2, <4>1
    <3> QED
      BY <3>1, <3>2
  <2>6. LeavesOutsideAreEmpty(pages', T2)
    BY <1>2, <1>11, <1>12 DEF TreeShape, LeavesOutsideAreEmpty
  <2> QED
    BY <2>1, <2>2, <2>3, <2>4, <2>5, <2>6 DEF TreeShape
<1>16. /\ CallShape(T2, level2)'
       /\ Pending' = INVALID_PAGE_ID
       /\ todo' \in Todo'
  BY <1>3, QuietAfter
<1>17. OthersTyped'
  <2>1. result' \in Values \cup BOOLEAN \cup {Absent}
    BY <1>1, <1>3 DEF OthersTyped
  <2> QED
    BY <1>1, <1>3, <1>11, <1>16, <2>1, OthersKept
<1>18. TreeShape(pages', root_page_id', Pending', T2, level2)
  BY <1>3, <1>15, <1>16
<1>19. T2 \subseteq T \cup {NewPageId} /\ T2 = T \cup (DOMAIN pages' \ DOMAIN pages)
  BY <1>0, <1>7, <1>11
<1> HIDE DEF T2
<1>20. SoundTree(T2)'
  BY <1>13, <1>16, <1>17, <1>18 DEF SoundTree
<1> QED
  BY <1>19, <1>20 DEF GrownAfter

\* The parent of the page that was split, with the new child in its array.
LEMMA ParentFacts ==
  ASSUME PagesTyped, OthersTyped, todo.op = "insert", NEW T, NEW level,
         TreeShape(pages, root_page_id, Pending, T, level), CallShape(T, level),
         ~IsRootPage(todo.old), NEW P, P = pages[todo.old].parent
  PROVE  /\ P \in T /\ P # todo.new /\ P # todo.old
         /\ level[P] = level[todo.old] + 1 /\ ~pages[P].leaf
         /\ pages[P] \in InternalPage
         /\ ParentArray \in Seq(ChildPair)
         /\ EachOnce(ParentArray)
         /\ Children(ParentArray) = Kids(pages, P) \cup {todo.new}
         /\ Len(ParentArray) = Size(P) + 1
         /\ ParentArray # <<>>
<1> DEFINE old == todo.old
           new == todo.new
           array == pages[P].array
<1>1. /\ Pending = new
      /\ old \in T /\ new \in T /\ new # old /\ new # root_page_id
      /\ level[new] = level[old] /\ todo.key \in KeyOrZero /\ new \in Nat
      /\ \A p \in T : new \notin Kids(pages, p)
      /\ T \subseteq DOMAIN pages /\ level \in [T -> Nat]
      /\ \A p \in T : pages[p].leaf <=> level[p] = 0
  BY InsertFacts
<1>2. old # root_page_id
  BY <1>1, OnlyRootHasNoParent
<1>3. P \in T /\ old \in Kids(pages, P)
  BY <1>1, <1>2 DEF TreeShape, KidsOfParents
<1>4. level[P] = level[old] + 1
  BY <1>3 DEF TreeShape, ParentsOfKids
<1>5. level[old] \in Nat /\ level[P] # 0 /\ level[P] # level[old]
  <2> HIDE DEF old
  <2>1. level[old] \in Nat
    BY <1>1
  <2> QED
    BY <1>4, <2>1
<1>6. ~pages[P].leaf /\ P # old /\ P # new
  BY <1>1, <1>3, <1>5
<1>7. /\ pages[P] \in InternalPage /\ array \in Seq(ChildPair)
      /\ Kids(pages, P) = Children(array) /\ EachOnce(array)
  BY <1>1, <1>3, <1>6, PageKinds DEF Kids, TreeShape, NodesAreSound
<1>8. ParentArray = InsertNodeAfter(array, old, todo.key, new)
  BY DEF ParentArray
<1>9. Pair(todo.key, new) \in ChildPair
  BY <1>1 DEF Pair, ChildPair
<1>10. old \in Children(array) /\ new \notin Children(array)
  BY <1>1, <1>3, <1>7
<1> HIDE DEF old, new, array
<1>11. /\ ParentArray \in Seq(ChildPair) /\ EachOnce(ParentArray)
       /\ Children(ParentArray) = Children(array) \cup {new}
       /\ Len(ParentArray) = Len(array) + 1
  BY <1>7, <1>8, <1>9, <1>10, InsertedChild
<1>12. ParentArray # <<>>
  BY <1>7, <1>11, LenProperties, EmptySeq
<1>13. Len(array) = Size(P)
  BY DEF array, Size
<1> QED
  BY <1>3, <1>4, <1>6, <1>7, <1>11, <1>12, <1>13 DEF old, new

LEMMA ParentHasRoomKeepsSound ==
  ASSUME NEW T, SoundTree(T), ParentHasRoom
  PROVE  GrownAfter(T)
<1>1. PagesTyped /\ OthersTyped
  BY DEF SoundTree
<1>2. PICK level : TreeShape(pages, root_page_id, Pending, T, level) /\ CallShape(T, level)
  BY DEF SoundTree
<1>0. PICK old, new, P, array :
        old = todo.old /\ new = todo.new /\ P = pages[old].parent /\ array = ParentArray
  OBVIOUS
<1>3. /\ todo.op = "insert" /\ ~IsRootPage(old)
      /\ pages' = [pages EXCEPT ![P].array = array, ![new].parent = P]
      /\ UNCHANGED <<root_page_id, header, result>>
      /\ todo' = Idle
  BY <1>0 DEF ParentHasRoom
<1>4. /\ Pending = new
      /\ old \in T /\ new \in T /\ new # old /\ new # root_page_id
      /\ level[new] = level[old] /\ pages[new].parent = P
      /\ \A p \in T : new \notin Kids(pages, p)
  BY <1>0, <1>1, <1>2, <1>3, InsertFacts
<1>5. /\ T \subseteq DOMAIN pages /\ level \in [T -> Nat]
      /\ \A p \in T : pages[p].leaf <=> level[p] = 0
      /\ root_page_id \in T /\ root_page_id # INVALID_PAGE_ID
      /\ pages[root_page_id].parent = INVALID_PAGE_ID
      /\ level[root_page_id] < Cardinality(DOMAIN pages)
      /\ \A p \in T : level[p] <= level[root_page_id]
  BY <1>0, <1>1, <1>2, <1>3, InsertFacts
<1>6. /\ P \in T /\ P # new /\ P # old
      /\ level[P] = level[old] + 1 /\ ~pages[P].leaf
      /\ pages[P] \in InternalPage
      /\ array \in Seq(ChildPair) /\ EachOnce(array) /\ array # <<>>
      /\ Children(array) = Kids(pages, P) \cup {new}
  BY <1>0, <1>1, <1>2, <1>3, ParentFacts
<1>7. /\ DOMAIN pages' = DOMAIN pages
      /\ \A p \in DOMAIN pages : p # P => pages'[p] = pages[p]
      /\ pages'[P] = [pages[P] EXCEPT !.array = array]
  <2>1. pages[new] \in LeafPage \cup InternalPage
    BY <1>1, <1>4, <1>5 DEF PagesTyped
  <2>2. [pages[new] EXCEPT !.parent = P] = pages[new]
    BY <1>4, <2>1 DEF LeafPage, InternalPage
  <2> QED
    BY <1>3, <1>4, <1>5, <1>6, <2>2
<1>8. /\ pages'[P] \in InternalPage /\ pages'[P].leaf = FALSE
      /\ pages'[P].parent = pages[P].parent /\ pages'[P].next = pages[P].next
      /\ pages'[P].array = array
  BY <1>6, <1>7 DEF InternalPage
<1>9. /\ \A p \in DOMAIN pages : /\ pages'[p].leaf = pages[p].leaf
                                 /\ pages'[p].parent = pages[p].parent
                                 /\ p # P => Kids(pages', p) = Kids(pages, p)
      /\ Kids(pages', P) = Kids(pages, P) \cup {new}
  <2>1. pages[P].leaf = FALSE
    BY <1>6 DEF InternalPage
  <2> QED
    BY <1>6, <1>7, <1>8, <2>1 DEF Kids
<1>10. Children(array) \subseteq DOMAIN pages
  <2>1. Kids(pages, P) \subseteq T
    BY <1>2, <1>6 DEF TreeShape, ParentsOfKids
  <2> QED
    BY <1>4, <1>5, <1>6, <2>1
<1>11. PagesTyped'
  <2>1. ASSUME NEW p \in DOMAIN pages'
        PROVE  /\ pages'[p] \in LeafPage \cup InternalPage
               /\ pages'[p].parent \in PageOrNone'
               /\ pages'[p].next \in PageOrNone'
               /\ pages'[p].leaf => Len(pages'[p].array) <= LeafMax
               /\ ~pages'[p].leaf => Children(pages'[p].array) \subseteq DOMAIN pages'
    BY <1>1, <1>5, <1>6, <1>7, <1>8, <1>10 DEF PagesTyped, PageOrNone
  <2> QED
    BY <1>1, <1>7, <2>1 DEF PagesTyped
<1>12. TreeShape(pages', root_page_id, INVALID_PAGE_ID, T, level)
  <2>1. Levels(pages', T, level)
    BY <1>5, <1>7, <1>9 DEF Levels
  <2>2. NodesAreSound(pages', T)
    BY <1>2, <1>5, <1>6, <1>7, <1>8, <1>9 DEF TreeShape, NodesAreSound
  <2>3. ParentsOfKids(pages', T, level)
    <3> SUFFICES ASSUME NEW p \in T, NEW c \in Kids(pages', p)
                 PROVE  c \in T /\ pages'[c].parent = p /\ level[p] = level[c] + 1
      BY DEF ParentsOfKids
    <3>1. CASE p = P /\ c = new
      BY <1>4, <1>5, <1>6, <1>9, <3>1
    <3>2. CASE c \in Kids(pages, p)
      <4>1. c \in T /\ pages[c].parent = p /\ level[p] = level[c] + 1
        BY <1>2, <3>2 DEF TreeShape, ParentsOfKids
      <4> QED
        BY <1>5, <1>9, <4>1
    <3> QED
      BY <1>5, <1>9, <3>1, <3>2
  <2>4. RootOnTop(pages', root_page_id, T, level)
    BY <1>5, <1>7, <1>9 DEF RootOnTop
  <2>5. KidsOfParents(pages', root_page_id, INVALID_PAGE_ID, T)
    <3> SUFFICES ASSUME NEW p \in T \ {root_page_id, INVALID_PAGE_ID}
                 PROVE  pages'[p].parent \in T /\ p \in Kids(pages', pages'[p].parent)
      BY DEF KidsOfParents
    <3>1. CASE p = new
      BY <1>4, <1>5, <1>6, <1>9, <3>1
    <3>2. CASE p # new
      <4>1. pages[p].parent \in T /\ p \in Kids(pages, pages[p].parent)
        BY <1>2, <1>4, <3>2 DEF TreeShape, KidsOfParents
      <4>2. p \in Kids(pages', pages[p].parent)
        BY <1>5, <1>9, <4>1
      <4> QED
        BY <1>5, <1>9, <4>1, <4>2
    <3> QED
      BY <3>1, <3>2
  <2>6. LeavesOutsideAreEmpty(pages', T)
    BY <1>2, <1>6, <1>7 DEF TreeShape, LeavesOutsideAreEmpty
  <2> QED
    BY <2>1, <2>2, <2>3, <2>4, <2>5, <2>6 DEF TreeShape
<1>13. /\ CallShape(T, level)'
       /\ Pending' = INVALID_PAGE_ID
       /\ todo' \in Todo'
  BY <1>3, QuietAfter
<1>14. OthersTyped'
  BY <1>1, <1>3, <1>7, <1>13, OthersKept DEF OthersTyped, PageOrNone
<1>15. TreeShape(pages', root_page_id', Pending', T, level)
  BY <1>3, <1>12, <1>13
<1>16. SoundTree(T)'
  BY <1>11, <1>13, <1>14, <1>15 DEF SoundTree
<1>17. T \subseteq T \cup {NewPageId} /\ T = T \cup (DOMAIN pages' \ DOMAIN pages)
  BY <1>7
<1> QED
  BY <1>16, <1>17 DEF GrownAfter

\* The call goes on with the parent, one level higher.
LEMMA ParentSplitsShaped ==
  ASSUME NEW T, NEW level, Shaped(T, level), ParentSplits
  PROVE  \E U, higher : /\ U \subseteq T \cup {NewPageId}
                        /\ U = T \cup (DOMAIN pages' \ DOMAIN pages)
                        /\ Shaped(U, higher)'
                        /\ higher[todo'.old] = level[todo.old] + 1
<1>1. PagesTyped /\ OthersTyped
  BY DEF Shaped
<1>2. TreeShape(pages, root_page_id, Pending, T, level) /\ CallShape(T, level)
  BY DEF Shaped
<1>a. PICK old, new, P, array : old = todo.old /\ new = todo.new /\ P = pages[old].parent
                                /\ array = ParentArray
  OBVIOUS
<1>b. PICK split : split = InternalSplitIndex(Len(array))
  OBVIOUS
<1>c. PICK left, right : /\ left = SubSeq(array, 1, split)
                         /\ right = SubSeq(array, split + 1, Len(array))
  OBVIOUS
<1>d. PICK N, page : N = NewPageId /\ page = Internal(pages[P].parent, right)
  OBVIOUS
<1>e. PICK inserted : inserted = [pages EXCEPT ![P].array = left, ![new].parent = P]
  OBVIOUS
<1>f. PICK store : store = WithParent(inserted, Children(right), N)
  OBVIOUS
<1>3. /\ todo.op = "insert" /\ ~IsRootPage(old)
      /\ Len(array) > InternalMax
      /\ pages' = Put(store, N, page)
      /\ todo' = [op |-> "insert", old |-> P, key |-> right[1].key, new |-> N]
      /\ UNCHANGED <<root_page_id, header, result>>
  BY <1>a, <1>b, <1>c, <1>d, <1>e, <1>f DEF ParentSplits
<1>4. /\ Pending = new
      /\ old \in T /\ new \in T /\ new # old /\ new # root_page_id
      /\ level[new] = level[old] /\ pages[new].parent = P
      /\ \A p \in T : new \notin Kids(pages, p)
  BY <1>a, <1>1, <1>2, <1>3, InsertFacts
<1>5. /\ T \subseteq DOMAIN pages /\ level \in [T -> Nat]
      /\ \A p \in T : pages[p].leaf <=> level[p] = 0
      /\ root_page_id \in T /\ root_page_id # INVALID_PAGE_ID
      /\ pages[root_page_id].parent = INVALID_PAGE_ID
      /\ level[root_page_id] < Cardinality(DOMAIN pages)
      /\ \A p \in T : level[p] <= level[root_page_id]
  BY <1>a, <1>1, <1>2, <1>3, InsertFacts
<1>6. /\ P \in T /\ P # new /\ P # old
      /\ level[P] = level[old] + 1 /\ ~pages[P].leaf
      /\ pages[P] \in InternalPage
      /\ array \in Seq(ChildPair) /\ EachOnce(array)
      /\ Children(array) = Kids(pages, P) \cup {new}
  BY <1>a, <1>1, <1>2, <1>3, ParentFacts
<1>7. /\ N \in Nat \ {0} /\ N # INVALID_PAGE_ID /\ N \notin DOMAIN pages
      /\ Cardinality(DOMAIN pages \cup {N}) = Cardinality(DOMAIN pages) + 1
  BY <1>d, <1>1, NewPage
<1>8. /\ left \in Seq(ChildPair) /\ EachOnce(left) /\ left # <<>>
      /\ right \in Seq(ChildPair) /\ EachOnce(right) /\ right # <<>>
      /\ Children(left) \cup Children(right) = Kids(pages, P) \cup {new}
      /\ Children(left) \cap Children(right) = {}
      /\ right[1].key \in KeyOrZero
  <2>1. Len(array) \in Nat
    BY <1>6, LenProperties
  <2>2. split \in 1 .. Len(array) - 1 /\ split \in 0 .. Len(array)
    BY <1>b, <1>3, <2>1, SizesAssumption DEF InternalSplitIndex
  <2>3. /\ left \in Seq(ChildPair) /\ right \in Seq(ChildPair)
        /\ Len(left) = split /\ Len(right) = Len(array) - split
        /\ EachOnce(left) /\ EachOnce(right)
        /\ Children(left) \cup Children(right) = Children(array)
        /\ Children(left) \cap Children(right) = {}
    <3>1. array \in Seq(ChildPair) /\ EachOnce(array) /\ split \in 0 .. Len(array)
      BY <1>6, <2>2
    <3>2. left = FrontOf(array, split) /\ right = BackOf(array, split)
      BY <1>c DEF FrontOf, BackOf
    <3> QED
      BY <3>1, <3>2, CutChildren
  <2>4. Len(left) # 0 /\ Len(right) # 0 /\ 1 \in 1 .. Len(right)
    BY <2>1, <2>2, <2>3
  <2>5. left # <<>> /\ right # <<>>
    BY <2>4
  <2>6. right[1] \in ChildPair
    BY <2>3, <2>4, ElementOfSeq
  <2> QED
    BY <1>6, <2>3, <2>5, <2>6 DEF ChildPair
<1>9. /\ page \in InternalPage /\ page.leaf = FALSE /\ page.array = right
      /\ page.parent = pages[P].parent /\ page.next = INVALID_PAGE_ID
  <2>1. pages[P].parent \in Int
    BY <1>6 DEF InternalPage
  <2> QED
    BY <1>d, <1>8, <2>1 DEF Internal, InternalPage, INVALID_PAGE_ID
<1>10. /\ DOMAIN inserted = DOMAIN pages
       /\ \A p \in DOMAIN pages : p # P => inserted[p] = pages[p]
       /\ inserted[P] = [pages[P] EXCEPT !.array = left]
  <2>1. pages[new] \in LeafPage \cup InternalPage
    BY <1>1, <1>4, <1>5 DEF PagesTyped
  <2>2. [pages[new] EXCEPT !.parent = P] = pages[new]
    BY <1>4, <2>1 DEF LeafPage, InternalPage
  <2> QED
    BY <1>e, <1>4, <1>5, <1>6, <2>2
<1>11. /\ inserted[P] \in InternalPage /\ inserted[P].leaf = FALSE
       /\ inserted[P].parent = pages[P].parent /\ inserted[P].next = pages[P].next
       /\ inserted[P].array = left
  BY <1>6, <1>8, <1>10 DEF InternalPage
<1>12. /\ DOMAIN store = DOMAIN pages
       /\ \A p \in DOMAIN pages :
            /\ store[p] \in LeafPage \cup InternalPage
            /\ store[p].leaf = inserted[p].leaf
            /\ store[p].next = inserted[p].next
            /\ store[p].array = inserted[p].array
            /\ store[p].parent = IF p \in Children(right) THEN N ELSE inserted[p].parent
            /\ Kids(store, p) = Kids(inserted, p)
  <2>1. \A p \in DOMAIN inserted : inserted[p] \in LeafPage \cup InternalPage
    BY <1>1, <1>10, <1>11 DEF PagesTyped
  <2>2. N \in Int
    BY <1>7
  <2> QED
    BY <1>f, <1>10, <2>1, <2>2, Reparented
<1>13. /\ DOMAIN pages' = DOMAIN pages \cup {N}
       /\ pages'[N] = page
       /\ \A p \in DOMAIN pages : pages'[p] = store[p]
  BY <1>3, <1>7, <1>12 DEF Put
<1>14. /\ \A p \in DOMAIN pages :
            /\ pages'[p] \in LeafPage \cup InternalPage
            /\ pages'[p].leaf = pages[p].leaf
            /\ pages'[p].next = pages[p].next
            /\ p # P => pages'[p].array = pages[p].array
            /\ pages'[p].parent = IF p \in Children(right) THEN N ELSE pages[p].parent
            /\ p # P => Kids(pages', p) = Kids(pages, p)
       /\ pages'[P].array = left /\ Kids(pages', P) = Children(left)
       /\ pages'[N].leaf = FALSE /\ pages'[N].array = right
       /\ pages'[N].parent = pages[P].parent /\ Kids(pages', N) = Children(right)
  <2>1. pages[P].leaf = FALSE
    BY <1>6 DEF InternalPage
  <2>2. pages'[N].leaf = FALSE /\ pages'[N].array = right
        /\ pages'[N].parent = pages[P].parent /\ Kids(pages', N) = Children(right)
    BY <1>9, <1>13 DEF Kids
  <2>3. /\ pages'[P].leaf = FALSE /\ pages'[P].array = left /\ pages'[P].next = pages[P].next
        /\ Kids(pages', P) = Children(left)
    BY <1>5, <1>6, <1>11, <1>12, <1>13 DEF Kids
  <2>4. ASSUME NEW p \in DOMAIN pages
        PROVE  /\ pages'[p] \in LeafPage \cup InternalPage
               /\ pages'[p].leaf = pages[p].leaf
               /\ pages'[p].next = pages[p].next
               /\ p # P => pages'[p].array = pages[p].array
               /\ pages'[p].parent = IF p \in Children(right) THEN N ELSE pages[p].parent
               /\ p # P => Kids(pages', p) = Kids(pages, p)
    <3>1. CASE p = P
      BY <1>11, <1>12, <1>13, <2>1, <2>3, <3>1
    <3>2. CASE p # P
      BY <1>10, <1>12, <1>13, <3>2 DEF Kids
    <3> QED
      BY <3>1, <3>2
  <2> QED
    BY <2>2, <2>3, <2>4
<1>15. Kids(pages, P) \subseteq T /\ \A c \in Children(left) \cup Children(right) :
         c \in T /\ pages[c].parent = P /\ level[P] = level[c] + 1
  BY <1>2, <1>4, <1>6, <1>8 DEF TreeShape, ParentsOfKids
<1>16. PagesTyped'
  <2>1. ASSUME NEW p \in DOMAIN pages'
        PROVE  /\ pages'[p] \in LeafPage \cup InternalPage
               /\ pages'[p].parent \in DOMAIN pages' \cup {INVALID_PAGE_ID}
               /\ pages'[p].next \in DOMAIN pages' \cup {INVALID_PAGE_ID}
               /\ pages'[p].leaf => Len(pages'[p].array) <= LeafMax
               /\ ~pages'[p].leaf => Children(pages'[p].array) \subseteq DOMAIN pages'
    <3>1. pages[P].parent \in DOMAIN pages \cup {INVALID_PAGE_ID}
      BY <1>1, <1>5, <1>6 DEF PagesTyped, PageOrNone
    <3>2. Children(left) \subseteq DOMAIN pages /\ Children(right) \subseteq DOMAIN pages
      BY <1>5, <1>15
    <3>3. CASE p = N
      BY <1>9, <1>13, <3>1, <3>2, <3>3
    <3>4. CASE p = P
      <4>1. /\ pages'[P] \in LeafPage \cup InternalPage
            /\ pages'[P].leaf = pages[P].leaf /\ pages'[P].next = pages[P].next
            /\ pages'[P].parent \in {N, pages[P].parent}
            /\ pages'[P].array = left
        BY <1>5, <1>6, <1>14
      <4>2. pages[P].next \in DOMAIN pages \cup {INVALID_PAGE_ID} /\ ~pages[P].leaf
        BY <1>1, <1>5, <1>6 DEF PagesTyped, PageOrNone
      <4> QED
        BY <1>13, <3>1, <3>2, <3>4, <4>1, <4>2
    <3>5. CASE p \in DOMAIN pages /\ p # P
      BY <1>1, <1>13, <1>14, <3>5 DEF PagesTyped, PageOrNone
    <3> QED
      BY <1>13, <3>3, <3>4, <3>5
  <2>2. DOMAIN pages' = DOMAIN pages \cup {NewPageId}
    BY <1>d, <1>13
  <2> QED
    BY <1>1, <2>1, <2>2, PageAdded
<1> DEFINE T2 == T \cup {N}
           level2 == [p \in T2 |-> IF p = N THEN level[P] ELSE level[p]]
<1>17. /\ T2 \subseteq DOMAIN pages' /\ level2 \in [T2 -> Nat] /\ level2[N] = level[P]
       /\ \A p \in T : level2[p] = level[p] /\ p # N
  BY <1>5, <1>6, <1>7, <1>13
<1> HIDE DEF level2
<1>18. TreeShape(pages', root_page_id, N, T2, level2)
  <2>0. level[P] \in Nat /\ level[P] # 0
    BY <1>5, <1>6
  <2>1. Levels(pages', T2, level2)
    BY <1>5, <1>14, <1>17, <2>0 DEF Levels
  <2>2. NodesAreSound(pages', T2)
    <3> SUFFICES ASSUME NEW p \in T2, ~pages'[p].leaf
                 PROVE  pages'[p].array # <<>> /\ EachOnce(pages'[p].array)
      BY DEF NodesAreSound
    <3>1. CASE p = N \/ p = P
      BY <1>8, <1>14, <3>1
    <3>2. CASE p \in T /\ p # P
      BY <1>2, <1>5, <1>14, <3>2 DEF TreeShape, NodesAreSound
    <3> QED
      BY <3>1, <3>2
  <2>3. ParentsOfKids(pages', T2, level2)
    <3> SUFFICES ASSUME NEW p \in T2, NEW c \in Kids(pages', p)
                 PROVE  c \in T2 /\ pages'[c].parent = p /\ level2[p] = level2[c] + 1
      BY DEF ParentsOfKids
    <3>1. CASE p = N
      <4>1. c \in Children(right)
        BY <1>14, <3>1
      <4>2. c \in T /\ level[P] = level[c] + 1
        BY <1>15, <4>1
      <4> QED
        BY <1>5, <1>14, <1>17, <3>1, <4>1, <4>2
    <3>2. CASE p = P
      <4>1. c \in Children(left) /\ c \notin Children(right)
        BY <1>8, <1>14, <3>2
      <4>2. c \in T /\ pages[c].parent = P /\ level[P] = level[c] + 1
        BY <1>15, <4>1
      <4> QED
        BY <1>5, <1>6, <1>14, <1>17, <3>2, <4>1, <4>2
    <3>3. CASE p \in T /\ p # P
      <4>1. c \in Kids(pages, p)
        BY <1>5, <1>14, <3>3
      <4>2. c \in T /\ pages[c].parent = p /\ level[p] = level[c] + 1
        BY <1>2, <3>3, <4>1 DEF TreeShape, ParentsOfKids
      <4>3. c \notin Children(right)
        BY <1>15, <3>3, <4>2
      <4> QED
        BY <1>5, <1>14, <1>17, <3>3, <4>2, <4>3
    <3> QED
      BY <3>1, <3>2, <3>3
  <2>4. RootOnTop(pages', root_page_id, T2, level2)
    <3>1. level[root_page_id] \in Nat /\ Cardinality(DOMAIN pages) \in Nat
      BY <1>1, <1>5, FS_CardinalityType DEF PagesTyped
    <3>2. Cardinality(DOMAIN pages') = Cardinality(DOMAIN pages) + 1
      BY <1>7, <1>13
    <3>3. root_page_id \notin Children(right)
      BY <1>1, <1>5, <1>6, <1>15, PageKinds
    <3>4. pages'[root_page_id].parent = INVALID_PAGE_ID
      BY <1>5, <1>14, <3>3
    <3>5. level2[root_page_id] < Cardinality(DOMAIN pages')
      BY <1>5, <1>17, <3>1, <3>2
    <3>6. \A p \in T2 : level2[p] <= level2[root_page_id]
      BY <1>5, <1>6, <1>17
    <3> QED
      BY <1>5, <3>4, <3>5, <3>6 DEF RootOnTop
  <2>5. KidsOfParents(pages', root_page_id, N, T2)
    <3> SUFFICES ASSUME NEW p \in T2 \ {root_page_id, N}
                 PROVE  pages'[p].parent \in T2 /\ p \in Kids(pages', pages'[p].parent)
      BY DEF KidsOfParents
    <3>1. CASE p \in Children(right)
      BY <1>5, <1>14, <3>1
    <3>2. CASE p = new /\ p \notin Children(right)
      BY <1>4, <1>5, <1>6, <1>8, <1>14, <3>2
    <3>3. CASE p # new /\ p \notin Children(right)
      <4>1. pages[p].parent \in T /\ p \in Kids(pages, pages[p].parent)
        BY <1>2, <1>4, <3>3 DEF TreeShape, KidsOfParents
      <4>2. pages'[p].parent = pages[p].parent
        BY <1>5, <1>14, <3>3
      <4>3. p \in Kids(pages', pages[p].parent)
        BY <1>5, <1>8, <1>14, <3>3, <4>1
      <4> QED
        BY <4>1, <4>2, <4>3
    <3> QED
      BY <3>1, <3>2, <3>3
  <2>6. LeavesOutsideAreEmpty(pages', T2)
    BY <1>2, <1>6, <1>13, <1>14 DEF TreeShape, LeavesOutsideAreEmpty
  <2> QED
    BY <2>1, <2>2, <2>3, <2>4, <2>5, <2>6 DEF TreeShape
<1>19. CallShape(T2, level2)'
  <2>1. todo'.op = "insert" /\ todo'.old = P /\ todo'.new = N
    BY <1>3
  <2>2. {P, N} \subseteq T2 /\ N \notin {P, root_page_id'}
    BY <1>3, <1>5, <1>6, <1>7
  <2>3. level2[N] = level2[P]
    BY <1>6, <1>17
  <2>4. pages'[N].parent = pages'[P].parent
    <3>1. level[P] \in Nat
      BY <1>5, <1>6
    <3>2. P \notin Children(right)
      BY <1>15, <3>1
    <3> QED
      BY <1>5, <1>6, <1>14, <3>2
  <2>5. ASSUME NEW p \in T2
        PROVE  N \notin Kids(pages', p)
    <3>1. CASE p = N \/ p = P
      BY <1>5, <1>7, <1>14, <1>15, <3>1
    <3>2. CASE p \in T /\ p # P
      <4>1. Kids(pages', p) = Kids(pages, p) /\ Kids(pages, p) \subseteq T
        BY <1>2, <1>5, <1>14, <3>2 DEF TreeShape, ParentsOfKids
      <4> QED
        BY <1>5, <1>7, <4>1
    <3> QED
      BY <3>1, <3>2
  <2> QED
    BY <2>1, <2>2, <2>3, <2>4, <2>5 DEF CallShape
<1>20. todo' \in Todo' /\ Pending' = N
  BY <1>3, <1>5, <1>6, <1>8, <1>13 DEF Todo, KeyOrZero, Pending
<1>21. OthersTyped'
  BY <1>1, <1>3, <1>13, <1>20, OthersKept DEF OthersTyped, PageOrNone
<1>22. TreeShape(pages', root_page_id', Pending', T2, level2)
  BY <1>3, <1>18, <1>20
<1>23. T2 \subseteq T \cup {NewPageId} /\ T2 = T \cup (DOMAIN pages' \ DOMAIN pages)
  BY <1>d, <1>7, <1>13
<1> HIDE DEF T2
<1>24. Shaped(T2, level2)'
  BY <1>16, <1>19, <1>21, <1>22 DEF Shaped
<1>25. level2[todo'.old] = level[todo.old] + 1
  BY <1>a, <1>3, <1>6, <1>17
<1> QED
  BY <1>23, <1>24, <1>25

LEMMA ParentSplitsKeepsSound ==
  ASSUME NEW T, SoundTree(T), ParentSplits
  PROVE  GrownAfter(T)
<1>1. PICK level : Shaped(T, level)
  BY DEF SoundTree, Shaped
<1>2. PICK U, higher : /\ U \subseteq T \cup {NewPageId}
                       /\ U = T \cup (DOMAIN pages' \ DOMAIN pages)
                       /\ Shaped(U, higher)'
  BY <1>1, ParentSplitsShaped
<1>3. SoundTree(U)'
  BY <1>2 DEF Shaped, SoundTree
<1> QED
  BY <1>2, <1>3 DEF GrownAfter

-----------------------------------------------------------------------------
(***************************************************************************)
(* Remove goes up the tree.                                                *)
(***************************************************************************)

\* The page with too few pairs, its parent and the sibling it looks at are three
\* pages of the tree, two of them children of the third.
LEMMA UnderflowFacts ==
  ASSUME PagesTyped, OthersTyped, Underflowing, NEW T, NEW level,
         TreeShape(pages, root_page_id, Pending, T, level), CallShape(T, level),
         NEW page, page = todo.page
  PROVE  /\ Pending = INVALID_PAGE_ID
         /\ page \in T \ {root_page_id} /\ Parent \in T /\ Sibling \in T
         /\ page # Sibling /\ Parent # page /\ Parent # Sibling
         /\ level[Sibling] = level[page] /\ level[Parent] = level[page] + 1
         /\ ~pages[Parent].leaf /\ (pages[Sibling].leaf <=> pages[page].leaf)
         /\ Siblings \in Seq(ChildPair) /\ EachOnce(Siblings)
         /\ Kids(pages, Parent) = Children(Siblings)
         /\ {page, Sibling} \subseteq Kids(pages, Parent)
         /\ Position \in 1 .. Len(Siblings)
         /\ SeparatorPosition \in 1 .. Len(Siblings)
         /\ Separator \in KeyOrZero
         /\ PositionOf(Siblings, Sibling) = SiblingPosition
         /\ root_page_id # INVALID_PAGE_ID
         /\ Size(page) < MinSize(page)
<1>1. todo.op = "underflow" /\ SiblingPosition \in 1 .. Len(Siblings)
  BY DEF Underflowing
<1>2. Pending = INVALID_PAGE_ID
  BY <1>1 DEF Pending
<1>3. page \in T \ {root_page_id} /\ Size(page) < MinSize(page)
  BY <1>1 DEF CallShape
<1>4. T \subseteq DOMAIN pages /\ level \in [T -> Nat]
      /\ \A p \in T : pages[p].leaf <=> level[p] = 0
  BY DEF TreeShape, Levels
<1>5. page # INVALID_PAGE_ID
  BY <1>3, <1>4, PageKinds
<1>6. Parent \in T /\ page \in Kids(pages, Parent)
  BY <1>2, <1>3, <1>5 DEF TreeShape, KidsOfParents, Parent
<1>7. ~pages[Parent].leaf /\ Kids(pages, Parent) = Children(Siblings)
  BY <1>6 DEF Kids, Siblings
<1>8. Siblings \in Seq(ChildPair) /\ EachOnce(Siblings)
  BY <1>4, <1>6, <1>7, PageKinds DEF Siblings, TreeShape, NodesAreSound
<1>9. Position \in 1 .. Len(Siblings) /\ Siblings[Position].value = page
  BY <1>6, <1>7, <1>8, PositionOfChild DEF Position
<1>10. SiblingPosition # Position /\ SeparatorPosition \in 1 .. Len(Siblings)
  BY <1>1, <1>9 DEF SiblingPosition, SeparatorPosition
<1>11. Sibling \in Kids(pages, Parent)
  BY <1>1, <1>7 DEF Sibling, Children
<1>12. Sibling # page
  BY <1>1, <1>8, <1>9, <1>10 DEF Sibling, EachOnce
<1>13. PositionOf(Siblings, Sibling) = SiblingPosition
  BY <1>1, <1>8, PositionOfOnly DEF Sibling
<1>14. Separator \in KeyOrZero
  <2>1. Siblings[SeparatorPosition] \in ChildPair
    BY <1>8, <1>10, ElementOfSeq
  <2> QED
    BY <2>1 DEF ChildPair, Separator
<1>15. /\ Sibling \in T
       /\ level[Parent] = level[page] + 1 /\ level[Parent] = level[Sibling] + 1
  BY <1>6, <1>11 DEF TreeShape, ParentsOfKids
<1>16. level[page] \in Nat /\ level[Sibling] \in Nat
  BY <1>3, <1>4, <1>15
<1>17. level[Sibling] = level[page] /\ Parent # page /\ Parent # Sibling
  BY <1>15, <1>16
<1>18. pages[Sibling].leaf <=> pages[page].leaf
  BY <1>3, <1>4, <1>15, <1>17
<1>19. root_page_id # INVALID_PAGE_ID
  BY <1>3 DEF TreeShape, RootOnTop
<1> QED
  BY <1>2, <1>3, <1>6, <1>7, <1>8, <1>9, <1>10, <1>11, <1>12, <1>13, <1>14, <1>15, <1>17,
     <1>18, <1>19

\* Some children of one page move to another page at the same level; a page that
\* gives all of them away may leave the tree, and then its parent's array.
MovesKids(from, to, M, gone, T) ==
  /\ DOMAIN pages' = DOMAIN pages
  /\ \A p \in DOMAIN pages :
       /\ pages'[p].leaf = pages[p].leaf
       /\ pages'[p].parent = IF p \in M THEN to ELSE pages[p].parent
  /\ M \subseteq Kids(pages, from)
  /\ Kids(pages', to) = Kids(pages, to) \cup M
  /\ gone = {} \/ (gone = {from} /\ M = Kids(pages, from))
  /\ gone = {} => Kids(pages', from) = Kids(pages, from) \ M
  /\ \A p \in T \ {from, to} : Kids(pages', p) = Kids(pages, p) \ gone

LEMMA KidsMoved ==
  ASSUME PagesTyped, NEW T, NEW level, NEW root, root # INVALID_PAGE_ID,
         TreeShape(pages, root, INVALID_PAGE_ID, T, level),
         NEW from \in T, NEW to \in T, from # to, level[from] = level[to],
         NEW M, NEW gone, root \notin gone, MovesKids(from, to, M, gone, T),
         NEW T2, T2 = T \ gone,
         NEW level2 \in [T2 -> Nat], \A p \in T2 : level2[p] = level[p],
         NodesAreSound(pages', T2), LeavesOutsideAreEmpty(pages', T2)
  PROVE  TreeShape(pages', root, INVALID_PAGE_ID, T2, level2)
<1>1. /\ T \subseteq DOMAIN pages /\ level \in [T -> Nat]
      /\ \A p \in T : pages[p].leaf <=> level[p] = 0
      /\ root \in T /\ pages[root].parent = INVALID_PAGE_ID
      /\ level[root] < Cardinality(DOMAIN pages)
      /\ \A p \in T : level[p] <= level[root]
  BY DEF TreeShape, Levels, RootOnTop
<1>2. \A p \in T : \A c \in Kids(pages, p) :
        c \in T /\ pages[c].parent = p /\ level[p] = level[c] + 1
  BY DEF TreeShape, ParentsOfKids
<1>0. /\ DOMAIN pages' = DOMAIN pages
      /\ \A p \in DOMAIN pages :
           /\ pages'[p].leaf = pages[p].leaf
           /\ pages'[p].parent = IF p \in M THEN to ELSE pages[p].parent
      /\ M \subseteq Kids(pages, from)
      /\ Kids(pages', to) = Kids(pages, to) \cup M
      /\ gone = {} \/ (gone = {from} /\ M = Kids(pages, from))
      /\ gone = {} => Kids(pages', from) = Kids(pages, from) \ M
      /\ \A p \in T \ {from, to} : Kids(pages', p) = Kids(pages, p) \ gone
  BY DEF MovesKids
<1>3. T2 \subseteq T /\ \A p \in T2 : level2[p] = level[p]
  OBVIOUS
<1>4. to \in T2 /\ root \in T2 /\ (gone = {} \/ gone = {from})
  BY <1>0, <1>1
<1>5. \A c \in M : c \in T2 /\ pages[c].parent = from /\ level[to] = level[c] + 1
  BY <1>0, <1>1, <1>2, <1>4
<1>6. Levels(pages', T2, level2)
  BY <1>0, <1>1, <1>3 DEF Levels
<1>7. ParentsOfKids(pages', T2, level2)
  <2> SUFFICES ASSUME NEW p \in T2, NEW c \in Kids(pages', p)
               PROVE  c \in T2 /\ pages'[c].parent = p /\ level2[p] = level2[c] + 1
    BY DEF ParentsOfKids
  <2>1. CASE c \in M /\ p = to
    BY <1>0, <1>1, <1>3, <1>4, <1>5, <2>1
  <2>2. CASE c \in Kids(pages, p) /\ c \notin M /\ c \notin gone
    <3>1. c \in T /\ pages[c].parent = p /\ level[p] = level[c] + 1
      BY <1>2, <1>3, <2>2
    <3>2. c \in T2 /\ pages'[c].parent = p
      BY <1>0, <1>1, <2>2, <3>1
    <3> QED
      BY <1>3, <3>1, <3>2
  <2>3. CASE p = to /\ c \notin M
    <3>1. c \in Kids(pages, to) /\ level[to] = level[c] + 1 /\ c \in T
      BY <1>0, <1>2, <2>3
    <3>2. c # from
      BY <1>0, <1>1, <3>1
    <3> QED
      BY <1>0, <2>2, <2>3, <3>1, <3>2
  <2>4. CASE p = from
    <3>1. gone = {}
      BY <1>0, <2>4
    <3> QED
      BY <1>0, <2>2, <2>4, <3>1
  <2>5. CASE p \notin {from, to}
    <3>1. c \in Kids(pages, p) /\ c \notin gone
      BY <1>0, <1>3, <2>5
    <3>2. c \notin M
      BY <1>0, <1>2, <1>3, <1>5, <2>5, <3>1
    <3> QED
      BY <1>0, <2>2, <3>1, <3>2
  <2> QED
    BY <2>1, <2>3, <2>4, <2>5
<1>8. RootOnTop(pages', root, T2, level2)
  <2>1. root \notin M
    BY <1>0, <1>1, <1>5, PageKinds
  <2>2. pages'[root].parent = INVALID_PAGE_ID
    BY <1>0, <1>1, <2>1
  <2>3. level2[root] < Cardinality(DOMAIN pages') /\ \A p \in T2 : level2[p] <= level2[root]
    BY <1>0, <1>1, <1>3, <1>4
  <2> QED
    BY <1>4, <2>2, <2>3 DEF RootOnTop
<1>9. KidsOfParents(pages', root, INVALID_PAGE_ID, T2)
  <2> SUFFICES ASSUME NEW p \in T2 \ {root, INVALID_PAGE_ID}
               PROVE  pages'[p].parent \in T2 /\ p \in Kids(pages', pages'[p].parent)
    BY DEF KidsOfParents
  <2>1. CASE p \in M
    BY <1>0, <1>1, <1>3, <1>4, <2>1
  <2>2. CASE p \notin M
    <3> DEFINE q == pages[p].parent
    <3>1. q \in T /\ p \in Kids(pages, q)
      BY <1>0, <1>3 DEF TreeShape, KidsOfParents
    <3>2. pages'[p].parent = q
      BY <1>0, <1>1, <1>3, <2>2
    <3>3. q \in T2
      BY <1>0, <2>2, <3>1
    <3> HIDE DEF q
    <3>4. p \in Kids(pages', q)
      <4>1. CASE q = to
        BY <1>0, <3>1, <4>1
      <4>2. CASE q = from
        BY <1>0, <2>2, <3>1, <3>3, <4>2
      <4>3. CASE q \notin {from, to}
        BY <1>0, <3>1, <3>3, <4>3
      <4> QED
        BY <4>1, <4>2, <4>3
    <3> QED
      BY <3>2, <3>3, <3>4
  <2> QED
    BY <2>1, <2>2
<1> QED
  BY <1>6, <1>7, <1>8, <1>9 DEF TreeShape

\* Writing to a page, the array and perhaps the sibling pointer.
Fits(page, array) == array \in IF page.leaf THEN Seq(LeafPair) ELSE Seq(ChildPair)

WithArray(page, array) == [page EXCEPT !.array = array]
WithArrayAndNext(page, array, next) == [page EXCEPT !.array = array, !.next = next]

LEMMA PageWritten ==
  ASSUME NEW page \in LeafPage \cup InternalPage, NEW array, Fits(page, array),
         NEW next \in Int, NEW r,
         \/ r = WithArrayAndNext(page, array, next)
         \/ r = WithArray(page, array) /\ next = page.next
  PROVE  /\ r \in LeafPage \cup InternalPage
         /\ r.leaf = page.leaf /\ r.parent = page.parent
         /\ r.next = next /\ r.array = array
<1>1. CASE page \in LeafPage
  <2>1. page.leaf = TRUE /\ array \in Seq(LeafPair)
    BY <1>1 DEF LeafPage, Fits
  <2> QED
    BY <1>1, <2>1 DEF LeafPage, WithArray, WithArrayAndNext
<1>2. CASE page \in InternalPage
  <2>1. page.leaf = FALSE /\ array \in Seq(ChildPair)
    BY <1>2 DEF InternalPage, Fits
  <2> QED
    BY <1>2, <2>1 DEF InternalPage, WithArray, WithArrayAndNext
<1> QED
  BY <1>1, <1>2

\* Three pages got new arrays, and the pages in M a new parent.
ArraysWritten(x, y, z, a, b, c, M, to) ==
  /\ DOMAIN pages' = DOMAIN pages
  /\ \A p \in DOMAIN pages :
       /\ pages'[p] \in LeafPage \cup InternalPage
       /\ pages'[p].leaf = pages[p].leaf
       /\ pages'[p].parent = IF p \in M THEN to ELSE pages[p].parent
       /\ pages'[p].next \in PageOrNone
       /\ p \notin {x, y, z} => pages'[p].array = pages[p].array
  /\ pages'[x].array = a /\ pages'[y].array = b /\ pages'[z].array = c

LEMMA Written ==
  ASSUME PagesTyped, NEW x \in DOMAIN pages, NEW y \in DOMAIN pages, NEW z \in DOMAIN pages,
         x # y, x # z, y # z,
         NEW a, Fits(pages[x], a), NEW b, Fits(pages[y], b), NEW c, Fits(pages[z], c),
         NEW next \in PageOrNone,
         NEW store, DOMAIN store = DOMAIN pages,
         \A p \in DOMAIN pages \ {x, y, z} : store[p] = pages[p],
         store[x] = WithArray(pages[x], a),
         store[y] = WithArrayAndNext(pages[y], b, next),
         store[z] = WithArray(pages[z], c),
         NEW moved, NEW to \in DOMAIN pages, pages' = Adopt(store, moved, to),
         NEW M, M = IF pages[to].leaf THEN {} ELSE Children(moved)
  PROVE  ArraysWritten(x, y, z, a, b, c, M, to)
<1>1. \A p \in DOMAIN pages : /\ pages[p] \in LeafPage \cup InternalPage
                              /\ pages[p].next \in PageOrNone
                              /\ p \in Nat
  BY PageKinds DEF PagesTyped
<1>2. \A n \in PageOrNone : n \in Int
  BY <1>1 DEF PageOrNone, INVALID_PAGE_ID
<1> DEFINE Sound(p) == /\ store[p] \in LeafPage \cup InternalPage
                       /\ store[p].leaf = pages[p].leaf
                       /\ store[p].parent = pages[p].parent
                       /\ store[p].next \in PageOrNone
<1>6. Sound(x) /\ store[x].array = a
  BY <1>1, <1>2, PageWritten
<1>7. Sound(y) /\ store[y].array = b
  <2>1. pages[y] \in LeafPage \cup InternalPage /\ next \in Int
    BY <1>1, <1>2
  <2>2. /\ store[y] \in LeafPage \cup InternalPage
        /\ store[y].leaf = pages[y].leaf /\ store[y].parent = pages[y].parent
        /\ store[y].next = next /\ store[y].array = b
    BY <2>1, PageWritten
  <2> QED
    BY <2>2
<1>8. Sound(z) /\ store[z].array = c
  BY <1>1, <1>2, PageWritten
<1>9. \A p \in DOMAIN pages : Sound(p) /\ (p \notin {x, y, z} => store[p].array = pages[p].array)
  BY <1>1, <1>6, <1>7, <1>8
<1>10. \A p \in DOMAIN store : store[p] \in LeafPage \cup InternalPage
  BY <1>9
<1> HIDE DEF Sound
<1>11. CASE pages[to].leaf
  <2>1. pages' = store
    BY <1>11 DEF Adopt
  <2> QED
    BY <1>6, <1>7, <1>8, <1>9, <1>11, <2>1 DEF ArraysWritten, Sound
<1>12. CASE ~pages[to].leaf
  <2>1. pages' = WithParent(store, M, to) /\ to \in Int
    BY <1>1, <1>12 DEF Adopt
  <2>2. /\ DOMAIN pages' = DOMAIN store
        /\ \A p \in DOMAIN store :
             /\ pages'[p] \in LeafPage \cup InternalPage
             /\ pages'[p].leaf = store[p].leaf
             /\ pages'[p].next = store[p].next
             /\ pages'[p].array = store[p].array
             /\ pages'[p].parent = IF p \in M THEN to ELSE store[p].parent
    BY <1>10, <2>1, Reparented
  <2> QED
    BY <1>6, <1>7, <1>8, <1>9, <2>2 DEF ArraysWritten, Sound
<1> QED
  BY <1>11, <1>12

LEMMA WrittenTyped ==
  ASSUME PagesTyped, NEW x \in DOMAIN pages, NEW y \in DOMAIN pages, NEW z \in DOMAIN pages,
         NEW a, NEW b, NEW c, NEW M, NEW to \in DOMAIN pages,
         ArraysWritten(x, y, z, a, b, c, M, to),
         pages[x].leaf => Len(a) <= LeafMax,
         pages[y].leaf => Len(b) <= LeafMax,
         ~pages[z].leaf,
         \A p \in DOMAIN pages : Kids(pages', p) \subseteq DOMAIN pages
  PROVE  PagesTyped'
<1>1. DOMAIN pages' = DOMAIN pages /\ PageOrNone' = PageOrNone
  BY DEF ArraysWritten, PageOrNone
<1>2. ASSUME NEW p \in DOMAIN pages
      PROVE  /\ pages'[p] \in LeafPage \cup InternalPage
             /\ pages'[p].parent \in PageOrNone
             /\ pages'[p].next \in PageOrNone
             /\ pages'[p].leaf => Len(pages'[p].array) <= LeafMax
             /\ ~pages'[p].leaf => Children(pages'[p].array) \subseteq DOMAIN pages
  <2>1. /\ pages'[p] \in LeafPage \cup InternalPage
        /\ pages'[p].next \in PageOrNone
        /\ pages'[p].leaf = pages[p].leaf
    BY DEF ArraysWritten
  <2>2. pages'[p].parent \in PageOrNone
    BY DEF ArraysWritten, PagesTyped, PageOrNone
  <2>3. pages'[p].leaf => Len(pages'[p].array) <= LeafMax
    <3>1. /\ p \notin {x, y, z} => pages'[p].array = pages[p].array
          /\ pages'[x].array = a /\ pages'[y].array = b
      BY DEF ArraysWritten
    <3>2. pages[p].leaf => Len(pages[p].array) <= LeafMax
      BY DEF PagesTyped
    <3> QED
      BY <2>1, <3>1, <3>2
  <2>4. ~pages'[p].leaf => Children(pages'[p].array) \subseteq DOMAIN pages
    BY DEF Kids
  <2> QED
    BY <2>1, <2>2, <2>3, <2>4
<1> QED
  BY <1>1, <1>2 DEF PagesTyped

\* What the sibling and the page hold after one pair went from one to the other.
PairMoved(page, S, a, b, M) ==
  /\ Fits(pages[S], a) /\ Fits(pages[page], b)
  /\ Len(a) = Size(S) - 1 /\ Len(b) = Size(page) + 1
  /\ pages[page].leaf => Len(a) <= LeafMax /\ Len(b) <= LeafMax /\ M = {}
  /\ ~pages[page].leaf =>
       /\ a # <<>> /\ EachOnce(a) /\ Children(a) = Kids(pages, S) \ M
       /\ b # <<>> /\ EachOnce(b) /\ Children(b) = Kids(pages, page) \cup M
       /\ M \subseteq Kids(pages, S)

LEMMA Redistributed ==
  ASSUME PagesTyped, OthersTyped, Underflowing, NEW T, NEW level,
         TreeShape(pages, root_page_id, Pending, T, level), CallShape(T, level),
         NEW page, page = todo.page, NEW S, S = Sibling, NEW P, P = Parent,
         NEW a, NEW b, NEW c, NEW M,
         PairMoved(page, S, a, b, M),
         c \in Seq(ChildPair), EachOnce(c), Children(c) = Kids(pages, P),
         ArraysWritten(S, page, P, a, b, c, M, page)
  PROVE  /\ PagesTyped'
         /\ TreeShape(pages', root_page_id, INVALID_PAGE_ID, T, level)
<1>1. /\ Pending = INVALID_PAGE_ID
      /\ page \in T \ {root_page_id} /\ P \in T /\ S \in T
      /\ page # S /\ P # page /\ P # S
      /\ level[S] = level[page]
      /\ ~pages[P].leaf /\ (pages[S].leaf <=> pages[page].leaf)
      /\ page \in Kids(pages, P)
      /\ root_page_id # INVALID_PAGE_ID
  BY UnderflowFacts
<1>2. T \subseteq DOMAIN pages /\ level \in [T -> Nat]
  BY DEF TreeShape, Levels
<1>3. c # <<>>
  <2>1. page \in Children(c)
    BY <1>1
  <2> QED
    BY <2>1 DEF Children
<1>4. /\ DOMAIN pages' = DOMAIN pages
      /\ \A p \in DOMAIN pages :
           /\ pages'[p].leaf = pages[p].leaf
           /\ pages'[p].parent = IF p \in M THEN page ELSE pages[p].parent
           /\ p \notin {S, page, P} => pages'[p].array = pages[p].array
      /\ pages'[S].array = a /\ pages'[page].array = b /\ pages'[P].array = c
  BY DEF ArraysWritten
<1>5. /\ Kids(pages', P) = Kids(pages, P)
      /\ Kids(pages', S) = Kids(pages, S) \ M
      /\ Kids(pages', page) = Kids(pages, page) \cup M
      /\ M \in SUBSET Kids(pages, S)
      /\ \A p \in DOMAIN pages \ {S, page, P} : Kids(pages', p) = Kids(pages, p)
  <2>1. Kids(pages', P) = Kids(pages, P)
    BY <1>1, <1>2, <1>4 DEF Kids
  <2>2. ASSUME NEW p \in DOMAIN pages \ {S, page, P}
        PROVE  Kids(pages', p) = Kids(pages, p)
    BY <1>4 DEF Kids
  <2>3. CASE pages[page].leaf
    <3>1. Kids(pages', S) = {} /\ Kids(pages', page) = {} /\ Kids(pages, S) = {}
          /\ Kids(pages, page) = {} /\ M = {}
      BY <1>1, <1>2, <1>4, <2>3 DEF Kids, PairMoved
    <3> QED
      BY <2>1, <2>2, <3>1
  <2>4. CASE ~pages[page].leaf
    <3>1. Kids(pages', S) = Children(a) /\ Kids(pages', page) = Children(b)
      BY <1>1, <1>2, <1>4, <2>4 DEF Kids
    <3> QED
      BY <2>1, <2>2, <2>4, <3>1 DEF PairMoved
  <2> QED
    BY <2>3, <2>4
<1>6. PagesTyped'
  <2>1. \A p \in DOMAIN pages : Kids(pages, p) \subseteq DOMAIN pages
    BY DEF PagesTyped, Kids
  <2>2. ASSUME NEW p \in DOMAIN pages
        PROVE  Kids(pages', p) \subseteq DOMAIN pages
    <3>1. Kids(pages', p) \subseteq Kids(pages, p) \cup Kids(pages, S)
      BY <1>5
    <3> QED
      BY <1>1, <1>2, <2>1, <3>1
  <2>3. /\ pages[S].leaf => Len(a) <= LeafMax
        /\ pages[page].leaf => Len(b) <= LeafMax
    BY <1>1 DEF PairMoved
  <2> QED
    BY <1>1, <1>2, <2>2, <2>3, WrittenTyped
<1>7. NodesAreSound(pages', T)
  <2> SUFFICES ASSUME NEW p \in T, ~pages'[p].leaf
               PROVE  pages'[p].array # <<>> /\ EachOnce(pages'[p].array)
    BY DEF NodesAreSound
  <2>1. CASE p = S \/ p = page
    BY <1>1, <1>2, <1>4, <2>1 DEF PairMoved
  <2>2. CASE p = P
    BY <1>3, <1>4, <2>2
  <2>3. CASE p \notin {S, page, P}
    BY <1>2, <1>4, <2>3 DEF TreeShape, NodesAreSound
  <2> QED
    BY <2>1, <2>2, <2>3
<1>8. LeavesOutsideAreEmpty(pages', T)
  BY <1>1, <1>4 DEF TreeShape, LeavesOutsideAreEmpty
<1>9. MovesKids(S, page, M, {}, T)
  BY <1>1, <1>2, <1>4, <1>5 DEF MovesKids
<1>10. T = T \ {} /\ root_page_id \notin {}
  OBVIOUS
<1>11. TreeShape(pages, root_page_id, INVALID_PAGE_ID, T, level)
  BY <1>1
<1>12. TreeShape(pages', root_page_id, INVALID_PAGE_ID, T, level)
  BY <1>1, <1>2, <1>7, <1>8, <1>9, <1>10, <1>11, KidsMoved
<1> QED
  BY <1>6, <1>12

\* A new separator is no change to the children.
LEMMA SeparatorSet ==
  ASSUME PagesTyped, OthersTyped, Underflowing, NEW T, NEW level,
         TreeShape(pages, root_page_id, Pending, T, level), CallShape(T, level),
         NEW key \in KeyOrZero, NEW c, c = SetKeyAt(Siblings, SeparatorPosition, key)
  PROVE  /\ c \in Seq(ChildPair) /\ EachOnce(c) /\ Len(c) = Size(Parent)
         /\ Children(c) = Kids(pages, Parent)
<1>1. /\ Siblings \in Seq(ChildPair) /\ EachOnce(Siblings)
      /\ Kids(pages, Parent) = Children(Siblings)
      /\ SeparatorPosition \in 1 .. Len(Siblings)
  BY UnderflowFacts
<1>2. PICK i, pair : i = SeparatorPosition /\ pair = Siblings[i]
  OBVIOUS
<1>3. pair \in ChildPair
  BY <1>1, <1>2, ElementOfSeq
<1>4. Pair(key, pair.value) \in ChildPair /\ pair = Pair(pair.key, pair.value)
  BY <1>3 DEF Pair, ChildPair
<1>5. Siblings \in Seq(ChildPair) /\ EachOnce(Siblings) /\ i \in 1 .. Len(Siblings)
      /\ c = SetKeyAt(Siblings, i, key)
  BY <1>1, <1>2
<1>6. /\ c \in Seq(ChildPair) /\ EachOnce(c) /\ Children(c) = Children(Siblings)
      /\ Len(c) = Len(Siblings)
  BY <1>2, <1>4, <1>5, SetKeyKeepsChildren
<1> QED
  BY <1>1, <1>6 DEF Size, Siblings

\* Sizes: what a page with too few pairs can take up.
LEMMA UnderflowSizes ==
  ASSUME PagesTyped, NEW p \in DOMAIN pages, NEW q \in DOMAIN pages,
         pages[p].leaf <=> pages[q].leaf
  PROVE  /\ MinSize(p) = MinSize(q) /\ MinSize(p) \in Nat \ {0}
         /\ pages[p].leaf => MinSize(p) + MinSize(q) <= LeafMax
         /\ LeafMax \in Nat
<1>1. MaxSize(p) = MaxSize(q)
  BY DEF MaxSize
<1>2. MaxSize(p) \in Nat \ {0, 1}
  BY SizesAssumption DEF MaxSize
<1>3. MinSize(p) \in Nat \ {0} /\ MinSize(p) + MinSize(p) <= MaxSize(p)
  <2>1. PICK m \in Nat \ {0, 1} : m = MaxSize(p)
    BY <1>2
  <2>2. m \div 2 \in Nat \ {0} /\ (m \div 2) + (m \div 2) <= m
    OBVIOUS
  <2>3. MinSize(p) = m \div 2
    BY <2>1 DEF MinSize
  <2> QED
    BY <2>1, <2>2, <2>3
<1>4. MinSize(p) = MinSize(q)
  BY <1>1 DEF MinSize
<1>5. pages[p].leaf => MaxSize(p) = LeafMax
  BY DEF MaxSize
<1> QED
  BY <1>3, <1>4, <1>5, SizesAssumption

\* A pair on its way from a page to its sibling.
LEMMA MovedPair ==
  ASSUME PagesTyped, OthersTyped, Underflowing, NEW T, NEW level,
         TreeShape(pages, root_page_id, Pending, T, level), CallShape(T, level)
  PROVE  /\ \A pair : pages[todo.page].leaf => Moved(pair) = pair
         /\ \A pair \in ChildPair : ~pages[todo.page].leaf =>
              /\ Moved(pair) \in ChildPair
              /\ Moved(pair).value = pair.value
              /\ Moved(pair).key \in KeyOrZero
<1>1. Separator \in KeyOrZero
  BY UnderflowFacts
<1>2. \A pair : pages[todo.page].leaf => Moved(pair) = pair
  BY DEF Moved
<1>3. ASSUME NEW pair \in ChildPair, ~pages[todo.page].leaf
      PROVE  /\ Moved(pair) \in ChildPair
             /\ Moved(pair).value = pair.value
             /\ Moved(pair).key \in KeyOrZero
  <2>1. Moved(pair) = [key |-> Separator, value |-> pair.value]
    BY <1>3 DEF Moved, Pair
  <2> QED
    BY <1>1, <2>1 DEF ChildPair
<1> QED
  BY <1>2, <1>3

\* What MoveLastToFrontOf did.
LEMMA FromLeftEffect ==
  ASSUME PagesTyped, OthersTyped, RedistributeFromLeft, NEW T, NEW level,
         TreeShape(pages, root_page_id, Pending, T, level), CallShape(T, level),
         NEW page, page = todo.page, NEW S, S = Sibling, NEW P, P = Parent
  PROVE  \E a, b, c, M :
           /\ PairMoved(page, S, a, b, M)
           /\ c \in Seq(ChildPair) /\ EachOnce(c) /\ Children(c) = Kids(pages, P)
           /\ Len(c) = Size(P)
           /\ ArraysWritten(S, page, P, a, b, c, M, page)
           /\ a = SubSeq(pages[S].array, 1, Size(S) - 1)
           /\ pages[page].leaf => b = <<pages[S].array[Size(S)]>> \o pages[page].array
<1>1. Underflowing /\ Size(S) > MinSize(S)
  BY DEF RedistributeFromLeft
<1>2. /\ page \in T /\ P \in T /\ S \in T
      /\ page # S /\ P # page /\ P # S /\ level[S] = level[page]
      /\ ~pages[P].leaf /\ (pages[S].leaf <=> pages[page].leaf)
      /\ Size(page) < MinSize(page)
  BY <1>1, UnderflowFacts
<1>3. T \subseteq DOMAIN pages
  BY DEF TreeShape, Levels
<1>4. PICK last, moved : last = pages[S].array[Size(S)] /\ moved = Moved(last)
  OBVIOUS
<1>5. PICK a, b, c, M, store :
        /\ a = SubSeq(pages[S].array, 1, Size(S) - 1)
        /\ b = <<moved>> \o pages[page].array
        /\ c = SetKeyAt(pages[P].array, SeparatorPosition, moved.key)
        /\ M = IF pages[page].leaf THEN {} ELSE Children(<<moved>>)
        /\ store = [pages EXCEPT ![S].array = a, ![page].array = b, ![P].array = c]
  OBVIOUS
<1>6. pages' = Adopt(store, <<moved>>, page)
  <2>1. pages' = Adopt([pages EXCEPT
                          ![S].array = SubSeq(@, 1, Size(S) - 1),
                          ![page].array = <<moved>> \o @,
                          ![P].array = SetKeyAt(@, SeparatorPosition, moved.key)],
                       <<moved>>, page)
    BY <1>4 DEF RedistributeFromLeft
  <2>2. [pages EXCEPT ![S].array = SubSeq(@, 1, Size(S) - 1),
                      ![page].array = <<moved>> \o @,
                      ![P].array = SetKeyAt(@, SeparatorPosition, moved.key)] = store
    BY <1>2, <1>3, <1>5
  <2> QED
    BY <2>1, <2>2
<1>7. /\ Size(S) = Len(pages[S].array) /\ Size(page) = Len(pages[page].array)
      /\ Size(S) \in Nat /\ Size(page) \in Nat /\ Size(S) > 1
      /\ pages[page].leaf => Size(page) + 1 <= LeafMax
      /\ pages[page].leaf => Size(S) <= LeafMax
  <2>1. Size(S) = Len(pages[S].array) /\ Size(page) = Len(pages[page].array)
    BY DEF Size
  <2>2. Size(S) \in Nat /\ Size(page) \in Nat
    BY <1>2, <1>3, PageKinds
  <2>3. /\ MinSize(page) = MinSize(S) /\ MinSize(page) \in Nat \ {0}
        /\ pages[page].leaf => MinSize(page) + MinSize(S) <= LeafMax
        /\ LeafMax \in Nat
    BY <1>2, <1>3, UnderflowSizes
  <2>4. pages[page].leaf => Size(S) <= LeafMax
    BY <1>2, <1>3, <2>1 DEF PagesTyped
  <2>5. Size(S) > MinSize(S) /\ Size(page) < MinSize(page)
    BY <1>1, <1>2
  <2>6. PICK x, y, m : x = Size(S) /\ y = Size(page) /\ m = MinSize(page)
    OBVIOUS
  <2>7. /\ x \in Nat /\ y \in Nat /\ m \in Nat \ {0} /\ LeafMax \in Nat
        /\ x > m /\ y < m
        /\ pages[page].leaf => m + m <= LeafMax
    BY <2>2, <2>3, <2>5, <2>6
  <2>8. x > 1 /\ (pages[page].leaf => y + 1 <= LeafMax)
    BY <2>7
  <2> QED
    BY <2>1, <2>2, <2>4, <2>6, <2>8
<1>8. PICK kind : /\ kind = IF pages[page].leaf THEN LeafPair ELSE ChildPair
                  /\ pages[S].array \in Seq(kind) /\ pages[page].array \in Seq(kind)
  BY <1>2, <1>3, PageKinds
<1>9. pages[S].array # <<>>
  BY <1>7
<1>10. /\ a \in Seq(kind) /\ Len(a) = Size(S) - 1 /\ last \in kind
       /\ Size(S) \in 1 .. Size(S)
       /\ EachOnce(pages[S].array) =>
            EachOnce(a) /\ Children(a) = Children(pages[S].array) \ {last.value}
  <2>1. PICK array : array = pages[S].array
    OBVIOUS
  <2>2. array \in Seq(kind) /\ array # <<>> /\ Len(array) = Size(S)
    BY <1>7, <1>8, <1>9, <2>1
  <2>3. a = AllButLast(array)
    BY <1>5, <1>7, <2>1 DEF AllButLast
  <2>4. last = array[Len(array)]
    BY <1>4, <1>7, <2>1
  <2>5. /\ a \in Seq(kind) /\ Len(a) = Len(array) - 1
        /\ Len(array) \in 1 .. Len(array) /\ array[Len(array)] \in kind
        /\ EachOnce(array) =>
             EachOnce(a) /\ Children(a) = Children(array) \ {array[Len(array)].value}
    BY <2>2, <2>3, WithoutLast
  <2> QED
    BY <2>1, <2>2, <2>4, <2>5
<1>11. /\ moved \in kind /\ moved.value = last.value /\ moved.key \in KeyOrZero
       /\ pages[page].leaf => moved = last
  <2>1. CASE pages[page].leaf
    <3>1. moved = last /\ kind = LeafPair
      BY <1>1, <1>4, <1>8, <2>1, MovedPair
    <3> QED
      BY <1>10, <3>1 DEF LeafPair, KeyOrZero
  <2>2. CASE ~pages[page].leaf
    <3>1. kind = ChildPair
      BY <1>8, <2>2
    <3> QED
      BY <1>1, <1>4, <1>10, <2>2, <3>1, MovedPair
  <2> QED
    BY <2>1, <2>2
<1>12. PICK one : one = <<moved>>
  OBVIOUS
<1>13. /\ one \in Seq(kind) /\ Len(one) = 1 /\ EachOnce(one) /\ Children(one) = {last.value}
  BY <1>11, <1>12, OnePair
<1>14. /\ b \in Seq(kind) /\ Len(b) = 1 + Size(page)
       /\ b = Joined(one, pages[page].array)
  <2>1. b = Joined(one, pages[page].array)
    BY <1>5, <1>12 DEF Joined
  <2>2. PICK t : t = pages[page].array
    OBVIOUS
  <2>3. t \in Seq(kind) /\ one \in Seq(kind) /\ b = Joined(one, t)
    BY <1>8, <1>13, <2>1, <2>2
  <2>4. b \in Seq(kind) /\ Len(b) = Len(one) + Len(t)
    BY <2>3, JoinedPositions
  <2> QED
    BY <1>7, <1>13, <2>1, <2>2, <2>4
<1>15. /\ c \in Seq(ChildPair) /\ EachOnce(c) /\ Children(c) = Kids(pages, P)
       /\ Len(c) = Size(P)
  BY <1>1, <1>5, <1>11, SeparatorSet DEF Siblings
<1>16. Fits(pages[S], a) /\ Fits(pages[page], b) /\ Fits(pages[P], c)
  BY <1>2, <1>8, <1>10, <1>14, <1>15 DEF Fits
<1>17. PairMoved(page, S, a, b, M)
  <2>0. Len(a) = Size(S) - 1 /\ Len(b) = Size(page) + 1
    BY <1>7, <1>10, <1>14
  <2>1. CASE pages[page].leaf
    <3>1. Len(a) <= LeafMax /\ Len(b) <= LeafMax
      BY <1>2, <1>7, <1>10, <1>14, <2>1, SizesAssumption
    <3>2. M = {}
      BY <1>5, <2>1
    <3> QED
      BY <1>16, <2>0, <2>1, <3>1, <3>2 DEF PairMoved
  <2>2. CASE ~pages[page].leaf
    <3>1. /\ Kids(pages, S) = Children(pages[S].array) /\ EachOnce(pages[S].array)
          /\ Kids(pages, page) = Children(pages[page].array) /\ EachOnce(pages[page].array)
          /\ M = {last.value}
      BY <1>2, <1>5, <1>12, <1>13, <2>2 DEF Kids, TreeShape, NodesAreSound
    <3>2. last.value \in Kids(pages, S)
      BY <1>4, <1>7, <1>10, <3>1 DEF Children
    <3>3. Children(one) \cap Children(pages[page].array) = {}
      BY <1>2, <1>13, <3>1, <3>2 DEF TreeShape, ParentsOfKids
    <3>4. EachOnce(b) /\ Children(b) = Children(one) \cup Children(pages[page].array)
      <4>1. PICK t : t = pages[page].array
        OBVIOUS
      <4>2. /\ t \in Seq(kind) /\ one \in Seq(kind) /\ b = Joined(one, t)
            /\ EachOnce(one) /\ EachOnce(t) /\ Children(one) \cap Children(t) = {}
        BY <1>8, <1>13, <1>14, <3>1, <3>3, <4>1
      <4>3. EachOnce(b) /\ Children(b) = Children(one) \cup Children(t)
        BY <4>2, JoinedChildren
      <4> QED
        BY <4>1, <4>3
    <3>5. a # <<>> /\ b # <<>>
      BY <1>7, <1>10, <1>14
    <3>6. EachOnce(a) /\ Children(a) = Children(pages[S].array) \ {last.value}
      BY <1>10, <3>1
    <3> QED
      BY <1>13, <1>16, <2>0, <2>2, <3>1, <3>2, <3>4, <3>5, <3>6 DEF PairMoved
  <2> QED
    BY <2>1, <2>2
<1>18. ArraysWritten(S, page, P, a, b, c, M, page)
  <2>1. /\ DOMAIN store = DOMAIN pages
        /\ \A p \in DOMAIN pages \ {S, page, P} : store[p] = pages[p]
        /\ store[S] = WithArray(pages[S], a)
        /\ store[page] = WithArrayAndNext(pages[page], b, pages[page].next)
        /\ store[P] = WithArray(pages[P], c)
    <3>1. pages[page] \in LeafPage \cup InternalPage
      BY <1>2, <1>3 DEF PagesTyped
    <3>2. [pages[page] EXCEPT !.array = b]
            = [pages[page] EXCEPT !.array = b, !.next = pages[page].next]
      BY <3>1 DEF LeafPage, InternalPage
    <3> QED
      BY <1>2, <1>3, <1>5, <3>2 DEF WithArray, WithArrayAndNext
  <2>2. pages[page].next \in PageOrNone
    BY <1>2, <1>3 DEF PagesTyped
  <2>3. /\ S \in DOMAIN pages /\ page \in DOMAIN pages /\ P \in DOMAIN pages
        /\ M = IF pages[page].leaf THEN {} ELSE Children(<<moved>>)
    BY <1>2, <1>3, <1>5
  <2> QED
    BY <1>2, <1>6, <1>16, <2>1, <2>2, <2>3, Written
<1> QED
  <2>1. pages[page].leaf => b = <<last>> \o pages[page].array
    BY <1>5, <1>11
  <2> QED
    BY <1>4, <1>5, <1>15, <1>17, <1>18, <2>1

\* What MoveFirstToEndOf did.
LEMMA FromRightEffect ==
  ASSUME PagesTyped, OthersTyped, RedistributeFromRight, NEW T, NEW level,
         TreeShape(pages, root_page_id, Pending, T, level), CallShape(T, level),
         NEW page, page = todo.page, NEW S, S = Sibling, NEW P, P = Parent
  PROVE  \E a, b, c, M :
           /\ PairMoved(page, S, a, b, M)
           /\ c \in Seq(ChildPair) /\ EachOnce(c) /\ Children(c) = Kids(pages, P)
           /\ Len(c) = Size(P)
           /\ ArraysWritten(S, page, P, a, b, c, M, page)
           /\ a = Tail(pages[S].array)
           /\ pages[page].leaf => b = Append(pages[page].array, pages[S].array[1])
<1>1. Underflowing /\ Size(S) > MinSize(S)
  BY DEF RedistributeFromRight
<1>2. /\ page \in T /\ P \in T /\ S \in T
      /\ page # S /\ P # page /\ P # S /\ level[S] = level[page]
      /\ ~pages[P].leaf /\ (pages[S].leaf <=> pages[page].leaf)
      /\ Size(page) < MinSize(page)
  BY <1>1, UnderflowFacts
<1>3. T \subseteq DOMAIN pages
  BY DEF TreeShape, Levels
<1>4. PICK first, moved, new_first : /\ first = pages[S].array[1] /\ moved = Moved(first)
                                    /\ new_first = pages[S].array[2].key
  OBVIOUS
<1>5. PICK a, b, c, M, store :
        /\ a = Tail(pages[S].array)
        /\ b = Append(pages[page].array, moved)
        /\ c = SetKeyAt(pages[P].array, SeparatorPosition, new_first)
        /\ M = IF pages[page].leaf THEN {} ELSE Children(<<moved>>)
        /\ store = [pages EXCEPT ![S].array = a, ![page].array = b, ![P].array = c]
  OBVIOUS
<1>6. pages' = Adopt(store, <<moved>>, page)
  <2>1. pages' = Adopt([pages EXCEPT
                          ![S].array = Tail(@),
                          ![page].array = Append(@, moved),
                          ![P].array = SetKeyAt(@, SeparatorPosition, new_first)],
                       <<moved>>, page)
    BY <1>4 DEF RedistributeFromRight
  <2>2. [pages EXCEPT ![S].array = Tail(@),
                      ![page].array = Append(@, moved),
                      ![P].array = SetKeyAt(@, SeparatorPosition, new_first)] = store
    BY <1>2, <1>3, <1>5
  <2> QED
    BY <2>1, <2>2
<1>7. /\ Size(S) = Len(pages[S].array) /\ Size(page) = Len(pages[page].array)
      /\ Size(S) \in Nat /\ Size(page) \in Nat /\ Size(S) > 1
      /\ pages[page].leaf => Size(page) + 1 <= LeafMax
      /\ pages[page].leaf => Size(S) <= LeafMax
  <2>1. Size(S) = Len(pages[S].array) /\ Size(page) = Len(pages[page].array)
    BY DEF Size
  <2>2. Size(S) \in Nat /\ Size(page) \in Nat
    BY <1>2, <1>3, PageKinds
  <2>3. /\ MinSize(page) = MinSize(S) /\ MinSize(page) \in Nat \ {0}
        /\ pages[page].leaf => MinSize(page) + MinSize(S) <= LeafMax
        /\ LeafMax \in Nat
    BY <1>2, <1>3, UnderflowSizes
  <2>4. pages[page].leaf => Size(S) <= LeafMax
    BY <1>2, <1>3, <2>1 DEF PagesTyped
  <2>5. Size(S) > MinSize(S) /\ Size(page) < MinSize(page)
    BY <1>1, <1>2
  <2>6. PICK x, y, m : x = Size(S) /\ y = Size(page) /\ m = MinSize(page)
    OBVIOUS
  <2>7. /\ x \in Nat /\ y \in Nat /\ m \in Nat \ {0} /\ LeafMax \in Nat
        /\ x > m /\ y < m
        /\ pages[page].leaf => m + m <= LeafMax
    BY <2>2, <2>3, <2>5, <2>6
  <2>8. x > 1 /\ (pages[page].leaf => y + 1 <= LeafMax)
    BY <2>7
  <2> QED
    BY <2>1, <2>2, <2>4, <2>6, <2>8
<1>8. PICK kind : /\ kind = IF pages[page].leaf THEN LeafPair ELSE ChildPair
                  /\ pages[S].array \in Seq(kind) /\ pages[page].array \in Seq(kind)
  BY <1>2, <1>3, PageKinds
<1>9. pages[S].array # <<>>
  BY <1>7
<1>10. /\ a \in Seq(kind) /\ Len(a) = Size(S) - 1 /\ first \in kind
       /\ 1 \in 1 .. Size(S)
       /\ new_first \in KeyOrZero
       /\ EachOnce(pages[S].array) =>
            EachOnce(a) /\ Children(a) = Children(pages[S].array) \ {first.value}
  <2>1. PICK array : array = pages[S].array
    OBVIOUS
  <2>2. array \in Seq(kind) /\ array # <<>> /\ Len(array) = Size(S)
    BY <1>7, <1>8, <1>9, <2>1
  <2>3. a = AllButFirst(array)
    BY <1>5, <2>1 DEF AllButFirst
  <2>4. first = array[1] /\ new_first = array[2].key
    BY <1>4, <2>1
  <2>5. /\ a \in Seq(kind) /\ Len(a) = Len(array) - 1
        /\ 1 \in 1 .. Len(array) /\ array[1] \in kind
        /\ EachOnce(array) =>
             EachOnce(a) /\ Children(a) = Children(array) \ {array[1].value}
    BY <2>2, <2>3, WithoutFirst
  <2>6. 2 \in 1 .. Len(array)
    BY <1>7, <2>2
  <2>7. array[2] \in kind
    BY <2>2, <2>6, ElementOfSeq
  <2>8. array[2].key \in KeyOrZero
    BY <1>8, <2>7 DEF LeafPair, ChildPair, KeyOrZero
  <2> QED
    BY <2>1, <2>2, <2>4, <2>5, <2>8
<1>11. /\ moved \in kind /\ moved.value = first.value /\ moved.key \in KeyOrZero
       /\ pages[page].leaf => moved = first
  <2>1. CASE pages[page].leaf
    <3>1. moved = first /\ kind = LeafPair
      BY <1>1, <1>4, <1>8, <2>1, MovedPair
    <3> QED
      BY <1>10, <3>1 DEF LeafPair, KeyOrZero
  <2>2. CASE ~pages[page].leaf
    <3>1. kind = ChildPair
      BY <1>8, <2>2
    <3> QED
      BY <1>1, <1>4, <1>10, <2>2, <3>1, MovedPair
  <2> QED
    BY <2>1, <2>2
<1>12. PICK one : one = <<moved>>
  OBVIOUS
<1>13. /\ one \in Seq(kind) /\ Len(one) = 1 /\ EachOnce(one) /\ Children(one) = {first.value}
  BY <1>11, <1>12, OnePair
<1>14. /\ b \in Seq(kind) /\ Len(b) = 1 + Size(page)
       /\ b = Joined(pages[page].array, one)
  <2>1. b = Joined(pages[page].array, one)
    BY <1>5, <1>8, <1>11, <1>12, AppendIsConcat DEF Joined
  <2>2. PICK t : t = pages[page].array
    OBVIOUS
  <2>3. t \in Seq(kind) /\ one \in Seq(kind) /\ b = Joined(t, one)
    BY <1>8, <1>13, <2>1, <2>2
  <2>4. b \in Seq(kind) /\ Len(b) = Len(t) + Len(one)
    BY <2>3, JoinedPositions
  <2> QED
    BY <1>7, <1>13, <2>1, <2>2, <2>4
<1>15. /\ c \in Seq(ChildPair) /\ EachOnce(c) /\ Children(c) = Kids(pages, P)
       /\ Len(c) = Size(P)
  BY <1>1, <1>5, <1>10, SeparatorSet DEF Siblings
<1>16. Fits(pages[S], a) /\ Fits(pages[page], b) /\ Fits(pages[P], c)
  BY <1>2, <1>8, <1>10, <1>14, <1>15 DEF Fits
<1>17. PairMoved(page, S, a, b, M)
  <2>0. Len(a) = Size(S) - 1 /\ Len(b) = Size(page) + 1
    BY <1>7, <1>10, <1>14
  <2>1. CASE pages[page].leaf
    <3>1. Len(a) <= LeafMax /\ Len(b) <= LeafMax
      BY <1>2, <1>7, <1>10, <1>14, <2>1, SizesAssumption
    <3>2. M = {}
      BY <1>5, <2>1
    <3> QED
      BY <1>16, <2>0, <2>1, <3>1, <3>2 DEF PairMoved
  <2>2. CASE ~pages[page].leaf
    <3>1. /\ Kids(pages, S) = Children(pages[S].array) /\ EachOnce(pages[S].array)
          /\ Kids(pages, page) = Children(pages[page].array) /\ EachOnce(pages[page].array)
          /\ M = {first.value}
      BY <1>2, <1>5, <1>12, <1>13, <2>2 DEF Kids, TreeShape, NodesAreSound
    <3>2. first.value \in Kids(pages, S)
      BY <1>4, <1>7, <1>10, <3>1 DEF Children
    <3>3. Children(one) \cap Children(pages[page].array) = {}
      BY <1>2, <1>13, <3>1, <3>2 DEF TreeShape, ParentsOfKids
    <3>4. EachOnce(b) /\ Children(b) = Children(one) \cup Children(pages[page].array)
      <4>1. PICK t : t = pages[page].array
        OBVIOUS
      <4>2. /\ t \in Seq(kind) /\ one \in Seq(kind) /\ b = Joined(t, one)
            /\ EachOnce(one) /\ EachOnce(t) /\ Children(t) \cap Children(one) = {}
        BY <1>8, <1>13, <1>14, <3>1, <3>3, <4>1
      <4>3. EachOnce(b) /\ Children(b) = Children(t) \cup Children(one)
        BY <4>2, JoinedChildren
      <4> QED
        BY <4>1, <4>3
    <3>5. a # <<>> /\ b # <<>>
      BY <1>7, <1>10, <1>14
    <3>6. EachOnce(a) /\ Children(a) = Children(pages[S].array) \ {first.value}
      BY <1>10, <3>1
    <3> QED
      BY <1>13, <1>16, <2>0, <2>2, <3>1, <3>2, <3>4, <3>5, <3>6 DEF PairMoved
  <2> QED
    BY <2>1, <2>2
<1>18. ArraysWritten(S, page, P, a, b, c, M, page)
  <2>1. /\ DOMAIN store = DOMAIN pages
        /\ \A p \in DOMAIN pages \ {S, page, P} : store[p] = pages[p]
        /\ store[S] = WithArray(pages[S], a)
        /\ store[page] = WithArrayAndNext(pages[page], b, pages[page].next)
        /\ store[P] = WithArray(pages[P], c)
    <3>1. pages[page] \in LeafPage \cup InternalPage
      BY <1>2, <1>3 DEF PagesTyped
    <3>2. [pages[page] EXCEPT !.array = b]
            = [pages[page] EXCEPT !.array = b, !.next = pages[page].next]
      BY <3>1 DEF LeafPage, InternalPage
    <3> QED
      BY <1>2, <1>3, <1>5, <3>2 DEF WithArray, WithArrayAndNext
  <2>2. pages[page].next \in PageOrNone
    BY <1>2, <1>3 DEF PagesTyped
  <2>3. /\ S \in DOMAIN pages /\ page \in DOMAIN pages /\ P \in DOMAIN pages
        /\ M = IF pages[page].leaf THEN {} ELSE Children(<<moved>>)
    BY <1>2, <1>3, <1>5
  <2> QED
    BY <1>2, <1>6, <1>16, <2>1, <2>2, <2>3, Written
<1> QED
  <2>1. pages[page].leaf => b = Append(pages[page].array, first)
    BY <1>5, <1>11
  <2> QED
    BY <1>4, <1>5, <1>15, <1>17, <1>18, <2>1

LEMMA RedistributeKeepsSound ==
  ASSUME NEW T, SoundTree(T), RedistributeFromLeft \/ RedistributeFromRight
  PROVE  SoundAfter(T)
<1>1. /\ Underflowing
      /\ todo' = Idle
      /\ UNCHANGED <<root_page_id, header, result>>
  BY DEF RedistributeFromLeft, RedistributeFromRight
<1>2. PagesTyped /\ OthersTyped
  BY DEF SoundTree
<1>3. PICK level : TreeShape(pages, root_page_id, Pending, T, level) /\ CallShape(T, level)
  BY DEF SoundTree
<1>4. PICK page, S, P : page = todo.page /\ S = Sibling /\ P = Parent
  OBVIOUS
<1>5. PICK a, b, c, M :
        /\ PairMoved(page, S, a, b, M)
        /\ c \in Seq(ChildPair) /\ EachOnce(c) /\ Children(c) = Kids(pages, P)
        /\ ArraysWritten(S, page, P, a, b, c, M, page)
  <2>1. CASE RedistributeFromLeft
    BY <1>2, <1>3, <1>4, <2>1, FromLeftEffect
  <2>2. CASE RedistributeFromRight
    BY <1>2, <1>3, <1>4, <2>2, FromRightEffect
  <2> QED
    BY <2>1, <2>2
<1>6. /\ PagesTyped'
      /\ TreeShape(pages', root_page_id, INVALID_PAGE_ID, T, level)
  BY <1>1, <1>2, <1>3, <1>4, <1>5, Redistributed
<1>7. /\ CallShape(T, level)'
      /\ Pending' = INVALID_PAGE_ID
      /\ todo' \in Todo'
  BY <1>1, QuietAfter
<1>8. DOMAIN pages' = DOMAIN pages
  BY <1>5 DEF ArraysWritten
<1>9. result' \in Values \cup BOOLEAN \cup {Absent}
  BY <1>1, <1>2 DEF OthersTyped
<1>10. root_page_id' \in DOMAIN pages' \cup {INVALID_PAGE_ID}
  BY <1>1, <1>2, <1>8 DEF OthersTyped, PageOrNone
<1>11. OthersTyped'
  BY <1>1, <1>2, <1>7, <1>8, <1>9, <1>10, OthersKept
<1>12. TreeShape(pages', root_page_id', Pending', T, level)
  BY <1>1, <1>6, <1>7
<1> QED
  BY <1>6, <1>7, <1>11, <1>12 DEF SoundTree, SoundAfter

\* The pairs MoveAllTo appends.
MovedArray(array) ==
  [i \in 1 .. Len(array) |-> IF i = 1 THEN Moved(array[i]) ELSE array[i]]

LEMMA MovedArrayFacts ==
  ASSUME PagesTyped, OthersTyped, Underflowing, NEW T, NEW level,
         TreeShape(pages, root_page_id, Pending, T, level), CallShape(T, level),
         NEW kind, kind = IF pages[todo.page].leaf THEN LeafPair ELSE ChildPair,
         NEW array \in Seq(kind), NEW r, r = MovedArray(array)
  PROVE  /\ r \in Seq(kind) /\ Len(r) = Len(array)
         /\ pages[todo.page].leaf => r = array
         /\ ~pages[todo.page].leaf =>
              Children(r) = Children(array) /\ (EachOnce(array) => EachOnce(r))
<1>1. Len(array) \in Nat /\ \A i \in 1 .. Len(array) : array[i] \in kind
  BY LenProperties, ElementOfSeq
<1>2. r = [i \in 1 .. Len(array) |-> IF i = 1 THEN Moved(array[i]) ELSE array[i]]
  BY DEF MovedArray
<1>3. CASE pages[todo.page].leaf
  <2>1. r = [i \in 1 .. Len(array) |-> array[i]]
    BY <1>2, <1>3, MovedPair
  <2>2. array = [i \in 1 .. Len(array) |-> array[i]]
    BY LenProperties
  <2> QED
    BY <1>3, <2>1, <2>2
<1>4. CASE ~pages[todo.page].leaf
  <2>1. ASSUME NEW i \in 1 .. Len(array)
        PROVE  r[i] \in kind /\ r[i].value = array[i].value
    <3>1. PICK x : x = array[i]
      OBVIOUS
    <3>2. x \in ChildPair /\ kind = ChildPair
      BY <1>1, <1>4, <3>1
    <3>3. Moved(x) \in ChildPair /\ Moved(x).value = x.value
      BY <1>4, <3>2, MovedPair
    <3>4. r[i] = IF i = 1 THEN Moved(x) ELSE x
      BY <1>2, <3>1
    <3> QED
      BY <3>1, <3>2, <3>3, <3>4
  <2>2. r \in [1 .. Len(array) -> kind]
    BY <1>2, <2>1
  <2>3. r \in Seq(kind)
    BY <1>1, <2>2, IsASeq
  <2>4. Len(r) = Len(array)
    BY <1>1, <1>2, <2>3, LenProperties
  <2>5. Children(r) = Children(array) /\ (EachOnce(array) => EachOnce(r))
    BY <2>1, <2>4, SameChildren
  <2> QED
    BY <1>4, <2>3, <2>4, <2>5
<1> QED
  BY <1>3, <1>4

\* What the emptied page, the page that took its pairs and their parent hold.
PagesMerged(page, S, P, from, to, b, c, M) ==
  /\ {from, to} = {page, S} /\ from # to
  /\ Fits(pages[to], b) /\ Len(b) = Size(to) + Size(from)
  /\ pages[page].leaf =>
       Len(b) <= LeafMax /\ M = {} /\ b = pages[to].array \o pages[from].array
  /\ ~pages[page].leaf =>
       b # <<>> /\ EachOnce(b) /\ M = Kids(pages, from) /\ Children(b) = Kids(pages, to) \cup M
  /\ c \in Seq(ChildPair) /\ c # <<>> /\ EachOnce(c) /\ Children(c) = Kids(pages, P) \ {from}
  /\ Len(c) = Size(P) - 1

LEMMA CoalesceEffect ==
  ASSUME PagesTyped, OthersTyped, Coalesce, NEW T, NEW level,
         TreeShape(pages, root_page_id, Pending, T, level), CallShape(T, level),
         NEW page, page = todo.page, NEW S, S = Sibling, NEW P, P = Parent
  PROVE  \E from, to, b, c, M :
           /\ PagesMerged(page, S, P, from, to, b, c, M)
           /\ ArraysWritten(from, to, P, <<>>, b, c, M, to)
<1>1. Underflowing /\ Size(S) <= MinSize(S)
  BY DEF Coalesce
<1>2. /\ page \in T /\ P \in T /\ S \in T
      /\ page # S /\ P # page /\ P # S /\ level[S] = level[page]
      /\ ~pages[P].leaf /\ (pages[S].leaf <=> pages[page].leaf)
      /\ Size(page) < MinSize(page)
      /\ Siblings \in Seq(ChildPair) /\ EachOnce(Siblings)
      /\ Kids(pages, P) = Children(Siblings)
      /\ {page, S} \subseteq Kids(pages, P)
  BY <1>1, UnderflowFacts
<1>3. T \subseteq DOMAIN pages
  BY DEF TreeShape, Levels
<1>4. PICK from, to : from = (IF FromLeft THEN S ELSE page) /\ to = (IF FromLeft THEN page ELSE S)
  OBVIOUS
<1>5. /\ {from, to} = {page, S} /\ from # to
      /\ from \in T /\ to \in T /\ P # from /\ P # to
      /\ (pages[from].leaf <=> pages[page].leaf) /\ (pages[to].leaf <=> pages[page].leaf)
      /\ from \in Kids(pages, P) /\ to \in Kids(pages, P)
  BY <1>2, <1>4
<1>6. PICK moved : moved = MovedArray(pages[from].array)
  OBVIOUS
<1>7. PICK b, c, next : /\ b = pages[to].array \o moved
                        /\ c = InternalRemove(pages[P].array, PositionOf(pages[P].array, from))
                        /\ next = pages[from].next
  OBVIOUS
<1>8. PICK M, store :
        /\ M = IF pages[to].leaf THEN {} ELSE Children(moved)
        /\ store = [pages EXCEPT ![from].array = <<>>, ![to].array = b, ![to].next = next,
                                 ![P].array = c]
  OBVIOUS
<1>9. pages' = Adopt(store, moved, to)
  <2>1. moved = [i \in 1 .. Size(from) |->
                   IF i = 1 THEN Moved(pages[from].array[i]) ELSE pages[from].array[i]]
    BY <1>6 DEF MovedArray, Size
  <2>2. pages' = Adopt([pages EXCEPT
                          ![from].array = <<>>,
                          ![to].array = Merged(@, moved),
                          ![to].next = pages[from].next,
                          ![P].array = InternalRemove(@, PositionOf(@, from))],
                       moved, to)
    BY <1>4, <2>1 DEF Coalesce
  <2>3. [pages EXCEPT ![from].array = <<>>,
                      ![to].array = Merged(@, moved),
                      ![to].next = pages[from].next,
                      ![P].array = InternalRemove(@, PositionOf(@, from))] = store
    BY <1>3, <1>5, <1>7, <1>8, <1>2 DEF Merged
  <2> QED
    BY <2>2, <2>3
<1>10. PICK kind : /\ kind = IF pages[page].leaf THEN LeafPair ELSE ChildPair
                   /\ pages[from].array \in Seq(kind) /\ pages[to].array \in Seq(kind)
  BY <1>3, <1>5, PageKinds
<1>11. PICK s, t : s = pages[from].array /\ t = pages[to].array
  OBVIOUS
<1>12. /\ moved \in Seq(kind) /\ Len(moved) = Len(s)
       /\ pages[page].leaf => moved = s
       /\ ~pages[page].leaf =>
            Children(moved) = Children(s) /\ (EachOnce(s) => EachOnce(moved))
  <2>1. s \in Seq(kind) /\ moved = MovedArray(s)
    BY <1>6, <1>10, <1>11
  <2>2. kind = IF pages[todo.page].leaf THEN LeafPair ELSE ChildPair
    BY <1>10
  <2> QED
    BY <1>1, <2>1, <2>2, MovedArrayFacts
<1>13. b = Joined(t, moved) /\ b \in Seq(kind) /\ Len(b) = Len(t) + Len(moved)
  <2>1. b = Joined(t, moved) /\ t \in Seq(kind) /\ moved \in Seq(kind)
    BY <1>7, <1>10, <1>11, <1>12 DEF Joined
  <2> QED
    BY <2>1, JoinedPositions
<1>14. /\ c \in Seq(ChildPair) /\ EachOnce(c) /\ Children(c) = Kids(pages, P) \ {from}
       /\ Len(c) = Size(P) - 1
  <2>1. PICK u : u = Siblings /\ u = pages[P].array
    BY DEF Siblings
  <2>2. /\ u \in Seq(ChildPair) /\ EachOnce(u) /\ from \in Children(u)
        /\ c = InternalRemove(u, PositionOf(u, from))
    BY <1>2, <1>5, <1>7, <2>1
  <2>3. /\ c \in Seq(ChildPair) /\ EachOnce(c) /\ Children(c) = Children(u) \ {from}
        /\ Len(c) = Len(u) - 1
    BY <2>2, RemovedChild
  <2> QED
    BY <1>2, <2>1, <2>3 DEF Size
<1>15. c # <<>>
  <2>1. to \in Children(c)
    BY <1>5, <1>14
  <2> QED
    BY <2>1 DEF Children
<1>16. Fits(pages[from], <<>>) /\ Fits(pages[to], b) /\ Fits(pages[P], c)
  BY <1>2, <1>5, <1>10, <1>13, <1>14 DEF Fits
<1>17. PagesMerged(page, S, P, from, to, b, c, M)
  <2>0. Len(b) = Size(to) + Size(from)
    BY <1>11, <1>12, <1>13 DEF Size
  <2>1. CASE pages[page].leaf
    <3>1. b = pages[to].array \o pages[from].array /\ M = {}
      BY <1>5, <1>7, <1>8, <1>11, <1>12, <2>1
    <3>2. Len(b) <= LeafMax
      <4>1. /\ MinSize(page) = MinSize(S) /\ MinSize(page) \in Nat \ {0}
            /\ MinSize(page) + MinSize(S) <= LeafMax
            /\ LeafMax \in Nat
        BY <1>2, <1>3, <2>1, UnderflowSizes
      <4>2. Size(page) \in Nat /\ Size(S) \in Nat
        BY <1>2, <1>3, PageKinds
      <4>3. PICK x, y, m : x = Size(S) /\ y = Size(page) /\ m = MinSize(page)
        OBVIOUS
      <4>4. /\ x \in Nat /\ y \in Nat /\ m \in Nat /\ LeafMax \in Nat
            /\ x <= m /\ y < m /\ m + m <= LeafMax
        BY <1>1, <1>2, <4>1, <4>2, <4>3
      <4>5. x + y <= LeafMax /\ y + x <= LeafMax
        BY <4>4
      <4>6. Size(to) + Size(from) \in {x + y, y + x}
        BY <1>4, <4>3
      <4> QED
        BY <2>0, <4>5, <4>6
    <3> QED
      BY <1>5, <1>14, <1>15, <1>16, <2>0, <2>1, <3>1, <3>2 DEF PagesMerged
  <2>2. CASE ~pages[page].leaf
    <3>1. /\ Kids(pages, from) = Children(s) /\ EachOnce(s)
          /\ Kids(pages, to) = Children(t) /\ EachOnce(t) /\ t # <<>>
      BY <1>5, <1>11, <2>2 DEF Kids, TreeShape, NodesAreSound
    <3>2. Children(moved) = Children(s) /\ EachOnce(moved)
      BY <1>12, <2>2, <3>1
    <3>3. Children(t) \cap Children(moved) = {}
      BY <1>5, <3>1, <3>2 DEF TreeShape, ParentsOfKids
    <3>4. EachOnce(b) /\ Children(b) = Children(t) \cup Children(moved)
      <4>1. t \in Seq(kind) /\ moved \in Seq(kind) /\ b = Joined(t, moved)
        BY <1>10, <1>11, <1>12, <1>13
      <4> QED
        BY <3>1, <3>2, <3>3, <4>1, JoinedChildren
    <3>5. M = Kids(pages, from)
      BY <1>5, <1>8, <2>2, <3>1, <3>2
    <3>6. b # <<>>
      <4>1. Len(t) \in Nat \ {0} /\ Len(moved) \in Nat
        BY <1>10, <1>11, <1>12, <3>1, LenProperties, EmptySeq
      <4> QED
        BY <1>13, <4>1
    <3> QED
      BY <1>5, <1>14, <1>15, <1>16, <2>0, <2>2, <3>1, <3>2, <3>4, <3>5, <3>6 DEF PagesMerged
  <2> QED
    BY <2>1, <2>2
<1>18. ArraysWritten(from, to, P, <<>>, b, c, M, to)
  <2>1. pages[from].next \in PageOrNone
    BY <1>3, <1>5 DEF PagesTyped
  <2>2. /\ DOMAIN store = DOMAIN pages
        /\ \A p \in DOMAIN pages \ {from, to, P} : store[p] = pages[p]
        /\ store[from] = WithArray(pages[from], <<>>)
        /\ store[to] = WithArrayAndNext(pages[to], b, next)
        /\ store[P] = WithArray(pages[P], c)
    BY <1>2, <1>3, <1>5, <1>8 DEF WithArray, WithArrayAndNext
  <2>3. from \in DOMAIN pages /\ to \in DOMAIN pages /\ P \in DOMAIN pages
    BY <1>2, <1>3, <1>5
  <2>4. pages' = Adopt(store, moved, to) /\ M = IF pages[to].leaf THEN {} ELSE Children(moved)
    BY <1>8, <1>9
  <2>5. from # to /\ from # P /\ to # P /\ next \in PageOrNone
    BY <1>5, <1>7, <2>1
  <2> QED
    BY <1>16, <2>2, <2>3, <2>4, <2>5, Written
<1> QED
  BY <1>17, <1>18

LEMMA PagesMergedShape ==
  ASSUME PagesTyped, OthersTyped, Underflowing, NEW T, NEW level,
         TreeShape(pages, root_page_id, Pending, T, level), CallShape(T, level),
         NEW page, page = todo.page, NEW S, S = Sibling, NEW P, P = Parent,
         NEW from, NEW to, NEW b, NEW c, NEW M,
         PagesMerged(page, S, P, from, to, b, c, M),
         ArraysWritten(from, to, P, <<>>, b, c, M, to),
         NEW T2, T2 = T \ {from}, NEW level2, level2 = [p \in T2 |-> level[p]]
  PROVE  /\ PagesTyped'
         /\ TreeShape(pages', root_page_id, INVALID_PAGE_ID, T2, level2)
         /\ P \in T2 /\ from \in T
<1>1. /\ Pending = INVALID_PAGE_ID
      /\ page \in T \ {root_page_id} /\ P \in T /\ S \in T
      /\ page # S /\ P # page /\ P # S
      /\ level[S] = level[page] /\ level[P] = level[page] + 1
      /\ ~pages[P].leaf /\ (pages[S].leaf <=> pages[page].leaf)
      /\ root_page_id # INVALID_PAGE_ID
  BY UnderflowFacts
<1>2. T \subseteq DOMAIN pages /\ level \in [T -> Nat]
  BY DEF TreeShape, Levels
<1>3. /\ {from, to} = {page, S} /\ from # to
      /\ from \in T /\ to \in T /\ P # from /\ P # to
      /\ level[from] = level[to]
      /\ (pages[from].leaf <=> pages[page].leaf) /\ (pages[to].leaf <=> pages[page].leaf)
  BY <1>1 DEF PagesMerged
<1>4. from # root_page_id
  <2>1. \A p \in T : level[p] <= level[root_page_id]
    BY <1>1 DEF TreeShape, RootOnTop
  <2>2. level[from] = level[page] /\ level[page] \in Nat
    BY <1>1, <1>2, <1>3
  <2> QED
    BY <1>1, <2>1, <2>2
<1>5. /\ DOMAIN pages' = DOMAIN pages
      /\ \A p \in DOMAIN pages :
           /\ pages'[p].leaf = pages[p].leaf
           /\ pages'[p].parent = IF p \in M THEN to ELSE pages[p].parent
           /\ p \notin {from, to, P} => pages'[p].array = pages[p].array
      /\ pages'[from].array = <<>> /\ pages'[to].array = b /\ pages'[P].array = c
  BY DEF ArraysWritten
<1>6. M = Kids(pages, from)
  BY <1>3 DEF PagesMerged, Kids
<1>7. /\ Kids(pages', P) = Kids(pages, P) \ {from}
      /\ Kids(pages', from) = {}
      /\ Kids(pages', to) = Kids(pages, to) \cup M
      /\ \A p \in DOMAIN pages \ {from, to, P} : Kids(pages', p) = Kids(pages, p)
  <2>1. Kids(pages', P) = Kids(pages, P) \ {from}
    BY <1>1, <1>2, <1>5 DEF Kids, PagesMerged
  <2>2. ASSUME NEW p \in DOMAIN pages \ {from, to, P}
        PROVE  Kids(pages', p) = Kids(pages, p)
    BY <1>5 DEF Kids
  <2>3. Kids(pages', from) = {}
    <3>1. Children(<<>>) = {}
      BY DEF Children
    <3> QED
      BY <1>5, <3>1 DEF Kids
  <2>4. Kids(pages', to) = Kids(pages, to) \cup M
    <3>1. CASE pages[page].leaf
      BY <1>2, <1>3, <1>5, <1>6, <3>1 DEF Kids
    <3>2. CASE ~pages[page].leaf
      <4>1. Kids(pages', to) = Children(b)
        BY <1>2, <1>3, <1>5, <3>2 DEF Kids
      <4> QED
        BY <3>2, <4>1 DEF PagesMerged
    <3> QED
      BY <3>1, <3>2
  <2> QED
    BY <2>1, <2>2, <2>3, <2>4
<1>8. PagesTyped'
  <2>1. \A p \in DOMAIN pages : Kids(pages, p) \subseteq DOMAIN pages
    BY DEF PagesTyped, Kids
  <2>2. ASSUME NEW p \in DOMAIN pages
        PROVE  Kids(pages', p) \subseteq DOMAIN pages
    <3>1. Kids(pages', p) \subseteq Kids(pages, p) \cup Kids(pages, from)
      BY <1>6, <1>7
    <3> QED
      BY <1>2, <1>3, <2>1, <3>1
  <2>3. pages[to].leaf => Len(b) <= LeafMax
    BY <1>3 DEF PagesMerged
  <2>4. pages[from].leaf => Len(<<>>) <= LeafMax
    BY SizesAssumption
  <2>5. from \in DOMAIN pages /\ to \in DOMAIN pages /\ P \in DOMAIN pages
    BY <1>1, <1>2, <1>3
  <2> QED
    BY <1>1, <2>2, <2>3, <2>4, <2>5, WrittenTyped
<1>9. NodesAreSound(pages', T2)
  <2> SUFFICES ASSUME NEW p \in T2, ~pages'[p].leaf
               PROVE  pages'[p].array # <<>> /\ EachOnce(pages'[p].array)
    BY DEF NodesAreSound
  <2>1. CASE p = to
    BY <1>2, <1>3, <1>5, <2>1 DEF PagesMerged
  <2>2. CASE p = P
    BY <1>5, <2>2 DEF PagesMerged
  <2>3. CASE p \notin {to, P}
    BY <1>2, <1>5, <2>3 DEF TreeShape, NodesAreSound
  <2> QED
    BY <2>1, <2>2, <2>3
<1>10. LeavesOutsideAreEmpty(pages', T2)
  <2> SUFFICES ASSUME NEW p \in DOMAIN pages \ T2, pages'[p].leaf
               PROVE  pages'[p].array = <<>>
    BY <1>5 DEF LeavesOutsideAreEmpty
  <2>1. CASE p = from
    BY <1>5, <2>1
  <2>2. CASE p \notin T
    BY <1>1, <1>3, <1>5, <2>2 DEF TreeShape, LeavesOutsideAreEmpty
  <2> QED
    BY <2>1, <2>2
<1>11. MovesKids(from, to, M, {from}, T)
  <2>1. \A p \in T \ {from, to} : Kids(pages', p) = Kids(pages, p) \ {from}
    <3> SUFFICES ASSUME NEW p \in T \ {from, to}, p # P
                 PROVE  Kids(pages', p) = Kids(pages, p) \ {from}
      BY <1>7
    <3>1. Kids(pages', p) = Kids(pages, p)
      BY <1>2, <1>7
    <3>2. from \in Kids(pages, P)
      BY <1>1, <1>3, UnderflowFacts
    <3>3. from \notin Kids(pages, p)
      BY <1>1, <3>2 DEF TreeShape, ParentsOfKids
    <3> QED
      BY <3>1, <3>3
  <2> QED
    BY <1>5, <1>6, <1>7, <2>1 DEF MovesKids
<1>12. level2 \in [T2 -> Nat] /\ \A p \in T2 : level2[p] = level[p]
  BY <1>2
<1>13. TreeShape(pages, root_page_id, INVALID_PAGE_ID, T, level)
  BY <1>1
<1>14. root_page_id \notin {from}
  BY <1>4
<1>15. TreeShape(pages', root_page_id, INVALID_PAGE_ID, T2, level2)
  BY <1>1, <1>3, <1>9, <1>10, <1>11, <1>12, <1>13, <1>14, KidsMoved
<1> QED
  BY <1>1, <1>3, <1>8, <1>15

\* So does a removal that may go on.
LEMMA CoalesceShaped ==
  ASSUME NEW T, NEW level, Shaped(T, level), Coalesce
  PROVE  \E U, higher : /\ U \subseteq T \cup {NewPageId}
                        /\ Shaped(U, higher)'
                        /\ higher[Parent] = level[todo.page] + 1
<1>1. /\ Underflowing
      /\ todo' = IF IsRootPage(Parent) THEN [op |-> "adjust root", page |-> Parent]
                 ELSE IF Size(Parent) - 1 < MinSize(Parent)
                      THEN [op |-> "underflow", page |-> Parent]
                      ELSE Idle
      /\ UNCHANGED <<root_page_id, header, result>>
  BY DEF Coalesce, Underflows
<1>2. PagesTyped /\ OthersTyped
  BY DEF Shaped
<1>3. TreeShape(pages, root_page_id, Pending, T, level) /\ CallShape(T, level)
  BY DEF Shaped
<1>4. PICK page, S, P : page = todo.page /\ S = Sibling /\ P = Parent
  OBVIOUS
<1>5. PICK from, to, b, c, M : /\ PagesMerged(page, S, P, from, to, b, c, M)
                               /\ ArraysWritten(from, to, P, <<>>, b, c, M, to)
  BY <1>2, <1>3, <1>4, CoalesceEffect
<1>6. PICK T2 : T2 = T \ {from}
  OBVIOUS
<1>7. PICK level2 : level2 = [p \in T2 |-> level[p]]
  OBVIOUS
<1>8. /\ PagesTyped'
      /\ TreeShape(pages', root_page_id, INVALID_PAGE_ID, T2, level2)
      /\ P \in T2
  <2>1. Underflowing
    BY <1>1
  <2>2. TreeShape(pages, root_page_id, Pending, T, level) /\ CallShape(T, level)
    BY <1>3
  <2>3. page = todo.page /\ S = Sibling /\ P = Parent
    BY <1>4
  <2> QED
    BY ONLY ZenonT(40), <1>2, <1>5, <1>6, <1>7, <2>1, <2>2, <2>3, PagesMergedShape
<1>9. /\ P \in T /\ ~pages[P].leaf /\ Pending = INVALID_PAGE_ID /\ P \in DOMAIN pages
  <2>1. P \in T /\ ~pages[P].leaf /\ Pending = INVALID_PAGE_ID
    BY <1>1, <1>2, <1>3, <1>4, UnderflowFacts
  <2> QED
    BY <1>3, <2>1 DEF TreeShape, Levels
<1>10. IsRootPage(P) <=> P = root_page_id
  <2>1. P # Pending
    BY <1>2, <1>9, PageKinds
  <2> QED
    BY <1>2, <1>3, <1>9, <2>1, OnlyRootHasNoParent
<1>11. /\ DOMAIN pages' = DOMAIN pages
       /\ pages'[P].leaf = pages[P].leaf /\ pages'[P].array = c
  BY <1>9, <1>5 DEF ArraysWritten
<1>12. Len(c) = Size(P) - 1
  BY <1>5 DEF PagesMerged
<1>13. \/ todo' = [op |-> "adjust root", page |-> P] /\ P = root_page_id
       \/ /\ todo' = [op |-> "underflow", page |-> P]
          /\ P # root_page_id /\ Size(P) - 1 < MinSize(P)
       \/ todo' = Idle
  BY <1>1, <1>4, <1>10
<1>14. CallShape(T2, level2)' /\ Pending' = INVALID_PAGE_ID /\ todo' \in Todo'
  <2>1. CASE todo' = [op |-> "adjust root", page |-> P] /\ P = root_page_id
    <3>1. todo'.op = "adjust root" /\ todo'.page = root_page_id'
      <4>1. todo'.op = "adjust root" /\ todo'.page = P
        BY <2>1
      <4> QED
        BY <1>1, <2>1, <4>1
    <3>2. Pending' = INVALID_PAGE_ID
      BY <3>1 DEF Pending
    <3>3. todo' \in Todo'
      BY <1>9, <1>11, <2>1 DEF Todo
    <3>4. ~pages'[root_page_id'].leaf
      BY <1>1, <1>9, <1>11, <2>1
    <3>5. CallShape(T2, level2)'
      BY <3>1, <3>4 DEF CallShape
    <3> QED
      BY <3>2, <3>3, <3>5
  <2>2. CASE /\ todo' = [op |-> "underflow", page |-> P]
             /\ P # root_page_id /\ Size(P) - 1 < MinSize(P)
    <3>1. todo'.op = "underflow" /\ todo'.page = P
      BY <2>2
    <3>2. Pending' = INVALID_PAGE_ID
      BY <3>1 DEF Pending
    <3>3. todo' \in Todo'
      BY <1>9, <1>11, <2>2 DEF Todo
    <3>4. Size(P)' < MinSize(P)'
      <4>1. Size(P)' = Size(P) - 1
        BY <1>11, <1>12 DEF Size
      <4>2. MinSize(P)' = MinSize(P)
        BY <1>11 DEF MinSize, MaxSize
      <4> QED
        BY <2>2, <4>1, <4>2
    <3>5. CallShape(T2, level2)'
      BY <1>1, <1>8, <2>2, <3>1, <3>4 DEF CallShape, Size, MinSize, MaxSize
    <3> QED
      BY <3>2, <3>3, <3>5
  <2>3. CASE todo' = Idle
    BY <2>3, QuietAfter
  <2> QED
    BY <1>13, <2>1, <2>2, <2>3
<1>15. result' \in Values \cup BOOLEAN \cup {Absent}
  BY <1>1, <1>2 DEF OthersTyped
<1>16. root_page_id' \in DOMAIN pages' \cup {INVALID_PAGE_ID}
  BY <1>1, <1>2, <1>11 DEF OthersTyped, PageOrNone
<1>17. OthersTyped'
  BY <1>1, <1>2, <1>11, <1>14, <1>15, <1>16, OthersKept
<1>18. TreeShape(pages', root_page_id', Pending', T2, level2)
  BY <1>1, <1>8, <1>14
<1>19. Shaped(T2, level2)'
  BY <1>8, <1>14, <1>17, <1>18 DEF Shaped
<1>20. level2[P] = level[page] + 1
  <2>1. Underflowing /\ TreeShape(pages, root_page_id, Pending, T, level) /\ CallShape(T, level)
        /\ page = todo.page
    BY <1>1, <1>3, <1>4
  <2>2. level[Parent] = level[page] + 1
    BY ONLY <1>2, <2>1, UnderflowFacts
  <2> QED
    BY <1>4, <1>7, <1>8, <2>2
<1> QED
  BY <1>4, <1>6, <1>19, <1>20

LEMMA CoalesceKeepsSound ==
  ASSUME NEW T, SoundTree(T), Coalesce
  PROVE  SoundAfter(T)
<1>1. PICK level : Shaped(T, level)
  BY DEF SoundTree, Shaped
<1>2. PICK U, higher : U \subseteq T \cup {NewPageId} /\ Shaped(U, higher)'
  BY <1>1, CoalesceShaped
<1>3. SoundTree(U)'
  BY <1>2 DEF Shaped, SoundTree
<1> QED
  BY <1>2, <1>3 DEF SoundAfter

\* A root with one child gives way to it.
LEMMA AdjustRootKeepsSound ==
  ASSUME NEW T, SoundTree(T), AdjustRoot
  PROVE  SoundAfter(T)
<1>1. PICK array, root, old :
        /\ old = todo.page /\ array = pages[old].array
        /\ root = IF array = <<>> THEN INVALID_PAGE_ID ELSE OnlyChild(array)
  OBVIOUS
<1>2. /\ todo.op = "adjust root" /\ todo' = Idle /\ UNCHANGED result
      /\ IF GivesWay(array)
         THEN pages' = WithParent(pages, {root}, INVALID_PAGE_ID) /\ SetRoot(root)
         ELSE UNCHANGED <<pages, root_page_id, header>>
  BY <1>1 DEF AdjustRoot
<1>3. PagesTyped /\ OthersTyped
  BY DEF SoundTree
<1>4. PICK level : TreeShape(pages, root_page_id, Pending, T, level) /\ CallShape(T, level)
  BY DEF SoundTree
<1>5. old = root_page_id /\ ~pages[old].leaf /\ Pending = INVALID_PAGE_ID
  BY <1>1, <1>2, <1>4 DEF CallShape, Pending
<1>6. old \in DOMAIN pages
  <2>1. todo \in Todo /\ todo.op = "adjust root"
    BY <1>2, <1>3 DEF OthersTyped
  <2>2. todo \in [op : {"underflow", "adjust root"}, page : DOMAIN pages]
    <3>1. todo # Idle
      <4>1. Idle.op = "idle"
        BY DEF Idle
      <4> QED
        BY <2>1, <4>1
    <3>2. ASSUME NEW K, NEW D, NEW E, todo \in [op : {"insert"}, old : D, key : K, new : E]
          PROVE  FALSE
      <4>1. todo.op \in {"insert"}
        BY <3>2
      <4> QED
        BY <2>1, <4>1
    <3> QED
      BY <2>1, <3>1, <3>2, Zenon DEF Todo
  <2> QED
    BY <1>1, <2>2
<1>7. result' \in Values \cup BOOLEAN \cup {Absent}
  BY <1>2, <1>3 DEF OthersTyped
<1>8. CASE ~GivesWay(array)
  <2>1. UNCHANGED <<pages, root_page_id, header>>
    BY <1>2, <1>8
  <2>2. PagesTyped'
    BY <1>3, <2>1 DEF PagesTyped, PageOrNone, Children
  <2>3. CallShape(T, level)' /\ Pending' = INVALID_PAGE_ID /\ todo' \in Todo'
    BY <1>2, QuietAfter
  <2>4. OthersTyped'
    BY <1>3, <1>7, <2>1, <2>3, OthersKept DEF OthersTyped, PageOrNone
  <2>5. TreeShape(pages', root_page_id', Pending', T, level)
    BY <1>4, <1>5, <2>1, <2>3
  <2> QED
    BY <2>2, <2>3, <2>4, <2>5 DEF SoundTree, SoundAfter
<1>9. CASE GivesWay(array)
  <2>1. /\ pages' = WithParent(pages, {root}, INVALID_PAGE_ID)
        /\ root_page_id' = root /\ header' \in {root, header}
    BY <1>2, <1>9 DEF SetRoot, UpdateRecord
  <2>2. /\ T \subseteq DOMAIN pages /\ level \in [T -> Nat]
        /\ \A p \in T : pages[p].leaf <=> level[p] = 0
        /\ old \in T /\ old # INVALID_PAGE_ID
        /\ level[old] < Cardinality(DOMAIN pages)
        /\ \A p \in T : level[p] <= level[old]
    <3>1. old # INVALID_PAGE_ID
      BY <1>3, <1>6, PageKinds
    <3> QED
      BY <1>4, <1>5, <3>1 DEF TreeShape, Levels, RootOnTop
  <2>3. array \in Seq(ChildPair) /\ array # <<>> /\ Children(array) = Kids(pages, old)
    BY <1>1, <1>3, <1>4, <1>5, <1>6, <2>2, PageKinds DEF TreeShape, NodesAreSound, Kids
  <2>4. Len(array) = 1
    <3>1. Len(array) \in Nat \ {0}
      BY <2>3, LenProperties, EmptySeq
    <3>2. PICK n \in Nat \ {0} : n = Len(array)
      BY <3>1
    <3>3. n <= 1
      BY <1>9, <3>2 DEF GivesWay
    <3> QED
      BY <3>2, <3>3
  <2>5. Kids(pages, old) = {root} /\ root \in T
    <3>1. root = array[1].value
      BY <1>1, <2>3 DEF OnlyChild
    <3>2. Children(array) = {root}
      BY <2>4, <3>1 DEF Children
    <3> QED
      BY <1>4, <2>2, <2>3, <3>2 DEF TreeShape, ParentsOfKids
  <2>6. \A p \in T : \A c \in Kids(pages, p) :
          c \in T /\ pages[c].parent = p /\ level[p] = level[c] + 1
    BY <1>4 DEF TreeShape, ParentsOfKids
  <2>7. root # old /\ level[old] = level[root] + 1 /\ root # INVALID_PAGE_ID
    BY <1>3, <2>2, <2>5, <2>6, PageKinds
  <2>8. /\ DOMAIN pages' = DOMAIN pages
        /\ \A p \in DOMAIN pages :
             /\ pages'[p] \in LeafPage \cup InternalPage
             /\ pages'[p].leaf = pages[p].leaf
             /\ pages'[p].next = pages[p].next
             /\ pages'[p].array = pages[p].array
             /\ pages'[p].parent = IF p \in {root} THEN INVALID_PAGE_ID ELSE pages[p].parent
             /\ Kids(pages', p) = Kids(pages, p)
    <3>1. \A p \in DOMAIN pages : pages[p] \in LeafPage \cup InternalPage
      BY <1>3 DEF PagesTyped
    <3>2. INVALID_PAGE_ID \in Int
      BY DEF INVALID_PAGE_ID
    <3> QED
      BY <2>1, <3>1, <3>2, Reparented
  <2>9. PagesTyped'
    <3>1. ASSUME NEW p \in DOMAIN pages
          PROVE  /\ pages'[p].parent \in DOMAIN pages \cup {INVALID_PAGE_ID}
                 /\ pages'[p].next \in DOMAIN pages \cup {INVALID_PAGE_ID}
                 /\ pages'[p].leaf => Len(pages'[p].array) <= LeafMax
                 /\ ~pages'[p].leaf => Children(pages'[p].array) \subseteq DOMAIN pages
      BY <1>3, <2>8 DEF PagesTyped, PageOrNone
    <3> QED
      BY <1>3, <2>8, <3>1 DEF PagesTyped, PageOrNone
  <2>10. PICK T2 : T2 = T \ {old}
    OBVIOUS
  <2>11. PICK level2 : level2 = [p \in T2 |-> level[p]]
    OBVIOUS
  <2>12. level2 \in [T2 -> Nat] /\ \A p \in T2 : level2[p] = level[p]
    BY <2>2, <2>10, <2>11
  <2>13. Levels(pages', T2, level2)
    BY <2>2, <2>8, <2>10, <2>12 DEF Levels
  <2>14. NodesAreSound(pages', T2)
    BY <1>4, <2>2, <2>8, <2>10 DEF TreeShape, NodesAreSound
  <2>15. ParentsOfKids(pages', T2, level2)
    <3> SUFFICES ASSUME NEW p \in T2, NEW c \in Kids(pages', p)
                 PROVE  c \in T2 /\ pages'[c].parent = p /\ level2[p] = level2[c] + 1
      BY DEF ParentsOfKids
    <3>1. c \in Kids(pages, p) /\ p \in T /\ p # old
      BY <2>2, <2>8, <2>10
    <3>2. c \in T /\ pages[c].parent = p /\ level[p] = level[c] + 1
      BY <2>6, <3>1
    <3>3. c # root
      BY <2>5, <2>6, <2>2, <3>1, <3>2
    <3>4. c # old
      BY <2>2, <3>1, <3>2
    <3> QED
      BY <2>2, <2>8, <2>10, <2>12, <3>1, <3>2, <3>3, <3>4
  <2>16. KidsOfParents(pages', root, INVALID_PAGE_ID, T2)
    <3> SUFFICES ASSUME NEW p \in T2 \ {root, INVALID_PAGE_ID}
                 PROVE  pages'[p].parent \in T2 /\ p \in Kids(pages', pages'[p].parent)
      BY DEF KidsOfParents
    <3>1. PICK q : q = pages[p].parent
      OBVIOUS
    <3>2. q \in T /\ p \in Kids(pages, q)
      BY <1>4, <1>5, <2>10, <3>1 DEF TreeShape, KidsOfParents
    <3>3. q # old
      BY <2>5, <3>2
    <3>4. pages'[p].parent = q
      BY <2>2, <2>8, <2>10, <3>1
    <3> QED
      BY <2>2, <2>8, <2>10, <3>2, <3>3, <3>4
  <2>17. RootOnTop(pages', root, T2, level2)
    <3>1. root \in T2 /\ pages'[root].parent = INVALID_PAGE_ID
      BY <2>2, <2>5, <2>7, <2>8, <2>10
    <3>2. level[root] < Cardinality(DOMAIN pages)
      <4>1. IsFiniteSet(DOMAIN pages)
        BY <1>3 DEF PagesTyped
      <4>2. Cardinality(DOMAIN pages) \in Nat
        BY <4>1, FS_CardinalityType
      <4> QED
        BY <2>2, <2>5, <2>7, <4>2
    <3>3. ASSUME NEW p \in T2
          PROVE  level[p] <= level[root]
      <4>1. CASE p = root
        BY <2>2, <2>5, <4>1
      <4>2. CASE p # root
        <5>1. p # INVALID_PAGE_ID /\ p \in T /\ p # old
          BY <1>3, <2>2, <2>10, PageKinds
        <5>2. PICK q : q = pages[p].parent
          OBVIOUS
        <5>3. q \in T /\ p \in Kids(pages, q)
          BY <1>4, <1>5, <5>1, <5>2 DEF TreeShape, KidsOfParents
        <5>4. level[q] = level[p] + 1 /\ level[q] <= level[old]
          BY <2>2, <2>6, <5>3
        <5>5. level[p] \in Nat /\ level[root] \in Nat
          BY <2>2, <2>5, <5>1
        <5> QED
          BY <2>7, <5>4, <5>5
      <4> QED
        BY <4>1, <4>2
    <3>4. \A p \in T2 : level2[p] <= level2[root]
      BY <2>12, <3>1, <3>3
    <3>5. level2[root] < Cardinality(DOMAIN pages')
      BY <2>8, <2>12, <3>1, <3>2
    <3> QED
      BY <2>7, <3>1, <3>4, <3>5 DEF RootOnTop
  <2>18. LeavesOutsideAreEmpty(pages', T2)
    BY <1>4, <1>5, <2>8, <2>10 DEF TreeShape, LeavesOutsideAreEmpty
  <2>19. CallShape(T2, level2)' /\ Pending' = INVALID_PAGE_ID /\ todo' \in Todo'
    BY <1>2, QuietAfter
  <2>20. root_page_id' \in DOMAIN pages' \cup {INVALID_PAGE_ID}
    BY <2>1, <2>2, <2>5, <2>8
  <2>21. OthersTyped'
    BY <1>3, <1>7, <2>1, <2>8, <2>19, <2>20, OthersKept
  <2>22. TreeShape(pages', root_page_id', Pending', T2, level2)
    BY <2>1, <2>13, <2>14, <2>15, <2>16, <2>17, <2>18, <2>19 DEF TreeShape
  <2> QED
    BY <2>9, <2>10, <2>19, <2>21, <2>22 DEF SoundTree, SoundAfter
<1> QED
  BY <1>8, <1>9

-----------------------------------------------------------------------------
(***************************************************************************)
(* The theorems.                                                           *)
(***************************************************************************)

LEMMA UnchangedKeepsSound ==
  ASSUME NEW T, SoundTree(T), UNCHANGED vars
  PROVE  GrownAfter(T)
<1>1. UNCHANGED <<pages, root_page_id, header, todo, result>>
  BY DEF vars
<1>2. PagesTyped'
  BY <1>1 DEF SoundTree, PagesTyped, PageOrNone, Children
<1>3. OthersTyped'
  BY <1>1 DEF SoundTree, OthersTyped, PageOrNone, Todo
<1>4. ASSUME NEW level
      PROVE  /\ TreeShape(pages, root_page_id, Pending, T, level)'
                  = TreeShape(pages, root_page_id, Pending, T, level)
             /\ CallShape(T, level)' = CallShape(T, level)
  BY <1>1 DEF TreeShape, Levels, NodesAreSound, ParentsOfKids, RootOnTop, KidsOfParents,
              LeavesOutsideAreEmpty, Kids, Pending, CallShape, Size, MinSize, MaxSize
<1>5. SoundTree(T)'
  BY <1>2, <1>3, <1>4 DEF SoundTree
<1>6. T \subseteq T \cup {NewPageId} /\ T = T \cup (DOMAIN pages' \ DOMAIN pages)
  BY <1>1
<1> QED
  BY <1>5, <1>6 DEF GrownAfter

LEMMA InsertNextKeepsSound ==
  ASSUME NEW T, SoundTree(T), [InsertNext]_vars
  PROVE  GrownAfter(T)
<1>1. CASE InsertStep
  BY <1>1, NewRootKeepsSound, ParentHasRoomKeepsSound, ParentSplitsKeepsSound DEF InsertStep
<1>2. ASSUME NEW k \in Keys, GetValue(k) \/ InsertRefused(k)
      PROVE  GrownAfter(T)
  BY <1>2, GetValueKeepsSound
<1>3. ASSUME NEW k \in Keys, NEW v \in Values,
             StartNewTree(k, v) \/ InsertIntoLeaf(k, v) \/ SplitLeaf(k, v)
      PROVE  GrownAfter(T)
  BY <1>3, StartNewTreeKeepsSound, InsertIntoLeafKeepsSound, SplitLeafKeepsSound
<1>4. CASE UNCHANGED vars
  BY <1>4, UnchangedKeepsSound
<1> QED
  BY <1>1, <1>2, <1>3, <1>4 DEF InsertNext

LEMMA NextKeepsSound ==
  ASSUME NEW T, SoundTree(T), [Next]_vars
  PROVE  SoundAfter(T)
<1>1. CASE [InsertNext]_vars
  BY <1>1, InsertNextKeepsSound DEF GrownAfter, SoundAfter
<1>2. CASE RemoveStep
  BY <1>2, RedistributeKeepsSound, CoalesceKeepsSound, AdjustRootKeepsSound DEF RemoveStep
<1>3. ASSUME NEW k \in Keys, RemoveFromLeaf(k)
      PROVE  SoundAfter(T)
  BY <1>3, RemoveFromLeafKeepsSound
<1> QED
  BY <1>1, <1>2, <1>3 DEF Next

LEMMA NextKeepsIInv == IInv /\ [Next]_vars => IInv'
BY NextKeepsSound DEF IInv, SoundAfter

\* In every state the pages reached from the root form a tree of equally deep leaves
\* with right parent pointers, up to the one page a split has just made.
THEOREM Invariance == Spec => []IInv
<1> QED
  BY InitIInv, NextKeepsIInv, PTL DEF Spec

LEMMA TypesFollow == IInv => TypeOK
<1> SUFFICES ASSUME IInv
             PROVE  TypeOK
  OBVIOUS
<1>1. PagesTyped /\ OthersTyped
  BY DEF IInv, SoundTree
<1>2. ASSUME NEW p \in DOMAIN pages, NEW i \in 1 .. Size(p)
      PROVE  pages[p].array[i] \in Pairs
  <2>1. i \in 1 .. Len(pages[p].array)
    BY DEF Size
  <2>2. CASE pages[p].leaf
    <3>1. pages[p].array[i] \in LeafPair
      BY <1>1, <2>1, <2>2, PageKinds, ElementOfSeq
    <3> QED
      BY <3>1 DEF LeafPair, Pairs
  <2>3. CASE ~pages[p].leaf
    <3>1. pages[p].array[i] \in ChildPair
      BY <1>1, <2>1, <2>3, PageKinds, ElementOfSeq
    <3>2. pages[p].array[i].value \in DOMAIN pages
      BY <1>1, <2>1, <2>3 DEF PagesTyped, Children
    <3> QED
      BY <3>1, <3>2 DEF ChildPair, KeyOrZero, Pairs
  <2> QED
    BY <1>1, <2>2, <2>3, PageKinds
<1>3. ASSUME NEW p \in DOMAIN pages
      PROVE  /\ pages[p].leaf \in BOOLEAN
             /\ {pages[p].parent, pages[p].next} \subseteq DOMAIN pages \cup {INVALID_PAGE_ID}
  BY <1>1, PageKinds DEF PagesTyped, PageOrNone
<1>4. IsFiniteSet(DOMAIN pages)
  BY <1>1 DEF PagesTyped
<1>5. /\ root_page_id \in DOMAIN pages \cup {INVALID_PAGE_ID}
      /\ header \in DOMAIN pages \cup {INVALID_PAGE_ID, NoRecord}
      /\ todo \in Todo
      /\ result \in Values \cup BOOLEAN \cup {Absent}
  BY <1>1 DEF OthersTyped, PageOrNone
<1> QED
  BY <1>2, <1>3, <1>4, <1>5 DEF TypeOK

\* Arrays hold pairs, pointers name pages, and what a call remembers exists.
THEOREM TypeCorrect == Spec => []TypeOK
<1> QED
  BY Invariance, TypesFollow, PTL

\* Between calls, what is reached from the root by going down is what the pages
\* reach the root from by their parent pointers.
LEMMA InTreeIsTheTree ==
  ASSUME PagesTyped, NEW T, NEW level,
         TreeShape(pages, root_page_id, INVALID_PAGE_ID, T, level)
  PROVE  InTree = T
<1>1. CASE IsEmpty
  BY <1>1 DEF InTree, IsEmpty, TreeShape, RootOnTop
<1>2. CASE ~IsEmpty
  <2> DEFINE n == Cardinality(DOMAIN pages)
             X == SUBSET T
             Step(above) == above \cup UNION {ChildrenOf(q) : q \in above}
             g == [y \in (1 .. n) \X X |-> Step(y[2])]
             Reached == CHOOSE f : f = [i \in 0 .. n |->
                                          IF i = 0 THEN {root_page_id} ELSE Step(f[i - 1])]
  <2>1. n \in Nat
    BY FS_CardinalityType DEF PagesTyped
  <2>2. InTree = Reached[n]
    BY <1>2 DEF InTree, Below
  <2>3. /\ root_page_id \in T /\ T \subseteq DOMAIN pages /\ level \in [T -> Nat]
        /\ level[root_page_id] < n
    BY <1>2 DEF TreeShape, Levels, RootOnTop, IsEmpty
  <2>4. \A p : ChildrenOf(p) = Kids(pages, p)
    BY DEF ChildrenOf, Kids
  <2>5. \A p \in T : \A c \in Kids(pages, p) : c \in T /\ level[p] = level[c] + 1
    BY DEF TreeShape, ParentsOfKids
  <2>6. ASSUME NEW above \in X
        PROVE  Step(above) \in X
    BY <2>4, <2>5
  <2> HIDE DEF n, Step
  <2>7. g \in [(1 .. n) \X X -> X]
    BY <2>6
  <2>8. \A i \in 1 .. n : \A above \in X : g[<<i, above>>] = Step(above)
    OBVIOUS
  <2>9. {root_page_id} \in X
    BY <2>3
  <2>10. Reached = CHOOSE f : f = [i \in 0 .. n |->
                                     IF i = 0 THEN {root_page_id} ELSE Step(f[i - 1])]
    OBVIOUS
  <2> HIDE DEF X, g, Reached
  <2>11. PICK h : Course(h, X, {root_page_id}, n, g)
    BY <2>1, <2>7, <2>9, CourseExists
  <2>12. \A i \in 1 .. n : h[i] = Step(h[i - 1])
    <3> TAKE i \in 1 .. n
    <3>1. i - 1 \in 0 .. n
      BY <2>1
    <3>2. h[i - 1] \in X
      BY <2>11, <3>1 DEF Course
    <3> QED
      BY <2>8, <2>11, <3>2 DEF Course
  <2>13. h = [i \in 0 .. n |-> IF i = 0 THEN {root_page_id} ELSE Step(h[i - 1])]
    BY <2>11, <2>12 DEF Course
  <2>14. Reached = [i \in 0 .. n |-> IF i = 0 THEN {root_page_id} ELSE Step(Reached[i - 1])]
    BY <2>10, <2>13
  <2>15. Reached[0] = {root_page_id} /\ \A i \in 1 .. n : Reached[i] = Step(Reached[i - 1])
    BY <2>1, <2>14
  <2> DEFINE Near(i) == {p \in T : level[root_page_id] <= level[p] + i}
             Good == {i \in 0 .. n : Reached[i] \in X /\ Near(i) \subseteq Reached[i]}
             id == [i \in 0 .. n |-> i]
  <2>16. ASSUME NEW p \in T, p # root_page_id
         PROVE  \E q \in T : p \in Kids(pages, q) /\ level[q] = level[p] + 1
                              /\ level[q] <= level[root_page_id]
    <3>1. p # INVALID_PAGE_ID
      BY <2>3, PageKinds
    <3>2. pages[p].parent \in T /\ p \in Kids(pages, pages[p].parent)
      BY <2>16, <3>1 DEF TreeShape, KidsOfParents
    <3>3. \A q \in T : level[q] <= level[root_page_id]
      BY <1>2 DEF TreeShape, RootOnTop, IsEmpty
    <3> QED
      BY <2>5, <3>2, <3>3
  <2>17. id[0] \in Good
    <3>1. ASSUME NEW p \in Near(0)
          PROVE  p = root_page_id
      <4>1. p \in T /\ level[p] \in Nat /\ level[root_page_id] \in Nat
            /\ level[root_page_id] <= level[p] + 0
        BY <2>3
      <4> QED
        BY <2>16, <4>1
    <3> QED
      BY <2>1, <2>9, <2>15, <3>1
  <2>18. \A i \in 1 .. n : id[i - 1] \in Good => id[i] \in Good
    <3> SUFFICES ASSUME NEW i \in 1 .. n, id[i - 1] \in Good
                 PROVE  id[i] \in Good
      OBVIOUS
    <3>1. i - 1 \in 0 .. n /\ id[i - 1] = i - 1
      BY <2>1
    <3>2. PICK above : above = Reached[i - 1]
      OBVIOUS
    <3>3. above \in X /\ Near(i - 1) \subseteq above /\ Reached[i] = Step(above)
      BY <2>15, <3>1, <3>2
    <3>4. ASSUME NEW p \in Near(i)
          PROVE  p \in Step(above)
      <4>1. p \in T /\ level[root_page_id] <= level[p] + i
        OBVIOUS
      <4>2. CASE p = root_page_id
        <5>1. root_page_id \in Near(i - 1)
          BY <2>3, <3>1
        <5> QED
          BY <3>3, <4>2, <5>1 DEF Step
      <4>3. CASE p # root_page_id
        <5>1. PICK q \in T : p \in Kids(pages, q) /\ level[q] = level[p] + 1
          BY <2>16, <4>1, <4>3
        <5>2. level[root_page_id] <= level[q] + (i - 1)
          BY <2>3, <4>1, <5>1, <3>1
        <5>3. q \in above
          BY <3>3, <5>2
        <5> QED
          BY <2>4, <5>1, <5>3 DEF Step
      <4> QED
        BY <4>2, <4>3
    <3>5. Step(above) \in X
      BY <2>6, <3>3
    <3>6. i \in 0 .. n /\ id[i] = i
      BY <2>1
    <3> HIDE DEF Near
    <3> QED
      BY <3>3, <3>4, <3>5, <3>6
  <2>19. \A i \in 0 .. n : id[i] \in Good
    <3> HIDE DEF id, Good
    <3> QED
      BY <2>1, <2>17, <2>18, UpToInduction
  <2>20. Reached[n] \in X /\ Near(n) \subseteq Reached[n]
    <3>1. n \in 0 .. n /\ id[n] = n
      BY <2>1
    <3> HIDE DEF Near
    <3> QED
      BY <2>19, <3>1
  <2>21. T \subseteq Near(n)
    BY <2>1, <2>3
  <2> QED
    BY <2>2, <2>20, <2>21 DEF X
<1> QED
  BY <1>1, <1>2

LEMMA PointersFollow == IInv => ParentsAgree /\ NothingIsStranded
<1> SUFFICES ASSUME IInv, todo = Idle
             PROVE  ParentsAgree /\ NothingIsStranded
  BY DEF ParentsAgree, NothingIsStranded
<1>1. PagesTyped /\ Pending = INVALID_PAGE_ID
  BY QuietCall DEF IInv, SoundTree
<1>2. PICK T, level : TreeShape(pages, root_page_id, INVALID_PAGE_ID, T, level)
  BY <1>1 DEF IInv, SoundTree
<1>3. InTree = T /\ T \subseteq DOMAIN pages
  BY <1>1, <1>2, InTreeIsTheTree DEF TreeShape, Levels
<1>4. ASSUME NEW p \in T
      PROVE  pages[p].parent = INVALID_PAGE_ID <=> p = root_page_id
  <2>1. p # INVALID_PAGE_ID
    BY <1>1, <1>3, PageKinds
  <2> QED
    BY <1>1, <1>2, <2>1, OnlyRootHasNoParent DEF IsRootPage
<1>5. ASSUME NEW p \in T, NEW i \in 1 .. Size(p), ~pages[p].leaf
      PROVE  /\ pages[pages[p].array[i].value].parent = p
             /\ PositionOf(pages[p].array, pages[p].array[i].value) = i
  <2>1. i \in 1 .. Len(pages[p].array)
    BY DEF Size
  <2>2. pages[p].array[i].value \in Kids(pages, p)
    BY <1>5, <2>1 DEF Kids, Children
  <2>3. pages[p].array \in Seq(ChildPair) /\ EachOnce(pages[p].array)
    BY <1>1, <1>2, <1>3, <1>5, PageKinds DEF TreeShape, NodesAreSound
  <2>4. PositionOf(pages[p].array, pages[p].array[i].value) = i
    BY <2>1, <2>3, PositionOfOnly
  <2> QED
    BY <1>2, <2>2, <2>4 DEF TreeShape, ParentsOfKids
<1>6. \A p \in LeafPages \ InTree : pages[p].array = <<>>
  BY <1>2, <1>3 DEF TreeShape, LeavesOutsideAreEmpty, LeafPages
<1> QED
  BY <1>3, <1>4, <1>5, <1>6 DEF ParentsAgree, NothingIsStranded

\* Between calls every page of the tree names the one page that points to it as its
\* parent, and only the root names none: splits, borrowings, merges and the change of
\* the root update parent_page_id_ of every page they move.
THEOREM ParentPointersAreRight == Spec => []ParentsAgree
<1> QED
  BY Invariance, PointersFollow, PTL

\* Between calls a leaf that is not reached from the root holds nothing.
THEOREM NothingGetsCutOff == Spec => []NothingIsStranded
<1> QED
  BY Invariance, PointersFollow, PTL

-----------------------------------------------------------------------------
(***************************************************************************)
(* Restructuring keeps the pairs.                                          *)
(***************************************************************************)

\* The places of a pair e on shelves; and the same, with shelves x and y put together
\* to the one shelf u.
Places(L, max, arr, e) ==
  {at \in L \X (1 .. max) : at[2] <= Len(arr[at[1]]) /\ arr[at[1]][at[2]] = e}

PutTogether(places, x, y, u, e) ==
  {at \in places : at[1] \notin {x, y}} \cup {<<x, k>> : k \in {j \in 1 .. Len(u) : u[j] = e}}

\* Pairs on two shelves, counted as if they stood on one.
LEMMA PairsOnOneShelf ==
  ASSUME NEW S, NEW L, IsFiniteSet(L), NEW max \in Nat,
         NEW arr, \A p \in L : arr[p] \in Seq(S) /\ Len(arr[p]) <= max,
         NEW x \in L, NEW y \in L, x # y, NEW e, NEW u, u = Joined(arr[x], arr[y]),
         NEW C, C = Places(L, max, arr, e), NEW D, D = PutTogether(C, x, y, u, e)
  PROVE  IsFiniteSet(C) /\ Cardinality(C) = Cardinality(D)
<1>1. PICK s, t : s = arr[x] /\ t = arr[y]
  OBVIOUS
<1>2. /\ s \in Seq(S) /\ t \in Seq(S) /\ u = Joined(s, t)
      /\ Len(s) \in Nat /\ Len(t) \in Nat
      /\ Len(s) <= max /\ Len(t) <= max
  BY <1>1, LenProperties
<1>3. /\ Len(u) = Len(s) + Len(t)
      /\ \A i \in 1 .. Len(s) : i \in 1 .. Len(u) /\ u[i] = s[i]
      /\ \A i \in 1 .. Len(t) : Len(s) + i \in 1 .. Len(u) /\ u[Len(s) + i] = t[i]
      /\ \A i \in 1 .. Len(u) : i \notin 1 .. Len(s) =>
           i - Len(s) \in 1 .. Len(t) /\ u[i] = t[i - Len(s)]
  BY <1>2, JoinedPositions
<1>0. /\ C = {at \in L \X (1 .. max) : at[2] <= Len(arr[at[1]]) /\ arr[at[1]][at[2]] = e}
      /\ D = {at \in C : at[1] \notin {x, y}}
               \cup {<<x, k>> : k \in {j \in 1 .. Len(u) : u[j] = e}}
  BY DEF Places, PutTogether
<1>4. \A at \in C : /\ at \in L \X (1 .. max) /\ at = <<at[1], at[2]>>
                    /\ at[1] \in L /\ at[2] \in 1 .. max
                    /\ at[2] <= Len(arr[at[1]]) /\ arr[at[1]][at[2]] = e
  BY <1>0
<1>5. \A at \in C : /\ at[1] = x => at[2] \in 1 .. Len(s) /\ s[at[2]] = e
                    /\ at[1] = y => at[2] \in 1 .. Len(t) /\ t[at[2]] = e
  BY <1>1, <1>2, <1>4
<1>6. PICK f : f = [at \in C |-> IF at[1] = y THEN <<x, Len(s) + at[2]>> ELSE at]
  OBVIOUS
<1>7. ASSUME NEW at \in C
      PROVE  f[at] \in D
  <2>1. CASE at[1] = y
    <3>1. Len(s) + at[2] \in 1 .. Len(u) /\ u[Len(s) + at[2]] = e
      BY <1>3, <1>5, <2>1
    <3>2. f[at] = <<x, Len(s) + at[2]>>
      BY <1>6, <2>1
    <3> QED
      BY <1>0, <3>1, <3>2
  <2>2. CASE at[1] = x
    <3>1. at[2] \in 1 .. Len(u) /\ u[at[2]] = e
      BY <1>3, <1>5, <2>2
    <3>2. f[at] = <<x, at[2]>>
      BY <1>4, <1>6, <2>2
    <3> QED
      BY <1>0, <3>1, <3>2
  <2>3. CASE at[1] \notin {x, y}
    <3>1. f[at] = at
      BY <1>6, <2>3
    <3> QED
      BY <1>0, <2>3, <3>1
  <2> QED
    BY <2>1, <2>2, <2>3
<1>8. f \in [C -> D]
  BY <1>6, <1>7
<1>9. ASSUME NEW a \in C, NEW b \in C, f[a] = f[b]
      PROVE  a = b
  <2>0. /\ a = <<a[1], a[2]>> /\ b = <<b[1], b[2]>>
        /\ a[2] \in Nat \ {0} /\ b[2] \in Nat \ {0}
    BY <1>4
  <2>1. CASE a[1] = y /\ b[1] = y
    <3>1. <<x, Len(s) + a[2]>> = <<x, Len(s) + b[2]>>
      BY <1>6, <1>9, <2>1
    <3>2. Len(s) + a[2] = Len(s) + b[2]
      BY <3>1
    <3>3. a[2] = b[2]
      BY <1>2, <2>0, <3>2
    <3> QED
      BY <2>0, <2>1, <3>3
  <2>2. CASE a[1] # y /\ b[1] # y
    BY <1>6, <1>9, <2>2
  <2>3. ASSUME NEW c \in C, NEW d \in C, c[1] = y, d[1] # y, f[c] = f[d]
        PROVE  FALSE
    <3>1. d = <<x, Len(s) + c[2]>>
      BY <1>6, <2>3
    <3>2. d[1] = x /\ d[2] = Len(s) + c[2]
      BY <3>1
    <3>3. d[2] <= Len(s)
      <4>1. PICK m : m = Len(s)
        OBVIOUS
      <4>2. d[1] = x => d[2] \in 1 .. m
        BY <1>5, <4>1, Zenon
      <4>3. d[2] \in 1 .. m
        BY <3>2, <4>2, Zenon
      <4>4. m \in Nat
        BY <1>2, <4>1
      <4> QED
        BY <4>1, <4>3, <4>4
    <3>4. c[2] \in Nat \ {0}
      BY <1>4
    <3> QED
      BY <1>2, <3>2, <3>3, <3>4
  <2> QED
    BY <1>9, <2>1, <2>2, <2>3
<1>10. ASSUME NEW d \in D
       PROVE  \E at \in C : f[at] = d
  <2>1. CASE d \in C /\ d[1] \notin {x, y}
    <3>1. f[d] = d
      BY <1>6, <2>1
    <3> QED
      BY <2>1, <3>1
  <2>2. CASE \E k \in 1 .. Len(u) : u[k] = e /\ d = <<x, k>>
    <3>1. PICK k \in 1 .. Len(u) : u[k] = e /\ d = <<x, k>>
      BY <2>2
    <3>2. CASE k \in 1 .. Len(s)
      <4>1. PICK at : at = <<x, k>>
        OBVIOUS
      <4>2. at[1] = x /\ at[2] = k /\ at \in L \X (1 .. max)
        BY <1>2, <3>2, <4>1
      <4>3. at \in C
        <5>1. s[k] = e /\ k <= Len(s)
          BY <1>2, <1>3, <3>1, <3>2
        <5>2. at[2] <= Len(arr[at[1]]) /\ arr[at[1]][at[2]] = e
          BY <1>1, <4>2, <5>1
        <5> QED
          BY <1>0, <4>2, <5>2
      <4>4. f[at] = at
        BY <1>6, <4>2, <4>3
      <4> QED
        BY <3>1, <4>1, <4>3, <4>4
    <3>3. CASE k \notin 1 .. Len(s)
      <4>1. PICK j : j = k - Len(s)
        OBVIOUS
      <4>2. j \in 1 .. Len(t) /\ t[j] = e /\ Len(s) + j = k
        BY <1>2, <1>3, <3>1, <3>3, <4>1
      <4>3. PICK at : at = <<y, j>>
        OBVIOUS
      <4>4. at[1] = y /\ at[2] = j /\ at \in L \X (1 .. max)
        BY <1>2, <4>2, <4>3
      <4>5. at \in C
        <5>1. at[2] <= Len(arr[at[1]]) /\ arr[at[1]][at[2]] = e
          BY <1>1, <1>2, <4>2, <4>4
        <5> QED
          BY <1>0, <4>4, <5>1
      <4>6. f[at] = <<x, k>>
        BY <1>6, <4>2, <4>4, <4>5
      <4> QED
        BY <3>1, <4>5, <4>6
    <3> QED
      BY <3>2, <3>3
  <2> QED
    BY <1>0, <2>1, <2>2
<1>11. ExistsBijection(C, D)
  <2>1. f \in Injection(C, D) /\ f \in Surjection(C, D)
    BY <1>8, <1>9, <1>10 DEF Injection, IsInjective, Surjection
  <2> QED
    BY <2>1 DEF ExistsBijection, Bijection
<1>12. IsFiniteSet(C)
  <2>1. IsFiniteSet(1 .. max)
    BY FS_Interval
  <2>2. IsFiniteSet(L \X (1 .. max))
    BY <2>1, FS_Product
  <2> QED
    BY <1>0, <2>2, FS_Subset
<1> QED
  BY <1>11, <1>12, FS_Bijection

\* Where a pair stands on the leaves of a store of pages.
LeavesOf(store) == {p \in DOMAIN store : store[p].leaf}

OnShelf(store, e) ==
  {at \in LeavesOf(store) \X (1 .. LeafMax) :
     at[2] <= Len(store[at[1]].array) /\ store[at[1]].array[at[2]] = e}

LeavesTyped(store) ==
  /\ IsFiniteSet(LeavesOf(store))
  /\ \A p \in LeavesOf(store) :
       store[p].array \in Seq(LeafPair) /\ Len(store[p].array) <= LeafMax

LEMMA LeavesAreTyped ==
  /\ PagesTyped => LeavesTyped(pages)
  /\ PagesTyped' => LeavesTyped(pages')
<1>1. ASSUME NEW store, NEW D, D = DOMAIN store, IsFiniteSet(D),
             \A p \in D : /\ store[p] \in LeafPage \cup InternalPage
                          /\ store[p].leaf => Len(store[p].array) <= LeafMax
      PROVE  LeavesTyped(store)
  <2>1. LeavesOf(store) \in SUBSET D
    BY <1>1 DEF LeavesOf
  <2>2. IsFiniteSet(LeavesOf(store))
    BY <1>1, <2>1, FS_Subset
  <2>3. ASSUME NEW p \in LeavesOf(store)
        PROVE  store[p].array \in Seq(LeafPair) /\ Len(store[p].array) <= LeafMax
    BY <1>1 DEF LeavesOf, LeafPage, InternalPage
  <2> QED
    BY <2>2, <2>3 DEF LeavesTyped
<1>2. PagesTyped => LeavesTyped(pages)
  <2> SUFFICES ASSUME PagesTyped
               PROVE  LeavesTyped(pages)
    OBVIOUS
  <2> QED
    BY <1>1 DEF PagesTyped
<1>3. PagesTyped' => LeavesTyped(pages')
  <2> SUFFICES ASSUME PagesTyped'
               PROVE  LeavesTyped(pages')
    OBVIOUS
  <2> QED
    BY <1>1 DEF PagesTyped
<1> QED
  BY <1>2, <1>3

LEMMA OnShelfAreCopies ==
  ASSUME NEW e
  PROVE  Copies(e) = OnShelf(pages, e) /\ Copies(e)' = OnShelf(pages', e)
BY DEF Copies, OnShelf, LeavesOf, LeafPages, Size

\* A pair is stored when it stands somewhere.
LEMMA StoredSomewhere ==
  ASSUME NEW store, LeavesTyped(store), NEW e
  PROVE  /\ IsFiniteSet(OnShelf(store, e))
         /\ OnShelf(store, e) # {} <=>
              \E p \in LeavesOf(store) : \E i \in 1 .. Len(store[p].array) : store[p].array[i] = e
<1>1. \A p \in LeavesOf(store) : Len(store[p].array) \in Nat /\ Len(store[p].array) <= LeafMax
  BY LenProperties DEF LeavesTyped
<1>2. LeafMax \in Nat
  BY SizesAssumption
<1>3. IsFiniteSet(OnShelf(store, e))
  <2>1. IsFiniteSet(1 .. LeafMax)
    BY <1>2, FS_Interval
  <2>2. IsFiniteSet(LeavesOf(store) \X (1 .. LeafMax))
    BY <2>1, FS_Product DEF LeavesTyped
  <2>3. OnShelf(store, e) \in SUBSET (LeavesOf(store) \X (1 .. LeafMax))
    BY DEF OnShelf
  <2> QED
    BY <2>2, <2>3, FS_Subset
<1>4. ASSUME NEW p \in LeavesOf(store), NEW i \in 1 .. Len(store[p].array),
             store[p].array[i] = e
      PROVE  OnShelf(store, e) # {}
  <2>1. PICK at : at = <<p, i>>
    OBVIOUS
  <2>2. at[1] = p /\ at[2] = i /\ at \in LeavesOf(store) \X (1 .. LeafMax)
        /\ i <= Len(store[p].array)
    BY <1>1, <1>2, <2>1
  <2>3. at \in OnShelf(store, e)
    BY <1>4, <2>2 DEF OnShelf
  <2> QED
    BY <2>3
<1>5. ASSUME OnShelf(store, e) # {}
      PROVE  \E p \in LeavesOf(store) : \E i \in 1 .. Len(store[p].array) : store[p].array[i] = e
  <2>1. PICK at \in LeavesOf(store) \X (1 .. LeafMax) :
          at[2] <= Len(store[at[1]].array) /\ store[at[1]].array[at[2]] = e
    BY <1>5 DEF OnShelf
  <2>2. at[1] \in LeavesOf(store) /\ at[2] \in 1 .. Len(store[at[1]].array)
    BY <1>1, <1>2, <2>1
  <2> QED
    BY <2>1, <2>2
<1> QED
  BY <1>3, <1>4, <1>5

LEMMA StoredOnShelf ==
  ASSUME NEW e
  PROVE  /\ PagesTyped => (e \in Stored <=> OnShelf(pages, e) # {})
         /\ PagesTyped' => (e \in Stored' <=> OnShelf(pages', e) # {})
<1>1. /\ e \in Stored <=>
           \E p \in LeavesOf(pages) : \E i \in 1 .. Len(pages[p].array) : pages[p].array[i] = e
      /\ e \in Stored' <=>
           \E p \in LeavesOf(pages') : \E i \in 1 .. Len(pages'[p].array) : pages'[p].array[i] = e
  BY DEF Stored, PairsOf, LeafPages, LeavesOf, Size
<1>2. PagesTyped => LeavesTyped(pages)
  BY LeavesAreTyped
<1>3. PagesTyped' => LeavesTyped(pages')
  BY LeavesAreTyped
<1>4. PagesTyped => (e \in Stored <=> OnShelf(pages, e) # {})
  BY <1>1, <1>2, StoredSomewhere
<1>5. PagesTyped' => (e \in Stored' <=> OnShelf(pages', e) # {})
  BY <1>1, <1>3, StoredSomewhere
<1> QED
  BY <1>4, <1>5

PairsKept ==
  /\ Stored' = Stored
  /\ \A pair \in Stored : Cardinality(Copies(pair)) = Cardinality(Copies(pair)')

LEMMA CopiesKept ==
  ASSUME PagesTyped, PagesTyped',
         \A e : Cardinality(OnShelf(pages, e)) = Cardinality(OnShelf(pages', e))
  PROVE  PairsKept
<1>1. ASSUME NEW e
      PROVE  e \in Stored' <=> e \in Stored
  <2>1. IsFiniteSet(OnShelf(pages, e)) /\ IsFiniteSet(OnShelf(pages', e))
    BY LeavesAreTyped, StoredSomewhere
  <2>2. OnShelf(pages, e) = {} <=> Cardinality(OnShelf(pages, e)) = 0
    BY <2>1, FS_EmptySet
  <2>3. OnShelf(pages', e) = {} <=> Cardinality(OnShelf(pages', e)) = 0
    BY <2>1, FS_EmptySet
  <2> QED
    BY <2>2, <2>3, StoredOnShelf
<1>2. Stored' = Stored
  BY <1>1
<1>3. ASSUME NEW e
      PROVE  Cardinality(Copies(e)) = Cardinality(Copies(e)')
  BY OnShelfAreCopies
<1> QED
  BY <1>2, <1>3 DEF PairsKept

\* A step that writes to no leaf.
LeavesUntouched ==
  LeafPages' = LeafPages /\ \A p \in LeafPages : pages'[p].array = pages[p].array

LEMMA UntouchedLeaves ==
  ASSUME LeavesUntouched
  PROVE  PairsKept
<1>1. /\ LeafPages' = LeafPages
      /\ \A p \in LeafPages : pages'[p].array = pages[p].array /\ Size(p)' = Size(p)
  BY DEF LeavesUntouched, Size
<1>2. ASSUME NEW e
      PROVE  Copies(e)' = Copies(e)
  <2>1. \A at \in LeafPages \X (1 .. LeafMax) :
          /\ pages'[at[1]].array = pages[at[1]].array
          /\ Size(at[1])' = Size(at[1])
    BY <1>1
  <2> QED
    BY <1>1, <2>1 DEF Copies
<1>3. \A p \in LeafPages : PairsOf(p)' = PairsOf(p)
  BY <1>1 DEF PairsOf
<1>4. Stored' = Stored
  BY <1>1, <1>3 DEF Stored
<1> QED
  BY <1>2, <1>4 DEF PairsKept

\* Two leaves rearranged, their pairs in the same order.
LEMMA OnOneShelf ==
  ASSUME NEW store, LeavesTyped(store), NEW x \in LeavesOf(store), NEW y \in LeavesOf(store),
         x # y, NEW u, u = Joined(store[x].array, store[y].array), NEW e
  PROVE  Cardinality(OnShelf(store, e)) =
           Cardinality(PutTogether(OnShelf(store, e), x, y, u, e))
<1>1. PICK L, arr : L = LeavesOf(store) /\ arr = [p \in L |-> store[p].array]
  OBVIOUS
<1>2. /\ IsFiniteSet(L) /\ LeafMax \in Nat
      /\ \A p \in L : arr[p] \in Seq(LeafPair) /\ Len(arr[p]) <= LeafMax
  BY <1>1, SizesAssumption DEF LeavesTyped
<1>3. x \in L /\ y \in L /\ u = Joined(arr[x], arr[y])
  BY <1>1
<1>4. PICK C : C = Places(L, LeafMax, arr, e)
  OBVIOUS
<1>5. PICK D : D = PutTogether(C, x, y, u, e)
  OBVIOUS
<1>6. Cardinality(C) = Cardinality(D)
  BY <1>2, <1>3, <1>4, <1>5, PairsOnOneShelf
<1>7. C = OnShelf(store, e)
  <2>1. \A at \in L \X (1 .. LeafMax) : arr[at[1]] = store[at[1]].array
    BY <1>1
  <2> QED
    BY <1>1, <1>4, <2>1 DEF OnShelf, Places
<1> QED
  BY <1>5, <1>6, <1>7

LEMMA TwoLeavesRearranged ==
  ASSUME PagesTyped, PagesTyped', LeavesOf(pages') = LeavesOf(pages),
         NEW x \in LeavesOf(pages), NEW y \in LeavesOf(pages), x # y,
         \A p \in LeavesOf(pages) \ {x, y} : pages'[p].array = pages[p].array,
         Joined(pages'[x].array, pages'[y].array) = Joined(pages[x].array, pages[y].array)
  PROVE  PairsKept
<1>1. ASSUME NEW e
      PROVE  Cardinality(OnShelf(pages, e)) = Cardinality(OnShelf(pages', e))
  <2>1. PICK u : u = Joined(pages[x].array, pages[y].array)
    OBVIOUS
  <2>4. LeavesTyped(pages) /\ LeavesTyped(pages')
    BY LeavesAreTyped
  <2>5. Cardinality(OnShelf(pages, e))
          = Cardinality(PutTogether(OnShelf(pages, e), x, y, u, e))
    BY <2>1, <2>4, OnOneShelf
  <2>6. PutTogether(OnShelf(pages', e), x, y, u, e)
          = PutTogether(OnShelf(pages, e), x, y, u, e)
    <3>1. \A at \in LeavesOf(pages) \X (1 .. LeafMax) :
            at[1] \notin {x, y} => pages'[at[1]].array = pages[at[1]].array
      OBVIOUS
    <3>2. {at \in OnShelf(pages', e) : at[1] \notin {x, y}}
            = {at \in OnShelf(pages, e) : at[1] \notin {x, y}}
      BY <3>1 DEF OnShelf
    <3> QED
      BY <3>2 DEF PutTogether
  <2>7. Cardinality(OnShelf(pages', e))
          = Cardinality(PutTogether(OnShelf(pages', e), x, y, u, e))
    <3>1. x \in LeavesOf(pages') /\ y \in LeavesOf(pages')
          /\ u = Joined(pages'[x].array, pages'[y].array)
      BY <2>1
    <3> QED
      BY <2>4, <3>1, OnOneShelf
  <2> QED
    BY <2>5, <2>6, <2>7
<1> QED
  BY <1>1, CopiesKept

\* Only leaves x and y were written to, of which each other leaf knows nothing.
LEMMA OtherLeaves ==
  ASSUME NEW x, NEW y, NEW z, NEW a, NEW b, NEW c, NEW M, NEW to,
         ArraysWritten(x, y, z, a, b, c, M, to), ~pages[z].leaf
  PROVE  /\ LeavesOf(pages') = LeavesOf(pages)
         /\ LeafPages' = LeafPages
         /\ \A p \in LeavesOf(pages) \ {x, y} : pages'[p].array = pages[p].array
         /\ ~pages[x].leaf /\ ~pages[y].leaf => LeavesUntouched
<1>1. /\ DOMAIN pages' = DOMAIN pages
      /\ \A p \in DOMAIN pages :
           /\ pages'[p].leaf = pages[p].leaf
           /\ p \notin {x, y, z} => pages'[p].array = pages[p].array
  BY DEF ArraysWritten
<1>2. LeavesOf(pages') = LeavesOf(pages) /\ LeafPages' = LeafPages
  BY <1>1 DEF LeavesOf, LeafPages
<1>3. \A p \in LeavesOf(pages) \ {x, y} : pages'[p].array = pages[p].array
  BY <1>1 DEF LeavesOf
<1>4. ASSUME ~pages[x].leaf, ~pages[y].leaf
      PROVE  LeavesUntouched
  BY <1>1, <1>2, <1>4 DEF LeavesUntouched, LeafPages
<1> QED
  BY <1>2, <1>3, <1>4

\* Moving a pair over the border between two arrays.
LEMMA BorderMoves ==
  ASSUME NEW S, NEW s \in Seq(S), s # <<>>, NEW t \in Seq(S)
  PROVE  /\ Joined(AllButLast(s), <<s[Len(s)]>> \o t) = Joined(s, t)
         /\ Joined(Append(t, s[1]), AllButFirst(s)) = Joined(t, s)
<1>1. Len(s) \in Nat \ {0} /\ 1 \in 1 .. Len(s) /\ Len(s) \in 1 .. Len(s)
  BY LenProperties, EmptySeq
<1>2. PICK first, last, front, back :
        first = s[1] /\ last = s[Len(s)] /\ front = AllButLast(s) /\ back = AllButFirst(s)
  OBVIOUS
<1>3. front \in Seq(S) /\ back \in Seq(S) /\ first \in S /\ last \in S
  <2>1. front \in Seq(S) /\ last \in S
    BY <1>2, WithoutLast
  <2>2. back \in Seq(S) /\ first \in S
    BY <1>2, WithoutFirst
  <2> QED
    BY <2>1, <2>2
<1>4. s = front \o <<last>>
  <2>1. SubSeq(s, 1, Len(s)) = SubSeq(s, 1, Len(s) - 1) \o <<s[Len(s)]>>
    BY <1>1, SubSeqRecursiveSecond
  <2>2. SubSeq(s, 1, Len(s)) = s
    BY SubSeqFull
  <2> QED
    BY <1>2, <2>1, <2>2 DEF AllButLast
<1>5. s = <<first>> \o back
  <2>1. SubSeq(s, 1, Len(s)) = <<s[1]>> \o SubSeq(s, 1 + 1, Len(s))
    BY <1>1, SubSeqRecursiveFirst
  <2>2. SubSeq(s, 1, Len(s)) = s
    BY SubSeqFull
  <2>3. back = SubSeq(s, 2, Len(s))
    BY <1>2, TailIsSubSeq DEF AllButFirst
  <2> QED
    BY <1>2, <2>1, <2>2, <2>3
<1>6. <<first>> \in Seq(S) /\ <<last>> \in Seq(S)
  BY <1>3
<1>7. front \o (<<last>> \o t) = s \o t
  <2>1. (front \o <<last>>) \o t = front \o (<<last>> \o t)
    BY <1>3, <1>6, ConcatAssociative
  <2> QED
    BY <1>4, <2>1
<1>8. Append(t, first) \o back = t \o s
  <2>1. Append(t, first) = t \o <<first>>
    BY <1>3, AppendIsConcat
  <2>2. (t \o <<first>>) \o back = t \o (<<first>> \o back)
    BY <1>3, <1>6, ConcatAssociative
  <2> QED
    BY <1>5, <2>1, <2>2
<1> QED
  BY <1>2, <1>7, <1>8 DEF Joined

\* A write to an internal page and the parent pointer of another page, and to parent
\* pointers.
LEMMA InternalPageWritten ==
  ASSUME PagesTyped, NEW P \in DOMAIN pages, pages[P] \in InternalPage,
         NEW new \in DOMAIN pages, new # P, NEW array \in Seq(ChildPair), NEW parent \in Int,
         NEW store, store = [pages EXCEPT ![P].array = array, ![new].parent = parent]
  PROVE  /\ DOMAIN store = DOMAIN pages
         /\ \A p \in DOMAIN pages :
              /\ store[p] \in LeafPage \cup InternalPage
              /\ store[p].leaf = pages[p].leaf
              /\ store[p].array = IF p = P THEN array ELSE pages[p].array
<1>1. \A p \in DOMAIN pages : pages[p] \in LeafPage \cup InternalPage
  BY DEF PagesTyped
<1>2. /\ DOMAIN store = DOMAIN pages
      /\ store[P] = [pages[P] EXCEPT !.array = array]
      /\ store[new] = [pages[new] EXCEPT !.parent = parent]
      /\ \A p \in DOMAIN pages \ {P, new} : store[p] = pages[p]
  OBVIOUS
<1>3. /\ store[P] \in InternalPage /\ store[P].array = array
      /\ store[P].leaf = FALSE /\ pages[P].leaf = FALSE
  BY <1>2 DEF InternalPage
<1>4. /\ store[new] \in LeafPage \cup InternalPage
      /\ store[new].leaf = pages[new].leaf /\ store[new].array = pages[new].array
  BY <1>1, <1>2 DEF LeafPage, InternalPage
<1> QED
  BY <1>1, <1>2, <1>3, <1>4

LEMMA InsertPages ==
  ASSUME NEW T, SoundTree(T), todo.op = "insert"
  PROVE  /\ PagesTyped /\ todo.new \in DOMAIN pages
         /\ T \subseteq DOMAIN pages
         /\ \A p \in DOMAIN pages : pages[p] \in LeafPage \cup InternalPage
         /\ NewPageId \notin DOMAIN pages /\ NewPageId \in Int
         /\ ~IsRootPage(todo.old) =>
              LET P == pages[todo.old].parent
              IN  /\ P \in T /\ P \in DOMAIN pages /\ P # todo.new /\ P \in Int
                  /\ pages[P] \in InternalPage /\ ~pages[P].leaf
                  /\ ParentArray \in Seq(ChildPair) /\ EachOnce(ParentArray)
                  /\ Len(ParentArray) = Size(P) + 1
<1>1. PagesTyped /\ OthersTyped
  BY DEF SoundTree
<1>2. PICK level : TreeShape(pages, root_page_id, Pending, T, level) /\ CallShape(T, level)
  BY DEF SoundTree
<1>3. /\ todo.new \in DOMAIN pages
      /\ T \subseteq DOMAIN pages
      /\ \A p \in DOMAIN pages : pages[p] \in LeafPage \cup InternalPage
  BY <1>1, <1>2, InsertFacts DEF PagesTyped
<1>4. NewPageId \notin DOMAIN pages /\ NewPageId \in Int
  <2>1. PICK D : D = DOMAIN pages \cup {NewPageId}
    OBVIOUS
  <2>2. NewPageId \in Nat \ {0} /\ NewPageId \notin DOMAIN pages
    BY <1>1, <2>1, NewPage
  <2> QED
    BY <2>2
<1>5. ASSUME ~IsRootPage(todo.old), NEW P, P = pages[todo.old].parent
      PROVE  /\ P \in T /\ P \in DOMAIN pages /\ P # todo.new /\ P \in Int
             /\ pages[P] \in InternalPage /\ ~pages[P].leaf
             /\ ParentArray \in Seq(ChildPair) /\ EachOnce(ParentArray)
             /\ Len(ParentArray) = Size(P) + 1
  <2>1. /\ P \in T /\ P # todo.new /\ pages[P] \in InternalPage /\ ~pages[P].leaf
        /\ ParentArray \in Seq(ChildPair) /\ EachOnce(ParentArray)
        /\ Len(ParentArray) = Size(P) + 1
    BY <1>1, <1>2, <1>5, ParentFacts
  <2>2. P \in DOMAIN pages
    BY <1>3, <2>1
  <2> QED
    BY <1>1, <2>1, <2>2, PageKinds
<1> QED
  BY <1>1, <1>3, <1>4, <1>5

\* What an insertion on its way up does to arrays.
LEMMA NewRootArrays ==
  ASSUME NEW T, SoundTree(T), NewRoot
  PROVE  /\ DOMAIN pages' = DOMAIN pages \cup {NewPageId}
         /\ NewPageId \notin DOMAIN pages
         /\ ~pages'[NewPageId].leaf /\ Len(pages'[NewPageId].array) = 2
         /\ \A p \in DOMAIN pages : /\ pages'[p].leaf = pages[p].leaf
                                    /\ pages'[p].array = pages[p].array
<1>1. PICK old, new, N, page, store :
        /\ old = todo.old /\ new = todo.new /\ N = NewPageId
        /\ page = Internal(INVALID_PAGE_ID, <<Pair(ZeroKey, old), Pair(todo.key, new)>>)
        /\ store = WithParent(pages, {old, new}, N)
  OBVIOUS
<1>2. todo.op = "insert" /\ pages' = Put(store, N, page)
  BY <1>1 DEF NewRoot
<1>3. /\ \A p \in DOMAIN pages : pages[p] \in LeafPage \cup InternalPage
      /\ N \notin DOMAIN pages /\ N \in Int
  BY <1>1, <1>2, InsertPages
<1>4. page.leaf = FALSE /\ Len(page.array) = 2
  BY <1>1 DEF Internal
<1>5. /\ DOMAIN store = DOMAIN pages
      /\ \A p \in DOMAIN pages : /\ store[p].leaf = pages[p].leaf
                                 /\ store[p].array = pages[p].array
  BY <1>1, <1>3, Reparented
<1> QED
  BY <1>1, <1>2, <1>3, <1>4, <1>5 DEF Put

LEMMA ParentHasRoomArrays ==
  ASSUME NEW T, SoundTree(T), ParentHasRoom, NEW P, P = pages[todo.old].parent
  PROVE  /\ DOMAIN pages' = DOMAIN pages
         /\ P \in T /\ P \in DOMAIN pages /\ ~pages[P].leaf
         /\ Len(pages'[P].array) = Size(P) + 1 /\ Len(pages'[P].array) <= InternalMax
         /\ \A p \in DOMAIN pages : /\ pages'[p].leaf = pages[p].leaf
                                    /\ p # P => pages'[p].array = pages[p].array
<1>1. PICK new, array : new = todo.new /\ array = ParentArray
  OBVIOUS
<1>2. /\ todo.op = "insert" /\ ~IsRootPage(todo.old) /\ Len(array) <= InternalMax
      /\ pages' = [pages EXCEPT ![P].array = array, ![new].parent = P]
  BY <1>1 DEF ParentHasRoom
<1>3. /\ PagesTyped /\ new \in DOMAIN pages
      /\ P \in T /\ P \in DOMAIN pages /\ P # new /\ P \in Int
      /\ pages[P] \in InternalPage /\ ~pages[P].leaf
      /\ array \in Seq(ChildPair) /\ Len(array) = Size(P) + 1
  BY <1>1, <1>2, InsertPages
<1>4. /\ DOMAIN pages' = DOMAIN pages
      /\ \A p \in DOMAIN pages : /\ pages'[p].leaf = pages[p].leaf
                                 /\ pages'[p].array = IF p = P THEN array ELSE pages[p].array
  BY SMTT(30), <1>2, <1>3, InternalPageWritten
<1> QED
  BY <1>2, <1>3, <1>4

LEMMA ParentSplitsArrays ==
  ASSUME NEW T, SoundTree(T), ParentSplits, NEW P, P = pages[todo.old].parent
  PROVE  /\ DOMAIN pages' = DOMAIN pages \cup {NewPageId}
         /\ NewPageId \notin DOMAIN pages
         /\ P \in T /\ P \in DOMAIN pages /\ ~pages[P].leaf
         /\ Size(P) \in Nat /\ Size(P) + 1 > InternalMax
         /\ Len(pages'[P].array) = (Size(P) + 1) \div 2
         /\ ~pages'[NewPageId].leaf
         /\ Len(pages'[NewPageId].array) = Size(P) + 1 - (Size(P) + 1) \div 2
         /\ \A p \in DOMAIN pages : /\ pages'[p].leaf = pages[p].leaf
                                    /\ p # P => pages'[p].array = pages[p].array
<1>1. PICK new, N, array : new = todo.new /\ N = NewPageId /\ array = ParentArray
  OBVIOUS
<1>2. PICK split, left, right :
        /\ split = InternalSplitIndex(Len(array))
        /\ left = SubSeq(array, 1, split)
        /\ right = SubSeq(array, split + 1, Len(array))
  OBVIOUS
<1>3. PICK inserted, store, page :
        /\ inserted = [pages EXCEPT ![P].array = left, ![new].parent = P]
        /\ store = WithParent(inserted, Children(right), N)
        /\ page = Internal(pages[P].parent, right)
  OBVIOUS
<1>4. /\ todo.op = "insert" /\ ~IsRootPage(todo.old) /\ Len(array) > InternalMax
      /\ pages' = Put(store, N, page)
  BY <1>1, <1>2, <1>3 DEF ParentSplits
<1>5. /\ PagesTyped /\ new \in DOMAIN pages
      /\ P \in T /\ P \in DOMAIN pages /\ P # new /\ P \in Int
      /\ pages[P] \in InternalPage /\ ~pages[P].leaf
      /\ array \in Seq(ChildPair) /\ EachOnce(array) /\ Len(array) = Size(P) + 1
  BY <1>1, <1>4, InsertPages
<1>6. N \notin DOMAIN pages /\ N \in Int
  BY <1>1, <1>4, InsertPages
<1>7. Size(P) \in Nat /\ split = (Size(P) + 1) \div 2 /\ split \in 0 .. Len(array)
  <2>1. PICK n : n = Size(P)
    OBVIOUS
  <2>2. n \in Nat /\ Len(array) = n + 1
    BY <1>5, <2>1, PageKinds
  <2>3. split = (n + 1) \div 2
    BY <1>2, <2>2 DEF InternalSplitIndex
  <2>4. split \in 0 .. n + 1
    BY <2>2, <2>3
  <2> QED
    BY <2>1, <2>2, <2>3, <2>4
<1>8. /\ left \in Seq(ChildPair) /\ Len(left) = split
      /\ Len(right) = Len(array) - split
  <2>1. left = FrontOf(array, split) /\ right = BackOf(array, split)
    BY <1>2 DEF FrontOf, BackOf
  <2>2. array \in Seq(ChildPair) /\ EachOnce(array) /\ split \in 0 .. Len(array)
    BY <1>5, <1>7
  <2> QED
    BY <2>1, <2>2, CutChildren
<1>9. /\ DOMAIN inserted = DOMAIN pages
      /\ \A p \in DOMAIN pages :
           /\ inserted[p] \in LeafPage \cup InternalPage
           /\ inserted[p].leaf = pages[p].leaf
           /\ inserted[p].array = IF p = P THEN left ELSE pages[p].array
  <2>1. inserted = [pages EXCEPT ![P].array = left, ![new].parent = P]
    BY <1>3
  <2>2. /\ PagesTyped /\ new \in DOMAIN pages
        /\ P \in DOMAIN pages /\ new # P /\ P \in Int /\ pages[P] \in InternalPage
    BY <1>5
  <2>3. left \in Seq(ChildPair)
    BY <1>8
  <2> QED
    BY <2>1, <2>2, <2>3, InternalPageWritten
<1>10. /\ DOMAIN store = DOMAIN inserted
       /\ \A p \in DOMAIN inserted : /\ store[p].leaf = inserted[p].leaf
                                     /\ store[p].array = inserted[p].array
  <2>1. PICK children : children = Children(right)
    OBVIOUS
  <2>2. store = WithParent(inserted, children, N)
    BY <1>3, <2>1
  <2>3. \A p \in DOMAIN inserted : inserted[p] \in LeafPage \cup InternalPage
    BY <1>9
  <2> QED
    BY <1>6, <2>2, <2>3, Reparented
<1>11. page.leaf = FALSE /\ page.array = right
  BY <1>3 DEF Internal
<1>12. /\ DOMAIN pages' = DOMAIN pages \cup {N}
       /\ pages'[N] = page
       /\ \A p \in DOMAIN pages : pages'[p] = store[p]
  BY <1>4, <1>6, <1>9, <1>10 DEF Put
<1>13. \A p \in DOMAIN pages :
         /\ pages'[p].leaf = pages[p].leaf
         /\ pages'[p].array = IF p = P THEN left ELSE pages[p].array
  BY <1>9, <1>10, <1>12
<1>14. /\ Len(pages'[P].array) = (Size(P) + 1) \div 2
       /\ Len(pages'[N].array) = Size(P) + 1 - (Size(P) + 1) \div 2
       /\ Size(P) + 1 > InternalMax
  <2>1. pages'[P].array = left /\ pages'[N].array = right
    BY <1>5, <1>11, <1>12, <1>13
  <2>2. Len(array) = Size(P) + 1
    BY <1>5
  <2> QED
    BY SMTT(30), <1>4, <1>7, <1>8, <2>1, <2>2
<1> QED
  BY <1>1, <1>5, <1>6, <1>7, <1>11, <1>12, <1>13, <1>14

LEMMA InsertStepsKeepPairs ==
  ASSUME NEW T, SoundTree(T), InsertStep
  PROVE  PairsKept
<1>1. PICK P : P = pages[todo.old].parent
  OBVIOUS
<1>2. /\ DOMAIN pages \subseteq DOMAIN pages'
      /\ \A p \in DOMAIN pages : /\ pages'[p].leaf = pages[p].leaf
                                 /\ pages[p].leaf => pages'[p].array = pages[p].array
      /\ \A p \in DOMAIN pages' \ DOMAIN pages : ~pages'[p].leaf
  <2>1. CASE NewRoot
    BY <2>1, NewRootArrays
  <2>2. CASE ParentHasRoom
    BY <1>1, <2>2, ParentHasRoomArrays
  <2>3. CASE ParentSplits
    BY <1>1, <2>3, ParentSplitsArrays
  <2> QED
    BY <2>1, <2>2, <2>3 DEF InsertStep
<1>3. LeavesUntouched
  <2>1. LeafPages' = LeafPages
    BY <1>2 DEF LeafPages
  <2> QED
    BY <1>2, <2>1 DEF LeavesUntouched, LeafPages
<1> QED
  BY <1>3, UntouchedLeaves

LEMMA AdjustRootKeepsPairs ==
  ASSUME PagesTyped, AdjustRoot
  PROVE  PairsKept
<1>1. PICK root : UNCHANGED pages \/ pages' = WithParent(pages, {root}, INVALID_PAGE_ID)
  BY DEF AdjustRoot
<1>2. /\ DOMAIN pages' = DOMAIN pages
      /\ \A p \in DOMAIN pages : /\ pages'[p].leaf = pages[p].leaf
                                 /\ pages'[p].array = pages[p].array
  <2>1. CASE UNCHANGED pages
    BY <2>1
  <2>2. CASE pages' = WithParent(pages, {root}, INVALID_PAGE_ID)
    <3>1. \A p \in DOMAIN pages : pages[p] \in LeafPage \cup InternalPage
      BY DEF PagesTyped
    <3>2. INVALID_PAGE_ID \in Int
      BY DEF INVALID_PAGE_ID
    <3> QED
      BY <2>2, <3>1, <3>2, Reparented
  <2> QED
    BY <1>1, <2>1, <2>2
<1>3. LeavesUntouched
  BY <1>2 DEF LeavesUntouched, LeafPages
<1> QED
  BY <1>3, UntouchedLeaves

LEMMA RedistributeKeepsPairs ==
  ASSUME NEW T, SoundTree(T), RedistributeFromLeft \/ RedistributeFromRight
  PROVE  PairsKept
<1>1. Underflowing
  BY DEF RedistributeFromLeft, RedistributeFromRight
<1>2. PagesTyped /\ OthersTyped
  BY DEF SoundTree
<1>3. PagesTyped'
  BY RedistributeKeepsSound DEF SoundTree, SoundAfter
<1>4. PICK level : TreeShape(pages, root_page_id, Pending, T, level) /\ CallShape(T, level)
  BY DEF SoundTree
<1>5. PICK page, S, P : page = todo.page /\ S = Sibling /\ P = Parent
  OBVIOUS
<1>6. /\ page \in T /\ S \in T /\ P \in T
      /\ page # S /\ P # page /\ P # S
      /\ ~pages[P].leaf /\ (pages[S].leaf <=> pages[page].leaf)
  BY <1>1, <1>2, <1>4, <1>5, UnderflowFacts
<1>7. page \in DOMAIN pages /\ S \in DOMAIN pages
  BY <1>4, <1>6 DEF TreeShape, Levels
<1>8. PICK a, b, c, M :
        /\ ArraysWritten(S, page, P, a, b, c, M, page)
        /\ pages[page].leaf =>
             \/ /\ a = AllButLast(pages[S].array)
                /\ b = <<pages[S].array[Len(pages[S].array)]>> \o pages[page].array
             \/ /\ a = AllButFirst(pages[S].array)
                /\ b = Append(pages[page].array, pages[S].array[1])
  <2>1. CASE RedistributeFromLeft
    <3>1. PICK a, b, c, M :
            /\ ArraysWritten(S, page, P, a, b, c, M, page)
            /\ a = SubSeq(pages[S].array, 1, Size(S) - 1)
            /\ pages[page].leaf => b = <<pages[S].array[Size(S)]>> \o pages[page].array
      BY <1>2, <1>4, <1>5, <2>1, FromLeftEffect
    <3> QED
      BY <3>1 DEF AllButLast, Size
  <2>2. CASE RedistributeFromRight
    <3>1. PICK a, b, c, M :
            /\ ArraysWritten(S, page, P, a, b, c, M, page)
            /\ a = Tail(pages[S].array)
            /\ pages[page].leaf => b = Append(pages[page].array, pages[S].array[1])
      BY <1>2, <1>4, <1>5, <2>2, FromRightEffect
    <3> QED
      BY <3>1 DEF AllButFirst
  <2> QED
    BY <2>1, <2>2
<1>9. CASE ~pages[page].leaf
  BY <1>6, <1>8, <1>9, OtherLeaves, UntouchedLeaves
<1>10. CASE pages[page].leaf
  <2>1. PICK s, t : s = pages[S].array /\ t = pages[page].array
    OBVIOUS
  <2>2. S \in LeavesOf(pages) /\ page \in LeavesOf(pages)
    BY <1>6, <1>7, <1>10 DEF LeavesOf
  <2>3. s \in Seq(LeafPair) /\ t \in Seq(LeafPair)
    BY <1>2, <2>1, <2>2, LeavesAreTyped DEF LeavesTyped
  <2>4. s # <<>>
    <3>1. Size(S) > MinSize(S)
      BY <1>5 DEF RedistributeFromLeft, RedistributeFromRight
    <3>2. MinSize(S) \in Nat \ {0}
      BY <1>2, <1>7, UnderflowSizes
    <3>3. Len(s) > 0
      BY <2>1, <2>3, <3>1, <3>2, LenProperties DEF Size
    <3> QED
      BY <2>3, <3>3, EmptySeq
  <2>5. /\ Joined(AllButLast(s), <<s[Len(s)]>> \o t) = Joined(s, t)
        /\ Joined(Append(t, s[1]), AllButFirst(s)) = Joined(t, s)
    BY <2>3, <2>4, BorderMoves
  <2>6. /\ LeavesOf(pages') = LeavesOf(pages)
        /\ \A p \in LeavesOf(pages) \ {S, page} : pages'[p].array = pages[p].array
    BY <1>6, <1>8, OtherLeaves
  <2>7. /\ pages'[S].array = a /\ pages'[page].array = b
        /\ \/ a = AllButLast(s) /\ b = <<s[Len(s)]>> \o t
           \/ a = AllButFirst(s) /\ b = Append(t, s[1])
    BY <1>8, <1>10, <2>1 DEF ArraysWritten
  <2>8. CASE a = AllButLast(s) /\ b = <<s[Len(s)]>> \o t
    <3>1. Joined(pages'[S].array, pages'[page].array)
            = Joined(pages[S].array, pages[page].array)
      BY <2>1, <2>5, <2>7, <2>8
    <3> QED
      BY <1>2, <1>3, <1>6, <2>2, <2>6, <3>1, TwoLeavesRearranged
  <2>9. CASE a = AllButFirst(s) /\ b = Append(t, s[1])
    <3>1. Joined(pages'[page].array, pages'[S].array)
            = Joined(pages[page].array, pages[S].array)
      BY <2>1, <2>5, <2>7, <2>9
    <3>2. \A p \in LeavesOf(pages) \ {page, S} : pages'[p].array = pages[p].array
      BY <2>6
    <3> QED
      BY <1>2, <1>3, <1>6, <2>2, <2>6, <3>1, <3>2, TwoLeavesRearranged
  <2> QED
    BY <2>7, <2>8, <2>9
<1> QED
  BY <1>9, <1>10

LEMMA CoalesceKeepsPairs ==
  ASSUME NEW T, SoundTree(T), Coalesce
  PROVE  PairsKept
<1>1. Underflowing
  BY DEF Coalesce
<1>2. PagesTyped /\ OthersTyped
  BY DEF SoundTree
<1>3. PagesTyped'
  BY CoalesceKeepsSound DEF SoundTree, SoundAfter
<1>4. PICK level : TreeShape(pages, root_page_id, Pending, T, level) /\ CallShape(T, level)
  BY DEF SoundTree
<1>5. PICK page, S, P : page = todo.page /\ S = Sibling /\ P = Parent
  OBVIOUS
<1>6. /\ page \in T /\ S \in T /\ P \in T
      /\ page # S /\ P # page /\ P # S
      /\ ~pages[P].leaf /\ (pages[S].leaf <=> pages[page].leaf)
  BY <1>1, <1>2, <1>4, <1>5, UnderflowFacts
<1>7. page \in DOMAIN pages /\ S \in DOMAIN pages
  BY <1>4, <1>6 DEF TreeShape, Levels
<1>8. PICK from, to, b, c, M : /\ PagesMerged(page, S, P, from, to, b, c, M)
                               /\ ArraysWritten(from, to, P, <<>>, b, c, M, to)
  BY <1>2, <1>4, <1>5, CoalesceEffect
<1>9. {from, to} = {page, S} /\ from # to
  BY <1>6, <1>8 DEF PagesMerged
<1>10. /\ from \in DOMAIN pages /\ to \in DOMAIN pages
       /\ (pages[from].leaf <=> pages[page].leaf) /\ (pages[to].leaf <=> pages[page].leaf)
  BY <1>6, <1>7, <1>9
<1>11. CASE ~pages[page].leaf
  BY <1>6, <1>8, <1>10, <1>11, OtherLeaves, UntouchedLeaves
<1>12. CASE pages[page].leaf
  <2>1. from \in LeavesOf(pages) /\ to \in LeavesOf(pages)
    BY <1>10, <1>12 DEF LeavesOf
  <2>2. /\ LeavesOf(pages') = LeavesOf(pages)
        /\ \A p \in LeavesOf(pages) \ {to, from} : pages'[p].array = pages[p].array
    BY <1>6, <1>8, OtherLeaves
  <2>3. pages'[from].array = <<>> /\ pages'[to].array = b
    BY <1>8 DEF ArraysWritten
  <2>4. b = Joined(pages[to].array, pages[from].array)
    BY <1>8, <1>12, <1>10 DEF PagesMerged, Joined
  <2>5. pages[to].array \in Seq(LeafPair) /\ pages[from].array \in Seq(LeafPair)
    BY <1>2, <2>1, LeavesAreTyped DEF LeavesTyped
  <2>6. Joined(b, <<>>) = b
    BY <2>4, <2>5, ConcatProperties, ConcatEmptySeq DEF Joined
  <2>7. Joined(pages'[to].array, pages'[from].array)
          = Joined(pages[to].array, pages[from].array)
    BY <2>3, <2>4, <2>6
  <2> QED
    BY <1>2, <1>3, <1>9, <2>1, <2>2, <2>7, TwoLeavesRearranged
<1> QED
  BY <1>11, <1>12

\* While a call goes up the tree, pairs are moved and none is lost or doubled.
LEMMA StepsKeepPairs ==
  ASSUME NEW T, SoundTree(T), Next, todo # Idle
  PROVE  PairsKept
<1>1. CASE InsertStep
  BY <1>1, InsertStepsKeepPairs
<1>2. CASE RedistributeFromLeft \/ RedistributeFromRight
  BY <1>2, RedistributeKeepsPairs
<1>3. CASE Coalesce
  BY <1>3, CoalesceKeepsPairs
<1>4. CASE AdjustRoot
  BY <1>4, AdjustRootKeepsPairs DEF SoundTree
<1>5. ASSUME NEW k \in Keys,
             \/ GetValue(k) \/ InsertRefused(k) \/ RemoveFromLeaf(k)
             \/ \E v \in Values : StartNewTree(k, v) \/ InsertIntoLeaf(k, v) \/ SplitLeaf(k, v)
      PROVE  FALSE
  BY <1>5 DEF GetValue, InsertRefused, RemoveFromLeaf, StartNewTree, InsertIntoLeaf, SplitLeaf
<1> QED
  BY <1>1, <1>2, <1>3, <1>4, <1>5 DEF Next, InsertNext, RemoveStep

\* Borrowing, merging, root changes and splits of internal pages neither lose nor
\* duplicate a pair.  Of the split of a leaf, which begins a call, it says nothing.
THEOREM PairsAreNeverLost == Spec => RestructuringKeepsPairs
<1>1. IInv /\ [Next]_vars =>
        [todo # Idle =>
           /\ Stored' = Stored
           /\ \A pair \in Stored : Cardinality(Copies(pair)) = Cardinality(Copies(pair)')]_vars
  BY StepsKeepPairs DEF IInv, PairsKept
<1> QED
  BY <1>1, Invariance, PTL DEF Spec, RestructuringKeepsPairs

-----------------------------------------------------------------------------
(***************************************************************************)
(* The tree stays balanced.                                                *)
(***************************************************************************)

Half == InternalMax \div 2

\* The root may hold less than other internal pages, and a page that borrows or is
\* merged next may be one short.
LeastSize(p) ==
  IF p = root_page_id THEN IF todo.op = "adjust root" THEN 1 ELSE 2
  ELSE IF todo.op = "underflow" /\ p = todo.page THEN Half - 1 ELSE Half

\* Internal pages of the tree are well filled; a page that was just split is filled as
\* if it were no root; an underflowing page is one short; and a root that is about to
\* give way gives way to a leaf, or to a page with two children.
Filled(T) ==
  /\ \A p \in T : ~pages[p].leaf => Size(p) \in LeastSize(p) .. InternalMax
  /\ todo.op = "insert" /\ ~pages[todo.old].leaf => Size(todo.old) >= Half
  /\ todo.op = "underflow" /\ ~pages[todo.page].leaf => Size(todo.page) = Half - 1
  /\ todo.op = "adjust root" /\ Half = 1 =>
       \A c \in Kids(pages, root_page_id) : pages[c].leaf

LEMMA HalfFacts ==
  /\ InternalMax \in Nat \ {0, 1, 2} /\ Half \in Nat \ {0}
  /\ Half + Half <= InternalMax /\ InternalMax <= Half + Half + 1
<1>1. InternalMax \in Nat \ {0, 1, 2}
  BY SizesAssumption
<1> QED
  BY <1>1 DEF Half

\* What Filled says of a page.
LEMMA InternalSizes ==
  ASSUME NEW T, Filled(T), NEW p \in T, ~pages[p].leaf
  PROVE  /\ Size(p) \in Int /\ Size(p) <= InternalMax
         /\ p = root_page_id /\ todo.op # "adjust root" => Size(p) >= 2
         /\ p # root_page_id =>
              Size(p) >= IF todo.op = "underflow" /\ p = todo.page THEN Half - 1 ELSE Half
<1>1. Size(p) \in LeastSize(p) .. InternalMax
  BY DEF Filled
<1>2. LeastSize(p) \in Int
  BY HalfFacts DEF LeastSize
<1>3. PICK n, m : n = Size(p) /\ m = LeastSize(p)
  OBVIOUS
<1>4. n \in Int /\ m <= n /\ n <= InternalMax
  BY <1>1, <1>2, <1>3, HalfFacts
<1>5. p = root_page_id /\ todo.op # "adjust root" => m = 2
  BY <1>3 DEF LeastSize
<1>6. p # root_page_id =>
        m = IF todo.op = "underflow" /\ p = todo.page THEN Half - 1 ELSE Half
  BY <1>3 DEF LeastSize
<1> QED
  BY <1>3, <1>4, <1>5, <1>6, HalfFacts

\* What has to be shown after a step that ends the call.
LEMMA FilledAtEnd ==
  ASSUME NEW U, todo' = Idle,
         \A p \in U : ~pages'[p].leaf =>
           /\ Len(pages'[p].array) \in Int /\ Len(pages'[p].array) <= InternalMax
           /\ Len(pages'[p].array) >= IF p = root_page_id' THEN 2 ELSE Half
  PROVE  Filled(U)'
<1>1. todo'.op = "idle"
  BY DEF Idle
<1>2. ASSUME NEW p \in U, ~pages'[p].leaf
      PROVE  Size(p)' \in LeastSize(p)' .. InternalMax
  <2>1. Size(p)' = Len(pages'[p].array)
    BY DEF Size
  <2>2. LeastSize(p)' = IF p = root_page_id' THEN 2 ELSE Half
    BY <1>1 DEF LeastSize
  <2> QED
    BY <1>2, <2>1, <2>2, HalfFacts
<1> QED
  BY <1>1, <1>2 DEF Filled

\* Steps that leave internal pages alone.
LEMMA LeafStepsKeepFilled ==
  ASSUME NEW T, SoundTree(T), Filled(T), NEW U, SoundTree(U)', U \subseteq T \cup {NewPageId},
         todo = Idle,
         \A p \in U : p \in T \/ pages'[p].leaf,
         \A p \in T : pages'[p].leaf = pages[p].leaf,
         \A p \in T : ~pages[p].leaf => pages'[p].array = pages[p].array,
         \/ root_page_id' = root_page_id
         \/ root_page_id' = INVALID_PAGE_ID,
         \/ todo' = Idle
         \/ todo'.op = "insert" /\ pages'[todo'.old].leaf
         \/ todo'.op = "underflow" /\ pages'[todo'.page].leaf
  PROVE  Filled(U)'
<1>1. todo.op = "idle"
  BY DEF Idle
<1>2. CASE root_page_id' = INVALID_PAGE_ID
  <2>1. U = {}
    BY <1>2 DEF SoundTree, TreeShape, RootOnTop
  <2>2. todo' = Idle
    <3>1. CASE todo'.op = "insert"
      BY <2>1, <3>1 DEF SoundTree, CallShape
    <3>2. CASE todo'.op = "underflow"
      BY <2>1, <3>2 DEF SoundTree, CallShape
    <3> QED
      BY <3>1, <3>2
  <2> QED
    BY <2>1, <2>2, FilledAtEnd
<1>3. CASE root_page_id' = root_page_id
  <2>1. ASSUME NEW p \in U, ~pages'[p].leaf
        PROVE  Size(p)' \in LeastSize(p)' .. InternalMax
    <3>1. p \in T /\ ~pages[p].leaf /\ Size(p)' = Size(p)
      BY <2>1 DEF Size
    <3>2. LeastSize(p) = IF p = root_page_id THEN 2 ELSE Half
      BY <1>1 DEF LeastSize
    <3>3. LeastSize(p)' = IF p = root_page_id THEN 2 ELSE Half
      <4>1. todo'.op \in {"idle", "insert", "underflow"}
        BY DEF Idle
      <4>2. todo'.op = "underflow" => p # todo'.page
        BY <2>1 DEF Idle
      <4> QED
        BY <1>3, <4>1, <4>2 DEF LeastSize
    <3>4. Size(p) \in LeastSize(p) .. InternalMax
      BY <3>1 DEF Filled
    <3> QED
      BY <3>1, <3>2, <3>3, <3>4
  <2>2. /\ todo'.op = "insert" => pages'[todo'.old].leaf
        /\ todo'.op = "underflow" => pages'[todo'.page].leaf
        /\ todo'.op # "adjust root"
    <3>1. todo' = Idle => todo'.op = "idle"
      BY DEF Idle
    <3> QED
      BY <3>1
  <2> QED
    BY <2>1, <2>2 DEF Filled
<1> QED
  BY <1>2, <1>3

LEMMA LookupsKeepFilled ==
  ASSUME NEW T, SoundTree(T), Filled(T), NEW U, SoundTree(U)', U \subseteq T \cup {NewPageId},
         todo = Idle, UNCHANGED <<pages, root_page_id, todo>>
  PROVE  Filled(U)'
<1>1. U \subseteq DOMAIN pages' /\ T \subseteq DOMAIN pages
  BY DEF SoundTree, TreeShape, Levels
<1>2. NewPageId \notin DOMAIN pages
  <2>1. PICK D : D = DOMAIN pages \cup {NewPageId}
    OBVIOUS
  <2> QED
    BY <2>1, NewPage DEF SoundTree
<1>3. \A p \in U : p \in T
  BY <1>1, <1>2
<1> QED
  BY <1>3, LeafStepsKeepFilled

LEMMA InsertIntoLeafKeepsFilled ==
  ASSUME NEW T, SoundTree(T), Filled(T), NEW U, SoundTree(U)', U \subseteq T \cup {NewPageId},
         NEW k \in Keys, NEW v \in Values,
         StartNewTree(k, v) \/ InsertIntoLeaf(k, v) \/ SplitLeaf(k, v)
  PROVE  Filled(U)'
<1>1. PagesTyped /\ todo = Idle
  BY DEF SoundTree, StartNewTree, InsertIntoLeaf, SplitLeaf
<1>2. PICK level : TreeShape(pages, root_page_id, Pending, T, level)
  BY DEF SoundTree
<1>3. T \subseteq DOMAIN pages /\ U \subseteq DOMAIN pages'
  BY DEF SoundTree, TreeShape, Levels
<1>4. PICK new : new = NewPageId
  OBVIOUS
<1>5. new \notin DOMAIN pages
  <2>1. PICK D : D = DOMAIN pages \cup {NewPageId}
    OBVIOUS
  <2> QED
    BY <1>1, <1>4, <2>1, NewPage
<1>6. CASE StartNewTree(k, v)
  <2>1. PICK page : page = Leaf(INVALID_PAGE_ID, INVALID_PAGE_ID, <<Pair(k, v)>>)
    OBVIOUS
  <2>2. pages' = Put(pages, new, page) /\ IsEmpty /\ todo' = Idle
    BY <1>4, <1>6, <2>1 DEF StartNewTree
  <2>3. pages'[new].leaf = TRUE
    BY <2>1, <2>2 DEF Put, Leaf
  <2>4. T = {}
    BY <1>2, <2>2 DEF IsEmpty, TreeShape, RootOnTop
  <2> QED
    BY <1>4, <2>2, <2>3, <2>4, FilledAtEnd
<1>7. ASSUME ~IsEmpty
      PROVE  /\ FindLeafPage(k) \in T
             /\ FindLeafPage(k) \in DOMAIN pages
             /\ pages[FindLeafPage(k)].leaf
             /\ pages[FindLeafPage(k)] \in LeafPage
  BY <1>1, <1>2, <1>7, FoundLeaf, PageKinds
<1>8. CASE InsertIntoLeaf(k, v)
  <2>1. PICK leaf, array : leaf = FindLeafPage(k) /\ array = LeafInsert(pages[leaf].array, k, v)
    OBVIOUS
  <2>2. /\ ~IsEmpty /\ pages' = [pages EXCEPT ![leaf].array = array]
        /\ root_page_id' = root_page_id /\ todo' = Idle
    BY <1>1, <1>8, <2>1 DEF InsertIntoLeaf
  <2>3. leaf \in T /\ leaf \in DOMAIN pages /\ pages[leaf].leaf /\ pages[leaf] \in LeafPage
    BY <1>7, <2>1, <2>2
  <2>4. /\ \A p \in T : pages'[p].leaf = pages[p].leaf
        /\ \A p \in T : ~pages[p].leaf => pages'[p].array = pages[p].array
    BY <1>3, <2>2, <2>3 DEF LeafPage
  <2>5. \A p \in U : p \in T
    BY <1>3, <1>4, <1>5, <2>2
  <2> QED
    BY <1>1, <2>2, <2>4, <2>5, LeafStepsKeepFilled
<1>9. CASE SplitLeaf(k, v)
  <2>1. PICK leaf, all, split, left, right, page :
          /\ leaf = FindLeafPage(k)
          /\ all = WithPairSorted(pages[leaf].array, k, v)
          /\ split = LeafSplitIndex(Len(all))
          /\ left = Refilled(SubSeq(all, 1, split))
          /\ right = Refilled(SubSeq(all, split + 1, Len(all)))
          /\ page = NewLeaf(leaf, right)
    OBVIOUS
  <2>2. PICK store : store = [pages EXCEPT ![leaf].array = left, ![leaf].next = new]
    OBVIOUS
  <2>3. /\ ~IsEmpty
        /\ pages' = Put(store, new, page)
        /\ todo' = [op |-> "insert", old |-> leaf, key |-> right[1].key, new |-> new]
        /\ root_page_id' = root_page_id
    BY <1>4, <1>9, <2>1, <2>2 DEF SplitLeaf
  <2>4. leaf \in T /\ leaf \in DOMAIN pages /\ pages[leaf].leaf /\ pages[leaf] \in LeafPage
    BY <1>7, <2>1, <2>3
  <2>5. /\ \A p \in DOMAIN pages : p # leaf => store[p] = pages[p]
        /\ store[leaf] = [pages[leaf] EXCEPT !.array = left, !.next = new]
        /\ DOMAIN store = DOMAIN pages
    BY <2>2, <2>4
  <2>6. store[leaf].leaf = pages[leaf].leaf
    BY <2>4, <2>5 DEF LeafPage
  <2>7. /\ \A p \in DOMAIN pages : pages'[p] = store[p]
        /\ pages'[new] = page
    BY <1>5, <2>3, <2>5 DEF Put
  <2>8. page.leaf = TRUE
    BY <2>1 DEF NewLeaf, Leaf
  <2>9. /\ \A p \in T : pages'[p].leaf = pages[p].leaf
        /\ \A p \in T : ~pages[p].leaf => pages'[p].array = pages[p].array
    BY <1>3, <2>4, <2>5, <2>6, <2>7
  <2>10. \A p \in U : p \in T \/ pages'[p].leaf
    BY <1>4, <2>7, <2>8
  <2>11. todo'.op = "insert" /\ pages'[todo'.old].leaf
    BY <2>3, <2>4, <2>6, <2>7
  <2> QED
    BY <1>1, <2>3, <2>9, <2>10, <2>11, LeafStepsKeepFilled
<1> QED
  BY <1>6, <1>8, <1>9

LEMMA RemoveFromLeafKeepsFilled ==
  ASSUME NEW T, SoundTree(T), Filled(T), NEW U, SoundTree(U)', U \subseteq T \cup {NewPageId},
         NEW k \in Keys, RemoveFromLeaf(k)
  PROVE  Filled(U)'
<1>1. PagesTyped /\ todo = Idle /\ ~IsEmpty
  BY DEF SoundTree, RemoveFromLeaf, Found
<1>2. PICK level : TreeShape(pages, root_page_id, Pending, T, level)
  BY DEF SoundTree
<1>3. T \subseteq DOMAIN pages /\ U \subseteq DOMAIN pages'
  BY DEF SoundTree, TreeShape, Levels
<1>4. NewPageId \notin DOMAIN pages
  <2>1. PICK D : D = DOMAIN pages \cup {NewPageId}
    OBVIOUS
  <2> QED
    BY <1>1, <2>1, NewPage
<1>5. PICK leaf, array : leaf = FindLeafPage(k) /\ array = LeafRemove(pages[leaf].array, k)
  OBVIOUS
<1>6. leaf \in T /\ leaf \in DOMAIN pages /\ pages[leaf].leaf /\ pages[leaf] \in LeafPage
  BY <1>1, <1>2, <1>5, FoundLeaf, PageKinds
<1>7. /\ pages' = [pages EXCEPT ![leaf].array = array]
      /\ root_page_id' \in {root_page_id, INVALID_PAGE_ID}
      /\ todo' \in {Idle, [op |-> "underflow", page |-> leaf]}
  BY <1>1, <1>5 DEF RemoveFromLeaf, SetRoot
<1>8. /\ \A p \in T : pages'[p].leaf = pages[p].leaf
      /\ \A p \in T : ~pages[p].leaf => pages'[p].array = pages[p].array
  BY <1>3, <1>6, <1>7 DEF LeafPage
<1>9. \A p \in U : p \in T
  BY <1>3, <1>4, <1>7
<1>10. \/ todo' = Idle
       \/ todo'.op = "underflow" /\ pages'[todo'.page].leaf
  BY <1>6, <1>7, <1>8
<1> QED
  BY <1>1, <1>7, <1>8, <1>9, <1>10, LeafStepsKeepFilled

\* Both halves of an internal page that has one child too many.
LEMMA HalvesAreFilled ==
  ASSUME NEW n \in Int, n = InternalMax + 1
  PROVE  /\ n \div 2 \in Int /\ n \div 2 >= 2 /\ n \div 2 >= Half /\ n \div 2 <= InternalMax
         /\ n - n \div 2 \in Int /\ n - n \div 2 >= Half /\ n - n \div 2 <= InternalMax
<1>1. PICK h : h = n \div 2
  OBVIOUS
<1>2. h \in Int /\ h + h <= n /\ n <= h + h + 1
  BY <1>1
<1> QED
  BY <1>1, <1>2, HalfFacts

LEMMA NewRootKeepsFilled ==
  ASSUME NEW T, SoundTree(T), Filled(T), NEW U, SoundTree(U)', U \subseteq T \cup {NewPageId},
         NewRoot
  PROVE  Filled(U)'
<1>1. PICK level : TreeShape(pages, root_page_id, Pending, T, level) /\ CallShape(T, level)
  BY DEF SoundTree
<1>2. PagesTyped /\ OthersTyped /\ T \subseteq DOMAIN pages
  BY <1>1 DEF SoundTree, TreeShape, Levels
<1>3. PICK old, N : old = todo.old /\ N = NewPageId
  OBVIOUS
<1>4. todo.op = "insert" /\ IsRootPage(old) /\ root_page_id' = N /\ todo' = Idle
  BY <1>3 DEF NewRoot, SetRoot
<1>5. old = root_page_id
  <2>1. old \in T /\ old # Pending
    BY <1>1, <1>2, <1>3, <1>4, InsertFacts
  <2> QED
    BY <1>1, <1>2, <1>4, <2>1, OnlyRootHasNoParent
<1>6. /\ N \notin DOMAIN pages
      /\ Len(pages'[N].array) = 2
      /\ \A p \in DOMAIN pages : /\ pages'[p].leaf = pages[p].leaf
                                 /\ pages'[p].array = pages[p].array
  BY <1>3, NewRootArrays
<1>7. ASSUME NEW p \in U, ~pages'[p].leaf
      PROVE  /\ Len(pages'[p].array) \in Int /\ Len(pages'[p].array) <= InternalMax
             /\ Len(pages'[p].array) >= IF p = root_page_id' THEN 2 ELSE Half
  <2>1. CASE p = N
    <3>1. Len(pages'[p].array) = 2
      BY <1>6, <2>1
    <3>2. (IF p = root_page_id' THEN 2 ELSE Half) = 2
      BY <1>4, <2>1
    <3> QED
      BY <3>1, <3>2, HalfFacts
  <2>2. CASE p # N
    <3>1. p \in T /\ ~pages[p].leaf /\ Len(pages'[p].array) = Size(p)
      BY <1>2, <1>3, <1>6, <1>7, <2>2 DEF Size
    <3>2. Size(p) \in Int /\ Size(p) <= InternalMax
      BY <3>1, InternalSizes
    <3>3. p # root_page_id => Size(p) >= Half
      BY <1>4, <3>1, InternalSizes
    <3>4. p = root_page_id => Size(p) >= Half
      BY <1>3, <1>4, <1>5, <3>1 DEF Filled
    <3>5. Size(p) >= Half
      BY <3>3, <3>4
    <3>6. (IF p = root_page_id' THEN 2 ELSE Half) = Half
      BY <1>4, <2>2
    <3> QED
      BY <3>1, <3>2, <3>5, <3>6
  <2> QED
    BY <2>1, <2>2
<1> QED
  BY <1>4, <1>7, FilledAtEnd

LEMMA ParentHasRoomKeepsFilled ==
  ASSUME NEW T, SoundTree(T), Filled(T), NEW U, SoundTree(U)', U \subseteq T \cup {NewPageId},
         ParentHasRoom
  PROVE  Filled(U)'
<1>1. T \subseteq DOMAIN pages /\ U \subseteq DOMAIN pages'
  BY DEF SoundTree, TreeShape, Levels
<1>2. todo.op = "insert" /\ root_page_id' = root_page_id /\ todo' = Idle
  BY DEF ParentHasRoom
<1>3. NewPageId \notin DOMAIN pages
  BY <1>2, InsertPages
<1>4. PICK P : P = pages[todo.old].parent
  OBVIOUS
<1>5. /\ DOMAIN pages' = DOMAIN pages
      /\ P \in T /\ ~pages[P].leaf
      /\ Len(pages'[P].array) = Size(P) + 1 /\ Len(pages'[P].array) <= InternalMax
      /\ \A p \in DOMAIN pages : /\ pages'[p].leaf = pages[p].leaf
                                 /\ p # P => pages'[p].array = pages[p].array
  BY <1>4, ParentHasRoomArrays
<1>6. ASSUME NEW p \in U, ~pages'[p].leaf
      PROVE  /\ Len(pages'[p].array) \in Int /\ Len(pages'[p].array) <= InternalMax
             /\ Len(pages'[p].array) >= IF p = root_page_id' THEN 2 ELSE Half
  <2>1. p \in T /\ ~pages[p].leaf
    BY <1>1, <1>3, <1>5, <1>6
  <2>2. /\ Size(p) \in Int /\ Size(p) <= InternalMax
        /\ p = root_page_id => Size(p) >= 2
        /\ p # root_page_id => Size(p) >= Half
    BY <1>2, <2>1, InternalSizes
  <2>3. Size(p) >= IF p = root_page_id' THEN 2 ELSE Half
    BY <1>2, <2>2
  <2>4. CASE p = P
    <3>1. Len(pages'[p].array) = Size(p) + 1 /\ Len(pages'[p].array) <= InternalMax
      BY <1>5, <2>4
    <3> QED
      BY <2>2, <2>3, <3>1, HalfFacts
  <2>5. CASE p # P
    <3>1. Len(pages'[p].array) = Size(p)
      BY <1>1, <1>5, <2>1, <2>5 DEF Size
    <3> QED
      BY <2>2, <2>3, <3>1
  <2> QED
    BY <2>4, <2>5
<1> QED
  BY <1>2, <1>6, FilledAtEnd

LEMMA ParentSplitsKeepsFilled ==
  ASSUME NEW T, SoundTree(T), Filled(T), NEW U, SoundTree(U)', U \subseteq T \cup {NewPageId},
         ParentSplits
  PROVE  Filled(U)'
<1>1. T \subseteq DOMAIN pages /\ root_page_id \in T
  <2>1. PICK level : TreeShape(pages, root_page_id, Pending, T, level) /\ CallShape(T, level)
    BY DEF SoundTree
  <2>2. todo.op = "insert" /\ PagesTyped /\ OthersTyped
    BY DEF ParentSplits, SoundTree
  <2> QED
    BY <2>1, <2>2, InsertFacts
<1>2. PICK P, N : P = pages[todo.old].parent /\ N = NewPageId
  OBVIOUS
<1>3. /\ todo.op = "insert" /\ root_page_id' = root_page_id
      /\ todo'.op = "insert" /\ todo'.old = P
  BY <1>2 DEF ParentSplits
<1>4. /\ N \notin DOMAIN pages
      /\ P \in T /\ P \in DOMAIN pages /\ ~pages[P].leaf
      /\ Size(P) \in Nat /\ Size(P) + 1 > InternalMax
      /\ Len(pages'[P].array) = (Size(P) + 1) \div 2
      /\ Len(pages'[N].array) = Size(P) + 1 - (Size(P) + 1) \div 2
      /\ \A p \in DOMAIN pages : /\ pages'[p].leaf = pages[p].leaf
                                 /\ p # P => pages'[p].array = pages[p].array
  BY <1>2, ParentSplitsArrays
<1>5. PICK n : n = Size(P) + 1
  OBVIOUS
<1>6. n \in Int /\ n = InternalMax + 1
  <2>1. Size(P) <= InternalMax
    BY <1>4, InternalSizes
  <2> QED
    BY <1>4, <1>5, <2>1, HalfFacts
<1>7. /\ Len(pages'[P].array) = n \div 2 /\ Len(pages'[N].array) = n - n \div 2
      /\ n \div 2 \in Int /\ n \div 2 >= 2 /\ n \div 2 >= Half /\ n \div 2 <= InternalMax
      /\ n - n \div 2 \in Int /\ n - n \div 2 >= Half /\ n - n \div 2 <= InternalMax
  <2>1. /\ n \div 2 \in Int /\ n \div 2 >= 2 /\ n \div 2 >= Half /\ n \div 2 <= InternalMax
        /\ n - n \div 2 \in Int /\ n - n \div 2 >= Half /\ n - n \div 2 <= InternalMax
    BY <1>6, HalvesAreFilled
  <2>2. Len(pages'[P].array) = n \div 2 /\ Len(pages'[N].array) = n - n \div 2
    BY <1>4, <1>5
  <2> QED
    BY <2>1, <2>2
<1>8. ASSUME NEW p \in U, ~pages'[p].leaf
      PROVE  Size(p)' \in LeastSize(p)' .. InternalMax
  <2>1. LeastSize(p)' = IF p = root_page_id THEN 2 ELSE Half
    BY <1>3 DEF LeastSize
  <2>2. Size(p)' = Len(pages'[p].array)
    BY DEF Size
  <2>3. CASE p = N
    <3>1. p # root_page_id
      BY <1>1, <1>4, <2>3
    <3> QED
      BY <1>7, <2>1, <2>2, <2>3, <3>1, HalfFacts
  <2>4. CASE p = P
    BY <1>7, <2>1, <2>2, <2>4, HalfFacts
  <2>5. CASE p \notin {N, P}
    <3>1. p \in T /\ ~pages[p].leaf /\ Len(pages'[p].array) = Size(p)
      BY <1>1, <1>2, <1>4, <1>8, <2>5 DEF Size
    <3>2. /\ Size(p) \in Int /\ Size(p) <= InternalMax
          /\ p = root_page_id => Size(p) >= 2
          /\ p # root_page_id => Size(p) >= Half
      BY <1>3, <3>1, InternalSizes
    <3> QED
      BY <2>1, <2>2, <3>1, <3>2, HalfFacts
  <2> QED
    BY <2>3, <2>4, <2>5
<1>9. Size(P)' >= Half
  BY <1>7 DEF Size
<1> QED
  BY <1>3, <1>8, <1>9 DEF Filled

\* What an underflowing page, its sibling and their parent hold.
LEMMA UnderflowFilled ==
  ASSUME NEW T, SoundTree(T), Filled(T), Underflowing,
         NEW page, page = todo.page, NEW S, S = Sibling, NEW P, P = Parent
  PROVE  /\ todo.op = "underflow"
         /\ page \in T /\ S \in T /\ P \in T
         /\ page # root_page_id /\ S # root_page_id
         /\ P # page /\ P # S /\ page # S
         /\ ~pages[P].leaf /\ (pages[S].leaf <=> pages[page].leaf)
         /\ IsRootPage(P) <=> P = root_page_id
         /\ ~pages[page].leaf =>
              /\ Size(page) = Half - 1 /\ Half >= 2
              /\ Size(S) \in Int /\ Size(S) >= Half
              /\ MinSize(S) = Half
         /\ pages[page].leaf => \A c \in Kids(pages, P) : pages[c].leaf
<1>1. PICK level : TreeShape(pages, root_page_id, Pending, T, level) /\ CallShape(T, level)
  BY DEF SoundTree
<1>2. PagesTyped /\ OthersTyped
  BY DEF SoundTree
<1>3. todo.op = "underflow"
  BY DEF Underflowing
<1>4. /\ Pending = INVALID_PAGE_ID
      /\ page \in T /\ page # root_page_id /\ S \in T /\ P \in T
      /\ page # S /\ P # page /\ P # S
      /\ level[S] = level[page] /\ level[P] = level[page] + 1
      /\ ~pages[P].leaf /\ (pages[S].leaf <=> pages[page].leaf)
      /\ root_page_id # INVALID_PAGE_ID
  BY <1>1, <1>2, UnderflowFacts
<1>5. /\ T \subseteq DOMAIN pages /\ level \in [T -> Nat]
      /\ \A p \in T : pages[p].leaf <=> level[p] = 0
      /\ \A p \in T : level[p] <= level[root_page_id]
  BY <1>1, <1>4 DEF TreeShape, Levels, RootOnTop
<1>6. S # root_page_id
  <2>1. level[page] \in Nat /\ level[P] <= level[root_page_id]
    BY <1>4, <1>5
  <2> QED
    BY <1>4, <2>1
<1>7. IsRootPage(P) <=> P = root_page_id
  <2>1. P # INVALID_PAGE_ID
    BY <1>2, <1>4, <1>5, PageKinds
  <2> QED
    BY <1>1, <1>2, <1>4, <2>1, OnlyRootHasNoParent
<1>8. ASSUME ~pages[page].leaf
      PROVE  /\ Size(page) = Half - 1 /\ Half >= 2
             /\ Size(S) \in Int /\ Size(S) >= Half
             /\ MinSize(S) = Half
  <2>1. Size(page) = Half - 1
    BY <1>3, <1>8 DEF Filled
  <2>2. pages[page].array \in Seq(ChildPair) /\ pages[page].array # <<>>
    BY <1>1, <1>2, <1>4, <1>5, <1>8, PageKinds DEF TreeShape, NodesAreSound
  <2>3. Size(page) \in Nat \ {0}
    BY <2>2, LenProperties, EmptySeq DEF Size
  <2>4. Half >= 2
    BY <2>1, <2>3, HalfFacts
  <2>5. Size(S) \in Int /\ Size(S) >= Half
    BY <1>3, <1>4, <1>6, <1>8, InternalSizes
  <2>6. MinSize(S) = Half
    BY <1>4, <1>8 DEF MinSize, MaxSize, Half
  <2> QED
    BY <2>1, <2>4, <2>5, <2>6
<1>9. ASSUME pages[page].leaf, NEW c \in Kids(pages, P)
      PROVE  pages[c].leaf
  <2>1. c \in T /\ level[P] = level[c] + 1
    BY <1>1, <1>4 DEF TreeShape, ParentsOfKids
  <2>2. level[c] \in Nat /\ level[page] = 0
    BY <1>4, <1>5, <1>9, <2>1
  <2>3. level[c] = 0
    BY <1>4, <2>1, <2>2
  <2> QED
    BY <1>5, <2>1, <2>3
<1> QED
  BY <1>3, <1>4, <1>6, <1>7, <1>8, <1>9

LEMMA RedistributeKeepsFilled ==
  ASSUME NEW T, SoundTree(T), Filled(T), NEW U, SoundTree(U)', U \subseteq T \cup {NewPageId},
         RedistributeFromLeft \/ RedistributeFromRight
  PROVE  Filled(U)'
<1>1. T \subseteq DOMAIN pages /\ U \subseteq DOMAIN pages' /\ PagesTyped /\ OthersTyped
  BY DEF SoundTree, TreeShape, Levels
<1>2. /\ Underflowing /\ root_page_id' = root_page_id /\ todo' = Idle
      /\ Size(Sibling) > MinSize(Sibling)
  BY DEF RedistributeFromLeft, RedistributeFromRight
<1>3. PICK page, S, P : page = todo.page /\ S = Sibling /\ P = Parent
  OBVIOUS
<1>4. /\ todo.op = "underflow"
      /\ page \in T /\ S \in T /\ P \in T
      /\ page # root_page_id /\ S # root_page_id
      /\ P # page /\ P # S /\ page # S
      /\ ~pages[P].leaf /\ (pages[S].leaf <=> pages[page].leaf)
      /\ ~pages[page].leaf =>
           /\ Size(page) = Half - 1 /\ Half >= 2
           /\ Size(S) \in Int /\ Size(S) >= Half
           /\ MinSize(S) = Half
  BY <1>2, <1>3, UnderflowFilled
<1>5. PICK a, b, c, M : /\ PairMoved(page, S, a, b, M)
                        /\ Len(c) = Size(P)
                        /\ ArraysWritten(S, page, P, a, b, c, M, page)
  <2>1. PICK level : TreeShape(pages, root_page_id, Pending, T, level) /\ CallShape(T, level)
    BY DEF SoundTree
  <2>2. CASE RedistributeFromLeft
    BY <1>1, <1>3, <2>1, <2>2, FromLeftEffect
  <2>3. CASE RedistributeFromRight
    BY <1>1, <1>3, <2>1, <2>3, FromRightEffect
  <2> QED
    BY <2>2, <2>3
<1>6. /\ DOMAIN pages' = DOMAIN pages
      /\ \A p \in DOMAIN pages : /\ pages'[p].leaf = pages[p].leaf
                                 /\ p \notin {S, page, P} => pages'[p].array = pages[p].array
      /\ Len(pages'[S].array) = Size(S) - 1 /\ Len(pages'[page].array) = Size(page) + 1
      /\ Len(pages'[P].array) = Size(P)
  BY <1>5 DEF ArraysWritten, PairMoved
<1>7. NewPageId \notin DOMAIN pages
  <2>1. PICK D : D = DOMAIN pages \cup {NewPageId}
    OBVIOUS
  <2> QED
    BY <1>1, <2>1, NewPage
<1>8. ASSUME NEW p \in U, ~pages'[p].leaf
      PROVE  /\ Len(pages'[p].array) \in Int /\ Len(pages'[p].array) <= InternalMax
             /\ Len(pages'[p].array) >= IF p = root_page_id' THEN 2 ELSE Half
  <2>1. p \in T /\ p \in DOMAIN pages /\ ~pages[p].leaf
    BY <1>1, <1>6, <1>7, <1>8
  <2>2. /\ Size(p) \in Int /\ Size(p) <= InternalMax
        /\ p = root_page_id => Size(p) >= 2
        /\ p # root_page_id /\ p # page => Size(p) >= Half
    BY <1>3, <1>4, <2>1, InternalSizes
  <2>3. CASE p = page
    <3>1. Size(page) = Half - 1 /\ Len(pages'[p].array) = Size(page) + 1
      BY <1>4, <1>6, <2>1, <2>3
    <3>2. Len(pages'[p].array) = Half
      BY <3>1, HalfFacts
    <3>3. (IF p = root_page_id' THEN 2 ELSE Half) = Half
      BY <1>2, <1>4, <2>3
    <3> QED
      BY <3>2, <3>3, HalfFacts
  <2>4. CASE p = S
    <3>1. Size(p) > Half /\ Len(pages'[p].array) = Size(p) - 1
      BY <1>2, <1>3, <1>4, <1>6, <2>1, <2>4
    <3>2. (IF p = root_page_id' THEN 2 ELSE Half) = Half
      BY <1>2, <1>4, <2>4
    <3> QED
      BY <2>2, <3>1, <3>2, HalfFacts
  <2>5. CASE p \notin {page, S}
    <3>1. Len(pages'[p].array) = Size(p)
      <4>1. CASE p = P
        BY <1>6, <4>1
      <4>2. CASE p # P
        BY <1>6, <2>1, <2>5, <4>2 DEF Size
      <4> QED
        BY <4>1, <4>2
    <3>2. Size(p) >= IF p = root_page_id' THEN 2 ELSE Half
      BY <1>2, <2>2, <2>5
    <3> QED
      BY <2>2, <3>1, <3>2
  <2> QED
    BY <2>3, <2>4, <2>5
<1> QED
  BY <1>2, <1>8, FilledAtEnd

LEMMA CoalesceKeepsFilled ==
  ASSUME NEW T, SoundTree(T), Filled(T), NEW U, SoundTree(U)', U \subseteq T \cup {NewPageId},
         Coalesce
  PROVE  Filled(U)'
<1>1. T \subseteq DOMAIN pages /\ U \subseteq DOMAIN pages' /\ PagesTyped /\ OthersTyped
  BY DEF SoundTree, TreeShape, Levels
<1>2. PICK page, S, P : page = todo.page /\ S = Sibling /\ P = Parent
  OBVIOUS
<1>3. /\ Underflowing /\ root_page_id' = root_page_id
      /\ Size(S) <= MinSize(S)
      /\ todo' = IF IsRootPage(P) THEN [op |-> "adjust root", page |-> P]
                 ELSE IF Underflows(P) THEN [op |-> "underflow", page |-> P]
                      ELSE Idle
  BY <1>2 DEF Coalesce
<1>4. /\ todo.op = "underflow"
      /\ page \in T /\ S \in T /\ P \in T
      /\ page # root_page_id /\ S # root_page_id
      /\ P # page /\ P # S /\ page # S
      /\ ~pages[P].leaf /\ (pages[S].leaf <=> pages[page].leaf)
      /\ IsRootPage(P) <=> P = root_page_id
      /\ ~pages[page].leaf =>
           /\ Size(page) = Half - 1 /\ Half >= 2
           /\ Size(S) \in Int /\ Size(S) >= Half
           /\ MinSize(S) = Half
      /\ pages[page].leaf => \A k \in Kids(pages, P) : pages[k].leaf
  BY <1>2, <1>3, UnderflowFilled
<1>5. PICK from, to, b, c, M : /\ PagesMerged(page, S, P, from, to, b, c, M)
                               /\ ArraysWritten(from, to, P, <<>>, b, c, M, to)
  <2>1. PICK level : TreeShape(pages, root_page_id, Pending, T, level) /\ CallShape(T, level)
    BY DEF SoundTree
  <2> QED
    BY <1>1, <1>2, <2>1, CoalesceEffect
<1>6. /\ DOMAIN pages' = DOMAIN pages
      /\ \A p \in DOMAIN pages : /\ pages'[p].leaf = pages[p].leaf
                                 /\ p \notin {from, to, P} => pages'[p].array = pages[p].array
      /\ pages'[from].array = <<>> /\ Len(pages'[to].array) = Size(to) + Size(from)
      /\ pages'[P].array = c /\ Len(pages'[P].array) = Size(P) - 1
  BY <1>5 DEF ArraysWritten, PagesMerged
<1>7. {from, to} = {page, S} /\ from # to
  BY <1>5 DEF PagesMerged
<1>8. NewPageId \notin DOMAIN pages
  <2>1. PICK D : D = DOMAIN pages \cup {NewPageId}
    OBVIOUS
  <2> QED
    BY <1>1, <2>1, NewPage
<1>9. ~pages'[P].leaf /\ P \in DOMAIN pages
  BY <1>1, <1>4, <1>6
<1>10. /\ Size(P) \in Int /\ Size(P) <= InternalMax
       /\ P = root_page_id => Size(P) >= 2
       /\ P # root_page_id => Size(P) >= Half
  BY <1>2, <1>4, InternalSizes
<1>11. MinSize(P) = Half
  BY <1>4 DEF MinSize, MaxSize, Half
<1>12. \/ /\ P = root_page_id
          /\ todo'.op = "adjust root"
       \/ /\ P # root_page_id /\ Size(P) = Half
          /\ todo'.op = "underflow" /\ todo'.page = P
       \/ /\ P # root_page_id /\ Size(P) - 1 >= Half
          /\ todo'.op = "idle"
  <2>1. CASE IsRootPage(P)
    <3>1. todo' = [op |-> "adjust root", page |-> P]
      BY <1>3, <2>1
    <3> QED
      BY <1>4, <2>1, <3>1
  <2>2. CASE ~IsRootPage(P) /\ Underflows(P)
    <3>1. todo' = [op |-> "underflow", page |-> P]
      BY <1>3, <2>2
    <3>2. P # root_page_id
      BY <1>4, <2>2
    <3>3. Size(P) - 1 < Half
      BY <1>11, <2>2 DEF Underflows
    <3>4. Size(P) = Half
      BY <1>10, <3>2, <3>3, HalfFacts
    <3> QED
      BY <3>1, <3>2, <3>4
  <2>3. CASE ~IsRootPage(P) /\ ~Underflows(P)
    <3>1. todo'.op = "idle"
      BY <1>3, <2>3 DEF Idle
    <3>2. ~(Size(P) - 1 < Half)
      BY <1>11, <2>3 DEF Underflows
    <3>3. Size(P) - 1 >= Half
      BY <1>10, <3>2, HalfFacts
    <3> QED
      BY <1>4, <2>3, <3>1, <3>3
  <2> QED
    BY <2>1, <2>2, <2>3
<1>13. ASSUME NEW p \in U, ~pages'[p].leaf
       PROVE  Size(p)' \in LeastSize(p)' .. InternalMax
  <2>1. p \in T /\ p \in DOMAIN pages /\ ~pages[p].leaf
    BY <1>1, <1>6, <1>8, <1>13
  <2>2. Size(p)' = Len(pages'[p].array)
    BY DEF Size
  <2>3. /\ Size(p) \in Int /\ Size(p) <= InternalMax
        /\ p = root_page_id => Size(p) >= 2
        /\ p # root_page_id /\ p # page => Size(p) >= Half
    BY <1>2, <1>4, <2>1, InternalSizes
  <2>4. p # P => LeastSize(p)' = IF p = root_page_id THEN 2 ELSE Half
    <3>1. CASE P = root_page_id
      BY <1>3, <1>12, <3>1 DEF LeastSize
    <3>2. CASE todo'.op = "underflow" /\ todo'.page = P
      BY <1>3, <3>2 DEF LeastSize
    <3>3. CASE todo'.op = "idle"
      BY <1>3, <3>3 DEF LeastSize
    <3> QED
      BY <1>12, <3>1, <3>2, <3>3
  <2>5. CASE p = from
    <3>1. pages'[p].array # <<>>
      BY <1>13 DEF SoundTree, TreeShape, NodesAreSound
    <3> QED
      BY <1>6, <2>5, <3>1
  <2>6. CASE p = to
    <3>1. p \in {page, S} /\ ~pages[page].leaf
      BY <1>4, <1>7, <2>1, <2>6
    <3>2. /\ Size(page) = Half - 1 /\ Half >= 2
          /\ Size(S) \in Int /\ Size(S) >= Half /\ Size(S) <= Half
      BY <1>3, <1>4, <3>1
    <3>3. Len(pages'[p].array) = Size(page) + Size(S)
      <4>1. Len(pages'[p].array) = Size(to) + Size(from)
        BY <1>6, <2>6
      <4>2. (to = page /\ from = S) \/ (to = S /\ from = page)
        BY <1>7
      <4>3. Size(page) \in Int
        BY <3>2, HalfFacts
      <4> QED
        BY <3>2, <4>1, <4>2, <4>3
    <3>4. Len(pages'[p].array) \in Half .. InternalMax
      BY <3>2, <3>3, HalfFacts
    <3>5. LeastSize(p)' = Half
      BY <1>4, <2>4, <3>1
    <3> QED
      BY <2>2, <3>4, <3>5
  <2>7. CASE p = P
    <3>1. Size(p)' = Size(P) - 1
      BY <1>6, <2>2, <2>7
    <3>2. CASE P = root_page_id
      <4>1. LeastSize(p)' = 1
        BY <1>3, <1>12, <2>7, <3>2 DEF LeastSize
      <4> QED
        BY <1>10, <3>1, <3>2, <4>1, HalfFacts
    <3>3. CASE P # root_page_id /\ Size(P) = Half /\ todo'.op = "underflow" /\ todo'.page = P
      <4>1. LeastSize(p)' = Half - 1
        BY <1>3, <2>7, <3>3 DEF LeastSize
      <4> QED
        BY <1>10, <3>1, <3>3, <4>1, HalfFacts
    <3>4. CASE P # root_page_id /\ Size(P) - 1 >= Half /\ todo'.op = "idle"
      <4>1. LeastSize(p)' = Half
        BY <1>3, <2>7, <3>4 DEF LeastSize
      <4> QED
        BY <1>10, <3>1, <3>4, <4>1, HalfFacts
    <3> QED
      BY <1>12, <3>2, <3>3, <3>4
  <2>8. CASE p \notin {from, to, P}
    <3>1. Size(p)' = Size(p)
      BY <1>6, <2>1, <2>8 DEF Size
    <3>2. p # page
      BY <1>7, <2>8
    <3>3. LeastSize(p)' = IF p = root_page_id THEN 2 ELSE Half
      BY <2>4, <2>8
    <3> QED
      BY <2>3, <3>1, <3>2, <3>3, HalfFacts
  <2> QED
    BY <2>5, <2>6, <2>7, <2>8
<1>14. ASSUME todo'.op = "underflow"
       PROVE  Size(todo.page)' = Half - 1
  <2>1. Size(P) = Half /\ todo'.page = P
    BY <1>12, <1>14
  <2>2. pages'[todo'.page].array = c /\ Len(c) = Size(P) - 1
    BY <1>6, <2>1
  <2> QED
    BY <2>1, <2>2 DEF Size
<1>15. ASSUME todo'.op = "adjust root", Half = 1, NEW k \in Kids(pages', root_page_id')
       PROVE  pages'[k].leaf
  <2>1. P = root_page_id /\ k \in Kids(pages', P)
    BY <1>3, <1>12, <1>15
  <2>2. pages[page].leaf
    <3>1. ASSUME ~pages[page].leaf
          PROVE  FALSE
      <4>1. Half >= 2 /\ Half = 1
        BY <1>4, <1>15, <3>1
      <4> QED
        BY <4>1
    <3>2. pages[page].leaf \in BOOLEAN
      BY <1>1, <1>4, PageKinds
    <3> QED
      BY <3>1, <3>2
  <2>3. k \in Kids(pages, P)
    <3>1. Kids(pages', P) = Children(c)
      BY <1>6, <1>9 DEF Kids
    <3>2. Children(c) \subseteq Kids(pages, P)
      BY <1>5 DEF PagesMerged
    <3> QED
      BY <2>1, <3>1, <3>2
  <2>4. k \in DOMAIN pages
    BY <1>1, <1>4, <1>9, <2>3 DEF PagesTyped, Kids
  <2> QED
    BY <1>4, <1>6, <2>2, <2>3, <2>4
<1>16. todo'.op # "insert"
  BY <1>12
<1> QED
  BY <1>13, <1>14, <1>15, <1>16 DEF Filled

LEMMA AdjustRootKeepsFilled ==
  ASSUME NEW T, SoundTree(T), Filled(T), NEW U, SoundTree(U)', U \subseteq T \cup {NewPageId},
         AdjustRoot
  PROVE  Filled(U)'
<1>1. U \subseteq DOMAIN pages' /\ PagesTyped /\ OthersTyped
  BY DEF SoundTree, TreeShape, Levels
<1>2. PICK level : TreeShape(pages, root_page_id, Pending, T, level) /\ CallShape(T, level)
  BY DEF SoundTree
<1>3. T \subseteq DOMAIN pages
  BY <1>2 DEF TreeShape, Levels
<1>4. PICK array, root, old :
        /\ old = todo.page /\ array = pages[old].array
        /\ root = IF array = <<>> THEN INVALID_PAGE_ID ELSE OnlyChild(array)
  OBVIOUS
<1>5. /\ todo.op = "adjust root" /\ todo' = Idle
      /\ IF GivesWay(array)
         THEN pages' = WithParent(pages, {root}, INVALID_PAGE_ID) /\ root_page_id' = root
         ELSE pages' = pages /\ root_page_id' = root_page_id
  BY <1>4 DEF AdjustRoot, SetRoot
<1>6. old = root_page_id /\ ~pages[old].leaf
  BY <1>2, <1>4, <1>5 DEF CallShape
<1>7. NewPageId \notin DOMAIN pages
  <2>1. PICK D : D = DOMAIN pages \cup {NewPageId}
    OBVIOUS
  <2> QED
    BY <1>1, <2>1, NewPage
<1>8. /\ DOMAIN pages' = DOMAIN pages
      /\ \A p \in DOMAIN pages : /\ pages'[p].leaf = pages[p].leaf
                                 /\ pages'[p].array = pages[p].array
  <2>1. \A p \in DOMAIN pages : pages[p] \in LeafPage \cup InternalPage
    BY <1>1 DEF PagesTyped
  <2>2. INVALID_PAGE_ID \in Int
    BY DEF INVALID_PAGE_ID
  <2>3. CASE GivesWay(array)
    <3>1. pages' = WithParent(pages, {root}, INVALID_PAGE_ID)
      BY <1>5, <2>3
    <3> QED
      BY <2>1, <2>2, <3>1, Reparented
  <2>4. CASE ~GivesWay(array)
    BY <1>5, <2>4
  <2> QED
    BY <2>3, <2>4
<1>9. ASSUME NEW p \in U
      PROVE  p \in T /\ p \in DOMAIN pages /\ Len(pages'[p].array) = Size(p)
  BY <1>1, <1>7, <1>8, <1>9 DEF Size
<1>10. ASSUME NEW p \in T, ~pages[p].leaf
       PROVE  /\ Size(p) \in Int /\ Size(p) <= InternalMax
              /\ p # root_page_id => Size(p) >= Half
  BY <1>5, <1>10, InternalSizes
<1>11. CASE ~GivesWay(array)
  <2>1. ASSUME NEW p \in U, ~pages'[p].leaf
        PROVE  Size(p) >= IF p = root_page_id' THEN 2 ELSE Half
    <3>1. p \in T /\ ~pages[p].leaf
      BY <1>8, <1>9, <2>1
    <3>2. CASE p = root_page_id
      <4>1. Size(p) \in Int /\ ~(Size(p) <= 1)
        BY <1>4, <1>6, <1>10, <1>11, <3>1, <3>2 DEF GivesWay, Size
      <4>2. (IF p = root_page_id' THEN 2 ELSE Half) = 2
        BY <1>5, <1>11, <3>2
      <4>3. Size(p) >= 2
        BY <4>1
      <4> QED
        BY <4>2, <4>3
    <3>3. CASE p # root_page_id
      BY <1>5, <1>10, <1>11, <3>1, <3>3
    <3> QED
      BY <3>2, <3>3
  <2>2. ASSUME NEW p \in U, ~pages'[p].leaf
        PROVE  /\ Len(pages'[p].array) \in Int /\ Len(pages'[p].array) <= InternalMax
               /\ Len(pages'[p].array) >= IF p = root_page_id' THEN 2 ELSE Half
    <3>1. p \in T /\ ~pages[p].leaf /\ Len(pages'[p].array) = Size(p)
      BY <1>8, <1>9, <2>2
    <3> QED
      BY <1>10, <2>1, <2>2, <3>1
  <2> QED
    BY <1>5, <2>2, FilledAtEnd
<1>12. CASE GivesWay(array)
  <2>1. root_page_id' = root
    BY <1>5, <1>12
  <2>2. CASE root_page_id = INVALID_PAGE_ID \/ root = INVALID_PAGE_ID
    <3>1. U = {}
      <4>1. root_page_id = INVALID_PAGE_ID => T = {}
        BY <1>2 DEF TreeShape, RootOnTop
      <4>2. root = INVALID_PAGE_ID => U = {}
        BY <2>1 DEF SoundTree, TreeShape, RootOnTop
      <4> QED
        BY <1>9, <2>2, <4>1, <4>2
    <3> QED
      BY <1>5, <3>1, FilledAtEnd
  <2>3. CASE root_page_id # INVALID_PAGE_ID /\ root # INVALID_PAGE_ID
    <3>1. root \in Kids(pages, old)
      <4>1. old \in T
        BY <1>2, <1>6, <2>3 DEF TreeShape, RootOnTop
      <4>2. array \in Seq(ChildPair) /\ array # <<>>
        BY <1>1, <1>2, <1>3, <1>4, <1>6, <4>1, PageKinds DEF TreeShape, NodesAreSound
      <4>3. root = array[1].value /\ 1 \in 1 .. Len(array)
        <5>1. Len(array) \in Nat \ {0}
          BY <4>2, LenProperties, EmptySeq
        <5> QED
          BY <1>4, <4>2, <5>1 DEF OnlyChild
      <4> QED
        BY <1>4, <1>6, <4>3 DEF Kids, Children
    <3>2. old \notin U
      <4> SUFFICES ASSUME old \in U
                   PROVE  FALSE
        OBVIOUS
      <4>1. old \in DOMAIN pages /\ old # INVALID_PAGE_ID
        BY <1>1, <1>9, PageKinds
      <4>2. root \in Kids(pages', old)
        BY <1>8, <3>1, <4>1 DEF Kids
      <4>3. pages'[root].parent = old
        BY <4>2 DEF SoundTree, TreeShape, ParentsOfKids
      <4>4. pages'[root].parent = INVALID_PAGE_ID
        BY <2>1, <2>3 DEF SoundTree, TreeShape, RootOnTop
      <4> QED
        BY <4>1, <4>3, <4>4
    <3>3. ASSUME NEW p \in U, ~pages'[p].leaf
          PROVE  /\ Len(pages'[p].array) \in Int /\ Len(pages'[p].array) <= InternalMax
                 /\ Len(pages'[p].array) >= IF p = root_page_id' THEN 2 ELSE Half
      <4>1. p \in T /\ ~pages[p].leaf /\ Len(pages'[p].array) = Size(p) /\ p # root_page_id
        BY <1>6, <1>8, <1>9, <3>2, <3>3
      <4>2. Size(p) \in Int /\ Size(p) <= InternalMax /\ Size(p) >= Half
        BY <1>10, <4>1
      <4>3. p = root_page_id' => Half >= 2
        <5>1. p = root_page_id' => Half # 1
          BY <1>5, <1>6, <2>1, <3>1, <4>1 DEF Filled
        <5> QED
          BY <5>1, HalfFacts
      <4> QED
        BY <4>1, <4>2, <4>3, HalfFacts
    <3> QED
      BY <1>5, <3>3, FilledAtEnd
  <2> QED
    BY <2>2, <2>3
<1> QED
  BY <1>11, <1>12

BalancedInv == \E T : SoundTree(T) /\ Filled(T)

LEMMA InitBalancedInv == Init => BalancedInv
<1> SUFFICES ASSUME Init
             PROVE  \E T : SoundTree(T) /\ Filled(T)
  BY DEF BalancedInv
<1>1. PICK T : SoundTree(T)
  BY InitIInv DEF IInv
<1>2. root_page_id = INVALID_PAGE_ID /\ todo.op = "idle"
  BY DEF Init, Idle
<1>3. T = {}
  BY <1>1, <1>2 DEF SoundTree, TreeShape, RootOnTop
<1>4. Filled(T)
  BY <1>2, <1>3 DEF Filled
<1> QED
  BY <1>1, <1>4

LEMMA NextKeepsBalancedInv == BalancedInv /\ [Next]_vars => BalancedInv'
<1> SUFFICES ASSUME NEW T, SoundTree(T), Filled(T), [Next]_vars
             PROVE  \E U : SoundTree(U)' /\ Filled(U)'
  BY DEF BalancedInv
<1>1. PICK U : U \subseteq T \cup {NewPageId} /\ SoundTree(U)'
  BY NextKeepsSound DEF SoundAfter
<1>2. Filled(U)'
  <2>1. CASE InsertStep
    BY <1>1, <2>1, NewRootKeepsFilled, ParentHasRoomKeepsFilled, ParentSplitsKeepsFilled
    DEF InsertStep
  <2>2. CASE RemoveStep
    BY <1>1, <2>2, RedistributeKeepsFilled, CoalesceKeepsFilled, AdjustRootKeepsFilled
    DEF RemoveStep
  <2>3. ASSUME NEW k \in Keys, GetValue(k) \/ InsertRefused(k)
        PROVE  Filled(U)'
    <3>1. todo = Idle /\ UNCHANGED <<pages, root_page_id, todo>>
      BY <2>3 DEF GetValue, InsertRefused
    <3> QED
      BY <1>1, <3>1, LookupsKeepFilled
  <2>4. ASSUME NEW k \in Keys, NEW v \in Values,
               StartNewTree(k, v) \/ InsertIntoLeaf(k, v) \/ SplitLeaf(k, v)
        PROVE  Filled(U)'
    BY <1>1, <2>4, InsertIntoLeafKeepsFilled
  <2>5. ASSUME NEW k \in Keys, RemoveFromLeaf(k)
        PROVE  Filled(U)'
    BY <1>1, <2>5, RemoveFromLeafKeepsFilled
  <2>6. CASE UNCHANGED vars
    <3>1. UNCHANGED <<pages, root_page_id, todo>>
      BY <2>6 DEF vars
    <3>2. T \subseteq DOMAIN pages /\ U \subseteq DOMAIN pages' /\ PagesTyped
      BY <1>1 DEF SoundTree, TreeShape, Levels
    <3>3. NewPageId \notin DOMAIN pages
      <4>1. PICK D : D = DOMAIN pages \cup {NewPageId}
        OBVIOUS
      <4> QED
        BY <3>2, <4>1, NewPage
    <3>4. \A p \in U : p \in T
      BY <1>1, <3>1, <3>2, <3>3
    <3>5. \A p : Size(p)' = Size(p) /\ LeastSize(p)' = LeastSize(p)
      BY <3>1 DEF Size, LeastSize
    <3> QED
      BY <3>1, <3>4, <3>5 DEF Filled, Size
  <2> QED
    BY <2>1, <2>2, <2>3, <2>4, <2>5, <2>6 DEF Next, InsertNext
<1> QED
  BY <1>1, <1>2

\* In every state internal pages of the tree hold as many children as they have to,
\* up to the one a merge has just left short.
THEOREM BalanceInvariance == Spec => []BalancedInv
<1> QED
  BY InitBalancedInv, NextKeepsBalancedInv, PTL DEF Spec

\* All leaves are as far below the root as the root is above the leaves.
LEMMA DepthsOfTree ==
  ASSUME PagesTyped, NEW T, NEW level, ~IsEmpty, NEW new,
         TreeShape(pages, root_page_id, new, T, level)
  PROVE  Depths = {level[root_page_id]}
<1> DEFINE n == Cardinality(DOMAIN pages)
           X == SUBSET T
           Step(above) == UNION {ChildrenOf(q) : q \in above}
           g == [y \in (1 .. n) \X X |-> Step(y[2])]
           Row == CHOOSE f : f = [i \in 0 .. n |-> IF i = 0 THEN {root_page_id} ELSE Step(f[i - 1])]
<1>1. n \in Nat
  BY FS_CardinalityType DEF PagesTyped
<1>2. Depths = {i \in 0 .. n : \E p \in Row[i] : pages[p].leaf}
  BY DEF Depths
<1>3. /\ root_page_id \in T /\ T \subseteq DOMAIN pages /\ level \in [T -> Nat]
      /\ level[root_page_id] < n
      /\ \A p \in T : pages[p].leaf <=> level[p] = 0
  BY DEF TreeShape, Levels, RootOnTop, IsEmpty
<1>4. \A p \in T : \A c \in Kids(pages, p) : c \in T /\ level[p] = level[c] + 1
  BY DEF TreeShape, ParentsOfKids
<1>5. \A p : ChildrenOf(p) = Kids(pages, p)
  BY DEF ChildrenOf, Kids
<1>6. ASSUME NEW above \in X
      PROVE  Step(above) \in X
  BY <1>4, <1>5
<1> HIDE DEF n, Step
<1>7. g \in [(1 .. n) \X X -> X]
  BY <1>6
<1>8. \A i \in 1 .. n : \A above \in X : g[<<i, above>>] = Step(above)
  OBVIOUS
<1>9. {root_page_id} \in X
  BY <1>3
<1>10. Row = CHOOSE f : f = [i \in 0 .. n |-> IF i = 0 THEN {root_page_id} ELSE Step(f[i - 1])]
  OBVIOUS
<1> HIDE DEF X, g, Row
<1>11. PICK h : Course(h, X, {root_page_id}, n, g)
  BY <1>1, <1>7, <1>9, CourseExists
<1>12. \A i \in 1 .. n : h[i] = Step(h[i - 1])
  <2> TAKE i \in 1 .. n
  <2>1. i - 1 \in 0 .. n
    BY <1>1
  <2>2. h[i - 1] \in X
    BY <1>11, <2>1 DEF Course
  <2> QED
    BY <1>8, <1>11, <2>2 DEF Course
<1>13. h = [i \in 0 .. n |-> IF i = 0 THEN {root_page_id} ELSE Step(h[i - 1])]
  BY <1>11, <1>12 DEF Course
<1>14. Row = [i \in 0 .. n |-> IF i = 0 THEN {root_page_id} ELSE Step(Row[i - 1])]
  BY <1>10, <1>13
<1>15. Row[0] = {root_page_id} /\ \A i \in 1 .. n : Row[i] = Step(Row[i - 1])
  <2>1. \A i \in 0 .. n : Row[i] = IF i = 0 THEN {root_page_id} ELSE Step(Row[i - 1])
    BY <1>14
  <2>2. 0 \in 0 .. n /\ \A i \in 1 .. n : i \in 0 .. n /\ i # 0
    BY <1>1
  <2> QED
    BY <2>1, <2>2
<1> DEFINE There(i) == {p \in T : level[p] + i = level[root_page_id]}
           Good == {i \in 0 .. n : /\ Row[i] \subseteq There(i)
                                   /\ i <= level[root_page_id] => Row[i] # {}}
           id == [i \in 0 .. n |-> i]
<1>16. id[0] \in Good
  BY <1>1, <1>3, <1>15
<1>17. \A i \in 1 .. n : id[i - 1] \in Good => id[i] \in Good
  <2> SUFFICES ASSUME NEW i \in 1 .. n, id[i - 1] \in Good
               PROVE  id[i] \in Good
    OBVIOUS
  <2>1. i - 1 \in 0 .. n /\ id[i - 1] = i - 1 /\ i \in 0 .. n /\ id[i] = i
    BY <1>1
  <2>2. PICK above : above = Row[i - 1]
    OBVIOUS
  <2>3. /\ above \subseteq There(i - 1) /\ Row[i] = Step(above)
        /\ i - 1 <= level[root_page_id] => above # {}
    BY <1>15, <2>1, <2>2
  <2>4. ASSUME NEW c \in Step(above)
        PROVE  c \in There(i)
    <3>1. PICK q \in above : c \in Kids(pages, q)
      BY <1>5 DEF Step
    <3>2. q \in T /\ level[q] + (i - 1) = level[root_page_id]
      BY <2>3
    <3>3. c \in T /\ level[q] = level[c] + 1
      BY <1>4, <3>1, <3>2
    <3> QED
      BY <1>1, <1>3, <3>2, <3>3
  <2>5. ASSUME i <= level[root_page_id]
        PROVE  Step(above) # {}
    <3>1. level[root_page_id] \in Nat
      BY <1>3
    <3>2. PICK q \in above : TRUE
      BY <1>1, <2>3, <2>5, <3>1
    <3>3. q \in T /\ level[q] + (i - 1) = level[root_page_id]
      BY <2>3
    <3>4. level[q] # 0
      BY <1>1, <1>3, <2>5, <3>1, <3>3
    <3>5. ~pages[q].leaf
      BY <1>3, <3>3, <3>4
    <3>6. pages[q].array \in Seq(ChildPair) /\ pages[q].array # <<>>
      BY <1>3, <3>3, <3>5, PageKinds DEF TreeShape, NodesAreSound
    <3>7. Len(pages[q].array) \in Nat \ {0}
      BY <3>6, LenProperties, EmptySeq
    <3>8. pages[q].array[1].value \in Kids(pages, q)
      BY <3>5, <3>7 DEF Kids, Children
    <3> QED
      BY <1>5, <3>2, <3>8 DEF Step
  <2> HIDE DEF There
  <2> QED
    BY <2>1, <2>3, <2>4, <2>5
<1>18. \A i \in 0 .. n : id[i] \in Good
  <2> HIDE DEF id, Good
  <2> QED
    BY <1>1, <1>16, <1>17, UpToInduction
<1>19. ASSUME NEW i \in 0 .. n
       PROVE  /\ Row[i] \subseteq There(i)
              /\ i <= level[root_page_id] => Row[i] # {}
  <2>1. id[i] \in Good /\ id[i] = i
    BY <1>18
  <2> HIDE DEF There
  <2> QED
    BY <2>1
<1>20. level[root_page_id] \in 0 .. n
  BY <1>1, <1>3
<1>21. ASSUME NEW i \in 0 .. n, NEW p \in Row[i]
       PROVE  pages[p].leaf <=> i = level[root_page_id]
  <2>1. p \in T /\ level[p] + i = level[root_page_id]
    BY <1>19
  <2>2. level[p] \in Nat /\ level[root_page_id] \in Nat /\ i \in Int
    BY <1>1, <1>3, <2>1
  <2> QED
    BY <1>3, <2>1, <2>2
<1>22. \E p \in Row[level[root_page_id]] : TRUE
  <2>1. level[root_page_id] <= level[root_page_id]
    BY <1>1, <1>20
  <2> QED
    BY <1>19, <1>20, <2>1
<1> QED
  BY <1>2, <1>20, <1>21, <1>22

LEMMA BalanceFollows == BalancedInv => Balanced
<1> SUFFICES ASSUME NEW T, SoundTree(T), Filled(T), todo = Idle
             PROVE  /\ ~IsEmpty => Cardinality(Depths) = 1
                    /\ \A p \in InTree :
                         /\ Size(p) <= MaxSize(p)
                         /\ ~pages[p].leaf =>
                              Size(p) >= IF p = root_page_id THEN 2 ELSE MinSize(p)
  BY DEF BalancedInv, Balanced
<1>1. PagesTyped /\ Pending = INVALID_PAGE_ID /\ todo.op = "idle"
  BY QuietCall DEF SoundTree, Idle
<1>2. PICK level : TreeShape(pages, root_page_id, INVALID_PAGE_ID, T, level)
  BY <1>1 DEF SoundTree
<1>3. InTree = T /\ T \subseteq DOMAIN pages
  BY <1>1, <1>2, InTreeIsTheTree DEF TreeShape, Levels
<1>4. ASSUME ~IsEmpty
      PROVE  Cardinality(Depths) = 1
  <2>1. Depths = {level[root_page_id]}
    BY <1>1, <1>2, <1>4, DepthsOfTree
  <2> QED
    BY <2>1, FS_Singleton
<1>5. ASSUME NEW p \in T
      PROVE  /\ Size(p) <= MaxSize(p)
             /\ ~pages[p].leaf =>
                  Size(p) >= IF p = root_page_id THEN 2 ELSE MinSize(p)
  <2>1. CASE pages[p].leaf
    <3>1. Len(pages[p].array) <= LeafMax /\ pages[p].leaf = TRUE
      BY <1>1, <1>3, <2>1, PageKinds DEF PagesTyped
    <3> QED
      BY <3>1 DEF Size, MaxSize
  <2>2. CASE ~pages[p].leaf
    <3>1. /\ Size(p) <= InternalMax
          /\ p = root_page_id => Size(p) >= 2
          /\ p # root_page_id => Size(p) >= Half
      BY <1>1, <2>2, InternalSizes
    <3>2. MaxSize(p) = InternalMax /\ MinSize(p) = Half
      BY <2>2 DEF MinSize, MaxSize, Half
    <3> QED
      BY <3>1, <3>2
  <2> QED
    BY <2>1, <2>2
<1> QED
  BY <1>3, <1>4, <1>5

\* Between calls all leaves are equally deep, no page is fuller than its maximum and
\* no internal page but the root less than half full, whatever was inserted and
\* removed: every split, borrowing and merge, however far up it goes, restores it.
THEOREM TreeStaysBalanced == Spec => []Balanced
<1> QED
  BY BalanceInvariance, BalanceFollows, PTL

-----------------------------------------------------------------------------
(***************************************************************************)
(* A tree that only grows keeps the keys of its leaves in order.           *)
(***************************************************************************)

InOrder(store) == \A p \in DOMAIN store : store[p].leaf => Ascending(store[p].array)

LEMMA InOrderMeans == /\ KeysAreInOrder <=> InOrder(pages)
                      /\ KeysAreInOrder' <=> InOrder(pages')
BY DEF KeysAreInOrder, InOrder, LeafPages, Size, Ascending

LEMMA LeafPairFacts ==
  \A x \in LeafPair : x = Pair(x.key, x.value) /\ x.key \in Int
<1>1. ASSUME NEW x \in LeafPair
      PROVE  x = Pair(x.key, x.value)
  BY DEF LeafPair, Pair
<1>2. ASSUME NEW x \in LeafPair
      PROVE  x.key \in Int
  <2>1. x.key \in Keys
    BY DEF LeafPair
  <2>2. x.key \in Nat
    BY <2>1, KeysAssumption
  <2> QED
    BY <2>2
<1> QED
  BY <1>1, <1>2

LEMMA InsertNextKeepsOrder ==
  ASSUME NEW T, SoundTree(T), InOrder(pages), [InsertNext]_vars
  PROVE  InOrder(pages')
<1>1. PagesTyped
  BY DEF SoundTree
<1>2. PICK level : TreeShape(pages, root_page_id, Pending, T, level)
  BY DEF SoundTree
<1>3. PICK new : new = NewPageId
  OBVIOUS
<1>4. new \notin DOMAIN pages
  <2>1. PICK D : D = DOMAIN pages \cup {NewPageId}
    OBVIOUS
  <2> QED
    BY <1>1, <1>3, <2>1, NewPage
<1>5. CASE pages' = pages
  BY <1>5
<1>6. CASE InsertStep
  <2>1. ASSUME NEW D, NEW P, DOMAIN pages' = D, P \notin DOMAIN pages \/ ~pages[P].leaf,
               \A p \in D : p \in DOMAIN pages \/ ~pages'[p].leaf,
               \A p \in DOMAIN pages : /\ pages'[p].leaf = pages[p].leaf
                                       /\ p # P => pages'[p].array = pages[p].array
        PROVE  InOrder(pages')
    BY <2>1 DEF InOrder
  <2>2. CASE NewRoot
    BY <2>1, <2>2, <1>4, <1>3, NewRootArrays
  <2>3. CASE ParentHasRoom
    BY <2>1, <2>3, ParentHasRoomArrays
  <2>4. CASE ParentSplits
    BY <2>1, <2>4, ParentSplitsArrays
  <2> QED
    BY <1>6, <2>2, <2>3, <2>4 DEF InsertStep
<1>7. ASSUME NEW k \in Keys, NEW v \in Values
      PROVE  Pair(k, v) \in LeafPair
  BY LeafArrays, <1>1
<1>8. ASSUME NEW k \in Keys, ~IsEmpty
      PROVE  /\ FindLeafPage(k) \in DOMAIN pages /\ pages[FindLeafPage(k)].leaf
             /\ pages[FindLeafPage(k)] \in LeafPage
             /\ pages[FindLeafPage(k)].array \in Seq(LeafPair)
             /\ Ascending(pages[FindLeafPage(k)].array)
  <2>1. FindLeafPage(k) \in DOMAIN pages /\ pages[FindLeafPage(k)].leaf
    BY <1>1, <1>2, <1>8, FoundLeaf
  <2> QED
    BY <1>1, <2>1, PageKinds DEF InOrder
<1>9. ASSUME NEW k \in Keys, NEW v \in Values, StartNewTree(k, v)
      PROVE  InOrder(pages')
  <2>1. PICK array, page :
          array = <<Pair(k, v)>> /\ page = Leaf(INVALID_PAGE_ID, INVALID_PAGE_ID, array)
    OBVIOUS
  <2>2. pages' = Put(pages, new, page)
    BY <1>3, <1>9, <2>1 DEF StartNewTree
  <2>3. page.array = array /\ Len(array) = 1
    BY <2>1 DEF Leaf
  <2>4. Ascending(page.array)
    BY <2>3 DEF Ascending
  <2> QED
    BY <1>4, <2>2, <2>4 DEF InOrder, Put
<1>10. ASSUME NEW k \in Keys, NEW v \in Values, InsertIntoLeaf(k, v)
       PROVE  InOrder(pages')
  <2>1. PICK leaf, array : leaf = FindLeafPage(k) /\ array = LeafInsert(pages[leaf].array, k, v)
    OBVIOUS
  <2>2. /\ ~IsEmpty /\ ~Holds(pages[leaf].array, k)
        /\ pages' = [pages EXCEPT ![leaf].array = array]
    BY <1>10, <2>1 DEF InsertIntoLeaf, Found
  <2>3. /\ leaf \in DOMAIN pages /\ pages[leaf] \in LeafPage
        /\ pages[leaf].array \in Seq(LeafPair) /\ Ascending(pages[leaf].array)
    BY <1>8, <2>1, <2>2
  <2>4. Ascending(array)
    BY <1>7, <2>1, <2>2, <2>3, LeafPairFacts, LeafInsertAscending
  <2>5. pages'[leaf].array = array /\ DOMAIN pages' = DOMAIN pages
    BY <2>2, <2>3 DEF LeafPage
  <2>6. \A p \in DOMAIN pages : p # leaf => pages'[p] = pages[p]
    BY <2>2
  <2> QED
    BY <2>4, <2>5, <2>6 DEF InOrder
<1>11. ASSUME NEW k \in Keys, NEW v \in Values, SplitLeaf(k, v)
       PROVE  InOrder(pages')
  <2>1. PICK leaf, all, split, a, b, left, right, page :
          /\ leaf = FindLeafPage(k)
          /\ all = WithPairSorted(pages[leaf].array, k, v)
          /\ split = LeafSplitIndex(Len(all))
          /\ a = SubSeq(all, 1, split) /\ b = SubSeq(all, split + 1, Len(all))
          /\ left = Refilled(a) /\ right = Refilled(b)
          /\ page = NewLeaf(leaf, right)
    OBVIOUS
  <2>2. PICK store : store = [pages EXCEPT ![leaf].array = left, ![leaf].next = new]
    OBVIOUS
  <2>3. ~IsEmpty /\ pages' = Put(store, new, page)
    BY <1>3, <1>11, <2>1, <2>2 DEF SplitLeaf
  <2>4. /\ leaf \in DOMAIN pages /\ pages[leaf] \in LeafPage
        /\ pages[leaf].array \in Seq(LeafPair)
    BY <1>8, <2>1, <2>3
  <2>5. all \in Seq(LeafPair)
    BY <1>7, <2>1, <2>4, SortedPositions
  <2>6. split \in 0 .. Len(all)
    <3>1. Len(all) \in Nat
      BY <2>5, LenProperties
    <3> QED
      BY <2>1, <3>1 DEF LeafSplitIndex
  <2>7. a \in Seq(LeafPair) /\ b \in Seq(LeafPair)
    BY <2>1, <2>5, <2>6, CutPositions
  <2>8. Ascending(left) /\ Ascending(right)
    BY <2>1, <2>7, LeafPairFacts, RefilledAscending
  <2>9. /\ DOMAIN store = DOMAIN pages
        /\ store[leaf].array = left
        /\ \A p \in DOMAIN pages : p # leaf => store[p] = pages[p]
    BY <2>2, <2>4 DEF LeafPage
  <2>10. InOrder(store)
    BY <2>8, <2>9 DEF InOrder
  <2>11. page.array = right
    BY <2>1 DEF NewLeaf, Leaf
  <2> QED
    BY <1>4, <2>3, <2>8, <2>9, <2>10, <2>11 DEF InOrder, Put
<1>12. ASSUME NEW k \in Keys, GetValue(k) \/ InsertRefused(k)
       PROVE  InOrder(pages')
  BY <1>5, <1>12 DEF GetValue, InsertRefused
<1> QED
  BY <1>5, <1>6, <1>9, <1>10, <1>11, <1>12 DEF InsertNext, vars

\* In a tree that only grows, the keys in every leaf page are in order and different,
\* as its binary search needs them, in the middle of a split, too: whatever a split
\* finds in a leaf, both halves are filled in order.
THEOREM GrowingLeavesAreInOrder == GrowingSpec => []KeysAreInOrder
<1>1. Init => IInv /\ KeysAreInOrder
  <2>1. ASSUME Init
        PROVE  InOrder(pages)
    <3>1. DOMAIN pages = {}
      BY <2>1 DEF Init
    <3> QED
      BY <3>1 DEF InOrder
  <2> QED
    BY <2>1, InitIInv, InOrderMeans
<1>2. IInv /\ KeysAreInOrder /\ [InsertNext]_vars => IInv' /\ KeysAreInOrder'
  <2>1. [InsertNext]_vars => [Next]_vars
    BY DEF Next
  <2>2. IInv /\ [InsertNext]_vars => IInv'
    BY <2>1, NextKeepsIInv
  <2>3. ASSUME IInv, KeysAreInOrder, [InsertNext]_vars
        PROVE  KeysAreInOrder'
    <3>1. PICK T : SoundTree(T)
      BY <2>3 DEF IInv
    <3>2. InOrder(pages)
      BY <2>3, InOrderMeans
    <3>3. InOrder(pages')
      BY <2>3, <3>1, <3>2, InsertNextKeepsOrder
    <3> QED
      BY <3>3, InOrderMeans
  <2> QED
    BY <2>2, <2>3
<1> QED
  BY <1>1, <1>2, PTL DEF GrowingSpec

=============================================================================
