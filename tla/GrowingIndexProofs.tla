----------------------- MODULE GrowingIndexProofs -----------------------
(***************************************************************************)
(* A tree that only grows is a search tree whose leaves are chained in the *)
(* order of their keys, and implements UniqueIndex; and what iterators see *)
(* of it.  For any keys and values and any page sizes.                     *)
(*                                                                         *)
(* The invariant gives every page its scope, the keys a search can have on *)
(* its way through the page.  Lemmas that are about what is written, and   *)
(* not about who writes it, speak of a store s before and a store t after. *)
(***************************************************************************)
EXTENDS IndexIterator, BPlusTreeProofs

-----------------------------------------------------------------------------
(***************************************************************************)
(* The order of a tree that only grows.  scope[p] are the keys a search    *)
(* can have on its way through page p.                                     *)
(***************************************************************************)

\* A page that was just split still stands for its new sibling, too.
Covered(call, scope, p) ==
  IF call.op = "insert" /\ p = call.old THEN scope[p] \cup scope[call.new] ELSE scope[p]

\* The separators of an internal page divide its scope among its children.
Divided(store, call, scope) ==
  \A p \in DOMAIN store : ~store[p].leaf =>
    /\ SeparatorsAscend(store[p].array, scope[p])
    /\ \A i \in 1 .. Len(store[p].array) :
         Covered(call, scope, store[p].array[i].value) = Share(store[p].array, scope[p], i)

LeavesFit(store, scope) ==
  \A p \in DOMAIN store : store[p].leaf =>
    /\ store[p].array # <<>>
    /\ \A i \in 1 .. Len(store[p].array) : store[p].array[i].key \in scope[p]

InARow(store, scope) ==
  \A p, q \in DOMAIN store :
    store[p].leaf /\ store[q].leaf /\ p # q =>
      Before(scope[p], scope[q]) \/ Before(scope[q], scope[p])

Follows(store, scope, p, q) == store[q].leaf /\ Before(scope[p], scope[q])

\* The sibling pointer of a leaf names the first of the leaves that follow it.
LinkedFrom(store, scope, p) ==
  /\ ~store[p].leaf => store[p].next = INVALID_PAGE_ID
  /\ store[p].leaf =>
       /\ store[p].next # INVALID_PAGE_ID =>
            store[p].next \in DOMAIN store /\ Follows(store, scope, p, store[p].next)
       /\ \A q \in DOMAIN store : Follows(store, scope, p, q) =>
            /\ store[p].next # INVALID_PAGE_ID
            /\ q = store[p].next \/ Before(scope[store[p].next], scope[q])

Linked(store, scope) == \A p \in DOMAIN store : LinkedFrom(store, scope, p)

\* The key that goes up parts the scopes of the two halves.
SplitAt(call, scope) ==
  call.op = "insert" =>
    /\ call.key \in scope[call.new] /\ scope[call.old] # {}
    /\ \A k \in scope[call.old] : k < call.key
    /\ \A k \in scope[call.new] : call.key <= k

Ordered(store, root, call, scope) ==
  /\ scope \in [DOMAIN store -> SUBSET Nat]
  /\ root # INVALID_PAGE_ID => Covered(call, scope, root) = Nat
  /\ Divided(store, call, scope)
  /\ LeavesFit(store, scope)
  /\ InARow(store, scope)
  /\ Linked(store, scope)
  /\ SplitAt(call, scope)

\* The page looks the same to a search in both stores.
Agree(s, t, p) == t[p].leaf = s[p].leaf /\ t[p].array = s[p].array /\ t[p].next = s[p].next

-----------------------------------------------------------------------------

LEMMA BeforeParts ==
  ASSUME NEW X, NEW Y, NEW A, NEW B, A \subseteq X, B \subseteq Y
  PROVE  Before(X, Y) => Before(A, B)
BY DEF Before

\* Of two sets one of which is before the other, parts tell which.
LEMMA BeforeWhole ==
  ASSUME NEW X \in SUBSET Nat, NEW Y \in SUBSET Nat, Before(X, Y) \/ Before(Y, X),
         NEW A, NEW B, A \subseteq X, B \subseteq Y, A # {}, B # {}, Before(A, B)
  PROVE  Before(X, Y)
<1>1. PICK a \in A, b \in B : TRUE
  OBVIOUS
<1>2. a < b /\ a \in Nat /\ b \in Nat
  BY <1>1 DEF Before
<1>3. ~Before(Y, X)
  BY <1>1, <1>2 DEF Before
<1> QED
  BY <1>3

LEMMA NotBeforeItself ==
  ASSUME NEW X \in SUBSET Nat, X # {}
  PROVE  ~Before(X, X)
<1>1. PICK x \in X : TRUE
  OBVIOUS
<1> QED
  BY <1>1 DEF Before

\* A leaf has a key, so no leaf has an empty scope.
LEMMA LeafScope ==
  ASSUME NEW store, NEW scope, LeavesFit(store, scope),
         NEW p \in DOMAIN store, store[p].leaf, store[p].array \in Seq(LeafPair)
  PROVE  scope[p] # {}
<1>1. Len(store[p].array) \in Nat /\ store[p].array # <<>>
  BY LenProperties DEF LeavesFit
<1>2. 1 \in 1 .. Len(store[p].array)
  BY <1>1, EmptySeq
<1> QED
  BY <1>2 DEF LeavesFit

\* Pages that only differ in the arrays of internal pages.
LeavesAgree(s, t) ==
  /\ DOMAIN t = DOMAIN s
  /\ \A p \in DOMAIN s : /\ t[p].leaf = s[p].leaf /\ t[p].next = s[p].next
                         /\ s[p].leaf => t[p].array = s[p].array

LEMMA LeavesStayOrdered ==
  ASSUME NEW s, NEW t, NEW scope, LeavesFit(s, scope), InARow(s, scope), Linked(s, scope),
         LeavesAgree(s, t)
  PROVE  LeavesFit(t, scope) /\ InARow(t, scope) /\ Linked(t, scope)
<1>0. /\ DOMAIN t = DOMAIN s
      /\ \A p \in DOMAIN s : /\ t[p].leaf = s[p].leaf /\ t[p].next = s[p].next
                             /\ s[p].leaf => t[p].array = s[p].array
  BY DEF LeavesAgree
<1>1. LeavesFit(t, scope)
  BY <1>0 DEF LeavesFit
<1>2. InARow(t, scope)
  BY <1>0 DEF InARow
<1>3. ASSUME NEW p \in DOMAIN s
      PROVE  LinkedFrom(t, scope, p)
  <2>1. LinkedFrom(s, scope, p)
    BY DEF Linked
  <2>2. \A q \in DOMAIN s : Follows(t, scope, p, q) <=> Follows(s, scope, p, q)
    BY <1>0 DEF Follows
  <2>3. ~t[p].leaf => t[p].next = INVALID_PAGE_ID
    BY <1>0, <2>1 DEF LinkedFrom
  <2>4. t[p].leaf /\ t[p].next # INVALID_PAGE_ID =>
          t[p].next \in DOMAIN t /\ Follows(t, scope, p, t[p].next)
    BY <1>0, <2>1, <2>2 DEF LinkedFrom
  <2>5. ASSUME t[p].leaf, NEW q \in DOMAIN t, Follows(t, scope, p, q)
        PROVE  /\ t[p].next # INVALID_PAGE_ID
               /\ q = t[p].next \/ Before(scope[t[p].next], scope[q])
    <3>1. Follows(s, scope, p, q) /\ s[p].leaf
      BY <1>0, <2>2, <2>5
    <3> QED
      BY <1>0, <2>1, <3>1 DEF LinkedFrom
  <2> QED
    BY <2>3, <2>4, <2>5 DEF LinkedFrom
<1> QED
  BY <1>0, <1>1, <1>2, <1>3 DEF Linked

\* The parent of a page that was split gets the new child.
ChildAdded(s, t, root, call, P, b, e) ==
  /\ call.op = "insert" /\ root # call.old /\ call.new # call.old
  /\ P \in DOMAIN s /\ ~s[P].leaf /\ s[P].array \in Seq(ChildPair) /\ EachOnce(s[P].array)
  /\ b \in 1 .. Len(s[P].array) /\ s[P].array[b].value = call.old
  /\ \A p \in DOMAIN s \ {P} : ~s[p].leaf =>
       \A i \in 1 .. Len(s[p].array) : s[p].array[i].value # call.old
  /\ e \in ChildPair /\ e.key = call.key /\ e.value = call.new
  /\ DOMAIN t = DOMAIN s /\ \A p \in DOMAIN s \ {P} : Agree(s, t, p)
  /\ t[P].leaf = s[P].leaf /\ t[P].next = s[P].next
  /\ t[P].array = Lists!InsertAt(s[P].array, b + 1, e)

LEMMA ParentInOrder ==
  ASSUME NEW s, NEW root, NEW call, NEW scope, Ordered(s, root, call, scope),
         NEW t, NEW P, NEW b, NEW e, ChildAdded(s, t, root, call, P, b, e)
  PROVE  Ordered(t, root, Idle, scope)
<1> USE DEF ChildAdded
<1>0. PICK array : array = s[P].array
  OBVIOUS
<1> USE <1>0
<1>1. PICK r, R, n : r = t[P].array /\ R = scope[P] /\ n = Len(array)
  OBVIOUS
<1>2. n \in Nat /\ b \in 1 .. n /\ scope \in [DOMAIN s -> SUBSET Nat] /\ R \in SUBSET Int
  BY <1>1, LenProperties DEF Ordered
<1>3. Idle.op # "insert"
  BY DEF Idle
<1>4. \A p : Covered(Idle, scope, p) = scope[p]
  BY <1>3 DEF Covered
<1>5. /\ SeparatorsAscend(array, R)
      /\ \A i \in 1 .. n : Covered(call, scope, array[i].value) = Share(array, R, i)
  BY <1>1 DEF Ordered, Divided
<1>6. Share(array, R, b) = scope[call.old] \cup scope[call.new]
  BY <1>2, <1>5 DEF Covered
<1>7. /\ call.key \in scope[call.new] /\ scope[call.old] # {}
      /\ \A k \in scope[call.old] : k < call.key
      /\ \A k \in scope[call.new] : call.key <= k
  BY DEF Ordered, SplitAt
<1>8. call.key \in Share(array, R, b) /\ call.key \in Int
  BY <1>2, <1>6, <1>7 DEF Share
<1>9. /\ Less(Share(array, R, b), call.key) = scope[call.old]
      /\ NotLess(Share(array, R, b), call.key) = scope[call.new]
  <2>1. \A k \in Share(array, R, b) : k \in Int
    BY <1>2 DEF Share
  <2> QED
    BY <1>6, <1>7, <1>8, <2>1 DEF Less, NotLess
<1>10. r = Lists!InsertAt(array, b + 1, e)
  BY <1>1
<1>11. /\ Len(r) = n + 1
       /\ r[b] = array[b] /\ r[b + 1] = e
       /\ SeparatorsAscend(r, R)
       /\ Share(r, R, b) = scope[call.old]
       /\ Share(r, R, b + 1) = scope[call.new]
       /\ \A i \in 1 .. b - 1 : r[i] = array[i] /\ Share(r, R, i) = Share(array, R, i)
       /\ \A i \in b + 2 .. n + 1 :
            r[i] = array[i - 1] /\ Share(r, R, i) = Share(array, R, i - 1)
  <2>1. PICK k : k = call.key
    OBVIOUS
  <2>2. /\ array \in Seq(ChildPair) /\ R \in SUBSET Int /\ SeparatorsAscend(array, R)
        /\ b \in 1 .. Len(array) /\ k \in Share(array, R, b) /\ e \in ChildPair /\ e.key = k
    BY <1>2, <1>5, <1>8, <2>1
  <2>3. Less(Share(array, R, b), k) # {}
    BY <1>7, <1>9, <2>1
  <2>4. /\ Len(r) = Len(array) + 1
        /\ r[b] = array[b] /\ r[b + 1] = e
        /\ SeparatorsAscend(r, R)
        /\ Share(r, R, b) = Less(Share(array, R, b), k)
        /\ Share(r, R, b + 1) = NotLess(Share(array, R, b), k)
        /\ \A i \in 1 .. b - 1 : r[i] = array[i] /\ Share(r, R, i) = Share(array, R, i)
        /\ \A i \in b + 2 .. Len(array) + 1 :
             r[i] = array[i - 1] /\ Share(r, R, i) = Share(array, R, i - 1)
    BY ONLY <1>10, <2>2, <2>3, InsertedShares
  <2> QED
    BY <1>1, <1>9, <2>1, <2>4
<1>12. \A i \in 1 .. n : i # b => scope[array[i].value] = Share(array, R, i)
  <2> SUFFICES ASSUME NEW i \in 1 .. n, i # b
               PROVE  scope[array[i].value] = Share(array, R, i)
    OBVIOUS
  <2>1. array[i].value # call.old
    BY <1>1 DEF EachOnce
  <2> QED
    BY <1>5, <2>1 DEF Covered
<1>13. \A i \in 1 .. n + 1 : scope[r[i].value] = Share(r, R, i)
  <2> SUFFICES ASSUME NEW i \in 1 .. n + 1
               PROVE  scope[r[i].value] = Share(r, R, i)
    OBVIOUS
  <2>1. CASE i < b
    <3>1. i \in 1 .. b - 1 /\ i \in 1 .. n /\ i # b
      BY <1>2, <2>1
    <3> QED
      BY <1>11, <1>12, <3>1
  <2>2. CASE i = b
    BY <1>11, <2>2
  <2>3. CASE i = b + 1
    BY <1>11, <2>3
  <2>4. CASE i > b + 1
    <3>1. i \in b + 2 .. n + 1 /\ i - 1 \in 1 .. n /\ i - 1 # b
      BY <1>2, <2>4
    <3> QED
      BY <1>11, <1>12, <3>1
  <2> QED
    BY <1>2, <2>1, <2>2, <2>3, <2>4
<1>14. Divided(t, Idle, scope)
  <2> SUFFICES ASSUME NEW p \in DOMAIN s, ~t[p].leaf
               PROVE  /\ SeparatorsAscend(t[p].array, scope[p])
                      /\ \A i \in 1 .. Len(t[p].array) :
                           scope[t[p].array[i].value] = Share(t[p].array, scope[p], i)
    BY <1>4 DEF Divided
  <2>1. CASE p = P
    BY <1>1, <1>11, <1>13, <2>1
  <2>2. CASE p # P
    <3>1. t[p].leaf = s[p].leaf /\ t[p].array = s[p].array
      BY <2>2 DEF Agree
    <3>2. /\ SeparatorsAscend(s[p].array, scope[p])
          /\ \A i \in 1 .. Len(s[p].array) :
               Covered(call, scope, s[p].array[i].value) = Share(s[p].array, scope[p], i)
      BY <3>1 DEF Ordered, Divided
    <3>3. \A i \in 1 .. Len(s[p].array) :
            Covered(call, scope, s[p].array[i].value) = scope[s[p].array[i].value]
      BY <2>2, <3>1 DEF Covered
    <3> QED
      BY <3>1, <3>2, <3>3
  <2> QED
    BY <2>1, <2>2
<1>15. LeavesFit(t, scope) /\ InARow(t, scope) /\ Linked(t, scope)
  <2>1. LeavesAgree(s, t)
    BY DEF Agree, LeavesAgree
  <2>2. LeavesFit(s, scope) /\ InARow(s, scope) /\ Linked(s, scope)
    BY DEF Ordered
  <2> QED
    BY <2>1, <2>2, LeavesStayOrdered
<1>16. root # INVALID_PAGE_ID => Covered(Idle, scope, root) = Nat
  BY <1>4 DEF Ordered, Covered
<1>17. SplitAt(Idle, scope)
  BY <1>3 DEF SplitAt
<1> QED
  BY <1>2, <1>14, <1>15, <1>16, <1>17 DEF Ordered

-----------------------------------------------------------------------------
(***************************************************************************)
(* Splits part scopes; a new root, and a pair more in a leaf, leave them.  *)
(***************************************************************************)

\* How a split parts the scope of a page at the key that goes up.
CutScope(store, scope, old, k, new) ==
  [p \in DOMAIN store |-> IF p = old THEN Less(scope[old], k)
                          ELSE IF p = new THEN NotLess(scope[old], k) ELSE scope[p]]

SplitCall(old, k, new) == [op |-> "insert", old |-> old, key |-> k, new |-> new]

\* The page is cut at a key of its scope, behind the first one.
Cutting(s, t, scope, old, k, new, call, cut) ==
  /\ scope \in [DOMAIN s -> SUBSET Nat]
  /\ old \in DOMAIN s /\ new \notin DOMAIN s /\ DOMAIN t = DOMAIN s \cup {new}
  /\ k \in scope[old] /\ Less(scope[old], k) # {}
  /\ cut = CutScope(t, scope, old, k, new) /\ call = SplitCall(old, k, new)

LEMMA ScopeCut ==
  ASSUME NEW s, NEW t, NEW scope, NEW old, NEW k, NEW new, NEW call, NEW cut,
         Cutting(s, t, scope, old, k, new, call, cut)
  PROVE  /\ cut \in [DOMAIN t -> SUBSET Nat]
         /\ cut[old] = Less(scope[old], k) /\ cut[new] = NotLess(scope[old], k)
         /\ \A p \in DOMAIN s : p # old => cut[p] = scope[p]
         /\ \A p \in DOMAIN s : Covered(call, cut, p) = scope[p]
         /\ SplitAt(call, cut)
         /\ cut[old] \subseteq scope[old] /\ cut[new] \subseteq scope[old]
         /\ Before(cut[old], cut[new]) /\ cut[old] # {} /\ cut[new] # {}
<1>0. /\ scope \in [DOMAIN s -> SUBSET Nat]
      /\ old \in DOMAIN s /\ new \notin DOMAIN s /\ DOMAIN t = DOMAIN s \cup {new}
      /\ k \in scope[old] /\ Less(scope[old], k) # {}
      /\ cut = CutScope(t, scope, old, k, new) /\ call = SplitCall(old, k, new)
  BY DEF Cutting
<1>1. scope[old] \in SUBSET Nat /\ k \in Nat
  BY <1>0
<1>2. /\ Less(scope[old], k) \in SUBSET Nat /\ NotLess(scope[old], k) \in SUBSET Nat
      /\ Less(scope[old], k) \cup NotLess(scope[old], k) = scope[old]
  <2>1. \A x \in scope[old] : x \in Nat /\ (x < k \/ k <= x)
    BY <1>1
  <2> QED
    BY <2>1 DEF Less, NotLess
<1>3. /\ DOMAIN cut = DOMAIN t
      /\ cut[old] = Less(scope[old], k) /\ cut[new] = NotLess(scope[old], k)
      /\ \A p \in DOMAIN s : p # old => cut[p] = scope[p]
  BY <1>0 DEF CutScope
<1>4. cut \in [DOMAIN t -> SUBSET Nat]
  BY <1>0, <1>2 DEF CutScope
<1>5. call.op = "insert" /\ call.old = old /\ call.key = k /\ call.new = new
  BY <1>0 DEF SplitCall
<1>6. \A p \in DOMAIN s : Covered(call, cut, p) = scope[p]
  BY <1>0, <1>2, <1>3, <1>5 DEF Covered
<1>7. k \in cut[new]
  BY <1>0, <1>1, <1>3 DEF NotLess
<1>8. /\ \A x \in cut[old] : x < k /\ x \in Nat
      /\ \A x \in cut[new] : k <= x /\ x \in Nat
  BY <1>1, <1>3 DEF Less, NotLess
<1>9. SplitAt(call, cut)
  BY <1>0, <1>3, <1>5, <1>7, <1>8 DEF SplitAt
<1>10. Before(cut[old], cut[new])
  BY <1>1, <1>8 DEF Before
<1> QED
  BY <1>0, <1>2, <1>3, <1>4, <1>6, <1>7, <1>9, <1>10

\* A full internal page is cut in two.
NodeCut(s, t, root, P, m, k, N) ==
  /\ root \in DOMAIN s \cup {INVALID_PAGE_ID}
  /\ P \in DOMAIN s /\ ~s[P].leaf /\ s[P].array \in Seq(ChildPair)
  /\ \A p \in DOMAIN s : ~s[p].leaf =>
       \A i \in 1 .. Len(s[p].array) : s[p].array[i].value \in DOMAIN s
  /\ m \in 2 .. Len(s[P].array) - 1 /\ k = s[P].array[m + 1].key
  /\ N \notin DOMAIN s /\ DOMAIN t = DOMAIN s \cup {N}
  /\ \A p \in DOMAIN s \ {P} : Agree(s, t, p)
  /\ t[P].leaf = s[P].leaf /\ t[P].next = s[P].next /\ t[P].array = FrontOf(s[P].array, m)
  /\ t[N].leaf = FALSE /\ t[N].next = INVALID_PAGE_ID /\ t[N].array = BackOf(s[P].array, m)

LEMMA NodeCutInOrder ==
  ASSUME NEW s, NEW root, NEW scope, Ordered(s, root, Idle, scope),
         NEW t, NEW P, NEW m, NEW k, NEW N, NodeCut(s, t, root, P, m, k, N),
         NEW cut, cut = CutScope(t, scope, P, k, N), NEW call, call = SplitCall(P, k, N)
  PROVE  Ordered(t, root, call, cut)
<1> USE DEF NodeCut
<1>0. PICK array : array = s[P].array
  OBVIOUS
<1> USE <1>0
<1>1. PICK R, n, left, right :
        R = scope[P] /\ n = Len(array) /\ left = t[P].array /\ right = t[N].array
  OBVIOUS
<1>2. /\ n \in Nat /\ m \in 2 .. n - 1 /\ scope \in [DOMAIN s -> SUBSET Nat]
      /\ R \in SUBSET Nat /\ R \in SUBSET Int
  BY <1>1, LenProperties DEF Ordered
<1>3. Idle.op # "insert"
  BY DEF Idle
<1>4. \A p : Covered(Idle, scope, p) = scope[p]
  BY <1>3 DEF Covered
<1>5. \A p \in DOMAIN s : ~s[p].leaf =>
        /\ SeparatorsAscend(s[p].array, scope[p])
        /\ \A i \in 1 .. Len(s[p].array) :
             scope[s[p].array[i].value] = Share(s[p].array, scope[p], i)
  BY <1>4 DEF Ordered, Divided
<1>6. /\ SeparatorsAscend(array, R)
      /\ \A i \in 1 .. n : scope[array[i].value] = Share(array, R, i)
  BY <1>1, <1>5
<1>7. /\ k \in R /\ Less(R, k) # {}
      /\ SeparatorsAscend(left, Less(R, k)) /\ SeparatorsAscend(right, NotLess(R, k))
      /\ Len(left) = m /\ Len(right) = n - m
      /\ \A i \in 1 .. m : /\ left[i] = array[i]
                           /\ Share(left, Less(R, k), i) = Share(array, R, i)
      /\ \A i \in 1 .. n - m : /\ right[i] = array[m + i]
                               /\ Share(right, NotLess(R, k), i) = Share(array, R, m + i)
  <2>1. PICK A, B : A = Less(R, k) /\ B = NotLess(R, k)
    OBVIOUS
  <2>2. /\ array \in Seq(ChildPair) /\ R \in SUBSET Int /\ SeparatorsAscend(array, R)
        /\ m \in 1 .. Len(array) - 1 /\ k = array[m + 1].key
        /\ left = FrontOf(array, m) /\ right = BackOf(array, m)
    BY <1>1, <1>2, <1>6
  <2>3. /\ k \in R
        /\ m > 1 => A # {}
        /\ SeparatorsAscend(left, A) /\ SeparatorsAscend(right, B)
        /\ Len(left) = m /\ Len(right) = Len(array) - m
        /\ \A i \in 1 .. m : left[i] = array[i] /\ Share(left, A, i) = Share(array, R, i)
        /\ \A i \in 1 .. Len(array) - m :
             right[i] = array[m + i] /\ Share(right, B, i) = Share(array, R, m + i)
    BY ONLY <2>1, <2>2, CutShares
  <2> QED
    BY <1>1, <1>2, <2>1, <2>3
<1>8. /\ cut \in [DOMAIN t -> SUBSET Nat]
      /\ cut[P] = Less(R, k) /\ cut[N] = NotLess(R, k)
      /\ \A p \in DOMAIN s : p # P => cut[p] = scope[p]
      /\ \A p \in DOMAIN s : Covered(call, cut, p) = scope[p]
      /\ SplitAt(call, cut)
  <2>1. Cutting(s, t, scope, P, k, N, call, cut)
    BY <1>1, <1>2, <1>7 DEF Cutting
  <2>2. /\ cut \in [DOMAIN t -> SUBSET Nat]
        /\ cut[P] = Less(scope[P], k) /\ cut[N] = NotLess(scope[P], k)
        /\ \A p \in DOMAIN s : p # P => cut[p] = scope[p]
        /\ \A p \in DOMAIN s : Covered(call, cut, p) = scope[p]
        /\ SplitAt(call, cut)
    BY ONLY <2>1, ScopeCut
  <2> QED
    BY <1>1, <2>2
<1>9. Divided(t, call, cut)
  <2>0. \A i \in 1 .. n : array[i].value \in DOMAIN s
    BY <1>1
  <2>1. ASSUME NEW p \in DOMAIN t, ~t[p].leaf
        PROVE  /\ SeparatorsAscend(t[p].array, cut[p])
               /\ \A i \in 1 .. Len(t[p].array) :
                    Covered(call, cut, t[p].array[i].value) = Share(t[p].array, cut[p], i)
    <3>1. CASE p = P
      <4>1. ASSUME NEW i \in 1 .. m
            PROVE  Covered(call, cut, left[i].value) = Share(left, cut[P], i)
        <5>0. i \in 1 .. m
          OBVIOUS
        <5>1. i \in 1 .. n /\ left[i] = array[i]
          BY ONLY <1>2, <1>7, <5>0
        <5>2. Covered(call, cut, array[i].value) = scope[array[i].value]
          BY <1>8, <2>0, <5>1
        <5>3. Share(left, cut[P], i) = Share(array, R, i)
          BY <1>7, <1>8
        <5> QED
          BY <1>6, <5>1, <5>2, <5>3
      <4> QED
        BY <1>1, <1>7, <1>8, <3>1, <4>1
    <3>2. CASE p = N
      <4>1. ASSUME NEW i \in 1 .. n - m
            PROVE  Covered(call, cut, right[i].value) = Share(right, cut[N], i)
        <5>0. i \in 1 .. n - m
          OBVIOUS
        <5>1. m + i \in 1 .. n /\ right[i] = array[m + i]
          BY ONLY <1>2, <1>7, <5>0
        <5>2. Covered(call, cut, array[m + i].value) = scope[array[m + i].value]
          BY <1>8, <2>0, <5>1
        <5>3. Share(right, cut[N], i) = Share(array, R, m + i)
          BY <1>7, <1>8
        <5> QED
          BY <1>6, <5>1, <5>2, <5>3
      <4> QED
        BY <1>1, <1>7, <1>8, <3>2, <4>1
    <3>3. CASE p \in DOMAIN s /\ p # P
      <4>1. t[p].leaf = s[p].leaf /\ t[p].array = s[p].array /\ cut[p] = scope[p]
        BY <1>8, <3>3 DEF Agree
      <4>2. ~s[p].leaf
        BY <2>1, <4>1
      <4>3. /\ SeparatorsAscend(s[p].array, scope[p])
            /\ \A i \in 1 .. Len(s[p].array) :
                 scope[s[p].array[i].value] = Share(s[p].array, scope[p], i)
        BY <1>5, <3>3, <4>2
      <4>4. \A i \in 1 .. Len(s[p].array) :
              Covered(call, cut, s[p].array[i].value) = scope[s[p].array[i].value]
        BY <1>8, <3>3, <4>2
      <4> QED
        BY ONLY <4>1, <4>3, <4>4
    <3> QED
      BY <3>1, <3>2, <3>3
  <2> QED
    BY ONLY <2>1 DEF Divided
<1>10. \A p \in DOMAIN t : t[p].leaf => p \in DOMAIN s /\ p # P /\ p # N
  BY DEF Agree
<1>11. LeavesFit(t, cut)
  <2>1. LeavesFit(s, scope)
    BY DEF Ordered
  <2>2. ASSUME NEW p \in DOMAIN t, t[p].leaf
        PROVE  /\ t[p].array # <<>>
               /\ \A i \in 1 .. Len(t[p].array) : t[p].array[i].key \in cut[p]
    <3>1. /\ p \in DOMAIN s /\ s[p].leaf /\ t[p].array = s[p].array /\ cut[p] = scope[p]
      BY <1>8, <1>10, <2>2 DEF Agree
    <3> QED
      BY ONLY <2>1, <3>1 DEF LeavesFit
  <2> QED
    BY ONLY <2>2 DEF LeavesFit
<1>12. InARow(t, cut)
  <2>1. ASSUME NEW p \in DOMAIN t, NEW q \in DOMAIN t, t[p].leaf, t[q].leaf, p # q
        PROVE  Before(cut[p], cut[q]) \/ Before(cut[q], cut[p])
    <3>1. /\ p \in DOMAIN s /\ p # P /\ q \in DOMAIN s /\ q # P
          /\ s[p].leaf /\ s[q].leaf /\ cut[p] = scope[p] /\ cut[q] = scope[q]
      BY <1>8, <1>10, <2>1 DEF Agree
    <3> QED
      BY <2>1, <3>1 DEF Ordered, InARow
  <2> QED
    BY ONLY <2>1 DEF InARow
<1>13. ASSUME NEW p \in DOMAIN t
       PROVE  LinkedFrom(t, cut, p)
  <2>1. CASE ~t[p].leaf
    <3>1. t[p].next = INVALID_PAGE_ID
      BY <2>1 DEF Ordered, Linked, LinkedFrom, Agree
    <3> QED
      BY <2>1, <3>1 DEF LinkedFrom
  <2>2. CASE t[p].leaf
    <3>1. p \in DOMAIN s /\ s[p].leaf /\ t[p].next = s[p].next /\ cut[p] = scope[p]
      BY <1>8, <1>10, <2>2 DEF Agree
    <3>2. LinkedFrom(s, scope, p)
      BY <3>1 DEF Ordered, Linked
    <3>3. ASSUME NEW q \in DOMAIN s, s[q].leaf
          PROVE  t[q].leaf /\ cut[q] = scope[q]
      BY <1>8, <3>3 DEF Agree
    <3>4. \A q \in DOMAIN t : Follows(t, cut, p, q) => q \in DOMAIN s /\ Follows(s, scope, p, q)
      BY <1>8, <1>10, <3>1 DEF Follows, Agree
    <3>5. ASSUME s[p].next # INVALID_PAGE_ID
          PROVE  /\ s[p].next \in DOMAIN t /\ Follows(t, cut, p, s[p].next)
                 /\ cut[s[p].next] = scope[s[p].next]
      BY <3>1, <3>2, <3>3, <3>5 DEF LinkedFrom, Follows
    <3>6. ASSUME NEW q \in DOMAIN t, Follows(t, cut, p, q)
          PROVE  /\ t[p].next # INVALID_PAGE_ID
                 /\ q = t[p].next \/ Before(cut[t[p].next], cut[q])
      <4>1. q \in DOMAIN s /\ Follows(s, scope, p, q) /\ s[q].leaf
        BY <3>4, <3>6 DEF Follows
      <4>2. /\ s[p].next # INVALID_PAGE_ID
            /\ q = s[p].next \/ Before(scope[s[p].next], scope[q])
        BY <3>1, <3>2, <4>1 DEF LinkedFrom
      <4> QED
        BY <3>1, <3>3, <3>5, <4>1, <4>2
    <3> QED
      BY <2>2, <3>1, <3>5, <3>6 DEF LinkedFrom
  <2> QED
    BY <2>1, <2>2
<1>14. root # INVALID_PAGE_ID => Covered(call, cut, root) = Nat
  BY <1>4, <1>8 DEF Ordered
<1> QED
  BY <1>8, <1>9, <1>11, <1>12, <1>13, <1>14 DEF Ordered, Linked

\* Where the keys of a leaf were before the leaf P was split into P and N.
SplitFrom(P, N, p) == IF p = N THEN P ELSE p

\* A full leaf is cut in two.
LeafCut(s, t, root, scope, P, k, N) ==
  /\ root \in DOMAIN s \cup {INVALID_PAGE_ID} /\ INVALID_PAGE_ID \notin DOMAIN s
  /\ P \in DOMAIN s /\ s[P].leaf
  /\ \A p \in DOMAIN s : ~s[p].leaf =>
       \A i \in 1 .. Len(s[p].array) : s[p].array[i].value \in DOMAIN s
  /\ \A p \in DOMAIN s : s[p].leaf => scope[p] # {}
  /\ k \in scope[P]
  /\ N \notin DOMAIN s /\ N # INVALID_PAGE_ID /\ DOMAIN t = DOMAIN s \cup {N}
  /\ \A p \in DOMAIN s \ {P} : Agree(s, t, p)
  /\ t[P].leaf = s[P].leaf /\ t[P].next = N
  /\ t[N].leaf = TRUE /\ t[N].next = s[P].next
  /\ t[P].array # <<>> /\ 1 \in 1 .. Len(t[P].array) /\ t[N].array # <<>>
  /\ \A i \in 1 .. Len(t[P].array) : t[P].array[i].key \in Less(scope[P], k)
  /\ \A i \in 1 .. Len(t[N].array) : t[N].array[i].key \in NotLess(scope[P], k)

LEMMA LeafCutInOrder ==
  ASSUME NEW s, NEW root, NEW scope, Ordered(s, root, Idle, scope),
         NEW t, NEW P, NEW k, NEW N, LeafCut(s, t, root, scope, P, k, N),
         NEW cut, cut = CutScope(t, scope, P, k, N), NEW call, call = SplitCall(P, k, N)
  PROVE  Ordered(t, root, call, cut)
<1> USE DEF LeafCut
<1>0. PICK left, right : left = t[P].array /\ right = t[N].array
  OBVIOUS
<1> USE <1>0
<1>1. /\ scope \in [DOMAIN s -> SUBSET Nat]
      /\ root # INVALID_PAGE_ID => Covered(Idle, scope, root) = Nat
      /\ Divided(s, Idle, scope)
      /\ LeavesFit(s, scope)
      /\ InARow(s, scope)
      /\ Linked(s, scope)
  BY DEF Ordered
<1>2. /\ cut \in [DOMAIN t -> SUBSET Nat]
      /\ cut[P] = Less(scope[P], k) /\ cut[N] = NotLess(scope[P], k)
      /\ \A p \in DOMAIN s : p # P => cut[p] = scope[p]
      /\ \A p \in DOMAIN s : Covered(call, cut, p) = scope[p]
      /\ SplitAt(call, cut)
      /\ cut[P] \subseteq scope[P] /\ cut[N] \subseteq scope[P]
      /\ Before(cut[P], cut[N]) /\ cut[P] # {} /\ cut[N] # {}
  <2>1. left[1].key \in Less(scope[P], k)
    OBVIOUS
  <2>2. Cutting(s, t, scope, P, k, N, call, cut)
    BY <1>1, <2>1 DEF Cutting
  <2> QED
    BY ONLY <2>2, ScopeCut
<1>3. Idle.op # "insert"
  BY DEF Idle
<1>4. \A p : Covered(Idle, scope, p) = scope[p]
  BY <1>3 DEF Covered
<1>5. root # INVALID_PAGE_ID => Covered(call, cut, root) = Nat
  BY <1>1, <1>2, <1>4
<1>7. \A p \in DOMAIN s \ {P} :
        t[p].leaf = s[p].leaf /\ t[p].array = s[p].array /\ t[p].next = s[p].next
  BY DEF Agree
<1>8. Divided(t, call, cut)
  <2>1. ASSUME NEW p \in DOMAIN t, ~t[p].leaf
        PROVE  /\ SeparatorsAscend(t[p].array, cut[p])
               /\ \A i \in 1 .. Len(t[p].array) :
                    Covered(call, cut, t[p].array[i].value) = Share(t[p].array, cut[p], i)
    <3>1. p \in DOMAIN s /\ p # P /\ ~s[p].leaf /\ t[p].array = s[p].array /\ cut[p] = scope[p]
      BY <1>2, <1>7, <2>1
    <3>2. /\ SeparatorsAscend(s[p].array, scope[p])
          /\ \A i \in 1 .. Len(s[p].array) :
               Covered(Idle, scope, s[p].array[i].value) = Share(s[p].array, scope[p], i)
      BY <1>1, <3>1 DEF Divided
    <3>3. \A i \in 1 .. Len(s[p].array) :
            Covered(call, cut, s[p].array[i].value) = Covered(Idle, scope, s[p].array[i].value)
      BY <1>2, <1>4, <3>1
    <3> QED
      BY ONLY <3>1, <3>2, <3>3
  <2> QED
    BY ONLY <2>1 DEF Divided
<1>9. LeavesFit(t, cut)
  <2>1. ASSUME NEW p \in DOMAIN t, t[p].leaf
        PROVE  /\ t[p].array # <<>>
               /\ \A i \in 1 .. Len(t[p].array) : t[p].array[i].key \in cut[p]
    <3>1. CASE p = P
      BY <1>2, <3>1
    <3>2. CASE p = N
      BY <1>2, <3>2
    <3>3. CASE p # P /\ p # N
      <4>1. p \in DOMAIN s /\ s[p].leaf /\ t[p].array = s[p].array /\ cut[p] = scope[p]
        BY <1>2, <1>7, <2>1, <3>3
      <4> QED
        BY <1>1, <4>1 DEF LeavesFit
    <3> QED
      BY <3>1, <3>2, <3>3
  <2> QED
    BY ONLY <2>1 DEF LeavesFit
\* A leaf of t was, as a whole or in part, a leaf of s.
<1>10. ASSUME NEW p \in DOMAIN t, t[p].leaf
       PROVE  /\ SplitFrom(P, N, p) \in DOMAIN s /\ s[SplitFrom(P, N, p)].leaf
              /\ cut[p] \subseteq scope[SplitFrom(P, N, p)] /\ cut[p] # {}
              /\ scope[SplitFrom(P, N, p)] \in SUBSET Nat /\ cut[p] \in SUBSET Nat
              /\ p \in DOMAIN s => SplitFrom(P, N, p) = p
  <2>1. CASE p = N
    BY <1>1, <1>2, <2>1 DEF SplitFrom
  <2>2. CASE p = P
    BY <1>1, <1>2, <2>2 DEF SplitFrom
  <2>3. CASE p # P /\ p # N
    <3>1. p \in DOMAIN s /\ s[p].leaf /\ cut[p] = scope[p] /\ SplitFrom(P, N, p) = p
      BY <1>2, <1>7, <1>10, <2>3 DEF SplitFrom
    <3> QED
      BY <1>1, <3>1
  <2> QED
    BY <2>1, <2>2, <2>3
<1>11. \A p \in DOMAIN s : s[p].leaf => t[p].leaf /\ p \in DOMAIN t /\ p # N
  BY <1>7
<1>12. ASSUME NEW p \in DOMAIN t, NEW q \in DOMAIN t, t[p].leaf, t[q].leaf
       PROVE  /\ Before(scope[SplitFrom(P, N, p)], scope[SplitFrom(P, N, q)]) =>
                   Before(cut[p], cut[q])
              /\ SplitFrom(P, N, p) # SplitFrom(P, N, q) /\ Before(cut[p], cut[q]) =>
                   Before(scope[SplitFrom(P, N, p)], scope[SplitFrom(P, N, q)])
              /\ SplitFrom(P, N, p) # SplitFrom(P, N, q) =>
                   Before(cut[p], cut[q]) \/ Before(cut[q], cut[p])
              /\ Before(cut[p], cut[q]) => p # q
  <2>1. PICK x, y, X, Y : /\ x = SplitFrom(P, N, p) /\ y = SplitFrom(P, N, q)
                          /\ X = scope[x] /\ Y = scope[y]
    OBVIOUS
  <2>2. PICK A, B : A = cut[p] /\ B = cut[q]
    OBVIOUS
  <2>3. /\ x \in DOMAIN s /\ s[x].leaf /\ A \subseteq X /\ A # {} /\ X \in SUBSET Nat
        /\ A \in SUBSET Nat
    BY <1>10, <1>12, <2>1, <2>2
  <2>4. /\ y \in DOMAIN s /\ s[y].leaf /\ B \subseteq Y /\ B # {} /\ Y \in SUBSET Nat
    BY <1>10, <1>12, <2>1, <2>2
  <2>5. x # y => Before(X, Y) \/ Before(Y, X)
    BY <1>1, <2>1, <2>3, <2>4 DEF InARow
  <2>6. Before(X, Y) => Before(A, B)
    BY ONLY <2>3, <2>4, BeforeParts
  <2>7. Before(Y, X) => Before(B, A)
    BY ONLY <2>3, <2>4, BeforeParts
  <2>8. ASSUME x # y, Before(A, B)
        PROVE  Before(X, Y)
    BY ONLY <2>3, <2>4, <2>5, <2>8, BeforeWhole
  <2>9. ~Before(A, A)
    BY ONLY <2>3, NotBeforeItself
  <2>10. Before(A, B) => p # q
    BY <2>2, <2>9
  <2> QED
    BY <2>1, <2>2, <2>5, <2>6, <2>7, <2>8, <2>10
<1>13. InARow(t, cut)
  <2>1. ASSUME NEW p \in DOMAIN t, NEW q \in DOMAIN t, t[p].leaf, t[q].leaf, p # q
        PROVE  Before(cut[p], cut[q]) \/ Before(cut[q], cut[p])
    <3>1. CASE SplitFrom(P, N, p) # SplitFrom(P, N, q)
      BY <1>12, <2>1, <3>1
    <3>2. CASE SplitFrom(P, N, p) = SplitFrom(P, N, q)
      <4>1. (p = P /\ q = N) \/ (p = N /\ q = P)
        BY <2>1, <3>2 DEF SplitFrom
      <4> QED
        BY <1>2, <4>1
    <3> QED
      BY <3>1, <3>2
  <2> QED
    BY ONLY <2>1 DEF InARow
<1>14. ASSUME NEW p \in DOMAIN s, s[p].leaf
       PROVE  /\ s[p].next # INVALID_PAGE_ID =>
                   s[p].next \in DOMAIN s /\ s[s[p].next].leaf /\ Before(scope[p], scope[s[p].next])
              /\ \A q \in DOMAIN s : s[q].leaf /\ Before(scope[p], scope[q]) =>
                   /\ s[p].next # INVALID_PAGE_ID
                   /\ q = s[p].next \/ Before(scope[s[p].next], scope[q])
  BY <1>1, <1>14 DEF Linked, LinkedFrom, Follows
<1>15. SplitFrom(P, N, N) = P /\ SplitFrom(P, N, P) = P
  BY DEF SplitFrom
<1>16. ASSUME NEW q \in DOMAIN t, t[q].leaf, Before(cut[N], cut[q])
       PROVE  /\ q \in DOMAIN s /\ q # P /\ s[q].leaf /\ Before(scope[P], scope[q])
  <2>1. q # N
    BY <1>12, <1>16
  <2>2. q # P
    <3>1. SUFFICES ASSUME q = P PROVE FALSE
      OBVIOUS
    <3>2. PICK a \in cut[P], b \in cut[N] : TRUE
      BY <1>2
    <3>3. a \in Nat /\ b \in Nat /\ a < b /\ b < a
      BY <1>2, <1>16, <3>1, <3>2 DEF Before
    <3> QED
      BY <3>3
  <2>3. q \in DOMAIN s /\ s[q].leaf /\ SplitFrom(P, N, q) = q
    BY <1>7, <1>16, <2>1, <2>2 DEF SplitFrom
  <2>4. N \in DOMAIN t /\ t[N].leaf
    OBVIOUS
  <2>5. Before(scope[P], scope[q])
    BY <1>12, <1>15, <1>16, <2>2, <2>3, <2>4
  <2> QED
    BY <2>2, <2>3, <2>5
<1>17. ASSUME NEW p \in DOMAIN t
       PROVE  LinkedFrom(t, cut, p)
  <2>1. CASE ~t[p].leaf
    <3>1. p \in DOMAIN s /\ ~s[p].leaf /\ t[p].next = s[p].next
      BY <1>7, <2>1
    <3>2. s[p].next = INVALID_PAGE_ID
      BY <1>1, <3>1 DEF Linked, LinkedFrom
    <3> QED
      BY <2>1, <3>1, <3>2 DEF LinkedFrom
  <2>2. CASE p = P
    <3>1. t[p].next = N /\ N \in DOMAIN t /\ Follows(t, cut, p, N)
      BY <1>2, <2>2 DEF Follows
    <3>2. ASSUME NEW q \in DOMAIN t, Follows(t, cut, p, q)
          PROVE  q = N \/ Before(cut[N], cut[q])
      <4>1. SUFFICES ASSUME q # N PROVE Before(cut[N], cut[q])
        OBVIOUS
      <4>2. t[q].leaf /\ Before(cut[P], cut[q]) /\ q # P
        BY <1>12, <2>2, <3>2 DEF Follows
      <4>3. SplitFrom(P, N, q) = q
        BY <4>1 DEF SplitFrom
      <4>4. Before(scope[P], scope[q])
        BY <1>12, <1>15, <2>2, <4>2, <4>3
      <4>5. N \in DOMAIN t /\ t[N].leaf
        OBVIOUS
      <4> QED
        BY <1>12, <1>15, <4>2, <4>3, <4>4, <4>5
    <3> QED
      BY <2>2, <3>1, <3>2 DEF LinkedFrom
  <2>3. CASE p = N
    <3>1. PICK y : y = s[P].next
      OBVIOUS
    <3>2. t[p].next = y /\ t[p].leaf
      BY <2>3, <3>1
    <3>3. ASSUME y # INVALID_PAGE_ID
          PROVE  y \in DOMAIN t /\ Follows(t, cut, p, y) /\ y \in DOMAIN s /\ y # N /\ t[y].leaf
      <4>1. y \in DOMAIN s /\ s[y].leaf /\ Before(scope[P], scope[y])
        BY <1>14, <3>1, <3>3
      <4>2. y \in DOMAIN t /\ t[y].leaf /\ y # N
        BY <1>11, <4>1
      <4>3. SplitFrom(P, N, y) = y
        BY <4>2 DEF SplitFrom
      <4>4. Before(cut[N], cut[y])
        BY <1>12, <1>15, <2>3, <3>2, <4>1, <4>2, <4>3
      <4> QED
        BY <2>3, <4>1, <4>2, <4>4 DEF Follows
    <3>4. ASSUME NEW q \in DOMAIN t, Follows(t, cut, p, q)
          PROVE  y # INVALID_PAGE_ID /\ (q = y \/ Before(cut[y], cut[q]))
      <4>1. q \in DOMAIN s /\ q # P /\ s[q].leaf /\ Before(scope[P], scope[q])
        BY <1>16, <2>3, <3>4 DEF Follows
      <4>2. y # INVALID_PAGE_ID /\ (q = y \/ Before(scope[y], scope[q]))
        BY <1>14, <3>1, <4>1
      <4>3. y \in DOMAIN t /\ t[y].leaf /\ y # N /\ t[q].leaf /\ q # N
        BY <1>11, <3>3, <4>1, <4>2
      <4>4. SplitFrom(P, N, y) = y /\ SplitFrom(P, N, q) = q
        BY <4>3 DEF SplitFrom
      <4>5. Before(scope[y], scope[q]) => Before(cut[y], cut[q])
        BY <1>12, <4>3, <4>4
      <4> QED
        BY <4>2, <4>5
    <3> QED
      BY <3>2, <3>3, <3>4 DEF LinkedFrom
  <2>4. CASE p # P /\ p # N /\ t[p].leaf
    <3>1. PICK y : y = s[p].next
      OBVIOUS
    <3>2. p \in DOMAIN s /\ s[p].leaf /\ t[p].next = y /\ SplitFrom(P, N, p) = p
      BY <1>7, <2>4, <3>1 DEF SplitFrom
    <3>3. ASSUME y # INVALID_PAGE_ID
          PROVE  y \in DOMAIN t /\ Follows(t, cut, p, y) /\ y # N /\ t[y].leaf
      <4>1. y \in DOMAIN s /\ s[y].leaf /\ Before(scope[p], scope[y])
        BY <1>14, <3>1, <3>2, <3>3
      <4>2. y \in DOMAIN t /\ t[y].leaf /\ y # N
        BY <1>11, <4>1
      <4>3. SplitFrom(P, N, y) = y
        BY <4>2 DEF SplitFrom
      <4>4. Before(cut[p], cut[y])
        BY <1>12, <2>4, <3>2, <4>1, <4>2, <4>3
      <4> QED
        BY <4>2, <4>4 DEF Follows
    <3>4. ASSUME NEW q \in DOMAIN t, Follows(t, cut, p, q)
          PROVE  y # INVALID_PAGE_ID /\ (q = y \/ Before(cut[y], cut[q]))
      <4>1. PICK h : h = SplitFrom(P, N, q)
        OBVIOUS
      <4>2. t[q].leaf /\ Before(cut[p], cut[q]) /\ p # q
        BY <1>12, <2>4, <3>4 DEF Follows
      <4>3. h \in DOMAIN s /\ s[h].leaf
        BY <1>10, <4>1, <4>2
      <4>4. h # p
        BY <2>4, <4>1, <4>2 DEF SplitFrom
      <4>5. Before(scope[p], scope[h])
        BY <1>12, <2>4, <3>2, <4>1, <4>2, <4>4
      <4>6. y # INVALID_PAGE_ID /\ (h = y \/ Before(scope[y], scope[h]))
        BY <1>14, <3>1, <3>2, <4>3, <4>5
      <4>7. y \in DOMAIN t /\ t[y].leaf /\ y # N /\ SplitFrom(P, N, y) = y
        BY <3>3, <4>6 DEF SplitFrom
      <4>8. CASE Before(scope[y], scope[h])
        BY <1>12, <4>1, <4>2, <4>6, <4>7, <4>8
      <4>9. CASE h = y
        <5>1. q = y \/ (q = N /\ y = P)
          BY <4>1, <4>9 DEF SplitFrom
        <5> QED
          BY <1>2, <4>6, <5>1
      <4> QED
        BY <4>6, <4>8, <4>9
    <3> QED
      BY <2>4, <3>2, <3>3, <3>4 DEF LinkedFrom
  <2> QED
    BY <2>1, <2>2, <2>3, <2>4
<1> QED
  BY <1>2, <1>5, <1>8, <1>9, <1>13, <1>17 DEF Ordered, Linked

\* Every key comes to the new root.
RootScope(store, scope, N) == [p \in DOMAIN store |-> IF p = N THEN Nat ELSE scope[p]]

\* A root above the two halves of the old one.
RootAdded(s, t, root, call, N) ==
  /\ call.op = "insert" /\ call.old = root /\ call.new # root
  /\ call.old \in DOMAIN s /\ call.new \in DOMAIN s /\ root # INVALID_PAGE_ID
  /\ \A p \in DOMAIN s : ~s[p].leaf =>
       \A i \in 1 .. Len(s[p].array) : /\ s[p].array[i].value \in DOMAIN s
                                       /\ s[p].array[i].value # root
  /\ N \notin DOMAIN s /\ DOMAIN t = DOMAIN s \cup {N}
  /\ \A p \in DOMAIN s : Agree(s, t, p)
  /\ t[N].leaf = FALSE /\ t[N].next = INVALID_PAGE_ID
  /\ Len(t[N].array) = 2 /\ t[N].array[2].key = call.key
  /\ t[N].array[1].value = call.old /\ t[N].array[2].value = call.new

LEMMA RootInOrder ==
  ASSUME NEW s, NEW root, NEW call, NEW scope, Ordered(s, root, call, scope),
         NEW t, NEW N, RootAdded(s, t, root, call, N),
         NEW grown, grown = RootScope(t, scope, N)
  PROVE  Ordered(t, N, Idle, grown)
<1> USE DEF RootAdded
<1>1. /\ scope \in [DOMAIN s -> SUBSET Nat]
      /\ Covered(call, scope, root) = Nat
      /\ Divided(s, call, scope) /\ LeavesFit(s, scope)
      /\ InARow(s, scope) /\ Linked(s, scope) /\ SplitAt(call, scope)
  BY DEF Ordered
<1>2. /\ grown \in [DOMAIN t -> SUBSET Nat] /\ grown[N] = Nat
      /\ \A p \in DOMAIN s : grown[p] = scope[p]
  BY <1>1 DEF RootScope
<1>3. Idle.op # "insert"
  BY DEF Idle
<1>4. \A p : Covered(Idle, grown, p) = grown[p]
  BY <1>3 DEF Covered
<1>5. \A p \in DOMAIN s :
        t[p].leaf = s[p].leaf /\ t[p].array = s[p].array /\ t[p].next = s[p].next
  BY DEF Agree
<1>6. scope[call.old] \cup scope[call.new] = Nat
  BY <1>1 DEF Covered
<1>7. PICK k : k = call.key
  OBVIOUS
<1>8. /\ k \in scope[call.new] /\ k \in Nat
      /\ \A x \in scope[call.old] : x < k
      /\ \A x \in scope[call.new] : k <= x
  BY <1>1, <1>7 DEF SplitAt
<1>9. /\ SeparatorsAscend(t[N].array, Nat)
      /\ Share(t[N].array, Nat, 1) = scope[call.old]
      /\ Share(t[N].array, Nat, 2) = scope[call.new]
  <2>1. PICK r : r = t[N].array
    OBVIOUS
  <2>2. Len(r) = 2 /\ r[2].key = k
    BY <1>7, <2>1
  <2>3. \A i \in 2 .. 2 : i = 2
    OBVIOUS
  <2>4. SeparatorsAscend(r, Nat)
    BY <1>8, <2>2, <2>3 DEF SeparatorsAscend
  <2>5. Share(r, Nat, 1) = scope[call.old]
    <3>1. Share(r, Nat, 1) = {x \in Nat : x < k}
      BY <2>2 DEF Share
    <3>2. \A x \in Nat : x < k => x \in scope[call.old]
      BY <1>6, <1>8
    <3> QED
      BY <1>1, <1>8, <3>1, <3>2
  <2>6. Share(r, Nat, 2) = scope[call.new]
    <3>1. Share(r, Nat, 2) = {x \in Nat : k <= x}
      BY <2>2 DEF Share
    <3>2. \A x \in Nat : k <= x => x \in scope[call.new]
      BY <1>6, <1>8
    <3> QED
      BY <1>1, <1>8, <3>1, <3>2
  <2> QED
    BY <2>1, <2>4, <2>5, <2>6
<1>10. Divided(t, Idle, grown)
  <2>1. ASSUME NEW p \in DOMAIN t, ~t[p].leaf
        PROVE  /\ SeparatorsAscend(t[p].array, grown[p])
               /\ \A i \in 1 .. Len(t[p].array) :
                    grown[t[p].array[i].value] = Share(t[p].array, grown[p], i)
    <3>1. CASE p = N
      <4>1. /\ Len(t[N].array) = 2
            /\ t[N].array[1].value = call.old /\ t[N].array[2].value = call.new
        OBVIOUS
      <4>2. \A i \in 1 .. 2 : i = 1 \/ i = 2
        OBVIOUS
      <4>3. grown[call.old] = scope[call.old] /\ grown[call.new] = scope[call.new]
        BY <1>2
      <4> QED
        BY <1>2, <1>9, <3>1, <4>1, <4>2, <4>3
    <3>2. CASE p # N
      <4>1. p \in DOMAIN s /\ ~s[p].leaf /\ t[p].array = s[p].array /\ grown[p] = scope[p]
        BY <1>2, <1>5, <2>1, <3>2
      <4>2. /\ SeparatorsAscend(s[p].array, scope[p])
            /\ \A i \in 1 .. Len(s[p].array) :
                 Covered(call, scope, s[p].array[i].value) = Share(s[p].array, scope[p], i)
        BY <1>1, <4>1 DEF Divided
      <4>3. \A i \in 1 .. Len(s[p].array) :
              grown[s[p].array[i].value] = Covered(call, scope, s[p].array[i].value)
        BY <1>2, <4>1 DEF Covered
      <4> QED
        BY ONLY <4>1, <4>2, <4>3
    <3> QED
      BY <3>1, <3>2
  <2> QED
    BY ONLY <1>4, <2>1 DEF Divided
<1>11. ASSUME NEW p \in DOMAIN t, t[p].leaf
       PROVE  p \in DOMAIN s /\ s[p].leaf /\ grown[p] = scope[p] /\ t[p].array = s[p].array
  BY <1>2, <1>5, <1>11
<1>12. LeavesFit(t, grown)
  BY <1>1, <1>11 DEF LeavesFit
<1>13. InARow(t, grown)
  BY <1>1, <1>11 DEF InARow
<1>14. ASSUME NEW p \in DOMAIN t
       PROVE  LinkedFrom(t, grown, p)
  <2>1. CASE ~t[p].leaf
    <3>1. p = N \/ (p \in DOMAIN s /\ ~s[p].leaf /\ t[p].next = s[p].next)
      BY <1>5, <2>1
    <3>2. t[p].next = INVALID_PAGE_ID
      BY <1>1, <3>1 DEF Linked, LinkedFrom
    <3> QED
      BY <2>1, <3>2 DEF LinkedFrom
  <2>2. CASE t[p].leaf
    <3>1. p \in DOMAIN s /\ s[p].leaf /\ t[p].next = s[p].next /\ grown[p] = scope[p]
      BY <1>5, <1>11, <2>2
    <3>2. LinkedFrom(s, scope, p)
      BY <1>1, <3>1 DEF Linked
    <3>3. \A q \in DOMAIN t : Follows(t, grown, p, q) => q \in DOMAIN s /\ Follows(s, scope, p, q)
      BY <1>11, <3>1 DEF Follows
    <3>4. \A q \in DOMAIN s : Follows(s, scope, p, q) => q \in DOMAIN t /\ Follows(t, grown, p, q)
      BY <1>2, <1>5, <3>1 DEF Follows
    <3>5. t[p].next # INVALID_PAGE_ID => t[p].next \in DOMAIN t /\ Follows(t, grown, p, t[p].next)
      BY <3>1, <3>2, <3>4 DEF LinkedFrom
    <3>6. ASSUME NEW q \in DOMAIN t, Follows(t, grown, p, q)
          PROVE  /\ t[p].next # INVALID_PAGE_ID
                 /\ q = t[p].next \/ Before(grown[t[p].next], grown[q])
      <4>1. q \in DOMAIN s /\ Follows(s, scope, p, q) /\ grown[q] = scope[q]
        BY <1>2, <3>3, <3>6
      <4>2. /\ s[p].next # INVALID_PAGE_ID /\ s[p].next \in DOMAIN s
            /\ q = s[p].next \/ Before(scope[s[p].next], scope[q])
        BY <3>1, <3>2, <4>1 DEF LinkedFrom
      <4>3. grown[s[p].next] = scope[s[p].next]
        BY <1>2, <4>2
      <4> QED
        BY <3>1, <4>1, <4>2, <4>3
    <3> QED
      BY <2>2, <3>5, <3>6 DEF LinkedFrom
  <2> QED
    BY <2>1, <2>2
<1>15. Covered(Idle, grown, N) = Nat
  BY <1>2, <1>4
<1>16. SplitAt(Idle, grown)
  BY <1>3 DEF SplitAt
<1> QED
  BY <1>2, <1>10, <1>12, <1>13, <1>14, <1>15, <1>16 DEF Ordered, Linked

\* A leaf holds other pairs, with keys of its scope.
LEMMA LeafInOrder ==
  ASSUME NEW s, NEW root, NEW call, NEW scope, Ordered(s, root, call, scope),
         NEW P \in DOMAIN s, s[P].leaf,
         NEW t, DOMAIN t = DOMAIN s, \A p \in DOMAIN s \ {P} : Agree(s, t, p),
         t[P].leaf = s[P].leaf, t[P].next = s[P].next, t[P].array # <<>>,
         \A i \in 1 .. Len(t[P].array) : t[P].array[i].key \in scope[P]
  PROVE  Ordered(t, root, call, scope)
<1>1. /\ scope \in [DOMAIN s -> SUBSET Nat]
      /\ root # INVALID_PAGE_ID => Covered(call, scope, root) = Nat
      /\ Divided(s, call, scope) /\ LeavesFit(s, scope)
      /\ InARow(s, scope) /\ Linked(s, scope) /\ SplitAt(call, scope)
  BY DEF Ordered
<1>2. \A p \in DOMAIN s : t[p].leaf = s[p].leaf /\ t[p].next = s[p].next
  BY DEF Agree
<1>3. \A p \in DOMAIN s : p # P => t[p].array = s[p].array
  BY DEF Agree
<1>4. Divided(t, call, scope)
  <2>1. ASSUME NEW p \in DOMAIN t, ~t[p].leaf
        PROVE  /\ SeparatorsAscend(t[p].array, scope[p])
               /\ \A i \in 1 .. Len(t[p].array) :
                    Covered(call, scope, t[p].array[i].value) = Share(t[p].array, scope[p], i)
    <3>1. p \in DOMAIN s /\ p # P /\ ~s[p].leaf /\ t[p].array = s[p].array
      BY <1>2, <1>3, <2>1
    <3> QED
      BY ONLY <1>1, <3>1 DEF Divided
  <2> QED
    BY ONLY <2>1 DEF Divided
<1>5. LeavesFit(t, scope)
  BY <1>1, <1>2, <1>3 DEF LeavesFit
<1>6. InARow(t, scope)
  BY <1>1, <1>2 DEF InARow
<1>7. ASSUME NEW p \in DOMAIN t
      PROVE  LinkedFrom(t, scope, p)
  <2>1. LinkedFrom(s, scope, p) /\ p \in DOMAIN s
    BY <1>1 DEF Linked
  <2>2. \A q \in DOMAIN s : Follows(t, scope, p, q) <=> Follows(s, scope, p, q)
    BY <1>2 DEF Follows
  <2>3. t[p].next = s[p].next /\ t[p].leaf = s[p].leaf
    BY <1>2
  <2>4. ~t[p].leaf => t[p].next = INVALID_PAGE_ID
    BY <2>1, <2>3 DEF LinkedFrom
  <2>5. t[p].leaf /\ t[p].next # INVALID_PAGE_ID =>
          t[p].next \in DOMAIN t /\ Follows(t, scope, p, t[p].next)
    BY <2>1, <2>2, <2>3 DEF LinkedFrom
  <2>6. ASSUME t[p].leaf, NEW q \in DOMAIN t, Follows(t, scope, p, q)
        PROVE  /\ t[p].next # INVALID_PAGE_ID
               /\ q = t[p].next \/ Before(scope[t[p].next], scope[q])
    <3>1. Follows(s, scope, p, q) /\ s[p].leaf
      BY <2>2, <2>3, <2>6
    <3> QED
      BY <2>1, <2>3, <3>1 DEF LinkedFrom
  <2> QED
    BY <2>4, <2>5, <2>6 DEF LinkedFrom
<1> QED
  BY <1>1, <1>4, <1>5, <1>6, <1>7 DEF Ordered, Linked

\* A tree that is one leaf.
LEMMA FirstLeafInOrder ==
  ASSUME NEW N, NEW t, DOMAIN t = {N}, t[N].leaf, t[N].next = INVALID_PAGE_ID,
         t[N].array # <<>>, \A i \in 1 .. Len(t[N].array) : t[N].array[i].key \in Nat,
         NEW scope, scope = [p \in {N} |-> Nat]
  PROVE  Ordered(t, N, Idle, scope)
<1>1. scope \in [DOMAIN t -> SUBSET Nat] /\ scope[N] = Nat
  OBVIOUS
<1>2. Idle.op # "insert"
  BY DEF Idle
<1>3. Covered(Idle, scope, N) = Nat
  BY <1>1, <1>2 DEF Covered
<1>4. Divided(t, Idle, scope) /\ LeavesFit(t, scope) /\ InARow(t, scope)
  BY <1>1 DEF Divided, LeavesFit, InARow
<1>5. ~Before(scope[N], scope[N])
  <2>1. Nat \in SUBSET Nat /\ Nat # {}
    OBVIOUS
  <2>2. ~Before(Nat, Nat)
    BY ONLY <2>1, NotBeforeItself
  <2> QED
    BY <1>1, <2>2
<1>6. Linked(t, scope)
  BY <1>5 DEF Linked, LinkedFrom, Follows
<1>7. SplitAt(Idle, scope)
  BY <1>2 DEF SplitAt
<1> QED
  BY <1>1, <1>3, <1>4, <1>6, <1>7 DEF Ordered

-----------------------------------------------------------------------------
(***************************************************************************)
(* What the steps of an insertion do.                                      *)
(***************************************************************************)

\* What an insertion on its way up writes.

LEMMA NewRootEffect ==
  ASSUME NEW T, SoundTree(T), NewRoot, NEW N, N = NewPageId
  PROVE  /\ DOMAIN pages' = DOMAIN pages \cup {N}
         /\ N \notin DOMAIN pages
         /\ \A p \in DOMAIN pages : Agree(pages, pages', p)
         /\ pages'[N].leaf = FALSE /\ pages'[N].next = INVALID_PAGE_ID
         /\ pages'[N].array = <<Pair(ZeroKey, todo.old), Pair(todo.key, todo.new)>>
         /\ root_page_id' = N /\ todo' = Idle
         /\ todo.op = "insert" /\ todo.old = root_page_id /\ todo.new # root_page_id
         /\ root_page_id \in T /\ root_page_id # INVALID_PAGE_ID
         /\ todo.old \in T /\ todo.new \in T /\ T \subseteq DOMAIN pages
<1>1. PICK old, new, page, store, array :
        /\ old = todo.old /\ new = todo.new
        /\ array = <<Pair(ZeroKey, old), Pair(todo.key, new)>>
        /\ page = Internal(INVALID_PAGE_ID, array)
        /\ store = WithParent(pages, {old, new}, N)
  OBVIOUS
<1>2. /\ todo.op = "insert" /\ IsRootPage(old) /\ pages' = Put(store, N, page)
      /\ root_page_id' = N /\ todo' = Idle
  BY <1>1 DEF NewRoot, SetRoot
<1>3. /\ \A p \in DOMAIN pages : pages[p] \in LeafPage \cup InternalPage
      /\ N \notin DOMAIN pages /\ N \in Int
  BY <1>2, InsertPages
<1>4. page.leaf = FALSE /\ page.next = INVALID_PAGE_ID /\ page.array = array
  BY <1>1 DEF Internal
<1>5. /\ DOMAIN store = DOMAIN pages
      /\ \A p \in DOMAIN pages : /\ store[p].leaf = pages[p].leaf
                                 /\ store[p].array = pages[p].array
                                 /\ store[p].next = pages[p].next
  BY <1>1, <1>3, Reparented
<1>6. /\ DOMAIN pages' = DOMAIN pages \cup {N} /\ pages'[N] = page
      /\ \A p \in DOMAIN pages : Agree(pages, pages', p)
  BY <1>2, <1>3, <1>5 DEF Put, Agree
<1>7. /\ old = root_page_id /\ new # root_page_id
      /\ root_page_id \in T /\ root_page_id # INVALID_PAGE_ID
      /\ old \in T /\ new \in T /\ T \subseteq DOMAIN pages
  <2>1. PagesTyped /\ OthersTyped
    BY DEF SoundTree
  <2>2. PICK level : TreeShape(pages, root_page_id, Pending, T, level) /\ CallShape(T, level)
    BY DEF SoundTree
  <2>3. /\ Pending = new /\ old \in T /\ new # old /\ new # root_page_id
        /\ new \in T /\ T \subseteq DOMAIN pages
        /\ root_page_id \in T /\ root_page_id # INVALID_PAGE_ID
    BY <1>1, <1>2, <2>1, <2>2, InsertFacts
  <2>4. old = root_page_id
    BY <1>1, <1>2, <2>1, <2>2, <2>3, OnlyRootHasNoParent
  <2> QED
    BY <2>3, <2>4
<1> QED
  BY <1>1, <1>2, <1>3, <1>4, <1>6, <1>7

\* The place of the page that was split in its parent P.
PlaceInParent(T, P, b) ==
  /\ P \in T /\ T \subseteq DOMAIN pages /\ P \in Int /\ P # todo.new
  /\ pages[P] \in InternalPage /\ pages[P].leaf = FALSE
  /\ pages[P].array \in Seq(ChildPair) /\ EachOnce(pages[P].array)
  /\ todo.old # root_page_id /\ todo.new # todo.old
  /\ todo.old \in T /\ todo.new \in T
  /\ Pair(todo.key, todo.new) \in ChildPair
  /\ b \in 1 .. Size(P) /\ pages[P].array[b].value = todo.old
  /\ ParentArray = Lists!InsertAt(pages[P].array, b + 1, Pair(todo.key, todo.new))
  /\ ParentArray \in Seq(ChildPair) /\ Len(ParentArray) = Size(P) + 1
  /\ Children(ParentArray) = Kids(pages, P) \cup {todo.new} /\ Kids(pages, P) \subseteq T
  /\ Size(P) \in Nat
  /\ \A p \in T \ {P} : pages[p].leaf = FALSE =>
       \A i \in 1 .. Size(p) : pages[p].array[i].value # todo.old

LEMMA ParentPlace ==
  ASSUME NEW T, SoundTree(T), todo.op = "insert", ~IsRootPage(todo.old),
         NEW P, P = pages[todo.old].parent
  PROVE  \E b : PlaceInParent(T, P, b)
<1>1. PagesTyped /\ OthersTyped
  BY DEF SoundTree
<1>2. PICK level : TreeShape(pages, root_page_id, Pending, T, level) /\ CallShape(T, level)
  BY DEF SoundTree
<1>3. PICK old, new : old = todo.old /\ new = todo.new
  OBVIOUS
<1>4. /\ Pending = new /\ old \in T /\ new \in T /\ new # old /\ new # root_page_id
      /\ todo.key \in KeyOrZero /\ new \in Nat /\ T \subseteq DOMAIN pages
  BY <1>1, <1>2, <1>3, InsertFacts
<1>5. /\ P \in T /\ P # new /\ pages[P] \in InternalPage
      /\ ParentArray \in Seq(ChildPair) /\ Len(ParentArray) = Size(P) + 1
      /\ Children(ParentArray) = Kids(pages, P) \cup {todo.new}
  BY <1>1, <1>2, <1>3, ParentFacts
<1>16. Kids(pages, P) \subseteq T
  BY <1>2, <1>5 DEF TreeShape, ParentsOfKids
<1>6. old # root_page_id
  BY <1>1, <1>2, <1>3, <1>4, OnlyRootHasNoParent
<1>7. pages[P].leaf = FALSE /\ pages[P].array \in Seq(ChildPair)
  BY <1>5 DEF InternalPage
<1>8. EachOnce(pages[P].array) /\ old \in Children(pages[P].array)
  <2>1. old \in Kids(pages, P)
    BY <1>2, <1>3, <1>4, <1>6 DEF TreeShape, KidsOfParents
  <2> QED
    BY <1>2, <1>5, <1>7, <2>1 DEF Kids, TreeShape, NodesAreSound
<1>9. PICK b : b = PositionOf(pages[P].array, old)
  OBVIOUS
<1>10. b \in 1 .. Size(P) /\ pages[P].array[b].value = old
  BY <1>7, <1>8, <1>9, PositionOfChild DEF Size
<1>11. ParentArray = Lists!InsertAt(pages[P].array, b + 1, Pair(todo.key, new))
  BY <1>3, <1>9 DEF ParentArray, InsertNodeAfter
<1>12. Pair(todo.key, new) \in ChildPair
  BY <1>4 DEF Pair, ChildPair
<1>13. P \in Int /\ Size(P) \in Nat
  <2>1. P \in DOMAIN pages
    BY <1>4, <1>5
  <2> QED
    BY <1>1, <2>1, PageKinds
<1>14. ASSUME NEW p \in T, p # P, pages[p].leaf = FALSE, NEW i \in 1 .. Size(p)
       PROVE  pages[p].array[i].value # old
  <2>1. pages[p].array[i].value \in Kids(pages, p)
    BY <1>14 DEF Kids, Children, Size
  <2>2. pages[pages[p].array[i].value].parent = p
    BY <1>2, <2>1 DEF TreeShape, ParentsOfKids
  <2> QED
    BY <1>3, <1>14, <2>2
<1>15. PlaceInParent(T, P, b)
  BY <1>3, <1>4, <1>5, <1>6, <1>7, <1>8, <1>10, <1>11, <1>12, <1>13, <1>14, <1>16 DEF PlaceInParent
<1> QED
  BY <1>15

\* A page gets another array, another page another parent.
LEMMA ArrayWritten ==
  ASSUME PagesTyped, NEW P \in DOMAIN pages, pages[P] \in InternalPage,
         NEW new \in DOMAIN pages, new # P, NEW array \in Seq(ChildPair), NEW parent \in Int,
         NEW store, store = [pages EXCEPT ![P].array = array, ![new].parent = parent]
  PROVE  /\ DOMAIN store = DOMAIN pages
         /\ \A p \in DOMAIN pages :
              /\ store[p] \in LeafPage \cup InternalPage
              /\ store[p].leaf = pages[p].leaf
              /\ store[p].next = pages[p].next
              /\ store[p].array = IF p = P THEN array ELSE pages[p].array
<1>1. \A p \in DOMAIN pages : pages[p] \in LeafPage \cup InternalPage
  BY DEF PagesTyped
<1>2. /\ DOMAIN store = DOMAIN pages
      /\ store[P] = [pages[P] EXCEPT !.array = array]
      /\ store[new] = [pages[new] EXCEPT !.parent = parent]
      /\ \A p \in DOMAIN pages \ {P, new} : store[p] = pages[p]
  OBVIOUS
<1>3. /\ store[P] \in InternalPage /\ store[P].array = array
      /\ store[P].leaf = FALSE /\ pages[P].leaf = FALSE
      /\ store[P].next = pages[P].next
  BY <1>2 DEF InternalPage
<1>4. /\ store[new] \in LeafPage \cup InternalPage
      /\ store[new].leaf = pages[new].leaf /\ store[new].array = pages[new].array
      /\ store[new].next = pages[new].next
  BY <1>1, <1>2 DEF LeafPage, InternalPage
<1> QED
  BY <1>1, <1>2, <1>3, <1>4

LEMMA ParentHasRoomEffect ==
  ASSUME NEW T, SoundTree(T), ParentHasRoom, NEW P, P = pages[todo.old].parent
  PROVE  /\ DOMAIN pages' = DOMAIN pages
         /\ \A p \in DOMAIN pages \ {P} : Agree(pages, pages', p)
         /\ pages'[P].leaf = pages[P].leaf /\ pages'[P].next = pages[P].next
         /\ pages'[P].array = ParentArray
         /\ root_page_id' = root_page_id /\ todo' = Idle
         /\ todo.op = "insert" /\ ~IsRootPage(todo.old)
<1>1. PICK new, array : new = todo.new /\ array = ParentArray
  OBVIOUS
<1>2. /\ todo.op = "insert" /\ ~IsRootPage(todo.old)
      /\ pages' = [pages EXCEPT ![P].array = array, ![new].parent = P]
      /\ root_page_id' = root_page_id /\ todo' = Idle
  BY <1>1 DEF ParentHasRoom
<1>3. /\ PagesTyped /\ new \in DOMAIN pages
      /\ P \in DOMAIN pages /\ P # new /\ P \in Int
      /\ pages[P] \in InternalPage /\ array \in Seq(ChildPair)
  BY ZenonT(40), <1>1, <1>2, ParentPlace DEF SoundTree, PlaceInParent
<1>4. /\ DOMAIN pages' = DOMAIN pages
      /\ \A p \in DOMAIN pages :
           /\ pages'[p].leaf = pages[p].leaf
           /\ pages'[p].next = pages[p].next
           /\ pages'[p].array = IF p = P THEN array ELSE pages[p].array
  <2>1. pages' = [pages EXCEPT ![P].array = array, ![new].parent = P]
    BY <1>2
  <2>2. /\ PagesTyped /\ new \in DOMAIN pages
        /\ P \in DOMAIN pages /\ new # P /\ P \in Int /\ pages[P] \in InternalPage
    BY <1>3
  <2>3. array \in Seq(ChildPair)
    BY <1>3
  <2> QED
    BY ONLY <2>1, <2>2, <2>3, ArrayWritten
<1> QED
  BY <1>1, <1>2, <1>3, <1>4 DEF Agree

\* The parent P is cut behind m of its children, the rest goes to the page N.
ParentCut(P, m, N) ==
  /\ DOMAIN pages' = DOMAIN pages \cup {N} /\ N \notin DOMAIN pages
  /\ \A p \in DOMAIN pages \ {P} : Agree(pages, pages', p)
  /\ pages'[P].leaf = pages[P].leaf /\ pages'[P].next = pages[P].next
  /\ pages'[N].leaf = FALSE /\ pages'[N].next = INVALID_PAGE_ID
  /\ root_page_id' = root_page_id
  /\ todo.op = "insert" /\ ~IsRootPage(todo.old)
  /\ m \in 2 .. Len(ParentArray) - 1
  /\ pages'[P].array = FrontOf(ParentArray, m)
  /\ pages'[N].array = BackOf(ParentArray, m)
  /\ todo' = SplitCall(P, ParentArray[m + 1].key, N)

LEMMA ParentSplitsEffect ==
  ASSUME NEW T, SoundTree(T), ParentSplits, NEW P, P = pages[todo.old].parent,
         NEW N, N = NewPageId
  PROVE  \E m : ParentCut(P, m, N)
<1>1. PICK new, array : new = todo.new /\ array = ParentArray
  OBVIOUS
<1>2. PICK m, left, right : /\ m = InternalSplitIndex(Len(array))
                            /\ left = FrontOf(array, m) /\ right = BackOf(array, m)
  OBVIOUS
<1>3. PICK inserted, store, page :
        /\ inserted = [pages EXCEPT ![P].array = left, ![new].parent = P]
        /\ store = WithParent(inserted, Children(right), N)
        /\ page = Internal(pages[P].parent, right)
  OBVIOUS
<1>4. /\ todo.op = "insert" /\ ~IsRootPage(todo.old) /\ Len(array) > InternalMax
      /\ pages' = Put(store, N, page) /\ root_page_id' = root_page_id
      /\ todo' = [op |-> "insert", old |-> P, key |-> right[1].key, new |-> N]
  BY <1>1, <1>2, <1>3 DEF ParentSplits, FrontOf, BackOf
<1>5. /\ PagesTyped /\ new \in DOMAIN pages
      /\ P \in DOMAIN pages /\ P # new /\ P \in Int
      /\ pages[P] \in InternalPage /\ array \in Seq(ChildPair)
      /\ Len(array) = Size(P) + 1 /\ Size(P) \in Nat
  BY ZenonT(40), <1>1, <1>4, ParentPlace DEF SoundTree, PlaceInParent
<1>6. N \notin DOMAIN pages /\ N \in Int
  BY <1>4, InsertPages
<1>7. m \in 2 .. Len(array) - 1 /\ Len(array) \in Nat
  <2>1. PICK n : n = Len(array)
    OBVIOUS
  <2>2. n \in Nat /\ n > InternalMax /\ InternalMax \in Nat \ {0, 1, 2}
    BY <1>4, <1>5, <2>1, SizesAssumption
  <2>3. m = n \div 2
    BY <1>2, <2>1 DEF InternalSplitIndex
  <2>4. m \in 2 .. n - 1
    BY <2>2, <2>3
  <2> QED
    BY <2>1, <2>2, <2>4
<1>8. /\ left \in Seq(ChildPair) /\ Len(right) = Len(array) - m
      /\ \A i \in 1 .. Len(array) - m : right[i] = array[m + i]
  <2>1. m \in 0 .. Len(array)
    BY <1>7
  <2> QED
    BY <1>2, <1>5, <2>1, CutPositions DEF FrontOf, BackOf
<1>9. right[1] = array[m + 1]
  <2>1. 1 \in 1 .. Len(array) - m
    BY <1>7
  <2> QED
    BY <1>8, <2>1
<1>10. /\ DOMAIN inserted = DOMAIN pages
       /\ \A p \in DOMAIN pages :
            /\ inserted[p] \in LeafPage \cup InternalPage
            /\ inserted[p].leaf = pages[p].leaf
            /\ inserted[p].next = pages[p].next
            /\ inserted[p].array = IF p = P THEN left ELSE pages[p].array
  <2>1. inserted = [pages EXCEPT ![P].array = left, ![new].parent = P]
    BY <1>3
  <2>2. /\ PagesTyped /\ new \in DOMAIN pages
        /\ P \in DOMAIN pages /\ new # P /\ P \in Int /\ pages[P] \in InternalPage
    BY <1>5
  <2>3. left \in Seq(ChildPair)
    BY <1>8
  <2> QED
    BY <2>1, <2>2, <2>3, ArrayWritten
<1>11. /\ DOMAIN store = DOMAIN inserted
       /\ \A p \in DOMAIN inserted : /\ store[p].leaf = inserted[p].leaf
                                     /\ store[p].next = inserted[p].next
                                     /\ store[p].array = inserted[p].array
  <2>1. PICK children : children = Children(right)
    OBVIOUS
  <2>2. store = WithParent(inserted, children, N)
    BY <1>3, <2>1
  <2>3. \A p \in DOMAIN inserted : inserted[p] \in LeafPage \cup InternalPage
    BY <1>10
  <2> QED
    BY <1>6, <2>2, <2>3, Reparented
<1>12. page.leaf = FALSE /\ page.array = right /\ page.next = INVALID_PAGE_ID
  BY <1>3 DEF Internal
<1>13. /\ DOMAIN pages' = DOMAIN pages \cup {N} /\ pages'[N] = page
       /\ \A p \in DOMAIN pages : pages'[p] = store[p]
  BY <1>4, <1>6, <1>10, <1>11 DEF Put
<1>14. /\ \A p \in DOMAIN pages \ {P} : Agree(pages, pages', p)
       /\ pages'[P].leaf = pages[P].leaf /\ pages'[P].next = pages[P].next
       /\ pages'[P].array = left
  BY <1>5, <1>10, <1>11, <1>13 DEF Agree
<1>15. todo' = SplitCall(P, array[m + 1].key, N)
  BY <1>4, <1>9 DEF SplitCall
<1>16. ParentCut(P, m, N)
  BY <1>1, <1>2, <1>4, <1>6, <1>7, <1>12, <1>13, <1>14, <1>15 DEF ParentCut
<1> QED
  BY <1>16

\* Everything there is in a tree that only grows is part of it.
WholeTree == SoundTree(DOMAIN pages)

InOrderTree(scope) == Ordered(pages, root_page_id, todo, scope)

LEMMA WholeTreeFacts ==
  ASSUME WholeTree
  PROVE  /\ PagesTyped /\ root_page_id \in PageOrNone
         /\ INVALID_PAGE_ID \notin DOMAIN pages
         /\ root_page_id = INVALID_PAGE_ID => DOMAIN pages = {}
         /\ \A p \in DOMAIN pages : pages[p].leaf = FALSE \/ pages[p].leaf = TRUE
         /\ \A p \in DOMAIN pages : ~pages[p].leaf =>
              \A i \in 1 .. Len(pages[p].array) : pages[p].array[i].value \in DOMAIN pages
<1>1. PagesTyped /\ OthersTyped
  BY DEF WholeTree, SoundTree
<1>2. root_page_id = INVALID_PAGE_ID => DOMAIN pages = {}
  BY DEF WholeTree, SoundTree, TreeShape, RootOnTop
<1>3. ASSUME NEW p \in DOMAIN pages, ~pages[p].leaf, NEW i \in 1 .. Len(pages[p].array)
      PROVE  pages[p].array[i].value \in DOMAIN pages
  <2>1. pages[p].array[i].value \in Children(pages[p].array)
    BY DEF Children
  <2> QED
    BY <1>1, <1>3, <2>1 DEF PagesTyped
<1>4. \A p \in DOMAIN pages : p # INVALID_PAGE_ID /\ (pages[p].leaf = FALSE \/ pages[p].leaf = TRUE)
  BY <1>1, PageKinds
<1> QED
  BY <1>1, <1>2, <1>3, <1>4 DEF OthersTyped

\* A search for a key ends in the leaf that has the key in its scope.
LEMMA SearchInScope ==
  ASSUME WholeTree, NEW scope, InOrderTree(scope), todo = Idle, ~IsEmpty, NEW k \in Keys
  PROVE  /\ FindLeafPage(k) \in DOMAIN pages /\ pages[FindLeafPage(k)].leaf
         /\ k \in scope[FindLeafPage(k)]
<1>1. PagesTyped
  BY WholeTreeFacts
<1>2. PICK level : TreeShape(pages, root_page_id, Pending, DOMAIN pages, level)
  BY DEF WholeTree, SoundTree
<1>3. /\ scope \in [DOMAIN pages -> SUBSET Nat]
      /\ Covered(todo, scope, root_page_id) = Nat
      /\ Divided(pages, todo, scope)
  BY DEF InOrderTree, Ordered, IsEmpty
<1>4. \A p : Covered(todo, scope, p) = scope[p]
  BY DEF Covered, Idle
<1>5. k \in Nat
  BY KeysAssumption
<1>6. PICK S : S = {p \in DOMAIN pages : k \in scope[p]}
  OBVIOUS
<1>7. PICK depth : depth = [p \in S |-> level[p]]
  OBVIOUS
<1>8. /\ root_page_id \in DOMAIN pages /\ level \in [DOMAIN pages -> Nat]
      /\ level[root_page_id] < Cardinality(DOMAIN pages)
      /\ \A p \in DOMAIN pages : pages[p].leaf <=> level[p] = 0
  BY <1>2 DEF TreeShape, Levels, RootOnTop, IsEmpty
<1>9. root_page_id \in S /\ S \subseteq DOMAIN pages /\ depth \in [S -> Nat]
      /\ depth[root_page_id] < Cardinality(DOMAIN pages)
      /\ \A p \in S : pages[p].leaf <=> depth[p] = 0
  BY <1>3, <1>4, <1>5, <1>6, <1>7, <1>8
<1>10. ASSUME NEW p \in S, ~pages[p].leaf
       PROVE  /\ ChildFor(pages[p].array, k) \in S
              /\ depth[p] = depth[ChildFor(pages[p].array, k)] + 1
  <2>1. PICK array, R : array = pages[p].array /\ R = scope[p]
    OBVIOUS
  <2>2. p \in DOMAIN pages /\ k \in R
    BY <1>6, <2>1
  <2>3. array \in Seq(ChildPair) /\ array # <<>>
    BY <1>1, <1>2, <1>10, <2>1, <2>2, PageKinds DEF TreeShape, NodesAreSound
  <2>4. SeparatorsAscend(array, R)
        /\ \A i \in 1 .. Len(array) : scope[array[i].value] = Share(array, R, i)
    BY <1>3, <1>4, <1>10, <2>1, <2>2 DEF Divided
  <2>5. R \in SUBSET Int
    BY <1>3, <2>1, <2>2
  <2>6. PICK i \in 1 .. Len(array) :
          ChildFor(array, k) = array[i].value /\ k \in Share(array, R, i)
    BY ONLY <2>2, <2>3, <2>4, <2>5, ChildForShare
  <2>7. k \in scope[array[i].value]
    BY <2>4, <2>6
  <2>8. array[i].value \in Kids(pages, p)
    BY <1>10, <2>1, <2>6 DEF Kids, Children
  <2>9. array[i].value \in DOMAIN pages /\ level[p] = level[array[i].value] + 1
    BY <1>2, <2>2, <2>8 DEF TreeShape, ParentsOfKids
  <2>10. array[i].value \in S
    BY <1>6, <2>7, <2>9
  <2> QED
    BY <1>7, <2>1, <2>6, <2>9, <2>10
<1>11. Descends(S, depth, k)
  BY <1>9, <1>10 DEF Descends
<1>12. FindLeafPage(k) \in S /\ pages[FindLeafPage(k)].leaf
  BY <1>1, <1>11, DescentEndsAtLeaf
<1> QED
  BY <1>6, <1>12

LEMMA NewRootKeepsOrdered ==
  ASSUME WholeTree, NEW scope, InOrderTree(scope), NewRoot
  PROVE  \E grown : InOrderTree(grown)'
<1>1. PICK N, D, a, b : /\ N = NewPageId /\ D = DOMAIN pages
                        /\ a = Pair(ZeroKey, todo.old) /\ b = Pair(todo.key, todo.new)
  OBVIOUS
<1>2. PICK grown : grown = RootScope(pages', scope, N)
  OBVIOUS
<1>3. SoundTree(D)
  BY <1>1 DEF WholeTree
<1>4. /\ DOMAIN pages' = DOMAIN pages \cup {N}
      /\ N \notin DOMAIN pages
      /\ \A p \in DOMAIN pages : Agree(pages, pages', p)
      /\ pages'[N].leaf = FALSE /\ pages'[N].next = INVALID_PAGE_ID
      /\ pages'[N].array = <<a, b>>
      /\ root_page_id' = N /\ todo' = Idle
      /\ todo.op = "insert" /\ todo.old = root_page_id /\ todo.new # root_page_id
      /\ root_page_id # INVALID_PAGE_ID
      /\ todo.old \in DOMAIN pages /\ todo.new \in DOMAIN pages
  BY <1>1, <1>3, NewRootEffect
<1>5. b.key = todo.key /\ a.value = todo.old /\ b.value = todo.new
  BY <1>1 DEF Pair
<1>6. Ordered(pages, root_page_id, todo, scope)
  BY DEF InOrderTree
<1>7. ASSUME NEW p \in DOMAIN pages, ~pages[p].leaf, NEW i \in 1 .. Len(pages[p].array)
      PROVE  /\ pages[p].array[i].value \in DOMAIN pages
             /\ pages[p].array[i].value # root_page_id
  <2>1. pages[p].array[i].value \in Kids(pages, p)
    BY <1>7 DEF Kids, Children
  <2>2. PICK level : TreeShape(pages, root_page_id, Pending, D, level)
    BY <1>3 DEF SoundTree
  <2>3. pages[p].array[i].value \in D /\ pages[pages[p].array[i].value].parent = p
    BY <1>1, <2>1, <2>2 DEF TreeShape, ParentsOfKids
  <2>4. p # INVALID_PAGE_ID
    BY <1>3, PageKinds DEF SoundTree
  <2>5. pages[root_page_id].parent = INVALID_PAGE_ID
    BY <1>4, <2>2 DEF TreeShape, RootOnTop
  <2> QED
    BY <1>1, <2>3, <2>4, <2>5
<1>8. \A p \in DOMAIN pages : ~pages[p].leaf =>
        \A i \in 1 .. Len(pages[p].array) : /\ pages[p].array[i].value \in DOMAIN pages
                                            /\ pages[p].array[i].value # root_page_id
  BY <1>7
<1>9. PICK t : t = pages'
  OBVIOUS
<1>10. /\ DOMAIN t = DOMAIN pages \cup {N}
       /\ \A p \in DOMAIN pages : Agree(pages, t, p)
       /\ t[N].leaf = FALSE /\ t[N].next = INVALID_PAGE_ID
       /\ t[N].array = <<a, b>> /\ grown = RootScope(t, scope, N)
  BY <1>2, <1>4, <1>9
<1>11. RootAdded(pages, t, root_page_id, todo, N)
  BY <1>4, <1>5, <1>8, <1>10 DEF RootAdded
<1>12. Ordered(t, N, Idle, grown)
  BY ONLY <1>6, <1>10, <1>11, RootInOrder
<1> QED
  BY <1>4, <1>9, <1>12 DEF InOrderTree

\* The parent's new array before it is cut, if it has to be.
LEMMA ParentWithChildInOrder ==
  ASSUME WholeTree, NEW scope, InOrderTree(scope), todo.op = "insert", ~IsRootPage(todo.old),
         NEW P, P = pages[todo.old].parent,
         NEW t, DOMAIN t = DOMAIN pages, \A p \in DOMAIN pages \ {P} : Agree(pages, t, p),
         t[P].leaf = pages[P].leaf, t[P].next = pages[P].next, t[P].array = ParentArray
  PROVE  /\ Ordered(t, root_page_id, Idle, scope)
         /\ P \in DOMAIN pages /\ pages[P].leaf = FALSE
         /\ ParentArray \in Seq(ChildPair)
         /\ \A i \in 1 .. Len(ParentArray) : ParentArray[i].value \in DOMAIN pages
<1>1. PICK D, array, e : D = DOMAIN pages /\ array = pages[P].array
                         /\ e = Pair(todo.key, todo.new)
  OBVIOUS
<1>2. SoundTree(D)
  BY <1>1 DEF WholeTree
<1>3. PICK b : PlaceInParent(D, P, b)
  BY <1>1, <1>2, ParentPlace
<1>4. /\ P \in DOMAIN pages /\ pages[P].leaf = FALSE
      /\ array \in Seq(ChildPair) /\ EachOnce(array)
      /\ todo.old # root_page_id /\ todo.new # todo.old /\ todo.new \in DOMAIN pages
      /\ e \in ChildPair /\ ParentArray \in Seq(ChildPair)
      /\ b \in 1 .. Len(array) /\ array[b].value = todo.old
      /\ ParentArray = Lists!InsertAt(array, b + 1, e)
      /\ \A p \in D \ {P} : pages[p].leaf = FALSE =>
           \A i \in 1 .. Size(p) : pages[p].array[i].value # todo.old
  BY <1>1, <1>3 DEF PlaceInParent, Size
<1>5. e.key = todo.key /\ e.value = todo.new
  BY <1>1 DEF Pair
<1>6. \A p \in DOMAIN pages \ {P} : ~pages[p].leaf =>
        \A i \in 1 .. Len(pages[p].array) : pages[p].array[i].value # todo.old
  BY <1>1, <1>4, WholeTreeFacts DEF Size
<1>7. Ordered(pages, root_page_id, todo, scope)
  BY DEF InOrderTree
<1>8. t[P].array = Lists!InsertAt(array, b + 1, e) /\ ~pages[P].leaf /\ array = pages[P].array
  BY <1>1, <1>4
<1>9. /\ DOMAIN t = DOMAIN pages /\ \A p \in DOMAIN pages \ {P} : Agree(pages, t, p)
      /\ t[P].leaf = pages[P].leaf /\ t[P].next = pages[P].next
      /\ todo.op = "insert"
  OBVIOUS
<1>10. Ordered(t, root_page_id, Idle, scope)
  <2>1. ChildAdded(pages, t, root_page_id, todo, P, b, e)
    BY <1>4, <1>5, <1>6, <1>8, <1>9 DEF ChildAdded
  <2> QED
    BY ONLY <1>7, <2>1, ParentInOrder
<1>11. ASSUME NEW i \in 1 .. Len(ParentArray)
       PROVE  ParentArray[i].value \in DOMAIN pages
  <2>1. ParentArray[i].value \in Children(ParentArray)
    BY DEF Children
  <2> QED
    BY <1>1, <1>3, <2>1 DEF PlaceInParent
<1> QED
  BY <1>4, <1>10, <1>11

LEMMA ParentHasRoomKeepsOrdered ==
  ASSUME WholeTree, NEW scope, InOrderTree(scope), ParentHasRoom
  PROVE  InOrderTree(scope)'
<1>1. PICK P, D : P = pages[todo.old].parent /\ D = DOMAIN pages
  OBVIOUS
<1>2. SoundTree(D)
  BY <1>1 DEF WholeTree
<1>3. /\ DOMAIN pages' = DOMAIN pages
      /\ \A p \in DOMAIN pages \ {P} : Agree(pages, pages', p)
      /\ pages'[P].leaf = pages[P].leaf /\ pages'[P].next = pages[P].next
      /\ pages'[P].array = ParentArray
      /\ root_page_id' = root_page_id /\ todo' = Idle
      /\ todo.op = "insert" /\ ~IsRootPage(todo.old)
  BY <1>1, <1>2, ParentHasRoomEffect
<1>4. PICK t : t = pages'
  OBVIOUS
<1>5. /\ DOMAIN t = DOMAIN pages /\ \A p \in DOMAIN pages \ {P} : Agree(pages, t, p)
      /\ t[P].leaf = pages[P].leaf /\ t[P].next = pages[P].next /\ t[P].array = ParentArray
      /\ P = pages[todo.old].parent
  BY <1>1, <1>3, <1>4
<1>6. Ordered(t, root_page_id, Idle, scope)
  BY <1>3, <1>5, ParentWithChildInOrder
<1> QED
  BY <1>3, <1>4, <1>6 DEF InOrderTree

LEMMA ParentSplitsKeepsOrdered ==
  ASSUME WholeTree, NEW scope, InOrderTree(scope), ParentSplits
  PROVE  \E cut : InOrderTree(cut)'
<1>1. PICK P, D, N, array : /\ P = pages[todo.old].parent /\ D = DOMAIN pages
                            /\ N = NewPageId /\ array = ParentArray
  OBVIOUS
<1>2. SoundTree(D)
  BY <1>1 DEF WholeTree
<1>3. PICK m : ParentCut(P, m, N)
  BY <1>1, <1>2, ParentSplitsEffect
<1>4. /\ DOMAIN pages' = DOMAIN pages \cup {N} /\ N \notin DOMAIN pages
      /\ \A p \in DOMAIN pages \ {P} : Agree(pages, pages', p)
      /\ pages'[P].leaf = pages[P].leaf /\ pages'[P].next = pages[P].next
      /\ pages'[N].leaf = FALSE /\ pages'[N].next = INVALID_PAGE_ID
      /\ root_page_id' = root_page_id
      /\ todo.op = "insert" /\ ~IsRootPage(todo.old)
      /\ m \in 2 .. Len(array) - 1
      /\ pages'[P].array = FrontOf(array, m)
      /\ pages'[N].array = BackOf(array, m)
      /\ todo' = SplitCall(P, array[m + 1].key, N)
  BY <1>1, <1>3 DEF ParentCut
<1>5. P \in DOMAIN pages /\ pages[P] \in InternalPage /\ array \in Seq(ChildPair)
  BY <1>1, <1>2, <1>4, ParentPlace DEF PlaceInParent
<1>6. PICK s : s = [p \in DOMAIN pages |->
                      IF p = P THEN [pages[p] EXCEPT !.array = array] ELSE pages[p]]
  OBVIOUS
<1>7. /\ DOMAIN s = DOMAIN pages
      /\ \A p \in DOMAIN pages \ {P} : s[p] = pages[p]
      /\ s[P].leaf = pages[P].leaf /\ s[P].next = pages[P].next /\ s[P].array = array
  BY <1>5, <1>6 DEF InternalPage
<1>8. \A p \in DOMAIN pages \ {P} : Agree(pages, s, p)
  BY <1>7 DEF Agree
<1>9. /\ Ordered(s, root_page_id, Idle, scope)
      /\ pages[P].leaf = FALSE
      /\ \A i \in 1 .. Len(array) : array[i].value \in DOMAIN pages
  BY ZenonT(40), <1>1, <1>4, <1>7, <1>8, ParentWithChildInOrder
<1>10. root_page_id \in DOMAIN s \cup {INVALID_PAGE_ID}
  BY <1>7, WholeTreeFacts DEF PageOrNone
<1>11. \A p \in DOMAIN s : ~s[p].leaf =>
         \A i \in 1 .. Len(s[p].array) : s[p].array[i].value \in DOMAIN s
  BY <1>7, <1>9, WholeTreeFacts
<1>12. PICK t, k, cut, call : /\ t = pages' /\ k = array[m + 1].key
                              /\ cut = CutScope(t, scope, P, k, N) /\ call = SplitCall(P, k, N)
  OBVIOUS
<1>13. /\ DOMAIN t = DOMAIN s \cup {N} /\ N \notin DOMAIN s /\ P \in DOMAIN s
       /\ ~s[P].leaf /\ array = s[P].array
       /\ t[P].leaf = s[P].leaf /\ t[P].next = s[P].next /\ t[P].array = FrontOf(array, m)
       /\ t[N].leaf = FALSE /\ t[N].next = INVALID_PAGE_ID /\ t[N].array = BackOf(array, m)
  BY <1>4, <1>5, <1>7, <1>9, <1>12
<1>14. \A p \in DOMAIN s \ {P} : Agree(s, t, p)
  BY <1>4, <1>7, <1>12 DEF Agree
<1>15. m \in 2 .. Len(array) - 1 /\ array \in Seq(ChildPair)
  BY <1>4, <1>5
<1>16. Ordered(t, root_page_id, call, cut)
  <2>1. NodeCut(s, t, root_page_id, P, m, k, N)
    BY <1>10, <1>11, <1>12, <1>13, <1>14, <1>15 DEF NodeCut
  <2> QED
    BY ONLY <1>9, <1>12, <2>1, NodeCutInOrder
<1>17. todo' = call /\ root_page_id' = root_page_id /\ pages' = t
  BY <1>4, <1>12
<1> QED
  BY <1>16, <1>17 DEF InOrderTree

\* What the first step of an insertion writes.

\* A leaf, and what a search for k knows of it.
LeafFor(leaf, scope, k) ==
  /\ leaf \in DOMAIN pages /\ pages[leaf].leaf = TRUE /\ pages[leaf] \in LeafPage
  /\ pages[leaf].array \in Seq(LeafPair) /\ Ascending(pages[leaf].array)
  /\ Len(pages[leaf].array) \in Nat /\ Len(pages[leaf].array) <= LeafMax
  /\ pages[leaf].array # <<>>
  /\ \A e \in PairsIn(pages[leaf].array) : e.key \in scope[leaf]
  /\ k \in scope[leaf] /\ scope[leaf] \in SUBSET Nat

LEMMA SearchedLeaf ==
  ASSUME WholeTree, InOrder(pages), NEW scope, InOrderTree(scope), todo = Idle, ~IsEmpty,
         NEW k \in Keys
  PROVE  LeafFor(FindLeafPage(k), scope, k)
<1>1. PICK leaf : leaf = FindLeafPage(k)
  OBVIOUS
<1>2. leaf \in DOMAIN pages /\ pages[leaf].leaf /\ k \in scope[leaf]
  BY <1>1, SearchInScope
<1>3. PagesTyped
  BY WholeTreeFacts
<1>4. /\ pages[leaf] \in LeafPage /\ pages[leaf].array \in Seq(LeafPair)
      /\ pages[leaf].leaf = TRUE /\ Len(pages[leaf].array) <= LeafMax
      /\ Len(pages[leaf].array) \in Nat
  BY <1>2, <1>3, PageKinds DEF PagesTyped, Size
<1>5. Ascending(pages[leaf].array)
  BY <1>2 DEF InOrder
<1>6. LeavesFit(pages, scope) /\ scope[leaf] \in SUBSET Nat
  BY <1>2 DEF InOrderTree, Ordered
<1>7. /\ pages[leaf].array # <<>>
      /\ \A e \in PairsIn(pages[leaf].array) : e.key \in scope[leaf]
  BY <1>2, <1>6 DEF LeavesFit, PairsIn
<1> QED
  BY <1>1, <1>2, <1>4, <1>5, <1>6, <1>7 DEF LeafFor

LeafFilled(leaf, k, v) ==
  /\ DOMAIN pages' = DOMAIN pages
  /\ \A p \in DOMAIN pages \ {leaf} : Agree(pages, pages', p)
  /\ pages'[leaf].leaf = pages[leaf].leaf /\ pages'[leaf].next = pages[leaf].next
  /\ pages'[leaf].array \in Seq(LeafPair)
  /\ Len(pages'[leaf].array) = Len(pages[leaf].array) + 1
  /\ PairsIn(pages'[leaf].array) = PairsIn(pages[leaf].array) \cup {Pair(k, v)}
  /\ root_page_id' = root_page_id /\ todo' = todo

LEMMA InsertIntoLeafEffect ==
  ASSUME WholeTree, InOrder(pages), NEW scope, InOrderTree(scope),
         NEW k \in Keys, NEW v \in Values, InsertIntoLeaf(k, v)
  PROVE  \E leaf : /\ LeafFor(leaf, scope, k) /\ ~Holds(pages[leaf].array, k)
                   /\ LeafFilled(leaf, k, v)
<1>1. PICK leaf, array, filled :
        /\ leaf = FindLeafPage(k) /\ array = pages[leaf].array
        /\ filled = LeafInsert(array, k, v)
  OBVIOUS
<1>2. /\ todo = Idle /\ ~IsEmpty /\ ~Holds(array, k)
      /\ pages' = [pages EXCEPT ![leaf].array = filled]
      /\ root_page_id' = root_page_id /\ todo' = todo
  BY <1>1 DEF InsertIntoLeaf, Found
<1>3. LeafFor(leaf, scope, k)
  BY <1>1, <1>2, SearchedLeaf
<1>4. /\ leaf \in DOMAIN pages /\ pages[leaf] \in LeafPage /\ array \in Seq(LeafPair)
  BY <1>1, <1>3 DEF LeafFor
<1>5. Pair(k, v) \in LeafPair
  BY WholeTreeFacts, LeafArrays
<1>6. filled \in Seq(LeafPair) /\ Len(filled) = Len(array) + 1
  BY <1>1, <1>4, <1>5, LeafInsertPositions
<1>7. PairsIn(filled) = PairsIn(array) \cup {Pair(k, v)}
  BY <1>1, <1>4, <1>5, LeafInsertPairs
<1>8. /\ DOMAIN pages' = DOMAIN pages
      /\ pages'[leaf].leaf = pages[leaf].leaf /\ pages'[leaf].next = pages[leaf].next
      /\ pages'[leaf].array = filled
      /\ \A p \in DOMAIN pages : p # leaf => pages'[p] = pages[p]
  BY <1>2, <1>4 DEF LeafPage
<1>9. \A p \in DOMAIN pages \ {leaf} : Agree(pages, pages', p)
  BY <1>8 DEF Agree
<1>10. LeafFilled(leaf, k, v)
  BY <1>1, <1>2, <1>6, <1>7, <1>8, <1>9 DEF LeafFilled
<1> QED
  BY <1>1, <1>2, <1>3, <1>10

\* The leaf keeps m pairs, the rest goes to the page N; key goes up.
LeafHalved(leaf, k, v, m, key, N) ==
  /\ DOMAIN pages' = DOMAIN pages \cup {N} /\ N \notin DOMAIN pages
  /\ N # INVALID_PAGE_ID
  /\ \A p \in DOMAIN pages \ {leaf} : Agree(pages, pages', p)
  /\ pages'[leaf].leaf = pages[leaf].leaf /\ pages'[leaf].next = N
  /\ pages'[N].leaf = TRUE /\ pages'[N].next = pages[leaf].next
  /\ pages'[leaf].array \in Seq(LeafPair) /\ pages'[N].array \in Seq(LeafPair)
  /\ m \in Nat \ {0} /\ Len(pages'[leaf].array) = m
  /\ Len(pages[leaf].array) >= LeafMax /\ m = (Len(pages[leaf].array) + 1) \div 2
  /\ Len(pages'[N].array) = Len(pages[leaf].array) + 1 - m
  /\ PairsIn(pages'[leaf].array) \cup PairsIn(pages'[N].array) =
       PairsIn(pages[leaf].array) \cup {Pair(k, v)}
  /\ \E e \in PairsIn(pages'[N].array) : e.key = key
  /\ \A e \in PairsIn(pages'[leaf].array) : e.key < key
  /\ \A e \in PairsIn(pages'[N].array) : key <= e.key
  /\ root_page_id' = root_page_id /\ todo' = SplitCall(leaf, key, N)

LEMMA SplitLeafEffect ==
  ASSUME WholeTree, InOrder(pages), NEW scope, InOrderTree(scope),
         NEW k \in Keys, NEW v \in Values, SplitLeaf(k, v)
  PROVE  \E leaf, m, key, N : /\ LeafFor(leaf, scope, k) /\ ~Holds(pages[leaf].array, k)
                              /\ LeafHalved(leaf, k, v, m, key, N)
<1>1. PICK leaf, array, all, m, N :
        /\ leaf = FindLeafPage(k) /\ array = pages[leaf].array
        /\ all = WithPairSorted(array, k, v)
        /\ m = LeafSplitIndex(Len(all)) /\ N = NewPageId
  OBVIOUS
<1>2. PICK left, right, page, key, store :
        /\ left = Refilled(FrontOf(all, m)) /\ right = Refilled(BackOf(all, m))
        /\ page = NewLeaf(leaf, right) /\ key = right[1].key
        /\ store = [pages EXCEPT ![leaf].array = left, ![leaf].next = N]
  OBVIOUS
<1>3. /\ todo = Idle /\ ~IsEmpty /\ ~Holds(array, k) /\ Len(array) >= LeafMax
      /\ pages' = Put(store, N, page)
      /\ todo' = [op |-> "insert", old |-> leaf, key |-> key, new |-> N]
      /\ root_page_id' = root_page_id
  BY <1>1, <1>2 DEF SplitLeaf, Found, Size, FrontOf, BackOf
<1>4. LeafFor(leaf, scope, k)
  BY <1>1, <1>3, SearchedLeaf
<1>5. /\ leaf \in DOMAIN pages /\ pages[leaf] \in LeafPage /\ array \in Seq(LeafPair)
      /\ Ascending(array) /\ Len(array) \in Nat
  BY <1>1, <1>4 DEF LeafFor
<1>6. Pair(k, v) \in LeafPair
  BY WholeTreeFacts, LeafArrays
<1>7. Len(all) = Len(array) + 1
  BY <1>1, <1>5, <1>6, SortedPositions
<1>8. m = (Len(array) + 1) \div 2 /\ m \in 1 .. Len(array) /\ m \in Nat \ {0}
  <2>1. PICK n : n = Len(array)
    OBVIOUS
  <2>2. m = (n + 1) \div 2 /\ n \in Nat /\ n >= LeafMax /\ LeafMax \in Nat \ {0, 1}
    BY <1>1, <1>3, <1>5, <1>7, <2>1, SizesAssumption DEF LeafSplitIndex
  <2>3. m \in 1 .. n
    BY <2>2
  <2> QED
    BY <2>1, <2>2, <2>3
<1>9. /\ left \in Seq(LeafPair) /\ right \in Seq(LeafPair)
      /\ Len(left) = m /\ Len(right) = Len(array) + 1 - m
      /\ PairsIn(left) \cup PairsIn(right) = PairsIn(array) \cup {Pair(k, v)}
      /\ right[1] \in PairsIn(right)
      /\ \A e \in PairsIn(left) : e.key < right[1].key
      /\ \A e \in PairsIn(right) : right[1].key <= e.key
  <2>1. /\ \A x \in LeafPair : x = Pair(x.key, x.value) /\ x.key \in Int
        /\ array \in Seq(LeafPair) /\ Ascending(array)
        /\ Pair(k, v) \in LeafPair /\ ~Holds(array, k)
        /\ all = WithPairSorted(array, k, v) /\ m \in 1 .. Len(array)
        /\ left = Refilled(FrontOf(all, m)) /\ right = Refilled(BackOf(all, m))
    BY <1>1, <1>2, <1>3, <1>5, <1>6, <1>8, LeafPairFacts
  <2>2. PICK S, e : S = LeafPair /\ e = Pair(k, v)
    OBVIOUS
  <2>3. Halves(S, array, e, m, left, right)
    BY ONLY <2>1, <2>2, LeafHalves
  <2> QED
    BY <2>2, <2>3 DEF Halves
<1>10. N \notin DOMAIN pages /\ N # INVALID_PAGE_ID
  <2>1. PICK D : D = DOMAIN pages \cup {NewPageId}
    OBVIOUS
  <2> QED
    BY <1>1, <2>1, NewPage, WholeTreeFacts
<1>11. /\ page.leaf = TRUE /\ page.next = pages[leaf].next /\ page.array = right
  BY <1>2 DEF NewLeaf, Leaf
<1>12. /\ DOMAIN store = DOMAIN pages
       /\ store[leaf].leaf = pages[leaf].leaf /\ store[leaf].next = N
       /\ store[leaf].array = left
       /\ \A p \in DOMAIN pages : p # leaf => store[p] = pages[p]
  BY <1>2, <1>5 DEF LeafPage
<1>13. /\ DOMAIN pages' = DOMAIN pages \cup {N} /\ pages'[N] = page
       /\ \A p \in DOMAIN pages : pages'[p] = store[p]
  BY <1>3, <1>10, <1>12 DEF Put
<1>14. \A p \in DOMAIN pages \ {leaf} : Agree(pages, pages', p)
  BY <1>12, <1>13 DEF Agree
<1>15. todo' = SplitCall(leaf, key, N)
  BY <1>3 DEF SplitCall
<1>16. /\ pages'[leaf].array = left /\ pages'[N].array = right
       /\ pages'[leaf].leaf = pages[leaf].leaf /\ pages'[leaf].next = N
       /\ pages'[N].leaf = TRUE /\ pages'[N].next = pages[leaf].next
       /\ pages[leaf].array = array
  BY <1>1, <1>5, <1>11, <1>12, <1>13
<1>17. LeafHalved(leaf, k, v, m, key, N)
  BY <1>2, <1>3, <1>8, <1>9, <1>10, <1>13, <1>14, <1>15, <1>16 DEF LeafHalved
<1> QED
  BY <1>1, <1>3, <1>4, <1>17

TreeBegun(k, v, N) ==
  /\ DOMAIN pages = {} /\ DOMAIN pages' = {N}
  /\ pages'[N].leaf = TRUE /\ pages'[N].next = INVALID_PAGE_ID
  /\ pages'[N].array = <<Pair(k, v)>>
  /\ root_page_id' = N /\ todo = Idle /\ todo' = Idle

LEMMA StartNewTreeEffect ==
  ASSUME WholeTree, NEW k, NEW v, StartNewTree(k, v)
  PROVE  TreeBegun(k, v, NewPageId)
<1>1. PICK N, page : /\ N = NewPageId
                     /\ page = Leaf(INVALID_PAGE_ID, INVALID_PAGE_ID, <<Pair(k, v)>>)
  OBVIOUS
<1>2. /\ pages' = Put(pages, N, page) /\ IsEmpty /\ todo = Idle /\ todo' = todo
      /\ root_page_id' = N
  BY <1>1 DEF StartNewTree
<1>3. DOMAIN pages = {}
  BY <1>2, WholeTreeFacts DEF IsEmpty
<1>4. page.leaf = TRUE /\ page.next = INVALID_PAGE_ID /\ page.array = <<Pair(k, v)>>
  BY <1>1 DEF Leaf
<1>5. DOMAIN pages' = {N} /\ pages'[N] = page
  BY <1>2, <1>3 DEF Put
<1> QED
  BY <1>1, <1>2, <1>3, <1>4, <1>5 DEF TreeBegun

LEMMA LeafScopes ==
  ASSUME WholeTree, NEW scope, InOrderTree(scope)
  PROVE  \A p \in DOMAIN pages : pages[p].leaf => scope[p] # {}
<1> SUFFICES ASSUME NEW p \in DOMAIN pages, pages[p].leaf
             PROVE  scope[p] # {}
  OBVIOUS
<1>1. pages[p].array \in Seq(LeafPair)
  BY WholeTreeFacts, PageKinds
<1>2. LeavesFit(pages, scope)
  BY DEF InOrderTree, Ordered
<1> QED
  BY <1>1, <1>2, LeafScope

LEMMA SplitLeafKeepsOrdered ==
  ASSUME WholeTree, InOrder(pages), NEW scope, InOrderTree(scope),
         NEW k \in Keys, NEW v \in Values, SplitLeaf(k, v)
  PROVE  \E cut : InOrderTree(cut)'
<1>1. PICK leaf, m, key, N : LeafFor(leaf, scope, k) /\ LeafHalved(leaf, k, v, m, key, N)
  BY SplitLeafEffect
<1>2. PICK t, left, right, cut, call :
        /\ t = pages' /\ left = t[leaf].array /\ right = t[N].array
        /\ cut = CutScope(t, scope, leaf, key, N) /\ call = SplitCall(leaf, key, N)
  OBVIOUS
<1>3. /\ todo = Idle
  BY DEF SplitLeaf
<1>4. Ordered(pages, root_page_id, Idle, scope)
  BY <1>3 DEF InOrderTree
<1>5. /\ leaf \in DOMAIN pages /\ pages[leaf].leaf = TRUE
      /\ scope[leaf] \in SUBSET Nat
      /\ \A e \in PairsIn(pages[leaf].array) \cup {Pair(k, v)} : e.key \in scope[leaf]
  BY <1>1 DEF LeafFor, Pair
<1>6. /\ PairsIn(left) \cup PairsIn(right) = PairsIn(pages[leaf].array) \cup {Pair(k, v)}
      /\ \E e \in PairsIn(right) : e.key = key
      /\ \A e \in PairsIn(left) : e.key < key
      /\ \A e \in PairsIn(right) : key <= e.key
  BY <1>1, <1>2 DEF LeafHalved
<1>7. key \in scope[leaf]
  BY <1>5, <1>6
<1>8. /\ \A e \in PairsIn(left) : e.key \in Less(scope[leaf], key)
      /\ \A e \in PairsIn(right) : e.key \in NotLess(scope[leaf], key)
  BY <1>5, <1>6 DEF Less, NotLess
<1>9. /\ \A i \in 1 .. Len(left) : left[i].key \in Less(scope[leaf], key)
      /\ \A i \in 1 .. Len(right) : right[i].key \in NotLess(scope[leaf], key)
  BY <1>8 DEF PairsIn
<1>10. /\ DOMAIN t = DOMAIN pages \cup {N} /\ N \notin DOMAIN pages /\ N # INVALID_PAGE_ID
       /\ t[leaf].leaf = pages[leaf].leaf /\ t[leaf].next = N
       /\ t[N].leaf = TRUE /\ t[N].next = pages[leaf].next
       /\ \A p \in DOMAIN pages \ {leaf} : Agree(pages, t, p)
       /\ left \in Seq(LeafPair) /\ right \in Seq(LeafPair) /\ m \in Nat \ {0} /\ Len(left) = m
  BY <1>1, <1>2 DEF LeafHalved
<1>11. /\ root_page_id \in DOMAIN pages \cup {INVALID_PAGE_ID}
       /\ INVALID_PAGE_ID \notin DOMAIN pages
       /\ \A p \in DOMAIN pages : ~pages[p].leaf =>
            \A i \in 1 .. Len(pages[p].array) : pages[p].array[i].value \in DOMAIN pages
  BY WholeTreeFacts DEF PageOrNone
<1>12. \A p \in DOMAIN pages : pages[p].leaf => scope[p] # {}
  BY LeafScopes
<1>13. left # <<>> /\ right # <<>> /\ 1 \in 1 .. Len(left)
  <2>1. left # <<>> /\ 1 \in 1 .. Len(left)
    BY <1>10, EmptySeq
  <2>2. right # <<>>
    <3>1. PICK i \in 1 .. Len(right) : TRUE
      BY <1>6 DEF PairsIn
    <3>2. right = <<>> => Len(right) = 0
      BY EmptySeq
    <3> QED
      BY <3>1, <3>2
  <2> QED
    BY <2>1, <2>2
<1>14. LeafCut(pages, t, root_page_id, scope, leaf, key, N)
  BY <1>2, <1>5, <1>7, <1>9, <1>10, <1>11, <1>12, <1>13 DEF LeafCut
<1>15. Ordered(t, root_page_id, call, cut)
  BY ONLY <1>2, <1>4, <1>14, LeafCutInOrder
<1>16. todo' = call /\ root_page_id' = root_page_id /\ pages' = t
  BY <1>1, <1>2 DEF LeafHalved
<1> QED
  BY <1>15, <1>16 DEF InOrderTree

LEMMA InsertIntoLeafKeepsOrdered ==
  ASSUME WholeTree, InOrder(pages), NEW scope, InOrderTree(scope),
         NEW k \in Keys, NEW v \in Values, InsertIntoLeaf(k, v)
  PROVE  InOrderTree(scope)'
<1>1. PICK leaf : LeafFor(leaf, scope, k) /\ LeafFilled(leaf, k, v)
  BY InsertIntoLeafEffect
<1>2. PICK t, array : t = pages' /\ array = t[leaf].array
  OBVIOUS
<1>3. Ordered(pages, root_page_id, todo, scope)
  BY DEF InOrderTree
<1>4. /\ leaf \in DOMAIN pages /\ pages[leaf].leaf
      /\ Len(pages[leaf].array) \in Nat
      /\ \A e \in PairsIn(pages[leaf].array) \cup {Pair(k, v)} : e.key \in scope[leaf]
  BY <1>1 DEF LeafFor, Pair
<1>5. /\ DOMAIN t = DOMAIN pages
      /\ \A p \in DOMAIN pages \ {leaf} : Agree(pages, t, p)
      /\ t[leaf].leaf = pages[leaf].leaf /\ t[leaf].next = pages[leaf].next
      /\ Len(array) = Len(pages[leaf].array) + 1
      /\ PairsIn(array) = PairsIn(pages[leaf].array) \cup {Pair(k, v)}
      /\ root_page_id' = root_page_id /\ todo' = todo
  BY <1>1, <1>2 DEF LeafFilled
<1>6. \A i \in 1 .. Len(array) : array[i].key \in scope[leaf]
  BY <1>4, <1>5 DEF PairsIn
<1>7. array # <<>>
  BY <1>4, <1>5
<1>8. Ordered(t, root_page_id, todo, scope)
  BY <1>2, <1>3, <1>4, <1>5, <1>6, <1>7, LeafInOrder
<1> QED
  BY <1>2, <1>5, <1>8 DEF InOrderTree

LEMMA StartNewTreeKeepsOrdered ==
  ASSUME WholeTree, NEW k \in Keys, NEW v, StartNewTree(k, v)
  PROVE  \E scope : InOrderTree(scope)'
<1>1. PICK N, t, scope : N = NewPageId /\ t = pages' /\ scope = [p \in {N} |-> Nat]
  OBVIOUS
<1>2. TreeBegun(k, v, N)
  BY <1>1, StartNewTreeEffect
<1>3. /\ DOMAIN t = {N} /\ t[N].leaf /\ t[N].next = INVALID_PAGE_ID
      /\ t[N].array = <<Pair(k, v)>> /\ root_page_id' = N /\ todo' = Idle
  BY <1>1, <1>2 DEF TreeBegun
<1>4. k \in Nat /\ Pair(k, v).key = k
  BY KeysAssumption DEF Pair
<1>5. t[N].array # <<>> /\ \A i \in 1 .. Len(t[N].array) : t[N].array[i].key \in Nat
  BY <1>3, <1>4
<1>6. Ordered(t, N, Idle, scope)
  BY <1>1, <1>3, <1>5, FirstLeafInOrder
<1> QED
  BY <1>1, <1>3, <1>6 DEF InOrderTree

LEMMA InsertNextKeepsOrdered ==
  ASSUME WholeTree, InOrder(pages), NEW scope, InOrderTree(scope), [InsertNext]_vars
  PROVE  \E after : InOrderTree(after)'
<1>1. CASE UNCHANGED <<pages, root_page_id, todo>>
  BY <1>1 DEF InOrderTree
<1>2. CASE InsertStep
  <2>1. CASE NewRoot
    BY <2>1, NewRootKeepsOrdered
  <2>2. CASE ParentHasRoom
    BY <2>2, ParentHasRoomKeepsOrdered
  <2>3. CASE ParentSplits
    BY <2>3, ParentSplitsKeepsOrdered
  <2> QED
    BY <1>2, <2>1, <2>2, <2>3 DEF InsertStep
<1>3. ASSUME NEW k \in Keys, GetValue(k) \/ InsertRefused(k)
      PROVE  UNCHANGED <<pages, root_page_id, todo>>
  BY <1>3 DEF GetValue, InsertRefused
<1>4. ASSUME NEW k \in Keys, NEW v \in Values,
             StartNewTree(k, v) \/ InsertIntoLeaf(k, v) \/ SplitLeaf(k, v)
      PROVE  \E after : InOrderTree(after)'
  <2>1. CASE StartNewTree(k, v)
    BY <2>1, StartNewTreeKeepsOrdered
  <2>2. CASE InsertIntoLeaf(k, v)
    BY <2>2, InsertIntoLeafKeepsOrdered
  <2>3. CASE SplitLeaf(k, v)
    BY <2>3, SplitLeafKeepsOrdered
  <2> QED
    BY <1>4, <2>1, <2>2, <2>3
<1>5. CASE InsertNext
  BY <1>1, <1>2, <1>3, <1>4, <1>5 DEF InsertNext
<1>6. CASE UNCHANGED vars
  BY <1>1, <1>6 DEF vars
<1> QED
  BY <1>5, <1>6

-----------------------------------------------------------------------------
\* The least a leaf holds, unless it is the root; the old root just split is none any more.
HalfFull(store, root, call) ==
  \A p \in DOMAIN store :
    store[p].leaf /\ (p # root \/ (call.op = "insert" /\ p = call.old)) =>
      Len(store[p].array) >= LeafMax \div 2

LEMMA InsertNextKeepsHalfFull ==
  ASSUME WholeTree, InOrder(pages), NEW scope, InOrderTree(scope), [InsertNext]_vars,
         HalfFull(pages, root_page_id, todo)
  PROVE  HalfFull(pages', root_page_id', todo')
<1>1. CASE UNCHANGED <<pages, root_page_id, todo>>
  BY <1>1 DEF HalfFull
<1>2. PICK D, N, P : D = DOMAIN pages /\ N = NewPageId /\ P = pages[todo.old].parent
  OBVIOUS
<1>3. SoundTree(D)
  BY <1>2 DEF WholeTree
<1>4. Idle.op # "insert"
  BY DEF Idle
<1>5. CASE NewRoot
  <2>1. /\ DOMAIN pages' = DOMAIN pages \cup {N} /\ pages'[N].leaf = FALSE
        /\ \A p \in DOMAIN pages : Agree(pages, pages', p)
        /\ root_page_id' = N /\ todo' = Idle
        /\ todo.op = "insert" /\ todo.old = root_page_id
    BY <1>2, <1>3, <1>5, NewRootEffect
  <2>2. \A p \in DOMAIN pages : pages[p].leaf => Len(pages[p].array) >= LeafMax \div 2
    BY <2>1 DEF HalfFull
  <2> QED
    BY <2>1, <2>2 DEF HalfFull, Agree
<1>6. CASE ParentHasRoom
  <2>1. /\ DOMAIN pages' = DOMAIN pages
        /\ \A p \in DOMAIN pages \ {P} : Agree(pages, pages', p)
        /\ pages'[P].leaf = pages[P].leaf
        /\ root_page_id' = root_page_id /\ todo' = Idle
        /\ todo.op = "insert" /\ ~IsRootPage(todo.old)
    BY <1>2, <1>3, <1>6, ParentHasRoomEffect
  <2>2. pages[P].leaf = FALSE
    BY <1>2, <1>3, <2>1, ParentPlace DEF PlaceInParent
  <2> QED
    BY <1>4, <2>1, <2>2 DEF HalfFull, Agree
<1>7. CASE ParentSplits
  <2>1. PICK m : ParentCut(P, m, N)
    BY <1>2, <1>3, <1>7, ParentSplitsEffect
  <2>2. /\ DOMAIN pages' = DOMAIN pages \cup {N}
        /\ \A p \in DOMAIN pages \ {P} : Agree(pages, pages', p)
        /\ pages'[P].leaf = pages[P].leaf /\ pages'[N].leaf = FALSE
        /\ root_page_id' = root_page_id /\ todo'.old = P
        /\ todo.op = "insert" /\ ~IsRootPage(todo.old)
    BY <2>1 DEF ParentCut, SplitCall
  <2>3. pages[P].leaf = FALSE
    BY <1>2, <1>3, <2>2, ParentPlace DEF PlaceInParent
  <2> QED
    BY <2>2, <2>3 DEF HalfFull, Agree
<1>8. ASSUME NEW k \in Keys, NEW v \in Values, StartNewTree(k, v)
      PROVE  HalfFull(pages', root_page_id', todo')
  <2>1. DOMAIN pages' = {N} /\ root_page_id' = N /\ todo' = Idle
    BY <1>2, <1>8, StartNewTreeEffect DEF TreeBegun
  <2> QED
    BY <1>4, <2>1 DEF HalfFull
<1>9. ASSUME NEW k \in Keys, NEW v \in Values, InsertIntoLeaf(k, v)
      PROVE  HalfFull(pages', root_page_id', todo')
  <2>1. PICK leaf : LeafFor(leaf, scope, k) /\ LeafFilled(leaf, k, v)
    BY <1>9, InsertIntoLeafEffect
  <2>2. /\ DOMAIN pages' = DOMAIN pages
        /\ \A p \in DOMAIN pages \ {leaf} : Agree(pages, pages', p)
        /\ pages'[leaf].leaf = pages[leaf].leaf
        /\ Len(pages'[leaf].array) = Len(pages[leaf].array) + 1
        /\ Len(pages[leaf].array) \in Nat
        /\ root_page_id' = root_page_id /\ todo' = todo
    BY <2>1 DEF LeafFor, LeafFilled
  <2>3. LeafMax \div 2 \in Nat
    BY SizesAssumption
  <2>4. Len(pages[leaf].array) >= LeafMax \div 2 =>
          Len(pages'[leaf].array) >= LeafMax \div 2
    BY <2>2, <2>3
  <2> QED
    BY <2>2, <2>4 DEF HalfFull, Agree
<1>10. ASSUME NEW k \in Keys, NEW v \in Values, SplitLeaf(k, v)
       PROVE  HalfFull(pages', root_page_id', todo')
  <2>1. PICK leaf, m, key, M : LeafFor(leaf, scope, k) /\ LeafHalved(leaf, k, v, m, key, M)
    BY <1>10, SplitLeafEffect
  <2>2. PICK n : n = Len(pages[leaf].array)
    OBVIOUS
  <2>3. /\ DOMAIN pages' = DOMAIN pages \cup {M}
        /\ \A p \in DOMAIN pages \ {leaf} : Agree(pages, pages', p)
        /\ n \in Nat /\ n >= LeafMax /\ m = (n + 1) \div 2
        /\ Len(pages'[leaf].array) = m /\ Len(pages'[M].array) = n + 1 - m
        /\ root_page_id' = root_page_id /\ todo'.old = leaf
    BY <2>1, <2>2 DEF LeafFor, LeafHalved, SplitCall
  <2>4. m >= LeafMax \div 2 /\ n + 1 - m >= LeafMax \div 2
    BY <2>3, SizesAssumption
  <2>5. \A p \in DOMAIN pages \ {leaf} : p # root_page_id /\ pages[p].leaf =>
          Len(pages[p].array) >= LeafMax \div 2
    BY DEF HalfFull
  <2> QED
    BY <2>3, <2>4, <2>5 DEF HalfFull, Agree
<1>11. ASSUME NEW k \in Keys, GetValue(k) \/ InsertRefused(k)
       PROVE  UNCHANGED <<pages, root_page_id, todo>>
  BY <1>11 DEF GetValue, InsertRefused
<1>12. CASE InsertNext
  BY <1>1, <1>5, <1>6, <1>7, <1>8, <1>9, <1>10, <1>11, <1>12 DEF InsertNext, InsertStep
<1>13. CASE UNCHANGED vars
  BY <1>1, <1>13 DEF vars
<1> QED
  BY <1>12, <1>13

-----------------------------------------------------------------------------
(***************************************************************************)
(* The inductive invariant.                                                *)
(***************************************************************************)

\* What is always so while the index only grows; scope is there to be found.
GrowingShape(scope) ==
  /\ WholeTree
  /\ InOrder(pages)
  /\ InOrderTree(scope)
  /\ HalfFull(pages, root_page_id, todo)

GrowingInv == \E scope : GrowingShape(scope)

LEMMA InsertNextKeepsWhole ==
  ASSUME WholeTree, [InsertNext]_vars
  PROVE  WholeTree'
<1>1. PICK D : D = DOMAIN pages
  OBVIOUS
<1>2. SoundTree(D)
  BY <1>1 DEF WholeTree
<1>3. PICK U : U = D \cup (DOMAIN pages' \ DOMAIN pages) /\ SoundTree(U)'
  BY <1>2, InsertNextKeepsSound DEF GrownAfter
<1>4. U \subseteq DOMAIN pages'
  BY <1>3 DEF SoundTree, TreeShape, Levels
<1>5. U = DOMAIN pages'
  BY <1>1, <1>3, <1>4
<1> QED
  BY <1>3, <1>5 DEF WholeTree, SoundTree, CallShape

LEMMA InitGrowingInv == Init => GrowingInv
<1> SUFFICES ASSUME Init
             PROVE  GrowingInv
  OBVIOUS
<1>1. PICK scope : scope = [p \in {} |-> Nat]
  OBVIOUS
<1>2. DOMAIN pages = {} /\ root_page_id = INVALID_PAGE_ID /\ todo.op # "insert"
  BY DEF Init, Idle
<1>3. PICK T : SoundTree(T)
  BY InitIInv DEF IInv
<1>4. T = DOMAIN pages
  BY <1>2, <1>3 DEF SoundTree, TreeShape, RootOnTop
<1>5. WholeTree
  BY <1>3, <1>4 DEF WholeTree
<1>6. InOrder(pages) /\ HalfFull(pages, root_page_id, todo)
  BY <1>2 DEF InOrder, HalfFull
<1>7. scope \in [DOMAIN pages -> SUBSET Nat]
  BY <1>1, <1>2
<1>8. /\ Divided(pages, todo, scope) /\ LeavesFit(pages, scope)
      /\ InARow(pages, scope) /\ Linked(pages, scope)
  BY <1>2 DEF Divided, LeavesFit, InARow, Linked
<1>9. InOrderTree(scope)
  BY <1>2, <1>7, <1>8 DEF InOrderTree, Ordered, SplitAt
<1> QED
  BY <1>5, <1>6, <1>9 DEF GrowingInv, GrowingShape

LEMMA NextKeepsGrowingInv == GrowingInv /\ [InsertNext]_vars => GrowingInv'
<1> SUFFICES ASSUME NEW scope, GrowingShape(scope), [InsertNext]_vars
             PROVE  \E after : GrowingShape(after)'
  BY DEF GrowingInv
<1>1. /\ WholeTree /\ InOrder(pages) /\ InOrderTree(scope)
      /\ HalfFull(pages, root_page_id, todo)
  BY DEF GrowingShape
<1>2. WholeTree'
  BY <1>1, InsertNextKeepsWhole
<1>3. InOrder(pages')
  <2>1. PICK D : D = DOMAIN pages
    OBVIOUS
  <2>2. SoundTree(D)
    BY <1>1, <2>1 DEF WholeTree
  <2> QED
    BY <1>1, <2>2, InsertNextKeepsOrder
<1>4. PICK after : InOrderTree(after)'
  BY <1>1, InsertNextKeepsOrdered
<1>5. HalfFull(pages', root_page_id', todo')
  BY <1>1, InsertNextKeepsHalfFull
<1> QED
  BY <1>2, <1>3, <1>4, <1>5 DEF GrowingShape

\* In every state of a tree that only grows, every page has a scope: the separators
\* divide that of a page among its children, the keys of a leaf are in its own, the leaves
\* are in a row, linked in that order, and at least half full.
THEOREM GrowingInvariance == GrowingSpec => []GrowingInv
<1> QED
  BY InitGrowingInv, NextKeepsGrowingInv, PTL DEF GrowingSpec

-----------------------------------------------------------------------------
\* Between calls the tree is all there is.
LEMMA GrownTree ==
  ASSUME WholeTree, todo = Idle
  PROVE  InTree = DOMAIN pages
<1>1. PagesTyped /\ Pending = INVALID_PAGE_ID
  BY QuietCall DEF WholeTree, SoundTree
<1>2. PICK level : TreeShape(pages, root_page_id, INVALID_PAGE_ID, DOMAIN pages, level)
  BY <1>1 DEF WholeTree, SoundTree
<1> QED
  BY <1>1, <1>2, InTreeIsTheTree

LEMMA LeavesFollow == GrowingInv => LeavesAreHalfFull /\ KeysAreUnique
<1> SUFFICES ASSUME NEW scope, GrowingShape(scope), todo = Idle
             PROVE  /\ \A p \in InTree : pages[p].leaf =>
                         Size(p) >= IF p = root_page_id THEN 1 ELSE MinSize(p)
                    /\ \A p, q \in InTree \cap LeafPages : p # q => KeysOf(p) \cap KeysOf(q) = {}
  BY DEF GrowingInv, LeavesAreHalfFull, KeysAreUnique
<1>1. WholeTree /\ InOrderTree(scope) /\ HalfFull(pages, root_page_id, todo)
  BY DEF GrowingShape
<1>2. InTree = DOMAIN pages /\ PagesTyped
  BY <1>1, GrownTree, WholeTreeFacts
<1>3. /\ scope \in [DOMAIN pages -> SUBSET Nat]
      /\ LeavesFit(pages, scope) /\ InARow(pages, scope)
  BY <1>1 DEF InOrderTree, Ordered
<1>4. ASSUME NEW p \in DOMAIN pages, pages[p].leaf
      PROVE  Size(p) >= IF p = root_page_id THEN 1 ELSE MinSize(p)
  <2>1. CASE p = root_page_id
    <3>1. pages[p].array \in Seq(LeafPair) /\ pages[p].array # <<>>
      BY <1>2, <1>3, <1>4, PageKinds DEF LeavesFit
    <3>2. Len(pages[p].array) \in Nat \ {0}
      BY <3>1, LenProperties, EmptySeq
    <3> QED
      BY <2>1, <3>2 DEF Size
  <2>2. CASE p # root_page_id
    BY <1>1, <1>4, <2>2 DEF HalfFull, Size, MinSize, MaxSize
  <2> QED
    BY <2>1, <2>2
<1>5. ASSUME NEW p \in DOMAIN pages, NEW q \in DOMAIN pages, pages[p].leaf, pages[q].leaf, p # q
      PROVE  KeysOf(p) \cap KeysOf(q) = {}
  <2>1. Before(scope[p], scope[q]) \/ Before(scope[q], scope[p])
    BY <1>3, <1>5 DEF InARow
  <2>2. KeysOf(p) \subseteq scope[p] /\ KeysOf(q) \subseteq scope[q]
    BY <1>3, <1>5 DEF LeavesFit, KeysOf, PairsOf, Size
  <2>3. scope[p] \in SUBSET Nat
    BY <1>3
  <2> QED
    BY <2>1, <2>2, <2>3 DEF Before
<1> QED
  BY <1>2, <1>4, <1>5 DEF LeafPages

\* Leaves of a tree that only grows are at least half full between calls, but for the
\* root, which has a pair: no key is there twice for a split to drop.
THEOREM GrownLeavesAreHalfFull == GrowingSpec => []LeavesAreHalfFull
<1> QED
  BY GrowingInvariance, LeavesFollow, PTL

\* While the tree only grows, no key is in two leaves of it: Insert looks into the only leaf that
\* can hold the key.
THEOREM GrownKeysAreUnique == GrowingSpec => []KeysAreUnique
<1> QED
  BY GrowingInvariance, LeavesFollow, PTL

-----------------------------------------------------------------------------
(***************************************************************************)
(* Separators, and the chain of leaves.                                    *)
(***************************************************************************)

\* What is below a page has a part of its scope.
LEMMA BelowInScope ==
  ASSUME WholeTree, NEW scope, InOrderTree(scope), todo = Idle, NEW p \in DOMAIN pages
  PROVE  Below(p) \subseteq {q \in DOMAIN pages : scope[q] \subseteq scope[p]}
<1> DEFINE n == Cardinality(DOMAIN pages)
           S == {q \in DOMAIN pages : scope[q] \subseteq scope[p]}
           X == SUBSET S
           Step(above) == above \cup UNION {ChildrenOf(q) : q \in above}
           g == [y \in (1 .. n) \X X |-> Step(y[2])]
           Reached == CHOOSE f : f = [i \in 0 .. n |-> IF i = 0 THEN {p} ELSE Step(f[i - 1])]
<1>1. n \in Nat
  BY WholeTreeFacts, FS_CardinalityType DEF PagesTyped
<1>2. Below(p) = Reached[n]
  BY DEF Below
<1>3. ASSUME NEW q \in S, NEW c \in ChildrenOf(q)
      PROVE  c \in S
  <2>1. PICK array, R : array = pages[q].array /\ R = scope[q]
    OBVIOUS
  <2>2. ~pages[q].leaf /\ q \in DOMAIN pages /\ R \subseteq scope[p]
    BY <1>3, <2>1 DEF ChildrenOf
  <2>3. PICK i \in 1 .. Len(array) : c = array[i].value
    BY <1>3, <2>1, <2>2 DEF ChildrenOf, Children
  <2>4. c \in DOMAIN pages
    BY <2>1, <2>2, <2>3, WholeTreeFacts
  <2>5. Covered(todo, scope, c) = Share(array, R, i)
    BY <2>1, <2>2, <2>3 DEF InOrderTree, Ordered, Divided
  <2>6. scope[c] = Share(array, R, i)
    BY <2>5 DEF Covered, Idle
  <2> QED
    BY <2>2, <2>4, <2>6 DEF Share
<1>4. ASSUME NEW above \in X
      PROVE  Step(above) \in X
  BY <1>3
<1>5. {p} \in X
  OBVIOUS
<1> HIDE DEF n, Step, S
<1>6. g \in [(1 .. n) \X X -> X]
  BY <1>4
<1>7. \A i \in 1 .. n : \A above \in X : g[<<i, above>>] = Step(above)
  OBVIOUS
<1>8. Reached = CHOOSE f : f = [i \in 0 .. n |-> IF i = 0 THEN {p} ELSE Step(f[i - 1])]
  OBVIOUS
<1> HIDE DEF X, g, Reached
<1>9. PICK h : Course(h, X, {p}, n, g)
  BY <1>1, <1>5, <1>6, CourseExists
<1>10. \A i \in 1 .. n : h[i] = Step(h[i - 1])
  <2> TAKE i \in 1 .. n
  <2>1. i - 1 \in 0 .. n
    BY <1>1
  <2>2. h[i - 1] \in X
    BY <1>9, <2>1 DEF Course
  <2> QED
    BY <1>7, <1>9, <2>2 DEF Course
<1>11. h = [i \in 0 .. n |-> IF i = 0 THEN {p} ELSE Step(h[i - 1])]
  BY <1>9, <1>10 DEF Course
<1>12. Reached = [i \in 0 .. n |-> IF i = 0 THEN {p} ELSE Step(Reached[i - 1])]
  BY <1>8, <1>11
<1>13. Reached[0] = {p} /\ \A i \in 1 .. n : Reached[i] = Step(Reached[i - 1])
  <2>1. \A i \in 0 .. n : Reached[i] = IF i = 0 THEN {p} ELSE Step(Reached[i - 1])
    BY <1>12
  <2>2. 0 \in 0 .. n /\ \A i \in 1 .. n : i \in 0 .. n /\ i # 0
    BY <1>1
  <2> QED
    BY <2>1, <2>2
<1> DEFINE Good == {i \in 0 .. n : Reached[i] \in X}
           id == [i \in 0 .. n |-> i]
<1>14. id[0] \in Good
  BY <1>1, <1>5, <1>13
<1>15. \A i \in 1 .. n : id[i - 1] \in Good => id[i] \in Good
  <2> SUFFICES ASSUME NEW i \in 1 .. n, id[i - 1] \in Good
               PROVE  id[i] \in Good
    OBVIOUS
  <2>1. i - 1 \in 0 .. n /\ id[i - 1] = i - 1 /\ i \in 0 .. n /\ id[i] = i
    BY <1>1
  <2>2. Reached[i - 1] \in X /\ Reached[i] = Step(Reached[i - 1])
    BY <1>13, <2>1
  <2>3. Reached[i] \in X
    BY <1>4, <2>2
  <2> QED
    BY <2>1, <2>3
<1>16. \A i \in 0 .. n : id[i] \in Good
  <2> HIDE DEF id, Good
  <2> QED
    BY <1>1, <1>14, <1>15, UpToInduction
<1>17. Reached[n] \in X
  <2>1. n \in 0 .. n /\ id[n] = n
    BY <1>1
  <2> QED
    BY <1>16, <2>1
<1> QED
  BY <1>2, <1>17 DEF X, S

LEMMA SeparatorsFollow == GrowingInv => SeparatorsSeparate
<1> SUFFICES ASSUME NEW scope, GrowingShape(scope), todo = Idle,
                    NEW p \in InTree \ LeafPages, NEW i \in 2 .. Size(p)
             PROVE  /\ \A k \in KeysBelow(pages[p].array[i - 1].value) : k < pages[p].array[i].key
                    /\ \A k \in KeysBelow(pages[p].array[i].value) : pages[p].array[i].key <= k
  BY DEF GrowingInv, SeparatorsSeparate
<1>1. WholeTree /\ InOrderTree(scope)
  BY DEF GrowingShape
<1>2. p \in DOMAIN pages /\ ~pages[p].leaf
  BY <1>1, GrownTree DEF LeafPages
<1>3. PICK array, R : array = pages[p].array /\ R = scope[p]
  OBVIOUS
<1>4. /\ i \in 2 .. Len(array) /\ i - 1 \in 1 .. Len(array) /\ i \in 1 .. Len(array)
      /\ i > 1 /\ i - 1 < Len(array) /\ i - 1 + 1 = i
  <2>1. Size(p) \in Nat /\ Size(p) = Len(array)
    BY <1>1, <1>2, <1>3, WholeTreeFacts, PageKinds DEF Size
  <2> QED
    BY <2>1
<1>5. ASSUME NEW j \in 1 .. Len(array), NEW k \in KeysBelow(array[j].value)
      PROVE  k \in Share(array, R, j)
  <2>1. PICK c : c = array[j].value
    OBVIOUS
  <2>2. c \in DOMAIN pages
    BY <1>1, <1>2, <1>3, <2>1, WholeTreeFacts
  <2>3. scope[c] = Share(array, R, j)
    <3>1. Covered(todo, scope, c) = Share(array, R, j)
      BY <1>1, <1>2, <1>3, <2>1 DEF InOrderTree, Ordered, Divided
    <3> QED
      BY <3>1 DEF Covered, Idle
  <2>4. PICK q \in Below(c) \cap LeafPages : k \in KeysOf(q)
    BY <1>5, <2>1 DEF KeysBelow
  <2>5. q \in DOMAIN pages /\ pages[q].leaf /\ scope[q] \subseteq scope[c]
    BY <1>1, <2>2, <2>4, BelowInScope DEF LeafPages
  <2>6. k \in scope[q]
    BY <1>1, <2>4, <2>5 DEF InOrderTree, Ordered, LeavesFit, KeysOf, PairsOf, Size
  <2> QED
    BY <2>3, <2>5, <2>6
<1>6. /\ \A k \in Share(array, R, i - 1) : k < array[i].key
      /\ \A k \in Share(array, R, i) : array[i].key <= k
  BY <1>4 DEF Share
<1> QED
  BY <1>3, <1>4, <1>5, <1>6

\* Whatever splits, and however far up it goes, a separator stays greater than every key
\* left of it and not greater than any key right of it, through the whole height.
THEOREM GrownSeparatorsSeparate == GrowingSpec => []SeparatorsSeparate
<1> QED
  BY GrowingInvariance, SeparatorsFollow, PTL

\* Between calls, of two leaves the one whose scope is behind has the greater keys.
LEMMA ScopesTellLeaves ==
  ASSUME NEW scope, GrowingShape(scope), todo = Idle
  PROVE  /\ InTree \cap LeafPages = LeavesOf(pages)
         /\ \A p, q \in LeavesOf(pages) :
              q \in LeavesBehind(p) <=> p # q /\ Before(scope[p], scope[q])
<1>1. WholeTree /\ InOrderTree(scope)
  BY DEF GrowingShape
<1>2. InTree \cap LeafPages = LeavesOf(pages)
  BY <1>1, GrownTree DEF LeafPages, LeavesOf
<1>3. /\ scope \in [DOMAIN pages -> SUBSET Nat]
      /\ LeavesFit(pages, scope) /\ InARow(pages, scope)
  BY <1>1 DEF InOrderTree, Ordered
<1>4. ASSUME NEW p \in LeavesOf(pages)
      PROVE  KeysOf(p) \subseteq scope[p] /\ KeysOf(p) # {}
  <2>1. p \in DOMAIN pages /\ pages[p].leaf
    BY DEF LeavesOf
  <2>2. KeysOf(p) \subseteq scope[p]
    BY <1>3, <2>1 DEF LeavesFit, KeysOf, PairsOf, Size
  <2>3. Len(pages[p].array) \in Nat /\ pages[p].array # <<>> /\ pages[p].array \in Seq(LeafPair)
    BY <1>1, <1>3, <2>1, WholeTreeFacts, PageKinds DEF LeavesFit, Size
  <2>4. 1 \in 1 .. Size(p)
    BY <2>3, EmptySeq DEF Size
  <2> QED
    BY <2>2, <2>4 DEF KeysOf, PairsOf
<1>5. ASSUME NEW p \in LeavesOf(pages), NEW q \in LeavesOf(pages)
      PROVE  q \in LeavesBehind(p) <=> p # q /\ Before(scope[p], scope[q])
  <2>1. q \in LeavesBehind(p) <=> p # q /\ Before(KeysOf(p), KeysOf(q))
    BY <1>2 DEF LeavesBehind, Before
  <2>2. Before(scope[p], scope[q]) => Before(KeysOf(p), KeysOf(q))
    BY <1>4 DEF Before
  <2>3. ASSUME p # q, Before(KeysOf(p), KeysOf(q))
        PROVE  Before(scope[p], scope[q])
    <3>1. PICK X, Y, A, B : X = scope[p] /\ Y = scope[q] /\ A = KeysOf(p) /\ B = KeysOf(q)
      OBVIOUS
    <3>2. Before(X, Y) \/ Before(Y, X)
      BY <1>3, <2>3, <3>1 DEF InARow, LeavesOf
    <3>3. X \in SUBSET Nat /\ Y \in SUBSET Nat
      BY <1>3, <3>1 DEF LeavesOf
    <3>4. A \subseteq X /\ B \subseteq Y /\ A # {} /\ B # {} /\ Before(A, B)
      BY <1>4, <2>3, <3>1
    <3>5. Before(X, Y)
      BY ONLY <3>2, <3>3, <3>4, BeforeWhole
    <3> QED
      BY <3>1, <3>5
  <2> QED
    BY <2>1, <2>2, <2>3
<1> QED
  BY <1>2, <1>5

LEMMA ChainFollows == GrowingInv => LeafChainIsInOrder
<1> SUFFICES ASSUME NEW scope, GrowingShape(scope), todo = Idle, NEW p \in InTree \cap LeafPages
             PROVE  /\ \A q \in InTree \cap LeafPages :
                         p # q => q \in LeavesBehind(p) \/ p \in LeavesBehind(q)
                    /\ IF LeavesBehind(p) = {} THEN pages[p].next = INVALID_PAGE_ID
                       ELSE /\ pages[p].next \in LeavesBehind(p)
                            /\ LeavesBehind(p) \ {pages[p].next}
                                 \subseteq LeavesBehind(pages[p].next)
  BY DEF GrowingInv, LeafChainIsInOrder
<1>1. PICK L, next : L = LeavesOf(pages) /\ next = pages[p].next
  OBVIOUS
<1>2. /\ InTree \cap LeafPages = L /\ p \in L
      /\ \A x, y \in L : y \in LeavesBehind(x) <=> x # y /\ Before(scope[x], scope[y])
      /\ \A x : LeavesBehind(x) \subseteq L
  BY <1>1, ScopesTellLeaves DEF LeavesBehind
<1>3. InOrderTree(scope) /\ L \subseteq DOMAIN pages /\ \A x \in L : pages[x].leaf
  BY <1>1 DEF GrowingShape, LeavesOf
<1>4. /\ scope \in [DOMAIN pages -> SUBSET Nat]
      /\ InARow(pages, scope) /\ Linked(pages, scope)
  BY <1>3 DEF InOrderTree, Ordered
<1>5. ASSUME NEW q \in L, p # q
      PROVE  q \in LeavesBehind(p) \/ p \in LeavesBehind(q)
  BY <1>2, <1>3, <1>4, <1>5 DEF InARow
<1>6. LinkedFrom(pages, scope, p)
  BY <1>2, <1>3, <1>4 DEF Linked
<1>7. ASSUME next # INVALID_PAGE_ID
      PROVE  next \in L /\ Before(scope[p], scope[next]) /\ p # next
  <2>1. next \in DOMAIN pages /\ Follows(pages, scope, p, next)
    BY <1>1, <1>2, <1>3, <1>6, <1>7 DEF LinkedFrom
  <2>2. next \in L /\ Before(scope[p], scope[next])
    BY <1>1, <2>1 DEF Follows, LeavesOf
  <2>3. p # next
    <3>1. WholeTree /\ InOrderTree(scope)
      BY DEF GrowingShape
    <3>2. scope[p] # {} /\ scope[p] \in SUBSET Nat
      BY <1>2, <1>3, <1>4, <3>1, LeafScopes
    <3>3. ~Before(scope[p], scope[p])
      BY <3>2, NotBeforeItself
    <3> QED
      BY <2>2, <3>3
  <2> QED
    BY <2>2, <2>3
<1>8. ASSUME NEW q \in LeavesBehind(p)
      PROVE  next # INVALID_PAGE_ID /\ (q = next \/ Before(scope[next], scope[q])) /\ q \in L
  <2>1. q \in L /\ Before(scope[p], scope[q])
    BY <1>2
  <2>2. Follows(pages, scope, p, q)
    BY <1>3, <2>1 DEF Follows
  <2> QED
    BY <1>1, <1>2, <1>3, <1>6, <2>1, <2>2 DEF LinkedFrom
<1>9. CASE LeavesBehind(p) = {}
  BY <1>1, <1>2, <1>5, <1>7, <1>9
<1>10. CASE LeavesBehind(p) # {}
  <2>1. next \in LeavesBehind(p)
    BY <1>2, <1>7, <1>8, <1>10
  <2>2. LeavesBehind(p) \ {next} \subseteq LeavesBehind(next)
    BY <1>2, <1>7, <1>8
  <2> QED
    BY <1>1, <1>2, <1>5, <1>10, <2>1, <2>2
<1> QED
  BY <1>9, <1>10

\* Between insertions the sibling pointers lead through all leaves in the order of their keys.
THEOREM GrownLeafChainIsInOrder == GrowingSpec => []LeafChainIsInOrder
<1> QED
  BY GrowingInvariance, ChainFollows, PTL

-----------------------------------------------------------------------------
(***************************************************************************)
(* The abstract index.                                                     *)
(***************************************************************************)

\* The map a set of pairs is.
MapOf(S) == [k \in {pair.key : pair \in S} |-> (CHOOSE pair \in S : pair.key = k).value]

KeysTellPairs(S) == \A e, f \in S : e.key = f.key => e = f

StoredIn(store) == UNION {PairsIn(store[p].array) : p \in LeavesOf(store)}

LEMMA ContentsMapped ==
  /\ Stored = StoredIn(pages) /\ Stored' = StoredIn(pages')
  /\ Contents = MapOf(Stored) /\ Contents' = MapOf(Stored')
<1>1. Stored = StoredIn(pages) /\ Stored' = StoredIn(pages')
  BY DEF Stored, StoredIn, PairsOf, PairsIn, LeafPages, LeavesOf, Size
<1>2. Contents = MapOf(Stored) /\ Contents' = MapOf(Stored')
  BY DEF Contents, MapOf
<1> QED
  BY <1>1, <1>2

LEMMA MapFinds ==
  ASSUME NEW S, KeysTellPairs(S), NEW e \in S
  PROVE  e.key \in DOMAIN MapOf(S) /\ MapOf(S)[e.key] = e.value
<1>1. PICK f : f = CHOOSE pair \in S : pair.key = e.key
  OBVIOUS
<1>2. f \in S /\ f.key = e.key
  BY <1>1
<1>3. f = e
  BY <1>2 DEF KeysTellPairs
<1> QED
  BY <1>1, <1>3 DEF MapOf

LEMMA MapGrows ==
  ASSUME NEW S, KeysTellPairs(S), NEW k, NEW v, \A e \in S : e.key # k
  PROVE  MapOf(S \cup {Pair(k, v)}) = Put(MapOf(S), k, v)
<1>1. PICK U, old, new : U = S \cup {Pair(k, v)} /\ old = MapOf(S) /\ new = MapOf(U)
  OBVIOUS
<1>2. Pair(k, v).key = k /\ Pair(k, v).value = v
  BY DEF Pair
<1>3. KeysTellPairs(U)
  BY <1>1, <1>2 DEF KeysTellPairs
<1>4. DOMAIN old = {e.key : e \in S} /\ DOMAIN new = {e.key : e \in U}
  BY <1>1 DEF MapOf
<1>5. DOMAIN new = DOMAIN old \cup {k}
  BY <1>1, <1>2, <1>4
<1>6. ASSUME NEW x \in DOMAIN new
      PROVE  new[x] = IF x = k THEN v ELSE old[x]
  <2>1. PICK e \in U : e.key = x
    BY <1>4
  <2>2. new[x] = e.value
    BY <1>1, <1>3, <2>1, MapFinds
  <2>3. CASE x = k
    BY <1>1, <1>2, <2>1, <2>2, <2>3
  <2>4. CASE x # k
    <3>1. e \in S
      BY <1>1, <1>2, <2>1, <2>4
    <3>2. old[x] = e.value
      BY <1>1, <2>1, <3>1, MapFinds
    <3> QED
      BY <2>2, <2>4, <3>2
  <2> QED
    BY <2>3, <2>4
<1>7. new = [x \in DOMAIN new |-> new[x]]
  BY <1>1 DEF MapOf
<1>8. new = [x \in DOMAIN old \cup {k} |-> IF x = k THEN v ELSE old[x]]
  BY <1>5, <1>6, <1>7
<1> QED
  BY <1>1, <1>8 DEF Put

\* Every pair stands in one leaf, with a key no other pair has.
LEMMA GrownPairs ==
  ASSUME NEW scope, GrowingShape(scope)
  PROVE  KeysTellPairs(Stored)
<1>1. WholeTree /\ InOrder(pages) /\ InOrderTree(scope)
  BY DEF GrowingShape
<1>2. /\ scope \in [DOMAIN pages -> SUBSET Nat]
      /\ LeavesFit(pages, scope) /\ InARow(pages, scope)
  BY <1>1 DEF InOrderTree, Ordered
<1>3. ASSUME NEW e \in Stored, NEW f \in Stored, e.key = f.key
      PROVE  e = f
  <2>1. PICK p \in DOMAIN pages : pages[p].leaf /\ e \in PairsIn(pages[p].array)
    BY ContentsMapped DEF StoredIn, LeavesOf
  <2>2. PICK q \in DOMAIN pages : pages[q].leaf /\ f \in PairsIn(pages[q].array)
    BY ContentsMapped DEF StoredIn, LeavesOf
  <2>3. e.key \in scope[p] /\ f.key \in scope[q]
    BY <1>2, <2>1, <2>2 DEF LeavesFit, PairsIn
  <2>4. p = q
    <3>1. e.key \in Nat /\ ~(e.key < e.key)
      BY <1>2, <2>3
    <3>2. ~Before(scope[p], scope[q]) /\ ~Before(scope[q], scope[p])
      BY <1>3, <2>3, <3>1 DEF Before
    <3> QED
      BY <1>2, <2>1, <2>2, <3>2 DEF InARow
  <2>5. PICK array : array = pages[p].array
    OBVIOUS
  <2>6. PICK i \in 1 .. Len(array), j \in 1 .. Len(array) : e = array[i] /\ f = array[j]
    BY <2>1, <2>2, <2>4, <2>5 DEF PairsIn
  <2>7. Ascending(array)
    BY <1>1, <2>1, <2>5 DEF InOrder
  <2>8. e.key \in Nat /\ ~(e.key < e.key)
    BY <1>2, <2>3
  <2>9. ~(i < j) /\ ~(j < i)
    BY <1>3, <2>6, <2>7, <2>8 DEF Ascending
  <2>10. i = j
    BY <2>9
  <2> QED
    BY <2>6, <2>10
<1> QED
  BY <1>3 DEF KeysTellPairs

\* A lookup finds what is stored.
LEMMA FoundIsStored ==
  ASSUME NEW scope, GrowingShape(scope), todo = Idle, NEW k \in Keys
  PROVE  /\ Found(k) <=> k \in DOMAIN Contents
         /\ Found(k) => ValueOf(pages[FindLeafPage(k)].array, k) = Contents[k]
<1>1. WholeTree /\ InOrder(pages) /\ InOrderTree(scope) /\ KeysTellPairs(Stored)
  BY GrownPairs DEF GrowingShape
<1>2. /\ DOMAIN Contents = {e.key : e \in Stored}
      /\ \A e \in Stored : Contents[e.key] = e.value
      /\ Stored = StoredIn(pages)
  <2>1. Contents = MapOf(Stored) /\ Stored = StoredIn(pages)
    BY ContentsMapped
  <2>2. DOMAIN MapOf(Stored) = {e.key : e \in Stored}
    BY DEF MapOf
  <2>3. \A e \in Stored : MapOf(Stored)[e.key] = e.value
    BY <1>1, MapFinds
  <2> QED
    BY <2>1, <2>2, <2>3
<1>3. CASE IsEmpty
  <2>1. DOMAIN pages = {}
    BY <1>1, <1>3, WholeTreeFacts DEF IsEmpty
  <2>2. Stored = {}
    BY <1>2, <2>1 DEF StoredIn, LeavesOf
  <2> QED
    BY <1>2, <1>3, <2>2 DEF Found
<1>4. CASE ~IsEmpty
  <2>1. PICK leaf, array : leaf = FindLeafPage(k) /\ array = pages[leaf].array
    OBVIOUS
  <2>2. LeafFor(leaf, scope, k)
    BY <1>1, <1>4, <2>1, SearchedLeaf
  <2>3. /\ leaf \in DOMAIN pages /\ pages[leaf].leaf /\ k \in scope[leaf]
        /\ array \in Seq(LeafPair) /\ Ascending(array)
    BY <2>1, <2>2 DEF LeafFor
  <2>4. Found(k) <=> Holds(array, k)
    BY <1>4, <2>1 DEF Found
  <2>5. ASSUME Holds(array, k)
        PROVE  k \in DOMAIN Contents /\ ValueOf(array, k) = Contents[k]
    <3>1. PICK i : i = LowerBound(array, k)
      OBVIOUS
    <3>2. i \in 1 .. Len(array)
      BY <2>3, <2>5, <3>1, HeldPair
    <3>3. array[i].key = k /\ ValueOf(array, k) = array[i].value
      BY <2>5, <3>1 DEF Holds, ValueOf
    <3>4. array[i] \in Stored
      BY <1>2, <2>1, <2>3, <3>2 DEF StoredIn, LeavesOf, PairsIn
    <3> QED
      BY <1>2, <3>3, <3>4
  <2>6. ASSUME k \in DOMAIN Contents
        PROVE  Holds(array, k)
    <3>1. PICK e \in Stored : e.key = k
      BY <1>2, <2>6
    <3>2. PICK p \in DOMAIN pages : pages[p].leaf /\ e \in PairsIn(pages[p].array)
      BY <1>2 DEF StoredIn, LeavesOf
    <3>3. /\ scope \in [DOMAIN pages -> SUBSET Nat]
          /\ LeavesFit(pages, scope) /\ InARow(pages, scope)
      BY <1>1 DEF InOrderTree, Ordered
    <3>4. k \in scope[p]
      BY <3>1, <3>2, <3>3 DEF LeavesFit, PairsIn
    <3>5. p = leaf
      <4>1. k \in Nat /\ ~(k < k)
        BY <2>3, <3>3
      <4>2. ~Before(scope[p], scope[leaf]) /\ ~Before(scope[leaf], scope[p])
        BY <2>3, <3>4, <4>1 DEF Before
      <4> QED
        BY <2>3, <3>2, <3>3, <4>2 DEF InARow
    <3>6. \E i \in 1 .. Len(array) : array[i].key = k
      BY <2>1, <3>1, <3>2, <3>5 DEF PairsIn
    <3>7. (\A x \in LeafPair : x.key \in Int) /\ k \in Int
      BY LeafPairFacts, KeysAssumption
    <3> QED
      BY <2>3, <3>6, <3>7, HoldsKey
  <2> QED
    BY <2>1, <2>4, <2>5, <2>6
<1> QED
  BY <1>3, <1>4

\* What an insertion that succeeds adds.
LEMMA InsertionStores ==
  ASSUME NEW scope, GrowingShape(scope), NEW k \in Keys, NEW v \in Values,
         StartNewTree(k, v) \/ InsertIntoLeaf(k, v) \/ SplitLeaf(k, v)
  PROVE  Stored' = Stored \cup {Pair(k, v)}
<1>1. WholeTree /\ InOrder(pages) /\ InOrderTree(scope)
  BY DEF GrowingShape
<1>2. Stored = StoredIn(pages) /\ Stored' = StoredIn(pages')
  BY ContentsMapped
<1>3. PICK e : e = Pair(k, v)
  OBVIOUS
<1>4. CASE StartNewTree(k, v)
  <2>1. PICK N : TreeBegun(k, v, N)
    BY <1>1, <1>4, StartNewTreeEffect
  <2>2. /\ DOMAIN pages = {} /\ DOMAIN pages' = {N} /\ pages'[N].leaf
        /\ pages'[N].array = <<e>>
    BY <1>3, <2>1 DEF TreeBegun
  <2>3. PairsIn(<<e>>) = {e}
    BY DEF PairsIn
  <2>4. StoredIn(pages) = {} /\ StoredIn(pages') = {e}
    BY <2>2, <2>3 DEF StoredIn, LeavesOf
  <2> QED
    BY <1>2, <1>3, <2>4
<1>5. CASE InsertIntoLeaf(k, v)
  <2>1. PICK leaf : LeafFor(leaf, scope, k) /\ LeafFilled(leaf, k, v)
    BY <1>1, <1>5, InsertIntoLeafEffect
  <2>2. leaf \in DOMAIN pages /\ pages[leaf].leaf
    BY <2>1 DEF LeafFor
  <2>3. /\ DOMAIN pages' = DOMAIN pages
        /\ \A p \in DOMAIN pages \ {leaf} :
             pages'[p].leaf = pages[p].leaf /\ pages'[p].array = pages[p].array
        /\ pages'[leaf].leaf = pages[leaf].leaf
        /\ PairsIn(pages'[leaf].array) = PairsIn(pages[leaf].array) \cup {e}
    BY <1>3, <2>1 DEF LeafFilled, Agree
  <2>4. LeavesOf(pages') = LeavesOf(pages) /\ leaf \in LeavesOf(pages)
    BY <2>2, <2>3 DEF LeavesOf
  <2>5. \A p \in LeavesOf(pages) : p # leaf => pages'[p].array = pages[p].array
    BY <2>3 DEF LeavesOf
  <2>6. StoredIn(pages') = StoredIn(pages) \cup {e}
    BY <2>3, <2>4, <2>5 DEF StoredIn
  <2> QED
    BY <1>2, <1>3, <2>6
<1>6. CASE SplitLeaf(k, v)
  <2>1. PICK leaf, m, key, N : LeafFor(leaf, scope, k) /\ LeafHalved(leaf, k, v, m, key, N)
    BY <1>1, <1>6, SplitLeafEffect
  <2>2. leaf \in DOMAIN pages /\ pages[leaf].leaf
    BY <2>1 DEF LeafFor
  <2>3. /\ DOMAIN pages' = DOMAIN pages \cup {N} /\ N \notin DOMAIN pages
        /\ \A p \in DOMAIN pages \ {leaf} :
             pages'[p].leaf = pages[p].leaf /\ pages'[p].array = pages[p].array
        /\ pages'[leaf].leaf = pages[leaf].leaf /\ pages'[N].leaf = TRUE
        /\ PairsIn(pages'[leaf].array) \cup PairsIn(pages'[N].array) =
             PairsIn(pages[leaf].array) \cup {e}
    BY <1>3, <2>1 DEF LeafHalved, Agree
  <2>4. LeavesOf(pages') = LeavesOf(pages) \cup {N} /\ leaf \in LeavesOf(pages)
        /\ N \notin LeavesOf(pages)
    BY <2>2, <2>3 DEF LeavesOf
  <2>5. \A p \in LeavesOf(pages) : p # leaf => pages'[p].array = pages[p].array
    BY <2>3 DEF LeavesOf
  <2>6. StoredIn(pages') = StoredIn(pages) \cup {e}
    <3>1. \A x : x \in StoredIn(pages') <=>
            \/ x \in PairsIn(pages'[leaf].array) \cup PairsIn(pages'[N].array)
            \/ \E p \in LeavesOf(pages) \ {leaf} : x \in PairsIn(pages[p].array)
      BY <2>4, <2>5 DEF StoredIn
    <3>2. \A x : x \in StoredIn(pages) <=>
            \/ x \in PairsIn(pages[leaf].array)
            \/ \E p \in LeavesOf(pages) \ {leaf} : x \in PairsIn(pages[p].array)
      BY <2>4 DEF StoredIn
    <3> QED
      BY <2>3, <3>1, <3>2
  <2> QED
    BY <1>2, <1>3, <2>6
<1> QED
  BY <1>4, <1>5, <1>6

LEMMA IndexStep ==
  ASSUME GrowingInv, [InsertNext]_vars
  PROVE  [Index!Next]_(Index!vars)
<1>1. PICK scope : GrowingShape(scope)
  BY DEF GrowingInv
<1>2. ASSUME pages' = pages
      PROVE  Contents' = Contents
  BY <1>2, ContentsMapped
<1>3. ASSUME NEW k \in Keys, GetValue(k)
      PROVE  Index!GetValue(k)
  <2>1. /\ todo = Idle /\ pages' = pages
        /\ result' = IF Found(k) THEN ValueOf(pages[FindLeafPage(k)].array, k) ELSE Absent
    BY <1>3 DEF GetValue
  <2>2. result' = IF k \in DOMAIN Contents THEN Contents[k] ELSE Absent
    BY <1>1, <2>1, FoundIsStored
  <2> QED
    BY <1>2, <2>1, <2>2 DEF Index!GetValue
<1>4. ASSUME NEW k \in Keys, InsertRefused(k)
      PROVE  Index!InsertFails
  BY <1>2, <1>4 DEF InsertRefused, Index!InsertFails
<1>5. ASSUME NEW k \in Keys, NEW v \in Values,
             StartNewTree(k, v) \/ InsertIntoLeaf(k, v) \/ SplitLeaf(k, v)
      PROVE  Index!Insert(k, v)
  <2>1. todo = Idle /\ ~Found(k) /\ result' = TRUE
    BY <1>5 DEF StartNewTree, InsertIntoLeaf, SplitLeaf, Found
  <2>2. k \notin DOMAIN Contents
    BY <1>1, <2>1, FoundIsStored
  <2>3. /\ Stored' = Stored \cup {Pair(k, v)} /\ KeysTellPairs(Stored)
        /\ Contents = MapOf(Stored) /\ Contents' = MapOf(Stored')
    BY <1>1, <1>5, InsertionStores, GrownPairs, ContentsMapped
  <2>4. \A e \in Stored : e.key # k
    BY <2>2, <2>3 DEF MapOf
  <2>5. MapOf(Stored \cup {Pair(k, v)}) = Put(MapOf(Stored), k, v)
    BY <2>3, <2>4, MapGrows
  <2>6. Contents' = Put(Contents, k, v)
    BY <2>3, <2>5
  <2> QED
    BY <2>1, <2>2, <2>6 DEF Index!Insert, Index!Put, Put
<1>6. CASE InsertStep
  <2>1. PICK D : D = DOMAIN pages
    OBVIOUS
  <2>2. SoundTree(D)
    BY <1>1, <2>1 DEF GrowingShape, WholeTree
  <2>3. Stored' = Stored
    BY <1>6, <2>2, InsertStepsKeepPairs DEF PairsKept
  <2>4. Contents' = Contents
    BY <2>3, ContentsMapped
  <2>5. result' = result
    BY <1>6 DEF InsertStep, NewRoot, ParentHasRoom, ParentSplits
  <2> QED
    BY <2>4, <2>5 DEF Index!vars
<1>7. CASE UNCHANGED vars
  BY <1>2, <1>7 DEF vars, Index!vars
<1> QED
  BY <1>3, <1>4, <1>5, <1>6, <1>7 DEF InsertNext, Index!Next

\* The index is a map while it only grows: an insertion adds its pair, unless the key is
\* there, a lookup finds exactly what was inserted, and the steps that restructure the
\* tree change nothing.
THEOREM GrowingTreeIsIndex == GrowingSpec => ImplementsIndex
<1>1. Init => Index!Init
  <2> SUFFICES ASSUME Init
               PROVE  Index!Init
    OBVIOUS
  <2>1. pages = <<>> /\ result = Absent
    BY DEF Init
  <2>2. DOMAIN <<>> = {}
    OBVIOUS
  <2>3. Stored = {}
    BY <2>1, <2>2 DEF Stored, LeafPages
  <2>4. Contents = [k \in {} |-> (CHOOSE pair \in Stored : pair.key = k).value]
    BY <2>3 DEF Contents
  <2>5. Contents = <<>>
    BY <2>4
  <2> QED
    BY <2>1, <2>5 DEF Index!Init
<1>2. GrowingInv /\ [InsertNext]_vars => [Index!Next]_(Index!vars)
  BY IndexStep
<1> QED
  BY <1>1, <1>2, GrowingInvariance, PTL DEF GrowingSpec, ImplementsIndex, Index!Spec

-----------------------------------------------------------------------------
(***************************************************************************)
(* Where a scan begins.                                                    *)
(***************************************************************************)

\* The linear search.
LEMMA FirstNotLessFound ==
  ASSUME NEW S, NEW array \in Seq(S), NEW k, NEW i, i = FirstNotLess(array, k)
  PROVE  /\ i = 0 => \A j \in 1 .. Len(array) : ~(array[j].key >= k)
         /\ i # 0 => /\ i \in 1 .. Len(array)
                     /\ array[i].key >= k
                     /\ \A j \in 1 .. Len(array) : array[j].key >= k => i <= j
<1> DEFINE I == {j \in 1 .. Len(array) : array[j].key >= k}
           x == Lists!Min(I)
<1>1. Len(array) \in Nat /\ I \subseteq Nat
  BY LenProperties
<1>2. i = IF I # {} THEN x ELSE 0
  BY DEF FirstNotLess, Lists!SelectInSeq
<1>3. x = CHOOSE y \in I : \A z \in I : y <= z
  BY DEF Lists!Min
<1>4. I # {} => x \in I /\ \A z \in I : x <= z
  <2> HIDE DEF I
  <2>1. I # {} => \E y \in I : \A z \in I : y <= z
    BY <1>1, LeastExists
  <2> QED
    BY <1>3, <2>1
<1>5. CASE I = {}
  BY <1>2, <1>5
<1>6. CASE I # {}
  <2> HIDE DEF x
  <2>1. i \in I /\ \A z \in I : i <= z
    BY <1>2, <1>4, <1>6
  <2>2. i # 0
    BY <1>1, <2>1
  <2> QED
    BY <2>1, <2>2
<1> QED
  BY <1>5, <1>6

\* A leaf of a tree that only grows.
SoundLeaf(p, scope) ==
  /\ p \in DOMAIN pages /\ p # INVALID_PAGE_ID /\ pages[p].leaf
  /\ pages[p].array \in Seq(LeafPair) /\ Ascending(pages[p].array)
  /\ Len(pages[p].array) \in Nat \ {0} /\ Len(pages[p].array) <= LeafMax
  /\ scope[p] \in SUBSET Nat /\ scope[p] # {}
  /\ \A i \in 1 .. Len(pages[p].array) :
       pages[p].array[i].key \in scope[p] /\ pages[p].array[i].key \in Nat

LEMMA GrownLeaf ==
  ASSUME NEW scope, GrowingShape(scope), NEW p \in DOMAIN pages, pages[p].leaf
  PROVE  SoundLeaf(p, scope)
<1>1. WholeTree /\ InOrder(pages) /\ InOrderTree(scope) /\ PagesTyped
  BY WholeTreeFacts DEF GrowingShape
<1>2. scope \in [DOMAIN pages -> SUBSET Nat] /\ LeavesFit(pages, scope)
  BY <1>1 DEF InOrderTree, Ordered
<1>3. pages[p].array \in Seq(LeafPair) /\ p # INVALID_PAGE_ID /\ Len(pages[p].array) \in Nat
  BY <1>1, PageKinds DEF Size
<1>4. pages[p].array # <<>>
  BY <1>2 DEF LeavesFit
<1>5. Len(pages[p].array) \in Nat \ {0} /\ Len(pages[p].array) <= LeafMax
  BY <1>1, <1>3, <1>4, EmptySeq DEF PagesTyped
<1>6. scope[p] # {}
  BY <1>1, LeafScopes
<1>7. \A i \in 1 .. Len(pages[p].array) : pages[p].array[i].key \in scope[p]
  BY <1>2 DEF LeavesFit
<1>8. Ascending(pages[p].array)
  BY <1>1 DEF InOrder
<1> QED
  BY <1>2, <1>3, <1>5, <1>6, <1>7, <1>8 DEF SoundLeaf

\* In one leaf.
LEMMA AscendingFirst ==
  ASSUME NEW array, Ascending(array), Len(array) \in Nat,
         \A j \in 1 .. Len(array) : array[j].key \in Nat,
         NEW i \in 1 .. Len(array), NEW j \in 1 .. Len(array), i <= j
  PROVE  array[i].key <= array[j].key
<1>1. CASE i = j
  BY <1>1
<1>2. CASE i < j
  BY <1>2 DEF Ascending
<1> QED
  BY <1>1, <1>2

\* Every key there is stands in some leaf.
LEMMA StoredKey ==
  ASSUME NEW n
  PROVE  n \in StoredKeys <=>
           \E q \in DOMAIN pages : /\ pages[q].leaf
                                   /\ \E j \in 1 .. Len(pages[q].array) : pages[q].array[j].key = n
BY DEF StoredKeys, Stored, PairsOf, LeafPages, Size

LEMMA BeginFollows == GrowingInv => BeginIsFirstNotLess
<1> SUFFICES ASSUME NEW scope, GrowingShape(scope), todo = Idle, NEW k \in Keys
             PROVE  LET not_less == {n \in StoredKeys : n >= k}
                    IN  IF not_less = {} THEN BeginAt(k) = Ended
                        ELSE /\ IsPair(BeginAt(k))
                             /\ Item(BeginAt(k)).key \in not_less
                             /\ \A n \in not_less : Item(BeginAt(k)).key <= n
  BY DEF GrowingInv, BeginIsFirstNotLess
<1>1. PICK leaf, array, i, S : /\ leaf = FindLeafPage(k) /\ array = pages[leaf].array
                               /\ i = FirstNotLess(array, k)
                               /\ S = {n \in StoredKeys : n >= k}
  OBVIOUS
<1>2. WholeTree /\ InOrderTree(scope) /\ InOrder(pages)
  BY DEF GrowingShape
<1>3. k \in Nat
  BY KeysAssumption
<1>4. BeginAt(k) = IF IsEmpty THEN Ended
                   ELSE IF i # 0 THEN At(leaf, i - 1)
                   ELSE IF pages[leaf].next = INVALID_PAGE_ID THEN Ended
                   ELSE FirstOf(pages[leaf].next)
  BY <1>1 DEF BeginAt
<1>5. CASE IsEmpty
  <2>1. DOMAIN pages = {}
    BY <1>2, <1>5, WholeTreeFacts DEF IsEmpty
  <2>2. S = {}
    BY <1>1, <2>1, StoredKey
  <2> QED
    BY <1>1, <1>4, <1>5, <2>2
<1>6. CASE ~IsEmpty
  <2>1. leaf \in DOMAIN pages /\ pages[leaf].leaf /\ k \in scope[leaf]
    BY <1>1, <1>2, <1>6, SearchInScope
  <2>2. SoundLeaf(leaf, scope)
    BY <2>1, GrownLeaf
  <2>3. \A q \in DOMAIN pages : pages[q].leaf => SoundLeaf(q, scope)
    BY GrownLeaf
  <2>4. InARow(pages, scope) /\ LinkedFrom(pages, scope, leaf)
    BY <1>2, <2>1 DEF InOrderTree, Ordered, Linked
  \* Keys that are not less stand in the leaf or behind it.
  <2>5. ASSUME NEW n \in S
        PROVE  /\ n \in Nat /\ k <= n /\ n \in StoredKeys
               /\ \E q \in DOMAIN pages :
                    /\ pages[q].leaf /\ n \in scope[q]
                    /\ \E j \in 1 .. Len(pages[q].array) : pages[q].array[j].key = n
                    /\ q = leaf \/ Before(scope[leaf], scope[q])
    <3>1. PICK q \in DOMAIN pages :
            pages[q].leaf /\ \E j \in 1 .. Len(pages[q].array) : pages[q].array[j].key = n
      BY <1>1, StoredKey
    <3>2. n \in scope[q] /\ n \in Nat
      BY <2>3, <3>1 DEF SoundLeaf
    <3>3. k <= n /\ n \in StoredKeys
      BY <1>1, <1>3, <3>2
    <3>4. ~Before(scope[q], scope[leaf])
      BY <1>3, <2>1, <3>2, <3>3 DEF Before
    <3>5. q = leaf \/ Before(scope[leaf], scope[q])
      BY <2>1, <2>4, <3>1, <3>4 DEF InARow
    <3> QED
      BY <3>1, <3>2, <3>3, <3>5
  <2>6. /\ array \in Seq(LeafPair) /\ Ascending(array) /\ Len(array) \in Nat
        /\ \A j \in 1 .. Len(array) : array[j].key \in Nat /\ array[j].key \in scope[leaf]
    BY <1>1, <2>2 DEF SoundLeaf
  <2>7. CASE i # 0
    <3>1. /\ i \in 1 .. Len(array) /\ array[i].key >= k
          /\ \A j \in 1 .. Len(array) : array[j].key >= k => i <= j
      BY <1>1, <2>6, <2>7, FirstNotLessFound
    <3>2. /\ BeginAt(k) = At(leaf, i - 1) /\ At(leaf, i - 1) # Ended
          /\ At(leaf, i - 1).page = leaf /\ At(leaf, i - 1).index = i - 1
      BY <1>4, <1>6, <2>2, <2>7 DEF At, Ended, SoundLeaf
    <3>3. IsPair(BeginAt(k)) /\ Item(BeginAt(k)) = array[i]
      BY <1>1, <2>6, <3>1, <3>2 DEF IsPair, Item, Size
    <3>4. array[i].key \in S
      BY <1>1, <2>1, <3>1, StoredKey
    <3>5. ASSUME NEW n \in S
          PROVE  array[i].key <= n
      <4>1. PICK q \in DOMAIN pages :
              /\ pages[q].leaf /\ n \in scope[q] /\ n \in Nat /\ k <= n
              /\ \E j \in 1 .. Len(pages[q].array) : pages[q].array[j].key = n
              /\ q = leaf \/ Before(scope[leaf], scope[q])
        BY <2>5
      <4>2. CASE q = leaf
        <5>1. PICK j \in 1 .. Len(array) : array[j].key = n
          BY <1>1, <4>1, <4>2
        <5>2. i <= j
          BY <1>3, <3>1, <4>1, <5>1
        <5> QED
          BY <2>6, <3>1, <5>1, <5>2, AscendingFirst
      <4>3. CASE Before(scope[leaf], scope[q])
        <5>1. array[i].key < n
          BY <2>6, <3>1, <4>1, <4>3 DEF Before
        <5> QED
          BY <2>6, <3>1, <4>1, <5>1
      <4> QED
        BY <4>1, <4>2, <4>3
    <3> QED
      BY <1>1, <3>3, <3>4, <3>5
  <2>8. CASE i = 0
    <3>1. \A j \in 1 .. Len(array) : ~(array[j].key >= k)
      BY <1>1, <2>6, <2>8, FirstNotLessFound
    <3>2. ASSUME NEW n \in S
          PROVE  /\ n \in Nat
                 /\ \E q \in DOMAIN pages :
                      /\ Follows(pages, scope, leaf, q)
                      /\ n \in scope[q]
                      /\ \E j \in 1 .. Len(pages[q].array) : pages[q].array[j].key = n
      <4>1. PICK q \in DOMAIN pages :
              /\ pages[q].leaf /\ n \in scope[q] /\ n \in Nat /\ k <= n
              /\ \E j \in 1 .. Len(pages[q].array) : pages[q].array[j].key = n
              /\ q = leaf \/ Before(scope[leaf], scope[q])
        BY <2>5
      <4>2. q # leaf
        <5>1. ASSUME q = leaf
              PROVE  FALSE
          <6>1. PICK j \in 1 .. Len(array) : array[j].key = n
            BY <1>1, <4>1, <5>1
          <6> QED
            BY <1>3, <3>1, <4>1, <6>1
        <5> QED
          BY <5>1
      <4> QED
        BY <4>1, <4>2 DEF Follows
    <3>3. CASE pages[leaf].next = INVALID_PAGE_ID
      <4>1. BeginAt(k) = Ended
        BY <1>4, <1>6, <2>8, <3>3
      <4>2. S = {}
        BY <2>1, <2>4, <3>2, <3>3 DEF LinkedFrom
      <4> QED
        BY <1>1, <4>1, <4>2
    <3>4. CASE pages[leaf].next # INVALID_PAGE_ID
      <4>1. PICK next, r : next = pages[leaf].next /\ r = pages[next].array
        OBVIOUS
      <4>2. /\ next \in DOMAIN pages /\ pages[next].leaf /\ Before(scope[leaf], scope[next])
            /\ \A q \in DOMAIN pages : Follows(pages, scope, leaf, q) =>
                 q = next \/ Before(scope[next], scope[q])
        BY <2>1, <2>4, <3>4, <4>1 DEF LinkedFrom, Follows
      <4>3. SoundLeaf(next, scope)
        BY <4>2, GrownLeaf
      <4>4. /\ r \in Seq(LeafPair) /\ Ascending(r) /\ Len(r) \in Nat \ {0}
            /\ \A j \in 1 .. Len(r) : r[j].key \in Nat /\ r[j].key \in scope[next]
            /\ next # INVALID_PAGE_ID
        BY <4>1, <4>3 DEF SoundLeaf
      <4>5. r # <<>> /\ 1 \in 1 .. Len(r)
        BY <4>4, EmptySeq
      <4>6. BeginAt(k) = At(next, 0)
        BY <1>4, <1>6, <2>8, <3>4, <4>1, <4>5 DEF FirstOf
      <4>7. At(next, 0) # Ended /\ At(next, 0).page = next /\ At(next, 0).index = 0
        BY <4>4 DEF At, Ended
      <4>8. IsPair(BeginAt(k)) /\ Item(BeginAt(k)) = r[1]
        BY <4>1, <4>4, <4>6, <4>7 DEF IsPair, Item, Size
      <4>9. r[1].key \in S
        <5>1. k < r[1].key
          BY <2>1, <4>2, <4>4, <4>5 DEF Before
        <5>2. r[1].key \in StoredKeys
          BY <4>1, <4>2, <4>5, StoredKey
        <5> QED
          BY <1>1, <1>3, <4>4, <4>5, <5>1, <5>2
      <4>10. ASSUME NEW n \in S
             PROVE  r[1].key <= n
        <5>1. PICK q \in DOMAIN pages :
                /\ Follows(pages, scope, leaf, q) /\ n \in scope[q] /\ n \in Nat
                /\ \E j \in 1 .. Len(pages[q].array) : pages[q].array[j].key = n
          BY <3>2
        <5>2. CASE q = next
          <6>1. PICK j \in 1 .. Len(r) : r[j].key = n
            BY <4>1, <5>1, <5>2
          <6> QED
            BY <4>4, <4>5, <6>1, AscendingFirst
        <5>3. CASE Before(scope[next], scope[q])
          <6>1. r[1].key < n
            BY <4>4, <4>5, <5>1, <5>3 DEF Before
          <6> QED
            BY <4>4, <4>5, <5>1, <6>1
        <5> QED
          BY <4>2, <5>1, <5>2, <5>3
      <4> QED
        BY <1>1, <4>8, <4>9, <4>10
    <3> QED
      BY <3>3, <3>4
  <2> QED
    BY <2>7, <2>8
<1> QED
  BY <1>5, <1>6

\* Iterators change the tree by no step; the splits they run into are insertions.
LEMMA ScansLetTheTreeGrow == GrowingScanSpec => GrowingSpec
<1>1. IteratorsInit => Init
  BY DEF IteratorsInit
<1>2. [GrowingScanNext]_ivars => [InsertNext]_vars
  <2>1. ASSUME IteratorNext
        PROVE  InsertNext \/ UNCHANGED vars
    BY <2>1 DEF IteratorNext, IteratorStep, Advance, EnterNextLeaf, BeginScan, Begin,
                NextLeafUnavailable, Destroy, AdvanceDuringSplit, InsertNext
  <2> QED
    BY <2>1 DEF GrowingScanNext, ivars
<1> QED
  BY <1>1, <1>2, PTL DEF GrowingScanSpec, GrowingSpec

\* Begin(key) is at the first pair whose key is not less, or at the end if there is
\* none: it is in the leaf the search finds, or is the first one of the right sibling.
THEOREM BeginReturnsFirstNotLess == GrowingScanSpec => []BeginIsFirstNotLess
<1> QED
  BY ScansLetTheTreeGrow, GrowingInvariance, BeginFollows, PTL

-----------------------------------------------------------------------------
(***************************************************************************)
(* Scans beside insertions.                                                *)
(***************************************************************************)

StandsIn(array, k) == \E j \in 1 .. Len(array) : array[j].key = k

\* The key stands behind a position of a leaf, or is stored in a leaf that follows.
IsAhead(store, at, k) ==
  \/ \E j \in 1 .. Len(store[at.page].array) : j > at.index /\ store[at.page].array[j].key = k
  \/ /\ \A j \in 1 .. Len(store[at.page].array) : store[at.page].array[j].key < k
     /\ \E q \in DOMAIN store : store[q].leaf /\ StandsIn(store[q].array, k)

InLeaf(store, at) ==
  at \in [page : {p \in DOMAIN store : store[p].leaf}, index : Nat \cup {-1}]

\* Wherever a scan is, the keys it owes are ahead of it.
ScanOnItsWay(store, at, keys) ==
  \/ at \in {Nowhere, Ended} /\ keys = {}
  \/ /\ InLeaf(store, at) /\ keys \subseteq Nat
     /\ \A k \in keys : IsAhead(store, at, k)

ScansOnTheirWay ==
  /\ DOMAIN it = Iterators /\ DOMAIN due = Iterators
  /\ \A i \in Iterators : ScanOnItsWay(pages, it[i], due[i])

\* What the array of a leaf is while the tree only grows.
SoundArray(array) ==
  /\ Ascending(array) /\ Len(array) \in Nat
  /\ \A i \in 1 .. Len(array) : array[i].key \in Nat

\* In an array that keeps all pairs in front of a key, the key moves back or stays.
LEMMA KeysMoveBack ==
  ASSUME NEW a, NEW r, SoundArray(a), SoundArray(r),
         NEW j \in 1 .. Len(a), NEW m \in 1 .. Len(r), r[m].key = a[j].key,
         \A i \in 1 .. Len(a) : a[i].key < a[j].key => StandsIn(r, a[i].key)
  PROVE  j <= m
<1> USE DEF SoundArray
<1> DEFINE Good == {i \in 0 .. j : \A l \in 1 .. Len(r) : i > 0 /\ r[l].key = a[i].key => i <= l}
           id == [i \in 0 .. j |-> i]
<1>1. j \in Nat /\ j <= Len(a)
  OBVIOUS
<1>2. id[0] \in Good
  BY <1>1
<1>3. ASSUME NEW i \in 1 .. j, id[i - 1] \in Good
      PROVE  id[i] \in Good
  <2>1. i - 1 \in 0 .. j /\ id[i - 1] = i - 1 /\ i \in 0 .. j /\ id[i] = i /\ i \in 1 .. Len(a)
    BY <1>1
  <2>2. ASSUME NEW l \in 1 .. Len(r), r[l].key = a[i].key
        PROVE  i <= l
    <3>1. CASE i = 1
      BY <3>1
    <3>2. CASE i # 1
      <4>1. i - 1 \in 1 .. Len(a) /\ i - 1 < i /\ i - 1 > 0
        BY <1>1, <3>2
      <4>2. a[i - 1].key < a[i].key
        BY <2>1, <4>1 DEF Ascending
      <4>3. a[i].key <= a[j].key
        <5>1. Ascending(a) /\ Len(a) \in Nat /\ \A n \in 1 .. Len(a) : a[n].key \in Nat
          OBVIOUS
        <5>2. i \in 1 .. Len(a) /\ j \in 1 .. Len(a) /\ i <= j
          BY <1>1, <2>1
        <5> QED
          BY ONLY <5>1, <5>2, AscendingFirst
      <4>4. a[i - 1].key < a[j].key
        BY SMTT(30), <2>1, <4>1, <4>2, <4>3
      <4>5. PICK n \in 1 .. Len(r) : r[n].key = a[i - 1].key
        BY <4>1, <4>4 DEF StandsIn
      <4>6. i - 1 <= n
        BY <1>3, <2>1, <4>1, <4>5
      <4>7. n < l
        <5>1. ASSUME l <= n
              PROVE  FALSE
          <6>1. r[l].key <= r[n].key
            BY <5>1, AscendingFirst
          <6> QED
            BY SMTT(30), <2>1, <2>2, <4>1, <4>2, <4>5, <6>1
        <5> QED
          BY <5>1
      <4> QED
        BY <4>6, <4>7
    <3> QED
      BY <3>1, <3>2
  <2> QED
    BY <2>1, <2>2
<1>4. \A i \in 0 .. j : id[i] \in Good
  <2> HIDE DEF id, Good
  <2> QED
    BY <1>1, <1>2, <1>3, UpToInduction
<1>5. j \in 0 .. j /\ id[j] = j /\ j > 0
  BY <1>1
<1>6. j \in Good
  BY <1>4, <1>5
<1> QED
  BY <1>5, <1>6

\* What an insertion may do to a leaf: take a key in, which is not greater than any key of
\* a leaf that follows; and give its greatest keys away.
LeafKept(store, after, p) ==
  /\ p \in DOMAIN after /\ after[p].leaf
  /\ SoundArray(store[p].array) /\ SoundArray(after[p].array)
  /\ \A q \in DOMAIN store : \A k :
       /\ store[q].leaf /\ StandsIn(store[q].array, k)
       /\ \A j \in 1 .. Len(store[p].array) : store[p].array[j].key < k
       => \A j \in 1 .. Len(after[p].array) : after[p].array[j].key < k
  /\ \A j \in 1 .. Len(store[p].array) :
       \/ /\ StandsIn(after[p].array, store[p].array[j].key)
          /\ \A i \in 1 .. Len(store[p].array) :
               store[p].array[i].key < store[p].array[j].key =>
                 StandsIn(after[p].array, store[p].array[i].key)
       \/ \A i \in 1 .. Len(after[p].array) : after[p].array[i].key < store[p].array[j].key

KeysKept(store, after) ==
  \A q \in DOMAIN store : \A k :
    store[q].leaf /\ StandsIn(store[q].array, k) =>
      \E r \in DOMAIN after : after[r].leaf /\ StandsIn(after[r].array, k)

LEMMA StaysAhead ==
  ASSUME NEW store, NEW after, NEW at, InLeaf(store, at),
         KeysKept(store, after), LeafKept(store, after, at.page),
         NEW k, IsAhead(store, at, k)
  PROVE  IsAhead(after, at, k)
<1>1. PICK p, a, r : p = at.page /\ a = store[p].array /\ r = after[p].array
  OBVIOUS
<1>2. /\ p \in DOMAIN store /\ store[p].leaf /\ at.index \in Nat \cup {-1}
  BY <1>1 DEF InLeaf
<1>3. CASE \E j \in 1 .. Len(a) : j > at.index /\ a[j].key = k
  <2>1. PICK j \in 1 .. Len(a) : j > at.index /\ a[j].key = k
    BY <1>3
  <2>2. \E q \in DOMAIN after : after[q].leaf /\ StandsIn(after[q].array, k)
    BY <1>1, <1>2, <2>1 DEF KeysKept, StandsIn
  <2>3. CASE \A i \in 1 .. Len(r) : r[i].key < k
    BY <1>1, <2>2, <2>3 DEF IsAhead
  <2>4. CASE StandsIn(r, k) /\ \A i \in 1 .. Len(a) : a[i].key < k => StandsIn(r, a[i].key)
    <3>1. PICK m \in 1 .. Len(r) : r[m].key = k
      BY <2>4 DEF StandsIn
    <3>2. SoundArray(a) /\ SoundArray(r)
      BY <1>1 DEF LeafKept
    <3>3. r[m].key = a[j].key
          /\ \A i \in 1 .. Len(a) : a[i].key < a[j].key => StandsIn(r, a[i].key)
      BY <2>1, <2>4, <3>1
    <3>4. j <= m
      BY ONLY <3>2, <3>3, j \in 1 .. Len(a), m \in 1 .. Len(r), KeysMoveBack
    <3>5. m > at.index
      BY <1>2, <2>1, <3>2, <3>4 DEF SoundArray
    <3> QED
      BY <1>1, <3>1, <3>5 DEF IsAhead
  <2> QED
    BY <1>1, <2>1, <2>3, <2>4 DEF LeafKept
<1>4. CASE /\ \A j \in 1 .. Len(a) : a[j].key < k
           /\ \E q \in DOMAIN store : store[q].leaf /\ StandsIn(store[q].array, k)
  <2>1. \E q \in DOMAIN after : after[q].leaf /\ StandsIn(after[q].array, k)
    BY <1>4 DEF KeysKept
  <2>2. \A j \in 1 .. Len(r) : r[j].key < k
    BY <1>1, <1>4 DEF LeafKept
  <2> QED
    BY <1>1, <2>1, <2>2 DEF IsAhead
<1> QED
  BY <1>1, <1>3, <1>4 DEF IsAhead

LEMMA LeavesSound ==
  GrowingInv => \A p \in DOMAIN pages : pages[p].leaf => SoundArray(pages[p].array)
<1> SUFFICES ASSUME NEW scope, GrowingShape(scope), NEW p \in DOMAIN pages, pages[p].leaf
             PROVE  SoundArray(pages[p].array)
  BY DEF GrowingInv
<1>1. SoundLeaf(p, scope)
  BY GrownLeaf
<1> QED
  BY <1>1 DEF SoundLeaf, SoundArray

LEMMA SameLeafKept ==
  ASSUME NEW s, NEW t, NEW p, p \in DOMAIN t, s[p].leaf,
         t[p].leaf = s[p].leaf, t[p].array = s[p].array, SoundArray(s[p].array)
  PROVE  LeafKept(s, t, p)
<1>1. PICK a : a = s[p].array
  OBVIOUS
<1>2. t[p].array = a /\ t[p].leaf
  BY <1>1
<1>3. \A j \in 1 .. Len(a) : StandsIn(a, a[j].key)
  BY DEF StandsIn
<1> QED
  BY <1>1, <1>2, <1>3 DEF LeafKept

\* A key of another leaf that is greater than those of a leaf is greater than its whole scope.
LEMMA BehindTheScope ==
  ASSUME NEW scope, GrowingShape(scope),
         NEW p \in DOMAIN pages, pages[p].leaf, NEW q \in DOMAIN pages, pages[q].leaf,
         NEW k, StandsIn(pages[q].array, k),
         \A j \in 1 .. Len(pages[p].array) : pages[p].array[j].key < k
  PROVE  /\ q # p /\ Before(scope[p], scope[q]) /\ k \in scope[q] /\ k \in Nat
         /\ \A x \in scope[p] : x < k
<1>1. SoundLeaf(p, scope) /\ SoundLeaf(q, scope)
  BY GrownLeaf
<1>2. k \in scope[q] /\ k \in Nat
  BY <1>1 DEF SoundLeaf, StandsIn
<1>3. q # p
  BY <1>2 DEF StandsIn
<1>4. InARow(pages, scope)
  BY DEF GrowingShape, InOrderTree, Ordered
<1>5. PICK j \in 1 .. Len(pages[p].array) :
        pages[p].array[j].key \in scope[p] /\ pages[p].array[j].key \in Nat
  <2>1. 1 \in 1 .. Len(pages[p].array)
    BY <1>1 DEF SoundLeaf
  <2> QED
    BY <1>1, <2>1 DEF SoundLeaf
<1>6. ~Before(scope[q], scope[p])
  BY <1>2, <1>5 DEF Before
<1>7. Before(scope[p], scope[q])
  BY <1>3, <1>4, <1>6 DEF InARow
<1> QED
  BY <1>2, <1>3, <1>7 DEF Before

LEMMA FilledLeafKept ==
  ASSUME NEW scope, GrowingShape(scope), NEW leaf, NEW k, NEW v, LeafFor(leaf, scope, k),
         LeafFilled(leaf, k, v), SoundArray(pages[leaf].array), SoundArray(pages'[leaf].array)
  PROVE  LeafKept(pages, pages', leaf)
<1>1. PICK a, r : a = pages[leaf].array /\ r = pages'[leaf].array
  OBVIOUS
<1>2. /\ leaf \in DOMAIN pages /\ pages[leaf].leaf /\ k \in scope[leaf]
      /\ leaf \in DOMAIN pages' /\ pages'[leaf].leaf
      /\ \A e \in PairsIn(a) : e.key \in scope[leaf]
      /\ PairsIn(r) = PairsIn(a) \cup {Pair(k, v)}
  BY <1>1 DEF LeafFor, LeafFilled
<1>3. \A i \in 1 .. Len(a) : StandsIn(r, a[i].key)
  BY <1>2 DEF PairsIn, StandsIn
<1>4. \A j \in 1 .. Len(r) : r[j].key \in scope[leaf]
  <2>1. Pair(k, v).key = k
    BY DEF Pair
  <2> QED
    BY <1>2, <2>1 DEF PairsIn
<1>5. ASSUME NEW q \in DOMAIN pages, NEW x, pages[q].leaf, StandsIn(pages[q].array, x),
             \A j \in 1 .. Len(a) : a[j].key < x
      PROVE  \A j \in 1 .. Len(r) : r[j].key < x
  BY <1>1, <1>2, <1>4, <1>5, BehindTheScope
<1> QED
  BY <1>1, <1>2, <1>3, <1>5 DEF LeafKept

LEMMA HalvedLeafKept ==
  ASSUME NEW scope, GrowingShape(scope), NEW leaf, NEW k, NEW v, NEW m, NEW key, NEW N,
         LeafFor(leaf, scope, k), LeafHalved(leaf, k, v, m, key, N),
         SoundArray(pages[leaf].array), SoundArray(pages'[leaf].array),
         SoundArray(pages'[N].array)
  PROVE  LeafKept(pages, pages', leaf)
<1>1. PICK a, r, b : a = pages[leaf].array /\ r = pages'[leaf].array /\ b = pages'[N].array
  OBVIOUS
<1>2. /\ leaf \in DOMAIN pages /\ pages[leaf].leaf /\ k \in scope[leaf]
      /\ leaf \in DOMAIN pages' /\ pages'[leaf].leaf
      /\ \A e \in PairsIn(a) : e.key \in scope[leaf]
      /\ PairsIn(r) \cup PairsIn(b) = PairsIn(a) \cup {Pair(k, v)}
      /\ \E e \in PairsIn(b) : e.key = key
      /\ \A e \in PairsIn(r) : e.key < key
      /\ \A e \in PairsIn(b) : key <= e.key
  BY <1>1 DEF LeafFor, LeafHalved
<1>3. /\ \A i \in 1 .. Len(a) : a[i].key \in Nat /\ a[i] \in PairsIn(a)
      /\ \A i \in 1 .. Len(r) : r[i].key \in Nat /\ r[i] \in PairsIn(r)
      /\ key \in Nat
  BY <1>1, <1>2 DEF SoundArray, PairsIn
<1>4. \A j \in 1 .. Len(r) : r[j].key \in scope[leaf]
  <2>1. Pair(k, v).key = k
    BY DEF Pair
  <2> QED
    BY <1>2, <1>3, <2>1
<1>5. ASSUME NEW q \in DOMAIN pages, NEW x, pages[q].leaf, StandsIn(pages[q].array, x),
             \A j \in 1 .. Len(a) : a[j].key < x
      PROVE  \A j \in 1 .. Len(r) : r[j].key < x
  BY <1>1, <1>2, <1>4, <1>5, BehindTheScope
<1>6. ASSUME NEW i \in 1 .. Len(a)
      PROVE  /\ a[i].key < key => StandsIn(r, a[i].key)
             /\ key <= a[i].key => \A j \in 1 .. Len(r) : r[j].key < a[i].key
  <2>1. a[i] \in PairsIn(r) \/ a[i] \in PairsIn(b)
    BY <1>2, <1>3
  <2>2. a[i] \in PairsIn(b) => key <= a[i].key
    BY <1>2
  <2>3. a[i] \in PairsIn(r) => StandsIn(r, a[i].key)
    BY DEF PairsIn, StandsIn
  <2>4. a[i].key < key => a[i] \in PairsIn(r)
    BY <1>3, <2>1, <2>2
  <2>5. key <= a[i].key => \A j \in 1 .. Len(r) : r[j].key < a[i].key
    BY <1>2, <1>3
  <2> QED
    BY <2>3, <2>4, <2>5
<1>7. ASSUME NEW j \in 1 .. Len(a)
      PROVE  \/ /\ StandsIn(r, a[j].key)
                /\ \A i \in 1 .. Len(a) : a[i].key < a[j].key => StandsIn(r, a[i].key)
             \/ \A i \in 1 .. Len(r) : r[i].key < a[j].key
  <2>1. CASE a[j].key < key
    <3>1. \A i \in 1 .. Len(a) : a[i].key < a[j].key => a[i].key < key
      BY <1>3, <2>1
    <3> QED
      BY <1>6, <2>1, <3>1
  <2>2. CASE key <= a[j].key
    BY <1>6, <2>2
  <2> QED
    BY <1>3, <2>1, <2>2
<1> QED
  BY <1>1, <1>2, <1>5, <1>7 DEF LeafKept

LeavesKept(store, after) ==
  /\ KeysKept(store, after)
  /\ \A p \in DOMAIN store : store[p].leaf => LeafKept(store, after, p)

\* Pages that stay, leaf by leaf.
LEMMA SameLeavesKept ==
  ASSUME GrowingInv, DOMAIN pages \subseteq DOMAIN pages',
         \A p \in DOMAIN pages : pages[p].leaf => Agree(pages, pages', p)
  PROVE  LeavesKept(pages, pages')
<1>1. \A p \in DOMAIN pages : pages[p].leaf => SoundArray(pages[p].array)
  BY LeavesSound
<1>2. KeysKept(pages, pages')
  BY DEF KeysKept, Agree
<1>3. \A p \in DOMAIN pages : pages[p].leaf => LeafKept(pages, pages', p)
  BY <1>1, SameLeafKept DEF Agree
<1> QED
  BY <1>2, <1>3 DEF LeavesKept

LEMMA FilledLeavesKept ==
  ASSUME NEW scope, GrowingShape(scope), GrowingInv, GrowingInv',
         NEW leaf, NEW k, NEW v, LeafFor(leaf, scope, k), LeafFilled(leaf, k, v)
  PROVE  LeavesKept(pages, pages')
<1>1. \A p \in DOMAIN pages : pages[p].leaf => SoundArray(pages[p].array)
  BY LeavesSound
<1>2. (\A p \in DOMAIN pages : pages[p].leaf => SoundArray(pages[p].array))'
  BY LeavesSound, PTL
<1>3. /\ leaf \in DOMAIN pages /\ pages[leaf].leaf /\ pages'[leaf].leaf
      /\ DOMAIN pages' = DOMAIN pages
      /\ \A p \in DOMAIN pages \ {leaf} : Agree(pages, pages', p)
      /\ PairsIn(pages'[leaf].array) = PairsIn(pages[leaf].array) \cup {Pair(k, v)}
  BY DEF LeafFor, LeafFilled
<1>4. SoundArray(pages[leaf].array) /\ SoundArray(pages'[leaf].array)
  BY <1>1, <1>2, <1>3
<1>5. LeafKept(pages, pages', leaf)
  BY <1>4, FilledLeafKept
<1>6. \A p \in DOMAIN pages \ {leaf} : pages[p].leaf => LeafKept(pages, pages', p)
  BY <1>1, <1>3, SameLeafKept DEF Agree
<1>7. \A x : StandsIn(pages[leaf].array, x) => StandsIn(pages'[leaf].array, x)
  <2>1. PICK a, r : a = pages[leaf].array /\ r = pages'[leaf].array
    OBVIOUS
  <2>2. PairsIn(a) \subseteq PairsIn(r)
    BY <1>3, <2>1
  <2> SUFFICES ASSUME NEW j \in 1 .. Len(a)
               PROVE  StandsIn(r, a[j].key)
    BY <2>1 DEF StandsIn
  <2>3. a[j] \in PairsIn(r)
    BY <2>2 DEF PairsIn
  <2> QED
    BY <2>3 DEF StandsIn, PairsIn
<1>8. KeysKept(pages, pages')
  BY <1>3, <1>7 DEF KeysKept, Agree
<1> QED
  BY <1>5, <1>6, <1>8 DEF LeavesKept

LEMMA HalvedLeavesKept ==
  ASSUME NEW scope, GrowingShape(scope), GrowingInv, GrowingInv',
         NEW leaf, NEW k, NEW v, NEW m, NEW key, NEW N,
         LeafFor(leaf, scope, k), LeafHalved(leaf, k, v, m, key, N)
  PROVE  LeavesKept(pages, pages')
<1>1. \A p \in DOMAIN pages : pages[p].leaf => SoundArray(pages[p].array)
  BY LeavesSound
<1>2. (\A p \in DOMAIN pages : pages[p].leaf => SoundArray(pages[p].array))'
  BY LeavesSound, PTL
<1>3. /\ leaf \in DOMAIN pages /\ pages[leaf].leaf /\ pages'[leaf].leaf /\ pages'[N].leaf
      /\ DOMAIN pages' = DOMAIN pages \cup {N}
      /\ \A p \in DOMAIN pages \ {leaf} : Agree(pages, pages', p)
      /\ PairsIn(pages[leaf].array) \subseteq
           PairsIn(pages'[leaf].array) \cup PairsIn(pages'[N].array)
  BY DEF LeafFor, LeafHalved
<1>4. SoundArray(pages[leaf].array) /\ SoundArray(pages'[leaf].array) /\ SoundArray(pages'[N].array)
  BY <1>1, <1>2, <1>3
<1>5. LeafKept(pages, pages', leaf)
  BY <1>4, HalvedLeafKept
<1>6. \A p \in DOMAIN pages \ {leaf} : pages[p].leaf => LeafKept(pages, pages', p)
  BY <1>1, <1>3, SameLeafKept DEF Agree
<1>7. \A x : StandsIn(pages[leaf].array, x) =>
               StandsIn(pages'[leaf].array, x) \/ StandsIn(pages'[N].array, x)
  <2>1. PICK a, r, b : a = pages[leaf].array /\ r = pages'[leaf].array /\ b = pages'[N].array
    OBVIOUS
  <2>2. PairsIn(a) \subseteq PairsIn(r) \cup PairsIn(b)
    BY <1>3, <2>1
  <2> SUFFICES ASSUME NEW j \in 1 .. Len(a)
               PROVE  StandsIn(r, a[j].key) \/ StandsIn(b, a[j].key)
    BY SMTT(30), <2>1 DEF StandsIn
  <2>3. a[j] \in PairsIn(r) \/ a[j] \in PairsIn(b)
    BY <2>2 DEF PairsIn
  <2> QED
    BY <2>3 DEF StandsIn, PairsIn
<1>8. KeysKept(pages, pages')
  BY <1>3, <1>7 DEF KeysKept, Agree
<1> QED
  BY <1>5, <1>6, <1>8 DEF LeavesKept

\* An insertion, in each of its steps.
LEMMA InsertNextKeepsLeaves ==
  ASSUME GrowingInv, GrowingInv', [InsertNext]_vars
  PROVE  LeavesKept(pages, pages')
<1>0. PICK scope : GrowingShape(scope)
  BY DEF GrowingInv
<1>1. WholeTree /\ InOrder(pages) /\ InOrderTree(scope)
  BY <1>0 DEF GrowingShape
<1>2. CASE pages' = pages
  BY <1>2, SameLeavesKept DEF Agree
<1>3. PICK D, N, P : D = DOMAIN pages /\ N = NewPageId /\ P = pages[todo.old].parent
  OBVIOUS
<1>4. SoundTree(D)
  BY <1>1, <1>3 DEF WholeTree
<1>5. CASE NewRoot
  <2>1. DOMAIN pages' = DOMAIN pages \cup {N} /\ \A p \in DOMAIN pages : Agree(pages, pages', p)
    BY <1>3, <1>4, <1>5, NewRootEffect
  <2> QED
    BY <2>1, SameLeavesKept
<1>6. CASE ParentHasRoom
  <2>1. /\ DOMAIN pages' = DOMAIN pages
        /\ \A p \in DOMAIN pages \ {P} : Agree(pages, pages', p)
        /\ todo.op = "insert" /\ ~IsRootPage(todo.old)
    BY <1>3, <1>4, <1>6, ParentHasRoomEffect
  <2>2. pages[P].leaf = FALSE
    BY <1>3, <1>4, <2>1, ParentPlace DEF PlaceInParent
  <2> QED
    BY <2>1, <2>2, SameLeavesKept
<1>7. CASE ParentSplits
  <2>1. PICK m : ParentCut(P, m, N)
    BY <1>3, <1>4, <1>7, ParentSplitsEffect
  <2>2. /\ DOMAIN pages' = DOMAIN pages \cup {N}
        /\ \A p \in DOMAIN pages \ {P} : Agree(pages, pages', p)
        /\ todo.op = "insert" /\ ~IsRootPage(todo.old)
    BY <2>1 DEF ParentCut
  <2>3. pages[P].leaf = FALSE
    BY <1>3, <1>4, <2>2, ParentPlace DEF PlaceInParent
  <2> QED
    BY <2>2, <2>3, SameLeavesKept
<1>8. ASSUME NEW k \in Keys, NEW v \in Values, StartNewTree(k, v)
      PROVE  LeavesKept(pages, pages')
  <2>1. DOMAIN pages = {}
    BY <1>1, <1>8, StartNewTreeEffect DEF TreeBegun
  <2> QED
    BY <2>1 DEF LeavesKept, KeysKept
<1>9. ASSUME NEW k \in Keys, NEW v \in Values, InsertIntoLeaf(k, v)
      PROVE  LeavesKept(pages, pages')
  <2>1. PICK leaf : LeafFor(leaf, scope, k) /\ LeafFilled(leaf, k, v)
    BY <1>1, <1>9, InsertIntoLeafEffect
  <2> QED
    BY <1>0, <2>1, FilledLeavesKept
<1>10. ASSUME NEW k \in Keys, NEW v \in Values, SplitLeaf(k, v)
       PROVE  LeavesKept(pages, pages')
  <2>1. PICK leaf, m, key, M : LeafFor(leaf, scope, k) /\ LeafHalved(leaf, k, v, m, key, M)
    BY <1>1, <1>10, SplitLeafEffect
  <2> QED
    BY <1>0, <2>1, HalvedLeavesKept
<1>11. ASSUME NEW k \in Keys, GetValue(k) \/ InsertRefused(k)
       PROVE  pages' = pages
  BY <1>11 DEF GetValue, InsertRefused
<1>12. CASE InsertNext
  BY <1>2, <1>5, <1>6, <1>7, <1>8, <1>9, <1>10, <1>11, <1>12 DEF InsertNext, InsertStep
<1>13. CASE UNCHANGED vars
  BY <1>2, <1>13 DEF vars
<1> QED
  BY <1>12, <1>13

\* A scan that rests while the tree grows has what it owes ahead of it still.
LEMMA RestingScan ==
  ASSUME LeavesKept(pages, pages'), NEW at, NEW keys, ScanOnItsWay(pages, at, keys)
  PROVE  ScanOnItsWay(pages', at, keys)
<1>1. CASE at \in {Nowhere, Ended} /\ keys = {}
  BY <1>1 DEF ScanOnItsWay
<1>2. CASE /\ InLeaf(pages, at) /\ keys \subseteq Nat
           /\ \A k \in keys : IsAhead(pages, at, k)
  <2>1. LeafKept(pages, pages', at.page) /\ KeysKept(pages, pages')
    BY <1>2 DEF LeavesKept, InLeaf
  <2>2. at.page \in DOMAIN pages' /\ pages'[at.page].leaf
    BY <1>2, <2>1 DEF InLeaf, LeafKept
  <2>4. InLeaf(pages', at)
    BY <1>2, <2>2 DEF InLeaf
  <2>5. \A k \in keys : IsAhead(pages', at, k)
    BY <1>2, <2>1, StaysAhead
  <2> QED
    BY <1>2, <2>4, <2>5 DEF ScanOnItsWay
<1> QED
  BY <1>1, <1>2 DEF ScanOnItsWay

\* A set of pages that the way to the first leaf does not leave.
GoesLeft(T, level) ==
  /\ root_page_id \in T /\ T \subseteq DOMAIN pages /\ level \in [T -> Nat]
  /\ level[root_page_id] < Cardinality(DOMAIN pages)
  /\ \A p \in T : pages[p].leaf <=> level[p] = 0
  /\ \A p \in T : ~pages[p].leaf =>
       /\ pages[p].array[1].value \in T
       /\ level[p] = level[pages[p].array[1].value] + 1

LEMMA LeftmostEndsAtLeaf ==
  ASSUME PagesTyped, NEW T, NEW level, GoesLeft(T, level)
  PROVE  /\ LeftmostLeaf \in T
         /\ pages[LeftmostLeaf].leaf
<1> DEFINE n == Cardinality(DOMAIN pages)
           Step(p) == IF pages[p].leaf THEN p ELSE pages[p].array[1].value
           g == [y \in (1 .. n) \X T |-> Step(y[2])]
           Path == CHOOSE f : f = [i \in 0 .. n |-> IF i = 0 THEN root_page_id ELSE Step(f[i - 1])]
<1>1. n \in Nat
  BY FS_CardinalityType DEF PagesTyped
<1>2. LeftmostLeaf = Path[n]
  BY DEF LeftmostLeaf
<1>3. /\ root_page_id \in T /\ T \subseteq DOMAIN pages /\ level \in [T -> Nat]
      /\ level[root_page_id] < n
      /\ \A p \in T : pages[p].leaf <=> level[p] = 0
  BY DEF GoesLeft
<1>4. ASSUME NEW p \in T
      PROVE  /\ Step(p) \in T
             /\ pages[p].leaf => Step(p) = p
             /\ ~pages[p].leaf => level[p] = level[Step(p)] + 1
  <2>1. CASE pages[p].leaf
    BY <2>1
  <2>2. CASE ~pages[p].leaf
    BY <2>2 DEF GoesLeft
  <2> QED
    BY <2>1, <2>2
<1> HIDE DEF Step, n
<1>5. g \in [(1 .. n) \X T -> T]
  BY <1>4
<1>6. \A i \in 1 .. n : \A p \in T : g[<<i, p>>] = Step(p)
  OBVIOUS
<1>7. Path = CHOOSE f : f = [i \in 0 .. n |-> IF i = 0 THEN root_page_id ELSE Step(f[i - 1])]
  OBVIOUS
<1> HIDE DEF g, Path
<1>8. PICK h : Course(h, T, root_page_id, n, g)
  BY <1>1, <1>3, <1>5, CourseExists
<1>9. \A i \in 1 .. n : h[i] = Step(h[i - 1])
  <2> TAKE i \in 1 .. n
  <2>1. i - 1 \in 0 .. n
    BY <1>1
  <2>2. h[i - 1] \in T
    BY <1>8, <2>1 DEF Course
  <2> QED
    BY <1>6, <1>8, <2>2 DEF Course
<1>10. Path = [i \in 0 .. n |-> IF i = 0 THEN root_page_id ELSE Step(Path[i - 1])]
  <2>1. h = [i \in 0 .. n |-> IF i = 0 THEN root_page_id ELSE Step(h[i - 1])]
    BY <1>8, <1>9 DEF Course
  <2> QED
    BY <1>7, <2>1
<1>11. Path[0] = root_page_id /\ \A i \in 1 .. n : Path[i] = Step(Path[i - 1])
  BY <1>1, <1>10
<1> DEFINE Good == {i \in 0 .. n :
                      /\ Path[i] \in T
                      /\ level[Path[i]] = 0 \/ level[Path[i]] + i <= level[root_page_id]}
           id == [i \in 0 .. n |-> i]
<1>12. id[0] \in Good
  BY <1>1, <1>3, <1>11
<1>13. \A i \in 1 .. n : id[i - 1] \in Good => id[i] \in Good
  <2> SUFFICES ASSUME NEW i \in 1 .. n, id[i - 1] \in Good
               PROVE  id[i] \in Good
    OBVIOUS
  <2> DEFINE p == Path[i - 1]
  <2>1. i - 1 \in 0 .. n /\ id[i - 1] = i - 1
    BY <1>1
  <2>2. p \in T /\ (level[p] = 0 \/ level[p] + (i - 1) <= level[root_page_id])
    BY <2>1
  <2>3. Path[i] = Step(p)
    BY <1>11
  <2> HIDE DEF p
  <2>4. Step(p) \in T
    BY <1>4, <2>2
  <2>5. level[p] \in Nat /\ level[Step(p)] \in Nat /\ level[root_page_id] \in Nat
    BY <1>3, <2>2, <2>4
  <2>6. CASE pages[p].leaf
    <3>1. level[Step(p)] = 0
      BY <1>3, <1>4, <2>2, <2>6
    <3> QED
      BY <1>1, <2>3, <2>4, <3>1
  <2>7. CASE ~pages[p].leaf
    <3>1. level[p] = level[Step(p)] + 1
      BY <1>4, <2>2, <2>7
    <3>2. level[Step(p)] + i <= level[root_page_id]
      BY <1>1, <2>2, <2>5, <3>1
    <3> QED
      BY <1>1, <2>3, <2>4, <3>2
  <2> QED
    BY <2>6, <2>7
<1>14. \A i \in 0 .. n : id[i] \in Good
  <2> HIDE DEF id, Good
  <2> QED
    BY <1>1, <1>12, <1>13, UpToInduction
<1>15. Path[n] \in T /\ (level[Path[n]] = 0 \/ level[Path[n]] + n <= level[root_page_id])
  <2>1. n \in 0 .. n /\ id[n] = n
    BY <1>1
  <2> QED
    BY <1>14, <2>1
<1>16. level[Path[n]] = 0
  <2>1. level[Path[n]] \in Nat /\ level[root_page_id] \in Nat /\ level[root_page_id] < n
    BY <1>3, <1>15
  <2> QED
    BY <1>1, <1>15, <2>1
<1> QED
  BY <1>2, <1>3, <1>15, <1>16

\* With a key all smaller ones.
Initial(R) == \A x \in R, y \in Nat : y <= x => y \in R

\* The first leaf is in front of all others.
LEMMA LeftmostIsFirst ==
  ASSUME WholeTree, NEW scope, InOrderTree(scope), todo = Idle, ~IsEmpty
  PROVE  /\ LeftmostLeaf \in DOMAIN pages /\ pages[LeftmostLeaf].leaf
         /\ \A q \in DOMAIN pages : pages[q].leaf /\ q # LeftmostLeaf =>
              Before(scope[LeftmostLeaf], scope[q])
<1>1. PagesTyped
  BY WholeTreeFacts
<1>2. PICK level : TreeShape(pages, root_page_id, Pending, DOMAIN pages, level)
  BY DEF WholeTree, SoundTree
<1>3. /\ scope \in [DOMAIN pages -> SUBSET Nat]
      /\ Covered(todo, scope, root_page_id) = Nat
      /\ Divided(pages, todo, scope)
  BY DEF InOrderTree, Ordered, IsEmpty
<1>4. \A p : Covered(todo, scope, p) = scope[p]
  BY DEF Covered, Idle
<1>5. PICK S : S = {p \in DOMAIN pages : Initial(scope[p])}
  OBVIOUS
<1>6. PICK depth : depth = [p \in S |-> level[p]]
  OBVIOUS
<1>7. /\ root_page_id \in DOMAIN pages /\ level \in [DOMAIN pages -> Nat]
      /\ level[root_page_id] < Cardinality(DOMAIN pages)
      /\ \A p \in DOMAIN pages : pages[p].leaf <=> level[p] = 0
  BY <1>2 DEF TreeShape, Levels, RootOnTop, IsEmpty
<1>8. Initial(scope[root_page_id])
  BY <1>3, <1>4 DEF Initial
<1>9. /\ root_page_id \in S /\ S \subseteq DOMAIN pages /\ depth \in [S -> Nat]
      /\ depth[root_page_id] < Cardinality(DOMAIN pages)
      /\ \A p \in S : pages[p].leaf <=> depth[p] = 0
  BY <1>5, <1>6, <1>7, <1>8
<1>10. ASSUME NEW p \in S, ~pages[p].leaf
       PROVE  /\ pages[p].array[1].value \in S
              /\ depth[p] = depth[pages[p].array[1].value] + 1
  <2>1. PICK array, R, n : array = pages[p].array /\ R = scope[p] /\ n = Len(array)
    OBVIOUS
  <2>2. p \in DOMAIN pages /\ Initial(R)
    BY <1>5, <2>1
  <2>3. array \in Seq(ChildPair) /\ array # <<>>
    BY <1>1, <1>2, <1>10, <2>1, <2>2, PageKinds DEF TreeShape, NodesAreSound
  <2>4. n \in Nat \ {0} /\ 1 \in 1 .. n
    BY <2>1, <2>3, EmptySeq
  <2>5. R \in SUBSET Nat /\ \A i \in 2 .. n : array[i].key \in R
    BY <1>3, <1>10, <2>1, <2>2 DEF Divided, SeparatorsAscend
  <2>6. scope[array[1].value] = Share(array, R, 1)
    BY <1>3, <1>4, <1>10, <2>1, <2>2, <2>4 DEF Divided
  <2>7. Initial(Share(array, R, 1))
    <3>1. 1 < n => array[2].key \in Nat
      <4>1. 1 < n => 2 \in 2 .. n
        BY <2>4
      <4>2. 2 \in 2 .. n => array[2].key \in R
        BY <2>5
      <4> QED
        BY <2>5, <4>1, <4>2
    <3>2. Share(array, R, 1) = {x \in R : 1 < n => x < array[2].key}
      BY <2>1 DEF Share
    <3> SUFFICES ASSUME NEW x \in R, 1 < n => x < array[2].key, NEW y \in Nat, y <= x
                 PROVE  y \in R /\ (1 < n => y < array[2].key)
      BY <3>2 DEF Initial
    <3> QED
      BY <2>2, <2>5, <3>1 DEF Initial
  <2>8. array[1].value \in Kids(pages, p)
    BY <1>10, <2>1, <2>4 DEF Kids, Children
  <2>9. array[1].value \in DOMAIN pages /\ level[p] = level[array[1].value] + 1
    BY <1>2, <2>2, <2>8 DEF TreeShape, ParentsOfKids
  <2>10. array[1].value \in S
    BY <1>5, <2>6, <2>7, <2>9
  <2> QED
    BY <1>6, <2>1, <2>9, <2>10
<1>11. GoesLeft(S, depth)
  BY <1>9, <1>10 DEF GoesLeft
<1>12. LeftmostLeaf \in S /\ pages[LeftmostLeaf].leaf
  BY <1>1, <1>11, LeftmostEndsAtLeaf
<1>13. PICK p : p = LeftmostLeaf
  OBVIOUS
<1>14. p \in DOMAIN pages /\ Initial(scope[p]) /\ pages[p].leaf
  BY <1>5, <1>12, <1>13
<1>15. ASSUME NEW q \in DOMAIN pages, pages[q].leaf, q # p
       PROVE  Before(scope[p], scope[q])
  <2>1. Before(scope[p], scope[q]) \/ Before(scope[q], scope[p])
    BY <1>14, <1>15 DEF InOrderTree, Ordered, InARow
  <2>2. scope[p] # {} /\ scope[q] # {}
    BY <1>14, <1>15, LeafScopes
  <2>3. PICK x \in scope[p], y \in scope[q] : x \in Nat /\ y \in Nat
    BY <1>3, <1>14, <1>15, <2>2
  <2>4. ~Before(scope[q], scope[p])
    <3> SUFFICES ASSUME Before(scope[q], scope[p])
                 PROVE  FALSE
      OBVIOUS
    <3>1. y < x
      BY <2>3 DEF Before
    <3>2. y \in scope[p]
      BY <1>14, <2>3, <3>1 DEF Initial
    <3> QED
      BY <2>3, <3>2 DEF Before
  <2> QED
    BY <2>1, <2>4
<1> QED
  BY <1>13, <1>14, <1>15

\* A scan that begins at the least of the keys it owes has all of them ahead.
LEMMA BegunOnItsWay ==
  ASSUME NEW scope, GrowingShape(scope), NEW p \in DOMAIN pages, pages[p].leaf,
         NEW i \in 1 .. Len(pages[p].array), NEW keys, keys \subseteq StoredKeys,
         \A n \in keys : pages[p].array[i].key <= n
  PROVE  ScanOnItsWay(pages, At(p, i - 1), keys)
<1>1. PICK array, at : array = pages[p].array /\ at = At(p, i - 1)
  OBVIOUS
<1>2. SoundLeaf(p, scope)
  BY GrownLeaf
<1>3. /\ Ascending(array) /\ Len(array) \in Nat /\ i \in 1 .. Len(array)
      /\ \A j \in 1 .. Len(array) : array[j].key \in scope[p] /\ array[j].key \in Nat
  BY <1>1, <1>2 DEF SoundLeaf
<1>4. at.page = p /\ at.index = i - 1 /\ InLeaf(pages, at)
  BY <1>1, <1>3 DEF At, InLeaf
<1>5. InARow(pages, scope)
  BY DEF GrowingShape, InOrderTree, Ordered
<1>6. ASSUME NEW n \in keys
      PROVE  n \in Nat /\ IsAhead(pages, at, n)
  <2>1. PICK q \in DOMAIN pages :
          pages[q].leaf /\ \E j \in 1 .. Len(pages[q].array) : pages[q].array[j].key = n
    BY StoredKey
  <2>2. SoundLeaf(q, scope)
    BY <2>1, GrownLeaf
  <2>3. n \in Nat /\ n \in scope[q] /\ array[i].key <= n
    BY <1>1, <2>1, <2>2 DEF SoundLeaf
  <2>4. CASE q = p
    <3>1. PICK j \in 1 .. Len(array) : array[j].key = n
      BY <1>1, <2>1, <2>4
    <3>2. i <= j
      <4>1. ASSUME j < i
            PROVE  FALSE
        <5>1. array[j].key < array[i].key
          BY <1>3, <4>1 DEF Ascending
        <5> QED
          BY <1>3, <2>3, <3>1, <5>1
      <4> QED
        BY <1>3, <4>1
    <3>3. j > at.index
      BY <1>3, <1>4, <3>2
    <3> QED
      BY <1>1, <1>4, <2>3, <3>1, <3>3 DEF IsAhead
  <2>5. CASE q # p
    <3>1. ~Before(scope[q], scope[p])
      BY <1>3, <2>3 DEF Before
    <3>2. Before(scope[p], scope[q])
      BY <1>5, <2>1, <2>5, <3>1 DEF InARow
    <3>3. \A j \in 1 .. Len(array) : array[j].key < n
      BY <1>3, <2>3, <3>2 DEF Before
    <3> QED
      BY <1>1, <1>4, <2>1, <2>3, <3>3 DEF IsAhead, StandsIn
  <2> QED
    BY <2>4, <2>5
<1> QED
  BY <1>1, <1>4, <1>6 DEF ScanOnItsWay

LEMMA EmptyScan == \A store : ScanOnItsWay(store, Ended, {}) /\ ScanOnItsWay(store, Nowhere, {})
BY DEF ScanOnItsWay

LEMMA AllScanned ==
  ASSUME GrowingInv, todo = Idle
  PROVE  ScanOnItsWay(pages, BeginOfAll, StoredKeys)
<1>0. PICK scope : GrowingShape(scope)
  BY DEF GrowingInv
<1>1. WholeTree /\ InOrderTree(scope)
  BY <1>0 DEF GrowingShape
<1>2. CASE IsEmpty
  <2>1. DOMAIN pages = {}
    BY <1>1, <1>2, WholeTreeFacts DEF IsEmpty
  <2>2. StoredKeys = {}
    BY <2>1, StoredKey
  <2> QED
    BY <1>2, <2>2, EmptyScan DEF BeginOfAll
<1>3. CASE ~IsEmpty
  <2>1. PICK p : p = LeftmostLeaf
    OBVIOUS
  <2>2. /\ p \in DOMAIN pages /\ pages[p].leaf
        /\ \A q \in DOMAIN pages : pages[q].leaf /\ q # p => Before(scope[p], scope[q])
    BY <1>1, <1>3, <2>1, LeftmostIsFirst
  <2>3. \A q \in DOMAIN pages : pages[q].leaf => SoundLeaf(q, scope)
    BY <1>0, GrownLeaf
  <2>4. PICK array : array = pages[p].array
    OBVIOUS
  <2>5. /\ Ascending(array) /\ Len(array) \in Nat /\ array # <<>> /\ 1 \in 1 .. Len(array)
        /\ \A j \in 1 .. Len(array) : array[j].key \in Nat /\ array[j].key \in scope[p]
    <3>1. /\ Ascending(array) /\ Len(array) \in Nat \ {0} /\ array \in Seq(LeafPair)
          /\ \A j \in 1 .. Len(array) : array[j].key \in Nat /\ array[j].key \in scope[p]
      BY <2>2, <2>3, <2>4 DEF SoundLeaf
    <3> QED
      BY <3>1, EmptySeq
  <2>6. ASSUME NEW n \in StoredKeys
        PROVE  array[1].key <= n
    <3>1. PICK q \in DOMAIN pages :
            pages[q].leaf /\ \E j \in 1 .. Len(pages[q].array) : pages[q].array[j].key = n
      BY StoredKey
    <3>2. n \in scope[q] /\ n \in Nat
      BY <2>3, <3>1 DEF SoundLeaf
    <3>3. CASE q = p
      <4>1. PICK j \in 1 .. Len(array) : array[j].key = n
        BY <2>4, <3>1, <3>3
      <4>2. 1 <= j
        OBVIOUS
      <4> QED
        BY <2>5, <4>1, <4>2, AscendingFirst
    <3>4. CASE q # p
      <4>1. array[1].key < n
        BY <2>2, <2>5, <3>1, <3>2, <3>4 DEF Before
      <4> QED
        BY <2>5, <3>2, <4>1
    <3> QED
      BY <3>3, <3>4
  <2>7. BeginOfAll = At(p, 1 - 1)
    <3>1. BeginOfAll = FirstOf(p)
      BY <1>3, <2>1 DEF BeginOfAll
    <3>2. FirstOf(p) = At(p, 0)
      BY <2>4, <2>5 DEF FirstOf
    <3> QED
      BY <3>1, <3>2
  <2>8. ScanOnItsWay(pages, At(p, 1 - 1), StoredKeys)
    BY <1>0, <2>2, <2>4, <2>5, <2>6, BegunOnItsWay
  <2> QED
    BY <2>7, <2>8
<1> QED
  BY <1>2, <1>3

LEMMA KeyScanned ==
  ASSUME GrowingInv, todo = Idle, NEW k \in Keys
  PROVE  ScanOnItsWay(pages, BeginAt(k), {n \in StoredKeys : n >= k})
<1>0. PICK scope : GrowingShape(scope)
  BY DEF GrowingInv
<1>1. PICK at, S : at = BeginAt(k) /\ S = {n \in StoredKeys : n >= k}
  OBVIOUS
<1>2. WholeTree /\ InOrderTree(scope)
  BY <1>0 DEF GrowingShape
<1>3. IF S = {} THEN at = Ended
      ELSE /\ IsPair(at) /\ Item(at).key \in S /\ \A n \in S : Item(at).key <= n
  BY <1>1, BeginFollows DEF BeginIsFirstNotLess
<1>4. CASE S = {}
  BY <1>1, <1>3, <1>4, EmptyScan
<1>5. CASE S # {}
  <2>1. PICK leaf, next, i : /\ leaf = FindLeafPage(k) /\ next = pages[leaf].next
                             /\ i = FirstNotLess(pages[leaf].array, k)
    OBVIOUS
  <2>2. at # Ended /\ at.index \in 0 .. Size(at.page) - 1
    BY <1>3, <1>5 DEF IsPair
  <2>3. ~IsEmpty
    BY <1>1, <2>2 DEF BeginAt
  <2>4. leaf \in DOMAIN pages /\ pages[leaf].leaf
    BY <1>2, <2>1, <2>3, SearchInScope, <1>0
  <2>5. next # INVALID_PAGE_ID => next \in DOMAIN pages /\ pages[next].leaf
    <3>1. LinkedFrom(pages, scope, leaf)
      BY <1>2, <2>4 DEF InOrderTree, Ordered, Linked
    <3> QED
      BY <2>1, <2>4, <3>1 DEF LinkedFrom, Follows
  <2>6. at = At(leaf, i - 1) \/ (next # INVALID_PAGE_ID /\ at = At(next, 0))
    <3>1. FirstOf(next) = Ended \/ FirstOf(next) = At(next, 0)
      BY DEF FirstOf
    <3>2. BeginAt(k) = IF IsEmpty THEN Ended
                       ELSE IF i # 0 THEN At(leaf, i - 1)
                       ELSE IF next = INVALID_PAGE_ID THEN Ended ELSE FirstOf(next)
      BY <2>1 DEF BeginAt
    <3> QED
      BY <1>1, <2>2, <3>1, <3>2
  <2>7. PICK p \in DOMAIN pages : pages[p].leaf /\ \E m : at = At(p, m)
    BY <2>4, <2>5, <2>6
  <2>8. PICK m : at = At(p, m)
    BY <2>7
  <2>9. at.page = p /\ at.index = m
    BY <2>8 DEF At
  <2>10. m + 1 \in 1 .. Len(pages[p].array) /\ (m + 1) - 1 = m
    <3>1. Len(pages[p].array) \in Nat
      BY <1>0, <2>7, GrownLeaf DEF SoundLeaf
    <3> QED
      BY <2>2, <2>9, <3>1 DEF Size
  <2>11. \A n \in S : pages[p].array[m + 1].key <= n
    BY <1>3, <1>5, <2>9 DEF Item
  <2>12. S \subseteq StoredKeys
    BY <1>1
  <2>13. PICK j \in 1 .. Len(pages[p].array) : j = m + 1
    BY <2>10
  <2>14. ScanOnItsWay(pages, At(p, j - 1), S)
    BY <1>0, <2>7, <2>11, <2>12, <2>13, BegunOnItsWay
  <2> QED
    BY <1>1, <2>8, <2>10, <2>13, <2>14
<1> QED
  BY <1>4, <1>5

\* Where a scan is that stands in a leaf, or is on its way to one.
LEMMA ScanPlace ==
  ASSUME NEW i \in Iterators, ScansOnTheirWay, Standing(i) \/ Leaving(i)
  PROVE  /\ InLeaf(pages, it[i]) /\ due[i] \subseteq Nat
         /\ \A k \in due[i] : IsAhead(pages, it[i], k)
<1>1. ScanOnItsWay(pages, it[i], due[i])
  BY DEF ScansOnTheirWay
<1>2. it[i] \notin {Nowhere, Ended}
  BY DEF Standing, Leaving, Ended
<1> QED
  BY <1>1, <1>2 DEF ScanOnItsWay

LEMMA AdvancedOnItsWay ==
  ASSUME GrowingInv, ScansOnTheirWay, NEW i \in Iterators, Standing(i),
         NEW keys, keys = due[i] \ Here(i)
  PROVE  ScanOnItsWay(pages, AfterIn(it[i], Size(it[i].page), pages[it[i].page].next), keys)
<1>0. PICK scope : GrowingShape(scope)
  BY DEF GrowingInv
<1>1. PICK at, p, n, array, next, size :
        /\ at = it[i] /\ p = at.page /\ n = at.index /\ array = pages[p].array
        /\ next = pages[p].next /\ size = Len(array)
  OBVIOUS
<1>2. InLeaf(pages, at) /\ due[i] \subseteq Nat /\ \A k \in due[i] : IsAhead(pages, at, k)
  BY <1>1, ScanPlace
<1>3. /\ p \in DOMAIN pages /\ pages[p].leaf /\ n \in Nat /\ at # Ended
  BY <1>1, <1>2 DEF InLeaf, Standing, Ended
<1>4. SoundLeaf(p, scope)
  BY <1>0, <1>3, GrownLeaf
<1>5. size \in Nat \ {0} /\ Size(p) = size /\ p # INVALID_PAGE_ID
  BY <1>1, <1>4 DEF SoundLeaf, Size
<1>6. n < size => keys = due[i] \ {array[n + 1].key}
  BY <1>1, <1>3, <1>5 DEF Here, IsPair, Item
<1>7. keys \subseteq due[i]
  OBVIOUS
\* What is behind the position and still owed is behind the next position.
<1>8. ASSUME NEW k \in keys
      PROVE  \/ \E j \in 1 .. size : j > n + 1 /\ array[j].key = k
             \/ /\ \A j \in 1 .. size : array[j].key < k
                /\ \E q \in DOMAIN pages : pages[q].leaf /\ StandsIn(pages[q].array, k)
  <2>1. IsAhead(pages, at, k)
    BY <1>2, <1>7
  <2>2. ASSUME NEW j \in 1 .. size, j > n, array[j].key = k
        PROVE  j > n + 1
    <3>1. CASE j = n + 1
      <4>1. n < size
        BY <1>3, <1>5, <3>1
      <4> QED
        BY <1>6, <2>2, <3>1, <4>1
    <3> QED
      BY <1>3, <1>5, <2>2, <3>1
  <2> QED
    BY <1>1, <2>1, <2>2 DEF IsAhead
<1>9. CASE n + 1 < size
  <2>1. PICK to : to = At(p, n + 1)
    OBVIOUS
  <2>2. to.page = p /\ to.index = n + 1 /\ InLeaf(pages, to)
    BY <1>3, <2>1 DEF At, InLeaf
  <2>3. AfterIn(at, size, next) = to
    BY <1>1, <1>9, <2>1 DEF AfterIn
  <2>4. \A k \in keys : IsAhead(pages, to, k)
    BY <1>1, <1>8, <2>2 DEF IsAhead
  <2>5. ScanOnItsWay(pages, to, keys)
    BY <1>2, <1>7, <2>2, <2>4 DEF ScanOnItsWay
  <2> QED
    BY <1>1, <1>5, <2>3, <2>5
<1>10. CASE ~(n + 1 < size)
  <2>1. ASSUME NEW k \in keys
        PROVE  \E q \in DOMAIN pages : /\ Follows(pages, scope, p, q) /\ k \in scope[q]
                                       /\ StandsIn(pages[q].array, k)
    <3>1. ~\E j \in 1 .. size : j > n + 1 /\ array[j].key = k
      BY <1>3, <1>5, <1>10
    <3>2. PICK q \in DOMAIN pages : pages[q].leaf /\ StandsIn(pages[q].array, k)
      BY <1>8, <3>1
    <3>3. \A j \in 1 .. Len(pages[p].array) : pages[p].array[j].key < k
      BY <1>1, <1>8, <3>1
    <3>4. Before(scope[p], scope[q]) /\ k \in scope[q]
      BY <1>0, <1>3, <3>2, <3>3, BehindTheScope
    <3> QED
      BY <3>2, <3>4 DEF Follows
  <2>2. LinkedFrom(pages, scope, p)
    BY <1>0, <1>3 DEF GrowingShape, InOrderTree, Ordered, Linked
  <2>3. CASE next = INVALID_PAGE_ID
    <3>1. keys = {}
      BY <1>1, <1>3, <2>1, <2>2, <2>3 DEF LinkedFrom
    <3>2. AfterIn(at, size, next) = Ended
      BY <1>1, <1>10, <2>3 DEF AfterIn, AfterLeaf
    <3> QED
      BY <1>1, <1>5, <3>1, <3>2, EmptyScan
  <2>4. CASE next # INVALID_PAGE_ID
    <3>1. PICK to : to = OnTheWayTo(next)
      OBVIOUS
    <3>2. /\ next \in DOMAIN pages /\ pages[next].leaf
          /\ \A q \in DOMAIN pages : Follows(pages, scope, p, q) =>
               q = next \/ Before(scope[next], scope[q])
      BY <1>1, <1>3, <2>2, <2>4 DEF LinkedFrom, Follows
    <3>3. to.page = next /\ to.index = -1 /\ InLeaf(pages, to)
      BY <3>1, <3>2 DEF OnTheWayTo, InLeaf
    <3>4. AfterIn(at, size, next) = to
      BY <1>1, <1>10, <2>4, <3>1 DEF AfterIn, AfterLeaf
    <3>5. ASSUME NEW k \in keys
          PROVE  IsAhead(pages, to, k)
      <4>1. PICK q \in DOMAIN pages : /\ Follows(pages, scope, p, q) /\ k \in scope[q]
                                      /\ StandsIn(pages[q].array, k)
        BY <2>1
      <4>2. CASE q = next
        <5>1. PICK j \in 1 .. Len(pages[next].array) : pages[next].array[j].key = k
          BY <4>1, <4>2 DEF StandsIn
        <5>2. j > to.index
          BY <3>3
        <5> QED
          BY <3>3, <5>1, <5>2 DEF IsAhead
      <4>3. CASE Before(scope[next], scope[q])
        <5>1. \A j \in 1 .. Len(pages[next].array) : pages[next].array[j].key < k
          BY <1>0, <3>2, <4>1, <4>3, GrownLeaf DEF SoundLeaf, Before
        <5> QED
          BY <3>3, <4>1, <5>1 DEF IsAhead, Follows
      <4> QED
        BY <3>2, <4>1, <4>2, <4>3
    <3>6. ScanOnItsWay(pages, to, keys)
      BY <1>2, <1>7, <3>3, <3>5 DEF ScanOnItsWay
    <3> QED
      BY <1>1, <1>5, <3>4, <3>6
  <2> QED
    BY <2>3, <2>4
<1> QED
  BY <1>9, <1>10

LEMMA EnteredOnItsWay ==
  ASSUME GrowingInv, ScansOnTheirWay, NEW i \in Iterators, Leaving(i)
  PROVE  ScanOnItsWay(pages, Enter(it[i].page), due[i])
<1>0. PICK scope : GrowingShape(scope)
  BY DEF GrowingInv
<1>1. PICK at, p, to, array :
        at = it[i] /\ p = at.page /\ to = At(p, 0) /\ array = pages[p].array
  OBVIOUS
<1>2. InLeaf(pages, at) /\ due[i] \subseteq Nat /\ \A k \in due[i] : IsAhead(pages, at, k)
  BY <1>1, ScanPlace
<1>3. p \in DOMAIN pages /\ pages[p].leaf
  BY <1>1, <1>2 DEF InLeaf
<1>4. array # <<>>
  <2>1. Len(array) \in Nat \ {0} /\ array \in Seq(LeafPair)
    BY <1>0, <1>1, <1>3, GrownLeaf DEF SoundLeaf
  <2> QED
    BY <2>1, EmptySeq
<1>5. Enter(p) = to
  BY <1>1, <1>4 DEF Enter, FirstOf
<1>6. to.page = p /\ to.index = 0 /\ InLeaf(pages, to)
  BY <1>1, <1>3 DEF At, InLeaf
<1>7. \A j \in 1 .. Len(array) : j > to.index
  BY <1>6
<1>8. \A k \in due[i] : IsAhead(pages, to, k)
  BY <1>1, <1>2, <1>6, <1>7 DEF IsAhead
<1>9. ScanOnItsWay(pages, to, due[i])
  BY <1>2, <1>6, <1>8 DEF ScanOnItsWay
<1> QED
  BY <1>1, <1>5, <1>9

\* The halves of a leaf and the leaves behind it, seen from a greater key.
LEMMA HalvesBefore ==
  ASSUME GrowingInv, NEW scope, GrowingShape(scope),
         NEW leaf, NEW k, NEW v, NEW m, NEW key, NEW N,
         LeafFor(leaf, scope, k), LeafHalved(leaf, k, v, m, key, N),
         NEW q \in DOMAIN pages, pages[q].leaf, NEW x, StandsIn(pages[q].array, x),
         \A j \in 1 .. Len(pages[leaf].array) : pages[leaf].array[j].key < x
  PROVE  /\ q # leaf /\ Before(scope[leaf], scope[q]) /\ x \in scope[q] /\ x \in Nat
         /\ q \in DOMAIN pages' /\ pages'[q].leaf /\ StandsIn(pages'[q].array, x)
         /\ \A j \in 1 .. Len(pages'[leaf].array) : pages'[leaf].array[j].key < x
         /\ \A j \in 1 .. Len(pages'[N].array) : pages'[N].array[j].key < x
<1>1. PICK a, r, b : a = pages[leaf].array /\ r = pages'[leaf].array /\ b = pages'[N].array
  OBVIOUS
<1>2. /\ leaf \in DOMAIN pages /\ pages[leaf].leaf /\ k \in scope[leaf]
      /\ \A e \in PairsIn(a) : e.key \in scope[leaf]
      /\ PairsIn(r) \cup PairsIn(b) = PairsIn(a) \cup {Pair(k, v)}
      /\ DOMAIN pages' = DOMAIN pages \cup {N}
      /\ \A p \in DOMAIN pages \ {leaf} : Agree(pages, pages', p)
  BY <1>1 DEF LeafFor, LeafHalved
<1>3. /\ q # leaf /\ Before(scope[leaf], scope[q]) /\ x \in scope[q] /\ x \in Nat
      /\ \A y \in scope[leaf] : y < x
  BY <1>2, BehindTheScope
<1>4. q \in DOMAIN pages' /\ pages'[q].leaf /\ StandsIn(pages'[q].array, x)
  BY <1>2, <1>3 DEF Agree
<1>5. \A e \in PairsIn(r) \cup PairsIn(b) : e.key < x
  <2>1. Pair(k, v).key = k
    BY DEF Pair
  <2> QED
    BY <1>2, <1>3, <2>1
<1>6. \A j \in 1 .. Len(r) : r[j].key < x
  BY <1>5 DEF PairsIn
<1>7. \A j \in 1 .. Len(b) : b[j].key < x
  BY <1>5 DEF PairsIn
<1> QED
  BY <1>1, <1>3, <1>4, <1>6, <1>7

\* A scan that reads a leaf in the middle of its split goes on in the leaf, to one of its
\* two siblings, or to the end.  Keys of other leaves stay ahead of it.
LEMMA SplitUnderScan ==
  ASSUME GrowingInv, GrowingInv', ScansOnTheirWay, NEW i \in Iterators, Standing(i),
         NEW k \in Keys, NEW v \in Values, SplitLeaf(k, v), it[i].page = FindLeafPage(k),
         NEW size \in 0 .. LeafMax, NEW next \in {pages[it[i].page].next, NewPageId},
         NEW keys \in SUBSET due[i], keys \cap KeysOf(it[i].page) = {}
  PROVE  ScanOnItsWay(pages', AfterIn(it[i], size, next), keys)
<1>0. PICK scope : GrowingShape(scope)
  BY DEF GrowingInv
<1>1. PICK at, p, n : at = it[i] /\ p = at.page /\ n = at.index
  OBVIOUS
<1>2. /\ InLeaf(pages, at) /\ keys \subseteq Nat
      /\ \A x \in keys : IsAhead(pages, at, x)
  BY <1>1, ScanPlace
<1>3. p \in DOMAIN pages /\ pages[p].leaf /\ n \in Nat
  BY <1>1, <1>2 DEF InLeaf, Standing
<1>4. PICK m, key, N : LeafFor(p, scope, k) /\ LeafHalved(p, k, v, m, key, N) /\ N = NewPageId
  <2>1. WholeTree /\ InOrder(pages) /\ InOrderTree(scope)
    BY <1>0 DEF GrowingShape
  <2>2. PICK leaf, m, key, N : LeafFor(leaf, scope, k) /\ LeafHalved(leaf, k, v, m, key, N)
    BY <2>1, SplitLeafEffect
  <2>3. todo'.old = leaf /\ todo'.new = N
    BY <2>2 DEF LeafHalved, SplitCall
  <2>4. todo'.old = FindLeafPage(k) /\ todo'.new = NewPageId
    BY DEF SplitLeaf
  <2> QED
    BY <1>1, <2>2, <2>3, <2>4
<1>5. /\ p \in DOMAIN pages' /\ pages'[p].leaf
      /\ N \in DOMAIN pages' /\ pages'[N].leaf /\ N # INVALID_PAGE_ID
      /\ \A q \in DOMAIN pages \ {p} : Agree(pages, pages', q) /\ q \in DOMAIN pages'
  BY <1>3, <1>4 DEF LeafHalved
<1>6. ASSUME NEW x \in keys
      PROVE  /\ \A j \in 1 .. Len(pages[p].array) : pages[p].array[j].key < x
             /\ \E q \in DOMAIN pages : pages[q].leaf /\ StandsIn(pages[q].array, x)
  <2>1. x \notin KeysOf(p)
    BY <1>1
  <2>2. \A j \in 1 .. Len(pages[p].array) : pages[p].array[j].key # x
    BY <2>1 DEF KeysOf, PairsOf, Size
  <2> QED
    BY <1>1, <1>2, <2>2 DEF IsAhead
<1>7. ASSUME NEW to, to.page \in {p, N}, NEW x \in keys
      PROVE  IsAhead(pages', to, x)
  <2>1. PICK q \in DOMAIN pages : pages[q].leaf /\ StandsIn(pages[q].array, x)
    BY <1>6
  <2>2. /\ q \in DOMAIN pages' /\ pages'[q].leaf /\ StandsIn(pages'[q].array, x)
        /\ \A j \in 1 .. Len(pages'[p].array) : pages'[p].array[j].key < x
        /\ \A j \in 1 .. Len(pages'[N].array) : pages'[N].array[j].key < x
    BY <1>0, <1>4, <1>6, <2>1, HalvesBefore
  <2> QED
    BY <1>7, <2>2 DEF IsAhead
<1>8. LinkedFrom(pages, scope, p)
  BY <1>0, <1>3 DEF GrowingShape, InOrderTree, Ordered, Linked
<1>9. CASE n + 1 < size
  <2>1. PICK to : to = At(p, n + 1)
    OBVIOUS
  <2>2. AfterIn(at, size, next) = to
    BY <1>1, <1>9, <2>1 DEF AfterIn
  <2>3. to.page = p /\ InLeaf(pages', to)
    BY <1>3, <1>5, <2>1 DEF At, InLeaf
  <2> QED
    BY <1>1, <1>2, <1>7, <2>2, <2>3 DEF ScanOnItsWay
<1>10. CASE ~(n + 1 < size) /\ next = INVALID_PAGE_ID
  <2>1. next = pages[p].next
    BY <1>1, <1>4, <1>5, <1>10
  <2>2. ASSUME NEW x \in keys
        PROVE  FALSE
    <3>1. PICK q \in DOMAIN pages : pages[q].leaf /\ StandsIn(pages[q].array, x)
      BY <1>6
    <3>2. Before(scope[p], scope[q])
      BY <1>0, <1>4, <1>6, <3>1, HalvesBefore
    <3>3. Follows(pages, scope, p, q)
      BY <3>1, <3>2 DEF Follows
    <3> QED
      BY <1>3, <1>8, <1>10, <2>1, <3>3 DEF LinkedFrom
  <2>3. keys = {} /\ AfterIn(at, size, next) = Ended
    BY <1>1, <1>10, <2>2 DEF AfterIn, AfterLeaf
  <2> QED
    BY <1>1, <2>3, EmptyScan
<1>11. CASE ~(n + 1 < size) /\ next # INVALID_PAGE_ID
  <2>1. PICK to : to = OnTheWayTo(next)
    OBVIOUS
  <2>2. to.page = next /\ to.index = -1 /\ AfterIn(at, size, next) = to
    BY <1>1, <1>11, <2>1 DEF AfterIn, AfterLeaf, OnTheWayTo
  <2>3. CASE next = N
    <3>1. InLeaf(pages', to)
      BY <1>5, <2>1, <2>2, <2>3 DEF OnTheWayTo, InLeaf
    <3> QED
      BY <1>1, <1>2, <1>7, <2>2, <2>3, <3>1 DEF ScanOnItsWay
  <2>4. CASE next = pages[p].next
    <3>1. /\ next \in DOMAIN pages /\ pages[next].leaf /\ Before(scope[p], scope[next])
          /\ \A q \in DOMAIN pages : Follows(pages, scope, p, q) =>
               q = next \/ Before(scope[next], scope[q])
      BY <1>8, <1>11, <2>4 DEF LinkedFrom, Follows
    <3>2. next # p
      <4>1. scope[p] \in SUBSET Nat /\ scope[p] # {}
        BY <1>0, <1>3, GrownLeaf DEF SoundLeaf
      <4> QED
        BY <3>1, <4>1, NotBeforeItself
    <3>3. /\ next \in DOMAIN pages' /\ pages'[next].leaf
          /\ pages'[next].array = pages[next].array
      BY <1>5, <3>1, <3>2 DEF Agree
    <3>4. InLeaf(pages', to)
      BY <2>1, <2>2, <3>3 DEF OnTheWayTo, InLeaf
    <3>5. ASSUME NEW x \in keys
          PROVE  IsAhead(pages', to, x)
      <4>1. PICK q \in DOMAIN pages : pages[q].leaf /\ StandsIn(pages[q].array, x)
        BY <1>6
      <4>2. /\ Before(scope[p], scope[q]) /\ x \in scope[q] /\ x \in Nat
            /\ q \in DOMAIN pages' /\ pages'[q].leaf /\ StandsIn(pages'[q].array, x)
        BY <1>0, <1>4, <1>6, <4>1, HalvesBefore
      <4>3. CASE q = next
        <5>1. PICK j \in 1 .. Len(pages'[next].array) : pages'[next].array[j].key = x
          BY <4>2, <4>3 DEF StandsIn
        <5>2. j > to.index
          BY <2>2
        <5> QED
          BY <2>2, <5>1, <5>2 DEF IsAhead
      <4>4. CASE Before(scope[next], scope[q])
        <5>1. \A j \in 1 .. Len(pages[next].array) : pages[next].array[j].key < x
          BY <1>0, <3>1, <4>2, <4>4, GrownLeaf DEF SoundLeaf, Before
        <5> QED
          BY <2>2, <3>3, <4>2, <5>1 DEF IsAhead
      <4> QED
        BY <3>1, <4>1, <4>2, <4>3, <4>4 DEF Follows
    <3> QED
      BY <1>1, <1>2, <2>2, <3>4, <3>5 DEF ScanOnItsWay
  <2> QED
    BY <1>1, <1>4, <2>3, <2>4
<1> QED
  BY <1>9, <1>10, <1>11

LEMMA InitScans == IteratorsInit => ScansOnTheirWay
BY EmptyScan DEF IteratorsInit, ScansOnTheirWay

LEMMA RestingScans ==
  ASSUME GrowingInv, GrowingInv', ScansOnTheirWay, [InsertNext]_vars,
         NEW i \in Iterators, it'[i] = it[i], due'[i] = due[i]
  PROVE  ScanOnItsWay(pages', it'[i], due'[i])
<1>1. LeavesKept(pages, pages')
  BY InsertNextKeepsLeaves
<1>2. ScanOnItsWay(pages, it[i], due[i])
  BY DEF ScansOnTheirWay
<1> QED
  BY <1>1, <1>2, RestingScan

\* One scan goes a step, the others rest.
ScanGoes(i, at, keys) ==
  /\ DOMAIN it' = Iterators /\ it'[i] = at
  /\ DOMAIN due' = Iterators /\ due'[i] = keys
  /\ \A j \in Iterators \ {i} : it'[j] = it[j] /\ due'[j] = due[j]

LEMMA OneScanGoes ==
  ASSUME GrowingInv, GrowingInv', ScansOnTheirWay, [InsertNext]_vars,
         NEW i \in Iterators, NEW at, NEW keys, ScanGoes(i, at, keys),
         ScanOnItsWay(pages', at, keys)
  PROVE  ScansOnTheirWay'
<1>1. /\ DOMAIN it' = Iterators /\ DOMAIN due' = Iterators
      /\ it'[i] = at /\ due'[i] = keys
      /\ \A j \in Iterators \ {i} : it'[j] = it[j] /\ due'[j] = due[j]
  BY DEF ScanGoes
<1>2. \A j \in Iterators \ {i} : ScanOnItsWay(pages', it'[j], due'[j])
  BY <1>1, RestingScans
<1>3. ScanOnItsWay(pages', it'[i], due'[i])
  BY <1>1
<1> QED
  BY <1>1, <1>2, <1>3 DEF ScansOnTheirWay

\* A step of a scan beside a tree that rests.
LEMMA ScanStep ==
  ASSUME GrowingInv, GrowingInv', ScansOnTheirWay, UNCHANGED vars,
         NEW i \in Iterators, NEW at, NEW keys, ScanGoes(i, at, keys),
         ScanOnItsWay(pages, at, keys)
  PROVE  ScansOnTheirWay'
<1>1. pages' = pages /\ [InsertNext]_vars
  BY DEF vars
<1>2. ScanOnItsWay(pages', at, keys)
  BY <1>1
<1> QED
  BY <1>1, <1>2, OneScanGoes

LEMMA ScansStayOnTheirWay ==
  ASSUME GrowingInv, GrowingInv', ScansOnTheirWay, [GrowingScanNext]_ivars
  PROVE  ScansOnTheirWay'
<1>1. ASSUME [InsertNext]_vars, UNCHANGED <<it, due>>
      PROVE  ScansOnTheirWay'
  BY <1>1, RestingScans DEF ScansOnTheirWay
<1>2. ASSUME NEW i \in Iterators, Advance(i)
      PROVE  ScansOnTheirWay'
  <2>1. PICK at, keys :
          /\ at = AfterIn(it[i], Size(it[i].page), pages[it[i].page].next)
          /\ keys = due[i] \ Here(i)
    OBVIOUS
  <2>2. Standing(i) /\ UNCHANGED vars /\ ScanGoes(i, at, keys)
    BY <1>2, <2>1 DEF Advance, ScanGoes, ScansOnTheirWay
  <2>3. ScanOnItsWay(pages, at, keys)
    BY <2>1, <2>2, AdvancedOnItsWay
  <2> QED
    BY <2>2, <2>3, ScanStep
<1>3. ASSUME NEW i \in Iterators, EnterNextLeaf(i)
      PROVE  ScansOnTheirWay'
  <2>1. PICK at, keys : at = Enter(it[i].page) /\ keys = due[i]
    OBVIOUS
  <2>2. Leaving(i) /\ UNCHANGED vars /\ ScanGoes(i, at, keys)
    BY <1>3, <2>1 DEF EnterNextLeaf, ScanGoes, ScansOnTheirWay
  <2>3. ScanOnItsWay(pages, at, keys)
    BY <2>1, <2>2, EnteredOnItsWay
  <2> QED
    BY <2>2, <2>3, ScanStep
<1>4. ASSUME NEW i \in Iterators, NEW at, NEW keys, Begin(i, at, keys),
             ScanOnItsWay(pages, at, keys)
      PROVE  ScansOnTheirWay'
  <2>1. UNCHANGED vars /\ ScanGoes(i, at, keys)
    BY <1>4 DEF Begin, ScanGoes, ScansOnTheirWay
  <2> QED
    BY <1>4, <2>1, ScanStep
<1>5. ASSUME NEW i \in Iterators, BeginScan(i)
      PROVE  ScansOnTheirWay'
  <2>1. todo = Idle
    BY <1>5 DEF BeginScan, Begin
  <2>2. CASE Begin(i, BeginOfAll, StoredKeys)
    BY <1>4, <2>1, <2>2, AllScanned
  <2>3. ASSUME NEW k \in Keys, Begin(i, BeginAt(k), {n \in StoredKeys : n >= k})
        PROVE  ScansOnTheirWay'
    <3>1. ScanOnItsWay(pages, BeginAt(k), {n \in StoredKeys : n >= k})
      BY <2>1, KeyScanned
    <3> QED
      BY <1>4, <2>3, <3>1
  <2> QED
    BY <1>5, <2>2, <2>3 DEF BeginScan
<1>6. ASSUME NEW i \in Iterators, NextLeafUnavailable(i) \/ Destroy(i)
      PROVE  ScansOnTheirWay'
  <2>1. PICK at \in {Nowhere, Ended} : UNCHANGED vars /\ ScanGoes(i, at, {})
    BY <1>6 DEF NextLeafUnavailable, Destroy, ScanGoes, ScansOnTheirWay
  <2>2. ScanOnItsWay(pages, at, {})
    BY EmptyScan
  <2> QED
    BY <2>1, <2>2, ScanStep
<1>7. ASSUME NEW i \in Iterators, NEW k \in Keys, NEW v \in Values, AdvanceDuringSplit(i, k, v)
      PROVE  ScansOnTheirWay'
  <2>1. PICK size \in 0 .. LeafMax, next \in {pages[it[i].page].next, NewPageId} :
          it' = [it EXCEPT ![i] = AfterIn(it[i], size, next)]
    BY <1>7 DEF AdvanceDuringSplit, ScansOnTheirWay
  <2>2. PICK at, keys : /\ at = AfterIn(it[i], size, next)
                        /\ keys = due[i] \ (Here(i) \cup KeysOf(it[i].page))
    OBVIOUS
  <2>3. /\ Standing(i) /\ SplitLeaf(k, v) /\ it[i].page = FindLeafPage(k)
        /\ ScanGoes(i, at, keys) /\ InsertNext
    BY <1>7, <2>1, <2>2 DEF AdvanceDuringSplit, ScanGoes, InsertNext, ScansOnTheirWay
  <2>4. ScanOnItsWay(pages', at, keys)
    BY <2>2, <2>3, SplitUnderScan
  <2> QED
    BY <2>3, <2>4, OneScanGoes
<1> QED
  BY <1>1, <1>2, <1>3, <1>5, <1>6, <1>7
     DEF GrowingScanNext, IteratorNext, IteratorStep, ivars

LEMMA ScansInvariance == GrowingScanSpec => []ScansOnTheirWay
<1>1. GrowingScanSpec => []GrowingInv
  BY ScansLetTheTreeGrow, GrowingInvariance, PTL
<1>2. GrowingInv /\ GrowingInv' /\ ScansOnTheirWay /\ [GrowingScanNext]_ivars => ScansOnTheirWay'
  BY ScansStayOnTheirWay
<1> QED
  BY <1>1, <1>2, InitScans, PTL DEF GrowingScanSpec

\* The keys in the leaves that follow.
KeysAfter(scope, p) ==
  UNION {KeysOf(q) : q \in {r \in DOMAIN pages : Follows(pages, scope, p, r)}}

LEMMA KeysAfterUnfold ==
  ASSUME NEW scope, GrowingShape(scope), NEW p \in DOMAIN pages, pages[p].leaf,
         NEW next, next = pages[p].next
  PROVE  /\ next = INVALID_PAGE_ID => KeysAfter(scope, p) = {}
         /\ next # INVALID_PAGE_ID =>
              /\ next \in DOMAIN pages /\ Follows(pages, scope, p, next)
              /\ KeysAfter(scope, p) = KeysOf(next) \cup KeysAfter(scope, next)
<1>1. LinkedFrom(pages, scope, p)
  BY DEF GrowingShape, InOrderTree, Ordered, Linked
<1>2. CASE next = INVALID_PAGE_ID
  <2>1. \A q \in DOMAIN pages : ~Follows(pages, scope, p, q)
    BY <1>1, <1>2 DEF LinkedFrom
  <2> QED
    BY <1>2, <2>1 DEF KeysAfter
<1>3. CASE next # INVALID_PAGE_ID
  <2>1. /\ next \in DOMAIN pages /\ Follows(pages, scope, p, next)
        /\ \A q \in DOMAIN pages : Follows(pages, scope, p, q) =>
             q = next \/ Before(scope[next], scope[q])
    BY <1>1, <1>3 DEF LinkedFrom
  <2>2. pages[next].leaf /\ Before(scope[p], scope[next])
    BY <2>1 DEF Follows
  <2>3. \A q \in DOMAIN pages :
          Follows(pages, scope, p, q) => q = next \/ Follows(pages, scope, next, q)
    BY <2>1 DEF Follows
  <2>4. ASSUME NEW q \in DOMAIN pages, Follows(pages, scope, next, q)
        PROVE  Follows(pages, scope, p, q)
    <3>1. pages[q].leaf /\ Before(scope[next], scope[q])
      BY <2>4 DEF Follows
    <3>2. /\ scope[p] \in SUBSET Nat /\ scope[next] \in SUBSET Nat /\ scope[q] \in SUBSET Nat
          /\ scope[next] # {}
      BY <2>1, <2>2, <3>1, GrownLeaf DEF SoundLeaf
    <3>3. Before(scope[p], scope[q])
      BY <2>2, <3>1, <3>2 DEF Before
    <3> QED
      BY <3>1, <3>3 DEF Follows
  <2>5. KeysAfter(scope, p) = KeysOf(next) \cup KeysAfter(scope, next)
    BY <2>1, <2>3, <2>4 DEF KeysAfter
  <2> QED
    BY <1>3, <2>1, <2>5
<1> QED
  BY <1>2, <1>3

\* The function that collects what is in a leaf and behind it.
Collects(f) ==
  f = [p \in DOMAIN pages \cup {INVALID_PAGE_ID} |->
         IF p = INVALID_PAGE_ID THEN {} ELSE KeysOf(p) \cup f[pages[p].next]]

LEMMA CollectorExists ==
  ASSUME NEW scope, GrowingShape(scope)
  PROVE  \E f : Collects(f)
<1>1. PICK D : D = DOMAIN pages
  OBVIOUS
<1>2. PICK f : f = [p \in D \cup {INVALID_PAGE_ID} |->
                      IF p = INVALID_PAGE_ID THEN {}
                      ELSE IF pages[p].leaf THEN KeysOf(p) \cup KeysAfter(scope, p) ELSE KeysOf(p)]
  OBVIOUS
<1>3. INVALID_PAGE_ID \notin D
  BY <1>1, WholeTreeFacts DEF GrowingShape
<1>4. /\ f[INVALID_PAGE_ID] = {}
      /\ \A p \in D : f[p] = IF pages[p].leaf THEN KeysOf(p) \cup KeysAfter(scope, p) ELSE KeysOf(p)
  BY <1>2, <1>3
<1>5. ASSUME NEW p \in D
      PROVE  f[p] = KeysOf(p) \cup f[pages[p].next]
  <2>1. CASE pages[p].leaf
    <3>1. PICK next : next = pages[p].next
      OBVIOUS
    <3>2. CASE next = INVALID_PAGE_ID
      BY <1>1, <1>4, <2>1, <3>1, <3>2, KeysAfterUnfold
    <3>3. CASE next # INVALID_PAGE_ID
      <4>1. /\ next \in DOMAIN pages /\ Follows(pages, scope, p, next)
            /\ KeysAfter(scope, p) = KeysOf(next) \cup KeysAfter(scope, next)
        BY <1>1, <2>1, <3>1, <3>3, KeysAfterUnfold
      <4> QED
        BY <1>1, <1>4, <2>1, <3>1, <4>1 DEF Follows
    <3> QED
      BY <3>2, <3>3
  <2>2. CASE ~pages[p].leaf
    <3>1. pages[p].next = INVALID_PAGE_ID
      <4>1. LinkedFrom(pages, scope, p)
        BY <1>1 DEF GrowingShape, InOrderTree, Ordered, Linked
      <4> QED
        BY <2>2, <4>1 DEF LinkedFrom
    <3> QED
      BY <1>4, <2>2, <3>1
  <2> QED
    BY <2>1, <2>2
<1>6. Collects(f)
  BY <1>1, <1>2, <1>3, <1>4, <1>5 DEF Collects
<1> QED
  BY <1>6

\* By the number of leaves that follow.
LEMMA CollectsAll ==
  ASSUME NEW scope, GrowingShape(scope), NEW f, Collects(f),
         NEW p \in DOMAIN pages, pages[p].leaf
  PROVE  KeysOf(p) \cup KeysAfter(scope, p) \subseteq f[p]
<1> DEFINE F(q) == {r \in DOMAIN pages : Follows(pages, scope, q, r)}
           Bad == {q \in DOMAIN pages :
                     pages[q].leaf /\ ~(KeysOf(q) \cup KeysAfter(scope, q) \subseteq f[q])}
           C == {Cardinality(F(q)) : q \in Bad}
<1>1. SUFFICES ASSUME Bad # {}
               PROVE  FALSE
  OBVIOUS
<1>2. IsFiniteSet(DOMAIN pages) /\ INVALID_PAGE_ID \notin DOMAIN pages
  BY WholeTreeFacts DEF GrowingShape, PagesTyped
<1>3. \A q : IsFiniteSet(F(q)) /\ Cardinality(F(q)) \in Nat
  BY <1>2, FS_Subset, FS_CardinalityType
<1>4. C \in SUBSET Nat /\ C # {}
  BY <1>1, <1>3
<1>5. PICK q \in Bad : \A r \in Bad : Cardinality(F(q)) <= Cardinality(F(r))
  <2> HIDE DEF C
  <2>1. PICK c \in C : \A d \in C : c <= d
    BY <1>4, LeastExists
  <2> QED
    BY ZenonT(40), <2>1 DEF C
<1>6. q \in DOMAIN pages /\ pages[q].leaf /\ ~(KeysOf(q) \cup KeysAfter(scope, q) \subseteq f[q])
  OBVIOUS
<1>7. PICK next : next = pages[q].next
  OBVIOUS
<1>8. f[q] = KeysOf(q) \cup f[next]
  BY <1>2, <1>6, <1>7 DEF Collects
<1>9. CASE next = INVALID_PAGE_ID
  BY <1>6, <1>7, <1>8, <1>9, KeysAfterUnfold
<1>10. CASE next # INVALID_PAGE_ID
  <2>1. /\ next \in DOMAIN pages /\ Follows(pages, scope, q, next)
        /\ KeysAfter(scope, q) = KeysOf(next) \cup KeysAfter(scope, next)
    BY <1>6, <1>7, <1>10, KeysAfterUnfold
  <2>2. pages[next].leaf /\ Before(scope[q], scope[next])
    BY <2>1 DEF Follows
  <2>3. next \in Bad
    BY <1>6, <1>8, <2>1, <2>2
  <2>4. next \in F(q) /\ next \notin F(next)
    <3>1. scope[next] \in SUBSET Nat /\ scope[next] # {}
      BY <2>1, <2>2, GrownLeaf DEF SoundLeaf
    <3> QED
      BY <2>1, <3>1, NotBeforeItself DEF Follows
  <2>5. F(next) \subseteq F(q)
    <3> SUFFICES ASSUME NEW r \in DOMAIN pages, Follows(pages, scope, next, r)
                 PROVE  Follows(pages, scope, q, r)
      OBVIOUS
    <3>1. pages[r].leaf /\ Before(scope[next], scope[r])
      BY DEF Follows
    <3>2. /\ scope[q] \in SUBSET Nat /\ scope[next] \in SUBSET Nat /\ scope[r] \in SUBSET Nat
          /\ scope[next] # {}
      BY <1>6, <2>1, <2>2, <3>1, GrownLeaf DEF SoundLeaf
    <3>3. Before(scope[q], scope[r])
      BY <2>2, <3>1, <3>2 DEF Before
    <3> QED
      BY <3>1, <3>3 DEF Follows
  <2>6. Cardinality(F(next)) < Cardinality(F(q))
    <3> HIDE DEF F
    <3>1. /\ Cardinality(F(next)) <= Cardinality(F(q))
          /\ Cardinality(F(q)) = Cardinality(F(next)) => F(q) = F(next)
      BY <1>3, <2>5, FS_Subset
    <3> QED
      BY <1>3, <2>4, <3>1
  <2> HIDE DEF F, Bad
  <2>7. Cardinality(F(q)) <= Cardinality(F(next))
    BY <1>5, <2>3
  <2> QED
    BY <1>3, <2>6, <2>7
<1> QED
  BY <1>9, <1>10

\* Following the siblings, a scan comes to every key that is ahead of it.
LEMMA AheadIsMet == GrowingInv /\ ScansOnTheirWay => ScanMissesNoOtherLeaf
<1> SUFFICES ASSUME GrowingInv, ScansOnTheirWay, NEW i \in Iterators, NEW k \in due[i]
             PROVE  k \in Ahead(i)
  BY DEF ScanMissesNoOtherLeaf
<1>0. PICK scope : GrowingShape(scope)
  BY DEF GrowingInv
<1>1. PICK at, p, next : at = it[i] /\ p = at.page /\ next = pages[p].next
  OBVIOUS
<1>2. ScanOnItsWay(pages, at, due[i])
  BY <1>1 DEF ScansOnTheirWay
<1>3. InLeaf(pages, at) /\ IsAhead(pages, at, k)
  BY <1>2 DEF ScanOnItsWay
<1>4. p \in DOMAIN pages /\ pages[p].leaf /\ at.index \in Nat \cup {-1} /\ p # INVALID_PAGE_ID
  <2>1. p \in DOMAIN pages /\ pages[p].leaf /\ at.index \in Nat \cup {-1}
    BY <1>1, <1>3 DEF InLeaf
  <2>2. SoundLeaf(p, scope)
    BY <1>0, <2>1, GrownLeaf
  <2> QED
    BY <2>1, <2>2 DEF SoundLeaf
<1>5. at # Nowhere
  <2>1. PagesTyped
    BY <1>0, WholeTreeFacts DEF GrowingShape
  <2>2. p \in Nat
    BY <1>4, <2>1 DEF PagesTyped
  <2>3. at \in [page : Nat \cup {INVALID_PAGE_ID}, index : Nat \cup {-1}]
    BY <1>1, <1>3, <2>2 DEF InLeaf
  <2> QED
    BY <2>3, NowhereAssumption
<1>6. PICK f : f = CHOOSE g : Collects(g)
  OBVIOUS
<1>7. Collects(f)
  BY <1>0, <1>6, CollectorExists
<1>8. Ahead(i) =
        CASE Standing(i) -> {pages[p].array[j].key : j \in at.index + 1 .. Size(p)} \cup f[next]
          [] Leaving(i) -> f[p]
          [] OTHER -> {}
  BY <1>1, <1>6 DEF Ahead, Collects
<1>9. \/ \E j \in 1 .. Size(p) : j > at.index /\ pages[p].array[j].key = k
      \/ k \in KeysAfter(scope, p)
  <2>1. ASSUME NEW q \in DOMAIN pages, pages[q].leaf, StandsIn(pages[q].array, k),
               \A j \in 1 .. Len(pages[p].array) : pages[p].array[j].key < k
        PROVE  k \in KeysAfter(scope, p)
    <3>1. Before(scope[p], scope[q])
      BY <1>0, <1>4, <2>1, BehindTheScope
    <3>2. k \in KeysOf(q)
      BY <2>1 DEF StandsIn, KeysOf, PairsOf, Size
    <3> QED
      BY <2>1, <3>1, <3>2 DEF KeysAfter, Follows
  <2> QED
    BY <1>1, <1>3, <2>1 DEF IsAhead, Size
<1>10. CASE Standing(i)
  <2>1. at.index \in Nat
    BY <1>1, <1>4, <1>10 DEF Standing
  <2>2. Ahead(i) = {pages[p].array[j].key : j \in at.index + 1 .. Size(p)} \cup f[next]
    BY <1>8, <1>10 DEF Standing, Leaving
  <2>3. Size(p) \in Nat
    BY <1>0, <1>4, GrownLeaf DEF SoundLeaf, Size
  <2>4. \A j \in 1 .. Size(p) : j > at.index => j \in at.index + 1 .. Size(p)
    BY <2>1, <2>3
  <2>5. KeysAfter(scope, p) \subseteq f[next]
    <3>1. CASE next = INVALID_PAGE_ID
      BY <1>0, <1>1, <1>4, <3>1, KeysAfterUnfold
    <3>2. CASE next # INVALID_PAGE_ID
      <4>1. /\ next \in DOMAIN pages /\ Follows(pages, scope, p, next)
            /\ KeysAfter(scope, p) = KeysOf(next) \cup KeysAfter(scope, next)
        BY <1>0, <1>1, <1>4, <3>2, KeysAfterUnfold
      <4>2. pages[next].leaf
        BY <4>1 DEF Follows
      <4> QED
        BY <1>0, <1>7, <4>1, <4>2, CollectsAll
    <3> QED
      BY <3>1, <3>2
  <2> QED
    BY <1>9, <2>2, <2>4, <2>5
<1>11. CASE Leaving(i)
  <2>1. Ahead(i) = f[p]
    BY <1>8, <1>11 DEF Standing, Leaving
  <2>2. KeysOf(p) \cup KeysAfter(scope, p) \subseteq f[p]
    BY <1>0, <1>4, <1>7, CollectsAll
  <2>3. (\E j \in 1 .. Size(p) : j > at.index /\ pages[p].array[j].key = k) => k \in KeysOf(p)
    BY DEF KeysOf, PairsOf
  <2> QED
    BY <1>9, <2>1, <2>2, <2>3
<1>12. Standing(i) \/ Leaving(i)
  BY <1>1, <1>4, <1>5 DEF Standing, Leaving
<1> QED
  BY <1>10, <1>11, <1>12

\* Beside insertions each scan has the keys that were stored when it began, and that it has
\* not come to yet, ahead of it in the chain of leaves, whatever splits between its steps.
\* If an operator++ reads its leaf in the middle of a split, this holds of the keys of all
\* other leaves; of a scan that found no frame for the next leaf nothing is said.
THEOREM ScansMissNoOtherLeaf == GrowingScanSpec => []ScanMissesNoOtherLeaf
<1>1. GrowingScanSpec => []GrowingInv
  BY ScansLetTheTreeGrow, GrowingInvariance, PTL
<1> QED
  BY <1>1, ScansInvariance, AheadIsMet, PTL

=============================================================================
