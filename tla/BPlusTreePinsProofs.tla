------------------------ MODULE BPlusTreePinsProofs -------------------------
(***************************************************************************)
(* Every call of the tree, on every path through its recursion, gives back *)
(* each page it pinned, keeps the protocol the buffer pool relies on, and  *)
(* gets along with two frames for every level of the tree and two more.    *)
(* For any keys and values and any page sizes.                             *)
(***************************************************************************)
EXTENDS BPlusTreePins, BPlusTreeProofs

-----------------------------------------------------------------------------
(***************************************************************************)
(* Sequences of calls.                                                     *)
(***************************************************************************)

Call ==
  [call : {"pin", "write"}, page : Int]
    \cup [call : {"unpin"}, page : Int, is_dirty : BOOLEAN]

Outcome(state, calls) == Lists!FoldLeft(After, state, calls)

\* What FoldLeft does, on the first calls.
IsOutcomes(f, state, calls, S) ==
  f = [u \in SUBSET S |->
         IF u = {} THEN state
         ELSE After(f[u \ {Lists!Max(u)}], calls[Lists!Max(u)])]

LEMMA MaxOfUpTo ==
  ASSUME NEW n \in Nat, NEW u \in SUBSET (1 .. n + 1)
  PROVE  /\ n + 1 \in u => Lists!Max(u) = n + 1
         /\ n + 1 \notin u => u \in SUBSET (1 .. n)
<1>1. ASSUME n + 1 \in u
      PROVE  Lists!Max(u) = n + 1
  <2>1. \A x \in u : n + 1 >= x
    OBVIOUS
  <2>2. \A x \in u : (\A y \in u : x >= y) => x = n + 1
    BY <1>1
  <2> QED
    BY <1>1, <2>1, <2>2 DEF Lists!Max
<1> QED
  BY <1>1

LEMMA OutcomesExist ==
  ASSUME NEW state, NEW calls, NEW n \in Nat
  PROVE  \E f : IsOutcomes(f, state, calls, 1 .. n)
<1> DEFINE S == {m \in Nat : \E f : IsOutcomes(f, state, calls, 1 .. m)}
<1>1. 0 \in S
  <2>1. PICK f : f = [u \in SUBSET (1 .. 0) |-> state]
    OBVIOUS
  <2>2. \A u \in SUBSET (1 .. 0) : u = {}
    OBVIOUS
  <2>3. IsOutcomes(f, state, calls, 1 .. 0)
    BY <2>1, <2>2 DEF IsOutcomes
  <2> QED
    BY <2>3
<1>2. ASSUME NEW m \in S
      PROVE  m + 1 \in S
  <2>1. PICK f : IsOutcomes(f, state, calls, 1 .. m)
    OBVIOUS
  <2>2. PICK g : g = [u \in SUBSET (1 .. m + 1) |->
                        IF m + 1 \in u THEN After(f[u \ {m + 1}], calls[m + 1]) ELSE f[u]]
    OBVIOUS
  <2>3. \A u \in SUBSET (1 .. m) : u \in SUBSET (1 .. m + 1) /\ g[u] = f[u]
    BY <2>2
  <2>4. ASSUME NEW u \in SUBSET (1 .. m + 1)
        PROVE  g[u] = IF u = {} THEN state
                      ELSE After(g[u \ {Lists!Max(u)}], calls[Lists!Max(u)])
    <3>1. CASE m + 1 \in u
      <4>1. Lists!Max(u) = m + 1
        BY <3>1, MaxOfUpTo
      <4>2. u \ {m + 1} \in SUBSET (1 .. m)
        OBVIOUS
      <4>3. g[u] = After(f[u \ {m + 1}], calls[m + 1])
        BY <2>2, <3>1
      <4> QED
        BY <2>3, <3>1, <4>1, <4>2, <4>3
    <3>2. CASE m + 1 \notin u
      <4>1. u \in SUBSET (1 .. m)
        BY <3>2, MaxOfUpTo
      <4>2. u \ {Lists!Max(u)} \in SUBSET (1 .. m)
        BY <4>1
      <4>3. f[u] = IF u = {} THEN state
                   ELSE After(f[u \ {Lists!Max(u)}], calls[Lists!Max(u)])
        BY <2>1, <4>1 DEF IsOutcomes
      <4> QED
        BY <2>3, <4>1, <4>2, <4>3
    <3> QED
      BY <3>1, <3>2
  <2>5. g = [u \in SUBSET (1 .. m + 1) |-> g[u]]
    BY <2>2
  <2>6. IsOutcomes(g, state, calls, 1 .. m + 1)
    BY <2>4, <2>5 DEF IsOutcomes
  <2> QED
    BY <2>6
<1>3. S \in SUBSET Nat
  OBVIOUS
<1>4. \A m \in S : \E f : IsOutcomes(f, state, calls, 1 .. m)
  OBVIOUS
<1> HIDE DEF S
<1>5. S = Nat
  BY <1>1, <1>2, <1>3, NatInductionSet
<1> QED
  BY <1>4, <1>5

LEMMA OutcomeUnfolded ==
  ASSUME NEW state, NEW calls, NEW n \in Nat, DOMAIN calls = 1 .. n
  PROVE  \E f : /\ IsOutcomes(f, state, calls, 1 .. n)
                /\ Outcome(state, calls) = f[1 .. n]
<1> DEFINE F == CHOOSE f : IsOutcomes(f, state, calls, DOMAIN calls)
<1>1. IsOutcomes(F, state, calls, DOMAIN calls)
  BY OutcomesExist
<1>2. Outcome(state, calls) = F[DOMAIN calls]
  BY DEF Outcome, Lists!FoldLeft, Lists!MapThenFoldSet, IsOutcomes
<1> HIDE DEF F
<1> QED
  BY <1>1, <1>2

LEMMA OutcomeOfNothing ==
  ASSUME NEW state
  PROVE  Outcome(state, <<>>) = state
<1>1. DOMAIN <<>> = 1 .. 0
  OBVIOUS
<1>2. PICK f : IsOutcomes(f, state, <<>>, 1 .. 0) /\ Outcome(state, <<>>) = f[1 .. 0]
  BY <1>1, OutcomeUnfolded
<1>3. 1 .. 0 = {} /\ {} \in SUBSET (1 .. 0)
  OBVIOUS
<1> QED
  BY <1>2, <1>3 DEF IsOutcomes

LEMMA OutcomeOfOneMore ==
  ASSUME NEW state, NEW calls \in Seq(Call), NEW c \in Call
  PROVE  Outcome(state, Append(calls, c)) = After(Outcome(state, calls), c)
<1>1. PICK n, more : n = Len(calls) /\ more = Append(calls, c)
  OBVIOUS
<1>2. /\ n \in Nat /\ DOMAIN calls = 1 .. n
      /\ DOMAIN more = 1 .. n + 1
      /\ \A i \in 1 .. n : more[i] = calls[i]
      /\ more[n + 1] = c
  BY <1>1, LenProperties, AppendProperties
<1>3. PICK f : IsOutcomes(f, state, calls, 1 .. n) /\ Outcome(state, calls) = f[1 .. n]
  BY <1>2, OutcomeUnfolded
<1>4. PICK g : IsOutcomes(g, state, more, 1 .. n + 1) /\ Outcome(state, more) = g[1 .. n + 1]
  BY <1>2, OutcomeUnfolded
<1>5. ASSUME NEW m \in 0 .. n
      PROVE  /\ 1 .. m + 1 \in SUBSET (1 .. n + 1) /\ 1 .. m + 1 # {}
             /\ Lists!Max(1 .. m + 1) = m + 1 /\ (1 .. m + 1) \ {m + 1} = 1 .. m
  <2>1. m \in Nat /\ m + 1 \in 1 .. m + 1 /\ 1 .. m + 1 \in SUBSET (1 .. m + 1)
    BY <1>2
  <2>2. Lists!Max(1 .. m + 1) = m + 1
    BY <2>1, MaxOfUpTo
  <2>3. 1 .. m + 1 \in SUBSET (1 .. n + 1) /\ (1 .. m + 1) \ {m + 1} = 1 .. m
    BY <1>2
  <2> QED
    BY <2>1, <2>2, <2>3
<1>6. ASSUME NEW m \in 0 .. n
      PROVE  g[1 .. m + 1] = After(g[1 .. m], more[m + 1])
  <2>1. PICK u : u = 1 .. m + 1
    OBVIOUS
  <2>2. u \in SUBSET (1 .. n + 1) /\ u # {} /\ Lists!Max(u) = m + 1 /\ u \ {m + 1} = 1 .. m
    BY <1>5, <2>1
  <2>3. g[u] = After(g[u \ {m + 1}], more[m + 1])
    BY <1>4, <2>2 DEF IsOutcomes
  <2> QED
    BY <2>1, <2>2, <2>3
<1> DEFINE Agreed == {m \in 0 .. n : f[1 .. m] = g[1 .. m]}
           id == [m \in 0 .. n |-> m]
<1>7. id[0] \in Agreed
  <2>1. 1 .. 0 = {} /\ {} \in SUBSET (1 .. n) /\ {} \in SUBSET (1 .. n + 1)
    OBVIOUS
  <2>2. f[{}] = state /\ g[{}] = state
    BY <1>3, <1>4, <2>1 DEF IsOutcomes
  <2> QED
    BY <1>2, <2>1, <2>2
<1>8. ASSUME NEW i \in 1 .. n, id[i - 1] \in Agreed
      PROVE  id[i] \in Agreed
  <2>1. PICK m : m = i - 1
    OBVIOUS
  <2>2. m \in 0 .. n /\ i = m + 1 /\ f[1 .. m] = g[1 .. m] /\ i \in 0 .. n
    BY <1>2, <1>8, <2>1
  <2>3. g[1 .. i] = After(g[1 .. m], more[i])
    BY <1>6, <2>2
  <2>4. /\ 1 .. i \in SUBSET (1 .. n) /\ 1 .. i # {}
        /\ Lists!Max(1 .. i) = i /\ (1 .. i) \ {i} = 1 .. m
    BY <1>2, <1>5, <2>2
  <2>5. f[1 .. i] = After(f[1 .. m], calls[i])
    BY <1>3, <2>4 DEF IsOutcomes
  <2> QED
    BY <1>2, <2>2, <2>3, <2>5
<1> HIDE DEF Agreed
<1>9. \A i \in 0 .. n : id[i] \in Agreed
  BY <1>2, <1>7, <1>8, UpToInduction
<1>10. f[1 .. n] = g[1 .. n]
  BY <1>2, <1>9 DEF Agreed
<1>11. n \in 0 .. n
  BY <1>2
<1> QED
  BY <1>1, <1>2, <1>3, <1>4, <1>6, <1>10, <1>11

LEMMA OutcomeOfBoth ==
  ASSUME NEW state, NEW a \in Seq(Call), NEW b \in Seq(Call)
  PROVE  Outcome(state, a \o b) = Outcome(Outcome(state, a), b)
<1> DEFINE S == {n \in Nat : \A t \in Seq(Call) :
                   Len(t) = n => Outcome(state, a \o t) = Outcome(Outcome(state, a), t)}
<1>1. 0 \in S
  <2>1. \A t \in Seq(Call) : Len(t) = 0 => t = <<>>
    BY EmptySeq
  <2> QED
    BY <2>1, OutcomeOfNothing, ConcatEmptySeq
<1>2. ASSUME NEW n \in S
      PROVE  n + 1 \in S
  <2> SUFFICES ASSUME NEW t \in Seq(Call), Len(t) = n + 1
               PROVE  Outcome(state, a \o t) = Outcome(Outcome(state, a), t)
    OBVIOUS
  <2>1. PICK r \in Seq(Call), c \in Call : t = Append(r, c)
    <3>1. t # <<>>
      BY EmptySeq
    <3> QED
      BY <3>1, SequenceEmptyOrAppend
  <2>2. Len(r) = n
    BY <2>1, AppendProperties, LenProperties
  <2>3. Outcome(state, a \o r) = Outcome(Outcome(state, a), r)
    BY <2>2
  <2>4. a \o r \in Seq(Call) /\ a \o t = Append(a \o r, c)
    <3>1. a \o r \in Seq(Call)
      BY ConcatProperties
    <3>2. a \o t = a \o (r \o <<c>>) /\ Append(a \o r, c) = (a \o r) \o <<c>>
      BY <2>1, <3>1, AppendIsConcat
    <3>3. <<c>> \in Seq(Call)
      OBVIOUS
    <3>4. a \o (r \o <<c>>) = (a \o r) \o <<c>>
      BY <3>3, ConcatAssociative
    <3> QED
      BY <3>1, <3>2, <3>4
  <2>5. Outcome(state, Append(a \o r, c)) = After(Outcome(state, a \o r), c)
    BY <2>4, OutcomeOfOneMore
  <2>6. Outcome(Outcome(state, a), Append(r, c)) = After(Outcome(Outcome(state, a), r), c)
    BY OutcomeOfOneMore
  <2> QED
    BY <2>1, <2>3, <2>4, <2>5, <2>6
<1>3. S \in SUBSET Nat
  OBVIOUS
<1>4. \A n \in S : \A t \in Seq(Call) :
        Len(t) = n => Outcome(state, a \o t) = Outcome(Outcome(state, a), t)
  OBVIOUS
<1> HIDE DEF S
<1>5. S = Nat
  BY <1>1, <1>2, <1>3, NatInductionSet
<1> QED
  BY <1>4, <1>5, LenProperties

-----------------------------------------------------------------------------
(***************************************************************************)
(* What calls do to the pins.                                              *)
(***************************************************************************)

\* How often each page is pinned.
PinCounts == [Int -> Nat]

NoPins == [p \in Int |-> 0]
OneMore(c, p) == [c EXCEPT ![p] = @ + 1]
OneLess(c, p) == [c EXCEPT ![p] = @ - 1]

PinnedPages(c) == {p \in Int : c[p] > 0}
PinBag(c) == [p \in PinnedPages(c) |-> c[p]]

\* The state with other parts.
PoolState(pins, peak, undeclared, misused) ==
  [pins |-> pins, peak |-> peak, undeclared |-> undeclared, misused |-> misused]

\* The pins are those, the protocol was kept so far, and what was written and not yet
\* declared is pinned; with tidy, everything is declared.  No more pages than that were
\* pinned at once.
Kept(state, tidy, frames, c) ==
  \E n, u : /\ state = PoolState(PinBag(c), n, u, {})
            /\ u \subseteq PinnedPages(c)
            /\ tidy => u = {}
            /\ n <= frames

\* With these pins before, the calls keep the protocol, need no more pages at once than
\* there are frames, and leave those pins.
Does(calls, tidy, frames, c, d) ==
  /\ calls \in Seq(Call)
  /\ \A state : Kept(state, tidy, frames, c) => Kept(Outcome(state, calls), tidy, frames, d)

\* So many more pages may be pinned.
Room(c, more, frames) ==
  /\ more \in Nat /\ frames \in Nat
  /\ IsFiniteSet(PinnedPages(c))
  /\ Cardinality(PinnedPages(c)) + more <= frames

LEMMA MorePins ==
  ASSUME NEW c \in PinCounts, NEW p \in Int
  PROVE  /\ OneMore(c, p) \in PinCounts
         /\ PinnedPages(OneMore(c, p)) = PinnedPages(c) \cup {p}
         /\ PinBag(c) (+) SetToBag({p}) = PinBag(OneMore(c, p))
         /\ OneMore(c, p)[p] > 0
         /\ \A q \in Int : c[q] > 0 => OneMore(c, p)[q] > 0
<1>1. PICK d : d = OneMore(c, p)
  OBVIOUS
<1>2. /\ d \in PinCounts
      /\ \A q \in Int : d[q] = IF q = p THEN c[q] + 1 ELSE c[q]
      /\ \A q \in Int : c[q] \in Nat
  BY <1>1 DEF OneMore, PinCounts
<1>3. PinnedPages(d) = PinnedPages(c) \cup {p}
  BY <1>2 DEF PinnedPages
<1>4. PICK B, C : B = PinBag(c) /\ C = SetToBag({p})
  OBVIOUS
<1>5. DOMAIN B = PinnedPages(c) /\ DOMAIN C = {p} /\ C[p] = 1
      /\ \A q \in PinnedPages(c) : B[q] = c[q]
  BY <1>4 DEF PinBag, SetToBag
<1>6. B (+) C = [q \in PinnedPages(c) \cup {p} |->
                   (IF q \in PinnedPages(c) THEN B[q] ELSE 0) + (IF q = p THEN C[q] ELSE 0)]
  BY <1>5 DEF (+)
<1>7. \A q \in PinnedPages(c) \cup {p} :
        (IF q \in PinnedPages(c) THEN B[q] ELSE 0) + (IF q = p THEN C[q] ELSE 0) = d[q]
  BY <1>2, <1>5 DEF PinnedPages
<1>8. B (+) C = [q \in PinnedPages(c) \cup {p} |-> d[q]]
  BY <1>6, <1>7
<1> QED
  BY <1>1, <1>2, <1>3, <1>4, <1>8 DEF PinBag

LEMMA FewerPins ==
  ASSUME NEW c \in PinCounts, NEW p \in Int, c[p] > 0
  PROVE  /\ OneLess(c, p) \in PinCounts
         /\ PinnedPages(c) \ {p} \subseteq PinnedPages(OneLess(c, p))
         /\ PinBag(c) (-) SetToBag({p}) = PinBag(OneLess(c, p))
<1>1. PICK d : d = OneLess(c, p)
  OBVIOUS
<1>2. /\ d \in PinCounts
      /\ \A q \in Int : d[q] = IF q = p THEN c[q] - 1 ELSE c[q]
      /\ \A q \in Int : c[q] \in Nat
  BY <1>1 DEF OneLess, PinCounts
<1>3. PinnedPages(c) \ {p} \subseteq PinnedPages(d)
  BY <1>2 DEF PinnedPages
<1>4. PICK B, C : B = PinBag(c) /\ C = SetToBag({p})
  OBVIOUS
<1>5. DOMAIN B = PinnedPages(c) /\ DOMAIN C = {p} /\ C[p] = 1
      /\ \A q \in PinnedPages(c) : B[q] = c[q]
  BY <1>4 DEF PinBag, SetToBag
<1>6. PICK D : D = [q \in DOMAIN B |-> IF q \in DOMAIN C THEN B[q] - C[q] ELSE B[q]]
  OBVIOUS
<1>7. B (-) C = [q \in {x \in DOMAIN D : D[x] > 0} |-> D[q]]
  BY <1>6 DEF (-)
<1>8. DOMAIN D = PinnedPages(c) /\ \A q \in PinnedPages(c) : D[q] = d[q]
  BY <1>2, <1>5, <1>6 DEF PinnedPages
<1>9. {x \in DOMAIN D : D[x] > 0} = PinnedPages(d)
  BY <1>2, <1>8 DEF PinnedPages
<1>10. PinnedPages(d) \subseteq PinnedPages(c)
  BY <1>8, <1>9
<1>11. B (-) C = [q \in PinnedPages(d) |-> d[q]]
  BY <1>7, <1>8, <1>9, <1>10
<1> QED
  BY <1>1, <1>2, <1>3, <1>4, <1>11 DEF PinBag

LEMMA NoPinsNoBag ==
  /\ NoPins \in PinCounts
  /\ PinnedPages(NoPins) = {}
  /\ PinBag(NoPins) = EmptyBag
<1>1. NoPins \in PinCounts /\ PinnedPages(NoPins) = {}
  BY DEF NoPins, PinCounts, PinnedPages
<1> QED
  BY <1>1 DEF PinBag, EmptyBag, SetToBag

LEMMA RoomAfterOne ==
  ASSUME NEW c \in PinCounts, NEW p \in Int, NEW more \in Nat, NEW frames,
         NEW most, Room(c, most, frames), most = more + 1
  PROVE  Room(OneMore(c, p), more, frames)
<1>1. PICK S : S = PinnedPages(c)
  OBVIOUS
<1>2. PinnedPages(OneMore(c, p)) = S \cup {p}
  BY <1>1, MorePins
<1>3. IsFiniteSet(S) /\ Cardinality(S) \in Nat /\ frames \in Nat
      /\ Cardinality(S) + most <= frames
  BY <1>1, FS_CardinalityType DEF Room
<1>4. IsFiniteSet(S \cup {p}) /\ Cardinality(S \cup {p}) <= Cardinality(S) + 1
      /\ Cardinality(S \cup {p}) \in Nat
  <2>1. /\ IsFiniteSet(S \cup {p})
        /\ Cardinality(S \cup {p}) = IF p \in S THEN Cardinality(S) ELSE Cardinality(S) + 1
    BY <1>3, FS_AddElement
  <2> QED
    BY <1>3, <2>1
<1> QED
  BY <1>2, <1>3, <1>4 DEF Room

LEMMA RoomAfterPin ==
  ASSUME NEW c \in PinCounts, NEW p \in Int, NEW frames
  PROVE  /\ Room(c, 3, frames) => Room(OneMore(c, p), 2, frames)
         /\ Room(c, 2, frames) => Room(OneMore(c, p), 1, frames)
         /\ Room(c, 1, frames) => Room(OneMore(c, p), 0, frames)
<1>1. 3 = 2 + 1 /\ 2 = 1 + 1 /\ 1 = 0 + 1 /\ {0, 1, 2} \subseteq Nat
  OBVIOUS
<1> QED
  BY <1>1, RoomAfterOne

LEMMA LessRoom ==
  ASSUME NEW c, NEW frames, NEW most, Room(c, most, frames), NEW more \in 0 .. most
  PROVE  Room(c, more, frames)
<1>1. Cardinality(PinnedPages(c)) \in Nat /\ most \in Nat /\ frames \in Nat
  BY FS_CardinalityType DEF Room
<1> QED
  BY <1>1 DEF Room

LEMMA RoomAtFirst ==
  ASSUME NEW frames \in Nat
  PROVE  Room(NoPins, frames, frames)
BY NoPinsNoBag, FS_EmptySet DEF Room

\* One call.
LEMMA DoesOne ==
  ASSUME NEW r \in Call, NEW tidy, NEW frames, NEW c, NEW d,
         \A state : Kept(state, tidy, frames, c) => Kept(After(state, r), tidy, frames, d)
  PROVE  Does(<<r>>, tidy, frames, c, d)
<1>1. <<r>> \in Seq(Call) /\ <<>> \in Seq(Call) /\ Append(<<>>, r) = <<r>>
  OBVIOUS
<1>2. ASSUME NEW state
      PROVE  Outcome(state, <<r>>) = After(state, r)
  <2>1. Outcome(state, Append(<<>>, r)) = After(Outcome(state, <<>>), r)
    BY <1>1, OutcomeOfOneMore
  <2> QED
    BY <1>1, <2>1, OutcomeOfNothing
<1> QED
  BY <1>1, <1>2 DEF Does

LEMMA DoesPin ==
  ASSUME NEW p \in Int, NEW tidy, NEW c \in PinCounts, NEW frames, Room(c, 1, frames)
  PROVE  Does(Pin(p), tidy, frames, c, OneMore(c, p))
<1>1. PICK r : r = [call |-> "pin", page |-> p]
  OBVIOUS
<1>2. ASSUME NEW state, Kept(state, tidy, frames, c)
      PROVE  Kept(After(state, r), tidy, frames, OneMore(c, p))
  <2>1. PICK n, u : /\ state = PoolState(PinBag(c), n, u, {})
                    /\ u \subseteq PinnedPages(c)
                    /\ tidy => u = {}
                    /\ n <= frames
    BY <1>2 DEF Kept
  <2>2. After(state, r) = AfterPin(state, p)
    BY <1>1 DEF After
  <2>3. PICK B : B = PinBag(OneMore(c, p))
    OBVIOUS
  <2>4. state.pins (+) SetToBag({p}) = B
    BY <2>1, <2>3, MorePins DEF PoolState
  <2>5. PICK m : m = IF Cardinality(BagToSet(B)) > state.peak THEN Cardinality(BagToSet(B))
                                                              ELSE state.peak
    OBVIOUS
  <2>6. AfterPin(state, p) = [state EXCEPT !.pins = B, !.peak = m]
    BY <2>4, <2>5 DEF AfterPin
  <2>7. [state EXCEPT !.pins = B, !.peak = m]
          = PoolState(B, m, u, {})
    <3>1. [state EXCEPT !.pins = B] = PoolState(B, n, u, {})
      BY <2>1 DEF PoolState
    <3>2. [PoolState(B, n, u, {}) EXCEPT !.peak = m] = PoolState(B, m, u, {})
      BY DEF PoolState
    <3> QED
      BY <3>1, <3>2
  <2>8. u \subseteq PinnedPages(OneMore(c, p))
    BY <2>1, MorePins
  <2>9. m <= frames
    <3>1. BagToSet(B) = PinnedPages(OneMore(c, p))
      BY <2>3 DEF BagToSet, PinBag
    <3>2. Room(OneMore(c, p), 0, frames)
      BY RoomAfterPin
    <3>3. Cardinality(BagToSet(B)) <= frames
      BY <3>1, <3>2, FS_CardinalityType DEF Room
    <3>4. state.peak = n
      BY <2>1 DEF PoolState
    <3> QED
      BY <2>1, <2>5, <3>3, <3>4
  <2> QED
    BY <2>1, <2>2, <2>3, <2>6, <2>7, <2>8, <2>9 DEF Kept
<1> QED
  BY <1>1, <1>2, DoesOne DEF Pin, Call

LEMMA DoesWrite ==
  ASSUME NEW p \in Int, NEW c \in PinCounts, c[p] > 0, NEW frames
  PROVE  Does(Write(p), FALSE, frames, c, c)
<1>1. PICK r : r = [call |-> "write", page |-> p]
  OBVIOUS
<1>2. ASSUME NEW state, Kept(state, FALSE, frames, c)
      PROVE  Kept(After(state, r), FALSE, frames, c)
  <2>1. PICK n, u : /\ state = PoolState(PinBag(c), n, u, {})
                    /\ u \subseteq PinnedPages(c) /\ n <= frames
    BY <1>2 DEF Kept
  <2>2. After(state, r) = AfterWrite(state, p)
    BY <1>1 DEF After
  <2>3. p \in PinnedPages(c) /\ Pinned(state) = PinnedPages(c)
    BY <2>1 DEF PoolState, PinnedPages, Pinned, BagToSet, PinBag
  <2>4. PICK v, w : v = u \cup {p} /\ w = {} \cup ({p} \ Pinned(state))
    OBVIOUS
  <2>5. AfterWrite(state, p) = [state EXCEPT !.undeclared = v, !.misused = w]
    BY <2>1, <2>4 DEF PoolState, AfterWrite
  <2>6. w = {} /\ v \subseteq PinnedPages(c)
    BY <2>1, <2>3, <2>4
  <2>7. [state EXCEPT !.undeclared = v, !.misused = w]
          = PoolState(PinBag(c), n, v, {})
    <3>1. [state EXCEPT !.undeclared = v] = PoolState(PinBag(c), n, v, {})
      BY <2>1 DEF PoolState
    <3>2. [PoolState(PinBag(c), n, v, {}) EXCEPT !.misused = w] = PoolState(PinBag(c), n, v, {})
      BY <2>6 DEF PoolState
    <3> QED
      BY <3>1, <3>2
  <2> QED
    BY <2>1, <2>2, <2>5, <2>6, <2>7 DEF Kept
<1> QED
  BY <1>1, <1>2, DoesOne DEF Write, Call

\* A page that was written is given back as dirty.
LEMMA DoesUnpin ==
  ASSUME NEW p \in Int, NEW is_dirty \in BOOLEAN, NEW tidy \in BOOLEAN,
         tidy \/ is_dirty, NEW frames, NEW c \in PinCounts, c[p] > 0
  PROVE  Does(Unpin(p, is_dirty), tidy, frames, c, OneLess(c, p))
<1>1. PICK r : r = [call |-> "unpin", page |-> p, is_dirty |-> is_dirty]
  OBVIOUS
<1>2. ASSUME NEW state, Kept(state, tidy, frames, c)
      PROVE  Kept(After(state, r), tidy, frames, OneLess(c, p))
  <2>1. PICK n, u : /\ state = PoolState(PinBag(c), n, u, {})
                    /\ u \subseteq PinnedPages(c)
                    /\ tidy => u = {}
                    /\ n <= frames
    BY <1>2 DEF Kept
  <2>2. After(state, r) = AfterUnpin(state, p, is_dirty)
    BY <1>1 DEF After
  <2>3. p \in PinnedPages(c) /\ Pinned(state) = PinnedPages(c)
    BY <2>1 DEF PoolState, PinnedPages, Pinned, BagToSet, PinBag
  <2>4. PICK B, v : B = PinBag(OneLess(c, p)) /\ v = IF is_dirty THEN u \ {p} ELSE u
    OBVIOUS
  <2>5. state.pins (-) SetToBag({p}) = B
    BY <2>1, <2>4, FewerPins DEF PoolState
  <2>6. BagToSet(B) = PinnedPages(OneLess(c, p))
    BY <2>4 DEF BagToSet, PinBag
  <2>7. v \subseteq PinnedPages(OneLess(c, p)) /\ (tidy => v = {})
    BY <2>1, <2>4, FewerPins
  <2>8. PICK w : w = {} \cup (v \ BagToSet(B)) \cup ({p} \ Pinned(state))
    OBVIOUS
  <2>9. AfterUnpin(state, p, is_dirty)
          = [state EXCEPT !.pins = B, !.undeclared = v, !.misused = w]
    BY <2>1, <2>4, <2>5, <2>8 DEF PoolState, AfterUnpin
  <2>10. w = {}
    BY <2>3, <2>6, <2>7, <2>8
  <2>11. [state EXCEPT !.pins = B, !.undeclared = v, !.misused = w]
           = PoolState(B, n, v, {})
    <3>1. [state EXCEPT !.pins = B] = PoolState(B, n, u, {})
      BY <2>1 DEF PoolState
    <3>2. [PoolState(B, n, u, {}) EXCEPT !.undeclared = v] = PoolState(B, n, v, {})
      BY DEF PoolState
    <3>3. [PoolState(B, n, v, {}) EXCEPT !.misused = w] = PoolState(B, n, v, {})
      BY <2>10 DEF PoolState
    <3> QED
      BY <3>1, <3>2, <3>3
  <2> QED
    BY <2>1, <2>2, <2>4, <2>7, <2>9, <2>11 DEF Kept
<1> QED
  BY <1>1, <1>2, DoesOne DEF Unpin, Call

LEMMA DoesNothing ==
  ASSUME NEW tidy, NEW frames, NEW c
  PROVE  Does(<<>>, tidy, frames, c, c)
BY OutcomeOfNothing DEF Does

LEMMA DoesBoth ==
  ASSUME NEW tidy, NEW frames, NEW a, NEW b, NEW c, NEW d, NEW e,
         Does(a, tidy, frames, c, d), Does(b, tidy, frames, d, e)
  PROVE  Does(a \o b, tidy, frames, c, e)
<1>1. a \in Seq(Call) /\ b \in Seq(Call)
  BY DEF Does
<1>2. a \o b \in Seq(Call)
  BY <1>1, ConcatProperties
<1>3. ASSUME NEW state, Kept(state, tidy, frames, c)
      PROVE  Kept(Outcome(state, a \o b), tidy, frames, e)
  <2>1. Kept(Outcome(Outcome(state, a), b), tidy, frames, e)
    BY <1>3 DEF Does
  <2> QED
    BY <1>1, <2>1, OutcomeOfBoth
<1> QED
  BY <1>2, <1>3 DEF Does

LEMMA DoesWhenClean ==
  ASSUME NEW calls, NEW frames, NEW d, Does(calls, TRUE, frames, NoPins, d)
  PROVE  Does(calls, FALSE, frames, NoPins, d)
BY NoPinsNoBag DEF Does, Kept

\* Blocks of calls, one after the other; C[i] are the pins after i of them.
LEMMA DoesAll ==
  ASSUME NEW tidy, NEW frames, NEW n \in Nat, NEW s \in [1 .. n -> Seq(Call)], NEW C,
         \A i \in 1 .. n : Does(s[i], tidy, frames, C[i - 1], C[i])
  PROVE  Does(Lists!FlattenSeq(s), tidy, frames, C[0], C[n])
<1>1. \A i \in 1 .. n : s[i] \in Seq(Call)
  OBVIOUS
<1>2. s \in Seq(Seq(Call)) /\ Len(s) = n
  BY SeqDef, LenProperties
<1>3. CASE n = 0
  <2>1. s = <<>>
    BY <1>2, <1>3, EmptySeq
  <2>2. Lists!FlattenSeq(s) = <<>>
    BY <1>2, <1>3, <2>1 DEF Lists!FlattenSeq
  <2> QED
    BY <1>3, <2>2, DoesNothing
<1>4. CASE n > 0
  <2> DEFINE g == [y \in (1 .. n) \X Seq(Call) |-> y[2] \o s[y[1]]]
  <2>1. g \in [(1 .. n) \X Seq(Call) -> Seq(Call)]
    <3>1. \A y \in (1 .. n) \X Seq(Call) : y[2] \o s[y[1]] \in Seq(Call)
      BY <1>1, ConcatProperties
    <3> QED
      BY <3>1
  <2>2. \A i \in 1 .. n : \A a \in Seq(Call) : g[<<i, a>>] = a \o s[i]
    OBVIOUS
  <2>3. <<>> \in Seq(Call)
    OBVIOUS
  <2> HIDE DEF g
  <2>4. PICK h : Course(h, Seq(Call), <<>>, n, g)
    BY <2>1, <2>3, CourseExists
  <2>5. ASSUME NEW i \in 1 .. n
        PROVE  h[i - 1] \in Seq(Call) /\ h[i] = h[i - 1] \o s[i]
    <3>1. h \in [0 .. n -> Seq(Call)] /\ h[i] = g[<<i, h[i - 1]>>] /\ i - 1 \in 0 .. n
      BY <2>4 DEF Course
    <3>2. h[i - 1] \in Seq(Call)
      BY <3>1
    <3> QED
      BY <2>2, <3>1, <3>2
  <2>6. h[0] = <<>>
    BY <2>4 DEF Course
  <2>7. h[1] = s[1]
    <3>1. 1 \in 1 .. n /\ s[1] \in Seq(Call)
      BY <1>1, <1>4
    <3>2. h[1] = h[1 - 1] \o s[1]
      BY <2>5, <3>1
    <3>3. 1 - 1 = 0
      OBVIOUS
    <3>4. h[1] = <<>> \o s[1]
      BY <2>6, <3>2, <3>3
    <3> QED
      BY <3>1, <3>4, ConcatEmptySeq
  <2>8. PICK f : f = [i \in 1 .. n |-> h[i]]
    OBVIOUS
  <2>9. f = [i \in 1 .. n |-> IF i = 1 THEN s[i] ELSE f[i - 1] \o s[i]]
    <3>1. ASSUME NEW i \in 1 .. n
          PROVE  h[i] = IF i = 1 THEN s[i] ELSE f[i - 1] \o s[i]
      <4>1. CASE i = 1
        BY <2>7, <4>1
      <4>2. CASE i # 1
        <5>1. i - 1 \in 1 .. n
          BY <4>2
        <5> QED
          BY <2>5, <2>8, <4>2, <5>1
      <4> QED
        BY <4>1, <4>2
    <3> QED
      BY <2>8, <3>1
  <2> DEFINE F == CHOOSE x : x = [i \in 1 .. n |-> IF i = 1 THEN s[i] ELSE x[i - 1] \o s[i]]
  <2>10. F = [i \in 1 .. n |-> IF i = 1 THEN s[i] ELSE F[i - 1] \o s[i]]
    BY <2>9
  <2>11. Lists!FlattenSeq(s) = F[n]
    BY <1>2, <1>4 DEF Lists!FlattenSeq
  <2> HIDE DEF F
  <2> DEFINE Good == {i \in 0 .. n : i # 0 => Does(F[i], tidy, frames, C[0], C[i])}
             id == [i \in 0 .. n |-> i]
  <2>12. id[0] \in Good
    BY <1>4
  <2>13. ASSUME NEW i \in 1 .. n, id[i - 1] \in Good
         PROVE  id[i] \in Good
    <3>1. id[i] = i /\ i - 1 \in 0 .. n /\ id[i - 1] = i - 1 /\ i \in 0 .. n
      OBVIOUS
    <3>2. CASE i = 1
      <4>1. F[i] = s[i]
        BY <2>10, <3>2
      <4>2. Does(s[i], tidy, frames, C[0], C[i])
        BY <3>2
      <4> QED
        BY <3>1, <4>1, <4>2
    <3>3. CASE i # 1
      <4>1. F[i] = F[i - 1] \o s[i]
        BY <2>10, <3>3
      <4>2. Does(F[i - 1], tidy, frames, C[0], C[i - 1])
        BY <2>13, <3>1, <3>3
      <4>3. Does(s[i], tidy, frames, C[i - 1], C[i])
        OBVIOUS
      <4>4. Does(F[i - 1] \o s[i], tidy, frames, C[0], C[i])
        BY ONLY <4>2, <4>3, DoesBoth
      <4> QED
        BY <3>1, <4>1, <4>4
    <3> QED
      BY <3>2, <3>3
  <2> HIDE DEF Good
  <2>14. \A i \in 0 .. n : id[i] \in Good
    BY <2>12, <2>13, UpToInduction
  <2>15. n \in 0 .. n /\ id[n] = n
    OBVIOUS
  <2>16. n \in Good
    BY <2>14, <2>15
  <2> QED
    BY <1>4, <2>11, <2>16 DEF Good
<1> QED
  BY <1>3, <1>4

\* Giving back the pages in the list, one after the other, leaves nothing pinned.
GivesAllBack(list, c) ==
  \E C : /\ C[0] = c /\ C[Len(list)] = NoPins
         /\ \A i \in 1 .. Len(list) : /\ C[i - 1] \in PinCounts
                                      /\ C[i - 1][list[i]] > 0
                                      /\ C[i] = OneLess(C[i - 1], list[i])

LEMMA NothingToGiveBack == GivesAllBack(<<>>, NoPins)
<1>1. PICK C : C = [i \in 0 .. 0 |-> NoPins]
  OBVIOUS
<1>2. C[0] = NoPins /\ Len(<<>>) = 0
  BY <1>1
<1> QED
  BY <1>2 DEF GivesAllBack

LEMMA NothingLeft ==
  ASSUME NEW c, GivesAllBack(<<>>, c)
  PROVE  c = NoPins
BY DEF GivesAllBack

LEMMA PinnedAndUnpinned ==
  ASSUME NEW c \in PinCounts, NEW p \in Int
  PROVE  OneLess(OneMore(c, p), p) = c
<1>1. PICK d, e : d = OneMore(c, p) /\ e = OneLess(d, p)
  OBVIOUS
<1>2. d \in [Int -> Nat] /\ \A q \in Int : d[q] = IF q = p THEN c[q] + 1 ELSE c[q]
  BY <1>1 DEF OneMore, PinCounts
<1>3. e = [q \in Int |-> IF q = p THEN d[q] - 1 ELSE d[q]]
  BY <1>1, <1>2 DEF OneLess
<1>4. c \in [Int -> Nat] /\ \A q \in Int : e[q] = c[q]
  BY <1>2, <1>3 DEF PinCounts
<1>5. e = c
  BY <1>3, <1>4
<1> QED
  BY <1>1, <1>5

LEMMA MoreToGiveBack ==
  ASSUME NEW list \in Seq(Int), NEW x \in Int, NEW c \in PinCounts, GivesAllBack(list, c)
  PROVE  /\ <<x>> \o list \in Seq(Int)
         /\ GivesAllBack(<<x>> \o list, OneMore(c, x))
<1>1. PICK C : /\ C[0] = c /\ C[Len(list)] = NoPins
               /\ \A i \in 1 .. Len(list) : /\ C[i - 1] \in PinCounts
                                            /\ C[i - 1][list[i]] > 0
                                            /\ C[i] = OneLess(C[i - 1], list[i])
  BY DEF GivesAllBack
<1>2. PICK n, more : n = Len(list) /\ more = <<x>> \o list
  OBVIOUS
<1>3. <<x>> \in Seq(Int) /\ Len(<<x>>) = 1 /\ n \in Nat
  BY <1>2, LenProperties
<1>4. /\ more \in Seq(Int) /\ Len(more) = n + 1
      /\ more[1] = x
      /\ \A i \in 2 .. n + 1 : more[i] = list[i - 1]
  BY <1>2, <1>3, ConcatProperties
<1>5. PICK D : D = [i \in 0 .. n + 1 |-> IF i = 0 THEN OneMore(c, x) ELSE C[i - 1]]
  OBVIOUS
<1>6. OneMore(c, x) \in PinCounts /\ OneMore(c, x)[x] > 0
  BY MorePins
<1>7. OneLess(OneMore(c, x), x) = c
  BY PinnedAndUnpinned
<1>8. ASSUME NEW i \in 1 .. n + 1
      PROVE  D[i - 1] \in PinCounts /\ D[i - 1][more[i]] > 0 /\ D[i] = OneLess(D[i - 1], more[i])
  <2>1. CASE i = 1
    <3>1. D[i - 1] = OneMore(c, x) /\ D[i] = c
      BY <1>1, <1>3, <1>5, <2>1
    <3> QED
      BY <1>4, <1>6, <1>7, <2>1, <3>1
  <2>2. CASE i # 1
    <3>1. PICK j : j = i - 1
      OBVIOUS
    <3>2. j \in 1 .. n /\ i \in 2 .. n + 1 /\ i - 1 = j
      BY <1>3, <2>2, <3>1
    <3>3. j \in 0 .. n + 1 /\ i \in 0 .. n + 1 /\ j # 0 /\ i # 0
      BY <1>3, <3>2
    <3>4. D[j] = C[j - 1] /\ D[i] = C[j] /\ more[i] = list[j]
      BY <1>4, <1>5, <3>2, <3>3
    <3> QED
      BY <1>1, <1>2, <3>2, <3>4
  <2> QED
    BY <2>1, <2>2
<1>9. D[0] = OneMore(c, x) /\ D[Len(more)] = NoPins
  BY <1>1, <1>2, <1>3, <1>4, <1>5
<1>10. \A i \in 1 .. Len(more) :
         D[i - 1] \in PinCounts /\ D[i - 1][more[i]] > 0 /\ D[i] = OneLess(D[i - 1], more[i])
  BY <1>4, <1>8
<1>11. GivesAllBack(more, OneMore(c, x))
  BY <1>9, <1>10 DEF GivesAllBack
<1> QED
  BY <1>2, <1>4, <1>11

LEMMA DoesReturning ==
  ASSUME held \in Seq(Int), NEW frames, NEW c, GivesAllBack(held, c)
  PROVE  Does(Returning, FALSE, frames, c, NoPins)
<1>1. PICK C : /\ C[0] = c /\ C[Len(held)] = NoPins
               /\ \A i \in 1 .. Len(held) : /\ C[i - 1] \in PinCounts
                                            /\ C[i - 1][held[i]] > 0
                                            /\ C[i] = OneLess(C[i - 1], held[i])
  BY DEF GivesAllBack
<1>2. PICK n, s : n = Len(held) /\ s = [i \in 1 .. n |-> Unpin(held[i], TRUE)]
  OBVIOUS
<1>3. n \in Nat /\ \A i \in 1 .. n : held[i] \in Int
  BY <1>2, LenProperties, ElementOfSeq
<1>4. ASSUME NEW i \in 1 .. n
      PROVE  Does(s[i], FALSE, frames, C[i - 1], C[i])
  <2>1. PICK p, d : p = held[i] /\ d = C[i - 1]
    OBVIOUS
  <2>2. p \in Int /\ d \in PinCounts /\ d[p] > 0 /\ C[i] = OneLess(d, p)
    BY <1>1, <1>2, <1>3, <2>1
  <2>3. Does(Unpin(p, TRUE), FALSE, frames, d, OneLess(d, p))
    BY <2>2, DoesUnpin
  <2> QED
    BY <1>2, <2>1, <2>2, <2>3
<1>5. s \in [1 .. n -> Seq(Call)]
  <2>1. \A i \in 1 .. n : s[i] \in Seq(Call)
    BY <1>4 DEF Does
  <2> QED
    BY <1>2, <2>1
<1>6. Does(Lists!FlattenSeq(s), FALSE, frames, C[0], C[n])
  BY ONLY <1>3, <1>4, <1>5, DoesAll
<1> QED
  BY <1>1, <1>2, <1>6 DEF Returning

LEMMA DoesTouch ==
  ASSUME NEW p \in Int, NEW c \in PinCounts, NEW frames, Room(c, 1, frames)
  PROVE  Does(Pin(p) \o Write(p) \o Unpin(p, TRUE), FALSE, frames, c, c)
<1>1. PICK d : d = OneMore(c, p)
  OBVIOUS
<1>2. d \in PinCounts /\ d[p] > 0
  BY <1>1, MorePins
<1>3. OneLess(d, p) = c
  BY <1>1, PinnedAndUnpinned
<1>4. Does(Pin(p), FALSE, frames, c, d)
  BY <1>1, DoesPin
<1>5. Does(Write(p), FALSE, frames, d, d)
  BY <1>2, DoesWrite
<1>6. Does(Unpin(p, TRUE), FALSE, frames, d, c)
  BY <1>2, <1>3, DoesUnpin
<1> QED
  BY ONLY <1>4, <1>5, <1>6, DoesBoth

LEMMA DoesWritingHeader ==
  ASSUME NEW c \in PinCounts, NEW frames, Room(c, 1, frames)
  PROVE  Does(WritingHeader, FALSE, frames, c, c)
<1>1. HEADER_PAGE_ID \in Int
  BY DEF HEADER_PAGE_ID
<1>2. Does(Pin(HEADER_PAGE_ID) \o Write(HEADER_PAGE_ID) \o Unpin(HEADER_PAGE_ID, TRUE),
           FALSE, frames, c, c)
  BY <1>1, DoesTouch
<1> QED
  BY <1>2 DEF WritingHeader

LEMMA DoesAdopting ==
  ASSUME NEW children, Len(children) \in Nat, NEW c \in PinCounts,
         NEW frames, Room(c, 1, frames),
         \A i \in 1 .. Len(children) : children[i].value \in Int
  PROVE  Does(Adopting(children), FALSE, frames, c, c)
<1>1. PICK n, s, C :
        /\ n = Len(children)
        /\ s = [i \in 1 .. n |-> LET child == children[i].value
                                 IN  Pin(child) \o Write(child) \o Unpin(child, TRUE)]
        /\ C = [i \in 0 .. n |-> c]
  OBVIOUS
<1>2. n \in Nat
  BY <1>1
<1>3. ASSUME NEW i \in 1 .. n
      PROVE  Does(s[i], FALSE, frames, C[i - 1], C[i])
  <2>1. PICK child : child = children[i].value
    OBVIOUS
  <2>2. child \in Int
    BY <1>1, <2>1
  <2>3. s[i] = Pin(child) \o Write(child) \o Unpin(child, TRUE)
    BY <1>1, <2>1
  <2>4. C[i - 1] = c /\ C[i] = c
    BY <1>1, <1>2
  <2>5. Does(Pin(child) \o Write(child) \o Unpin(child, TRUE), FALSE, frames, c, c)
    BY <2>2, DoesTouch
  <2> QED
    BY <2>3, <2>4, <2>5
<1>4. s \in [1 .. n -> Seq(Call)]
  <2>1. \A i \in 1 .. n : s[i] \in Seq(Call)
    BY <1>3 DEF Does
  <2> QED
    BY <1>1, <2>1
<1>5. Does(Lists!FlattenSeq(s), FALSE, frames, C[0], C[n])
  BY ONLY <1>2, <1>3, <1>4, DoesAll
<1>6. C[0] = c /\ C[n] = c
  BY <1>1, <1>2
<1> QED
  BY <1>1, <1>6, <1>5 DEF Adopting

-----------------------------------------------------------------------------
(***************************************************************************)
(* The invariant.                                                          *)
(***************************************************************************)

\* c are the pins of the running call: it keeps the protocol, what it holds is what
\* it has to give back, and it holds the pages it is going to write.
CallPins(c) ==
  /\ c \in PinCounts /\ \E most : Kept(pool, FALSE, most, c)
  /\ held \in Seq(Int) /\ GivesAllBack(held, c)
  /\ todo = Idle => held = <<>>
  /\ todo.op = "insert" => c[todo.old] > 0 /\ c[todo.new] > 0
  /\ todo.op = "underflow" => c[todo.page] > 0

\* No more pages are pinned than that.
PinnedAtMost(n) == \E c : CallPins(c) /\ Room(c, 0, n)

\* A step that got along with so many frames, and after which no more pages than that
\* are pinned.
StepWithin(frames, n) == PinnedAtMost(n)' /\ pool'.peak <= frames

LEMMA InitPins == PinsInit => CallPins(NoPins)
<1> SUFFICES ASSUME PinsInit
             PROVE  CallPins(NoPins)
  OBVIOUS
<1>1. todo = Idle /\ held = <<>> /\ pool = PoolInit
  BY DEF PinsInit, Init
<1>2. todo.op = "idle"
  BY <1>1 DEF Idle
<1>3. pool = PoolState(PinBag(NoPins), 0, {}, {})
  BY <1>1, NoPinsNoBag DEF PoolInit, PoolState
<1>4. Kept(pool, FALSE, 0, NoPins)
  BY <1>3 DEF Kept
<1>5. <<>> \in Seq(Int)
  OBVIOUS
<1> QED
  BY <1>1, <1>2, <1>4, <1>5, NothingToGiveBack, NoPinsNoBag DEF CallPins

\* Between calls nothing is pinned.
LEMMA IdlePins ==
  ASSUME NEW c, CallPins(c), todo = Idle
  PROVE  c = NoPins /\ held = <<>>
BY NothingLeft DEF CallPins

LEMMA RoomWhenIdle ==
  ASSUME NEW frames \in Nat, 2 <= frames
  PROVE  Room(NoPins, 1, frames) /\ Room(NoPins, 2, frames)
<1>1. Room(NoPins, frames, frames)
  BY RoomAtFirst
<1>2. 1 \in 0 .. frames /\ 2 \in 0 .. frames
  OBVIOUS
<1> QED
  BY <1>1, <1>2, LessRoom

LEMMA Performed ==
  ASSUME NEW calls, NEW c, NEW d, NEW most, Kept(pool, FALSE, most, c),
         NEW frames, NEW more, Room(c, more, frames), Does(calls, FALSE, frames, c, d),
         Perform(calls)
  PROVE  Kept(pool', FALSE, frames, d) /\ pool'.peak <= frames
<1>1. PICK x : x = Cardinality(Pinned(pool))
  OBVIOUS
<1>2. PICK start : start = [pool EXCEPT !.peak = x]
  OBVIOUS
<1>3. PICK n, u : pool = PoolState(PinBag(c), n, u, {}) /\ u \subseteq PinnedPages(c)
  BY DEF Kept
<1>4. start = PoolState(PinBag(c), x, u, {})
  BY <1>2, <1>3 DEF PoolState
<1>5. x <= frames
  <2>1. Pinned(pool) = PinnedPages(c)
    BY <1>3 DEF PoolState, Pinned, BagToSet, PinBag
  <2> QED
    BY <1>1, <2>1, FS_CardinalityType DEF Room
<1>6. Kept(start, FALSE, frames, c)
  BY <1>3, <1>4, <1>5 DEF Kept
<1>7. pool' = Outcome(start, calls)
  BY <1>1, <1>2 DEF Perform, Outcome
<1>8. Kept(pool', FALSE, frames, d)
  BY <1>6, <1>7 DEF Does
<1>9. PICK m, v : pool' = PoolState(PinBag(d), m, v, {}) /\ m <= frames
  BY <1>8 DEF Kept
<1> QED
  BY <1>8, <1>9 DEF PoolState

\* A call that returns has to have given back what it took besides what it holds.
LEMMA Returned ==
  ASSUME NEW c, CallPins(c), NEW frames, NEW more, Room(c, more, frames),
         NEW calls, Does(calls, FALSE, frames, c, c), Return(calls), todo' = Idle,
         NEW n \in Nat
  PROVE  StepWithin(frames, n)
<1>1. held \in Seq(Int) /\ GivesAllBack(held, c)
  BY DEF CallPins
<1>2. PICK most : Kept(pool, FALSE, most, c)
  BY DEF CallPins
<1>3. Does(Returning, FALSE, frames, c, NoPins)
  BY <1>1, DoesReturning
<1>4. Does(calls \o Returning, FALSE, frames, c, NoPins)
  BY <1>3, DoesBoth
<1>5. Perform(calls \o Returning) /\ held' = <<>>
  BY DEF Return
<1>6. Kept(pool', FALSE, frames, NoPins) /\ pool'.peak <= frames
  BY ONLY <1>2, <1>4, <1>5, Room(c, more, frames), Performed
<1>7. todo'.op = "idle"
  BY DEF Idle
<1>8. <<>> \in Seq(Int)
  OBVIOUS
<1>9. CallPins(NoPins)'
  BY <1>5, <1>6, <1>7, <1>8, NothingToGiveBack, NoPinsNoBag DEF CallPins
<1>10. Room(NoPins, 0, n)
  BY RoomAtFirst, LessRoom
<1>11. PinnedAtMost(n)'
  BY <1>9, <1>10 DEF PinnedAtMost
<1> QED
  BY <1>6, <1>11 DEF StepWithin

\* A call that goes on keeps what it needs.
LEMMA WentOn ==
  ASSUME NEW c, CallPins(c), NEW frames, NEW more, Room(c, more, frames),
         NEW calls, NEW d \in PinCounts, Does(calls, FALSE, frames, c, d),
         NEW n, Room(d, 0, n),
         NEW kept, Keep(calls, kept), kept \o held \in Seq(Int), GivesAllBack(kept \o held, d),
         todo' # Idle,
         todo'.op = "insert" => d[todo'.old] > 0 /\ d[todo'.new] > 0,
         todo'.op = "underflow" => d[todo'.page] > 0
  PROVE  StepWithin(frames, n)
<1>1. PICK most : Kept(pool, FALSE, most, c)
  BY DEF CallPins
<1>2. Perform(calls) /\ held' = kept \o held
  BY DEF Keep
<1>3. Kept(pool', FALSE, frames, d) /\ pool'.peak <= frames
  BY ONLY <1>1, <1>2, Room(c, more, frames), Does(calls, FALSE, frames, c, d), Performed
<1>4. CallPins(d)'
  BY <1>2, <1>3 DEF CallPins
<1>5. PinnedAtMost(n)'
  BY <1>4 DEF PinnedAtMost
<1> QED
  BY <1>3, <1>5 DEF StepWithin

-----------------------------------------------------------------------------
(***************************************************************************)
(* Descending.                                                             *)
(***************************************************************************)

LEMMA PathPages ==
  ASSUME NEW T, SoundTree(T), ~IsEmpty, todo = Idle, NEW k
  PROVE  /\ FindLeafPage(k) \in Int
         /\ Cardinality(InnerPages(k)) \in Nat
         /\ \A n \in 1 .. Cardinality(InnerPages(k)) : PathTo(k)[n - 1] \in Int
<1>1. PagesTyped
  BY DEF SoundTree
<1>2. PICK level : TreeShape(pages, root_page_id, Pending, T, level)
  BY DEF SoundTree
<1>3. /\ FindLeafPage(k) \in T
      /\ DOMAIN PathTo(k) = 0 .. Cardinality(DOMAIN pages)
      /\ \A n \in DOMAIN PathTo(k) : PathTo(k)[n] \in T
  BY <1>1, <1>2, DescentReachesLeaf
<1>4. T \subseteq Int
  BY <1>1, <1>2, PageKinds DEF TreeShape, Levels
<1>5. PICK m : m = Cardinality(DOMAIN pages)
  OBVIOUS
<1>6. m \in Nat
  BY <1>1, <1>5, FS_CardinalityType DEF PagesTyped
<1>7. IsFiniteSet(0 .. m) /\ Cardinality(0 .. m) = m + 1
  BY <1>6, FS_Interval
<1>8. InnerPages(k) \subseteq 0 .. m
  BY <1>3, <1>5 DEF InnerPages
<1>9. IsFiniteSet(InnerPages(k)) /\ Cardinality(InnerPages(k)) <= m + 1
  BY <1>7, <1>8, FS_Subset
<1>10. Cardinality(InnerPages(k)) \in Nat
  BY <1>9, FS_CardinalityType
<1>11. \A n \in 1 .. Cardinality(InnerPages(k)) : n - 1 \in DOMAIN PathTo(k)
  BY <1>3, <1>5, <1>6, <1>9, <1>10
<1> QED
  BY <1>3, <1>4, <1>10, <1>11

LEMMA DoesDescent ==
  ASSUME NEW T, SoundTree(T), ~IsEmpty, todo = Idle, NEW k, NEW frames, Room(NoPins, 1, frames)
  PROVE  /\ FindLeafPage(k) \in Int
         /\ Does(Descent(k), TRUE, frames, NoPins, OneMore(NoPins, FindLeafPage(k)))
<1>1. PICK n, s, C :
        /\ n = Cardinality(InnerPages(k))
        /\ s = [i \in 1 .. n |-> LET page == PathTo(k)[i - 1]
                                 IN  Pin(page) \o Unpin(page, FALSE)]
        /\ C = [i \in 0 .. n |-> NoPins]
  OBVIOUS
<1>2. /\ FindLeafPage(k) \in Int /\ n \in Nat
      /\ \A i \in 1 .. n : PathTo(k)[i - 1] \in Int
  BY <1>1, PathPages
<1>3. ASSUME NEW i \in 1 .. n
      PROVE  Does(s[i], TRUE, frames, C[i - 1], C[i])
  <2>1. PICK page : page = PathTo(k)[i - 1]
    OBVIOUS
  <2>2. page \in Int
    BY <1>2, <2>1
  <2>3. s[i] = Pin(page) \o Unpin(page, FALSE)
    BY <1>1, <2>1
  <2>4. C[i - 1] = NoPins /\ C[i] = NoPins
    BY <1>1, <1>2
  <2>5. PICK d : d = OneMore(NoPins, page)
    OBVIOUS
  <2>6. d \in PinCounts /\ d[page] > 0 /\ OneLess(d, page) = NoPins
    BY <2>2, <2>5, MorePins, PinnedAndUnpinned, NoPinsNoBag
  <2>7. Does(Pin(page), TRUE, frames, NoPins, d)
    BY <2>2, <2>5, DoesPin, NoPinsNoBag
  <2>8. Does(Unpin(page, FALSE), TRUE, frames, d, OneLess(d, page))
    BY <2>2, <2>6, DoesUnpin
  <2>9. Does(Pin(page) \o Unpin(page, FALSE), TRUE, frames, NoPins, NoPins)
    BY <2>6, <2>7, <2>8, DoesBoth
  <2> QED
    BY <2>3, <2>4, <2>9
<1>4. s \in [1 .. n -> Seq(Call)]
  <2>1. \A i \in 1 .. n : s[i] \in Seq(Call)
    BY <1>3 DEF Does
  <2> QED
    BY <1>1, <2>1
<1>5. Does(Lists!FlattenSeq(s), TRUE, frames, C[0], C[n])
  BY ONLY <1>2, <1>3, <1>4, DoesAll
<1>6. C[0] = NoPins /\ C[n] = NoPins
  BY <1>1, <1>2
<1>7. Does(Pin(FindLeafPage(k)), TRUE, frames, NoPins, OneMore(NoPins, FindLeafPage(k)))
  BY <1>2, DoesPin, NoPinsNoBag
<1>8. Descent(k) = Lists!FlattenSeq(s) \o Pin(FindLeafPage(k))
  BY <1>1 DEF Descent
<1>9. Does(Descent(k), TRUE, frames, NoPins, OneMore(NoPins, FindLeafPage(k)))
  BY <1>5, <1>6, <1>7, <1>8, DoesBoth
<1> QED
  BY <1>2, <1>9

-----------------------------------------------------------------------------
(***************************************************************************)
(* Insertions and lookups.                                                 *)
(***************************************************************************)

LEMMA PinsCommute ==
  ASSUME NEW c \in PinCounts, NEW p \in Int, NEW q \in Int
  PROVE  OneMore(OneMore(c, p), q) = OneMore(OneMore(c, q), p)
<1>1. PICK d, e : d = OneMore(OneMore(c, p), q) /\ e = OneMore(OneMore(c, q), p)
  OBVIOUS
<1>2. d \in [Int -> Nat] /\ e \in [Int -> Nat]
  BY <1>1, MorePins DEF PinCounts
<1>3. \A r \in Int : d[r] = c[r] + (IF r = p THEN 1 ELSE 0) + (IF r = q THEN 1 ELSE 0)
  BY <1>1 DEF OneMore, PinCounts
<1>4. \A r \in Int : e[r] = c[r] + (IF r = p THEN 1 ELSE 0) + (IF r = q THEN 1 ELSE 0)
  BY <1>1 DEF OneMore, PinCounts
<1>5. d = e
  BY <1>2, <1>3, <1>4
<1> QED
  BY <1>1, <1>5

LEMMA ReadingLeafReturns ==
  ASSUME NEW T, SoundTree(T), todo = Idle, NEW k, NEW frames, Room(NoPins, 1, frames)
  PROVE  Does(ReadingLeaf(k), FALSE, frames, NoPins, NoPins)
<1>1. CASE IsEmpty
  BY <1>1, DoesNothing DEF ReadingLeaf
<1>2. CASE ~IsEmpty
  <2>1. PICK p, d : p = FindLeafPage(k) /\ d = OneMore(NoPins, p)
    OBVIOUS
  <2>2. p \in Int /\ Does(Descent(k), TRUE, frames, NoPins, d)
    BY <1>2, <2>1, DoesDescent
  <2>3. d \in PinCounts /\ d[p] > 0 /\ OneLess(d, p) = NoPins
    BY <2>1, <2>2, MorePins, PinnedAndUnpinned, NoPinsNoBag
  <2>4. Does(Unpin(p, FALSE), TRUE, frames, d, NoPins)
    BY <2>2, <2>3, DoesUnpin
  <2>5. Does(Descent(k) \o Unpin(p, FALSE), TRUE, frames, NoPins, NoPins)
    BY ONLY <2>2, <2>4, DoesBoth
  <2> QED
    BY <1>2, <2>1, <2>5, DoesWhenClean DEF ReadingLeaf
<1> QED
  BY <1>1, <1>2

\* The descent of a call that goes on to write the leaf.
LEMMA DescentToWrite ==
  ASSUME NEW T, SoundTree(T), todo = Idle, ~IsEmpty, NEW k, NEW p, p = FindLeafPage(k),
         NEW frames, Room(NoPins, 1, frames)
  PROVE  /\ p \in Int
         /\ OneMore(NoPins, p) \in PinCounts /\ OneMore(NoPins, p)[p] > 0
         /\ Does(Descent(k), FALSE, frames, NoPins, OneMore(NoPins, p))
<1>1. p \in Int /\ Does(Descent(k), TRUE, frames, NoPins, OneMore(NoPins, p))
  BY DoesDescent
<1>2. OneMore(NoPins, p) \in PinCounts /\ OneMore(NoPins, p)[p] > 0
  BY <1>1, MorePins, NoPinsNoBag
<1> QED
  BY <1>1, <1>2, DoesWhenClean

LEMMA WritingLeafReturns ==
  ASSUME NEW T, SoundTree(T), todo = Idle, ~IsEmpty, NEW k, NEW frames, Room(NoPins, 1, frames)
  PROVE  Does(WritingLeaf(k), FALSE, frames, NoPins, NoPins)
<1>1. PICK p, d : p = FindLeafPage(k) /\ d = OneMore(NoPins, p)
  OBVIOUS
<1>2. p \in Int /\ d \in PinCounts /\ d[p] > 0 /\ Does(Descent(k), FALSE, frames, NoPins, d)
  BY <1>1, DescentToWrite
<1>3. OneLess(d, p) = NoPins
  BY <1>1, <1>2, PinnedAndUnpinned, NoPinsNoBag
<1>4. Does(Write(p), FALSE, frames, d, d)
  BY <1>2, DoesWrite
<1>5. Does(Unpin(p, TRUE), FALSE, frames, d, NoPins)
  BY <1>2, <1>3, DoesUnpin
<1>6. Does(Descent(k) \o Write(p) \o Unpin(p, TRUE), FALSE, frames, NoPins, NoPins)
  BY ONLY <1>2, <1>4, <1>5, DoesBoth
<1> QED
  BY <1>1, <1>6 DEF WritingLeaf

LEMMA NewPageIsPage ==
  ASSUME NEW T, SoundTree(T)
  PROVE  NewPageId \in Int
<1>1. PagesTyped
  BY DEF SoundTree
<1>2. PICK D : D = DOMAIN pages \cup {NewPageId}
  OBVIOUS
<1>3. NewPageId \in Nat \ {0}
  BY <1>1, <1>2, NewPage
<1> QED
  BY <1>3

LEMMA LookupKeepsPins ==
  ASSUME NEW T, SoundTree(T), NEW c, CallPins(c), NEW k, todo = Idle, todo' = Idle,
         Return(ReadingLeaf(k)), NEW frames \in Nat, 2 <= frames
  PROVE  StepWithin(frames, 0)
<1>1. c = NoPins /\ Room(c, 1, frames)
  BY IdlePins, RoomWhenIdle
<1>2. Does(ReadingLeaf(k), FALSE, frames, c, c)
  BY <1>1, ReadingLeafReturns
<1> QED
  BY <1>1, <1>2, Returned

LEMMA StartNewTreeKeepsPins ==
  ASSUME NEW T, SoundTree(T), NEW c, CallPins(c), NEW k, NEW v, StartNewTree(k, v),
         Return(StartingTree), NEW frames \in Nat, 2 <= frames
  PROVE  StepWithin(frames, 0)
<1>1. todo = Idle /\ todo' = Idle
  BY DEF StartNewTree
<1>2. c = NoPins /\ c \in PinCounts /\ Room(c, 1, frames) /\ Room(c, 2, frames)
  BY <1>1, IdlePins, NoPinsNoBag, RoomWhenIdle
<1>3. PICK p, d : p = NewPageId /\ d = OneMore(c, p)
  OBVIOUS
<1>4. p \in Int
  BY <1>3, NewPageIsPage
<1>5. d \in PinCounts /\ d[p] > 0 /\ OneLess(d, p) = c /\ Room(d, 1, frames)
  BY <1>2, <1>3, <1>4, MorePins, PinnedAndUnpinned, RoomAfterPin
<1>6. Does(Pin(p), FALSE, frames, c, d) /\ Does(Write(p), FALSE, frames, d, d)
      /\ Does(WritingHeader, FALSE, frames, d, d) /\ Does(Unpin(p, TRUE), FALSE, frames, d, c)
  BY <1>2, <1>3, <1>4, <1>5, DoesPin, DoesWrite, DoesWritingHeader, DoesUnpin
<1>7. Does(Pin(p) \o Write(p) \o WritingHeader \o Unpin(p, TRUE), FALSE, frames, c, c)
  BY ONLY <1>6, DoesBoth
<1>8. Does(StartingTree, FALSE, frames, c, c)
  BY <1>3, <1>7 DEF StartingTree
<1> QED
  BY <1>1, <1>2, <1>8, Returned

LEMMA InsertIntoLeafKeepsPins ==
  ASSUME NEW T, SoundTree(T), NEW c, CallPins(c), NEW k, NEW v, InsertIntoLeaf(k, v),
         Return(WritingLeaf(k)), NEW frames \in Nat, 2 <= frames
  PROVE  StepWithin(frames, 0)
<1>1. todo = Idle /\ todo' = Idle /\ ~IsEmpty
  BY DEF InsertIntoLeaf
<1>2. c = NoPins /\ Room(c, 1, frames)
  BY <1>1, IdlePins, RoomWhenIdle
<1>3. Does(WritingLeaf(k), FALSE, frames, c, c)
  BY <1>1, <1>2, WritingLeafReturns
<1> QED
  BY <1>1, <1>2, <1>3, Returned

LEMMA TwoInFront ==
  ASSUME NEW a \in Int, NEW b \in Int, NEW list \in Seq(Int)
  PROVE  <<a, b>> \o list = <<a>> \o (<<b>> \o list)
<1>1. <<a>> \in Seq(Int) /\ <<b>> \in Seq(Int) /\ <<a, b>> = Append(<<a>>, b)
  OBVIOUS
<1>2. <<a, b>> = <<a>> \o <<b>>
  BY <1>1, AppendIsConcat
<1> QED
  BY <1>1, <1>2, ConcatAssociative

LEMMA SplitLeafKeepsPins ==
  ASSUME NEW T, SoundTree(T), NEW c, CallPins(c), NEW k, NEW v, SplitLeaf(k, v),
         Keep(SplittingLeaf(k), KeptBySplit(FindLeafPage(k), NewPageId)),
         NEW frames \in Nat, 2 <= frames
  PROVE  StepWithin(frames, 2)
<1>1. PICK p, q : p = FindLeafPage(k) /\ q = NewPageId
  OBVIOUS
<1>2. todo = Idle /\ ~IsEmpty
  BY DEF SplitLeaf
<1>3. todo'.op = "insert" /\ todo'.old = p /\ todo'.new = q
  BY <1>1 DEF SplitLeaf
<1>4. todo' # Idle
  BY <1>3 DEF Idle
<1>5. c = NoPins /\ held = <<>> /\ Room(c, 1, frames) /\ Room(c, 2, frames) /\ Room(c, 2, 2)
  BY <1>2, IdlePins, RoomWhenIdle
<1>6. PICK d, e : d = OneMore(c, p) /\ e = OneMore(d, q)
  OBVIOUS
<1>7. p \in Int /\ d \in PinCounts /\ d[p] > 0 /\ Does(Descent(k), FALSE, frames, c, d)
  BY <1>1, <1>2, <1>5, <1>6, DescentToWrite
<1>8. q \in Int /\ e \in PinCounts /\ e[q] > 0 /\ e[p] > 0
  BY <1>1, <1>6, <1>7, NewPageIsPage, MorePins
<1>9. Room(d, 1, frames) /\ Room(e, 0, 2)
  <2>1. c \in PinCounts
    BY <1>5, NoPinsNoBag
  <2>2. Room(d, 1, frames) /\ Room(d, 1, 2)
    BY <1>5, <1>6, <1>7, <2>1, RoomAfterPin
  <2> QED
    BY <1>6, <1>7, <1>8, <2>2, RoomAfterPin
<1>10. /\ Does(Pin(q), FALSE, frames, d, e)
       /\ Does(Write(p), FALSE, frames, e, e) /\ Does(Write(q), FALSE, frames, e, e)
  BY <1>9, <1>6, <1>7, <1>8, DoesPin, DoesWrite
<1>11. Does(Descent(k) \o Pin(q) \o Write(p) \o Write(q), FALSE, frames, c, e)
  BY ONLY <1>7, <1>10, DoesBoth
<1>12. Does(SplittingLeaf(k), FALSE, frames, c, e)
  BY <1>1, <1>11 DEF SplittingLeaf
<1>13. PICK f : f = OneMore(c, q)
  OBVIOUS
<1>14. c \in PinCounts /\ f \in PinCounts /\ e = OneMore(f, p)
  BY <1>5, <1>6, <1>7, <1>8, <1>13, PinsCommute, MorePins, NoPinsNoBag
<1>15. held \in Seq(Int) /\ GivesAllBack(held, c)
  BY DEF CallPins
<1>16. <<q>> \o held \in Seq(Int) /\ GivesAllBack(<<q>> \o held, f)
  BY <1>8, <1>13, <1>14, <1>15, MoreToGiveBack
<1>17. PICK rest : rest = <<q>> \o held
  OBVIOUS
<1>18. <<p>> \o rest \in Seq(Int) /\ GivesAllBack(<<p>> \o rest, e)
  BY <1>7, <1>14, <1>16, <1>17, MoreToGiveBack
<1>19. KeptBySplit(p, q) \o held = <<p>> \o rest
  BY <1>7, <1>8, <1>15, <1>17, TwoInFront DEF KeptBySplit
<1>20. KeptBySplit(p, q) \o held \in Seq(Int) /\ GivesAllBack(KeptBySplit(p, q) \o held, e)
  BY <1>18, <1>19
<1>21. Keep(SplittingLeaf(k), KeptBySplit(p, q))
  BY <1>1
<1> QED
  BY <1>9, <1>3, <1>4, <1>5, <1>8, <1>12, <1>20, <1>21, WentOn

\* The call of an insertion on its way up.
LEMMA InsertCall ==
  ASSUME NEW T, SoundTree(T), NEW c, CallPins(c), todo.op = "insert"
  PROVE  /\ todo.old \in Int /\ todo.new \in Int /\ NewPageId \in Int
         /\ c \in PinCounts /\ c[todo.old] > 0 /\ c[todo.new] > 0
         /\ held \in Seq(Int) /\ GivesAllBack(held, c)
<1>1. PagesTyped /\ OthersTyped
  BY DEF SoundTree
<1>2. PICK level : TreeShape(pages, root_page_id, Pending, T, level) /\ CallShape(T, level)
  BY DEF SoundTree
<1>3. todo.old \in Nat /\ todo.new \in Nat
  BY <1>1, <1>2, InsertFacts
<1>4. NewPageId \in Int
  BY NewPageIsPage
<1> QED
  BY <1>3, <1>4 DEF CallPins

LEMMA NewRootKeepsPins ==
  ASSUME NEW T, SoundTree(T), NEW c, CallPins(c), NewRoot, Return(MakingRoot),
         NEW frames, Room(c, 1, frames), Room(c, 2, frames)
  PROVE  StepWithin(frames, 0)
<1>1. todo.op = "insert" /\ todo' = Idle
  BY DEF NewRoot
<1>2. PICK p, q, r, d : p = NewPageId /\ q = todo.old /\ r = todo.new /\ d = OneMore(c, p)
  OBVIOUS
<1>3. p \in Int /\ q \in Int /\ r \in Int /\ c \in PinCounts /\ c[q] > 0 /\ c[r] > 0
  BY <1>1, <1>2, InsertCall
<1>4. d \in PinCounts /\ d[p] > 0 /\ d[q] > 0 /\ d[r] > 0 /\ OneLess(d, p) = c
  BY <1>2, <1>3, MorePins, PinnedAndUnpinned
<1>5. Room(d, 1, frames)
  BY <1>2, <1>3, RoomAfterPin
<1>6. Does(Pin(p), FALSE, frames, c, d) /\ Does(Unpin(p, TRUE), FALSE, frames, d, c)
  BY <1>2, <1>3, <1>4, DoesPin, DoesUnpin
<1>7. /\ Does(Write(p), FALSE, frames, d, d) /\ Does(Write(q), FALSE, frames, d, d)
      /\ Does(Write(r), FALSE, frames, d, d) /\ Does(WritingHeader, FALSE, frames, d, d)
  BY <1>5, <1>3, <1>4, DoesWrite, DoesWritingHeader
<1>8. Does(Pin(p) \o Write(p) \o Write(q) \o Write(r) \o WritingHeader, FALSE, frames, c, d)
  BY ONLY <1>6, <1>7, DoesBoth
<1>9. Does(Pin(p) \o Write(p) \o Write(q) \o Write(r) \o WritingHeader \o Unpin(p, TRUE),
           FALSE, frames, c, c)
  BY ONLY <1>6, <1>8, DoesBoth
<1>10. Does(MakingRoot, FALSE, frames, c, c)
  BY <1>2, <1>9 DEF MakingRoot
<1> QED
  BY <1>1, <1>10, Returned

LEMMA DoesWritingParent ==
  ASSUME NEW T, SoundTree(T), NEW c, CallPins(c), todo.op = "insert", ~IsRootPage(todo.old),
         NEW p, p = OldParent, NEW d, d = OneMore(c, p), NEW frames, Room(c, 1, frames)
  PROVE  /\ p \in Int /\ d \in PinCounts /\ d[p] > 0
         /\ Does(WritingParent, FALSE, frames, c, d)
<1>1. p \in Int
  BY InsertPages DEF OldParent
<1>2. PICK q : q = todo.new
  OBVIOUS
<1>3. q \in Int /\ c \in PinCounts /\ c[q] > 0
  BY <1>2, InsertCall
<1>4. d \in PinCounts /\ d[p] > 0 /\ d[q] > 0
  BY <1>1, <1>3, MorePins
<1>5. /\ Does(Pin(p), FALSE, frames, c, d)
      /\ Does(Write(p), FALSE, frames, d, d) /\ Does(Write(q), FALSE, frames, d, d)
  BY <1>1, <1>3, <1>4, DoesPin, DoesWrite
<1>6. Does(Pin(p) \o Write(p) \o Write(q), FALSE, frames, c, d)
  BY ONLY <1>5, DoesBoth
<1> QED
  BY <1>1, <1>2, <1>4, <1>6 DEF WritingParent

LEMMA ParentHasRoomKeepsPins ==
  ASSUME NEW T, SoundTree(T), NEW c, CallPins(c), ParentHasRoom,
         Return(WritingParent \o Unpin(OldParent, TRUE)), NEW frames, Room(c, 1, frames)
  PROVE  StepWithin(frames, 0)
<1>1. todo.op = "insert" /\ ~IsRootPage(todo.old) /\ todo' = Idle
  BY DEF ParentHasRoom
<1>2. PICK p, d : p = OldParent /\ d = OneMore(c, p)
  OBVIOUS
<1>3. p \in Int /\ d \in PinCounts /\ d[p] > 0 /\ Does(WritingParent, FALSE, frames, c, d)
  BY <1>1, <1>2, DoesWritingParent
<1>4. OneLess(d, p) = c
  BY <1>2, <1>3, PinnedAndUnpinned DEF CallPins
<1>5. Does(Unpin(p, TRUE), FALSE, frames, d, c)
  BY <1>3, <1>4, DoesUnpin
<1>6. Does(WritingParent \o Unpin(p, TRUE), FALSE, frames, c, c)
  BY ONLY <1>3, <1>5, DoesBoth
<1> QED
  BY <1>1, <1>2, <1>6, Returned

\* Pages of the tree are told about a new parent.
LEMMA DoesAdoptingChildren ==
  ASSUME NEW array \in Seq(ChildPair), NEW c \in PinCounts, NEW frames, Room(c, 1, frames)
  PROVE  Does(Adopting(array), FALSE, frames, c, c)
<1>1. Len(array) \in Nat
  BY LenProperties
<1>2. \A i \in 1 .. Len(array) : array[i].value \in Int
  <2> TAKE i \in 1 .. Len(array)
  <2>1. array[i] \in ChildPair
    BY ElementOfSeq
  <2> QED
    BY <2>1 DEF ChildPair
<1> QED
  BY <1>1, <1>2, DoesAdopting

LEMMA ParentSplitsKeepsPins ==
  ASSUME NEW T, SoundTree(T), NEW c, CallPins(c), ParentSplits,
         Keep(SplittingParent, KeptByParentSplit(OldParent, NewPageId)),
         NEW frames, Room(c, 1, frames), Room(c, 3, frames), NEW n, Room(c, 2, n)
  PROVE  StepWithin(frames, n)
<1>1. PICK p, q, right : /\ p = OldParent /\ q = NewPageId
                         /\ right = SubSeq(ParentArray, InternalSplitIndex(Len(ParentArray)) + 1,
                                           Len(ParentArray))
  OBVIOUS
<1>2. todo.op = "insert" /\ ~IsRootPage(todo.old)
  BY DEF ParentSplits
<1>3. todo'.op = "insert" /\ todo'.old = p /\ todo'.new = q
  BY <1>1 DEF ParentSplits, OldParent
<1>4. todo' # Idle
  BY <1>3 DEF Idle
<1>5. PICK d, e : d = OneMore(c, p) /\ e = OneMore(d, q)
  OBVIOUS
<1>6. p \in Int /\ d \in PinCounts /\ d[p] > 0 /\ Does(WritingParent, FALSE, frames, c, d)
  BY <1>1, <1>2, <1>5, DoesWritingParent
<1>7. q \in Int /\ c \in PinCounts /\ held \in Seq(Int) /\ GivesAllBack(held, c)
  BY <1>1, <1>2, InsertCall
<1>8. e \in PinCounts /\ e[q] > 0 /\ e[p] > 0
  BY <1>5, <1>6, <1>7, MorePins
<1>9. Room(d, 1, frames) /\ Room(e, 1, frames) /\ Room(e, 0, n)
  <2>1. Room(d, 2, frames) /\ Room(d, 1, n)
    BY <1>5, <1>6, <1>7, RoomAfterPin
  <2>2. frames \in Nat /\ 1 \in 0 .. 2
    BY <2>1 DEF Room
  <2>3. Room(d, 1, frames)
    BY <2>1, <2>2, LessRoom
  <2> QED
    BY <1>5, <1>6, <1>7, <2>1, <2>3, RoomAfterPin
<1>10. right \in Seq(ChildPair)
  <2>1. ParentArray \in Seq(ChildPair)
    BY <1>2, InsertPages
  <2>2. PICK size : size = Len(ParentArray)
    OBVIOUS
  <2>3. size \in Nat /\ InternalSplitIndex(size) + 1 \in 1 .. size + 1
    BY <2>1, <2>2, LenProperties DEF InternalSplitIndex
  <2> QED
    BY <1>1, <2>1, <2>2, <2>3, SubSeqProperties
<1>11. /\ Does(Pin(q), FALSE, frames, d, e) /\ Does(Write(q), FALSE, frames, e, e)
       /\ Does(Adopting(right), FALSE, frames, e, e)
  BY <1>9, <1>5, <1>6, <1>7, <1>8, <1>10, DoesPin, DoesWrite, DoesAdoptingChildren
<1>12. Does(WritingParent \o Pin(q) \o Write(q) \o Adopting(right), FALSE, frames, c, e)
  BY ONLY <1>6, <1>11, DoesBoth
<1>13. Does(SplittingParent, FALSE, frames, c, e)
  BY <1>1, <1>12 DEF SplittingParent
<1>14. <<p>> \o held \in Seq(Int) /\ GivesAllBack(<<p>> \o held, d)
  BY <1>5, <1>6, <1>7, MoreToGiveBack
<1>15. PICK rest : rest = <<p>> \o held
  OBVIOUS
<1>16. <<q>> \o rest \in Seq(Int) /\ GivesAllBack(<<q>> \o rest, e)
  BY <1>5, <1>6, <1>7, <1>14, <1>15, MoreToGiveBack
<1>17. KeptByParentSplit(p, q) \o held = <<q>> \o rest
  BY <1>6, <1>7, <1>15, TwoInFront DEF KeptByParentSplit
<1>18. /\ KeptByParentSplit(p, q) \o held \in Seq(Int)
       /\ GivesAllBack(KeptByParentSplit(p, q) \o held, e)
  BY <1>16, <1>17
<1>19. Keep(SplittingParent, KeptByParentSplit(p, q))
  BY <1>1
<1> QED
  BY <1>9, <1>3, <1>4, <1>8, <1>13, <1>18, <1>19, WentOn

-----------------------------------------------------------------------------
(***************************************************************************)
(* Removals.                                                               *)
(***************************************************************************)

\* The page with too few pairs, its sibling and their parent.
LEMMA UnderflowCall ==
  ASSUME NEW T, SoundTree(T), NEW c, CallPins(c), Underflowing
  PROVE  /\ {todo.page, Sibling, Parent} \subseteq DOMAIN pages
         /\ {todo.page, Sibling, Parent} \subseteq Int
         /\ c \in PinCounts /\ c[todo.page] > 0
         /\ held \in Seq(Int) /\ GivesAllBack(held, c)
         /\ pages[Sibling].leaf <=> pages[todo.page].leaf
         /\ \A p \in {todo.page, Sibling} :
              ~pages[todo.page].leaf => pages[p].array \in Seq(ChildPair)
<1>1. PagesTyped /\ OthersTyped /\ todo.op = "underflow"
  BY DEF SoundTree, Underflowing
<1>2. PICK level : TreeShape(pages, root_page_id, Pending, T, level) /\ CallShape(T, level)
  BY DEF SoundTree
<1>3. PICK page, S, P : page = todo.page /\ S = Sibling /\ P = Parent
  OBVIOUS
<1>4. {page, S, P} \subseteq T /\ (pages[S].leaf <=> pages[page].leaf)
  BY <1>1, <1>2, <1>3, UnderflowFacts
<1>5. {page, S, P} \subseteq DOMAIN pages
  BY <1>2, <1>4 DEF TreeShape, Levels
<1>6. {page, S, P} \subseteq Int
  BY <1>1, <1>5, PageKinds
<1>7. ~pages[page].leaf => pages[page].array \in Seq(ChildPair) /\ pages[S].array \in Seq(ChildPair)
  BY <1>1, <1>4, <1>5, PageKinds
<1> QED
  BY <1>1, <1>3, <1>4, <1>5, <1>6, <1>7 DEF CallPins

\* The parent is pinned on top of c, and the sibling on top of that.
PinnedOnTop(c, P, d, S, e) ==
  P = Parent /\ d = OneMore(c, P) /\ S = Sibling /\ e = OneMore(d, S)

\* What moves between internal pages are children.
Movable(pairs) == ~pages[todo.page].leaf => pairs \in Seq(ChildPair)

LEMMA DoesWritingSiblings ==
  ASSUME NEW T, SoundTree(T), NEW c, CallPins(c), Underflowing,
         NEW P, NEW d, NEW S, NEW e, PinnedOnTop(c, P, d, S, e),
         NEW pairs, Movable(pairs),
         NEW frames, Room(c, 1, frames), Room(c, 3, frames)
  PROVE  /\ P \in Int /\ S \in Int
         /\ d \in PinCounts /\ d[P] > 0 /\ OneLess(d, P) = c
         /\ e \in PinCounts /\ e[P] > 0 /\ e[S] > 0 /\ OneLess(e, S) = d
         /\ Does(WritingSiblings(pairs), FALSE, frames, c, e)
<1>1. PICK p : p = todo.page
  OBVIOUS
<1>2. P = Parent /\ d = OneMore(c, P) /\ S = Sibling /\ e = OneMore(d, S)
  BY DEF PinnedOnTop
<1>3. p \in Int /\ S \in Int /\ P \in Int /\ c \in PinCounts /\ c[p] > 0
  BY <1>2, <1>1, UnderflowCall
<1>4. d \in PinCounts /\ d[P] > 0 /\ d[p] > 0 /\ OneLess(d, P) = c
  BY <1>2, <1>3, MorePins, PinnedAndUnpinned
<1>5. e \in PinCounts /\ e[P] > 0 /\ e[S] > 0 /\ e[p] > 0 /\ OneLess(e, S) = d
  BY <1>2, <1>3, <1>4, MorePins, PinnedAndUnpinned
<1>6. Room(d, 1, frames) /\ Room(e, 1, frames)
  <2>1. Room(d, 2, frames)
    BY <1>2, <1>3, RoomAfterPin
  <2>2. Room(d, 1, frames)
    <3>1. 1 \in 0 .. 2
      OBVIOUS
    <3> QED
      BY <2>1, <3>1, LessRoom
  <2> QED
    BY <1>2, <1>3, <1>4, <2>1, <2>2, RoomAfterPin
<1>7. Does(Moving(pairs), FALSE, frames, e, e)
  BY <1>6, <1>1, <1>5, DoesNothing, DoesAdoptingChildren DEF Moving, Movable
<1>8. /\ Does(Pin(P), FALSE, frames, c, d) /\ Does(Pin(S), FALSE, frames, d, e)
      /\ Does(Write(S), FALSE, frames, e, e) /\ Does(Write(p), FALSE, frames, e, e)
  BY <1>6, <1>2, <1>3, <1>4, <1>5, DoesPin, DoesWrite
<1>9. Does(Pin(P) \o Pin(S) \o Write(S) \o Write(p) \o Moving(pairs), FALSE, frames, c, e)
  BY ONLY <1>7, <1>8, DoesBoth
<1>10. Does(WritingSiblings(pairs), FALSE, frames, c, e)
  BY <1>2, <1>1, <1>9 DEF WritingSiblings
<1> QED
  BY <1>3, <1>4, <1>5, <1>10

LEMMA RedistributeKeepsPins ==
  ASSUME NEW T, SoundTree(T), NEW c, CallPins(c),
         RedistributeFromLeft \/ RedistributeFromRight, Return(Redistributing),
         NEW frames, Room(c, 1, frames), Room(c, 3, frames)
  PROVE  StepWithin(frames, 0)
<1>1. Underflowing /\ todo' = Idle /\ Size(Sibling) > MinSize(Sibling)
  BY DEF RedistributeFromLeft, RedistributeFromRight
<1>2. PICK P, S, d, e, array, pair :
        /\ P = Parent /\ S = Sibling /\ d = OneMore(c, P) /\ e = OneMore(d, S)
        /\ array = pages[S].array
        /\ pair = array[IF FromLeft THEN Len(array) ELSE 1]
  OBVIOUS
<1>3. ASSUME ~pages[todo.page].leaf
      PROVE  <<pair>> \in Seq(ChildPair)
  <2>1. array \in Seq(ChildPair) /\ S \in DOMAIN pages
    BY <1>1, <1>2, <1>3, UnderflowCall
  <2>2. Len(array) \in Nat /\ Len(array) > MinSize(S) /\ MinSize(S) \in Nat
    <3>1. LeafMax \div 2 \in Nat /\ InternalMax \div 2 \in Nat
      BY SizesAssumption
    <3> QED
      BY <1>1, <1>2, <2>1, <3>1, LenProperties DEF Size, MinSize, MaxSize
  <2>3. (IF FromLeft THEN Len(array) ELSE 1) \in 1 .. Len(array)
    BY <2>2
  <2>4. pair \in ChildPair
    BY <1>2, <2>1, <2>3, ElementOfSeq
  <2> QED
    BY <2>4
<1>4. PICK pairs : pairs = <<pair>>
  OBVIOUS
<1>5. /\ P \in Int /\ S \in Int
      /\ d \in PinCounts /\ d[P] > 0 /\ OneLess(d, P) = c
      /\ e \in PinCounts /\ e[P] > 0 /\ e[S] > 0 /\ OneLess(e, S) = d
      /\ Does(WritingSiblings(pairs), FALSE, frames, c, e)
  <2>1. PinnedOnTop(c, P, d, S, e)
    BY <1>2 DEF PinnedOnTop
  <2>2. Movable(pairs)
    BY <1>3, <1>4 DEF Movable
  <2>3. Underflowing
    BY <1>1
  <2> QED
    BY ONLY SoundTree(T), CallPins(c), Room(c, 1, frames), Room(c, 3, frames),
            <2>1, <2>2, <2>3, DoesWritingSiblings
<1>6. /\ Does(Write(P), FALSE, frames, e, e) /\ Does(Unpin(S, TRUE), FALSE, frames, e, d)
      /\ Does(Unpin(P, TRUE), FALSE, frames, d, c)
  BY <1>5, DoesWrite, DoesUnpin
<1>7. Does(WritingSiblings(pairs) \o Write(P) \o Unpin(S, TRUE) \o Unpin(P, TRUE),
           FALSE, frames, c, c)
  BY ONLY <1>5, <1>6, DoesBoth
<1>8. Redistributing = WritingSiblings(pairs) \o Write(P) \o Unpin(S, TRUE) \o Unpin(P, TRUE)
  BY <1>2, <1>4 DEF Redistributing
<1>9. Does(Redistributing, FALSE, frames, c, c)
  BY <1>7, <1>8
<1> QED
  BY <1>1, <1>9, Returned

LEMMA CoalesceKeepsPins ==
  ASSUME NEW T, SoundTree(T), NEW c, CallPins(c), Coalesce,
         IF todo' = Idle THEN Return(Coalescing \o Unpin(Parent, TRUE))
                         ELSE Keep(Coalescing, <<Parent>>),
         NEW frames, Room(c, 1, frames), Room(c, 3, frames), NEW n \in Nat, Room(c, 1, n)
  PROVE  StepWithin(frames, n)
<1>1. Underflowing
  BY DEF Coalesce
<1>2. PICK P, S, d, e, pairs :
        /\ P = Parent /\ S = Sibling /\ d = OneMore(c, P) /\ e = OneMore(d, S)
        /\ pairs = pages[IF FromLeft THEN S ELSE todo.page].array
  OBVIOUS
<1>3. ~pages[todo.page].leaf => pairs \in Seq(ChildPair)
  BY <1>1, <1>2, UnderflowCall
<1>4. /\ P \in Int /\ S \in Int
      /\ d \in PinCounts /\ d[P] > 0 /\ OneLess(d, P) = c
      /\ e \in PinCounts /\ e[P] > 0 /\ e[S] > 0 /\ OneLess(e, S) = d
      /\ Does(WritingSiblings(pairs), FALSE, frames, c, e)
  <2>1. PinnedOnTop(c, P, d, S, e)
    BY <1>2 DEF PinnedOnTop
  <2>2. Movable(pairs)
    BY <1>3 DEF Movable
  <2> QED
    BY ONLY SoundTree(T), CallPins(c), Room(c, 1, frames), Room(c, 3, frames),
            <1>1, <2>1, <2>2, DoesWritingSiblings
<1>5. /\ Does(Unpin(S, TRUE), FALSE, frames, e, d) /\ Does(Write(P), FALSE, frames, d, d)
      /\ Does(Unpin(P, TRUE), FALSE, frames, d, c)
  BY <1>4, DoesWrite, DoesUnpin
<1>6. Does(WritingSiblings(pairs) \o Unpin(S, TRUE) \o Write(P), FALSE, frames, c, d)
  BY ONLY <1>4, <1>5, DoesBoth
<1>7. Does(Coalescing, FALSE, frames, c, d)
  BY <1>2, <1>6 DEF Coalescing
<1>8. CASE todo' = Idle
  <2>1. Does(Coalescing \o Unpin(P, TRUE), FALSE, frames, c, c)
    BY ONLY <1>5, <1>7, DoesBoth
  <2> QED
    BY <1>2, <1>8, <2>1, Returned
<1>9. CASE todo' # Idle
  <2>1. todo'.page = P /\ (todo'.op = "adjust root" \/ todo'.op = "underflow")
    BY <1>2, <1>9 DEF Coalesce
  <2>2. c \in PinCounts /\ held \in Seq(Int) /\ GivesAllBack(held, c)
    BY DEF CallPins
  <2>3. <<P>> \o held \in Seq(Int) /\ GivesAllBack(<<P>> \o held, d)
    BY <1>2, <1>4, <2>2, MoreToGiveBack
  <2>4. Keep(Coalescing, <<P>>)
    BY <1>2, <1>9
  <2>5. Room(d, 0, n)
    BY <1>2, <1>4, <2>2, RoomAfterPin
  <2> QED
    BY <1>4, <1>7, <1>9, <2>1, <2>3, <2>4, <2>5, WentOn
<1> QED
  BY <1>8, <1>9

LEMMA RootIsPage ==
  ASSUME OthersTyped, todo.op = "adjust root"
  PROVE  todo.page \in DOMAIN pages
<1>1. todo \in Todo /\ todo.op = "adjust root"
  BY DEF OthersTyped
<1>2. todo \in [op : {"underflow", "adjust root"}, page : DOMAIN pages]
  <2>1. todo # Idle
    <3>1. Idle.op = "idle"
      BY DEF Idle
    <3> QED
      BY <1>1, <3>1
  <2>2. ASSUME NEW K, NEW D, NEW E, todo \in [op : {"insert"}, old : D, key : K, new : E]
        PROVE  FALSE
    <3>1. todo.op \in {"insert"}
      BY <2>2
    <3> QED
      BY <1>1, <3>1
  <2> QED
    BY <1>1, <2>1, <2>2, Zenon DEF Todo
<1> QED
  BY <1>2

LEMMA AdjustRootKeepsPins ==
  ASSUME NEW T, SoundTree(T), NEW c, CallPins(c), AdjustRoot, Return(AdjustingRoot),
         NEW frames, Room(c, 1, frames), Room(c, 2, frames)
  PROVE  StepWithin(frames, 0)
<1>1. todo.op = "adjust root" /\ todo' = Idle
  BY DEF AdjustRoot
<1>2. c \in PinCounts
  BY DEF CallPins
<1>3. PICK array, p : array = pages[todo.page].array /\ p = OnlyChild(array)
  OBVIOUS
<1>4. CASE ~GivesWay(array)
  <2>1. Does(AdjustingRoot, FALSE, frames, c, c)
    BY <1>3, <1>4, DoesNothing DEF AdjustingRoot
  <2> QED
    BY <1>1, <2>1, Returned
<1>5. CASE GivesWay(array) /\ array = <<>>
  <2>1. Does(AdjustingRoot, FALSE, frames, c, c)
    BY <1>2, <1>3, <1>5, DoesWritingHeader DEF AdjustingRoot
  <2> QED
    BY <1>1, <2>1, Returned
<1>6. CASE GivesWay(array) /\ array # <<>>
  <2>1. PagesTyped /\ OthersTyped
    BY DEF SoundTree
  <2>2. PICK level : TreeShape(pages, root_page_id, Pending, T, level) /\ CallShape(T, level)
    BY DEF SoundTree
  <2>3. todo.page = root_page_id /\ ~pages[root_page_id].leaf /\ Pending = INVALID_PAGE_ID
    BY <1>1, <2>2 DEF CallShape, Pending
  <2>4. todo.page \in DOMAIN pages
    BY <1>1, <2>1, RootIsPage
  <2>5. array \in Seq(ChildPair)
    BY <1>3, <2>1, <2>3, <2>4, PageKinds
  <2>6. 1 \in 1 .. Len(array)
    BY <1>6, <2>5, EmptySeq, LenProperties
  <2>7. array[1] \in ChildPair
    BY <2>5, <2>6, ElementOfSeq
  <2>8. p \in Int
    BY <1>3, <2>7 DEF OnlyChild, ChildPair
  <2>9. PICK d : d = OneMore(c, p)
    OBVIOUS
  <2>10. d \in PinCounts /\ d[p] > 0 /\ OneLess(d, p) = c
    BY <1>2, <2>8, <2>9, MorePins, PinnedAndUnpinned
  <2>11. Room(d, 1, frames)
    BY <1>2, <2>8, <2>9, RoomAfterPin
  <2>12. /\ Does(Pin(p), FALSE, frames, c, d) /\ Does(Write(p), FALSE, frames, d, d)
         /\ Does(WritingHeader, FALSE, frames, d, d) /\ Does(Unpin(p, TRUE), FALSE, frames, d, c)
    BY <1>2, <2>8, <2>9, <2>10, <2>11, DoesPin, DoesWrite, DoesWritingHeader, DoesUnpin
  <2>13. Does(Pin(p) \o Write(p) \o WritingHeader \o Unpin(p, TRUE), FALSE, frames, c, c)
    BY ONLY <2>12, DoesBoth
  <2>14. Does(AdjustingRoot, FALSE, frames, c, c)
    BY <1>3, <1>6, <2>13 DEF AdjustingRoot
  <2> QED
    BY <1>1, <2>14, Returned
<1> QED
  BY <1>4, <1>5, <1>6

LEMMA RemoveKeepsPins ==
  ASSUME NEW T, SoundTree(T), NEW c, CallPins(c), NEW k, PinsRemove(k),
         NEW frames \in Nat, 2 <= frames
  PROVE  StepWithin(frames, 2)
<1>1. RemoveFromLeaf(k) /\ todo = Idle /\ ~IsEmpty
  BY DEF PinsRemove, RemoveFromLeaf, Found
<1>2. c = NoPins /\ held = <<>> /\ Room(c, 1, frames) /\ Room(c, 2, frames) /\ Room(c, 1, 2)
  BY <1>1, IdlePins, RoomWhenIdle
<1>3. PICK p, d : p = FindLeafPage(k) /\ d = OneMore(c, p)
  OBVIOUS
<1>4. p \in Int /\ d \in PinCounts /\ d[p] > 0 /\ Does(Descent(k), FALSE, frames, c, d)
  BY <1>1, <1>2, <1>3, DescentToWrite
<1>5. Room(d, 1, frames) /\ Room(d, 0, 2)
  <2>1. c \in PinCounts
    BY <1>2, NoPinsNoBag
  <2> QED
    BY <1>2, <1>3, <1>4, <2>1, RoomAfterPin
<1>6. PICK last : last = IF IsRootPage(p) /\ Size(p) = 1 THEN WritingHeader ELSE <<>>
  OBVIOUS
<1>7. Does(last, FALSE, frames, d, d)
  BY <1>5, <1>4, <1>6, DoesWritingHeader, DoesNothing
<1>8. Does(Write(p), FALSE, frames, d, d)
  BY <1>4, DoesWrite
<1>9. Does(Descent(k) \o Write(p) \o last, FALSE, frames, c, d)
  BY ONLY <1>4, <1>7, <1>8, DoesBoth
<1>10. Does(RemovingFromLeaf(k), FALSE, frames, c, d)
  BY <1>3, <1>6, <1>9 DEF RemovingFromLeaf
<1>11. c \in PinCounts /\ held \in Seq(Int) /\ GivesAllBack(held, c)
  BY DEF CallPins
<1>12. CASE todo' = Idle
  <2>1. Return(RemovingFromLeaf(k) \o Unpin(p, TRUE))
    BY <1>3, <1>12 DEF PinsRemove
  <2>2. OneLess(d, p) = c
    BY <1>3, <1>4, <1>11, PinnedAndUnpinned
  <2>3. Does(Unpin(p, TRUE), FALSE, frames, d, c)
    BY <1>4, <2>2, DoesUnpin
  <2>4. Does(RemovingFromLeaf(k) \o Unpin(p, TRUE), FALSE, frames, c, c)
    BY ONLY <1>10, <2>3, DoesBoth
  <2> QED
    BY <1>2, <1>12, <2>1, <2>4, Returned
<1>13. CASE todo' # Idle
  <2>1. Keep(RemovingFromLeaf(k), <<p>>)
    BY <1>3, <1>13 DEF PinsRemove
  <2>2. todo'.op = "underflow" /\ todo'.page = p
    BY <1>1, <1>3, <1>13 DEF RemoveFromLeaf
  <2>3. <<p>> \o held \in Seq(Int) /\ GivesAllBack(<<p>> \o held, d)
    BY <1>3, <1>4, <1>11, MoreToGiveBack
  <2> QED
    BY <1>5, <1>2, <1>4, <1>10, <1>13, <2>1, <2>2, <2>3, WentOn
<1> QED
  BY <1>12, <1>13

-----------------------------------------------------------------------------
(***************************************************************************)
(* How many frames a call needs.                                           *)
(***************************************************************************)

\* The page a running call has got to.
Reached == IF todo.op = "insert" THEN todo.old ELSE todo.page

\* What the call has pinned are two pages at most for every level up to the one it
\* has got to.
PinsOfLevels(level) ==
  \E c : CallPins(c) /\ (todo # Idle => Room(c, 0, 2 * (level[Reached] + 1)))

PinsInv == \E T, level : Shaped(T, level) /\ PinsOfLevels(level)

\* A step that gets along with two frames for every level of the tree and two more.
StepKeepsPins == PinsInv' /\ pool'.peak <= 2 * Height + 2

LEMMA CallOps ==
  ASSUME OthersTyped, todo # Idle
  PROVE  todo.op \in {"insert", "underflow", "adjust root"}
<1>1. PICK K, D :
        \/ todo \in [op : {"insert"}, old : D, key : K, new : D]
        \/ todo \in [op : {"underflow", "adjust root"}, page : D]
  BY Zenon DEF OthersTyped, Todo
<1> QED
  BY <1>1

LEMMA ReachedFacts ==
  ASSUME NEW T, NEW level, Shaped(T, level), todo # Idle
  PROVE  /\ todo.op \in {"insert", "underflow", "adjust root"}
         /\ Reached \in T /\ ~IsEmpty
         /\ level[Reached] \in Nat /\ level[root_page_id] \in Nat
         /\ level[Reached] <= level[root_page_id]
<1>1. /\ PagesTyped /\ OthersTyped
      /\ TreeShape(pages, root_page_id, Pending, T, level) /\ CallShape(T, level)
  BY DEF Shaped
<1>2. todo.op \in {"insert", "underflow", "adjust root"}
  BY <1>1, CallOps
<1>3. /\ level \in [T -> Nat]
      /\ root_page_id = INVALID_PAGE_ID => T = {}
      /\ root_page_id # INVALID_PAGE_ID =>
           root_page_id \in T /\ \A p \in T : level[p] <= level[root_page_id]
  BY <1>1 DEF TreeShape, Levels, RootOnTop
<1>4. Reached \in T
  <2>1. CASE todo.op = "insert"
    BY <1>1, <2>1 DEF CallShape, Reached
  <2>2. CASE todo.op = "underflow"
    BY <1>1, <2>2 DEF CallShape, Reached
  <2>3. CASE todo.op = "adjust root"
    <3>1. todo.page = root_page_id /\ todo.page \in DOMAIN pages
      BY <1>1, <2>3, RootIsPage DEF CallShape
    <3>2. root_page_id # INVALID_PAGE_ID
      BY <1>1, <3>1, PageKinds
    <3> QED
      BY <1>3, <2>3, <3>1, <3>2 DEF Reached
  <2> QED
    BY <1>2, <2>1, <2>2, <2>3
<1> QED
  BY <1>2, <1>3, <1>4 DEF IsEmpty

\* What the invariant says of the page a call has got to makes sense.
ReachedHasLevel == \A T, level : Shaped(T, level) /\ todo # Idle => level[Reached] \in Nat

LEMMA ReachedNext == ReachedHasLevel'
<1>1. ReachedHasLevel
  BY ReachedFacts DEF ReachedHasLevel
<1> QED
  BY <1>1, PTL

\* The level above.
LEMMA OneHigher ==
  ASSUME NEW T, NEW level, Shaped(T, level),
         \/ Underflowing
         \/ todo.op = "insert" /\ ~IsRootPage(todo.old)
  PROVE  level[Reached] + 1 <= level[root_page_id]
<1>1. /\ PagesTyped /\ OthersTyped
      /\ TreeShape(pages, root_page_id, Pending, T, level) /\ CallShape(T, level)
  BY DEF Shaped
<1>2. \A p \in T : level[p] <= level[root_page_id]
  BY <1>1 DEF TreeShape, RootOnTop
<1>3. CASE Underflowing
  <2>1. Parent \in T /\ level[Parent] = level[todo.page] + 1
    BY <1>1, <1>3, UnderflowFacts
  <2>2. Reached = todo.page
    BY <1>3 DEF Reached, Underflowing
  <2> QED
    BY <1>2, <2>1, <2>2
<1>4. CASE todo.op = "insert" /\ ~IsRootPage(todo.old)
  <2>1. PICK P : P = pages[todo.old].parent
    OBVIOUS
  <2>2. P \in T /\ level[P] = level[todo.old] + 1
    BY <1>1, <1>4, <2>1, ParentFacts
  <2> QED
    BY <1>2, <1>4, <2>2 DEF Reached
<1> QED
  BY <1>3, <1>4

LEMMA HeightOfTree ==
  ASSUME NEW T, NEW level, Shaped(T, level)
  PROVE  /\ Height \in Nat
         /\ ~IsEmpty => Height = level[root_page_id] + 1
<1>1. CASE IsEmpty
  BY <1>1 DEF Height
<1>2. CASE ~IsEmpty
  <2>1. PICK n : n = level[root_page_id]
    OBVIOUS
  <2>2. Depths = {n}
    BY <1>2, <2>1, DepthsOfTree DEF Shaped
  <2>3. n \in Nat
    BY <1>2, <2>1 DEF Shaped, TreeShape, Levels, RootOnTop, IsEmpty
  <2>4. Lists!Max(Depths) = n
    BY <2>2, <2>3 DEF Lists!Max
  <2> QED
    BY <1>2, <2>1, <2>3, <2>4 DEF Height
<1> QED
  BY <1>1, <1>2

LEMMA MoreRoom ==
  ASSUME NEW c, NEW n, Room(c, 0, n), NEW more \in Nat, NEW frames \in Nat, n + more <= frames
  PROVE  Room(c, more, frames)
<1>1. Cardinality(PinnedPages(c)) \in Nat /\ n \in Nat
  BY FS_CardinalityType DEF Room
<1> QED
  BY <1>1 DEF Room

\* After a step that leaves two pages pinned at most nothing is to be said about
\* levels.
LEMMA FewPins ==
  ASSUME IInv', NEW n \in 0 .. 2, PinnedAtMost(n)'
  PROVE  PinsInv'
<1>1. PICK T, level : Shaped(T, level)'
  BY DEF IInv, SoundTree, Shaped
<1>2. PICK c : CallPins(c)' /\ Room(c, 0, n)
  BY DEF PinnedAtMost
<1>3. ASSUME (todo # Idle)'
      PROVE  Room(c, 0, 2 * (level[Reached'] + 1))
  <2>1. level[Reached'] \in Nat
    BY <1>1, <1>3, ReachedNext DEF ReachedHasLevel
  <2> QED
    BY <1>2, <2>1, MoreRoom
<1> QED
  BY <1>1, <1>2, <1>3 DEF PinsInv, PinsOfLevels

\* A call that has got a level higher may have two pages more.
LEMMA PinsOneHigher ==
  ASSUME NEW T, NEW level, Shaped(T, level)', NEW n, PinnedAtMost(n)',
         todo' # Idle => n = 2 * (level[Reached'] + 1)
  PROVE  PinsInv'
<1>1. PICK c : CallPins(c)' /\ Room(c, 0, n)
  BY DEF PinnedAtMost
<1> QED
  BY <1>1 DEF PinsInv, PinsOfLevels

\* The rooms a step needs that goes on from a page, besides what is pinned.
LEMMA RoomsOfCall ==
  ASSUME NEW T, NEW level, Shaped(T, level), todo # Idle,
         NEW c, Room(c, 0, 2 * (level[Reached] + 1)), NEW frames, frames = 2 * Height + 2
  PROVE  /\ Room(c, 1, frames) /\ Room(c, 2, frames)
         /\ \/ Underflowing
            \/ todo.op = "insert" /\ ~IsRootPage(todo.old)
            => /\ Room(c, 3, frames)
               /\ Room(c, 1, 2 * (level[Reached] + 2))
               /\ Room(c, 2, 2 * (level[Reached] + 2))
<1>1. PICK l, r : l = level[Reached] /\ r = level[root_page_id]
  OBVIOUS
<1>2. l \in Nat /\ r \in Nat /\ l <= r /\ Height = r + 1
  BY <1>1, ReachedFacts, HeightOfTree
<1>3. 2 * (l + 1) \in Nat /\ 2 * (l + 2) \in Nat /\ frames \in Nat
      /\ 2 * (l + 1) + 1 <= frames /\ 2 * (l + 1) + 2 <= frames
      /\ 2 * (l + 1) + 1 <= 2 * (l + 2) /\ 2 * (l + 1) + 2 <= 2 * (l + 2)
  BY <1>2
<1>4. /\ Room(c, 1, frames) /\ Room(c, 2, frames)
      /\ Room(c, 1, 2 * (l + 2)) /\ Room(c, 2, 2 * (l + 2))
  BY <1>1, <1>3, MoreRoom
<1>5. ASSUME l + 1 <= r
      PROVE  Room(c, 3, frames)
  <2>1. 2 * (l + 1) + 3 <= frames
    BY <1>2, <1>3, <1>5
  <2> QED
    BY <1>1, <1>3, <2>1, MoreRoom
<1> QED
  BY <1>1, <1>4, <1>5, OneHigher

\* What a step that starts at a quiet tree or ends at one needs to show.
LEMMA ShortStep ==
  ASSUME IInv', NEW n \in 0 .. 2, NEW frames, frames = 2 * Height + 2, StepWithin(frames, n)
  PROVE  StepKeepsPins
BY FewPins DEF StepWithin, StepKeepsPins

LEMMA ParentSplitsWithin ==
  ASSUME NEW T, NEW level, Shaped(T, level), NEW c, CallPins(c),
         Room(c, 0, 2 * (level[Reached] + 1)), ParentSplits,
         Keep(SplittingParent, KeptByParentSplit(OldParent, NewPageId))
  PROVE  StepKeepsPins
<1>1. PICK frames, n : frames = 2 * Height + 2 /\ n = 2 * (level[Reached] + 2)
  OBVIOUS
<1>2. todo.op = "insert" /\ ~IsRootPage(todo.old) /\ todo # Idle /\ todo'.op = "insert"
  <2>1. todo.op = "insert" /\ ~IsRootPage(todo.old) /\ todo'.op = "insert"
    BY DEF ParentSplits
  <2>2. todo.op # Idle.op
    BY <2>1 DEF Idle
  <2> QED
    BY <2>1, <2>2
<1>3. Room(c, 1, frames) /\ Room(c, 3, frames) /\ Room(c, 2, n)
  BY <1>1, <1>2, RoomsOfCall
<1>4. SoundTree(T)
  BY DEF Shaped, SoundTree
<1>5. StepWithin(frames, n)
  BY <1>3, <1>4, ParentSplitsKeepsPins
<1>6. PICK U, higher : Shaped(U, higher)' /\ higher[todo'.old] = level[todo.old] + 1
  BY ParentSplitsShaped
<1>7. n = 2 * (higher[Reached'] + 1)
  <2>1. level[todo.old] \in Nat /\ Reached = todo.old /\ Reached' = todo'.old
    BY <1>2, ReachedFacts DEF Reached
  <2> QED
    BY <1>1, <1>6, <2>1
<1>8. PinsInv'
  BY <1>5, <1>6, <1>7, PinsOneHigher DEF StepWithin
<1> QED
  BY <1>1, <1>5, <1>8 DEF StepWithin, StepKeepsPins

LEMMA CoalesceWithin ==
  ASSUME NEW T, NEW level, Shaped(T, level), NEW c, CallPins(c),
         Room(c, 0, 2 * (level[Reached] + 1)), Coalesce,
         IF todo' = Idle THEN Return(Coalescing \o Unpin(Parent, TRUE))
                         ELSE Keep(Coalescing, <<Parent>>)
  PROVE  StepKeepsPins
<1>1. PICK frames, n : frames = 2 * Height + 2 /\ n = 2 * (level[Reached] + 2)
  OBVIOUS
<1>2. Underflowing /\ todo # Idle
      /\ (todo' # Idle => todo'.page = Parent /\ todo'.op \in {"adjust root", "underflow"})
  <2>1. Underflowing /\ (todo' # Idle => todo'.page = Parent
                                       /\ todo'.op \in {"adjust root", "underflow"})
    BY DEF Coalesce
  <2>2. todo.op # Idle.op
    BY <2>1 DEF Underflowing, Idle
  <2> QED
    BY <2>1, <2>2
<1>3. level[Reached] \in Nat /\ Reached = todo.page
  BY <1>2, ReachedFacts DEF Reached, Underflowing
<1>4. Room(c, 1, frames) /\ Room(c, 3, frames) /\ Room(c, 1, n) /\ n \in Nat
  <2>1. n \in Nat
    BY <1>1, <1>3
  <2> QED
    BY <1>1, <1>2, <2>1, RoomsOfCall
<1>5. SoundTree(T)
  BY DEF Shaped, SoundTree
<1>6. StepWithin(frames, n)
  BY <1>4, <1>5, CoalesceKeepsPins
<1>7. PICK U, higher : Shaped(U, higher)' /\ higher[Parent] = level[todo.page] + 1
  BY CoalesceShaped
<1>8. todo' # Idle => n = 2 * (higher[Reached'] + 1)
  <2>1. todo' # Idle => Reached' = Parent
    BY <1>2 DEF Reached
  <2> QED
    BY <1>1, <1>3, <1>7, <2>1
<1>9. PinsInv'
  BY <1>6, <1>7, <1>8, PinsOneHigher DEF StepWithin
<1> QED
  BY <1>1, <1>6, <1>9 DEF StepWithin, StepKeepsPins

\* The other steps of a call end it.
LEMMA LastStepWithin ==
  ASSUME NEW T, NEW level, Shaped(T, level), NEW c, CallPins(c),
         Room(c, 0, 2 * (level[Reached] + 1)), IInv',
         \/ NewRoot /\ Return(MakingRoot)
         \/ ParentHasRoom /\ Return(WritingParent \o Unpin(OldParent, TRUE))
         \/ RedistributeFromLeft /\ Return(Redistributing)
         \/ RedistributeFromRight /\ Return(Redistributing)
         \/ AdjustRoot /\ Return(AdjustingRoot)
  PROVE  StepKeepsPins
<1>1. PICK frames : frames = 2 * Height + 2
  OBVIOUS
<1>2. SoundTree(T)
  BY DEF Shaped, SoundTree
<1>3. todo # Idle
  <2>1. todo.op \in {"insert", "underflow", "adjust root"}
    BY DEF NewRoot, ParentHasRoom, RedistributeFromLeft, RedistributeFromRight, AdjustRoot,
           Underflowing
  <2>2. Idle.op = "idle"
    BY DEF Idle
  <2> QED
    BY <2>1, <2>2
<1>4. Room(c, 1, frames) /\ Room(c, 2, frames) /\ (Underflowing => Room(c, 3, frames))
  BY <1>1, <1>3, RoomsOfCall
<1>5. StepWithin(frames, 0)
  <2>1. CASE NewRoot /\ Return(MakingRoot)
    BY <1>2, <1>4, <2>1, NewRootKeepsPins
  <2>2. CASE ParentHasRoom /\ Return(WritingParent \o Unpin(OldParent, TRUE))
    BY <1>2, <1>4, <2>2, ParentHasRoomKeepsPins
  <2>3. CASE (RedistributeFromLeft \/ RedistributeFromRight) /\ Return(Redistributing)
    <3>1. Underflowing
      BY <2>3 DEF RedistributeFromLeft, RedistributeFromRight
    <3> QED
      BY <1>2, <1>4, <2>3, <3>1, RedistributeKeepsPins
  <2>4. CASE AdjustRoot /\ Return(AdjustingRoot)
    BY <1>2, <1>4, <2>4, AdjustRootKeepsPins
  <2> QED
    BY <2>1, <2>2, <2>3, <2>4
<1>6. 0 \in 0 .. 2
  OBVIOUS
<1> QED
  BY <1>1, <1>5, <1>6, ShortStep

\* The steps that start a call.
LEMMA FirstStepWithin ==
  ASSUME NEW T, SoundTree(T), NEW c, CallPins(c), IInv', Height \in Nat, NEW k,
         \/ todo = Idle /\ todo' = Idle /\ Return(ReadingLeaf(k))
         \/ PinsRemove(k)
         \/ \E v \in Values :
              \/ StartNewTree(k, v) /\ Return(StartingTree)
              \/ InsertIntoLeaf(k, v) /\ Return(WritingLeaf(k))
              \/ /\ SplitLeaf(k, v)
                 /\ Keep(SplittingLeaf(k), KeptBySplit(FindLeafPage(k), NewPageId))
  PROVE  StepKeepsPins
<1>1. PICK frames : frames = 2 * Height + 2
  OBVIOUS
<1>2. frames \in Nat /\ 2 <= frames
  BY <1>1
<1>3. StepWithin(frames, 0) \/ StepWithin(frames, 2)
  BY <1>2, LookupKeepsPins, RemoveKeepsPins, StartNewTreeKeepsPins, InsertIntoLeafKeepsPins,
     SplitLeafKeepsPins
<1>4. 0 \in 0 .. 2 /\ 2 \in 0 .. 2
  OBVIOUS
<1> QED
  BY <1>1, <1>3, <1>4, ShortStep

LEMMA UnchangedKeepsPins == PinsInv /\ UNCHANGED pvars => PinsInv'
<1> SUFFICES ASSUME NEW T, NEW level, Shaped(T, level), NEW c, CallPins(c),
                    todo # Idle => Room(c, 0, 2 * (level[Reached] + 1)), UNCHANGED pvars
             PROVE  PinsInv'
  BY DEF PinsInv, PinsOfLevels
<1>1. UNCHANGED <<pages, root_page_id, header, todo, result, held, pool>>
  BY DEF pvars, vars
<1>2. CallPins(c)'
  BY <1>1 DEF CallPins
<1>3. PagesTyped' /\ OthersTyped'
  BY <1>1 DEF Shaped, PagesTyped, OthersTyped, PageOrNone, Todo
<1>4. Pending' = Pending /\ CallShape(T, level)' /\ Reached' = Reached
  BY <1>1 DEF Shaped, CallShape, Pending, Size, MinSize, MaxSize, Reached
<1>5. Shaped(T, level)'
  BY <1>1, <1>3, <1>4 DEF Shaped
<1> QED
  BY <1>1, <1>2, <1>4, <1>5 DEF PinsInv, PinsOfLevels

\* The pins are taken and given back beside the steps of the tree.
LEMMA PinsStepsAreSteps == [PinsNext]_pvars => [Next]_vars
<1> SUFFICES ASSUME [PinsNext]_pvars
             PROVE  [Next]_vars
  OBVIOUS
<1>1. CASE PinsInsertNext
  <2>1. InsertNext
    BY <1>1 DEF PinsInsertNext, PinsInsertStep, InsertNext, InsertStep
  <2> QED
    BY <2>1 DEF Next
<1>2. CASE PinsRemoveStep
  BY <1>2 DEF PinsRemoveStep, RemoveStep, Next
<1>3. ASSUME NEW k \in Keys, PinsRemove(k) \/ PinsRemoveNothing(k)
      PROVE  [Next]_vars
  BY <1>3 DEF PinsRemove, PinsRemoveNothing, Next
<1>4. CASE UNCHANGED pvars
  BY <1>4 DEF pvars
<1> QED
  BY <1>1, <1>2, <1>3, <1>4 DEF PinsNext

LEMMA PinsNextKeepsPins == PinsInv /\ PinsNext => StepKeepsPins
<1> SUFFICES ASSUME NEW T, NEW level, Shaped(T, level), NEW c, CallPins(c),
                    todo # Idle => Room(c, 0, 2 * (level[Reached] + 1)), PinsNext
             PROVE  StepKeepsPins
  BY DEF PinsInv, PinsOfLevels
<1>1. SoundTree(T)
  BY DEF Shaped, SoundTree
<1>2. IInv'
  BY <1>1, PinsStepsAreSteps, NextKeepsIInv DEF IInv
<1>3. Height \in Nat
  BY HeightOfTree
<1>4. ASSUME NEW k, todo = Idle, todo' = Idle, Return(ReadingLeaf(k))
      PROVE  StepKeepsPins
  BY <1>1, <1>2, <1>3, <1>4, FirstStepWithin
<1>5. ASSUME PinsInsertStep \/ PinsRemoveStep
      PROVE  StepKeepsPins
  <2>1. todo # Idle
    <3>1. todo.op \in {"insert", "underflow", "adjust root"}
      BY <1>5 DEF PinsInsertStep, PinsRemoveStep, NewRoot, ParentHasRoom, ParentSplits,
         RedistributeFromLeft, RedistributeFromRight, Coalesce, AdjustRoot, Underflowing
    <3>2. Idle.op = "idle"
      BY DEF Idle
    <3> QED
      BY <3>1, <3>2
  <2>2. CASE ParentSplits /\ Keep(SplittingParent, KeptByParentSplit(OldParent, NewPageId))
    BY <2>1, <2>2, ParentSplitsWithin
  <2>3. CASE /\ Coalesce
             /\ IF todo' = Idle THEN Return(Coalescing \o Unpin(Parent, TRUE))
                                ELSE Keep(Coalescing, <<Parent>>)
    BY <2>1, <2>3, CoalesceWithin
  <2> QED
    BY <1>2, <1>5, <2>1, <2>2, <2>3, LastStepWithin DEF PinsInsertStep, PinsRemoveStep
<1>6. CASE PinsInsertNext
  <2>1. ASSUME NEW k \in Keys, GetValue(k) \/ InsertRefused(k), Return(ReadingLeaf(k))
        PROVE  StepKeepsPins
    <3>1. todo = Idle /\ todo' = Idle
      BY <2>1 DEF GetValue, InsertRefused
    <3> QED
      BY <1>4, <2>1, <3>1
  <2>2. ASSUME NEW k \in Keys, NEW v \in Values,
               \/ StartNewTree(k, v) /\ Return(StartingTree)
               \/ InsertIntoLeaf(k, v) /\ Return(WritingLeaf(k))
               \/ /\ SplitLeaf(k, v)
                  /\ Keep(SplittingLeaf(k), KeptBySplit(FindLeafPage(k), NewPageId))
        PROVE  StepKeepsPins
    BY <1>1, <1>2, <1>3, <2>2, FirstStepWithin
  <2> QED
    BY <1>5, <1>6, <2>1, <2>2 DEF PinsInsertNext
<1>7. ASSUME NEW k \in Keys, PinsRemove(k)
      PROVE  StepKeepsPins
  BY <1>1, <1>2, <1>3, <1>7, FirstStepWithin
<1>8. ASSUME NEW k \in Keys, PinsRemoveNothing(k)
      PROVE  StepKeepsPins
  <2>1. todo = Idle /\ todo' = Idle /\ Return(ReadingLeaf(k))
    BY <1>8 DEF PinsRemoveNothing, vars
  <2> QED
    BY <1>4, <2>1
<1> QED
  BY <1>5, <1>6, <1>7, <1>8 DEF PinsNext

LEMMA InitPinsInv == PinsInit => PinsInv
<1> SUFFICES ASSUME PinsInit
             PROVE  PinsInv
  OBVIOUS
<1>1. Init /\ todo = Idle
  BY DEF PinsInit, Init
<1>2. PICK T, level : Shaped(T, level)
  BY <1>1, InitIInv DEF IInv, SoundTree, Shaped
<1> QED
  BY <1>1, <1>2, InitPins DEF PinsInv, PinsOfLevels

-----------------------------------------------------------------------------
(***************************************************************************)
(* The theorems.                                                           *)
(***************************************************************************)

\* In every state what the running call holds is what it has to give back, the
\* protocol was kept so far, and no more is pinned than the levels account for.
THEOREM PinsInvariance == PinsSpec => []PinsInv
<1>1. PinsInv /\ [PinsNext]_pvars => PinsInv'
  BY PinsNextKeepsPins, UnchangedKeepsPins DEF StepKeepsPins
<1> QED
  BY <1>1, InitPinsInv, PTL DEF PinsSpec

LEMMA PinsFollow == PinsInv => PinsAreGivenBack /\ PinProtocolKept
<1> SUFFICES ASSUME NEW c, CallPins(c)
             PROVE  PinsAreGivenBack /\ PinProtocolKept
  BY DEF PinsInv, PinsOfLevels
<1>1. PICK most, n, u : pool = PoolState(PinBag(c), n, u, {}) /\ n <= most
  BY DEF CallPins, Kept
<1>2. pool.misused = {} /\ pool.pins = PinBag(c)
  BY <1>1 DEF PoolState
<1>3. todo = Idle => pool.pins = EmptyBag
  BY <1>2, IdlePins, NoPinsNoBag
<1> QED
  BY <1>2, <1>3 DEF PinsAreGivenBack, PinProtocolKept

\* When a call of the tree returns, on whatever path through splits, borrowings and
\* merges, no page is left pinned.
THEOREM EveryPinIsGivenBack == PinsSpec => []PinsAreGivenBack
BY PinsInvariance, PinsFollow, PTL

\* The tree writes pages only while it has them pinned, unpins only what it pinned,
\* and declares every write before it lets a page go.
THEOREM ThePinProtocolIsKept == PinsSpec => []PinProtocolKept
BY PinsInvariance, PinsFollow, PTL

\* However high the tree is, two frames for every level and two more are enough for a
\* call: no step of it ever has more pages pinned.
THEOREM FramesAreEnough == PinsSpec => FramesSuffice
<1>1. PinsInv /\ [PinsNext]_pvars => [pool'.peak <= 2 * Height + 2]_pvars
  BY PinsNextKeepsPins DEF StepKeepsPins
<1> QED
  BY <1>1, PinsInvariance, PTL DEF PinsSpec, FramesSuffice

=============================================================================
