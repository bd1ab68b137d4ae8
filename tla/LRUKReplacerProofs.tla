------------------------- MODULE LRUKReplacerProofs -------------------------
(***************************************************************************)
(* The invariants of LRUKReplacer and its refinement of Replacer, and that *)
(* it is LRU-K: with the queues, the trimmed histories and the cached      *)
(* distances it evicts a frame of greatest backward k-distance, as         *)
(* measured on all accesses.  For any finite set of frames, any K > 0 and  *)
(* any number of accesses.                                                 *)
(***************************************************************************)
EXTENDS LRUKHistory, DataLemmas, FiniteSetTheorems, TLAPS

-----------------------------------------------------------------------------
\* Removing an element from a list without duplicates.
LEMMA ListRemoveProperties ==
  ASSUME NEW S, NEW s \in Seq(S), NEW e, NoDuplicates(s)
  PROVE  /\ ListRemove(s, e) \in Seq(S)
         /\ Range(ListRemove(s, e)) = Range(s) \ {e}
         /\ NoDuplicates(ListRemove(s, e))
<1> DEFINE r == ListRemove(s, e)
<1>1. Range(s) = {s[i] : i \in 1 .. Len(s)}
  BY RangeEquality
<1>2. CASE \A i \in 1 .. Len(s) : s[i] # e
  <2>1. r = s
    BY <1>2 DEF ListRemove, Lists!RemoveFirst
  <2> QED
    BY <1>1, <1>2, <2>1
<1>3. CASE \E i \in 1 .. Len(s) : s[i] = e
  <2> DEFINE I == {i \in 1 .. Len(s) : s[i] = e}
             m == Lists!SelectInSeq(s, LAMBDA v : v = e)
             before == SubSeq(s, 1, m - 1)
             after == SubSeq(s, m + 1, Len(s))
  <2>1. m \in 1 .. Len(s) /\ s[m] = e
    <3>1. PICK i \in 1 .. Len(s) : I = {i} /\ s[i] = e
      BY <1>3 DEF NoDuplicates
    <3>2. m = IF I # {} THEN Lists!Min(I) ELSE 0
      BY DEF Lists!SelectInSeq
    <3>3. Lists!Min(I) = CHOOSE x \in I : \A y \in I : x <= y
      BY DEF Lists!Min
    <3> QED
      BY <3>1, <3>2, <3>3
  <2>2. r = before \o after
    BY <1>3 DEF ListRemove, Lists!RemoveFirst, Lists!RemoveAt
  <2>3. Len(s) \in Nat /\ \A i \in 1 .. Len(s) : s[i] \in S
    BY LenProperties
  <2> HIDE DEF m
  <2>4. /\ before \in Seq(S) /\ Len(before) = m - 1
        /\ \A i \in 1 .. m - 1 : before[i] = s[i]
    BY <2>1, <2>3, SubSeqProperties
  <2>5. /\ after \in Seq(S) /\ Len(after) = Len(s) - m
        /\ \A i \in 1 .. Len(s) - m : after[i] = s[m + i]
    BY <2>1, <2>3, SubSeqProperties
  <2> HIDE DEF before, after
  <2>6. /\ r \in Seq(S) /\ Len(r) = Len(s) - 1
        /\ \A i \in 1 .. Len(s) - 1 :
             r[i] = IF i <= m - 1 THEN before[i] ELSE after[i - (m - 1)]
    <3> HIDE DEF r
    <3>1. /\ before \o after \in Seq(S)
          /\ Len(before \o after) = Len(before) + Len(after)
          /\ \A i \in 1 .. Len(before) + Len(after) :
               (before \o after)[i] = IF i <= Len(before) THEN before[i]
                                      ELSE after[i - Len(before)]
      BY <2>4, <2>5, ConcatProperties
    <3>2. Len(before) + Len(after) = Len(s) - 1
      BY <2>1, <2>3, <2>4, <2>5
    <3> QED
      BY <2>2, <2>4, <3>1, <3>2
  <2> HIDE DEF r
  <2>7. \A i \in 1 .. Len(r) : r[i] = IF i < m THEN s[i] ELSE s[i + 1]
    BY <2>1, <2>3, <2>4, <2>5, <2>6
  <2>8. NoDuplicates(r)
    <3> DEFINE source(i) == IF i < m THEN i ELSE i + 1
    <3>1. \A i \in 1 .. Len(r) : source(i) \in 1 .. Len(s) /\ r[i] = s[source(i)]
      BY <2>1, <2>3, <2>6, <2>7
    <3>2. \A i, j \in 1 .. Len(r) : source(i) = source(j) => i = j
      BY <2>1, <2>3, <2>6
    <3> HIDE DEF source
    <3> QED
      BY <3>1, <3>2 DEF NoDuplicates
  <2>9. Range(r) = {r[i] : i \in 1 .. Len(r)}
    BY <2>6, RangeEquality
  <2>10. Range(r) \subseteq Range(s) \ {e}
    BY <1>1, <2>1, <2>3, <2>6, <2>7, <2>9 DEF NoDuplicates
  <2>11. ASSUME NEW x \in Range(s) \ {e}
         PROVE  x \in Range(r)
    <3>1. PICK i \in 1 .. Len(s) : s[i] = x
      BY <1>1
    <3>2. CASE i < m
      BY <2>1, <2>3, <2>6, <2>7, <2>9, <3>1, <3>2
    <3>3. CASE i > m
      <4>1. i - 1 \in 1 .. Len(r) /\ r[i - 1] = s[i]
        BY <2>1, <2>3, <2>6, <2>7, <3>3
      <4> QED
        BY <2>9, <3>1, <4>1
    <3> QED
      BY <2>1, <3>1, <3>2, <3>3
  <2> QED
    BY <2>6, <2>8, <2>10, <2>11 DEF r
<1> QED
  BY <1>2, <1>3

-----------------------------------------------------------------------------
(***************************************************************************)
(* The invariant.                                                          *)
(***************************************************************************)

IInv ==
  /\ TypeOK
  /\ HistoriesBounded
  /\ SizeIsEvictableCount
  /\ InfListHasNoDuplicates
  /\ EvictableFramesAreListed
  /\ FiniteDistancesAreFresh

\* What the invariant says of one tracked frame.
LEMMA FrameType ==
  ASSUME TypeOK, HistoriesBounded, NEW f \in Tracked
  PROVE  /\ f \in Frames
         /\ node_store[f] \in LRUKFrame
         /\ node_store[f].history \in Seq(Nat)
         /\ Len(node_store[f].history) \in 1 .. K
         /\ Head(node_store[f].history) \in Nat
<1>1. node_store[f] \in LRUKFrame /\ f \in Frames
  BY DEF TypeOK, Tracked
<1>2. node_store[f].history \in Seq(Nat)
  BY <1>1 DEF LRUKFrame
<1>3. Len(node_store[f].history) \in 1 .. K
  BY DEF HistoriesBounded
<1>4. Head(node_store[f].history) \in Nat
  BY <1>2, <1>3, EmptySeq, HeadTailProperties
<1> QED
  BY <1>1, <1>2, <1>3, <1>4

\* The evictable frames are finitely many.
LEMMA EvictableFramesFinite ==
  ASSUME TypeOK
  PROVE  /\ IsFiniteSet(EvictableFrames)
         /\ Cardinality(EvictableFrames) \in Nat
<1>1. EvictableFrames \in SUBSET Frames
  BY DEF TypeOK, EvictableFrames, Tracked
<1> QED
  BY <1>1, FramesAssumption, FS_Subset, FS_CardinalityType

\* Recording an access keeps between one and K timestamps.
LEMMA RecordedBounded ==
  ASSUME K > 0, NEW h \in Seq(Nat), Len(h) \in 0 .. K, NEW t \in Nat
  PROVE  /\ Recorded(h, t) \in Seq(Nat)
         /\ Len(Recorded(h, t)) \in 1 .. K
         /\ Len(Recorded(h, t)) >= Len(h)
         /\ Head(Recorded(h, t)) \in Nat
<1> DEFINE pushed == Append(h, t)
<1>1. pushed \in Seq(Nat) /\ pushed # <<>> /\ Len(pushed) = Len(h) + 1
  BY AppendProperties
<1>2. Tail(pushed) \in Seq(Nat) /\ Len(Tail(pushed)) = Len(pushed) - 1
  BY <1>1, HeadTailProperties
<1>3. /\ Recorded(h, t) \in Seq(Nat)
      /\ Len(Recorded(h, t)) \in 1 .. K
      /\ Len(Recorded(h, t)) >= Len(h)
  <2> HIDE DEF pushed
  <2>1. Recorded(h, t) = IF Len(pushed) > K THEN Tail(pushed) ELSE pushed
    BY DEF Recorded, pushed
  <2> QED
    BY <1>1, <1>2, <2>1, KAssumption
<1>4. Recorded(h, t) # <<>>
  BY <1>3, EmptySeq
<1> QED
  BY <1>3, <1>4, HeadTailProperties

LEMMA InitInvariant ==
  ASSUME Init
  PROVE  IInv
<1>1. Tracked = {} /\ EvictableFrames = {}
  BY DEF Init, Tracked, EvictableFrames
<1>2. Range(inf_distance_list) = {} /\ Len(inf_distance_list) = 0
  BY DEF Init, Range
<1>3. TypeOK
  BY <1>1, MaxTimestampAssumption DEF Init, TypeOK, Tracked
<1>4. HistoriesBounded
  BY <1>1 DEF HistoriesBounded
<1>5. SizeIsEvictableCount
  BY <1>1, FS_EmptySet DEF Init, SizeIsEvictableCount
<1>6. InfListHasNoDuplicates
  BY <1>2 DEF InfListHasNoDuplicates
<1>7. EvictableFramesAreListed
  BY <1>1, <1>2 DEF Init, EvictableFramesAreListed
<1>8. FiniteDistancesAreFresh
  BY DEF Init, FiniteDistancesAreFresh
<1> QED
  BY <1>3, <1>4, <1>5, <1>6, <1>7, <1>8 DEF IInv

(***************************************************************************)
(* The actions.                                                            *)
(***************************************************************************)

LEMMA RecordAccessInvariant ==
  ASSUME K > 0, IInv, NEW f \in Frames, RecordAccess(f)
  PROVE  IInv'
<1> DEFINE frame == IF f \in Tracked THEN node_store[f] ELSE FreshFrame
           now == current_timestamp + 1
           accessed == [frame EXCEPT !.history = Recorded(@, now)]
           finite == HasFiniteDistance(accessed)
           leaves_inf == finite /\ frame.is_in_inf
           stored == [accessed EXCEPT !.is_in_inf = @ /\ ~leaves_inf]
<1> USE DEF IInv
<1>1. /\ frame \in LRUKFrame
      /\ frame.history \in Seq(Nat)
      /\ Len(frame.history) \in 0 .. K
      /\ f \notin Tracked => frame = FreshFrame
      /\ f \in Tracked => frame = node_store[f]
  <2>1. CASE f \in Tracked
    BY <2>1, FrameType, KAssumption
  <2>2. CASE f \notin Tracked
    <3>1. FreshFrame \in LRUKFrame /\ FreshFrame.history = <<>>
      BY EmptySeq DEF FreshFrame, LRUKFrame
    <3>2. <<>> \in Seq(Nat) /\ Len(<<>>) = 0
      BY EmptySeq
    <3>3. frame = FreshFrame
      BY <2>2
    <3>4. FreshFrame.history \in Seq(Nat) /\ Len(FreshFrame.history) \in 0 .. K
      BY <3>1, <3>2, KAssumption
    <3> HIDE DEF frame
    <3> QED
      BY <2>2, <3>1, <3>3, <3>4
  <2> QED
    BY <2>1, <2>2
<1>2. now \in Nat /\ now \in 0 .. MaxTimestamp
  BY MaxTimestampAssumption DEF TypeOK, RecordAccess
<1>3. /\ Recorded(frame.history, now) \in Seq(Nat)
      /\ Len(Recorded(frame.history, now)) \in 1 .. K
      /\ Len(Recorded(frame.history, now)) >= Len(frame.history)
      /\ Head(Recorded(frame.history, now)) \in Nat
  <2> HIDE DEF frame, now
  <2> QED
    BY <1>1, <1>2, RecordedBounded
<1>4. /\ node_store' = Put(node_store, f, stored)
      /\ inf_distance_list' = IF leaves_inf THEN ListRemove(inf_distance_list, f)
                                            ELSE inf_distance_list
      /\ finite_distance_map' =
           IF finite THEN Put(finite_distance_map, f, Head(accessed.history))
                     ELSE finite_distance_map
      /\ current_timestamp' = now
      /\ UNCHANGED <<curr_size, victim>>
  BY DEF RecordAccess
<1> HIDE DEF frame, now
<1>5. /\ accessed.history = Recorded(frame.history, now)
      /\ accessed.is_evictable = frame.is_evictable
      /\ accessed.is_in_inf = frame.is_in_inf
      /\ stored \in LRUKFrame
      /\ stored.history = Recorded(frame.history, now)
      /\ stored.is_evictable = frame.is_evictable
      /\ stored.is_in_inf = (frame.is_in_inf /\ ~leaves_inf)
  BY <1>1, <1>3 DEF LRUKFrame
<1>6. finite <=> frame.is_evictable /\ Len(Recorded(frame.history, now)) = K
  BY <1>5 DEF HasFiniteDistance
<1> HIDE DEF accessed, stored, finite
<1>7. /\ Tracked' = Tracked \cup {f}
      /\ node_store'[f] = stored
      /\ \A g \in Tracked : g # f => node_store'[g] = node_store[g]
  BY <1>4 DEF Put, Tracked
<1>8. EvictableFrames' = EvictableFrames
  <2>1. frame.is_evictable <=> f \in EvictableFrames
    BY <1>1 DEF EvictableFrames, FreshFrame
  <2> QED
    BY <1>5, <1>7, <2>1 DEF EvictableFrames
<1>9. frame.is_in_inf <=> f \in Range(inf_distance_list)
  BY <1>1 DEF EvictableFramesAreListed, EvictableFrames, FreshFrame
<1>10. /\ inf_distance_list' \in Seq(Frames)
       /\ Range(inf_distance_list') =
            IF leaves_inf THEN Range(inf_distance_list) \ {f}
                          ELSE Range(inf_distance_list)
       /\ NoDuplicates(inf_distance_list')
  <2>1. inf_distance_list \in Seq(Frames) /\ NoDuplicates(inf_distance_list)
    BY DEF TypeOK, InfListHasNoDuplicates, NoDuplicates
  <2> QED
    BY <1>4, <2>1, ListRemoveProperties
<1>11. /\ DOMAIN finite_distance_map' =
            IF finite THEN DOMAIN finite_distance_map \cup {f}
                      ELSE DOMAIN finite_distance_map
       /\ finite => finite_distance_map'[f] = Head(stored.history)
       /\ \A g \in DOMAIN finite_distance_map :
            g # f => finite_distance_map'[g] = finite_distance_map[g]
  BY <1>4, <1>5 DEF Put
<1>12. f \in DOMAIN finite_distance_map => finite
  <2>1. ASSUME f \in DOMAIN finite_distance_map
        PROVE  finite
    <3>1. f \in EvictableFrames /\ f \in Tracked /\ Len(node_store[f].history) = K
      BY <2>1 DEF EvictableFramesAreListed, EvictableFrames
    <3> QED
      BY <1>1, <1>3, <1>6, <3>1, KAssumption DEF EvictableFrames
  <2> QED
    BY <2>1
<1>13. TypeOK'
  <2>1. DOMAIN node_store' \subseteq Frames
    BY <1>7 DEF TypeOK, Tracked
  <2>2. node_store' \in [DOMAIN node_store' -> LRUKFrame]
    <3>1. \A g \in Tracked' : node_store'[g] \in LRUKFrame
      BY <1>5, <1>7, FrameType
    <3>2. node_store' = [g \in DOMAIN node_store' |-> node_store'[g]]
      BY <1>4 DEF Put
    <3> QED
      BY <3>1, <3>2 DEF Tracked
  <2>3. DOMAIN finite_distance_map' \subseteq Frames
    BY <1>11 DEF TypeOK
  <2>4. finite_distance_map' \in [DOMAIN finite_distance_map' -> Nat]
    <3>1. \A g \in DOMAIN finite_distance_map' : finite_distance_map'[g] \in Nat
      BY <1>3, <1>5, <1>11, <1>12 DEF TypeOK
    <3>2. finite_distance_map' =
            [g \in DOMAIN finite_distance_map' |-> finite_distance_map'[g]]
      BY <1>4 DEF Put, TypeOK
    <3> QED
      BY <3>1, <3>2
  <2> QED
    BY <1>2, <1>4, <1>10, <2>1, <2>2, <2>3, <2>4 DEF TypeOK
<1>14. HistoriesBounded'
  BY <1>3, <1>5, <1>7 DEF HistoriesBounded
<1>15. SizeIsEvictableCount'
  BY <1>4, <1>8 DEF SizeIsEvictableCount
<1>16. InfListHasNoDuplicates'
  BY <1>10 DEF InfListHasNoDuplicates, NoDuplicates
<1>17. EvictableFramesAreListed'
  <2>1. \A g \in Tracked' :
          node_store'[g].is_in_inf <=> g \in Range(inf_distance_list')
    BY <1>5, <1>7, <1>9, <1>10 DEF EvictableFramesAreListed
  <2>2. Range(inf_distance_list') =
          {g \in EvictableFrames' : Len(node_store'[g].history) < K}
    <3>1. ASSUME NEW g \in EvictableFrames, g # f
          PROVE  g \in Range(inf_distance_list') <=> Len(node_store'[g].history) < K
      BY <1>7, <1>10, <3>1 DEF EvictableFramesAreListed, EvictableFrames
    <3>2. ASSUME f \in EvictableFrames
          PROVE  f \in Range(inf_distance_list') <=> Len(node_store'[f].history) < K
      <4>1. /\ f \in Tracked /\ frame.is_evictable /\ frame = node_store[f]
            /\ frame.is_in_inf <=> Len(frame.history) < K
        BY <1>1, <1>9, <3>2 DEF EvictableFramesAreListed, EvictableFrames
      <4>2. finite <=> Len(stored.history) = K
        BY <1>5, <1>6, <4>1
      <4>3. Len(frame.history) \in Nat /\ Len(stored.history) \in 1 .. K
            /\ Len(stored.history) >= Len(frame.history)
        BY <1>1, <1>3, <1>5
      <4> QED
        BY <1>7, <1>9, <1>10, <4>1, <4>2, <4>3, KAssumption
    <3>3. Range(inf_distance_list') \subseteq EvictableFrames
      BY <1>10 DEF EvictableFramesAreListed
    <3> QED
      BY <1>8, <3>1, <3>2, <3>3
  <2>3. DOMAIN finite_distance_map' =
          {g \in EvictableFrames' : Len(node_store'[g].history) = K}
    <3>1. ASSUME NEW g \in EvictableFrames, g # f
          PROVE  g \in DOMAIN finite_distance_map' <=> Len(node_store'[g].history) = K
      BY <1>7, <1>11, <3>1 DEF EvictableFramesAreListed, EvictableFrames
    <3>2. ASSUME f \in EvictableFrames
          PROVE  f \in DOMAIN finite_distance_map' <=> Len(node_store'[f].history) = K
      BY <1>1, <1>5, <1>6, <1>7, <1>11, <1>12, <3>2 DEF EvictableFrames
    <3>3. DOMAIN finite_distance_map' \subseteq EvictableFrames
      <4>1. finite => f \in EvictableFrames
        BY <1>1, <1>6 DEF EvictableFrames, FreshFrame
      <4> QED
        BY <1>11, <4>1 DEF EvictableFramesAreListed
    <3> QED
      BY <1>8, <3>1, <3>2, <3>3
  <2> QED
    BY <2>1, <2>2, <2>3 DEF EvictableFramesAreListed
<1>18. FiniteDistancesAreFresh'
  <2>1. ASSUME NEW g \in DOMAIN finite_distance_map', g # f
        PROVE  finite_distance_map'[g] = Head(node_store'[g].history)
    BY <1>7, <1>11, <2>1
       DEF FiniteDistancesAreFresh, EvictableFramesAreListed, EvictableFrames
  <2>2. f \in DOMAIN finite_distance_map' =>
          finite_distance_map'[f] = Head(node_store'[f].history)
    BY <1>7, <1>11, <1>12
  <2> QED
    BY <2>1, <2>2 DEF FiniteDistancesAreFresh
<1> QED
  BY <1>13, <1>14, <1>15, <1>16, <1>17, <1>18

\* Afterwards f is in neither container and the others are where they were.
Unlisted(f) ==
  /\ inf_distance_list' \in Seq(Frames)
  /\ NoDuplicates(inf_distance_list')
  /\ Range(inf_distance_list') = Range(inf_distance_list) \ {f}
  /\ DOMAIN finite_distance_map' = DOMAIN finite_distance_map \ {f}
  /\ \A g \in DOMAIN finite_distance_map' :
       finite_distance_map'[g] = finite_distance_map[g]
  /\ finite_distance_map' \in [DOMAIN finite_distance_map' -> Nat]

\* Unlist drops an evictable frame from wherever it is listed; the other frames
\* stay where they are.
LEMMA UnlistProperties ==
  ASSUME IInv, NEW f \in EvictableFrames, Unlist(f)
  PROVE  Unlisted(f)
<1> USE DEF IInv, Unlisted
<1>1. inf_distance_list \in Seq(Frames) /\ NoDuplicates(inf_distance_list)
  BY DEF TypeOK, InfListHasNoDuplicates, NoDuplicates
<1>2. finite_distance_map \in [DOMAIN finite_distance_map -> Nat]
  BY DEF TypeOK
<1>3. f \in Tracked
  BY DEF EvictableFrames
<1>4. CASE node_store[f].is_in_inf
  <2>1. f \in Range(inf_distance_list) /\ f \notin DOMAIN finite_distance_map
    <3>1. f \in Range(inf_distance_list)
      BY <1>3, <1>4 DEF EvictableFramesAreListed
    <3>2. Len(node_store[f].history) < K
      BY <3>1 DEF EvictableFramesAreListed
    <3>3. Len(node_store[f].history) # K
      BY <1>3, <3>2, FrameType
    <3> QED
      BY <3>1, <3>3 DEF EvictableFramesAreListed
  <2>2. /\ inf_distance_list' = ListRemove(inf_distance_list, f)
        /\ finite_distance_map' = finite_distance_map
    BY <1>4 DEF Unlist
  <2> QED
    BY <1>1, <1>2, <2>1, <2>2, ListRemoveProperties
<1>5. CASE ~node_store[f].is_in_inf
  <2>1. f \notin Range(inf_distance_list)
    BY <1>3, <1>5 DEF EvictableFramesAreListed
  <2>2. /\ inf_distance_list' = inf_distance_list
        /\ finite_distance_map' = Erase(finite_distance_map, f)
    BY <1>5 DEF Unlist
  <2>3. /\ DOMAIN finite_distance_map' = DOMAIN finite_distance_map \ {f}
        /\ \A g \in DOMAIN finite_distance_map' :
             finite_distance_map'[g] = finite_distance_map[g]
        /\ finite_distance_map' \in [DOMAIN finite_distance_map' -> Nat]
    BY <1>2, <2>2 DEF Erase, Restrict
  <2> QED
    BY <1>1, <2>1, <2>2, <2>3
<1> QED
  BY <1>4, <1>5

LEMMA MakeEvictableInvariant ==
  ASSUME K > 0, IInv, NEW f \in Tracked, f \notin EvictableFrames,
         MakeEvictable(f), UNCHANGED <<current_timestamp, victim>>
  PROVE  IInv'
<1> DEFINE infinite == Len(node_store[f].history) < K
<1> USE DEF IInv
<1>1. /\ f \in Frames
      /\ node_store[f] \in LRUKFrame
      /\ Len(node_store[f].history) \in 1 .. K
      /\ Head(node_store[f].history) \in Nat
  BY FrameType
<1>2. node_store \in [Tracked -> LRUKFrame]
  BY DEF TypeOK, Tracked
<1>3. f \notin Range(inf_distance_list) /\ f \notin DOMAIN finite_distance_map
  BY DEF EvictableFramesAreListed
<1>4. ~node_store[f].is_in_inf
  BY <1>3 DEF EvictableFramesAreListed
<1>5. /\ node_store' = [node_store EXCEPT ![f].is_evictable = TRUE,
                                          ![f].is_in_inf = @ \/ infinite]
      /\ inf_distance_list' = IF infinite THEN Append(inf_distance_list, f)
                                          ELSE inf_distance_list
      /\ finite_distance_map' =
           IF infinite THEN finite_distance_map
           ELSE Put(finite_distance_map, f, Head(node_store[f].history))
      /\ curr_size' = curr_size + 1
      /\ UNCHANGED <<current_timestamp, victim>>
  BY DEF MakeEvictable
<1>6. /\ Tracked' = Tracked
      /\ node_store' \in [Tracked -> LRUKFrame]
      /\ node_store'[f].history = node_store[f].history
      /\ node_store'[f].is_evictable
      /\ node_store'[f].is_in_inf <=> infinite
      /\ \A g \in Tracked : g # f => node_store'[g] = node_store[g]
  BY <1>1, <1>2, <1>4, <1>5 DEF LRUKFrame, Tracked
<1>7. EvictableFrames' = EvictableFrames \cup {f}
  BY <1>6 DEF EvictableFrames
<1> HIDE DEF infinite
<1>8. /\ inf_distance_list' \in Seq(Frames)
      /\ NoDuplicates(inf_distance_list')
      /\ Range(inf_distance_list') =
           IF infinite THEN Range(inf_distance_list) \cup {f}
                       ELSE Range(inf_distance_list)
  <2>1. inf_distance_list \in Seq(Frames) /\ NoDuplicates(inf_distance_list)
    BY DEF TypeOK, InfListHasNoDuplicates, NoDuplicates
  <2>2. /\ Append(inf_distance_list, f) \in Seq(Frames)
        /\ Range(Append(inf_distance_list, f)) = Range(inf_distance_list) \cup {f}
        /\ NoDuplicates(Append(inf_distance_list, f))
    BY <1>1, <1>3, <2>1, AppendFresh
  <2> QED
    BY <1>5, <2>1, <2>2
<1>9. /\ DOMAIN finite_distance_map' =
           IF infinite THEN DOMAIN finite_distance_map
                       ELSE DOMAIN finite_distance_map \cup {f}
      /\ ~infinite => finite_distance_map'[f] = Head(node_store[f].history)
      /\ \A g \in DOMAIN finite_distance_map :
           finite_distance_map'[g] = finite_distance_map[g]
      /\ finite_distance_map' \in [DOMAIN finite_distance_map' -> Nat]
  BY <1>1, <1>3, <1>5 DEF Put, TypeOK
<1>10. TypeOK'
  <2>1. curr_size' \in Nat
    BY <1>5 DEF TypeOK
  <2>2. Tracked' \subseteq Frames /\ DOMAIN finite_distance_map' \subseteq Frames
    BY <1>1, <1>6, <1>9 DEF TypeOK, Tracked
  <2> QED
    BY <1>5, <1>6, <1>8, <1>9, <2>1, <2>2 DEF TypeOK, Tracked
<1>11. HistoriesBounded'
  BY <1>6 DEF HistoriesBounded
<1>12. SizeIsEvictableCount'
  BY <1>5, <1>7, EvictableFramesFinite, FS_AddElement DEF SizeIsEvictableCount
<1>13. InfListHasNoDuplicates'
  BY <1>8 DEF InfListHasNoDuplicates, NoDuplicates
<1>14. EvictableFramesAreListed'
  <2>1. \A g \in Tracked' :
          node_store'[g].is_in_inf <=> g \in Range(inf_distance_list')
    BY <1>3, <1>6, <1>8 DEF EvictableFramesAreListed
  <2>2. \A g \in EvictableFrames : g # f /\ node_store'[g] = node_store[g]
    BY <1>6 DEF EvictableFrames
  <2>3. ~infinite <=> Len(node_store'[f].history) = K
    BY <1>1, <1>6, KAssumption DEF infinite
  <2>4. infinite <=> Len(node_store'[f].history) < K
    BY <1>6 DEF infinite
  <2>5. Range(inf_distance_list') =
          {g \in EvictableFrames' : Len(node_store'[g].history) < K}
    BY <1>7, <1>8, <2>2, <2>4 DEF EvictableFramesAreListed
  <2>6. DOMAIN finite_distance_map' =
          {g \in EvictableFrames' : Len(node_store'[g].history) = K}
    BY <1>7, <1>9, <2>2, <2>3 DEF EvictableFramesAreListed
  <2> QED
    BY <2>1, <2>5, <2>6 DEF EvictableFramesAreListed
<1>15. FiniteDistancesAreFresh'
  <2>1. \A g \in DOMAIN finite_distance_map : g # f /\ g \in Tracked
    BY <1>3 DEF EvictableFramesAreListed, EvictableFrames
  <2> QED
    BY <1>6, <1>9, <2>1 DEF FiniteDistancesAreFresh
<1> QED
  BY <1>10, <1>11, <1>12, <1>13, <1>14, <1>15

LEMMA MakeUnevictableInvariant ==
  ASSUME IInv, NEW f \in EvictableFrames,
         MakeUnevictable(f), UNCHANGED <<current_timestamp, victim>>
  PROVE  IInv'
<1> USE DEF IInv
<1>1. f \in Tracked /\ f \in Frames /\ node_store[f] \in LRUKFrame
  BY FrameType DEF EvictableFrames
<1>2. node_store \in [Tracked -> LRUKFrame]
  BY DEF TypeOK, Tracked
<1>3. Unlisted(f)
  BY UnlistProperties DEF MakeUnevictable
<1>4. /\ node_store' = [node_store EXCEPT ![f].is_evictable = FALSE,
                                          ![f].is_in_inf = FALSE]
      /\ curr_size' = curr_size - 1
  BY DEF MakeUnevictable
<1>5. /\ Tracked' = Tracked
      /\ node_store' \in [Tracked -> LRUKFrame]
      /\ node_store'[f].history = node_store[f].history
      /\ ~node_store'[f].is_evictable
      /\ ~node_store'[f].is_in_inf
      /\ \A g \in Tracked : g # f => node_store'[g] = node_store[g]
  BY <1>1, <1>2, <1>4 DEF LRUKFrame, Tracked
<1>6. EvictableFrames' = EvictableFrames \ {f}
  BY <1>5 DEF EvictableFrames
<1>7. SizeIsEvictableCount'
  BY <1>4, <1>6, EvictableFramesFinite, FS_RemoveElement DEF SizeIsEvictableCount
<1>8. TypeOK'
  <2>1. curr_size' \in Nat
    BY <1>6, <1>7, EvictableFramesFinite, FS_RemoveElement, FS_CardinalityType
       DEF SizeIsEvictableCount
  <2>2. Tracked' \subseteq Frames /\ DOMAIN finite_distance_map' \subseteq Frames
    BY <1>3, <1>5 DEF TypeOK, Tracked, Unlisted
  <2> QED
    BY <1>3, <1>5, <2>1, <2>2 DEF TypeOK, Tracked, Unlisted
<1>9. HistoriesBounded'
  BY <1>5 DEF HistoriesBounded
<1>10. InfListHasNoDuplicates'
  BY <1>3 DEF InfListHasNoDuplicates, NoDuplicates, Unlisted
<1>11. EvictableFramesAreListed'
  <2>1. \A g \in EvictableFrames' : g \in EvictableFrames /\ node_store'[g] = node_store[g]
    BY <1>5, <1>6 DEF EvictableFrames
  <2>2. \A g \in Tracked' :
          node_store'[g].is_in_inf <=> g \in Range(inf_distance_list')
    BY <1>3, <1>5 DEF EvictableFramesAreListed, Unlisted
  <2>3. Range(inf_distance_list') =
          {g \in EvictableFrames' : Len(node_store'[g].history) < K}
    BY <1>3, <1>6, <2>1 DEF EvictableFramesAreListed, Unlisted
  <2>4. DOMAIN finite_distance_map' =
          {g \in EvictableFrames' : Len(node_store'[g].history) = K}
    BY <1>3, <1>6, <2>1 DEF EvictableFramesAreListed, Unlisted
  <2> QED
    BY <2>2, <2>3, <2>4 DEF EvictableFramesAreListed
<1>12. FiniteDistancesAreFresh'
  <2>1. \A g \in DOMAIN finite_distance_map' : g # f /\ g \in Tracked
    BY <1>3 DEF EvictableFramesAreListed, EvictableFrames, Unlisted
  <2> QED
    BY <1>3, <1>5, <2>1 DEF FiniteDistancesAreFresh, Unlisted
<1> QED
  BY <1>7, <1>8, <1>9, <1>10, <1>11, <1>12

\* Forgetting an evictable frame: what Remove and both branches of Evict do.
LEMMA ForgetInvariant ==
  ASSUME IInv, NEW f \in EvictableFrames, Unlisted(f),
         node_store' = Erase(node_store, f),
         curr_size' = curr_size - 1,
         UNCHANGED current_timestamp,
         victim' \in Frames \cup {NoFrame}
  PROVE  /\ IInv'
         /\ Tracked' = Tracked \ {f}
         /\ EvictableFrames' = EvictableFrames \ {f}
<1> USE DEF IInv
<1>1. /\ Tracked' = Tracked \ {f}
      /\ \A g \in Tracked' : node_store'[g] = node_store[g]
      /\ node_store' = [g \in Tracked' |-> node_store'[g]]
  BY DEF Tracked, Erase, Restrict
<1>2. EvictableFrames' = EvictableFrames \ {f}
  BY <1>1 DEF EvictableFrames
<1>3. SizeIsEvictableCount'
  BY <1>2, EvictableFramesFinite, FS_RemoveElement DEF SizeIsEvictableCount
<1>4. TypeOK'
  <2>1. curr_size' \in Nat
    BY <1>2, <1>3, EvictableFramesFinite, FS_RemoveElement, FS_CardinalityType
       DEF SizeIsEvictableCount
  <2>2. Tracked' \subseteq Frames /\ DOMAIN finite_distance_map' \subseteq Frames
    BY <1>1 DEF TypeOK, Tracked, Unlisted
  <2>3. node_store' \in [Tracked' -> LRUKFrame]
    BY <1>1 DEF TypeOK, Tracked
  <2> QED
    BY <2>1, <2>2, <2>3 DEF TypeOK, Tracked, Unlisted
<1>5. HistoriesBounded'
  BY <1>1 DEF HistoriesBounded
<1>6. InfListHasNoDuplicates'
  BY DEF InfListHasNoDuplicates, NoDuplicates, Unlisted
<1>7. EvictableFramesAreListed'
  <2>1. \A g \in EvictableFrames' : node_store'[g] = node_store[g]
    BY <1>1, <1>2 DEF EvictableFrames
  <2> QED
    BY <1>1, <1>2, <2>1 DEF EvictableFramesAreListed, Unlisted
<1>8. FiniteDistancesAreFresh'
  <2>1. \A g \in DOMAIN finite_distance_map' : g # f /\ g \in Tracked
    BY DEF EvictableFramesAreListed, EvictableFrames, Unlisted
  <2> QED
    BY <1>1, <2>1 DEF FiniteDistancesAreFresh, Unlisted
<1> QED
  BY <1>1, <1>2, <1>3, <1>4, <1>5, <1>6, <1>7, <1>8

\* Evict takes the frame from the container it found it in; that is Unlisted.
LEMMA EvictInfiniteUnlists ==
  ASSUME IInv, EvictInfinite
  PROVE  /\ Head(inf_distance_list) \in EvictableFrames
         /\ Unlisted(Head(inf_distance_list))
<1> DEFINE f == Head(inf_distance_list)
<1> USE DEF IInv
<1>1. inf_distance_list \in Seq(Frames) /\ NoDuplicates(inf_distance_list)
  BY DEF TypeOK, InfListHasNoDuplicates, NoDuplicates
<1>2. /\ inf_distance_list # <<>>
      /\ inf_distance_list' = Tail(inf_distance_list)
      /\ finite_distance_map' = finite_distance_map
  BY DEF EvictInfinite
<1>3. /\ f \in Range(inf_distance_list)
      /\ inf_distance_list' \in Seq(Frames)
      /\ Range(inf_distance_list') = Range(inf_distance_list) \ {f}
      /\ NoDuplicates(inf_distance_list')
  BY <1>1, <1>2, TailNoDuplicates
<1> HIDE DEF f
<1>4. f \in EvictableFrames /\ Len(node_store[f].history) < K
  BY <1>3 DEF EvictableFramesAreListed
<1>5. f \notin DOMAIN finite_distance_map
  <2>1. Len(node_store[f].history) # K
    BY <1>4, FrameType, KAssumption DEF EvictableFrames
  <2> QED
    BY <2>1 DEF EvictableFramesAreListed
<1> QED
  BY <1>2, <1>3, <1>4, <1>5 DEF Unlisted, TypeOK, f

LEMMA EvictFiniteUnlists ==
  ASSUME IInv, NEW f, EvictFinite(f)
  PROVE  f \in EvictableFrames /\ Unlisted(f)
<1> USE DEF IInv
<1>1. /\ inf_distance_list' = inf_distance_list
      /\ inf_distance_list = <<>>
      /\ f \in DOMAIN finite_distance_map
      /\ finite_distance_map' = Erase(finite_distance_map, f)
  BY DEF EvictFinite, Oldest
<1>2. inf_distance_list \in Seq(Frames) /\ NoDuplicates(inf_distance_list)
  BY DEF TypeOK, InfListHasNoDuplicates, NoDuplicates
<1>3. Range(inf_distance_list) = {}
  BY <1>1 DEF Range
<1>4. /\ DOMAIN finite_distance_map' = DOMAIN finite_distance_map \ {f}
      /\ \A g \in DOMAIN finite_distance_map' :
           finite_distance_map'[g] = finite_distance_map[g]
      /\ finite_distance_map' \in [DOMAIN finite_distance_map' -> Nat]
  BY <1>1 DEF Erase, Restrict, TypeOK
<1>5. f \in EvictableFrames
  BY <1>1 DEF EvictableFramesAreListed
<1> QED
  BY <1>1, <1>2, <1>3, <1>4, <1>5 DEF Unlisted

-----------------------------------------------------------------------------
(***************************************************************************)
(* The theorems.                                                           *)
(***************************************************************************)

LEMMA NextInvariant ==
  ASSUME K > 0, IInv, [Next]_vars
  PROVE  IInv'
<1>1. CASE EvictNothing
  BY <1>1 DEF EvictNothing, IInv, TypeOK, HistoriesBounded,
              SizeIsEvictableCount, InfListHasNoDuplicates,
              EvictableFramesAreListed, FiniteDistancesAreFresh,
              EvictableFrames, Tracked
<1>2. CASE EvictInfinite
  <2> DEFINE f == Head(inf_distance_list)
  <2>1. f \in EvictableFrames /\ Unlisted(f)
    BY <1>2, EvictInfiniteUnlists
  <2>2. EvictFrame(f)
    BY <1>2 DEF EvictInfinite
  <2> HIDE DEF f
  <2>3. f \in Frames
    BY <2>1, FrameType DEF IInv, EvictableFrames
  <2> QED
    BY <2>1, <2>2, <2>3, ForgetInvariant DEF EvictFrame
<1>3. ASSUME NEW f \in Frames, EvictFinite(f)
      PROVE  IInv'
  <2>1. f \in EvictableFrames /\ Unlisted(f)
    BY <1>3, EvictFiniteUnlists
  <2>2. EvictFrame(f)
    BY <1>3 DEF EvictFinite
  <2> QED
    BY <2>1, <2>2, ForgetInvariant DEF EvictFrame
<1>4. ASSUME NEW f \in Frames, RecordAccess(f)
      PROVE  IInv'
  BY <1>4, RecordAccessInvariant
<1>5. ASSUME NEW f \in Frames, Remove(f)
      PROVE  IInv'
  <2>1. f \in EvictableFrames /\ Unlisted(f)
    BY <1>5, UnlistProperties DEF Remove
  <2> QED
    BY <1>5, <2>1, ForgetInvariant DEF Remove, IInv, TypeOK
<1>6. ASSUME NEW f \in Frames, NEW set_evictable \in BOOLEAN,
             SetEvictable(f, set_evictable)
      PROVE  IInv'
  <2>1. f \in Tracked /\ node_store[f].is_evictable \in BOOLEAN
    BY <1>6, FrameType DEF SetEvictable, IInv, LRUKFrame
  <2>2. CASE set_evictable
    BY <1>6, <2>1, <2>2, MakeEvictableInvariant DEF SetEvictable, EvictableFrames
  <2>3. CASE ~set_evictable
    BY <1>6, <2>1, <2>3, MakeUnevictableInvariant DEF SetEvictable, EvictableFrames
  <2> QED
    BY <2>2, <2>3
<1>7. CASE UNCHANGED vars
  BY <1>7 DEF vars, IInv, TypeOK, HistoriesBounded, SizeIsEvictableCount,
              InfListHasNoDuplicates, EvictableFramesAreListed,
              FiniteDistancesAreFresh, EvictableFrames, Tracked
<1> QED
  BY <1>1, <1>2, <1>3, <1>4, <1>5, <1>6, <1>7 DEF Next

LEMMA Invariance == ASSUME K > 0 PROVE Spec => []IInv
<1>1. Init => IInv
  BY InitInvariant
<1>2. IInv /\ [Next]_vars => IInv'
  BY NextInvariant
<1> QED
  BY <1>1, <1>2, PTL DEF Spec

\* Type correctness; curr_size_, a size_t in the code, never wraps below zero.
THEOREM TypeCorrect == ASSUME K > 0 PROVE Spec => []TypeOK
<1>1. IInv => TypeOK
  BY DEF IInv
<1> QED
  BY <1>1, Invariance, PTL

\* Size() is the number of evictable frames, whatever the order of accesses,
\* evictability changes, evictions and removals.
THEOREM SizeCorrect == ASSUME K > 0 PROVE Spec => []SizeIsEvictableCount
<1>1. IInv => SizeIsEvictableCount
  BY DEF IInv
<1> QED
  BY <1>1, Invariance, PTL

\* The list and the map are exactly the evictable frames, split by whether they
\* have K accesses, and no frame is listed twice at distance +inf, so that
\* list::remove and the bookkeeping of Evict take the same frame out once.
THEOREM ListsCorrect == ASSUME K > 0 PROVE Spec => []EvictableFramesAreListedOnce
<1>1. IInv => EvictableFramesAreListedOnce
  BY DEF IInv, EvictableFramesAreListedOnce
<1> QED
  BY <1>1, Invariance, PTL

\* The distance Evict compares is that of the frame's history at the time, also
\* after further accesses to an evictable frame.
THEOREM DistancesCorrect == ASSUME K > 0 PROVE Spec => []FiniteDistancesAreFresh
<1>1. IInv => FiniteDistancesAreFresh
  BY DEF IInv
<1> QED
  BY <1>1, Invariance, PTL

\* Evict never reaches an empty finite_distance_map_: for k_ > 0 the code
\* dereferences a valid iterator.
THEOREM EvictIsSafe == ASSUME K > 0 PROVE Spec => []EvictHasCandidate
<1>1. ASSUME IInv
      PROVE  EvictHasCandidate
  <2>1. SUFFICES ASSUME curr_size # 0, inf_distance_list = <<>>
                 PROVE  DOMAIN finite_distance_map # {}
    BY DEF EvictHasCandidate
  <2>2. Cardinality(EvictableFrames) # 0
    BY <1>1, <2>1 DEF IInv, SizeIsEvictableCount
  <2>3. PICK f \in EvictableFrames : TRUE
    BY <2>2, FS_EmptySet
  <2>4. f \notin Range(inf_distance_list)
    BY <2>1 DEF Range
  <2>5. Len(node_store[f].history) = K
    <3>1. Len(node_store[f].history) \in 1 .. K
      BY <1>1, FrameType DEF IInv, EvictableFrames
    <3>2. ~(Len(node_store[f].history) < K)
      BY <1>1, <2>4 DEF IInv, EvictableFramesAreListed
    <3> QED
      BY <3>1, <3>2, KAssumption
  <2> QED
    BY <1>1, <2>5 DEF IInv, EvictableFramesAreListed
<1> QED
  BY <1>1, Invariance, PTL

\* A step of the policy is a step of the contract, or changes nothing it shows.
LEMMA StepRefines ==
  ASSUME K > 0, IInv, [Next]_vars
  PROVE  [Contract!Next]_(Contract!vars)
<1> USE DEF Contract!vars
<1>1. CASE EvictNothing
  <2>1. EvictableFrames = {}
    BY <1>1, EvictableFramesFinite, FS_EmptySet
       DEF EvictNothing, IInv, SizeIsEvictableCount
  <2>2. Tracked' = Tracked /\ EvictableFrames' = EvictableFrames
    BY <1>1 DEF EvictNothing, Tracked, EvictableFrames
  <2> QED
    BY <1>1, <2>1, <2>2 DEF EvictNothing, Contract!Next, Contract!Evict
<1>2. ASSUME NEW f \in EvictableFrames, Unlisted(f), EvictFrame(f)
      PROVE  Contract!Evict
  <2>1. f \in Frames
    BY FrameType DEF IInv, EvictableFrames
  <2>2. Tracked' = Tracked \ {f} /\ EvictableFrames' = EvictableFrames \ {f}
    BY <1>2, <2>1, ForgetInvariant DEF EvictFrame
  <2> QED
    BY <1>2, <2>1, <2>2 DEF EvictFrame, Contract!Evict, Contract!Forget
<1>3. CASE EvictInfinite
  BY <1>2, <1>3, EvictInfiniteUnlists DEF EvictInfinite, Contract!Next
<1>4. ASSUME NEW f \in Frames, EvictFinite(f)
      PROVE  Contract!Next
  BY <1>2, <1>4, EvictFiniteUnlists DEF EvictFinite, Contract!Next
<1>5. ASSUME NEW f \in Frames, RecordAccess(f)
      PROVE  Contract!Next
  <2>1. Tracked' = Tracked \cup {f}
    BY <1>5 DEF RecordAccess, Tracked, Put
  <2>2. /\ \A g \in Tracked :
             node_store'[g].is_evictable = node_store[g].is_evictable
        /\ f \notin Tracked => ~node_store'[f].is_evictable
    <3>1. CASE f \in Tracked
      <4>1. node_store[f] \in LRUKFrame
        BY <3>1, FrameType DEF IInv
      <4> QED
        BY <1>5, <3>1, <4>1 DEF RecordAccess, Tracked, Put, LRUKFrame
    <3>2. CASE f \notin Tracked
      BY <1>5, <3>2 DEF RecordAccess, Tracked, Put, FreshFrame
    <3> QED
      BY <3>1, <3>2
  <2>3. EvictableFrames' = EvictableFrames
    BY <2>1, <2>2 DEF EvictableFrames
  <2>4. victim' = victim
    BY <1>5 DEF RecordAccess
  <2> QED
    BY <2>1, <2>3, <2>4 DEF Contract!RecordAccess, Contract!Next
<1>6. ASSUME NEW f \in Frames, Remove(f)
      PROVE  Contract!Next
  <2>1. f \in EvictableFrames /\ Unlisted(f)
    BY <1>6, UnlistProperties DEF Remove
  <2>2. Tracked' = Tracked \ {f} /\ EvictableFrames' = EvictableFrames \ {f}
    BY <1>6, <2>1, ForgetInvariant DEF Remove, IInv, TypeOK
  <2> QED
    BY <1>6, <2>1, <2>2 DEF Remove, Contract!Remove, Contract!Forget, Contract!Next
<1>7. ASSUME NEW f \in Frames, NEW set_evictable \in BOOLEAN,
             SetEvictable(f, set_evictable)
      PROVE  Contract!Next
  <2>1. f \in Tracked /\ victim' = victim
    BY <1>7 DEF SetEvictable
  <2>2. node_store \in [Tracked -> LRUKFrame]
    BY DEF IInv, TypeOK, Tracked
  <2>3. /\ Tracked' = Tracked
        /\ node_store'[f].is_evictable = set_evictable
        /\ \A g \in Tracked : g # f => node_store'[g] = node_store[g]
    <3>1. CASE set_evictable
      BY <1>7, <2>1, <2>2, <3>1
         DEF SetEvictable, MakeEvictable, Tracked, LRUKFrame
    <3>2. CASE ~set_evictable
      BY <1>7, <2>1, <2>2, <3>2
         DEF SetEvictable, MakeUnevictable, Tracked, LRUKFrame
    <3> QED
      BY <3>1, <3>2
  <2>4. EvictableFrames' = IF set_evictable THEN EvictableFrames \cup {f}
                                            ELSE EvictableFrames \ {f}
    BY <2>1, <2>3 DEF EvictableFrames
  <2> QED
    BY <2>1, <2>3, <2>4 DEF Contract!SetEvictable, Contract!Next
<1>8. CASE UNCHANGED vars
  BY <1>8 DEF vars, Tracked, EvictableFrames
<1> QED
  BY <1>1, <1>3, <1>4, <1>5, <1>6, <1>7, <1>8 DEF Next

\* The LRU-K policy implements the contract the buffer pool is built on.
THEOREM Refinement == ASSUME K > 0 PROVE Spec => ImplementsReplacer
<1>1. Init => Contract!Init
  BY DEF Init, Contract!Init, Tracked, EvictableFrames
<1>2. IInv /\ [Next]_vars => [Contract!Next]_(Contract!vars)
  BY StepRefines
<1> QED
  BY <1>1, <1>2, Invariance, PTL DEF Spec, ImplementsReplacer, Contract!Spec

-----------------------------------------------------------------------------
(***************************************************************************)
(* LRU-K.  The inductive invariant: a history is what is left of the       *)
(* accesses.                                                               *)
(***************************************************************************)

\* h is the last K elements of a, or all of them.
LastOf(h, a) ==
  /\ Len(h) <= Len(a)
  /\ Len(h) = Len(a) \/ Len(h) = K
  /\ \A i \in 1 .. Len(h) : h[i] = a[Len(a) - Len(h) + i]

HistoriesAreRecent ==
  /\ accesses \in [Tracked -> Seq(Nat)]
  /\ \A f \in Tracked : LastOf(node_store[f].history, accesses[f])

\* No access is recorded ahead of time; RecordAccess therefore always changes the
\* history, also one that is full of accesses to the same frame.
NoFutureAccess ==
  \A f \in Tracked : \A i \in 1 .. Len(node_store[f].history) :
    node_store[f].history[i] <= current_timestamp

HInv == IInv /\ HistoriesAreRecent /\ NoFutureAccess

LEMMA RecordedIsLast ==
  ASSUME K > 0, NEW h \in Seq(Nat), NEW a \in Seq(Nat), LastOf(h, a),
         Len(h) \in 0 .. K, NEW t \in Nat
  PROVE  /\ LastOf(Recorded(h, t), Append(a, t))
         /\ Recorded(h, t)[Len(Recorded(h, t))] = t
         /\ \A i \in 1 .. Len(Recorded(h, t)) :
              Recorded(h, t)[i] = t \/ \E j \in 1 .. Len(h) : Recorded(h, t)[i] = h[j]
<1> DEFINE pushed == Append(h, t)
           b == Append(a, t)
<1>1. /\ pushed \in Seq(Nat) /\ Len(pushed) = Len(h) + 1
      /\ \A i \in 1 .. Len(h) : pushed[i] = h[i]
      /\ pushed[Len(h) + 1] = t
  BY AppendProperties
<1>2. /\ b \in Seq(Nat) /\ Len(b) = Len(a) + 1
      /\ \A i \in 1 .. Len(a) : b[i] = a[i]
      /\ b[Len(a) + 1] = t
  BY AppendProperties
<1>3. Len(h) \in Nat /\ Len(a) \in Nat /\ K \in Nat
  BY LenProperties, KAssumption
<1>4. Recorded(h, t) = IF Len(pushed) > K THEN Tail(pushed) ELSE pushed
  BY DEF Recorded
<1> HIDE DEF pushed, b
<1>5. /\ Len(Tail(pushed)) = Len(pushed) - 1
      /\ \A i \in 1 .. Len(Tail(pushed)) : Tail(pushed)[i] = pushed[i + 1]
  <2>1. pushed # <<>>
    BY <1>1, <1>3, EmptySeq
  <2> QED
    BY <1>1, <2>1, HeadTailProperties
<1>6. CASE Len(h) = K
  <2> DEFINE r == Tail(pushed)
  <2>1. Recorded(h, t) = r /\ Len(r) = K
    BY <1>1, <1>3, <1>4, <1>5, <1>6
  <2>2. \A i \in 1 .. K : r[i] = pushed[i + 1]
    BY <1>4, <2>1
  <2> HIDE DEF r
  <2>3. r[K] = t /\ \A i \in 1 .. K - 1 : r[i] = h[i + 1]
    BY <1>1, <1>3, <1>6, <2>2
  <2>4. \A i \in 1 .. K - 1 : r[i] = b[Len(b) - K + i]
    <3> TAKE i \in 1 .. K - 1
    <3>1. i + 1 \in 1 .. Len(h) /\ r[i] = h[i + 1]
      BY <1>3, <1>6, <2>3
    <3>2. h[i + 1] = a[Len(a) - Len(h) + (i + 1)]
      BY <3>1 DEF LastOf
    <3>3. /\ Len(a) - Len(h) + (i + 1) = Len(b) - K + i
          /\ Len(b) - K + i \in 1 .. Len(a)
      BY SMTT(30), <1>2, <1>3, <1>6 DEF LastOf
    <3> QED
      BY <1>2, <3>1, <3>2, <3>3
  <2>5. r[K] = b[Len(b) - K + K]
    BY <1>2, <1>3, <2>3
  <2>6. LastOf(r, b)
    <3>1. \A i \in 1 .. K : i \in 1 .. K - 1 \/ i = K
      BY <1>3
    <3>2. K <= Len(b)
      BY <1>2, <1>3, <1>6 DEF LastOf
    <3> QED
      BY <2>1, <2>4, <2>5, <3>1, <3>2 DEF LastOf
  <2>7. \A i \in 1 .. K : r[i] = t \/ \E j \in 1 .. Len(h) : r[i] = h[j]
    BY <1>3, <1>6, <2>3
  <2> QED
    BY <2>1, <2>3, <2>6, <2>7 DEF b
<1>7. CASE Len(h) # K
  <2>1. Recorded(h, t) = pushed /\ Len(h) = Len(a)
    BY <1>1, <1>3, <1>4, <1>7 DEF LastOf
  <2>2. \A i \in 1 .. Len(pushed) : i \in 1 .. Len(h) \/ i = Len(h) + 1
    BY <1>1, <1>3
  <2>3. \A i \in 1 .. Len(h) : h[i] = a[i]
    <3> TAKE i \in 1 .. Len(h)
    <3>1. h[i] = a[Len(a) - Len(h) + i] /\ Len(a) - Len(h) + i = i
      BY <1>3, <2>1 DEF LastOf
    <3> QED
      BY <3>1
  <2>4. \A i \in 1 .. Len(pushed) : pushed[i] = b[i]
    BY <1>1, <1>2, <2>1, <2>2, <2>3
  <2>5. LastOf(pushed, b)
    <3>1. Len(pushed) = Len(b) /\ \A i \in 1 .. Len(pushed) : Len(b) - Len(pushed) + i = i
      BY <1>1, <1>2, <1>3, <2>1
    <3>2. Len(pushed) <= Len(b)
      BY <1>2, <1>3, <3>1
    <3> QED
      BY <2>4, <3>1, <3>2 DEF LastOf
  <2>6. \A i \in 1 .. Len(pushed) : pushed[i] = t \/ \E j \in 1 .. Len(h) : pushed[i] = h[j]
    BY <1>1, <2>2
  <2> QED
    BY <1>1, <2>1, <2>5, <2>6 DEF b
<1> QED
  BY <1>6, <1>7

-----------------------------------------------------------------------------
(***************************************************************************)
(* What the steps do to the histories.                                     *)
(***************************************************************************)

LEMMA RecordAccessHistory ==
  ASSUME K > 0, HInv, NEW f \in Frames, RecordAccess(f)
  PROVE  /\ Tracked' = Tracked \cup {f}
         /\ EvictableFrames' = EvictableFrames
         /\ \A g \in Tracked : g # f => node_store'[g] = node_store[g]
         /\ f \in Tracked =>
              node_store'[f].history = Recorded(node_store[f].history, current_timestamp')
         /\ f \notin Tracked =>
              node_store'[f].history = Recorded(<<>>, current_timestamp')
         /\ current_timestamp' = current_timestamp + 1
<1> DEFINE frame == IF f \in Tracked THEN node_store[f] ELSE FreshFrame
           now == current_timestamp + 1
           accessed == [frame EXCEPT !.history = Recorded(@, now)]
           leaves_inf == HasFiniteDistance(accessed) /\ frame.is_in_inf
           stored == [accessed EXCEPT !.is_in_inf = @ /\ ~leaves_inf]
<1>1. /\ frame = [history |-> frame.history, is_evictable |-> frame.is_evictable,
                  is_in_inf |-> frame.is_in_inf]
      /\ f \in Tracked => frame = node_store[f]
      /\ f \notin Tracked => frame.history = <<>> /\ ~frame.is_evictable
  <2>1. CASE f \in Tracked
    <3>1. node_store[f] \in LRUKFrame
      BY <2>1, FrameType DEF HInv, IInv
    <3> QED
      BY <2>1, <3>1 DEF LRUKFrame
  <2>2. CASE f \notin Tracked
    BY <2>2 DEF FreshFrame
  <2> QED
    BY <2>1, <2>2
<1>2. node_store' = Put(node_store, f, stored) /\ current_timestamp' = now
  BY DEF RecordAccess
<1> HIDE DEF frame, now
<1>3. /\ stored.history = Recorded(frame.history, now)
      /\ stored.is_evictable = frame.is_evictable
  BY <1>1
<1> HIDE DEF stored
<1>4. /\ Tracked' = Tracked \cup {f}
      /\ node_store'[f] = stored
      /\ \A g \in Tracked : g # f => node_store'[g] = node_store[g]
  BY <1>2 DEF Put, Tracked
<1>5. EvictableFrames' = EvictableFrames
  <2>1. f \in EvictableFrames' <=> frame.is_evictable
    BY <1>3, <1>4 DEF EvictableFrames
  <2>2. f \in EvictableFrames <=> frame.is_evictable
    BY <1>1 DEF EvictableFrames
  <2>3. \A g : g # f => (g \in EvictableFrames' <=> g \in EvictableFrames)
    BY <1>4 DEF EvictableFrames
  <2> QED
    BY <2>1, <2>2, <2>3
<1> QED
  BY <1>1, <1>2, <1>3, <1>4, <1>5 DEF now

\* Whatever else a step does, it keeps the histories of the frames it keeps.
LEMMA OtherStepHistory ==
  ASSUME K > 0, HInv, [Next]_vars, ~ \E f \in Frames : RecordAccess(f)
  PROVE  /\ Tracked' \subseteq Tracked
         /\ \A f \in Tracked' : node_store'[f].history = node_store[f].history
         /\ current_timestamp' = current_timestamp
<1>1. ASSUME NEW f, node_store' = Erase(node_store, f)
      PROVE  /\ Tracked' = Tracked \ {f}
             /\ \A g \in Tracked' : node_store'[g] = node_store[g]
  BY <1>1 DEF Tracked, Erase, Restrict
<1>2. CASE EvictNothing \/ UNCHANGED vars
  BY <1>2 DEF EvictNothing, vars, Tracked
<1>3. CASE EvictInfinite
  BY <1>1, <1>3 DEF EvictInfinite, EvictFrame
<1>4. ASSUME NEW f \in Frames, EvictFinite(f) \/ Remove(f)
      PROVE  /\ node_store' = Erase(node_store, f)
             /\ current_timestamp' = current_timestamp
  BY <1>4 DEF EvictFinite, EvictFrame, Remove
<1>5. ASSUME NEW f \in Frames, NEW set_evictable \in BOOLEAN,
             SetEvictable(f, set_evictable)
      PROVE  /\ Tracked' = Tracked
             /\ \A g \in Tracked : node_store'[g].history = node_store[g].history
             /\ current_timestamp' = current_timestamp
  <2>1. f \in Tracked /\ current_timestamp' = current_timestamp
    BY <1>5 DEF SetEvictable
  <2>2. node_store \in [Tracked -> LRUKFrame]
    BY DEF HInv, IInv, TypeOK, Tracked
  <2>3. ASSUME NEW e, NEW l, node_store' = [node_store EXCEPT ![f].is_evictable = e,
                                                              ![f].is_in_inf = l]
        PROVE  /\ Tracked' = Tracked
               /\ \A g \in Tracked : node_store'[g].history = node_store[g].history
    <3> DEFINE changed == [[node_store[f] EXCEPT !.is_evictable = e] EXCEPT !.is_in_inf = l]
    <3>1. changed.history = node_store[f].history
      BY <2>1, <2>2 DEF LRUKFrame
    <3>2. Tracked' = Tracked /\ node_store'[f] = changed
      BY <2>1, <2>2, <2>3 DEF Tracked, LRUKFrame
    <3>3. \A g \in Tracked : g # f => node_store'[g] = node_store[g]
      BY <2>1, <2>2, <2>3 DEF Tracked
    <3> HIDE DEF changed
    <3> QED
      BY <3>1, <3>2, <3>3
  <2>4. \E e, l : node_store' = [node_store EXCEPT ![f].is_evictable = e,
                                                   ![f].is_in_inf = l]
    BY <1>5 DEF SetEvictable, MakeEvictable, MakeUnevictable
  <2> QED
    BY <2>1, <2>3, <2>4
<1> QED
  BY <1>1, <1>2, <1>3, <1>4, <1>5 DEF Next

\* What Remember makes of an access.
LEMMA RecordAccessRemembered ==
  ASSUME K > 0, HInv, NEW f \in Frames, RecordAccess(f), Remember
  PROVE  /\ accesses' = Put(accesses, f, IF f \in DOMAIN accesses
                                         THEN Append(accesses[f], current_timestamp')
                                         ELSE <<current_timestamp'>>)
         /\ HInv'
<1> DEFINE now == current_timestamp'
           h == IF f \in Tracked THEN node_store[f].history ELSE <<>>
           a == IF f \in Tracked THEN accesses[f] ELSE <<>>
<1>1. /\ Tracked' = Tracked \cup {f}
      /\ \A g \in Tracked : g # f => node_store'[g] = node_store[g]
      /\ node_store'[f].history = Recorded(h, now)
      /\ now = current_timestamp + 1
  BY RecordAccessHistory
<1>2. now \in Nat /\ current_timestamp \in Nat
  BY <1>1, MaxTimestampAssumption DEF HInv, IInv, TypeOK
<1>3. /\ h \in Seq(Nat) /\ a \in Seq(Nat) /\ Len(h) \in 0 .. K /\ LastOf(h, a)
      /\ \A i \in 1 .. Len(h) : h[i] <= current_timestamp
  <2>1. CASE f \in Tracked
    BY <2>1, FrameType DEF HInv, IInv, HistoriesAreRecent, NoFutureAccess
  <2>2. CASE f \notin Tracked
    <3>1. <<>> \in Seq(Nat) /\ Len(<<>>) = 0
      BY EmptySeq
    <3>2. h = <<>> /\ a = <<>>
      BY <2>2
    <3> HIDE DEF h, a
    <3> QED
      BY <3>1, <3>2, KAssumption DEF LastOf
  <2> QED
    BY <2>1, <2>2
<1>4. accesses \in [Tracked -> Seq(Nat)]
  BY DEF HInv, HistoriesAreRecent
<1>5. f \in Tracked => h = node_store[f].history /\ a = accesses[f]
  OBVIOUS
<1>6. f \notin Tracked => a = <<>> /\ Append(a, now) = <<now>>
  OBVIOUS
<1> HIDE DEF h, a, now
<1>7. /\ LastOf(Recorded(h, now), Append(a, now))
      /\ Recorded(h, now)[Len(Recorded(h, now))] = now
      /\ \A i \in 1 .. Len(Recorded(h, now)) :
           Recorded(h, now)[i] = now \/ \E j \in 1 .. Len(h) : Recorded(h, now)[i] = h[j]
  BY <1>2, <1>3, RecordedIsLast
<1>8. f \in Tracked => Recorded(h, now) # h
  <2> SUFFICES ASSUME f \in Tracked, Recorded(h, now) = h
               PROVE  FALSE
    OBVIOUS
  <2>1. Len(h) \in 1 .. K
    BY <1>5, FrameType DEF HInv, IInv
  <2>2. h[Len(h)] = now /\ h[Len(h)] <= current_timestamp
    BY <1>3, <1>7, <2>1
  <2> QED
    BY <1>1, <1>2, <2>2
<1>9. accesses' = Put(accesses, f, Append(a, now))
  <2> DEFINE before(g) == IF g \in DOMAIN accesses THEN accesses[g] ELSE <<>>
             accessed(g) == \/ g \notin Tracked
                            \/ node_store'[g].history # node_store[g].history
  <2>1. accesses' = [g \in Tracked' |->
                       IF accessed(g) THEN Append(before(g), now) ELSE before(g)]
    BY DEF Remember, Tracked, now
  <2>2. accessed(f) /\ before(f) = a
    BY <1>1, <1>4, <1>5, <1>6, <1>8
  <2>3. \A g \in Tracked' : g # f => ~accessed(g) /\ before(g) = accesses[g]
    BY <1>1, <1>4
  <2> HIDE DEF before, accessed
  <2>4. accesses' = [g \in Tracked' |-> IF g = f THEN Append(a, now) ELSE accesses[g]]
    BY <2>1, <2>2, <2>3
  <2> QED
    BY <1>1, <1>4, <2>4 DEF Put
<1>10. IInv'
  BY RecordAccessInvariant DEF HInv
<1>11. HistoriesAreRecent'
  <2>1. Append(a, now) \in Seq(Nat)
    BY <1>2, <1>3, AppendProperties
  <2>2. /\ accesses' \in [Tracked' -> Seq(Nat)]
        /\ accesses'[f] = Append(a, now)
        /\ \A g \in Tracked : g # f => accesses'[g] = accesses[g]
    BY <1>1, <1>4, <1>9, <2>1 DEF Put
  <2>3. \A g \in Tracked' : LastOf(node_store'[g].history, accesses'[g])
    BY <1>1, <1>7, <2>2 DEF HInv, HistoriesAreRecent
  <2> QED
    BY <2>2, <2>3 DEF HistoriesAreRecent
<1>12. NoFutureAccess'
  <2>1. \A i \in 1 .. Len(Recorded(h, now)) : Recorded(h, now)[i] <= now
    <3>1. \A j \in 1 .. Len(h) : h[j] <= now
      <4> TAKE j \in 1 .. Len(h)
      <4>1. h[j] \in Nat /\ h[j] <= current_timestamp
        BY <1>3, ElementOfSeq
      <4> QED
        BY <1>1, <1>2, <4>1
    <3> QED
      BY <1>2, <1>7, <3>1
  <2>2. ASSUME NEW g \in Tracked, g # f, NEW i \in 1 .. Len(node_store[g].history)
        PROVE  node_store[g].history[i] <= now
    <3>1. node_store[g].history[i] \in Nat
      BY FrameType, ElementOfSeq DEF HInv, IInv
    <3>2. node_store[g].history[i] <= current_timestamp
      BY DEF HInv, NoFutureAccess
    <3> QED
      BY <1>1, <1>2, <3>1, <3>2
  <2> QED
    BY <1>1, <2>1, <2>2 DEF NoFutureAccess, now
<1> QED
  BY <1>4, <1>5, <1>6, <1>9, <1>10, <1>11, <1>12 DEF HInv, now

\* What Remember makes of any other step.
LEMMA OtherStepRemembered ==
  ASSUME K > 0, HInv, [Next]_vars, ~ \E f \in Frames : RecordAccess(f), Remember
  PROVE  /\ accesses' = [f \in Tracked' |-> accesses[f]]
         /\ HInv'
<1>1. /\ Tracked' \subseteq Tracked
      /\ \A f \in Tracked' : node_store'[f].history = node_store[f].history
      /\ current_timestamp' = current_timestamp
  BY OtherStepHistory
<1>2. accesses \in [Tracked -> Seq(Nat)]
  BY DEF HInv, HistoriesAreRecent
<1>3. accesses' = [f \in Tracked' |-> accesses[f]]
  BY <1>1, <1>2 DEF Remember, Tracked
<1>4. IInv'
  BY NextInvariant DEF HInv
<1>5. HistoriesAreRecent' /\ NoFutureAccess'
  BY <1>1, <1>2, <1>3 DEF HInv, HistoriesAreRecent, NoFutureAccess
<1> QED
  BY <1>3, <1>4, <1>5 DEF HInv

LEMMA HistoryNextInvariant ==
  ASSUME K > 0, HInv, [HistoryNext]_hvars
  PROVE  HInv'
<1>1. CASE HistoryNext
  BY <1>1, RecordAccessRemembered, OtherStepRemembered DEF HistoryNext
<1>2. CASE UNCHANGED hvars
  <2>1. IInv'
    BY <1>2, NextInvariant DEF HInv, hvars
  <2> QED
    BY <1>2, <2>1 DEF HInv, hvars, vars, HistoriesAreRecent, NoFutureAccess, Tracked
<1> QED
  BY <1>1, <1>2

LEMMA HistoryInvariance == ASSUME K > 0 PROVE HistorySpec => []HInv
<1>1. HistoryInit => HInv
  <2> SUFFICES ASSUME HistoryInit
               PROVE  HInv
    OBVIOUS
  <2>1. Tracked = {} /\ accesses = <<>>
    BY DEF HistoryInit, Init, Tracked
  <2>2. HistoriesAreRecent /\ NoFutureAccess
    BY <2>1 DEF HistoriesAreRecent, NoFutureAccess
  <2> QED
    BY <2>2, InitInvariant DEF HistoryInit, HInv
<1>2. HInv /\ [HistoryNext]_hvars => HInv'
  BY HistoryNextInvariant
<1> QED
  BY <1>1, <1>2, PTL DEF HistorySpec

-----------------------------------------------------------------------------
(***************************************************************************)
(* The policy.                                                             *)
(***************************************************************************)

\* Fewer than K accesses are kept exactly of a frame with fewer than K accesses,
\* and the first of K that are kept is the kth last.
LEMMA DistanceFromHistory ==
  ASSUME HInv, NEW f \in Tracked
  PROVE  /\ AnyTieBreak!Infinite(f) <=> Len(node_store[f].history) < K
         /\ Len(node_store[f].history) = K =>
              Head(node_store[f].history) = AnyTieBreak!KthLastAccess(f)
<1> DEFINE h == node_store[f].history
           a == accesses[f]
<1>1. LastOf(h, a) /\ a \in Seq(Nat)
  BY DEF HInv, HistoriesAreRecent
<1>2. h \in Seq(Nat) /\ Len(h) \in 1 .. K
  BY FrameType DEF HInv, IInv
<1> HIDE DEF h, a
<1>3. Len(a) \in Nat /\ Len(h) \in Nat /\ K \in Nat
  BY <1>1, <1>2, LenProperties, KAssumption
<1>4. Len(a) < K <=> Len(h) < K
  BY <1>1, <1>3 DEF LastOf
<1>5. ASSUME Len(h) = K
      PROVE  Head(h) = a[Len(a) - K + 1]
  <2>1. h # <<>> /\ 1 \in 1 .. Len(h)
    BY <1>2, <1>3, EmptySeq
  <2>2. Head(h) = h[1]
    BY <1>2, <2>1, HeadTailProperties
  <2> QED
    BY <1>1, <1>5, <2>1, <2>2 DEF LastOf
<1> QED
  BY <1>4, <1>5 DEF h, a, AnyTieBreak!Infinite, AnyTieBreak!KthLastAccess

\* The head of the list, and the frame the scan of the map settles on when the
\* list is empty, are at least as far as every evictable frame.
LEMMA VictimIsFarthest ==
  ASSUME HInv
  PROVE  /\ EvictInfinite => \A g \in EvictableFrames :
              AnyTieBreak!AtLeastAsFar(Head(inf_distance_list), g)
         /\ \A f : EvictFinite(f) => \A g \in EvictableFrames :
              AnyTieBreak!AtLeastAsFar(f, g)
<1>1. \A f \in EvictableFrames : f \in Tracked
  BY DEF EvictableFrames
<1>2. ASSUME EvictInfinite, NEW g \in EvictableFrames
      PROVE  AnyTieBreak!AtLeastAsFar(Head(inf_distance_list), g)
  <2> DEFINE f == Head(inf_distance_list)
  <2>1. f \in Range(inf_distance_list)
    BY <1>2, TailNoDuplicates
       DEF EvictInfinite, HInv, IInv, TypeOK, InfListHasNoDuplicates, NoDuplicates
  <2> HIDE DEF f
  <2>2. f \in EvictableFrames /\ Len(node_store[f].history) < K
    BY <2>1 DEF HInv, IInv, EvictableFramesAreListed
  <2>3. AnyTieBreak!Infinite(f)
    BY <1>1, <2>2, DistanceFromHistory
  <2> QED
    BY <2>3 DEF AnyTieBreak!AtLeastAsFar, f
<1>3. ASSUME NEW f, EvictFinite(f), NEW g \in EvictableFrames
      PROVE  AnyTieBreak!AtLeastAsFar(f, g)
  <2>1. /\ f \in DOMAIN finite_distance_map
        /\ \A x \in DOMAIN finite_distance_map :
             finite_distance_map[f] <= finite_distance_map[x]
        /\ Range(inf_distance_list) = {}
    BY <1>3 DEF EvictFinite, Oldest, Range
  <2>2. \A x \in EvictableFrames : Len(node_store[x].history) = K
    <3> TAKE x \in EvictableFrames
    <3>1. Len(node_store[x].history) \in 1 .. K
      BY <1>1, FrameType DEF HInv, IInv
    <3>2. ~(Len(node_store[x].history) < K)
      BY <2>1 DEF HInv, IInv, EvictableFramesAreListed
    <3> QED
      BY <3>1, <3>2, KAssumption
  <2>3. \A x \in EvictableFrames :
          /\ x \in DOMAIN finite_distance_map
          /\ ~AnyTieBreak!Infinite(x)
          /\ finite_distance_map[x] = AnyTieBreak!KthLastAccess(x)
    <3> TAKE x \in EvictableFrames
    <3>1. x \in DOMAIN finite_distance_map
      BY <2>2 DEF HInv, IInv, EvictableFramesAreListed
    <3>2. finite_distance_map[x] = Head(node_store[x].history)
      BY <3>1 DEF HInv, IInv, FiniteDistancesAreFresh
    <3>3. ~(Len(node_store[x].history) < K)
      BY <2>2, KAssumption
    <3> QED
      BY <1>1, <2>2, <3>1, <3>2, <3>3, DistanceFromHistory
  <2>4. f \in EvictableFrames
    BY <2>1 DEF HInv, IInv, EvictableFramesAreListed
  <2> QED
    BY <2>1, <2>3, <2>4 DEF AnyTieBreak!AtLeastAsFar
<1> QED
  BY <1>2, <1>3

\* Remove, and either way to evict, forgets the frame's accesses with the frame.
LEMMA ForgetIsForget ==
  ASSUME K > 0, HInv, HistoryNext, ~ \E g \in Frames : RecordAccess(g),
         NEW f \in EvictableFrames, Unlisted(f), node_store' = Erase(node_store, f),
         curr_size' = curr_size - 1, UNCHANGED current_timestamp,
         victim' \in Frames \cup {NoFrame}
  PROVE  AnyTieBreak!Forget(f)
<1>1. Tracked' = Tracked \ {f} /\ EvictableFrames' = EvictableFrames \ {f}
  BY ForgetInvariant DEF HInv
<1>2. accesses' = [g \in Tracked \ {f} |-> accesses[g]]
  BY <1>1, OtherStepRemembered DEF HistoryNext
<1>3. accesses \in [Tracked -> Seq(Nat)]
  BY DEF HInv, HistoriesAreRecent
<1>4. accesses' = AnyTieBreak!Erase(accesses, f)
  BY <1>2, <1>3 DEF AnyTieBreak!Erase, AnyTieBreak!Restrict, Restrict
<1> QED
  BY <1>1, <1>4 DEF AnyTieBreak!Forget

LEMMA PolicyStep ==
  ASSUME K > 0, HInv, [HistoryNext]_hvars
  PROVE  [AnyTieBreak!Next]_(AnyTieBreak!vars)
<1>1. IInv /\ accesses \in [Tracked -> Seq(Nat)]
  BY DEF HInv, HistoriesAreRecent
<1>2. CASE UNCHANGED hvars
  BY <1>2 DEF hvars, vars, AnyTieBreak!vars, EvictableFrames, Tracked
<1>3. ASSUME NEW f \in Frames, RecordAccess(f), Remember
      PROVE  AnyTieBreak!RecordAccess(f)
  <2>1. accesses' = Put(accesses, f, IF f \in DOMAIN accesses
                                     THEN Append(accesses[f], current_timestamp')
                                     ELSE <<current_timestamp'>>)
    BY <1>3, RecordAccessRemembered
  <2>2. EvictableFrames' = EvictableFrames
    BY <1>3, RecordAccessHistory
  <2>3. /\ current_timestamp < MaxTimestamp
        /\ current_timestamp' = current_timestamp + 1
        /\ victim' = victim
    BY <1>3 DEF RecordAccess
  <2> QED
    BY <2>1, <2>2, <2>3 DEF AnyTieBreak!RecordAccess, AnyTieBreak!Put, Put
<1>4. ASSUME HistoryNext, ~ \E f \in Frames : RecordAccess(f)
      PROVE  [AnyTieBreak!Next]_(AnyTieBreak!vars)
  <2>1. Next /\ accesses' = [f \in Tracked' |-> accesses[f]]
    BY <1>4, OtherStepRemembered DEF HistoryNext
  <2>2. CASE EvictNothing
    <3>1. EvictableFrames = {}
      BY <1>1, <2>2, EvictableFramesFinite, FS_EmptySet
         DEF EvictNothing, IInv, SizeIsEvictableCount
    <3>2. Tracked' = Tracked /\ EvictableFrames' = EvictableFrames
      BY <2>2 DEF EvictNothing, Tracked, EvictableFrames
    <3>3. accesses' = accesses
      BY <1>1, <2>1, <3>2
    <3> QED
      BY <2>2, <3>1, <3>2, <3>3 DEF EvictNothing, AnyTieBreak!Next, AnyTieBreak!Evict
  <2>3. ASSUME NEW f \in EvictableFrames, Unlisted(f), EvictFrame(f),
               \A g \in EvictableFrames : AnyTieBreak!AtLeastAsFar(f, g)
        PROVE  AnyTieBreak!Next
    <3>1. f \in Frames
      BY <1>1, FrameType DEF IInv, EvictableFrames
    <3>2. AnyTieBreak!Forget(f)
      BY <1>4, <2>3, <3>1, ForgetIsForget DEF EvictFrame
    <3>3. victim' = f
      BY <2>3 DEF EvictFrame
    <3> QED
      BY <2>3, <3>2, <3>3 DEF AnyTieBreak!Evict, AnyTieBreak!Next
  <2>4. CASE EvictInfinite
    BY <1>1, <2>3, <2>4, EvictInfiniteUnlists, VictimIsFarthest DEF EvictInfinite
  <2>5. ASSUME NEW f \in Frames, EvictFinite(f)
        PROVE  AnyTieBreak!Next
    BY <1>1, <2>3, <2>5, EvictFiniteUnlists, VictimIsFarthest DEF EvictFinite
  <2>6. ASSUME NEW f \in Frames, Remove(f)
        PROVE  AnyTieBreak!Next
    <3>1. f \in EvictableFrames /\ Unlisted(f)
      BY <1>1, <2>6, UnlistProperties DEF Remove
    <3>2. /\ node_store' = Erase(node_store, f)
          /\ curr_size' = curr_size - 1
          /\ UNCHANGED <<current_timestamp, victim>>
          /\ victim' \in Frames \cup {NoFrame}
      BY <1>1, <2>6 DEF Remove, IInv, TypeOK
    <3>3. AnyTieBreak!Forget(f)
      BY <1>4, <3>1, <3>2, ForgetIsForget
    <3> QED
      BY <3>2, <3>3 DEF AnyTieBreak!Remove, AnyTieBreak!Next
  <2>7. ASSUME NEW f \in Frames, NEW set_evictable \in BOOLEAN,
               SetEvictable(f, set_evictable)
        PROVE  AnyTieBreak!Next
    <3>1. f \in Tracked /\ UNCHANGED <<current_timestamp, victim>>
      BY <2>7 DEF SetEvictable
    <3>2. node_store \in [Tracked -> LRUKFrame]
      BY <1>1 DEF IInv, TypeOK, Tracked
    <3>3. /\ Tracked' = Tracked
          /\ node_store'[f].is_evictable = set_evictable
          /\ \A g \in Tracked : g # f => node_store'[g] = node_store[g]
      <4>1. CASE set_evictable
        BY <2>7, <3>1, <3>2, <4>1 DEF SetEvictable, MakeEvictable, Tracked, LRUKFrame
      <4>2. CASE ~set_evictable
        BY <2>7, <3>1, <3>2, <4>2 DEF SetEvictable, MakeUnevictable, Tracked, LRUKFrame
      <4> QED
        BY <4>1, <4>2
    <3>4. EvictableFrames' = IF set_evictable THEN EvictableFrames \cup {f}
                                              ELSE EvictableFrames \ {f}
      BY <3>1, <3>3 DEF EvictableFrames
    <3>5. accesses' = accesses /\ f \in DOMAIN accesses
      BY <1>1, <2>1, <3>1, <3>3
    <3> QED
      BY <3>1, <3>4, <3>5 DEF AnyTieBreak!SetEvictable, AnyTieBreak!Next
  <2> QED
    BY <1>4, <2>1, <2>2, <2>4, <2>5, <2>6, <2>7 DEF Next
<1> QED
  BY <1>2, <1>3, <1>4 DEF HistoryNext, AnyTieBreak!Next

\* Evict takes a frame of greatest backward k-distance among the evictable ones,
\* measured on every access since the frame was last forgotten, and fails only
\* when no frame is evictable.
THEOREM ReplacerIsLRUK == ASSUME K > 0 PROVE HistorySpec => ImplementsLRUK
<1>1. HistoryInit => AnyTieBreak!Init
  BY DEF HistoryInit, Init, AnyTieBreak!Init, EvictableFrames, Tracked
<1>2. HInv /\ [HistoryNext]_hvars => [AnyTieBreak!Next]_(AnyTieBreak!vars)
  BY PolicyStep
<1> QED
  BY <1>1, <1>2, HistoryInvariance, PTL DEF HistorySpec, ImplementsLRUK, AnyTieBreak!Spec

=============================================================================
