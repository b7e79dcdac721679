-------------------------- MODULE ChainStoreProofs --------------------------
(***************************************************************************)
(* The chain database stays consistent for every segment size, window,     *)
(* depth and number of competing blocks.  The two lemmas in the middle are *)
(* the heart: a save turns the tables of any one chain, or empty tables,   *)
(* into the tables of exactly the saved chain.                             *)
(***************************************************************************)
EXTENDS NodeHistory, TLAPS, FiniteSetTheorems

USE ChainStoreAssumption, NodeHistoryAssumption

-----------------------------------------------------------------------------
(* Blocks as paths.                                                        *)

\* The block at a height of a chain has that height.
LEMMA AtType ==
    ASSUME NEW t \in Block, NEW h \in 0 .. Len(t)
    PROVE  At(t, h) \in Block /\ Len(At(t, h)) = h /\ \A i \in 1 .. h : At(t, h)[i] = t[i]
  BY DEF At, Block

\* The tip is the block at the chain's own height.
LEMMA AtTip ==
    ASSUME NEW t \in Block
    PROVE  At(t, Len(t)) = t
  BY DEF At, Block

\* Chains that share the block at some height share every block below it.
LEMMA SharedBelow ==
    ASSUME NEW t \in Block, NEW u \in Block, NEW h \in Nat,
           h <= Len(t), h <= Len(u), At(t, h) = At(u, h),
           NEW k \in 0 .. h
    PROVE  At(t, k) = At(u, k)
  <1>1. \A i \in 1 .. h : t[i] = u[i]
    BY AtType
  <1>2. /\ At(t, k) \in Seq(Branch) /\ At(u, k) \in Seq(Branch)
        /\ Len(At(t, k)) = k /\ Len(At(u, k)) = k
        /\ \A i \in 1 .. k : At(t, k)[i] = t[i] /\ At(u, k)[i] = u[i]
    BY AtType DEF Block
  <1> QED  BY <1>1, <1>2

\* Segments are numbered by height.
LEMMA SegmentType ==
    ASSUME NEW h \in Nat
    PROVE  /\ SegmentOf(h) \in Nat
           /\ SegmentOf(h) * SegmentBlocks <= h
           /\ h < SegmentOf(h) * SegmentBlocks + SegmentBlocks
  BY DEF SegmentOf

\* Heights and segment numbers of a chain are naturals.
LEMMA ChainType ==
    ASSUME NEW t \in Block
    PROVE  Len(t) \in Nat /\ SegmentOf(Len(t)) \in Nat
  <1>1. Len(t) \in Nat
    BY DEF Block
  <1> QED  BY <1>1, SegmentType

\* A higher block is in the same or in a later segment.
LEMMA SegmentMonotone ==
    ASSUME NEW g \in Nat, NEW h \in Nat, g <= h
    PROVE  SegmentOf(g) <= SegmentOf(h)
  BY SegmentType, Z3T(20) DEF SegmentOf

\* A height lies in the segment whose range contains it.
LEMMA SegmentUnique ==
    ASSUME NEW h \in Nat, NEW s \in Nat,
           s * SegmentBlocks <= h, h < s * SegmentBlocks + SegmentBlocks
    PROVE  SegmentOf(h) = s
  BY SegmentType, Z3T(20) DEF SegmentOf

-----------------------------------------------------------------------------
(* Segment rows.                                                           *)

\* The heights of a segment.
LEMMA HeightRange ==
    ASSUME NEW t \in Block, NEW s, NEW h \in SegmentHeights(s, t)
    PROVE  /\ h \in Nat /\ h <= Len(t)
           /\ s * SegmentBlocks <= h /\ h < s * SegmentBlocks + SegmentBlocks
  <1>1. h \in Nat /\ h <= Len(t) /\ SegmentOf(h) = s
    BY DEF SegmentHeights, Block
  <1> QED  BY <1>1, SegmentType

\* The last height of a segment row is the largest one the segment has.
LEMMA RowLast ==
    ASSUME NEW t \in Block, NEW s \in 0 .. SegmentOf(Len(t))
    PROVE  /\ SegmentRow(s, t).last \in SegmentHeights(s, t)
           /\ \A h \in SegmentHeights(s, t) : h <= SegmentRow(s, t).last
           /\ EndBlock(SegmentRow(s, t)) = At(t, SegmentRow(s, t).last)
           /\ s < SegmentOf(Len(t)) =>
                 SegmentRow(s, t).last = s * SegmentBlocks + SegmentBlocks - 1
  <1> DEFINE l == SegmentRow(s, t).last
  <1>0. Len(t) \in Nat /\ SegmentOf(Len(t)) \in Nat /\ s \in Nat
    BY SegmentType DEF Block
  <1>1. CASE s = SegmentOf(Len(t))
    <2>1. l = Len(t)
      BY <1>1 DEF SegmentRow
    <2>2. l \in SegmentHeights(s, t) /\ \A h \in SegmentHeights(s, t) : h <= l
      BY <1>0, <1>1, <2>1 DEF SegmentHeights
    <2> QED  BY <1>1, <2>2 DEF SegmentRow, EndBlock
  <1>2. CASE s # SegmentOf(Len(t))
    <2>0. s + 1 <= SegmentOf(Len(t))
      BY <1>0, <1>2
    <2>1. l = s * SegmentBlocks + SegmentBlocks - 1
      BY <1>2 DEF SegmentRow
    <2>2. (s + 1) * SegmentBlocks <= SegmentOf(Len(t)) * SegmentBlocks
      BY <1>0, <2>0
    <2>3. (s + 1) * SegmentBlocks = s * SegmentBlocks + SegmentBlocks
      BY <1>0
    <2>4. s * SegmentBlocks \in Nat
      BY <1>0
    <2>5. l \in Nat /\ l <= Len(t)
      <3>1. SegmentOf(Len(t)) * SegmentBlocks <= Len(t)
        BY <1>0, SegmentType
      <3>2. SegmentOf(Len(t)) * SegmentBlocks \in Nat
        BY <1>0
      <3> QED  BY <1>0, <2>1, <2>2, <2>3, <2>4, <3>1, <3>2
    <2>6. SegmentOf(l) = s
      BY <1>0, <2>1, <2>4, <2>5, SegmentUnique
    <2>7. \A h \in SegmentHeights(s, t) : h <= l
      BY <1>0, <2>1, <2>4, SegmentType DEF SegmentHeights
    <2>8. l \in SegmentHeights(s, t)
      BY <1>0, <2>5, <2>6 DEF SegmentHeights
    <2> QED  BY <2>1, <2>7, <2>8 DEF SegmentRow, EndBlock
  <1> QED  BY <1>1, <1>2

\* Rows of two chains that end in the same block are the same row.
LEMMA RowShared ==
    ASSUME NEW t \in Block, NEW u \in Block, NEW s \in Nat,
           s <= SegmentOf(Len(t)), s <= SegmentOf(Len(u)),
           EndBlock(SegmentRow(s, u)) = EndBlock(SegmentRow(s, t))
    PROVE  SegmentRow(s, u) = SegmentRow(s, t)
  <1> DEFINE l == SegmentRow(s, t).last
             m == SegmentRow(s, u).last
  <1>0. SegmentOf(Len(t)) \in Nat /\ SegmentOf(Len(u)) \in Nat
    BY SegmentType DEF Block
  <1>1. /\ l \in SegmentHeights(s, t) /\ \A h \in SegmentHeights(s, t) : h <= l
        /\ EndBlock(SegmentRow(s, t)) = At(t, l)
    BY <1>0, RowLast
  <1>2. /\ m \in SegmentHeights(s, u) /\ \A h \in SegmentHeights(s, u) : h <= m
        /\ EndBlock(SegmentRow(s, u)) = At(u, m)
    BY <1>0, RowLast
  <1>3. l \in 0 .. Len(t) /\ m \in 0 .. Len(u)
    BY <1>1, <1>2 DEF SegmentHeights
  <1>4. l = m
    BY <1>1, <1>2, <1>3, AtType
  <1>5. At(t, l) = At(u, l)
    BY <1>1, <1>2, <1>4
  <1>6. \A k \in 0 .. l : At(t, k) = At(u, k)
    BY <1>3, <1>4, <1>5, SharedBelow DEF Block
  <1>7. SegmentHeights(s, t) = SegmentHeights(s, u)
    BY <1>1, <1>2, <1>3, <1>4 DEF SegmentHeights, Block
  <1>8. [h \in SegmentHeights(s, t) |-> At(t, h)] = [h \in SegmentHeights(s, u) |-> At(u, h)]
    <2>1. \A h \in SegmentHeights(s, t) : At(t, h) = At(u, h)
      BY <1>1, <1>3, <1>6 DEF SegmentHeights
    <2> QED  BY <1>7, <2>1
  <1>9. SegmentRow(s, t).blocks = SegmentRow(s, u).blocks
    BY <1>8 DEF SegmentRow
  <1> QED  BY <1>4, <1>9 DEF SegmentRow

\* A segment that lies in the common part of two chains and is finished in
\* both has the same row.
LEMMA RowBelow ==
    ASSUME NEW t \in Block, NEW u \in Block, NEW s \in Nat, NEW f \in Nat,
           f <= Len(t), f <= Len(u), At(t, f) = At(u, f),
           s * SegmentBlocks + SegmentBlocks - 1 <= f
    PROVE  /\ s <= SegmentOf(Len(t)) /\ s <= SegmentOf(Len(u))
           /\ SegmentRow(s, u) = SegmentRow(s, t)
  <1> DEFINE e == s * SegmentBlocks + SegmentBlocks - 1
  <1>a. Len(t) \in Nat /\ Len(u) \in Nat
    BY DEF Block
  <1>0. SegmentOf(Len(t)) \in Nat /\ SegmentOf(Len(u)) \in Nat
    BY <1>a, SegmentType
  <1>1. s * SegmentBlocks \in Nat
    OBVIOUS
  <1>2. e \in Nat /\ SegmentOf(e) = s
    BY <1>1, SegmentUnique
  <1>3. s <= SegmentOf(Len(t)) /\ s <= SegmentOf(Len(u))
    BY <1>a, <1>2, SegmentMonotone
  <1>4. SegmentRow(s, t).last = e
    <2>1. SegmentRow(s, t).last \in SegmentHeights(s, t)
      BY <1>0, <1>3, RowLast
    <2>2. e \in SegmentHeights(s, t)
      BY <1>a, <1>0, <1>2 DEF SegmentHeights
    <2>3. e <= SegmentRow(s, t).last
      BY <1>0, <1>3, <2>2, RowLast
    <2>4. SegmentRow(s, t).last <= e
      BY <1>1, <2>1, HeightRange
    <2> QED  BY <1>0, <1>2, <2>1, <2>3, <2>4 DEF SegmentHeights
  <1>5. SegmentRow(s, u).last = e
    <2>1. SegmentRow(s, u).last \in SegmentHeights(s, u)
      BY <1>0, <1>3, RowLast
    <2>2. e \in SegmentHeights(s, u)
      BY <1>a, <1>0, <1>2 DEF SegmentHeights
    <2>3. e <= SegmentRow(s, u).last
      BY <1>0, <1>3, <2>2, RowLast
    <2>4. SegmentRow(s, u).last <= e
      BY <1>1, <2>1, HeightRange
    <2> QED  BY <1>0, <1>2, <2>1, <2>3, <2>4 DEF SegmentHeights
  <1>6. At(t, e) = At(u, e)
    BY <1>2, SharedBelow
  <1>7. EndBlock(SegmentRow(s, u)) = EndBlock(SegmentRow(s, t))
    BY <1>0, <1>3, <1>4, <1>5, <1>6, RowLast
  <1> QED  BY <1>3, <1>7, RowShared

-----------------------------------------------------------------------------
(* Saving a whole chain.                                                   *)

\* A segment that a save leaves alone already holds the new chain's blocks.
LEMMA KeptSegment ==
    ASSUME NEW t \in Block, NEW u \in Block, NEW s \in 0 .. SegmentOf(Len(t)),
           s \notin RewrittenSegments(StoreOf(u), t)
    PROVE  /\ s <= SegmentOf(Len(u))
           /\ SegmentRow(s, u) = SegmentRow(s, t)
  <1> DEFINE old == StoreOf(u)
             first == FirstSegmentToCheck(old, t)
  <1>0. /\ Len(t) \in Nat /\ Len(u) \in Nat
        /\ SegmentOf(Len(t)) \in Nat /\ SegmentOf(Len(u)) \in Nat /\ s \in Nat
    BY ChainType
  <1>1. old.tip = u /\ DOMAIN old.segs = 0 .. SegmentOf(Len(u))
        /\ \A k \in 0 .. SegmentOf(Len(u)) : old.segs[k] = SegmentRow(k, u)
    BY DEF StoreOf
  <1>2. u # NoChain
    BY DEF Block
  <1>3. first \in Nat
    BY <1>0, <1>1 DEF FirstSegmentToCheck
  <1>4. CASE s < first
    <2>1. OnChain(u, t) /\ first = (Len(u) + 1) \div SegmentBlocks
      BY <1>0, <1>1, <1>4 DEF FirstSegmentToCheck
    <2>2. Len(u) <= Len(t) /\ At(t, Len(u)) = At(u, Len(u))
      BY <2>1, AtTip DEF OnChain
    <2>3. first * SegmentBlocks <= Len(u) + 1
      BY <1>0, <2>1, SegmentType DEF SegmentOf
    <2>4. (s + 1) * SegmentBlocks <= first * SegmentBlocks
      BY <1>0, <1>3, <1>4
    <2>5. (s + 1) * SegmentBlocks = s * SegmentBlocks + SegmentBlocks
      BY <1>0
    <2>6. s * SegmentBlocks \in Nat /\ first * SegmentBlocks \in Nat
      BY <1>0, <1>3
    <2>7. s * SegmentBlocks + SegmentBlocks - 1 <= Len(u)
      BY <1>0, <2>3, <2>4, <2>5, <2>6
    <2> QED  BY <1>0, <2>2, <2>7, RowBelow
  <1>5. CASE first <= s
    <2>1. /\ s \in DOMAIN old.segs
          /\ EndBlock(old.segs[s]) = EndBlock(SegmentRow(s, t))
      BY <1>0, <1>3, <1>5 DEF RewrittenSegments
    <2>2. s <= SegmentOf(Len(u)) /\ EndBlock(SegmentRow(s, u)) = EndBlock(SegmentRow(s, t))
      BY <1>0, <1>1, <2>1
    <2> QED  BY <1>0, <2>2, RowShared
  <1> QED  BY <1>0, <1>3, <1>4, <1>5

\* A save of a whole chain leaves exactly the tables of that chain, whichever
\* chain the database held before.
LEMMA SaveVerifiedReplaces ==
    ASSUME NEW t \in Block, NEW u \in Block
    PROVE  SaveVerified(StoreOf(u), t) = StoreOf(t)
  <1> DEFINE old == StoreOf(u)
             rewritten == RewrittenSegments(old, t)
             segments == {s \in DOMAIN old.segs : s <= SegmentOf(Len(t))} \cup rewritten
             patched == PatchedIndex(old, t)
  <1>0. /\ Len(t) \in Nat /\ Len(u) \in Nat
        /\ SegmentOf(Len(t)) \in Nat /\ SegmentOf(Len(u)) \in Nat
    BY ChainType
  <1>1. /\ DOMAIN old.segs = 0 .. SegmentOf(Len(u))
        /\ \A k \in 0 .. SegmentOf(Len(u)) : old.segs[k] = SegmentRow(k, u)
        /\ DOMAIN old.index = 0 .. Len(u)
        /\ \A h \in 0 .. Len(u) : old.index[h] = At(u, h)
    BY DEF StoreOf
  <1>2. rewritten \subseteq 0 .. SegmentOf(Len(t))
    <2>1. FirstSegmentToCheck(old, t) \in Nat
      BY <1>0 DEF FirstSegmentToCheck, StoreOf
    <2> QED  BY <1>0, <2>1 DEF RewrittenSegments
  <1>3. \A s \in 0 .. SegmentOf(Len(t)) : s \notin rewritten =>
            s <= SegmentOf(Len(u)) /\ SegmentRow(s, u) = SegmentRow(s, t)
    BY KeptSegment
  <1>4. segments = 0 .. SegmentOf(Len(t))
    BY <1>0, <1>1, <1>2, <1>3
  <1>5. [s \in segments |-> IF s \in rewritten THEN SegmentRow(s, t) ELSE old.segs[s]]
           = [s \in 0 .. SegmentOf(Len(t)) |-> SegmentRow(s, t)]
    <2>1. \A s \in 0 .. SegmentOf(Len(t)) :
             (IF s \in rewritten THEN SegmentRow(s, t) ELSE old.segs[s]) = SegmentRow(s, t)
      BY <1>0, <1>1, <1>3
    <2> QED  BY <1>4, <2>1
  <1>6. \A h \in 0 .. Len(t) : SegmentOf(h) \notin rewritten =>
            h \in DOMAIN old.index /\ old.index[h] = At(t, h)
    <2> SUFFICES ASSUME NEW h \in 0 .. Len(t), SegmentOf(h) \notin rewritten
                 PROVE  h \in DOMAIN old.index /\ old.index[h] = At(t, h)
      OBVIOUS
    <2>1. h \in Nat /\ SegmentOf(h) \in 0 .. SegmentOf(Len(t))
      BY <1>0, SegmentType, SegmentMonotone
    <2>2. SegmentRow(SegmentOf(h), u).blocks = SegmentRow(SegmentOf(h), t).blocks
      BY <1>3, <2>1
    <2>3. [k \in SegmentHeights(SegmentOf(h), u) |-> At(u, k)]
             = [k \in SegmentHeights(SegmentOf(h), t) |-> At(t, k)]
      BY <2>2 DEF SegmentRow
    <2>4. h \in SegmentHeights(SegmentOf(h), t)
      BY DEF SegmentHeights
    <2>5. h \in SegmentHeights(SegmentOf(h), u) /\ At(u, h) = At(t, h)
      <3> DEFINE f == [k \in SegmentHeights(SegmentOf(h), u) |-> At(u, k)]
                 g == [k \in SegmentHeights(SegmentOf(h), t) |-> At(t, k)]
      <3>1. f = g
        BY <2>3
      <3>2. h \in DOMAIN g /\ g[h] = At(t, h)
        BY <2>4
      <3>3. h \in DOMAIN f /\ f[h] = At(t, h)
        BY <3>1, <3>2
      <3> QED  BY <3>3
    <2> QED  BY <1>1, <2>5 DEF SegmentHeights
  <1>7. patched = [h \in 0 .. Len(t) |-> At(t, h)]
    <2> DEFINE kept == {h \in DOMAIN old.index : h <= Len(t) /\ SegmentOf(h) \notin rewritten}
               dom == kept \cup {h \in 0 .. Len(t) : SegmentOf(h) \in rewritten}
    <2>1. dom = 0 .. Len(t)
      BY <1>0, <1>1, <1>6
    <2>2. \A h \in dom : (IF SegmentOf(h) \in rewritten THEN At(t, h) ELSE old.index[h]) = At(t, h)
      BY <1>6, <2>1
    <2>3. patched = [h \in dom |-> IF SegmentOf(h) \in rewritten THEN At(t, h) ELSE old.index[h]]
      BY DEF PatchedIndex
    <2> QED  BY <2>1, <2>2, <2>3
  <1>8. SaveVerified(old, t) =
          [tip      |-> t,
           segs     |-> [s \in segments |->
                            IF s \in rewritten THEN SegmentRow(s, t) ELSE old.segs[s]],
           index    |-> IF Cardinality(DOMAIN patched) = Len(t) + 1 THEN patched
                        ELSE [h \in 0 .. Len(t) |-> At(t, h)],
           verified |-> t]
    BY DEF SaveVerified
  <1> QED  BY <1>5, <1>7, <1>8 DEF StoreOf

\* The first save of an empty database.
LEMMA SaveVerifiedFills ==
    ASSUME NEW t \in Block
    PROVE  SaveVerified(EmptyStore, t) = StoreOf(t)
  <1> DEFINE rewritten == RewrittenSegments(EmptyStore, t)
             segments == {s \in DOMAIN EmptyStore.segs : s <= SegmentOf(Len(t))} \cup rewritten
             patched == PatchedIndex(EmptyStore, t)
  <1>0. Len(t) \in Nat /\ SegmentOf(Len(t)) \in Nat
    BY SegmentType DEF Block
  <1>1. /\ DOMAIN EmptyStore.segs = {} /\ DOMAIN EmptyStore.index = {}
        /\ EmptyStore.tip = NoChain
    BY DEF EmptyStore
  <1>2. rewritten = 0 .. SegmentOf(Len(t))
    BY <1>0, <1>1 DEF RewrittenSegments, FirstSegmentToCheck
  <1>3. [s \in segments |-> IF s \in rewritten THEN SegmentRow(s, t) ELSE EmptyStore.segs[s]]
           = [s \in 0 .. SegmentOf(Len(t)) |-> SegmentRow(s, t)]
    BY <1>1, <1>2
  <1>4. patched = [h \in 0 .. Len(t) |-> At(t, h)]
    <2> DEFINE kept == {h \in DOMAIN EmptyStore.index : h <= Len(t) /\ SegmentOf(h) \notin rewritten}
               dom == kept \cup {h \in 0 .. Len(t) : SegmentOf(h) \in rewritten}
    <2>0. \A h \in 0 .. Len(t) : SegmentOf(h) \in rewritten
      BY <1>0, <1>2, SegmentType, SegmentMonotone
    <2>1. dom = 0 .. Len(t)
      BY <1>1, <2>0
    <2>3. patched = [h \in dom |-> IF SegmentOf(h) \in rewritten THEN At(t, h)
                                   ELSE EmptyStore.index[h]]
      BY DEF PatchedIndex
    <2> QED  BY <2>0, <2>1, <2>3
  <1>8. SaveVerified(EmptyStore, t) =
          [tip      |-> t,
           segs     |-> [s \in segments |->
                            IF s \in rewritten THEN SegmentRow(s, t) ELSE EmptyStore.segs[s]],
           index    |-> IF Cardinality(DOMAIN patched) = Len(t) + 1 THEN patched
                        ELSE [h \in 0 .. Len(t) |-> At(t, h)],
           verified |-> t]
    BY DEF SaveVerified
  <1> QED  BY <1>3, <1>4, <1>8 DEF StoreOf

-----------------------------------------------------------------------------
(* Saving a pruned tail.                                                   *)

\* A tail that extends a stored block leaves exactly the tables of the chain it
\* is the tail of, whichever other chain the database held above that block.
LEMMA SaveTailReplaces ==
    ASSUME NEW t \in Block, NEW u \in Block, NEW first \in 2 .. Len(t),
           TailExtendsStore(StoreOf(u), t, first)
    PROVE  SaveTail(StoreOf(u), t, first) = StoreOf(t)
  <1> DEFINE old == StoreOf(u)
             F == SegmentOf(first)
             T == SegmentOf(Len(t))
             touched == F .. T
             prefix == FirstPrefix(old, first)
  <1>0. /\ Len(t) \in Nat /\ Len(u) \in Nat /\ T \in Nat /\ SegmentOf(Len(u)) \in Nat
        /\ first \in Nat /\ first - 1 \in Nat /\ F \in Nat /\ F <= T
    BY ChainType, SegmentType, SegmentMonotone
  <1>1. /\ DOMAIN old.segs = 0 .. SegmentOf(Len(u))
        /\ \A k \in 0 .. SegmentOf(Len(u)) : old.segs[k] = SegmentRow(k, u)
        /\ DOMAIN old.index = 0 .. Len(u)
        /\ \A h \in 0 .. Len(u) : old.index[h] = At(u, h)
    BY DEF StoreOf
  <1>2. first - 1 <= Len(u) /\ At(u, first - 1) = At(t, first - 1)
    BY <1>1 DEF TailExtendsStore
  <1>3. \A h \in 0 .. first - 1 : h <= Len(u) /\ h <= Len(t) /\ At(u, h) = At(t, h)
    BY <1>0, <1>2, SharedBelow
  <1>4. \A h \in Nat : h < first => SegmentOf(h) \in Nat /\ SegmentOf(h) <= F
    <2> SUFFICES ASSUME NEW h \in Nat, h < first
                 PROVE  SegmentOf(h) \in Nat /\ SegmentOf(h) <= F
      OBVIOUS
    <2>1. SegmentOf(h) \in Nat
      BY SegmentType
    <2>2. h <= first
      BY <1>0
    <2> QED  BY <1>0, <2>1, <2>2, SegmentMonotone
  <1>5. F * SegmentBlocks \in Nat /\ F * SegmentBlocks <= first
        /\ first < F * SegmentBlocks + SegmentBlocks
    <2>1. F * SegmentBlocks \in Nat
      BY <1>0
    <2>2. F * SegmentBlocks <= first /\ first < F * SegmentBlocks + SegmentBlocks
      BY <1>0, SegmentType
    <2> QED  BY <2>1, <2>2
  \* Segments below the tail's first one are in the common part.
  <1>6. \A s \in Nat : s < F =>
            s <= SegmentOf(Len(u)) /\ SegmentRow(s, u) = SegmentRow(s, t)
    <2> SUFFICES ASSUME NEW s \in Nat, s < F
                 PROVE  s <= SegmentOf(Len(u)) /\ SegmentRow(s, u) = SegmentRow(s, t)
      OBVIOUS
    <2>1. (s + 1) * SegmentBlocks <= F * SegmentBlocks
      BY <1>0
    <2>2. (s + 1) * SegmentBlocks = s * SegmentBlocks + SegmentBlocks /\ s * SegmentBlocks \in Nat
      OBVIOUS
    <2>3. s * SegmentBlocks + SegmentBlocks - 1 <= first - 1
      BY <1>0, <1>5, <2>1, <2>2
    <2> QED  BY <1>0, <1>2, <2>3, RowBelow
  \* The kept prefix is the part of the tail's first segment below the tail.
  <1>7. prefix = {h \in SegmentHeights(F, t) : h < first}
    <2>1. CASE first % SegmentBlocks = 0
      <3>1. first = F * SegmentBlocks
        BY <1>0, <2>1 DEF SegmentOf
      <3>2. \A h \in SegmentHeights(F, t) : ~(h < first)
        BY <1>0, <1>5, <3>1, HeightRange
      <3> QED  BY <2>1, <3>2 DEF FirstPrefix
    <2>2. CASE first % SegmentBlocks # 0
      <3>1. F \in 0 .. SegmentOf(Len(u))
        BY <1>1, <2>2 DEF TailExtendsStore
      <3>2. DOMAIN old.segs[F].blocks = SegmentHeights(F, u)
        <4>1. old.segs[F] = SegmentRow(F, u)
          BY <1>1, <3>1
        <4>2. SegmentRow(F, u).blocks = [h \in SegmentHeights(F, u) |-> At(u, h)]
          BY DEF SegmentRow
        <4> QED  BY <4>1, <4>2
      <3>3. prefix = {h \in SegmentHeights(F, u) : h < first}
        BY <2>2, <3>2 DEF FirstPrefix
      <3> QED  BY <1>0, <1>3, <3>3 DEF SegmentHeights
    <2> QED  BY <2>1, <2>2
  <1>8. \A h \in prefix : /\ F \in DOMAIN old.segs
                          /\ h \in SegmentHeights(F, t) /\ h < first
                          /\ old.segs[F].blocks[h] = At(t, h)
    <2> SUFFICES ASSUME NEW h \in prefix
                 PROVE  /\ F \in DOMAIN old.segs
                        /\ h \in SegmentHeights(F, t) /\ h < first
                        /\ old.segs[F].blocks[h] = At(t, h)
      OBVIOUS
    <2>1. h \in SegmentHeights(F, t) /\ h < first /\ h \in 0 .. first - 1
      BY <1>0, <1>7 DEF SegmentHeights
    <2>2. first % SegmentBlocks # 0
      BY DEF FirstPrefix
    <2>3. F \in DOMAIN old.segs /\ old.segs[F] = SegmentRow(F, u)
      BY <1>1, <2>2 DEF TailExtendsStore
    <2>4. h \in SegmentHeights(F, u)
      BY <1>0, <1>3, <2>1 DEF SegmentHeights
    <2>5. old.segs[F].blocks[h] = At(u, h)
      BY <2>3, <2>4 DEF SegmentRow
    <2> QED  BY <1>3, <2>1, <2>3, <2>5
  <1>9. \A s \in touched : MergedRow(old, s, t, first) = SegmentRow(s, t)
    <2> SUFFICES ASSUME NEW s \in touched
                 PROVE  MergedRow(old, s, t, first) = SegmentRow(s, t)
      OBVIOUS
    <2> DEFINE pre == IF s = F THEN prefix ELSE {}
               dom == pre \cup {k \in SegmentHeights(s, t) : k >= first}
    <2>1. dom = SegmentHeights(s, t)
      <3>1. CASE s = F
        <4>1. \A k \in SegmentHeights(F, t) : k \in Nat
          BY HeightRange
        <4> QED  BY <1>0, <1>7, <3>1, <4>1
      <3>2. CASE s # F
        <4>1. \A k \in SegmentHeights(s, t) : k \in Nat /\ SegmentOf(k) = s
          BY <1>0 DEF SegmentHeights
        <4>2. \A k \in SegmentHeights(s, t) : k >= first
          BY <1>0, <1>4, <3>2, <4>1
        <4> QED  BY <3>2, <4>2
      <3> QED  BY <3>1, <3>2
    <2>2. \A h \in dom : (IF h \in pre THEN old.segs[s].blocks[h] ELSE At(t, h)) = At(t, h)
      BY <1>8
    <2>3. MergedRow(old, s, t, first) =
            [last |-> SegmentRow(s, t).last,
             blocks |-> [h \in dom |-> IF h \in pre THEN old.segs[s].blocks[h] ELSE At(t, h)]]
      BY DEF MergedRow
    <2>4. [h \in dom |-> IF h \in pre THEN old.segs[s].blocks[h] ELSE At(t, h)]
             = [h \in SegmentHeights(s, t) |-> At(t, h)]
      BY <2>1, <2>2
    <2> QED  BY <2>3, <2>4 DEF SegmentRow
  <1> DEFINE segments == {s \in DOMAIN old.segs : s < F} \cup touched
             kept == {h \in DOMAIN old.index : h < first /\ SegmentOf(h) \notin touched}
             rows == kept \cup prefix \cup (first .. Len(t))
  <1>10. segments = 0 .. T
    BY <1>0, <1>1, <1>6
  <1>11. [s \in segments |-> IF s \in touched THEN MergedRow(old, s, t, first) ELSE old.segs[s]]
            = [s \in 0 .. T |-> SegmentRow(s, t)]
    <2>1. \A s \in 0 .. T :
             (IF s \in touched THEN MergedRow(old, s, t, first) ELSE old.segs[s]) = SegmentRow(s, t)
      BY <1>0, <1>1, <1>6, <1>9
    <2> QED  BY <1>10, <2>1
  <1>12. rows = 0 .. Len(t)
    <2>1. \A h \in rows : h \in 0 .. Len(t)
      BY <1>0, <1>1, <1>8, HeightRange
    <2>2. ASSUME NEW h \in 0 .. Len(t), h < first
          PROVE  h \in kept \cup prefix
      <3>1. h \in DOMAIN old.index /\ SegmentOf(h) \in Nat /\ SegmentOf(h) <= F
        BY <1>0, <1>1, <1>3, <1>4, <2>2
      <3>2. CASE SegmentOf(h) = F
        BY <1>7, <2>2, <3>2 DEF SegmentHeights
      <3>3. CASE SegmentOf(h) < F
        BY <1>0, <2>2, <3>1, <3>3
      <3> QED  BY <1>0, <3>1, <3>2, <3>3
    <2> QED  BY <1>0, <2>1, <2>2
  <1>13. [h \in rows |-> IF h \in kept THEN old.index[h]
                         ELSE MergedRow(old, SegmentOf(h), t, first).blocks[h]]
            = [h \in 0 .. Len(t) |-> At(t, h)]
    <2>1. \A h \in kept : old.index[h] = At(t, h)
      BY <1>0, <1>1, <1>3
    <2>2. ASSUME NEW h \in 0 .. Len(t), h \notin kept
          PROVE  MergedRow(old, SegmentOf(h), t, first).blocks[h] = At(t, h)
      <3>1. SegmentOf(h) \in Nat /\ SegmentOf(h) <= T
        BY <1>0, SegmentType, SegmentMonotone
      <3>2. SegmentOf(h) \in touched
        <4>1. CASE h < first
          <5>1. h \in DOMAIN old.index
            BY <1>0, <1>1, <1>3, <4>1
          <5> QED  BY <2>2, <4>1, <5>1
        <4>2. CASE first <= h
          BY <1>0, <3>1, <4>2, SegmentMonotone
        <4> QED  BY <1>0, <4>1, <4>2
      <3>3. h \in SegmentHeights(SegmentOf(h), t)
        BY DEF SegmentHeights
      <3> QED  BY <1>9, <3>2, <3>3 DEF SegmentRow
    <2> QED  BY <1>12, <2>1, <2>2
  <1>14. SaveTail(old, t, first) =
           [tip      |-> t,
            segs     |-> [s \in segments |->
                             IF s \in touched THEN MergedRow(old, s, t, first) ELSE old.segs[s]],
            index    |-> [h \in rows |-> IF h \in kept THEN old.index[h]
                             ELSE MergedRow(old, SegmentOf(h), t, first).blocks[h]],
            verified |-> t]
    BY DEF SaveTail
  <1> QED  BY <1>11, <1>13, <1>14 DEF StoreOf

-----------------------------------------------------------------------------
(* Types.                                                                  *)

\* The bounded chains are the chains up to the height bound.
LEMMA BlocksType ==
    ASSUME NEW t
    PROVE  t \in Blocks <=> t \in Block /\ Len(t) <= MaxHeight
  <1>1. ASSUME t \in Blocks PROVE t \in Block /\ Len(t) <= MaxHeight
    <2>1. PICK h \in 0 .. MaxHeight : t \in [1 .. h -> Branch]
      BY <1>1 DEF Blocks
    <2>2. t \in Seq(Branch) /\ Len(t) = h
      BY <2>1
    <2> QED  BY <2>2 DEF Block
  <1>2. ASSUME t \in Block, Len(t) <= MaxHeight PROVE t \in Blocks
    <2>1. Len(t) \in 0 .. MaxHeight /\ t \in [1 .. Len(t) -> Branch]
      BY <1>2 DEF Block
    <2> QED  BY <2>1 DEF Blocks
  <1> QED  BY <1>1, <1>2

\* The placeholder is not a chain.
LEMMA NoChainType == NoChain \notin Blocks
  BY BlocksType DEF Block

\* The larger of two heights.
LEMMA GreaterType ==
    ASSUME NEW a \in Int, NEW b \in Int
    PROVE  Greater(a, b) \in Int /\ Greater(a, b) >= a /\ Greater(a, b) >= b
  BY DEF Greater

\* A window of at least one block that moves up still has the tip.
LEMMA WindowType ==
    ASSUME NEW len \in 0 .. MaxHeight, NEW first \in 1 .. MaxHeight + 1,
           first <= Greater(1, len), NEW keep \in Int, keep >= 1
    PROVE  /\ Greater(first, len - keep + 1) \in 1 .. MaxHeight + 1
           /\ Greater(first, len - keep + 1) <= Greater(1, len)
  BY DEF Greater

\* Pruning keeps the tip, and keeps the tip resident.
LEMMA PruneType ==
    ASSUME NEW n, NodeOK(n)
    PROVE  /\ NodeOK(PrunePersistedHistory(n))
           /\ PrunePersistedHistory(n).tip = n.tip
  <1> DEFINE keep == Greater(Len(n.tip) - Len(n.persisted), ResidentBlocks)
             m == RetainRecent(n, keep)
  <1>1. CASE /\ n.bounded /\ n.persisted # NoChain /\ n.tip # NoChain
             /\ OnChain(n.persisted, n.tip) /\ Resident(n, Len(n.persisted))
    <2>1. PrunePersistedHistory(n) = m
      BY <1>1 DEF PrunePersistedHistory
    <2>2. /\ n.tip \in Block /\ n.persisted \in Block /\ Len(n.tip) <= MaxHeight
          /\ n.first \in 1 .. MaxHeight + 1 /\ n.first <= Greater(1, Len(n.tip))
      BY <1>1, BlocksType DEF NodeOK, Tips
    <2>3. Len(n.tip) \in Nat /\ Len(n.persisted) \in Nat
      BY <2>2, ChainType
    <2>4. keep \in Int /\ keep >= 1
      <3>1. Len(n.tip) - Len(n.persisted) \in Int /\ ResidentBlocks \in Int /\ ResidentBlocks >= 1
        BY <2>3
      <3>2. keep \in Int /\ keep >= ResidentBlocks
        BY <3>1, GreaterType
      <3> HIDE DEF keep
      <3> QED  BY <3>1, <3>2
    <2>5. /\ Greater(n.first, Len(n.tip) - keep + 1) \in 1 .. MaxHeight + 1
          /\ Greater(n.first, Len(n.tip) - keep + 1) <= Greater(1, Len(n.tip))
      <3> HIDE DEF keep
      <3>1. Len(n.tip) \in 0 .. MaxHeight
        BY <2>2, <2>3
      <3> QED  BY <2>2, <2>4, <3>1, WindowType
    <2>6. m = [n EXCEPT !.first = Greater(n.first, Len(n.tip) - keep + 1)]
      BY DEF RetainRecent
    <2>7. NodeOK(m) /\ m.tip = n.tip
      <3> HIDE DEF keep
      <3> QED  BY <2>5, <2>6 DEF NodeOK
    <2> QED  BY <2>1, <2>7
  <1>2. CASE ~(/\ n.bounded /\ n.persisted # NoChain /\ n.tip # NoChain
               /\ OnChain(n.persisted, n.tip) /\ Resident(n, Len(n.persisted)))
    <2>1. PrunePersistedHistory(n) = n
      BY <1>2 DEF PrunePersistedHistory
    <2> QED  BY <2>1
  <1> QED  BY <1>1, <1>2

\* A node that is given another chain before it prunes.
LEMMA NodeChange ==
    ASSUME NEW n, NodeOK(n), NEW t \in Blocks, NEW f \in 1 .. MaxHeight + 1,
           f <= Greater(1, Len(t))
    PROVE  NodeOK([n EXCEPT !.tip = t, !.first = f])
  BY DEF NodeOK, Tips

\* A node that is bounded or unbounded, or told its persisted tip.
LEMMA NodeFlags ==
    ASSUME NEW n, NodeOK(n), NEW b \in BOOLEAN, NEW t \in Tips
    PROVE  NodeOK([n EXCEPT !.bounded = b]) /\ NodeOK([n EXCEPT !.persisted = t])
  BY DEF NodeOK

\* The window of a chain that is loaded, or that a fork left below its blocks.
LEMMA WindowStart ==
    ASSUME NEW t \in Blocks, NEW h \in 0 .. Len(t)
    PROVE  /\ Greater(1, h - ResidentBlocks + 1) \in 1 .. MaxHeight + 1
           /\ Greater(1, h - ResidentBlocks + 1) <= Greater(1, Len(t))
  <1>1. Len(t) \in Nat /\ Len(t) <= MaxHeight
    BY BlocksType, ChainType
  <1> QED  BY <1>1 DEF Greater

-----------------------------------------------------------------------------
(* The parts of the inductive invariant.                                   *)

StoreOK(d) ==
    /\ d.tip \in Tips
    /\ IF d.tip = NoChain THEN d = EmptyStore ELSE d = StoreOf(d.tip)

LoopOK(l) ==
    /\ l \in [stage : LoopStages, tip : Tips, first : 1 .. MaxHeight + 1,
              saved : Tips, mode : BOOLEAN, keep : BOOLEAN]
    /\ l.stage = "saving" => l.tip # NoChain /\ l.first <= Greater(1, Len(l.tip))

ForkOK(f) ==
    \/ f = NoFork
    \/ /\ f \in [stage : {"cloned", "opened", "based", "adopted"}, base : Blocks,
                 candidate : Blocks, ancestor : Blocks]
       /\ Len(f.ancestor) < Len(f.candidate)

\* The invariant, taken apart.
LEMMA StoreInvParts ==
    StoreInv <=> /\ NodeOK(node) /\ StoreOK(db) /\ LoopOK(loop) /\ ForkOK(fork)
                 /\ metrics \in BOOLEAN /\ resetting \in BOOLEAN
  BY DEF StoreInv, TypeOK, StoreConsistent, StoreOK, LoopOK, ForkOK, NoFork

\* The same after a step.
LEMMA StoreInvPartsNext ==
    StoreInv' <=> /\ NodeOK(node') /\ StoreOK(db') /\ LoopOK(loop') /\ ForkOK(fork')
                  /\ metrics' \in BOOLEAN /\ resetting' \in BOOLEAN
  BY DEF StoreInv, TypeOK, StoreConsistent, StoreOK, LoopOK, ForkOK, NoFork, NodeOK

\* A save that is accepted turns the tables of one chain into those of another.
LEMMA SaveKeepsStore ==
    ASSUME NEW d, StoreOK(d), NEW t \in Blocks, NEW f \in 1 .. MaxHeight + 1,
           f <= Greater(1, Len(t)), CanSave(d, t, f)
    PROVE  /\ SaveVerifiedResident(d, t, f) = StoreOf(t)
           /\ StoreOK(SaveVerifiedResident(d, t, f))
  <1>0. t \in Block /\ t # NoChain /\ Len(t) \in Nat
    BY BlocksType, NoChainType, ChainType
  <1>1. SaveVerifiedResident(d, t, f) = StoreOf(t)
    <2>1. CASE f = 1 /\ d.tip = NoChain
      BY <1>0, <2>1, SaveVerifiedFills DEF SaveVerifiedResident, StoreOK
    <2>2. CASE f = 1 /\ d.tip # NoChain
      <3>1. d.tip \in Block /\ d = StoreOf(d.tip)
        BY <2>2, BlocksType DEF StoreOK, Tips
      <3>2. SaveVerified(StoreOf(d.tip), t) = StoreOf(t)
        BY <1>0, <3>1, SaveVerifiedReplaces
      <3> QED  BY <2>2, <3>1, <3>2 DEF SaveVerifiedResident
    <2>3. CASE f # 1
      <3>1. TailExtendsStore(d, t, f) /\ d.tip # NoChain
        BY <2>3 DEF CanSave, TailExtendsStore
      <3>2. d.tip \in Block /\ d = StoreOf(d.tip)
        BY <3>1, BlocksType DEF StoreOK, Tips
      <3>3. f \in 2 .. Len(t)
        BY <1>0, <2>3 DEF Greater
      <3>4. SaveTail(StoreOf(d.tip), t, f) = StoreOf(t)
        BY <1>0, <3>1, <3>2, <3>3, SaveTailReplaces
      <3> QED  BY <2>3, <3>2, <3>4 DEF SaveVerifiedResident
    <2> QED  BY <2>1, <2>2, <2>3
  <1>2. StoreOf(t).tip = t
    BY DEF StoreOf
  <1> QED  BY <1>0, <1>1, <1>2 DEF StoreOK, Tips

\* The first node and database satisfy the invariant.
LEMMA StoreInvInit == Init => StoreInv
  <1> SUFFICES ASSUME Init PROVE StoreInv
    OBVIOUS
  <1>1. NodeOK(node)
    BY DEF Init, NodeOK, Tips
  <1>2. StoreOK(db)
    BY DEF Init, StoreOK, EmptyStore, Tips
  <1>3. LoopOK(loop)
    BY DEF Init, LoopOK, Starting, LoopStages, Tips
  <1>4. ForkOK(fork)
    BY DEF Init, ForkOK
  <1> QED  BY <1>1, <1>2, <1>3, <1>4, StoreInvParts DEF Init

-----------------------------------------------------------------------------
(* Steps.                                                                  *)

\* A crash and the next start.
LEMMA RestartKeeps == StoreInv /\ Restart => StoreInv'
  <1> SUFFICES ASSUME StoreInv, Restart PROVE StoreInv'
    OBVIOUS
  <1>0. StoreOK(db) /\ metrics \in BOOLEAN
    BY StoreInvParts
  <1>1. PICK window \in {1} \cup (IF metrics \/ db.tip = NoChain THEN {}
                                  ELSE {Greater(1, Len(db.tip) - ResidentBlocks + 1)}) :
           node' = LoadedNode(window)
    BY DEF Restart
  <1>2. window \in 1 .. MaxHeight + 1
        /\ (db.tip # NoChain => window <= Greater(1, Len(db.tip)))
    <2>1. CASE db.tip = NoChain
      BY <1>1, <2>1
    <2>2. CASE db.tip # NoChain
      <3>1. db.tip \in Blocks /\ Len(db.tip) \in Nat
        BY <1>0, <2>2, BlocksType, ChainType DEF StoreOK, Tips
      <3>2. CASE window = 1
        BY <3>1, <3>2 DEF Greater
      <3>3. CASE window = Greater(1, Len(db.tip) - ResidentBlocks + 1)
        <4>1. Len(db.tip) \in 0 .. Len(db.tip)
          BY <3>1
        <4> QED  BY <3>1, <3>3, <4>1, WindowStart
      <3> QED  BY <1>1, <3>2, <3>3
    <2> QED  BY <2>1, <2>2
  <1>3. NodeOK(node')
    BY <1>0, <1>1, <1>2 DEF NodeOK, LoadedNode, StoreOK
  <1>4. LoopOK(loop')
    BY <1>0 DEF Restart, Starting, LoopOK, LoopStages, Tips
  <1> QED  BY <1>0, <1>3, <1>4, StoreInvPartsNext DEF Restart, ForkOK

\* The end of start-up.
LEMMA StartLoopKeeps == StoreInv /\ StartLoop => StoreInv'
  <1> SUFFICES ASSUME StoreInv, StartLoop PROVE StoreInv'
    OBVIOUS
  <1>0. /\ NodeOK(node) /\ StoreOK(db) /\ LoopOK(loop) /\ ForkOK(fork)
        /\ metrics \in BOOLEAN /\ resetting \in BOOLEAN
    BY StoreInvParts
  <1>1. NodeOK(node')
    <2>1. node' = node \/ node' = PrunePersistedHistory([node EXCEPT !.bounded = TRUE])
      BY DEF StartLoop
    <2>2. NodeOK([node EXCEPT !.bounded = TRUE])
      BY <1>0, NodeFlags DEF Tips
    <2> QED  BY <1>0, <2>1, <2>2, PruneType
  <1>2. LoopOK(loop')
    BY <1>0 DEF StartLoop, LoopOK, LoopStages, NodeOK
  <1> QED  BY <1>0, <1>1, <1>2, StoreInvPartsNext DEF StartLoop

\* The node's chain grows or is replaced by another one in memory.
LEMMA ChainChangeKeeps ==
    ASSUME StoreInv, NEW t \in Blocks, NEW f \in 1 .. MaxHeight + 1,
           f <= Greater(1, Len(t)),
           node' = PrunePersistedHistory([node EXCEPT !.tip = t, !.first = f]),
           UNCHANGED <<db, loop, metrics, resetting>>, ForkOK(fork')
    PROVE  StoreInv' /\ node'.tip = t
  <1>0. /\ NodeOK(node) /\ StoreOK(db) /\ LoopOK(loop)
        /\ metrics \in BOOLEAN /\ resetting \in BOOLEAN
    BY StoreInvParts
  <1>1. NodeOK([node EXCEPT !.tip = t, !.first = f])
    BY <1>0, NodeChange
  <1>2. [node EXCEPT !.tip = t, !.first = f].tip = t
    BY <1>0 DEF NodeOK
  <1>3. NodeOK(node') /\ node'.tip = t
    BY <1>1, <1>2, PruneType
  <1> QED  BY <1>0, <1>3, StoreInvPartsNext

\* The chain of a bootstrap.
LEMMA BootstrapKeeps == StoreInv /\ Bootstrap => StoreInv' /\ node'.tip \in Block
  <1> SUFFICES ASSUME StoreInv, Bootstrap PROVE StoreInv' /\ node'.tip \in Block
    OBVIOUS
  <1>1. <<>> \in Block /\ Len(<<>>) = 0
    BY DEF Block
  <1>2. <<>> \in Blocks
    BY <1>1, BlocksType
  <1>3. 1 \in 1 .. MaxHeight + 1 /\ 1 <= Greater(1, Len(<<>>))
    BY <1>1 DEF Greater
  <1>4. ForkOK(fork')
    BY StoreInvParts DEF Bootstrap
  <1> QED  BY <1>1, <1>2, <1>3, <1>4, ChainChangeKeeps DEF Bootstrap

\* A block on top of the tip.
LEMMA ExtendKeeps ==
    StoreInv /\ Extend =>
        StoreInv' /\ node'.tip \in Block /\ \E b \in Branch : node'.tip = Append(node.tip, b)
  <1> SUFFICES ASSUME StoreInv, Extend
               PROVE  /\ StoreInv' /\ node'.tip \in Block
                      /\ \E b \in Branch : node'.tip = Append(node.tip, b)
    OBVIOUS
  <1>0. NodeOK(node) /\ ForkOK(fork) /\ node.tip # NoChain
    BY StoreInvParts DEF Extend
  <1>1. node.tip \in Block /\ Len(node.tip) \in Nat
    BY <1>0, BlocksType, ChainType DEF NodeOK, Tips
  <1>2. PICK b \in Branch :
           node' = PrunePersistedHistory([node EXCEPT !.tip = Append(@, b)])
    BY DEF Extend
  <1> DEFINE t == Append(node.tip, b)
  <1>3. t \in Block /\ Len(t) = Len(node.tip) + 1
    BY <1>1 DEF Block
  <1>4. t \in Blocks
    <2>1. Len(node.tip) < MaxHeight
      BY DEF Extend
    <2>2. Len(t) <= MaxHeight
      <3> HIDE DEF t
      <3> QED  BY <1>1, <1>3, <2>1
    <2> QED  BY <1>3, <2>2, BlocksType
  <1>5. node.first \in 1 .. MaxHeight + 1 /\ node.first <= Greater(1, Len(t))
    BY <1>0, <1>1, <1>3 DEF NodeOK, Greater
  <1>6. [node EXCEPT !.tip = Append(@, b)] = [node EXCEPT !.tip = t, !.first = node.first]
    BY <1>0 DEF NodeOK
  <1>7. node' = PrunePersistedHistory([node EXCEPT !.tip = t, !.first = node.first])
    BY <1>2, <1>6
  <1>8. StoreInv' /\ node'.tip = t
    <2> HIDE DEF t
    <2> QED  BY <1>0, <1>3, <1>4, <1>5, <1>7, ChainChangeKeeps DEF Extend
  <1> QED  BY <1>3, <1>8

\* A fork chosen in memory.
LEMMA ReorganizeKeeps ==
    StoreInv /\ Reorganize =>
        /\ StoreInv' /\ node'.tip \in Block
        /\ \E a \in 0 .. Len(node.tip) - 1 :
              /\ a < Len(node'.tip) /\ At(node'.tip, a) = At(node.tip, a)
              /\ PrefersFork(node'.tip, node.tip, a)
  <1> SUFFICES ASSUME StoreInv, Reorganize
               PROVE  /\ StoreInv' /\ node'.tip \in Block
                      /\ \E a \in 0 .. Len(node.tip) - 1 :
                            /\ a < Len(node'.tip) /\ At(node'.tip, a) = At(node.tip, a)
                            /\ PrefersFork(node'.tip, node.tip, a)
    OBVIOUS
  <1>1. PICK c \in Blocks :
           /\ \E a \in 0 .. Len(node.tip) - 1 :
                 /\ a < Len(c) /\ At(c, a) = At(node.tip, a)
                 /\ PrefersFork(c, node.tip, a)
           /\ node' = PrunePersistedHistory([node EXCEPT !.tip = c, !.first = 1])
    <2>1. \E c \in Blocks : \E a \in 0 .. Len(node.tip) - 1 :
             /\ a < Len(c) /\ At(c, a) = At(node.tip, a)
             /\ PrefersFork(c, node.tip, a)
             /\ node' = PrunePersistedHistory([node EXCEPT !.tip = c, !.first = 1])
      BY Zenon DEF Reorganize
    <2> QED  BY <2>1, Zenon
  <1>2. c \in Block /\ Len(c) \in Nat
    BY BlocksType, ChainType
  <1>3. 1 \in 1 .. MaxHeight + 1 /\ 1 <= Greater(1, Len(c))
    BY <1>2 DEF Greater
  <1>4. ForkOK(fork')
    BY StoreInvParts DEF Reorganize
  <1>5. StoreInv' /\ node'.tip = c
    BY <1>1, <1>2, <1>3, <1>4, ChainChangeKeeps DEF Reorganize
  <1> QED  BY <1>1, <1>2, <1>5

\* The import of a fork validated on the database.
LEMMA FinishForkKeeps ==
    StoreInv /\ FinishFork =>
        /\ StoreInv'
        /\ \/ node' = node
           \/ /\ node.tip = fork.base
              /\ node'.tip = fork.candidate
              /\ node'.tip \in Block
  <1> SUFFICES ASSUME StoreInv, FinishFork
               PROVE  /\ StoreInv'
                      /\ \/ node' = node
                         \/ /\ node.tip = fork.base
                            /\ node'.tip = fork.candidate
                            /\ node'.tip \in Block
    OBVIOUS
  <1>0. ForkOK(fork')
    BY DEF FinishFork, ForkOK
  <1>1. CASE node.tip = fork.base
    <2> DEFINE c == fork.candidate
               f == Greater(1, Len(fork.ancestor) - ResidentBlocks + 1)
    <2>1. fork # NoFork /\ ForkOK(fork)
      BY StoreInvParts DEF FinishFork, NoFork
    <2>2. c \in Blocks /\ fork.ancestor \in Blocks /\ Len(fork.ancestor) < Len(c)
      BY <2>1 DEF ForkOK
    <2>3. Len(fork.ancestor) \in Nat /\ Len(c) \in Nat /\ c \in Block
      BY <2>2, BlocksType, ChainType
    <2>4. f \in 1 .. MaxHeight + 1 /\ f <= Greater(1, Len(c))
      BY <2>2, <2>3, WindowStart
    <2>5. node' = PrunePersistedHistory([node EXCEPT !.tip = c, !.first = f])
      BY <1>1 DEF FinishFork
    <2>6. StoreInv' /\ node'.tip = c
      <3> HIDE DEF c, f
      <3> QED  BY <1>0, <2>2, <2>3, <2>4, <2>5, ChainChangeKeeps DEF FinishFork
    <2> QED  BY <1>1, <2>3, <2>6
  <1>2. CASE node.tip # fork.base
    <2>1. UNCHANGED <<node, db, loop, metrics, resetting>>
      BY <1>2 DEF FinishFork
    <2>2. StoreInv'
      BY <1>0, <2>1, StoreInvParts, StoreInvPartsNext
    <2>3. node' = node
      BY <2>1
    <2> QED  BY <2>2, <2>3
  <1> QED  BY <1>1, <1>2

\* The steps of a fork validation before the import.
LEMMA ForkStepsKeep ==
    StoreInv /\ (CloneForFork \/ OpenStore \/ LoadForkBase \/ ValidateFork) => StoreInv'
  <1> SUFFICES ASSUME StoreInv, CloneForFork \/ OpenStore \/ LoadForkBase \/ ValidateFork
               PROVE  StoreInv'
    OBVIOUS
  <1>0. UNCHANGED <<node, db, loop, metrics, resetting>>
    BY DEF CloneForFork, OpenStore, LoadForkBase, ValidateFork
  <1>1. ForkOK(fork) /\ NodeOK(node)
    BY StoreInvParts
  <1>2. CASE CloneForFork
    <2>0. PICK c \in Blocks : \E a \in 0 .. Len(c) - 1 :
             fork' = [stage |-> "cloned", base |-> node.tip,
                      candidate |-> c, ancestor |-> At(c, a)]
      BY <1>2 DEF CloneForFork
    <2>1. PICK a \in 0 .. Len(c) - 1 :
             fork' = [stage |-> "cloned", base |-> node.tip,
                      candidate |-> c, ancestor |-> At(c, a)]
      BY <2>0
    <2>2. c \in Block /\ Len(c) \in Nat /\ Len(c) <= MaxHeight
      BY BlocksType, ChainType
    <2>3. a \in 0 .. Len(c) /\ a < Len(c)
      BY <2>2
    <2>4. At(c, a) \in Block /\ Len(At(c, a)) = a
      BY <2>2, <2>3, AtType
    <2>5. At(c, a) \in Blocks /\ Len(At(c, a)) < Len(c)
      BY <2>2, <2>3, <2>4, BlocksType
    <2>6. node.tip \in Blocks
      BY <1>1, <1>2 DEF CloneForFork, NodeOK, Tips
    <2>7. ForkOK(fork')
      BY <2>1, <2>5, <2>6 DEF ForkOK
    <2> QED  BY <1>0, <2>7, StoreInvParts, StoreInvPartsNext
  <1>3. CASE OpenStore \/ LoadForkBase \/ ValidateFork
    <2>1. fork # NoFork
      <3>1. fork.stage \in {"cloned", "opened", "based"}
        BY <1>3 DEF OpenStore, LoadForkBase, ValidateFork
      <3>2. NoFork.stage = "none"
        BY DEF NoFork
      <3> QED  BY <3>1, <3>2
    <2>2. \/ fork' = NoFork
          \/ \E s \in {"opened", "based", "adopted"} : fork' = [fork EXCEPT !.stage = s]
      BY <1>3 DEF OpenStore, LoadForkBase, ValidateFork
    <2>3. ForkOK(fork')
      BY <1>1, <2>1, <2>2 DEF ForkOK
    <2> QED  BY <1>0, <2>3, StoreInvParts, StoreInvPartsNext
  <1> QED  BY <1>2, <1>3

\* The loop between two iterations.
LEMMA IdleType ==
    ASSUME NEW l, LoopOK(l), NEW t \in Tips, NEW m \in BOOLEAN
    PROVE  /\ LoopOK([Idle(l) EXCEPT !.mode = m])
           /\ LoopOK([Idle(l) EXCEPT !.saved = t, !.mode = m])
  <1>1. NoChain \in Tips /\ 1 \in 1 .. MaxHeight + 1 /\ "idle" \in LoopStages
    BY DEF Tips, LoopStages
  <1>2. Idle(l) = [l EXCEPT !.stage = "idle", !.tip = NoChain, !.first = 1]
    BY DEF Idle
  <1> QED  BY <1>1, <1>2 DEF LoopOK

\* The steps of the persistence loop that leave the database alone.
LEMMA LoopStepsKeep ==
    StoreInv /\ (AlignHistory \/ AttachHistory \/ TakeSnapshot \/ SkipSave \/ FailSave
                 \/ MarkPersisted)
        => StoreInv' /\ node'.tip = node.tip
  <1> SUFFICES ASSUME StoreInv
               PROVE  (AlignHistory \/ AttachHistory \/ TakeSnapshot \/ SkipSave \/ FailSave
                       \/ MarkPersisted) => StoreInv' /\ node'.tip = node.tip
    OBVIOUS
  <1>0. /\ NodeOK(node) /\ StoreOK(db) /\ LoopOK(loop) /\ ForkOK(fork)
        /\ metrics \in BOOLEAN /\ resetting \in BOOLEAN
    BY StoreInvParts
  <1>1. /\ NodeOK([node EXCEPT !.bounded = TRUE])
        /\ NodeOK([node EXCEPT !.bounded = FALSE])
        /\ [node EXCEPT !.bounded = TRUE].tip = node.tip
        /\ [node EXCEPT !.bounded = FALSE].tip = node.tip
    BY <1>0, NodeFlags DEF NodeOK, Tips
  <1>2. ASSUME AlignHistory PROVE StoreInv' /\ node'.tip = node.tip
    <2>1. \/ node' = node
          \/ node' = PrunePersistedHistory([node EXCEPT !.bounded = TRUE])
          \/ node' = [node EXCEPT !.bounded = FALSE]
      BY <1>0, <1>2 DEF AlignHistory
    <2>2. NodeOK(node') /\ node'.tip = node.tip
      BY <1>0, <1>1, <2>1, PruneType
    <2>3. db.tip \in Tips
      BY <1>0 DEF StoreOK
    <2>4. LoopOK(loop')
      BY <1>0, <1>2, <2>3 DEF AlignHistory, LoopOK, LoopStages
    <2> QED  BY <1>0, <1>2, <2>2, <2>4, StoreInvPartsNext DEF AlignHistory
  <1>3. ASSUME AttachHistory PROVE StoreInv' /\ node'.tip = node.tip
    <2>1. node' = node \/ (node.tip # NoChain /\ node' = [node EXCEPT !.first = 1])
      BY <1>3 DEF AttachHistory
    <2>2. NodeOK(node') /\ node'.tip = node.tip
      <3>1. node.tip # NoChain => Len(node.tip) \in Nat
        BY <1>0, BlocksType, ChainType DEF NodeOK, Tips
      <3>2. node.tip # NoChain => 1 <= Greater(1, Len(node.tip))
        BY <3>1 DEF Greater
      <3> QED  BY <1>0, <2>1, <3>2 DEF NodeOK
    <2>3. LoopOK(loop')
      BY <1>0, <1>3 DEF AttachHistory, LoopOK, LoopStages, Tips
    <2> QED  BY <1>0, <1>3, <2>2, <2>3, StoreInvPartsNext DEF AttachHistory
  <1>4. ASSUME TakeSnapshot PROVE StoreInv' /\ node'.tip = node.tip
    <2>1. LoopOK(loop')
      BY <1>0, <1>4 DEF TakeSnapshot, LoopOK, LoopStages, NodeOK
    <2> QED  BY <1>0, <1>4, <2>1, StoreInvPartsNext DEF TakeSnapshot
  <1>5. ASSUME SkipSave \/ FailSave PROVE StoreInv' /\ node'.tip = node.tip
    <2>1. \E m \in BOOLEAN : loop' = [Idle(loop) EXCEPT !.mode = m]
      <3>1. CASE FailSave
        <4>1. loop.mode \in BOOLEAN /\ Idle(loop) = [Idle(loop) EXCEPT !.mode = loop.mode]
          BY <1>0 DEF LoopOK, Idle
        <4> QED  BY <3>1, <4>1 DEF FailSave
      <3>2. CASE SkipSave
        <4>1. PICK projected \in BOOLEAN :
                 loop' = [Idle(loop) EXCEPT !.mode = IF projected THEN loop.keep ELSE @]
          BY <3>2 DEF SkipSave
        <4>2. loop.mode \in BOOLEAN /\ loop.keep \in BOOLEAN /\ Idle(loop).mode = loop.mode
          BY <1>0 DEF LoopOK, Idle
        <4> QED  BY <4>1, <4>2
      <3> QED  BY <1>5, <3>1, <3>2
    <2>2. LoopOK(loop')
      BY <1>0, <2>1, IdleType DEF Tips
    <2> QED  BY <1>0, <1>5, <2>2, StoreInvPartsNext DEF SkipSave, FailSave
  <1>6. ASSUME MarkPersisted PROVE StoreInv' /\ node'.tip = node.tip
    <2>1. loop.tip \in Tips
      BY <1>0 DEF LoopOK
    <2>2. NodeOK([node EXCEPT !.persisted = loop.tip])
      BY <1>0, <2>1, NodeFlags
    <2>3. [node EXCEPT !.persisted = loop.tip].tip = node.tip
      BY <1>0 DEF NodeOK
    <2>4. NodeOK(node') /\ node'.tip = node.tip
      BY <1>6, <2>2, <2>3, PruneType DEF MarkPersisted
    <2>5. loop.mode \in BOOLEAN /\ loop.keep \in BOOLEAN /\ loop.saved \in Tips
      BY <1>0 DEF LoopOK
    <2>6. PICK t \in Tips, m \in BOOLEAN :
             loop' = [Idle(loop) EXCEPT !.saved = t, !.mode = m]
      BY <1>6, <2>1, <2>5 DEF MarkPersisted
    <2>7. LoopOK(loop')
      BY <1>0, <2>6, IdleType
    <2> QED  BY <1>0, <1>6, <2>4, <2>7, StoreInvPartsNext DEF MarkPersisted
  <1> QED  BY <1>2, <1>3, <1>4, <1>5, <1>6

\* The commit of a save.
LEMMA CommitSaveKeeps ==
    StoreInv /\ CommitSave => StoreInv' /\ loop.tip \in Blocks /\ db' = StoreOf(loop.tip)
  <1> SUFFICES ASSUME StoreInv, CommitSave
               PROVE  StoreInv' /\ loop.tip \in Blocks /\ db' = StoreOf(loop.tip)
    OBVIOUS
  <1>0. /\ NodeOK(node) /\ StoreOK(db) /\ LoopOK(loop) /\ ForkOK(fork)
        /\ metrics \in BOOLEAN /\ resetting \in BOOLEAN
    BY StoreInvParts
  <1>1. /\ loop.tip \in Blocks /\ loop.first \in 1 .. MaxHeight + 1
        /\ loop.first <= Greater(1, Len(loop.tip)) /\ CanSave(db, loop.tip, loop.first)
    BY <1>0 DEF CommitSave, LoopOK, Tips
  <1>2. db' = StoreOf(loop.tip) /\ StoreOK(db')
    BY <1>0, <1>1, SaveKeepsStore DEF CommitSave
  <1>3. LoopOK(loop')
    BY <1>0 DEF CommitSave, LoopOK, LoopStages
  <1> QED  BY <1>0, <1>1, <1>2, <1>3, StoreInvPartsNext DEF CommitSave

\* The other steps.
LEMMA OtherStepsKeep ==
    StoreInv /\ (ToggleMetrics \/ ResetNode \/ ClearStore \/ UNCHANGED vars) => StoreInv'
  <1> SUFFICES ASSUME StoreInv, ToggleMetrics \/ ResetNode \/ ClearStore \/ UNCHANGED vars
               PROVE  StoreInv'
    OBVIOUS
  <1>0. /\ NodeOK(node) /\ StoreOK(db) /\ LoopOK(loop) /\ ForkOK(fork)
        /\ metrics \in BOOLEAN /\ resetting \in BOOLEAN
    BY StoreInvParts
  <1>1. CASE ToggleMetrics
    BY <1>0, <1>1, StoreInvPartsNext DEF ToggleMetrics
  <1>2. CASE ResetNode
    <2>1. NodeOK(node')
      <3>1. /\ node' = [node EXCEPT !.tip = NoChain, !.first = 1, !.persisted = NoChain]
            /\ NoChain \in Tips /\ 1 \in 1 .. MaxHeight + 1
        BY <1>2 DEF ResetNode, Tips
      <3>2. node'.tip = NoChain
        BY <1>0, <3>1 DEF NodeOK
      <3> QED  BY <1>0, <3>1, <3>2 DEF NodeOK
    <2> QED  BY <1>0, <1>2, <2>1, StoreInvPartsNext DEF ResetNode, ForkOK
  <1>3. CASE ClearStore
    <2>1. StoreOK(db')
      BY <1>3 DEF ClearStore, StoreOK, EmptyStore, Tips
    <2> QED  BY <1>0, <1>3, <2>1, StoreInvPartsNext DEF ClearStore
  <1>4. CASE UNCHANGED vars
    BY <1>0, <1>4, StoreInvPartsNext DEF vars
  <1> QED  BY <1>1, <1>2, <1>3, <1>4

\* Every step of the node, its database and the loop preserves the invariant.
LEMMA StoreInvStep == StoreInv /\ [Next]_vars => StoreInv'
  BY RestartKeeps, StartLoopKeeps, BootstrapKeeps, ExtendKeeps, ReorganizeKeeps,
     FinishForkKeeps, ForkStepsKeep, LoopStepsKeep, CommitSaveKeeps, OtherStepsKeep
     DEF Next, ValidateForkNext, LoopNext

-----------------------------------------------------------------------------
(* Theorems.                                                               *)

\* The inductive invariant of the node's memory, its database, the persistence
\* loop and the fork validation (chain_store.rs, node_lifecycle.rs, main.rs).
THEOREM StoreInvHolds == Spec => []StoreInv
  BY StoreInvInit, StoreInvStep, PTL DEF Spec

\* The tip of the node is always resident, whatever pruning, restarts and
\* restores of history came before, and all state is well formed.
THEOREM NodeHistoryTypes == Spec => []TypeOK
  <1>1. StoreInv => TypeOK
    BY DEF StoreInv
  <1> QED  BY <1>1, StoreInvHolds, PTL

\* Segments, index, metadata and verification mark of the database describe one
\* and the same chain after every sequence of saves, of whole chains and of
\* pruned tails, across reorganizations, failures and crashes.
THEOREM StoreStaysConsistent == Spec => []StoreConsistent
  <1>1. StoreInv => StoreConsistent
    BY DEF StoreInv
  <1> QED  BY <1>1, StoreInvHolds, PTL

-----------------------------------------------------------------------------
(* The database implements DurableChain.                                   *)

\* What a load reads from consistent tables is the whole chain.
LEMMA LoadedIsWhole ==
    ASSUME NEW d, StoreOK(d)
    PROVE  LoadedBlocks(d) = Durable!Whole(d.tip)
  <1>1. CASE d.tip = NoChain
    <2>1. DOMAIN d.segs = {}
      BY <1>1 DEF StoreOK, EmptyStore
    <2>2. StoredBlocks(d) = {}
      BY <2>1 DEF StoredBlocks
    <2> QED  BY <1>1, <2>2 DEF LoadedBlocks, Durable!Whole
  <1>2. CASE d.tip # NoChain
    <2> DEFINE t == d.tip
    <2>0. t \in Block /\ d = StoreOf(t)
      BY <1>2, BlocksType DEF StoreOK, Tips
    <2>1. Len(t) \in Nat /\ SegmentOf(Len(t)) \in Nat
      BY <2>0, ChainType
    <2>2. /\ DOMAIN d.segs = 0 .. SegmentOf(Len(t))
          /\ \A s \in 0 .. SegmentOf(Len(t)) : d.segs[s] = SegmentRow(s, t)
      BY <2>0 DEF StoreOf
    <2>3. \A s \in 0 .. SegmentOf(Len(t)) :
             d.segs[s].blocks = [h \in SegmentHeights(s, t) |-> At(t, h)]
      <3> SUFFICES ASSUME NEW s \in 0 .. SegmentOf(Len(t))
                   PROVE  d.segs[s].blocks = [h \in SegmentHeights(s, t) |-> At(t, h)]
        OBVIOUS
      <3>1. d.segs[s] = SegmentRow(s, t)
        BY <2>2
      <3>2. SegmentRow(s, t).blocks = [h \in SegmentHeights(s, t) |-> At(t, h)]
        BY DEF SegmentRow
      <3> QED  BY <3>1, <3>2
    <2> HIDE DEF t
    <2>4. \A h \in 0 .. Len(t) :
             /\ SegmentOf(h) \in 0 .. SegmentOf(Len(t))
             /\ h \in SegmentHeights(SegmentOf(h), t)
      BY <2>1, SegmentType, SegmentMonotone DEF SegmentHeights
    <2>5. StoredBlocks(d) = 0 .. Len(t)
      <3>1. ASSUME NEW h \in StoredBlocks(d) PROVE h \in 0 .. Len(t)
        <4>1. PICK s \in 0 .. SegmentOf(Len(t)) : h \in DOMAIN d.segs[s].blocks
          BY <2>2 DEF StoredBlocks
        <4>2. h \in SegmentHeights(s, t)
          BY <2>3, <4>1
        <4> QED  BY <4>2 DEF SegmentHeights
      <3>2. ASSUME NEW h \in 0 .. Len(t) PROVE h \in StoredBlocks(d)
        <4>1. h \in DOMAIN d.segs[SegmentOf(h)].blocks
          BY <2>3, <2>4
        <4> QED  BY <2>2, <2>4, <4>1 DEF StoredBlocks
      <3> QED  BY <3>1, <3>2
    <2>6. \A h \in 0 .. Len(t) : d.segs[SegmentOf(h)].blocks[h] = SubSeq(t, 1, h)
      BY <2>3, <2>4 DEF At
    <2>7. LoadedBlocks(d) = [h \in 0 .. Len(t) |-> SubSeq(t, 1, h)]
      BY <2>5, <2>6 DEF LoadedBlocks
    <2>8. Durable!Whole(t) = [h \in 0 .. Len(t) |-> SubSeq(t, 1, h)]
      BY <1>2 DEF Durable!Whole, t
    <2> QED  BY <2>7, <2>8 DEF t
  <1> QED  BY <1>1, <1>2

Snapshot(l) == IF l.stage = "restoring" THEN NoChain ELSE l.tip

\* A step that changes only the chain in memory is an advance.
LEMMA AdvanceStep ==
    ASSUME node'.tip \in Tips, UNCHANGED <<db, loop>>
    PROVE  Durable!Next
  <1>1. node'.tip \in Seq(Branch) \cup {NoChain}
    BY BlocksType DEF Tips, Block
  <1>2. Durable!Advance
    BY <1>1 DEF Durable!Advance
  <1> QED  BY <1>2 DEF Durable!Next

\* A step of the loop that neither touches the database nor the tip, and keeps
\* the snapshot, stutters; one that ends with no snapshot drops it.
LEMMA LoopStep ==
    ASSUME node'.tip = node.tip, UNCHANGED db,
           loop.stage # "starting", loop'.stage # "starting",
           Snapshot(loop') \in {Snapshot(loop), NoChain, node.tip}
    PROVE  [Durable!Next]_(Durable!vars)
  <1>0. LoadedBlocks(db)' = LoadedBlocks(db)
    OBVIOUS
  <1>1. CASE Snapshot(loop') = Snapshot(loop)
    BY <1>0, <1>1 DEF Durable!vars, Snapshot
  <1>2. CASE Snapshot(loop') = NoChain
    <2>1. Durable!DropSnapshot
      BY <1>0, <1>2 DEF Durable!DropSnapshot, Snapshot
    <2> QED  BY <2>1 DEF Durable!Next
  <1>3. CASE Snapshot(loop') = node.tip
    <2>1. Durable!TakeSnapshot
      BY <1>0, <1>3 DEF Durable!TakeSnapshot, Snapshot
    <2> QED  BY <2>1 DEF Durable!Next
  <1> QED  BY <1>1, <1>2, <1>3

\* Every step of the node is a step of DurableChain, or invisible to it.
LEMMA RefinementStep == StoreInv /\ StoreInv' /\ [Next]_vars => [Durable!Next]_(Durable!vars)
  <1> SUFFICES ASSUME StoreInv, StoreInv', [Next]_vars
               PROVE  [Durable!Next]_(Durable!vars)
    OBVIOUS
  <1>0. /\ NodeOK(node) /\ StoreOK(db) /\ LoopOK(loop) /\ ForkOK(fork)
        /\ metrics \in BOOLEAN /\ resetting \in BOOLEAN /\ NodeOK(node')
    BY StoreInvParts, StoreInvPartsNext
  <1>1. node'.tip \in Tips
    BY <1>0 DEF NodeOK
  <1>2. CASE Restart
    <2>1. node'.tip = db.tip
      BY <1>2 DEF Restart, LoadedNode
    <2>2. LoadedBlocks(db) = Durable!Whole(node'.tip)
      BY <1>0, <2>1, LoadedIsWhole
    <2>3. loop'.stage = "starting" /\ loop'.tip = NoChain
      BY <1>2 DEF Restart, Starting
    <2>4. LoadedBlocks(db)' = LoadedBlocks(db)
      BY <1>2 DEF Restart
    <2>5. node'.tip \in Seq(Branch) \cup {NoChain}
      BY <1>1, BlocksType DEF Tips, Block
    <2>6. Durable!Restart
      BY <2>2, <2>3, <2>4, <2>5 DEF Durable!Restart
    <2> QED  BY <2>6 DEF Durable!Next
  <1>3. CASE StartLoop
    <2>1. node'.tip = node.tip
      <3>1. NodeOK([node EXCEPT !.bounded = TRUE]) /\ [node EXCEPT !.bounded = TRUE].tip = node.tip
        BY <1>0, NodeFlags DEF NodeOK, Tips
      <3>2. node' = node \/ node' = PrunePersistedHistory([node EXCEPT !.bounded = TRUE])
        BY <1>3 DEF StartLoop
      <3> QED  BY <3>1, <3>2, PruneType
    <2>2. loop.stage = "starting" /\ loop'.stage = "idle" /\ loop'.tip = loop.tip
      BY <1>0, <1>3 DEF StartLoop, LoopOK
    <2>3. LoadedBlocks(db)' = LoadedBlocks(db)
      BY <1>3 DEF StartLoop
    <2>4. Durable!FinishStart
      BY <2>1, <2>2, <2>3 DEF Durable!FinishStart
    <2> QED  BY <2>4 DEF Durable!Next
  <1>4. CASE Bootstrap \/ Extend \/ Reorganize \/ FinishFork \/ ResetNode
    <2>1. UNCHANGED <<db, loop>>
      BY <1>4 DEF Bootstrap, Extend, Reorganize, FinishFork, ResetNode
    <2> QED  BY <1>1, <2>1, AdvanceStep
  <1>5. CASE \/ CloneForFork \/ OpenStore \/ LoadForkBase \/ ValidateFork
             \/ ToggleMetrics \/ UNCHANGED vars
    <2>1. UNCHANGED <<node, db, loop>>
      BY <1>5 DEF CloneForFork, OpenStore, LoadForkBase, ValidateFork, ToggleMetrics, vars
    <2> QED  BY <1>1, <2>1, AdvanceStep
  <1>6. CASE AlignHistory \/ AttachHistory \/ TakeSnapshot \/ SkipSave \/ FailSave \/ MarkPersisted
    <2>1. node'.tip = node.tip
      BY <1>6, LoopStepsKeep
    <2>2. UNCHANGED db
      BY <1>6 DEF AlignHistory, AttachHistory, TakeSnapshot, SkipSave, FailSave, MarkPersisted
    <2>3. loop.stage # "starting" /\ loop'.stage # "starting"
          /\ Snapshot(loop') \in {Snapshot(loop), NoChain, node.tip}
      <3>1. CASE AlignHistory
        BY <1>0, <3>1 DEF AlignHistory, LoopOK, Snapshot
      <3>2. CASE AttachHistory
        BY <1>0, <3>2 DEF AttachHistory, LoopOK, Snapshot
      <3>3. CASE TakeSnapshot
        BY <1>0, <3>3 DEF TakeSnapshot, LoopOK, Snapshot
      <3>4. CASE SkipSave \/ FailSave \/ MarkPersisted
        <4>1. Idle(loop).stage = "idle" /\ Idle(loop).tip = NoChain
          BY <1>0 DEF Idle, LoopOK
        <4>2. loop'.stage = "idle" /\ loop'.tip = NoChain
          BY <1>0, <3>4 DEF SkipSave, FailSave, MarkPersisted, Idle, LoopOK
        <4>3. loop.stage # "starting"
          BY <3>4 DEF SkipSave, FailSave, MarkPersisted
        <4> QED  BY <4>2, <4>3 DEF Snapshot
      <3> QED  BY <1>6, <3>1, <3>2, <3>3, <3>4
    <2> QED  BY <2>1, <2>2, <2>3, LoopStep
  <1>7. CASE CommitSave
    <2>1. loop.tip \in Blocks /\ db' = StoreOf(loop.tip)
      BY <1>7, CommitSaveKeeps
    <2>2. db'.tip = loop.tip /\ StoreOK(db')
      BY <2>1, StoreInvPartsNext DEF StoreOf
    <2>3. LoadedBlocks(db)' = Durable!Whole(loop.tip)
      BY <2>2, LoadedIsWhole
    <2>4. loop.stage = "saving" /\ loop'.stage = "committed" /\ loop'.tip = loop.tip
          /\ node' = node
      BY <1>0, <1>7 DEF CommitSave, LoopOK
    <2>5. Durable!Commit
      BY <2>3, <2>4 DEF Durable!Commit
    <2> QED  BY <2>5 DEF Durable!Next
  <1>8. CASE ClearStore
    <2>1. db'.tip = NoChain /\ StoreOK(db') /\ UNCHANGED <<node, loop>>
      BY <1>8, StoreInvPartsNext DEF ClearStore, EmptyStore
    <2>2. LoadedBlocks(db)' = Durable!Whole(NoChain)
      BY <2>1, LoadedIsWhole
    <2>3. Durable!Clear
      BY <2>1, <2>2 DEF Durable!Clear
    <2> QED  BY <2>3 DEF Durable!Next
  <1> QED  BY <1>2, <1>3, <1>4, <1>5, <1>6, <1>7, <1>8 DEF Next, ValidateForkNext, LoopNext

\* Whatever the loop, the pruning, the reorganizations and the crashes do, the
\* database is a chain saved whole that the next process loads whole.
THEOREM DatabaseIsDurable == Spec => ImplementsDurableChain
  <1>1. Init => Durable!Init
    <2> SUFFICES ASSUME Init PROVE Durable!Init
      OBVIOUS
    <2>1. StoreOK(db) /\ db.tip = NoChain
      BY StoreInvInit, StoreInvParts DEF Init, EmptyStore
    <2>2. LoadedBlocks(db) = Durable!Whole(NoChain)
      BY <2>1, LoadedIsWhole
    <2>3. node.tip = NoChain /\ loop.stage = "starting" /\ loop.tip = NoChain
      BY DEF Init, Starting
    <2> QED  BY <2>2, <2>3 DEF Durable!Init
  <1> QED  BY <1>1, RefinementStep, StoreInvHolds, PTL DEF Spec, ImplementsDurableChain, Durable!Spec
-----------------------------------------------------------------------------
(* Forks leave the blocks below the finality depth alone.                  *)

\* A chain keeps itself, and what a chain it keeps has kept.
LEMMA KeepsOrder ==
    ASSUME NEW t \in Block, NEW u \in Block, NEW v \in Block
    PROVE  Keeps(t, t) /\ (Keeps(t, u) /\ Keeps(u, v) => Keeps(t, v))
  <1>1. Len(t) \in Nat /\ Len(u) \in Nat /\ Len(v) \in Nat
    BY ChainType
  <1> QED  BY <1>1 DEF Keeps

\* A candidate that fork choice prefers keeps the chain it replaces, when both
\* share the blocks up to the fork point or to the finality depth.
LEMMA PreferredKeeps ==
    ASSUME NEW c \in Block, NEW t \in Block, NEW a \in Nat, PrefersFork(c, t, a),
           \A h \in 1 .. Len(t) - FinalityDepth : h <= a => At(c, h) = At(t, h)
    PROVE  Keeps(c, t)
  <1>1. Len(c) \in Nat /\ Len(t) \in Nat
    BY ChainType
  <1>2. a >= Len(t) - FinalityDepth /\ Len(c) >= Len(t)
    BY <1>1 DEF PrefersFork
  <1>3. \A h \in 1 .. Len(t) - FinalityDepth : h <= a
    BY <1>1, <1>2
  <1> QED  BY <1>2, <1>3 DEF Keeps

\* The chains the invariant speaks of are chains.
LEMMA DepthTypes ==
    ASSUME StoreInv
    PROVE  /\ node.tip # NoChain => node.tip \in Block
           /\ db.tip # NoChain => db.tip \in Block /\ db = StoreOf(db.tip)
           /\ loop.stage = "saving" => loop.tip \in Block
           /\ fork.stage # "none" =>
                 /\ fork.base \in Block /\ fork.candidate \in Block
                 /\ fork.ancestor \in Block /\ Len(fork.ancestor) < Len(fork.candidate)
  <1>1. NodeOK(node) /\ StoreOK(db) /\ LoopOK(loop) /\ ForkOK(fork)
    BY StoreInvParts
  <1>2. fork.stage # "none" => fork # NoFork
    BY DEF NoFork
  <1> QED  BY <1>1, <1>2, BlocksType DEF NodeOK, StoreOK, LoopOK, ForkOK, Tips

\* What the property asks of a step.
KeepsDepth ==
    (node.tip # NoChain /\ loop'.stage # "starting")
        => (node'.tip # NoChain /\ Keeps(node'.tip, node.tip))

\* A node that moves to a chain that keeps the one it had.
LEMMA NodeMoves ==
    ASSUME StoreInv, DepthInv, UNCHANGED <<db, loop, resetting>>,
           fork' = fork \/ fork' = NoFork,
           node'.tip \in Block, node.tip # NoChain => Keeps(node'.tip, node.tip)
    PROVE  DepthInv' /\ KeepsDepth
  <1>1. /\ node.tip # NoChain => node.tip \in Block
        /\ db.tip # NoChain => db.tip \in Block
        /\ loop.stage = "saving" => loop.tip \in Block
        /\ fork.stage # "none" => fork.base \in Block
    BY DepthTypes
  <1>2. node'.tip # NoChain
    BY DEF Block
  <1>3. db.tip # NoChain => Keeps(node'.tip, db.tip)
    BY <1>1, KeepsOrder DEF DepthInv
  <1>4. loop.stage = "saving" => Keeps(node'.tip, loop.tip)
    BY <1>1, KeepsOrder DEF DepthInv
  <1>5. fork.stage # "none" => Keeps(node'.tip, fork.base)
    BY <1>1, KeepsOrder DEF DepthInv
  <1>6. NoFork.stage = "none"
    BY DEF NoFork
  <1> QED  BY <1>2, <1>3, <1>4, <1>5, <1>6 DEF DepthInv, KeepsDepth, PrefersFork, Keeps

\* A block on top of the tip, and the genesis of a bootstrap.
LEMMA GrowthKeepsDepth ==
    StoreInv /\ DepthInv /\ (Extend \/ Bootstrap) => DepthInv' /\ KeepsDepth
  <1> SUFFICES ASSUME StoreInv, DepthInv, Extend \/ Bootstrap
               PROVE  DepthInv' /\ KeepsDepth
    OBVIOUS
  <1>0. NodeOK(node) /\ (node.tip # NoChain => node.tip \in Block)
    BY StoreInvParts, DepthTypes
  <1>1. CASE Bootstrap
    <2>1. node'.tip \in Block /\ node.tip = NoChain
      BY <1>1, BootstrapKeeps DEF Bootstrap
    <2> QED  BY <1>1, <2>1, NodeMoves DEF Bootstrap
  <1>2. CASE Extend
    <2>1. node.tip \in Block /\ node.tip # NoChain /\ Len(node.tip) \in Nat
      BY <1>0, <1>2, ChainType DEF Extend
    <2>2. PICK b \in Branch : node'.tip = Append(node.tip, b)
      BY <1>2, ExtendKeeps
    <2>3. /\ node'.tip \in Block /\ Len(node'.tip) = Len(node.tip) + 1
          /\ \A i \in 1 .. Len(node.tip) : node'.tip[i] = node.tip[i]
      BY <2>1, <2>2 DEF Block
    <2>4. ASSUME NEW h \in 1 .. Len(node.tip) - FinalityDepth
          PROVE  At(node'.tip, h) = At(node.tip, h)
      <3>1. h \in 0 .. Len(node.tip) /\ h \in 0 .. Len(node'.tip)
        BY <2>1, <2>3
      <3>2. At(node'.tip, h) \in Block /\ Len(At(node'.tip, h)) = h
            /\ \A i \in 1 .. h : At(node'.tip, h)[i] = node'.tip[i]
        BY <2>3, <3>1, AtType
      <3>3. At(node.tip, h) \in Block /\ Len(At(node.tip, h)) = h
            /\ \A i \in 1 .. h : At(node.tip, h)[i] = node.tip[i]
        BY <2>1, <3>1, AtType
      <3>4. \A i \in 1 .. h : At(node'.tip, h)[i] = At(node.tip, h)[i]
        BY <2>1, <2>3, <3>1, <3>2, <3>3
      <3> QED  BY <3>1, <3>2, <3>3, <3>4 DEF Block
    <2>5. Keeps(node'.tip, node.tip)
      BY <2>1, <2>3, <2>4 DEF Keeps
    <2> QED  BY <1>2, <2>3, <2>5, NodeMoves DEF Extend
  <1> QED  BY <1>1, <1>2

\* A fork chosen in memory.
LEMMA ReorganizeKeepsDepth ==
    StoreInv /\ DepthInv /\ Reorganize => DepthInv' /\ KeepsDepth
  <1> SUFFICES ASSUME StoreInv, DepthInv, Reorganize
               PROVE  DepthInv' /\ KeepsDepth
    OBVIOUS
  <1>1. PICK a \in 0 .. Len(node.tip) - 1 :
           /\ a < Len(node'.tip) /\ At(node'.tip, a) = At(node.tip, a)
           /\ PrefersFork(node'.tip, node.tip, a)
    BY ReorganizeKeeps
  <1>2. /\ node.tip \in Block /\ Len(node.tip) \in Nat
        /\ node'.tip \in Block /\ Len(node'.tip) \in Nat
    BY ReorganizeKeeps, DepthTypes, ChainType DEF Reorganize
  <1>3. a \in Nat /\ a <= Len(node.tip) /\ a <= Len(node'.tip)
    BY <1>1, <1>2
  <1>4. \A h \in 1 .. Len(node.tip) - FinalityDepth :
           h <= a => At(node'.tip, h) = At(node.tip, h)
    BY <1>1, <1>2, <1>3, SharedBelow
  <1>5. Keeps(node'.tip, node.tip)
    BY <1>1, <1>2, <1>3, <1>4, PreferredKeeps
  <1> QED  BY <1>2, <1>5, NodeMoves DEF Reorganize

\* The import of a fork: its candidate was preferred to the node's chain, above
\* an ancestor on what that chain keeps.
LEMMA FinishForkKeepsDepth ==
    StoreInv /\ DepthInv /\ FinishFork => DepthInv' /\ KeepsDepth
  <1> SUFFICES ASSUME StoreInv, DepthInv, FinishFork
               PROVE  DepthInv' /\ KeepsDepth
    OBVIOUS
  <1> DEFINE c == fork.candidate
  <1>1. /\ fork.stage = "adopted" /\ fork.stage # "none" /\ fork # NoFork
        /\ fork' = NoFork /\ UNCHANGED <<db, loop, resetting>>
    BY DEF FinishFork, NoFork
  <1>2. /\ NodeOK(node) /\ node.tip \in Block /\ node.tip # NoChain
        /\ fork.base \in Block /\ fork.candidate \in Block /\ fork.ancestor \in Block
        /\ Len(fork.ancestor) < Len(fork.candidate)
        /\ Len(fork.ancestor) \in Nat /\ Len(fork.candidate) \in Nat /\ Len(fork.base) \in Nat
    BY <1>1, StoreInvParts, DepthTypes, ChainType DEF DepthInv
  <1>3. CASE node' = node
    BY <1>1, <1>2, <1>3, KeepsOrder, NodeMoves
  <1>4. CASE node.tip = fork.base /\ node'.tip = c /\ node'.tip \in Block
    <2>2. \A h \in 1 .. Len(fork.base) - FinalityDepth :
             h <= Len(fork.ancestor) => At(c, h) = At(fork.base, h)
      <3> SUFFICES ASSUME NEW h \in 1 .. Len(fork.base) - FinalityDepth,
                          h <= Len(fork.ancestor)
                   PROVE  At(c, h) = At(fork.base, h)
        OBVIOUS
      <3>1. At(fork.ancestor, h) = At(fork.base, h)
        BY <1>1 DEF DepthInv
      <3>2. At(c, Len(fork.ancestor)) = At(fork.ancestor, Len(fork.ancestor))
        BY <1>1, <1>2, AtTip DEF DepthInv
      <3>3. At(c, h) = At(fork.ancestor, h)
        <4>1. h \in 0 .. Len(fork.ancestor) /\ Len(fork.ancestor) <= Len(c)
          BY <1>2
        <4> HIDE DEF c
        <4> QED  BY <1>2, <3>2, <4>1, SharedBelow DEF c
      <3> QED  BY <3>1, <3>3
    <2>3. PrefersFork(c, fork.base, Len(fork.ancestor))
      BY <1>1 DEF DepthInv
    <2>4. Keeps(c, fork.base)
      BY <1>2, <2>2, <2>3, PreferredKeeps
    <2> QED  BY <1>1, <1>2, <1>4, <2>4, NodeMoves
  <1> QED  BY <1>3, <1>4, FinishForkKeeps

\* The validation of a fork takes its ancestor from a database that keeps what
\* the base of the fork keeps.
LEMMA ForkStepsKeepDepth ==
    StoreInv /\ DepthInv /\ (CloneForFork \/ OpenStore \/ LoadForkBase \/ ValidateFork)
        => DepthInv' /\ KeepsDepth
  <1> SUFFICES ASSUME StoreInv, DepthInv,
                      CloneForFork \/ OpenStore \/ LoadForkBase \/ ValidateFork
               PROVE  DepthInv' /\ KeepsDepth
    OBVIOUS
  <1>0. UNCHANGED <<node, db, loop, metrics, resetting>>
    BY DEF CloneForFork, OpenStore, LoadForkBase, ValidateFork
  <1>1. NoFork.stage = "none"
    BY DEF NoFork
  <1>2. KeepsDepth
    BY <1>0, DepthTypes, KeepsOrder DEF KeepsDepth
  <1>3. CASE fork' = NoFork
    BY <1>0, <1>1, <1>2, <1>3 DEF DepthInv, Keeps
  <1>4. CASE CloneForFork
    <2>0. PICK c \in Blocks : \E a \in 0 .. Len(c) - 1 :
             fork' = [stage |-> "cloned", base |-> node.tip,
                      candidate |-> c, ancestor |-> At(c, a)]
      BY <1>4 DEF CloneForFork
    <2>1. PICK a \in 0 .. Len(c) - 1 :
             fork' = [stage |-> "cloned", base |-> node.tip,
                      candidate |-> c, ancestor |-> At(c, a)]
      BY <2>0
    <2>2. c \in Block /\ Len(c) \in Nat /\ node.tip # NoChain /\ node.tip \in Block
      BY <1>4, BlocksType, ChainType, DepthTypes DEF CloneForFork
    <2>3. Len(At(c, a)) = a
      BY <2>2, AtType
    <2>4. Keeps(node.tip, node.tip)
      BY <2>2, KeepsOrder
    <2>5. fork'.stage = "cloned" /\ fork'.base = node.tip
          /\ At(fork'.candidate, Len(fork'.ancestor)) = fork'.ancestor
      BY <2>1, <2>3
    <2> QED  BY <1>0, <1>2, <2>2, <2>4, <2>5 DEF DepthInv, Keeps
  <1>5. CASE OpenStore /\ fork' # NoFork
    <2>1. /\ fork.stage = "cloned" /\ node.tip # NoChain /\ db.tip = node.tip
          /\ fork' = [fork EXCEPT !.stage = "opened"]
      BY <1>5 DEF OpenStore
    <2>2. fork'.stage = "opened" /\ fork'.base = fork.base
          /\ fork'.candidate = fork.candidate /\ fork'.ancestor = fork.ancestor
      BY <2>1, StoreInvParts DEF ForkOK, NoFork
    <2> QED  BY <1>0, <1>2, <2>1, <2>2 DEF DepthInv, Keeps
  <1>6. CASE LoadForkBase /\ fork' # NoFork
    <2>1. /\ fork.stage = "opened" /\ Indexed(db, fork.ancestor)
          /\ fork' = [fork EXCEPT !.stage = "based"]
      BY <1>6 DEF LoadForkBase
    <2>2. fork'.stage = "based" /\ fork'.base = fork.base
          /\ fork'.candidate = fork.candidate /\ fork'.ancestor = fork.ancestor
      BY <2>1, StoreInvParts DEF ForkOK, NoFork
    <2>3. /\ db.tip # NoChain /\ Keeps(db.tip, fork.base)
          /\ db.tip \in Block /\ db = StoreOf(db.tip)
          /\ fork.base \in Block /\ fork.ancestor \in Block
          /\ Len(db.tip) \in Nat /\ Len(fork.base) \in Nat /\ Len(fork.ancestor) \in Nat
      BY <2>1, DepthTypes, ChainType DEF DepthInv
    <2>4. Len(fork.ancestor) <= Len(db.tip) /\ At(db.tip, Len(fork.ancestor)) = fork.ancestor
      <3>1. db.index = [h \in 0 .. Len(db.tip) |-> At(db.tip, h)]
        BY <2>3 DEF StoreOf
      <3> QED  BY <2>1, <2>3, <3>1 DEF Indexed
    <2>5. ASSUME NEW h \in 1 .. Len(fork.base) - FinalityDepth, h <= Len(fork.ancestor)
          PROVE  At(fork.ancestor, h) = At(fork.base, h)
      <3>1. At(db.tip, h) = At(fork.base, h)
        BY <2>3 DEF Keeps
      <3>2. At(fork.ancestor, Len(fork.ancestor)) = fork.ancestor
        BY <2>3, AtTip
      <3>3. h \in 0 .. Len(fork.ancestor)
        BY <2>3, <2>5
      <3>4. At(fork.ancestor, h) = At(db.tip, h)
        BY <2>3, <2>4, <3>2, <3>3, SharedBelow
      <3> QED  BY <3>1, <3>4
    <2> QED  BY <1>0, <1>2, <2>1, <2>2, <2>5 DEF DepthInv, Keeps
  <1>7. CASE ValidateFork /\ fork' # NoFork
    <2>1. /\ fork.stage = "based" /\ fork' = [fork EXCEPT !.stage = "adopted"]
          /\ PrefersFork(fork.candidate, fork.base, Len(fork.ancestor))
      BY <1>7 DEF ValidateFork
    <2>2. fork'.stage = "adopted" /\ fork'.base = fork.base
          /\ fork'.candidate = fork.candidate /\ fork'.ancestor = fork.ancestor
      BY <2>1, StoreInvParts DEF ForkOK, NoFork
    <2> QED  BY <1>0, <1>2, <2>1, <2>2 DEF DepthInv, Keeps, PrefersFork
  <1> QED  BY <1>3, <1>4, <1>5, <1>6, <1>7

\* The loop snapshots the node's chain and saves it; nothing it does moves the node.
LEMMA LoopStepsKeepDepth ==
    StoreInv /\ DepthInv /\ LoopNext => DepthInv' /\ KeepsDepth
  <1> SUFFICES ASSUME StoreInv, DepthInv, LoopNext
               PROVE  DepthInv' /\ KeepsDepth
    OBVIOUS
  <1>0. node'.tip = node.tip /\ UNCHANGED <<fork, resetting>>
    <2>1. UNCHANGED <<fork, resetting>>
      BY DEF LoopNext, AlignHistory, AttachHistory, TakeSnapshot, SkipSave, CommitSave,
             FailSave, MarkPersisted
    <2>2. CASE CommitSave
      BY <2>1, <2>2 DEF CommitSave
    <2> QED  BY <2>1, <2>2, LoopStepsKeep DEF LoopNext
  <1>1. KeepsDepth
    BY <1>0, DepthTypes, KeepsOrder DEF KeepsDepth
  <1>2. CASE TakeSnapshot
    <2>1. /\ node.tip # NoChain /\ UNCHANGED <<node, db>>
          /\ loop' = [loop EXCEPT !.stage = "saving", !.tip = node.tip, !.first = node.first]
      BY <1>2 DEF TakeSnapshot
    <2>2. loop'.tip = node.tip
      BY <2>1, StoreInvParts DEF LoopOK
    <2>3. Keeps(node.tip, node.tip)
      BY <2>1, DepthTypes, KeepsOrder
    <2> QED  BY <1>0, <1>1, <2>1, <2>2, <2>3 DEF DepthInv, Keeps, PrefersFork
  <1>3. CASE CommitSave
    <2>1. /\ loop.stage = "saving" /\ node' = node /\ loop' = [loop EXCEPT !.stage = "committed"]
          /\ loop.tip \in Blocks /\ db' = StoreOf(loop.tip)
      BY <1>3, CommitSaveKeeps DEF CommitSave
    <2>2. db'.tip = loop.tip /\ loop.tip # NoChain /\ loop'.stage = "committed"
      BY <2>1, NoChainType, StoreInvParts DEF StoreOf, LoopOK
    <2>3. fork.stage = "opened" => Keeps(loop.tip, fork.base)
      <3> SUFFICES ASSUME fork.stage = "opened" PROVE Keeps(loop.tip, fork.base)
        OBVIOUS
      <3>1. /\ db.tip # NoChain /\ Keeps(db.tip, fork.base) /\ Keeps(loop.tip, db.tip)
            /\ db.tip \in Block /\ fork.base \in Block /\ loop.tip \in Block
        BY <2>1, DepthTypes DEF DepthInv
      <3> QED  BY <3>1, KeepsOrder
    <2> QED  BY <1>0, <1>1, <2>1, <2>2, <2>3 DEF DepthInv, Keeps, PrefersFork
  <1>4. CASE ~TakeSnapshot /\ ~CommitSave
    <2>1. UNCHANGED db
      BY <1>4 DEF LoopNext, AlignHistory, AttachHistory, SkipSave, FailSave, MarkPersisted
    <2>2. loop'.stage # "saving"
      <3>0. LoopOK(loop)
        BY StoreInvParts
      <3>1. CASE AlignHistory \/ AttachHistory
        BY <3>0, <3>1 DEF AlignHistory, AttachHistory, LoopOK
      <3>2. CASE SkipSave
        <4>1. PICK m : loop' = [Idle(loop) EXCEPT !.mode = m]
          BY <3>2 DEF SkipSave
        <4> QED  BY <3>0, <4>1 DEF Idle, LoopOK
      <3>3. CASE FailSave
        BY <3>0, <3>3 DEF FailSave, Idle, LoopOK
      <3>4. CASE MarkPersisted
        <4>1. PICK s, m : loop' = [Idle(loop) EXCEPT !.saved = s, !.mode = m]
          BY <3>4 DEF MarkPersisted
        <4> QED  BY <3>0, <4>1 DEF Idle, LoopOK
      <3> QED  BY <1>4, <3>1, <3>2, <3>3, <3>4 DEF LoopNext
    <2> QED  BY <1>0, <1>1, <2>1, <2>2 DEF DepthInv, Keeps, PrefersFork
  <1> QED  BY <1>2, <1>3, <1>4

\* A crash goes back to the database, and the other steps move nothing.
LEMMA OtherStepsKeepDepth ==
    ~MayReset /\ StoreInv /\ DepthInv
    /\ (Restart \/ StartLoop \/ ToggleMetrics \/ ResetNode \/ ClearStore \/ UNCHANGED vars)
        => DepthInv' /\ KeepsDepth
  <1> SUFFICES ASSUME ~MayReset, StoreInv, DepthInv,
                      Restart \/ StartLoop \/ ToggleMetrics \/ ResetNode \/ ClearStore
                      \/ UNCHANGED vars
               PROVE  DepthInv' /\ KeepsDepth
    OBVIOUS
  <1>1. CASE Restart
    <2>1. /\ node'.tip = db.tip /\ db' = db /\ fork' = NoFork /\ resetting' = FALSE
          /\ loop'.stage = "starting"
      BY <1>1 DEF Restart, LoadedNode, Starting
    <2>2. NoFork.stage = "none"
      BY DEF NoFork
    <2>3. db.tip # NoChain => Keeps(db.tip, db.tip)
      BY DepthTypes, KeepsOrder
    <2> QED  BY <2>1, <2>2, <2>3 DEF DepthInv, KeepsDepth, Keeps
  <1>2. CASE StartLoop
    <2>1. UNCHANGED <<db, fork, resetting>> /\ loop'.stage = "idle"
      BY <1>2, StoreInvParts DEF StartLoop, LoopOK
    <2>2. node'.tip = node.tip
      <3>1. NodeOK(node) /\ NodeOK([node EXCEPT !.bounded = TRUE])
            /\ [node EXCEPT !.bounded = TRUE].tip = node.tip
        BY StoreInvParts, NodeFlags DEF NodeOK, Tips
      <3> QED  BY <1>2, <3>1, PruneType DEF StartLoop
    <2>3. KeepsDepth
      BY <2>2, DepthTypes, KeepsOrder DEF KeepsDepth
    <2> QED  BY <2>1, <2>2, <2>3 DEF DepthInv, Keeps, PrefersFork
  <1>3. CASE ToggleMetrics \/ UNCHANGED vars
    <2>1. UNCHANGED <<node, db, loop, fork, resetting>>
      BY <1>3 DEF ToggleMetrics, vars
    <2>2. KeepsDepth
      BY <2>1, DepthTypes, KeepsOrder DEF KeepsDepth
    <2> QED  BY <2>1, <2>2 DEF DepthInv, Keeps, PrefersFork
  <1>4. ~ResetNode /\ ~ClearStore
    BY DEF ResetNode, ClearStore, DepthInv
  <1> QED  BY <1>1, <1>2, <1>3, <1>4

\* Every step keeps the invariant and the blocks below the finality depth.
LEMMA DepthStep ==
    ~MayReset /\ StoreInv /\ DepthInv /\ [Next]_vars => DepthInv' /\ KeepsDepth
  BY GrowthKeepsDepth, ReorganizeKeepsDepth, FinishForkKeepsDepth, ForkStepsKeepDepth,
     LoopStepsKeepDepth, OtherStepsKeepDepth DEF Next, ValidateForkNext

\* The first node and database.
LEMMA DepthInit == Init => DepthInv
  BY DEF Init, DepthInv, EmptyStore, Starting, NoFork

\* While nobody deletes the local chain, no fork, in memory or adopted on state from the
\* database, rewrites a block deeper than the finality depth, although the database is
\* saved to while a validation reads it (adopt_prevalidated_fork, current_chain_store).
THEOREM DepthRespectedHolds == ~MayReset => (Spec => DepthRespected)
  <1> SUFFICES ASSUME ~MayReset PROVE Spec => DepthRespected
    OBVIOUS
  <1>1. StoreInv /\ DepthInv /\ [Next]_vars => DepthInv'
    BY DepthStep
  <1>2. StoreInv /\ DepthInv /\ [Next]_vars =>
           [(/\ node.tip # NoChain /\ node'.tip # NoChain /\ loop'.stage # "starting")
             => \A h \in 1 .. Len(node.tip) - FinalityDepth :
                   At(node'.tip, h) = At(node.tip, h)]_vars
    BY DepthStep DEF KeepsDepth, Keeps
  <1> QED  BY <1>1, <1>2, DepthInit, StoreInvHolds, PTL DEF Spec, DepthRespected

-----------------------------------------------------------------------------
(* What is pruned can be read back.                                        *)

\* The heights a node pruned, and its persisted tip, are within a database.
WithinStore(n, d) ==
    /\ n.first > 1 => d.tip # NoChain /\ n.first - 1 <= Len(d.tip)
    /\ n.persisted # NoChain => d.tip # NoChain /\ Len(n.persisted) <= Len(d.tip)

\* The invariant, taken apart, in a state and after a step.
LEMMA WindowParts ==
    /\ WindowInv <=> /\ WithinStore(node, db)
                     /\ loop.stage = "committed" => loop.tip = db.tip
                     /\ fork.stage \in {"based", "adopted"} =>
                           db.tip # NoChain /\ Len(fork.ancestor) <= Len(db.tip)
    /\ WindowInv' <=> /\ WithinStore(node', db')
                      /\ loop'.stage = "committed" => loop'.tip = db'.tip
                      /\ fork'.stage \in {"based", "adopted"} =>
                            db'.tip # NoChain /\ Len(fork'.ancestor) <= Len(db'.tip)
  BY DEF WindowInv, WithinStore, Pruned

\* Lengths are naturals wherever the invariant speaks of them.
LEMMA WindowTypes ==
    ASSUME StoreInv
    PROVE  /\ node.first \in Nat \ {0}
           /\ node.tip # NoChain => Len(node.tip) \in Nat
           /\ node.persisted # NoChain => Len(node.persisted) \in Nat
           /\ db.tip # NoChain => Len(db.tip) \in Nat
           /\ loop.tip # NoChain => Len(loop.tip) \in Nat
           /\ fork.stage # "none" => Len(fork.ancestor) \in Nat
  <1>1. NodeOK(node) /\ StoreOK(db) /\ LoopOK(loop)
    BY StoreInvParts
  <1>2. \A t \in Tips : t # NoChain => Len(t) \in Nat
    BY BlocksType, ChainType DEF Tips
  <1>3. node.tip \in Tips /\ node.persisted \in Tips /\ db.tip \in Tips /\ loop.tip \in Tips
        /\ node.first \in 1 .. MaxHeight + 1
    BY <1>1 DEF NodeOK, StoreOK, LoopOK
  <1>4. fork.stage # "none" => Len(fork.ancestor) \in Nat
    BY DepthTypes, ChainType
  <1> QED  BY <1>2, <1>3, <1>4

\* Pruning drops no height above the persisted tip.
LEMMA PruneWithinStore ==
    ASSUME NEW n, NodeOK(n), NEW d, StoreOK(d), WithinStore(n, d)
    PROVE  WithinStore(PrunePersistedHistory(n), d)
  <1> DEFINE keep == Greater(Len(n.tip) - Len(n.persisted), ResidentBlocks)
             m == RetainRecent(n, keep)
  <1>1. CASE /\ n.bounded /\ n.persisted # NoChain /\ n.tip # NoChain
             /\ OnChain(n.persisted, n.tip) /\ Resident(n, Len(n.persisted))
    <2>1. PrunePersistedHistory(n) = m
      BY <1>1 DEF PrunePersistedHistory
    <2>2. /\ n.tip \in Block /\ n.persisted \in Block /\ d.tip \in Block /\ d.tip # NoChain
          /\ n.first \in Nat
      BY <1>1, BlocksType DEF NodeOK, Tips, StoreOK, WithinStore
    <2>3. Len(n.tip) \in Nat /\ Len(n.persisted) \in Nat /\ Len(d.tip) \in Nat
      BY <2>2, ChainType
    <2>4. keep \in Int /\ keep >= Len(n.tip) - Len(n.persisted)
      <3>1. Len(n.tip) - Len(n.persisted) \in Int /\ ResidentBlocks \in Int
        BY <2>3
      <3> QED  BY <3>1, GreaterType
    <2>5. m.persisted = n.persisted /\ m.first = Greater(n.first, Len(n.tip) - keep + 1)
      BY DEF RetainRecent, NodeOK
    <2>6. Len(n.tip) - keep + 1 <= Len(n.persisted) + 1
      <3> HIDE DEF keep
      <3> QED  BY <2>3, <2>4
    <2>7. m.first = n.first \/ m.first <= Len(n.persisted) + 1
      <3> HIDE DEF keep, m
      <3> QED  BY <2>5, <2>6 DEF Greater
    <2>8. m.first \in Int
      <3> HIDE DEF keep, m
      <3> QED  BY <2>2, <2>3, <2>4, <2>5 DEF Greater
    <2>9. WithinStore(m, d)
      <3> HIDE DEF keep, m
      <3> QED  BY <1>1, <2>2, <2>3, <2>5, <2>7, <2>8 DEF WithinStore
    <2> QED  BY <2>1, <2>9
  <1>2. CASE ~(/\ n.bounded /\ n.persisted # NoChain /\ n.tip # NoChain
               /\ OnChain(n.persisted, n.tip) /\ Resident(n, Len(n.persisted)))
    BY <1>2 DEF PrunePersistedHistory
  <1> QED  BY <1>1, <1>2

\* The chain grows, or is replaced by one in memory or by an adopted fork.
LEMMA MovesKeepWindow ==
    StoreInv /\ DepthInv /\ WindowInv /\ (Bootstrap \/ Extend \/ Reorganize \/ FinishFork)
        => WindowInv'
  <1> SUFFICES ASSUME StoreInv, DepthInv, WindowInv,
                      Bootstrap \/ Extend \/ Reorganize \/ FinishFork
               PROVE  WindowInv'
    OBVIOUS
  <1>0. /\ NodeOK(node) /\ StoreOK(db) /\ LoopOK(loop) /\ ForkOK(fork)
        /\ WithinStore(node, db) /\ UNCHANGED <<db, loop>>
        /\ fork' = fork \/ fork' = NoFork
    BY StoreInvParts, WindowParts DEF Bootstrap, Extend, Reorganize, FinishFork
  <1>1. NoFork.stage = "none"
    BY DEF NoFork
  <1>2. ASSUME NEW t \in Blocks, NEW f \in 1 .. MaxHeight + 1, f <= Greater(1, Len(t)),
               f > 1 => db.tip # NoChain /\ f - 1 <= Len(db.tip),
               node' = PrunePersistedHistory([node EXCEPT !.tip = t, !.first = f])
        PROVE  WithinStore(node', db)
    <2> DEFINE n == [node EXCEPT !.tip = t, !.first = f]
    <2>1. NodeOK(n)
      BY <1>0, <1>2, NodeChange
    <2>2. n.first = f /\ n.persisted = node.persisted
      BY <1>0 DEF NodeOK
    <2>3. WithinStore(n, db)
      BY <1>0, <1>2, <2>2 DEF WithinStore
    <2> QED  BY <1>0, <1>2, <2>1, <2>3, PruneWithinStore
  <1>3. CASE Bootstrap
    <2>1. <<>> \in Block /\ Len(<<>>) = 0
      BY DEF Block
    <2>2. <<>> \in Blocks /\ 1 \in 1 .. MaxHeight + 1 /\ 1 <= Greater(1, Len(<<>>))
      BY <2>1, BlocksType DEF Greater
    <2>3. /\ node' = PrunePersistedHistory([node EXCEPT !.tip = <<>>, !.first = 1])
          /\ ~(1 > 1)
      BY <1>3 DEF Bootstrap
    <2>4. WithinStore(node', db)
      BY <1>2, <2>2, <2>3
    <2> QED  BY <1>0, <1>1, <2>4, WindowParts
  <1>4. CASE Extend
    <2>1. PICK b \in Branch :
             node' = PrunePersistedHistory([node EXCEPT !.tip = Append(@, b)])
      BY <1>4 DEF Extend
    <2>2. node.tip \in Block /\ Len(node.tip) \in Nat /\ Len(node.tip) < MaxHeight
      BY <1>4, DepthTypes, ChainType DEF Extend
    <2> DEFINE t == Append(node.tip, b)
    <2>3. t \in Block /\ Len(t) = Len(node.tip) + 1
      BY <2>2 DEF Block
    <2>4. t \in Blocks
      <3> HIDE DEF t
      <3> QED  BY <2>2, <2>3, BlocksType
    <2>5. [node EXCEPT !.tip = Append(@, b)] = [node EXCEPT !.tip = t, !.first = node.first]
      BY <1>0 DEF NodeOK
    <2>6. node.first \in 1 .. MaxHeight + 1 /\ node.first <= Greater(1, Len(t))
      BY <1>0, <1>4, <2>2, <2>3 DEF NodeOK, Greater, Extend
    <2>7. node.first > 1 => db.tip # NoChain /\ node.first - 1 <= Len(db.tip)
      BY <1>0 DEF WithinStore
    <2>8. WithinStore(node', db)
      <3> HIDE DEF t
      <3> QED  BY <1>2, <2>1, <2>4, <2>5, <2>6, <2>7
    <2> QED  BY <1>0, <1>1, <2>8, WindowParts
  <1>5. CASE Reorganize
    <2>1. PICK c \in Blocks :
             node' = PrunePersistedHistory([node EXCEPT !.tip = c, !.first = 1])
      BY <1>5 DEF Reorganize
    <2>2. 1 \in 1 .. MaxHeight + 1 /\ 1 <= Greater(1, Len(c)) /\ ~(1 > 1)
      BY <2>1, BlocksType, ChainType DEF Greater
    <2>3. WithinStore(node', db)
      BY <1>2, <2>1, <2>2
    <2> QED  BY <1>0, <1>1, <2>3, WindowParts
  <1>6. CASE FinishFork
    <2> DEFINE f == Greater(1, Len(fork.ancestor) - ResidentBlocks + 1)
    <2>1. /\ fork.stage = "adopted" /\ fork.stage # "none" /\ fork # NoFork
          /\ db.tip # NoChain /\ Len(fork.ancestor) <= Len(db.tip)
          /\ fork.candidate \in Blocks /\ Len(fork.ancestor) < Len(fork.candidate)
      BY <1>0, <1>6, WindowParts DEF FinishFork, ForkOK, NoFork
    <2>2. /\ Len(fork.ancestor) \in Nat /\ Len(db.tip) \in Nat
          /\ Len(fork.candidate) \in Nat /\ Len(fork.candidate) <= MaxHeight
      BY <2>1, WindowTypes, BlocksType, ChainType
    <2>3. f \in 1 .. MaxHeight + 1 /\ f <= Greater(1, Len(fork.candidate))
          /\ f - 1 <= Len(db.tip)
      BY <2>1, <2>2 DEF Greater
    <2>4. node' = node
          \/ node' = PrunePersistedHistory([node EXCEPT !.tip = fork.candidate, !.first = f])
      BY <1>6 DEF FinishFork
    <2>5. WithinStore(node', db)
      <3> HIDE DEF f
      <3> QED  BY <1>0, <1>2, <2>1, <2>3, <2>4
    <2> QED  BY <1>0, <1>1, <2>5, WindowParts
  <1> QED  BY <1>3, <1>4, <1>5, <1>6

\* The ancestor of a fork is read from the database.
LEMMA ForkStepsKeepWindow ==
    StoreInv /\ DepthInv /\ WindowInv
    /\ (CloneForFork \/ OpenStore \/ LoadForkBase \/ ValidateFork) => WindowInv'
  <1> SUFFICES ASSUME StoreInv, DepthInv, WindowInv,
                      CloneForFork \/ OpenStore \/ LoadForkBase \/ ValidateFork
               PROVE  WindowInv'
    OBVIOUS
  <1>0. /\ UNCHANGED <<node, db, loop>> /\ ForkOK(fork)
        /\ WithinStore(node, db) /\ (loop.stage = "committed" => loop.tip = db.tip)
    BY StoreInvParts, WindowParts DEF CloneForFork, OpenStore, LoadForkBase, ValidateFork
  <1>1. CASE fork'.stage \notin {"based", "adopted"}
    BY <1>0, <1>1, WindowParts
  <1>2. CASE fork'.stage \in {"based", "adopted"} /\ LoadForkBase
    <2>1. /\ fork.stage = "opened" /\ Indexed(db, fork.ancestor)
          /\ fork' = [fork EXCEPT !.stage = "based"]
      BY <1>2 DEF LoadForkBase, NoFork
    <2>2. fork'.ancestor = fork.ancestor
      BY <1>0, <2>1 DEF ForkOK, NoFork
    <2>3. db.tip # NoChain /\ db = StoreOf(db.tip) /\ Len(db.tip) \in Nat
      BY <2>1, DepthTypes, ChainType DEF DepthInv
    <2>4. DOMAIN db.index = 0 .. Len(db.tip)
      <3>1. db.index = [h \in 0 .. Len(db.tip) |-> At(db.tip, h)]
        BY <2>3 DEF StoreOf
      <3> QED  BY <3>1
    <2>5. Len(fork.ancestor) <= Len(db.tip)
      BY <2>1, <2>3, <2>4 DEF Indexed
    <2> QED  BY <1>0, <2>2, <2>3, <2>5, WindowParts
  <1>3. CASE fork'.stage \in {"based", "adopted"} /\ ValidateFork
    <2>1. fork.stage = "based" /\ fork' = [fork EXCEPT !.stage = "adopted"]
      BY <1>3 DEF ValidateFork, NoFork
    <2>2. fork'.ancestor = fork.ancestor
      BY <1>0, <2>1 DEF ForkOK, NoFork
    <2> QED  BY <1>0, <2>1, <2>2, WindowParts
  <1>4. CASE fork'.stage \in {"based", "adopted"} /\ (CloneForFork \/ OpenStore)
    BY <1>0, <1>4 DEF CloneForFork, OpenStore, ForkOK, NoFork
  <1> QED  BY <1>1, <1>2, <1>3, <1>4

\* A commit replaces the stored chain by one at least as high; then the node learns of it.
LEMMA LoopStepsKeepWindow ==
    StoreInv /\ DepthInv /\ WindowInv /\ LoopNext => WindowInv'
  <1> SUFFICES ASSUME StoreInv, DepthInv, WindowInv, LoopNext
               PROVE  WindowInv'
    OBVIOUS
  <1>0. /\ NodeOK(node) /\ StoreOK(db) /\ LoopOK(loop) /\ WithinStore(node, db)
        /\ loop.stage = "committed" => loop.tip = db.tip
        /\ fork.stage \in {"based", "adopted"} =>
              db.tip # NoChain /\ Len(fork.ancestor) <= Len(db.tip)
    BY StoreInvParts, WindowParts
  <1>1. fork' = fork
    BY DEF LoopNext, AlignHistory, AttachHistory, TakeSnapshot, SkipSave, CommitSave,
           FailSave, MarkPersisted
  <1>2. CASE CommitSave
    <2>1. /\ loop.stage = "saving" /\ node' = node /\ loop' = [loop EXCEPT !.stage = "committed"]
          /\ loop.tip \in Blocks /\ db' = StoreOf(loop.tip)
      BY <1>2, CommitSaveKeeps DEF CommitSave
    <2>2. db'.tip = loop.tip /\ loop.tip # NoChain /\ loop'.tip = loop.tip
      BY <1>0, <2>1, NoChainType DEF StoreOf, LoopOK
    <2>3. db.tip # NoChain => Len(loop.tip) >= Len(db.tip)
      BY <2>1 DEF DepthInv, Keeps
    <2>4. WithinStore(node, db')
      BY <1>0, <2>2, <2>3, WindowTypes DEF WithinStore
    <2>5. fork.stage \in {"based", "adopted"} => Len(fork.ancestor) <= Len(loop.tip)
      BY <1>0, <2>2, <2>3, WindowTypes
    <2> QED  BY <1>1, <2>1, <2>2, <2>4, <2>5, WindowParts
  <1>3. CASE MarkPersisted
    <2>1. /\ loop.stage = "committed" /\ db' = db
          /\ node' = PrunePersistedHistory([node EXCEPT !.persisted = loop.tip])
      BY <1>3 DEF MarkPersisted
    <2>2. loop'.stage = "idle"
      <3>1. PICK s, m : loop' = [Idle(loop) EXCEPT !.saved = s, !.mode = m]
        BY <1>3 DEF MarkPersisted
      <3> QED  BY <1>0, <3>1 DEF Idle, LoopOK
    <2> DEFINE n == [node EXCEPT !.persisted = loop.tip]
    <2>3. NodeOK(n) /\ n.first = node.first /\ n.persisted = db.tip
      BY <1>0, <2>1, NodeFlags DEF NodeOK, LoopOK
    <2>4. WithinStore(n, db)
      BY <1>0, <2>3, WindowTypes DEF WithinStore
    <2>5. WithinStore(node', db)
      BY <1>0, <2>1, <2>3, <2>4, PruneWithinStore
    <2> QED  BY <1>0, <1>1, <2>1, <2>2, <2>5, WindowParts
  <1>4. CASE AlignHistory
    <2>1. db' = db /\ loop'.stage # "committed"
      BY <1>0, <1>4 DEF AlignHistory, LoopOK
    <2> DEFINE up == [node EXCEPT !.bounded = TRUE]
               down == [node EXCEPT !.bounded = FALSE]
    <2>2. /\ NodeOK(up) /\ WithinStore(up, db) /\ WithinStore(down, db)
      BY <1>0, NodeFlags DEF NodeOK, WithinStore, Tips
    <2>3. node' \in {node, down, PrunePersistedHistory(up)}
      BY <1>4 DEF AlignHistory
    <2>4. WithinStore(node', db)
      BY <1>0, <2>2, <2>3, PruneWithinStore
    <2> QED  BY <1>0, <1>1, <2>1, <2>4, WindowParts
  <1>5. CASE AttachHistory
    <2>1. db' = db /\ loop'.stage # "committed"
          /\ (node' = node \/ node' = [node EXCEPT !.first = 1])
      BY <1>0, <1>5 DEF AttachHistory, LoopOK
    <2>2. WithinStore(node', db)
      BY <1>0, <2>1 DEF WithinStore, NodeOK
    <2> QED  BY <1>0, <1>1, <2>1, <2>2, WindowParts
  <1>6. CASE TakeSnapshot \/ SkipSave \/ FailSave
    <2>1. UNCHANGED <<node, db>>
      BY <1>6 DEF TakeSnapshot, SkipSave, FailSave
    <2>2. loop'.stage # "committed"
      <3>1. CASE SkipSave
        <4>1. PICK m : loop' = [Idle(loop) EXCEPT !.mode = m]
          BY <3>1 DEF SkipSave
        <4> QED  BY <1>0, <4>1 DEF Idle, LoopOK
      <3>2. CASE TakeSnapshot \/ FailSave
        BY <1>0, <3>2 DEF TakeSnapshot, FailSave, Idle, LoopOK
      <3> QED  BY <1>6, <3>1, <3>2
    <2> QED  BY <1>0, <1>1, <2>1, <2>2, WindowParts
  <1> QED  BY <1>2, <1>3, <1>4, <1>5, <1>6 DEF LoopNext

\* A start loads from the database what it is to hold.
LEMMA OtherStepsKeepWindow ==
    ~MayReset /\ StoreInv /\ DepthInv /\ WindowInv
    /\ (Restart \/ StartLoop \/ ToggleMetrics \/ ResetNode \/ ClearStore \/ UNCHANGED vars)
        => WindowInv'
  <1> SUFFICES ASSUME ~MayReset, StoreInv, DepthInv, WindowInv,
                      Restart \/ StartLoop \/ ToggleMetrics \/ ResetNode \/ ClearStore
                      \/ UNCHANGED vars
               PROVE  WindowInv'
    OBVIOUS
  <1>0. /\ NodeOK(node) /\ StoreOK(db) /\ LoopOK(loop) /\ WithinStore(node, db)
    BY StoreInvParts, WindowParts
  <1>1. CASE Restart
    <2>1. PICK window \in {1} \cup (IF metrics \/ db.tip = NoChain THEN {}
                                    ELSE {Greater(1, Len(db.tip) - ResidentBlocks + 1)}) :
             node' = LoadedNode(window)
      BY <1>1 DEF Restart
    <2>2. /\ db' = db /\ fork'.stage = "none" /\ loop'.stage = "starting"
          /\ node'.first = window /\ node'.persisted = db.tip
      BY <1>1, <2>1 DEF Restart, LoadedNode, Starting, NoFork
    <2>3. window > 1 => db.tip # NoChain /\ window - 1 <= Len(db.tip)
      BY <2>1, WindowTypes DEF Greater
    <2>4. WithinStore(node', db)
      BY <2>2, <2>3, WindowTypes DEF WithinStore
    <2> QED  BY <2>2, <2>4, WindowParts
  <1>2. CASE StartLoop
    <2>1. UNCHANGED <<db, fork>> /\ loop'.stage = "idle"
      BY <1>0, <1>2 DEF StartLoop, LoopOK
    <2> DEFINE up == [node EXCEPT !.bounded = TRUE]
    <2>2. NodeOK(up) /\ WithinStore(up, db)
      BY <1>0, NodeFlags DEF NodeOK, WithinStore, Tips
    <2>3. WithinStore(node', db)
      BY <1>0, <1>2, <2>2, PruneWithinStore DEF StartLoop
    <2> QED  BY <2>1, <2>3, WindowParts
  <1>3. CASE ToggleMetrics \/ UNCHANGED vars
    <2>1. UNCHANGED <<node, db, loop, fork>>
      BY <1>3 DEF ToggleMetrics, vars
    <2> QED  BY <2>1, WindowParts
  <1>4. ~ResetNode /\ ~ClearStore
    BY DEF ResetNode, ClearStore, DepthInv
  <1> QED  BY <1>1, <1>2, <1>3, <1>4

\* Every step keeps the invariant.
LEMMA WindowStep ==
    ~MayReset /\ StoreInv /\ DepthInv /\ WindowInv /\ [Next]_vars => WindowInv'
  BY MovesKeepWindow, ForkStepsKeepWindow, LoopStepsKeepWindow, OtherStepsKeepWindow
     DEF Next, ValidateForkNext

\* The first node has pruned nothing.
LEMMA WindowInit == Init => WindowInv
  BY DEF Init, WindowInv, Pruned, Starting, NoFork

\* The invariant of the window, with those it rests on.
LEMMA WindowInvHolds == ~MayReset => (Spec => [](StoreInv /\ DepthInv /\ WindowInv))
  <1> SUFFICES ASSUME ~MayReset PROVE Spec => [](StoreInv /\ DepthInv /\ WindowInv)
    OBVIOUS
  <1>1. StoreInv /\ DepthInv /\ [Next]_vars => DepthInv'
    BY DepthStep
  <1>2. StoreInv /\ DepthInv /\ WindowInv /\ [Next]_vars => WindowInv'
    BY WindowStep
  <1> QED  BY <1>1, <1>2, DepthInit, WindowInit, StoreInvHolds, PTL DEF Spec

\* With forks, crashes, failing saves and changes of metrics mode in any order, a node
\* that pruned its memory has every height below its window in the database, and there
\* its own block unless it is within the finality depth of the stored tip
\* (prune_persisted_history).  Nobody deletes the chain.
THEOREM HistoryToDepthHolds == ~MayReset => (Spec => []HistoryToDepth)
  <1> SUFFICES ASSUME ~MayReset PROVE Spec => []HistoryToDepth
    OBVIOUS
  <1>1. StoreInv /\ DepthInv /\ WindowInv => HistoryToDepth
    <2> SUFFICES ASSUME StoreInv, DepthInv, WindowInv, Pruned(node)
                 PROVE  /\ db.tip # NoChain
                        /\ node.first - 1 <= Len(db.tip)
                        /\ \A h \in 1 .. node.first - 1 :
                              h <= Len(db.tip) - FinalityDepth => At(db.tip, h) = At(node.tip, h)
      BY DEF HistoryToDepth
    <2>1. db.tip # NoChain /\ node.first - 1 <= Len(db.tip) /\ Keeps(node.tip, db.tip)
      BY DEF WindowInv, DepthInv
    <2>2. Len(db.tip) \in Nat /\ node.first \in Nat
      BY <2>1, WindowTypes
    <2> QED  BY <2>1, <2>2 DEF Keeps
  <1> QED  BY <1>1, WindowInvHolds, PTL

\* On a chain that only grows, a block is dropped from memory only while the database
\* holds it, through crashes, failing saves and changes of metrics mode: there is no
\* fork for a node to leave its persisted branch on, as in the race of prune_race.
THEOREM HistoryRecoverableHolds ==
    ASSUME NEW b, Branch = {b}, ~MayReset
    PROVE  Spec => []HistoryRecoverable
  <1>1. StoreInv /\ DepthInv /\ WindowInv => HistoryRecoverable
    <2> SUFFICES ASSUME StoreInv, DepthInv, WindowInv, Pruned(node)
                 PROVE  /\ db.tip # NoChain
                        /\ node.first - 1 <= Len(db.tip)
                        /\ At(db.tip, node.first - 1) = At(node.tip, node.first - 1)
      BY DEF HistoryRecoverable
    <2> DEFINE h == node.first - 1
    <2>1. /\ db.tip # NoChain /\ h <= Len(db.tip)
          /\ node.tip # NoChain /\ Keeps(node.tip, db.tip)
      BY DEF WindowInv, DepthInv
    <2>2. /\ Len(db.tip) \in Nat /\ Len(node.tip) \in Nat /\ h \in Nat
          /\ db.tip \in Block /\ node.tip \in Block
      BY <2>1, WindowTypes, DepthTypes
    <2>3. h <= Len(node.tip)
      <3> HIDE DEF h
      <3> QED  BY <2>1, <2>2 DEF Keeps
    <2>4. /\ At(db.tip, h) \in Block /\ Len(At(db.tip, h)) = h
          /\ At(node.tip, h) \in Block /\ Len(At(node.tip, h)) = h
      <3> HIDE DEF h
      <3> QED  BY <2>1, <2>2, <2>3, AtType
    <2>5. At(db.tip, h) = At(node.tip, h)
      <3> HIDE DEF h
      <3> QED  BY <2>2, <2>4 DEF Block
    <2> QED  BY <2>1, <2>5
  <1> QED  BY <1>1, WindowInvHolds, PTL
=============================================================================
