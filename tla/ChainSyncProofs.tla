-------------------------- MODULE ChainSyncProofs ---------------------------
(***************************************************************************)
(* Proofs about ForkChoice and ChainSync for any set of nodes, chains of   *)
(* any length, and any activation height and finality depth.               *)
(***************************************************************************)
EXTENDS ChainSync, SequenceTheorems, WellFoundedInduction, TLAPS

-----------------------------------------------------------------------------
(* Blocks and hashes.                                                      *)

\* The fields of a block.
LEMMA BlockFields ==
    ASSUME NEW b \in Block
    PROVE  /\ b.hash \in Nat \ {0}
           /\ b.mode \in {Ticket, Recovery}
           /\ b.rank \in Nat
           /\ b.proof \in Nat
           /\ b.committee \in Nat
           /\ b.signatures \in Nat
           /\ b.txs \in SUBSET Tx
  BY DEF Block, BlockOf

\* The hash at a height of a chain is a natural, zero only at genesis.
LEMMA HashAtType ==
    ASSUME NEW chain \in Seq(Block), NEW h \in 0 .. Len(chain)
    PROVE  /\ HashAt(chain, h) \in Nat
           /\ HashAt(chain, h) = 0 <=> h = 0
  <1>1. CASE h = 0
    BY <1>1 DEF HashAt, GenesisHash
  <1>2. CASE h # 0
    <2>1. Len(chain) \in Nat
      BY LenProperties
    <2>2. h \in 1 .. Len(chain)
      BY <1>2, <2>1
    <2>3. chain[h] \in Block
      BY <2>2, ElementOfSeq
    <2> QED
      BY <1>2, <2>3, BlockFields DEF HashAt
  <1> QED
    BY <1>1, <1>2

\* The hash of the tip.
LEMMA TipHashType ==
    ASSUME NEW chain \in Seq(Block)
    PROVE  TipHash(chain) \in Nat
  <1>1. Len(chain) \in Nat /\ Len(chain) \in 0 .. Len(chain)
    BY LenProperties
  <1> QED
    BY <1>1, HashAtType DEF TipHash

-----------------------------------------------------------------------------
(* Checkpoints.                                                            *)

\* A nonempty set of heights of a chain has a highest element.
LEMMA HighestElement ==
    ASSUME NEW n \in Nat, NEW S, S \subseteq 0 .. n, S # {}
    PROVE  \E m \in S : \A k \in S : k <= m
  <1> DEFINE T == {d \in Nat : n - d \in S}
  <1>1. T \subseteq Nat
    OBVIOUS
  <1>2. T # {}
    <2>1. PICK s \in S : TRUE
      OBVIOUS
    <2>2. n - s \in Nat /\ n - (n - s) = s
      BY <2>1
    <2> QED
      BY <2>1, <2>2
  <1> DEFINE R == {ss \in Nat \X Nat : ss[1] < ss[2]}
  <1>3. IsWellFoundedOn(R, Nat)
    BY NatLessThanWellFounded DEF OpToRel
  <1>4. PICK d \in T : \A e \in T : ~(<<e, d>> \in R)
    <2> HIDE DEF R, T
    <2> QED
      BY <1>1, <1>2, <1>3, WFMin
  <1>5. \A e \in T : ~(e < d)
    BY <1>4
  <1>6. ASSUME NEW k \in S
        PROVE  k <= n - d
    <2>1. n - k \in Nat /\ n - (n - k) = k
      OBVIOUS
    <2>2. n - k \in T
      BY <2>1
    <2> QED
      BY <1>5, <2>1, <2>2
  <1> QED
    BY <1>4, <1>6

\* cp is old and no block above base certifies its parent, or it is the parent
\* of the last one that does.
LastCertificate(chain, base, old, cp) ==
    \/ /\ \A h \in base + 1 .. Len(chain) : ~BlockCertifiesParent(chain[h], h)
       /\ cp = old
    \/ \E h \in base + 1 .. Len(chain) :
          /\ BlockCertifiesParent(chain[h], h)
          /\ \A k \in h + 1 .. Len(chain) : ~BlockCertifiesParent(chain[k], k)
          /\ cp = [height |-> h - 1, hash |-> HashAt(chain, h - 1)]

\* CheckpointAfter returns the last certificate above base.
LEMMA CheckpointAfterIs ==
    ASSUME NEW chain \in Seq(Block), NEW base \in Nat, NEW old
    PROVE  LastCertificate(chain, base, old, CheckpointAfter(chain, base, old))
  <1> DEFINE S == CertifyingHeights(chain, base + 1)
  <1>0. Len(chain) \in Nat
    BY LenProperties
  <1>1. CASE S = {}
    BY <1>1 DEF CertifyingHeights, CheckpointAfter, LastCertificate
  <1>2. CASE S # {}
    <2>1. S \subseteq 0 .. Len(chain)
      BY <1>0 DEF CertifyingHeights
    <2>2. \E m \in S : \A k \in S : k <= m
      BY <1>0, <1>2, <2>1, HighestElement
    <2> DEFINE last == CHOOSE h \in S : \A k \in S : k <= h
    <2>3. last \in S /\ \A k \in S : k <= last
      BY <2>2
    <2>4. CheckpointAfter(chain, base, old) =
             [height |-> last - 1, hash |-> HashAt(chain, last - 1)]
      BY <1>2 DEF CheckpointAfter
    <2>5. last \in base + 1 .. Len(chain) /\ BlockCertifiesParent(chain[last], last)
      BY <2>3 DEF CertifyingHeights
    <2> HIDE DEF last
    <2>6. \A k \in last + 1 .. Len(chain) : ~BlockCertifiesParent(chain[k], k)
      BY <1>0, <2>3, <2>5 DEF CertifyingHeights
    <2> QED
      BY <2>4, <2>5, <2>6 DEF LastCertificate
  <1> QED
    BY <1>1, <1>2

\* A checkpoint is a height and a hash.
LEMMA CheckpointAfterType ==
    ASSUME NEW chain \in Seq(Block), NEW base \in Nat, NEW old \in Checkpoints
    PROVE  CheckpointAfter(chain, base, old) \in Checkpoints
  <1>0. Len(chain) \in Nat
    BY LenProperties
  <1>1. ASSUME NEW h \in base + 1 .. Len(chain)
        PROVE  [height |-> h - 1, hash |-> HashAt(chain, h - 1)] \in Checkpoints
    <2>1. h - 1 \in 0 .. Len(chain) /\ h - 1 \in Nat
      BY <1>0
    <2>2. HashAt(chain, h - 1) \in Nat
      BY <2>1, HashAtType
    <2> QED
      BY <2>1, <2>2 DEF Checkpoints
  <1> QED
    BY <1>1, CheckpointAfterIs DEF LastCertificate

\* The checkpoint of a ledger that replays a chain from genesis.
Replay(chain) == CheckpointAfter(chain, 0, NoCheckpoint)

\* Heights and blocks of a chain that another one extends.
LEMMA Extension ==
    ASSUME NEW c \in Seq(Block), NEW b \in Seq(Block)
    PROVE  /\ c \o b \in Seq(Block)
           /\ Len(c \o b) = Len(c) + Len(b)
           /\ Len(c) \in Nat /\ Len(b) \in Nat
           /\ \A h \in 1 .. Len(c) : (c \o b)[h] = c[h]
           /\ \A h \in 0 .. Len(c) : HashAt(c \o b, h) = HashAt(c, h)
  <1>1. Len(c) \in Nat /\ Len(b) \in Nat
    BY LenProperties
  <1>2. \A h \in 1 .. Len(c) : (c \o b)[h] = c[h]
    BY <1>1, ConcatProperties
  <1>3. \A h \in 0 .. Len(c) : HashAt(c \o b, h) = HashAt(c, h)
    BY <1>1, <1>2 DEF HashAt
  <1> QED
    BY <1>1, <1>2, <1>3, ConcatProperties

\* Applying more blocks to a replayed ledger and replaying the longer chain
\* give the same checkpoint.
LEMMA ReplayExtends ==
    ASSUME NEW c \in Seq(Block), NEW b \in Seq(Block)
    PROVE  CheckpointAfter(c \o b, Len(c), Replay(c)) = Replay(c \o b)
  <1> DEFINE d == c \o b
             old == Replay(c)
             Cert(chain, h) == BlockCertifiesParent(chain[h], h)
             At(chain, h) == [height |-> h - 1, hash |-> HashAt(chain, h - 1)]
  <1>0. /\ d \in Seq(Block) /\ Len(c) \in Nat /\ Len(b) \in Nat
        /\ Len(d) = Len(c) + Len(b)
        /\ \A h \in 1 .. Len(c) : d[h] = c[h]
        /\ \A h \in 0 .. Len(c) : HashAt(d, h) = HashAt(c, h)
    BY Extension
  <1> SUFFICES CheckpointAfter(d, Len(c), old) = Replay(d)
    OBVIOUS
  <1> HIDE DEF d, old
  <1>1. LastCertificate(c, 0, NoCheckpoint, old)
    BY CheckpointAfterIs DEF old, Replay
  <1>2. LastCertificate(d, 0, NoCheckpoint, Replay(d))
    BY <1>0, CheckpointAfterIs DEF Replay
  <1>3. LastCertificate(d, Len(c), old, CheckpointAfter(d, Len(c), old))
    BY <1>0, CheckpointAfterIs
  <1>4. \A h \in 1 .. Len(c) : Cert(d, h) <=> Cert(c, h)
    BY <1>0
  <1>5. \A h \in 1 .. Len(c) : At(d, h) = At(c, h)
    BY <1>0
  <1>6. \A g, h \in 1 .. Len(d) :
           (/\ Cert(d, g) /\ \A k \in g + 1 .. Len(d) : ~Cert(d, k)
            /\ Cert(d, h) /\ \A k \in h + 1 .. Len(d) : ~Cert(d, k)) => g = h
    BY <1>0
  <1>7. CASE \A h \in Len(c) + 1 .. Len(d) : ~Cert(d, h)
    <2>1. CheckpointAfter(d, Len(c), old) = old
      BY <1>0, <1>3, <1>7 DEF LastCertificate
    <2>2. CASE \A h \in 1 .. Len(c) : ~Cert(c, h)
      <3>1. old = NoCheckpoint
        BY <1>0, <1>1, <2>2 DEF LastCertificate
      <3>2. \A h \in 1 .. Len(d) : ~Cert(d, h)
        BY <1>0, <1>4, <1>7, <2>2
      <3>3. Replay(d) = NoCheckpoint
        BY <1>0, <1>2, <3>2 DEF LastCertificate
      <3> QED
        BY <2>1, <3>1, <3>3
    <2>3. ASSUME NEW h \in 1 .. Len(c), Cert(c, h),
                 \A k \in h + 1 .. Len(c) : ~Cert(c, k), old = At(c, h)
          PROVE  CheckpointAfter(d, Len(c), old) = Replay(d)
      <3>1. Cert(d, h) /\ \A k \in h + 1 .. Len(d) : ~Cert(d, k)
        BY <1>0, <1>4, <1>7, <2>3
      <3>2. PICK g \in 1 .. Len(d) :
               /\ Cert(d, g) /\ \A k \in g + 1 .. Len(d) : ~Cert(d, k)
               /\ Replay(d) = At(d, g)
        BY <1>0, <1>2, <3>1 DEF LastCertificate
      <3>3. g = h
        BY <1>0, <1>6, <3>1, <3>2
      <3> QED
        BY <1>5, <2>1, <2>3, <3>2, <3>3
    <2> QED
      BY <1>1, <2>2, <2>3 DEF LastCertificate
  <1>8. ASSUME NEW h \in Len(c) + 1 .. Len(d), Cert(d, h),
               \A k \in h + 1 .. Len(d) : ~Cert(d, k),
               CheckpointAfter(d, Len(c), old) = At(d, h)
        PROVE  CheckpointAfter(d, Len(c), old) = Replay(d)
    <2>1. h \in 1 .. Len(d)
      BY <1>0
    <2>2. PICK g \in 1 .. Len(d) :
             /\ Cert(d, g) /\ \A k \in g + 1 .. Len(d) : ~Cert(d, k)
             /\ Replay(d) = At(d, g)
      BY <1>0, <1>2, <1>8, <2>1 DEF LastCertificate
    <2> QED
      BY <1>0, <1>6, <1>8, <2>1, <2>2
  <1> QED
    BY <1>3, <1>7, <1>8 DEF LastCertificate

\* A replayed checkpoint is NoCheckpoint or names a block of the chain, at or
\* above the activation height and below the tip.
LEMMA ReplayOnChain ==
    ASSUME NEW c \in Seq(Block), Replay(c) # NoCheckpoint
    PROVE  /\ Replay(c).height \in ActivationHeight .. Len(c) - 1
           /\ Replay(c).hash = HashAt(c, Replay(c).height)
  <1>0. Len(c) \in Nat
    BY LenProperties
  <1>1. PICK h \in 0 + 1 .. Len(c) :
           /\ BlockCertifiesParent(c[h], h)
           /\ Replay(c) = [height |-> h - 1, hash |-> HashAt(c, h - 1)]
    BY CheckpointAfterIs DEF Replay, LastCertificate
  <1>2. h > ActivationHeight
    BY <1>1 DEF BlockCertifiesParent
  <1> QED
    BY <1>0, <1>1, <1>2, ForkChoiceAssumption

-----------------------------------------------------------------------------
(* Ledgers.                                                                *)

\* Applying blocks to a ledger gives a ledger.
LEMMA ApplyType ==
    ASSUME NEW l \in LedgerSet, NEW b \in Seq(Block)
    PROVE  /\ Apply(l, b) \in LedgerSet
           /\ Apply(l, b).chain = l.chain \o b
           /\ Apply(l, b).checkpoint =
                 CheckpointAfter(l.chain \o b, Len(l.chain), l.checkpoint)
  <1>1. /\ l.chain \in Seq(Block)
        /\ l.checkpoint \in Checkpoints
        /\ l.pending \in SUBSET Tx
    BY DEF LedgerSet
  <1>2. l.chain \o b \in Seq(Block) /\ Len(l.chain) \in Nat
    BY <1>1, Extension
  <1>3. CheckpointAfter(l.chain \o b, Len(l.chain), l.checkpoint) \in Checkpoints
    BY <1>1, <1>2, CheckpointAfterType
  <1> QED
    BY <1>1, <1>2, <1>3 DEF Apply, LedgerSet

\* The ledger of a node that starts from genesis.
LEMMA GenesisLedgerType ==
    GenesisLedger \in LedgerSet
  BY EmptySeq DEF GenesisLedger, LedgerSet, NoCheckpoint, Checkpoints, GenesisHash

\* A replay holds the replayed chain and its checkpoint.
LEMMA FromSnapshotIs ==
    ASSUME NEW c \in Seq(Block)
    PROVE  /\ FromSnapshot(c) \in LedgerSet
           /\ FromSnapshot(c).chain = c
           /\ FromSnapshot(c).checkpoint = Replay(c)
  <1>1. GenesisLedger.chain = <<>> /\ GenesisLedger.checkpoint = NoCheckpoint
    BY DEF GenesisLedger
  <1>2. <<>> \o c = c /\ Len(<<>>) = 0
    BY ConcatEmptySeq, EmptySeq
  <1>3. /\ Apply(GenesisLedger, c) \in LedgerSet
        /\ Apply(GenesisLedger, c).chain = GenesisLedger.chain \o c
        /\ Apply(GenesisLedger, c).checkpoint =
              CheckpointAfter(GenesisLedger.chain \o c, Len(GenesisLedger.chain),
                              GenesisLedger.checkpoint)
    BY ApplyType, GenesisLedgerType
  <1> QED
    BY <1>1, <1>2, <1>3 DEF FromSnapshot, Replay

\* What a ledger becomes when it switches to a better chain.
LEMMA ReplaceType ==
    ASSUME NEW l \in LedgerSet, NEW cand \in LedgerSet, NEW a \in Nat
    PROVE  /\ ReplaceWithBetterChain(l, cand, a) \in LedgerSet
           /\ ReplaceWithBetterChain(l, cand, a).chain = cand.chain
           /\ ReplaceWithBetterChain(l, cand, a).checkpoint = cand.checkpoint
  <1>1. l.chain \in Seq(Block) /\ l.pending \in SUBSET Tx
    BY DEF LedgerSet
  <1>2. Len(l.chain) \in Nat
    BY <1>1, LenProperties
  <1>3. MinedIn(l.chain, a + 1) \in SUBSET Tx
    <2>1. \A h \in a + 1 .. Len(l.chain) : l.chain[h] \in Block
      BY <1>1, <1>2, ElementOfSeq
    <2>2. \A h \in a + 1 .. Len(l.chain) : l.chain[h].txs \in SUBSET Tx
      BY <2>1, BlockFields
    <2> QED
      BY <2>2 DEF MinedIn
  <1> QED
    BY <1>1, <1>3 DEF ReplaceWithBetterChain, LedgerSet

-----------------------------------------------------------------------------
(* Two announced chains that share a block share everything below it.      *)

\* Chains that agree on the block at a height agree up to it, and the upper
\* part of one put on the lower part of the other is the one.
LEMMA SpliceIsChain ==
    ASSUME WireClosed, HashesIdentify, wire \subseteq Seq(Block),
           NEW c \in wire, NEW d \in wire,
           NEW a \in 0 .. Len(c), SameBlockAt(c, d, a), a <= Len(d)
    PROVE  /\ SubSeq(c, 1, a) = SubSeq(d, 1, a)
           /\ \A h \in 1 .. a : c[h] = d[h]
           /\ SubSeq(c, 1, a) \o SubSeq(d, a + 1, Len(d)) = d
           /\ SubSeq(d, a + 1, Len(d)) \in Seq(Block)
  <1>1. /\ c \in Seq(Block) /\ d \in Seq(Block)
        /\ Len(c) \in Nat /\ Len(d) \in Nat /\ a \in 0 .. Len(d) /\ a \in Int
    BY LenProperties
  <1>2. ASSUME NEW e \in Seq(Block), a <= Len(e)
        PROVE  /\ SubSeq(e, 1, a) \in Seq(Block)
               /\ Len(SubSeq(e, 1, a)) = a
               /\ \A h \in 1 .. a : SubSeq(e, 1, a)[h] = e[h]
               /\ TipHash(SubSeq(e, 1, a)) = HashAt(e, a)
    <2>0. Len(e) \in Nat
      BY LenProperties
    <2>1. \A i \in 1 .. a : e[i] \in Block
      BY <1>1, <1>2, <2>0, ElementOfSeq
    <2>2. /\ SubSeq(e, 1, a) \in Seq(Block)
          /\ Len(SubSeq(e, 1, a)) = IF 1 <= a THEN a - 1 + 1 ELSE 0
          /\ \A i \in 1 .. a - 1 + 1 : SubSeq(e, 1, a)[i] = e[1 + i - 1]
      BY <1>1, <2>1, SubSeqProperties
    <2>3. /\ Len(SubSeq(e, 1, a)) = a
          /\ \A h \in 1 .. a : SubSeq(e, 1, a)[h] = e[h]
      BY <1>1, <2>2
    <2> QED
      BY <1>1, <2>2, <2>3 DEF TipHash, HashAt
  <1>3. SubSeq(c, 1, a) \in wire /\ SubSeq(d, 1, a) \in wire
    BY <1>1 DEF WireClosed
  <1>4. HashAt(c, a) = HashAt(d, a)
    BY <1>1 DEF SameBlockAt, HashAt
  <1>5. SubSeq(c, 1, a) = SubSeq(d, 1, a)
    <2>1. /\ TipHash(SubSeq(c, 1, a)) = HashAt(c, a)
          /\ TipHash(SubSeq(d, 1, a)) = HashAt(d, a)
      BY <1>1, <1>2
    <2> QED
      BY <1>3, <1>4, <2>1 DEF HashesIdentify
  <1>6. \A h \in 1 .. a : c[h] = d[h]
    BY <1>1, <1>2, <1>5
  <1>7. SubSeq(d, 1, a) \o SubSeq(d, a + 1, Len(d)) = SubSeq(d, 1, Len(d))
    <2>1. 1 \in 1 .. Len(d) + 1 /\ a \in 1 - 1 .. Len(d) /\ Len(d) \in a .. Len(d)
      BY <1>1
    <2> QED
      BY <1>1, <2>1, ConcatAdjacentSubSeq
  <1>8. SubSeq(d, 1, Len(d)) = d
    BY <1>1, SubSeqFull
  <1>9. SubSeq(d, a + 1, Len(d)) \in Seq(Block)
    <2>1. \A i \in a + 1 .. Len(d) : d[i] \in Block
      BY <1>1, ElementOfSeq
    <2> QED
      BY <1>1, <2>1, SubSeqProperties
  <1> QED
    BY <1>5, <1>6, <1>7, <1>8, <1>9

-----------------------------------------------------------------------------
(* Fork choice.                                                            *)

\* The comparison of leader scores does not depend on how much of the common
\* prefix it looks at.
LEMMA QualityFromGenesis ==
    ASSUME NEW c \in Seq(Block), NEW d \in Seq(Block), NEW a \in Nat,
           \A h \in 1 .. a : c[h] = d[h],
           ForkQualityBetter(c, d, a)
    PROVE  ForkQualityBetter(c, d, 0)
  <1>0. Len(c) \in Nat /\ Len(d) \in Nat
    BY LenProperties
  <1>1. Lesser(Len(d), Len(c)) \in Nat
    BY <1>0 DEF Lesser
  <1>2. PICK h \in a + 1 .. Lesser(Len(d), Len(c)) :
           /\ ScoreLess(LeaderScore(c[h]), LeaderScore(d[h]))
           /\ \A k \in a + 1 .. h - 1 : LeaderScore(c[k]) = LeaderScore(d[k])
    BY DEF ForkQualityBetter
  <1>3. h \in 0 + 1 .. Lesser(Len(d), Len(c))
    BY <1>1, <1>2
  <1>4. ASSUME NEW k \in 0 + 1 .. h - 1
        PROVE  LeaderScore(c[k]) = LeaderScore(d[k])
    <2>1. CASE k <= a
      BY <1>4, <2>1
    <2>2. CASE k > a
      BY <1>2, <1>4, <2>2
    <2> QED
      BY <2>1, <2>2
  <1> QED
    BY <1>2, <1>3, <1>4 DEF ForkQualityBetter

\* The buried part of a chain is part of it.
LEMMA BuriedHeightType ==
    ASSUME NEW c \in Seq(Block)
    PROVE  /\ BuriedHeight(c) \in Nat
           /\ BuriedHeight(c) <= Len(c)
           /\ Len(c) < ActivationHeight =>
                 BuriedHeight(c) = SaturatingSub(Len(c), FinalityDepth)
           /\ Len(c) >= ActivationHeight => BuriedHeight(c) = ActivationHeight - 1
  BY LenProperties, ForkChoiceAssumption DEF BuriedHeight, SaturatingSub

\* A chain that shares enough blocks with another keeps what it buried.
LEMMA KeepsSharedPrefix ==
    ASSUME NEW c \in Seq(Block), NEW d \in Seq(Block), NEW a \in Nat,
           a <= Len(d), \A h \in 1 .. a : c[h] = d[h], BuriedHeight(c) <= a
    PROVE  KeepsBuried(c, d)
  <1>1. BuriedHeight(c) \in Nat /\ Len(d) \in Nat
    BY BuriedHeightType, LenProperties
  <1> QED
    BY <1>1 DEF KeepsBuried

\* An extension of a replayed ledger is a replayed ledger on a better chain.
LEMMA ExtensionBetter ==
    ASSUME NEW l \in LedgerSet, l.checkpoint = Replay(l.chain),
           NEW b \in Seq(Block), Len(b) > 0
    PROVE  /\ Apply(l, b).checkpoint = Replay(l.chain \o b)
           /\ ChainBetter(Apply(l, b), l)
           /\ KeepsBuried(l.chain, l.chain \o b)
  <1> DEFINE c == l.chain
             new == Apply(l, b)
  <1>1. c \in Seq(Block) /\ l.checkpoint \in Checkpoints
    BY DEF LedgerSet
  <1>2. /\ c \o b \in Seq(Block)
        /\ Len(c \o b) = Len(c) + Len(b)
        /\ Len(c) \in Nat /\ Len(b) \in Nat
        /\ \A h \in 1 .. Len(c) : (c \o b)[h] = c[h]
    BY <1>1, Extension
  <1>3. /\ new.chain = c \o b
        /\ new.checkpoint = CheckpointAfter(c \o b, Len(c), l.checkpoint)
    BY ApplyType
  <1>4. new.checkpoint = Replay(c \o b)
    BY <1>1, <1>3, ReplayExtends
  <1>5. LastCertificate(c \o b, Len(c), l.checkpoint, new.checkpoint)
    BY <1>2, <1>3, CheckpointAfterIs
  <1>6. ChainBetter(new, l)
    <2> HIDE DEF new
    <2>1. CASE new.checkpoint = l.checkpoint
      BY <1>2, <1>3, <2>1 DEF ChainBetter
    <2>2. CASE new.checkpoint # l.checkpoint
      <3>1. PICK h \in Len(c) + 1 .. Len(c \o b) :
               /\ BlockCertifiesParent((c \o b)[h], h)
               /\ new.checkpoint = [height |-> h - 1, hash |-> HashAt(c \o b, h - 1)]
        BY <1>5, <2>2 DEF LastCertificate
      <3>2. new.checkpoint.height = h - 1 /\ h > ActivationHeight
        BY <3>1 DEF BlockCertifiesParent
      <3>3. CASE l.checkpoint = NoCheckpoint
        BY <1>2, <3>2, <3>3, ForkChoiceAssumption
        DEF ChainBetter, CheckpointBetter, NoCheckpoint
      <3>4. CASE l.checkpoint # NoCheckpoint
        <4>1. l.checkpoint.height \in ActivationHeight .. Len(c) - 1
          BY <1>1, <3>4, ReplayOnChain
        <4>2. new.checkpoint.height > l.checkpoint.height
          BY <1>2, <3>1, <3>2, <4>1, ForkChoiceAssumption
        <4> QED
          BY <4>2 DEF ChainBetter, CheckpointBetter
      <3> QED
        BY <3>3, <3>4
    <2> QED
      BY <2>1, <2>2
  <1>8. KeepsBuried(c, c \o b)
    <2>1. BuriedHeight(c) <= Len(c)
      BY <1>1, BuriedHeightType
    <2>2. Len(c) <= Len(c \o b) /\ \A h \in 1 .. Len(c) : c[h] = (c \o b)[h]
      BY <1>2
    <2> QED
      BY <1>1, <1>2, <2>1, <2>2, KeepsSharedPrefix
  <1> QED
    BY <1>4, <1>6, <1>8

\* A replayed chain fork choice switches to is better than the local one and
\* keeps its buried blocks.
LEMMA SwitchBetter ==
    ASSUME NEW l \in LedgerSet, l.checkpoint = Replay(l.chain),
           NEW r \in LedgerSet, r.checkpoint = Replay(r.chain),
           NEW a \in Nat, a <= Len(l.chain), a <= Len(r.chain),
           \A h \in 1 .. a : l.chain[h] = r.chain[h],
           SwitchToCandidate(l, r, a)
    PROVE  /\ ChainBetter(r, l)
           /\ KeepsBuried(l.chain, r.chain)
  <1>1. /\ l.chain \in Seq(Block) /\ r.chain \in Seq(Block)
        /\ Len(l.chain) \in Nat /\ Len(r.chain) \in Nat
    BY LenProperties DEF LedgerSet
  <1>2. ASSUME LongerOrBetterLed(l, r, a), r.checkpoint = l.checkpoint
        PROVE  ChainBetter(r, l)
    <2>1. CASE Len(r.chain) > Len(l.chain)
      BY <1>2, <2>1 DEF ChainBetter
    <2>2. CASE /\ Len(r.chain) = Len(l.chain)
               /\ ForkQualityBetter(r.chain, l.chain, a)
      <3>1. ForkQualityBetter(r.chain, l.chain, 0)
        BY <1>1, <2>2, QualityFromGenesis
      <3> QED
        BY <1>2, <2>2, <3>1 DEF ChainBetter
    <2> QED
      BY <1>2, <2>1, <2>2 DEF LongerOrBetterLed
  <1>3. CASE a + 1 < ActivationHeight
    <2>1. /\ Len(l.chain) < ActivationHeight
          /\ ~ForkRewritesFinalizedHistory(Len(l.chain), a)
          /\ LongerOrBetterLed(l, r, a)
      BY <1>3 DEF SwitchToCandidate
    <2>2. l.checkpoint = NoCheckpoint
      <3> SUFFICES ASSUME l.checkpoint # NoCheckpoint
                   PROVE  FALSE
        OBVIOUS
      <3>1. l.checkpoint.height \in ActivationHeight .. Len(l.chain) - 1
        BY <1>1, ReplayOnChain
      <3> QED
        BY <1>1, <2>1, <3>1, ForkChoiceAssumption
    <2>3. ChainBetter(r, l)
      <3>1. CASE r.checkpoint = NoCheckpoint
        BY <1>2, <2>1, <2>2, <3>1
      <3>2. CASE r.checkpoint # NoCheckpoint
        <4>1. r.checkpoint.height \in ActivationHeight .. Len(r.chain) - 1
          BY <1>1, <3>2, ReplayOnChain
        <4> QED
          BY <1>1, <2>2, <4>1, ForkChoiceAssumption
          DEF ChainBetter, CheckpointBetter, NoCheckpoint
      <3> QED
        BY <3>1, <3>2
    <2>4. BuriedHeight(l.chain) <= a
      BY <1>1, <2>1, BuriedHeightType, ForkChoiceAssumption
      DEF ForkRewritesFinalizedHistory, SaturatingSub
    <2> QED
      BY <1>1, <2>3, <2>4, KeepsSharedPrefix
  <1>4. CASE ~(a + 1 < ActivationHeight)
    <2>1. \/ CheckpointBetter(r.checkpoint, l.checkpoint)
          \/ /\ r.checkpoint = l.checkpoint
             /\ LongerOrBetterLed(l, r, a)
      BY <1>4 DEF SwitchToCandidate
    <2>2. ChainBetter(r, l)
      BY <1>2, <2>1 DEF ChainBetter
    <2>3. BuriedHeight(l.chain) <= a
      BY <1>1, <1>4, BuriedHeightType, ForkChoiceAssumption DEF SaturatingSub
    <2> QED
      BY <1>1, <2>2, <2>3, KeepsSharedPrefix
  <1> QED
    BY <1>3, <1>4

-----------------------------------------------------------------------------
(* The state machine.                                                      *)

\* Every chain keeps its own buried blocks.
LEMMA KeepsItself ==
    ASSUME NEW c \in Seq(Block)
    PROVE  KeepsBuried(c, c)
  BY BuriedHeightType, LenProperties, KeepsSharedPrefix

\* Replayed, in terms of Replay.
LEMMA ReplayedIs ==
    ASSUME wire \subseteq Seq(Block), NEW l \in LedgerSet, Replayed(l)
    PROVE  l.chain \in Seq(Block) /\ l.chain \in wire /\ l.checkpoint = Replay(l.chain)
  BY FromSnapshotIs DEF Replayed

\* The result of a validation is an announced chain with its replayed
\* checkpoint, and it is the local chain or a better one that keeps the
\* buried blocks.
LEMMA ValidatedIs ==
    ASSUME WireClosed, HashesIdentify, wire \subseteq Seq(Block),
           NEW l \in LedgerSet, Replayed(l), NEW d \in wire,
           NEW a \in 0 .. Len(l.chain), IsForkPoint(l.chain, d, a), a < Len(d)
    PROVE  LET v == ValidatedLedger(l, d, a) IN
           /\ v \in LedgerSet
           /\ Replayed(v)
           /\ v.chain = l.chain \/ ChainBetter(v, l)
           /\ KeepsBuried(l.chain, v.chain)
  <1> DEFINE c == l.chain
             v == ValidatedLedger(l, d, a)
             top == SubSeq(d, a + 1, Len(d))
  <1>1. /\ c \in Seq(Block) /\ c \in wire /\ l.checkpoint = Replay(c)
        /\ d \in Seq(Block) /\ Len(c) \in Nat /\ Len(d) \in Nat /\ a \in Nat
    BY ReplayedIs, LenProperties
  <1>2. /\ \A h \in 1 .. a : c[h] = d[h]
        /\ SubSeq(c, 1, a) \o top = d
        /\ top \in Seq(Block)
    <2>1. SameBlockAt(c, d, a) /\ a <= Len(d) /\ a \in 0 .. Len(c)
      BY <1>1 DEF IsForkPoint
    <2> HIDE DEF c
    <2> QED
      BY <1>1, <2>1, SpliceIsChain
  <1>3. CASE a = Len(c)
    <2>1. v = Apply(l, top)
      BY <1>3 DEF ValidatedLedger
    <2>2. SubSeq(c, 1, a) = c
      BY <1>1, <1>3, SubSeqFull
    <2>3. c \o top = d
      BY <1>2, <2>2
    <2>4. Len(top) > 0
      <3>1. Len(d) = Len(c) + Len(top) /\ Len(top) \in Nat
        <4> HIDE DEF c, top
        <4> QED
          BY <1>1, <1>2, <2>3, Extension
      <3> HIDE DEF c, top
      <3> QED
        BY <1>1, <1>3, <3>1
    <2>5. /\ v \in LedgerSet /\ v.chain = d /\ v.checkpoint = Replay(d)
          /\ ChainBetter(v, l) /\ KeepsBuried(c, d)
      BY <1>1, <1>2, <2>1, <2>3, <2>4, ApplyType, ExtensionBetter
    <2> QED
      BY <1>1, <2>5, FromSnapshotIs DEF Replayed
  <1>4. CASE a # Len(c)
    <2> DEFINE r == FromSnapshot(d)
    <2>1. v = ExtendFromSnapshot(l, d, a)
      BY <1>2, <1>4 DEF ValidatedLedger
    <2>2. r \in LedgerSet /\ r.chain = d /\ r.checkpoint = Replay(d)
      BY <1>1, FromSnapshotIs
    <2>3. CASE SwitchToCandidate(l, r, a)
      <3>1. v = ReplaceWithBetterChain(l, r, a)
        BY <2>1, <2>3 DEF ExtendFromSnapshot
      <3>2. v \in LedgerSet /\ v.chain = d /\ v.checkpoint = r.checkpoint
        <4>1. a \in Nat /\ r \in LedgerSet
          BY <1>1, <2>2
        <4> HIDE DEF r, v
        <4> QED
          BY <2>2, <3>1, <4>1, ReplaceType
      <3>3. ChainBetter(r, l) /\ KeepsBuried(c, d)
        <4> HIDE DEF r
        <4>1. a <= Len(l.chain) /\ a <= Len(r.chain)
          BY <1>1, <2>2
        <4>2. \A h \in 1 .. a : l.chain[h] = r.chain[h]
          BY <1>2, <2>2
        <4> QED
          BY <1>1, <2>2, <2>3, <4>1, <4>2, SwitchBetter
      <3>4. ChainBetter(v, l)
        BY <2>2, <3>2, <3>3 DEF ChainBetter
      <3> QED
        BY <1>1, <2>2, <3>2, <3>3, <3>4, FromSnapshotIs DEF Replayed
    <2>4. CASE ~SwitchToCandidate(l, r, a)
      <3>1. v = l
        BY <2>1, <2>4 DEF ExtendFromSnapshot
      <3> QED
        BY <1>1, <3>1, KeepsItself
    <2> QED
      BY <2>3, <2>4
  <1> QED
    BY <1>3, <1>4

\* What every step does to every node's chain.
StepImproves ==
    \A n \in Nodes :
        /\ ledger'[n].chain = ledger[n].chain \/ ChainBetter(ledger'[n], ledger[n])
        /\ KeepsBuried(ledger[n].chain, ledger'[n].chain)

\* The initial state.
LEMMA InitInv ==
    Init => SyncInv
  <1> SUFFICES ASSUME Init
               PROVE  SyncInv
    OBVIOUS
  <1> USE DEF Init
  <1>1. <<>> \in Seq(Block) /\ Len(<<>>) = 0
    BY EmptySeq
  <1>2. TypeOK
    BY <1>1, GenesisLedgerType DEF TypeOK
  <1>3. WireClosed
    <2>1. \A h \in 0 .. Len(<<>>) : SubSeq(<<>>, 1, h) = <<>>
      BY <1>1, SubSeqEmpty
    <2> QED
      BY <2>1 DEF WireClosed
  <1>4. HashesIdentify
    BY DEF HashesIdentify
  <1>5. ASSUME NEW n \in Nodes
        PROVE  Replayed(ledger[n])
    <2>1. ledger[n].chain = <<>> /\ ledger[n].checkpoint = NoCheckpoint
      BY DEF GenesisLedger
    <2>2. FromSnapshot(<<>>).checkpoint = Replay(<<>>)
      BY <1>1, FromSnapshotIs
    <2>3. LastCertificate(<<>>, 0, NoCheckpoint, Replay(<<>>))
      BY <1>1, CheckpointAfterIs DEF Replay
    <2>4. Replay(<<>>) = NoCheckpoint
      BY <1>1, <2>3 DEF LastCertificate
    <2> QED
      BY <2>1, <2>2, <2>4 DEF Replayed
  <1>6. \A n \in Nodes : JobImproves(n)
    BY DEF JobImproves
  <1> QED
    BY <1>2, <1>3, <1>4, <1>5, <1>6 DEF SyncInv

\* A step that leaves the chains, the wire and the other ledgers alone.
LEMMA QuietStep ==
    ASSUME SyncInv, TypeOK', wire' = wire, job' = job,
           \A n \in Nodes : /\ ledger'[n].chain = ledger[n].chain
                            /\ ledger'[n].checkpoint = ledger[n].checkpoint
    PROVE  SyncInv' /\ StepImproves
  <1>1. \A n \in Nodes : ledger[n].chain \in Seq(Block)
    BY DEF SyncInv, TypeOK, LedgerSet
  <1>2. StepImproves
    BY <1>1, KeepsItself DEF StepImproves
  <1>3. WireClosed' /\ HashesIdentify'
    BY DEF SyncInv, WireClosed, HashesIdentify
  <1>4. \A n \in Nodes : Replayed(ledger[n])'
    BY DEF SyncInv, Replayed
  <1>5. \A n \in Nodes : JobImproves(n)'
    BY DEF SyncInv, JobImproves, Replayed
  <1> QED
    BY <1>2, <1>3, <1>4, <1>5 DEF SyncInv

\* A step of one node that moves its ledger to another announced chain.
LEMMA MoveStep ==
    ASSUME SyncInv, TypeOK', wire' = wire, NEW m \in Nodes,
           \A n \in Nodes \ {m} : ledger'[n] = ledger[n] /\ job'[n] = job[n],
           job'[m] = job[m] \/ job'[m] = NoJob,
           Replayed(ledger'[m]),
           ledger'[m].chain = ledger[m].chain \/ ChainBetter(ledger'[m], ledger[m]),
           KeepsBuried(ledger[m].chain, ledger'[m].chain)
    PROVE  SyncInv' /\ StepImproves
  <1>1. \A n \in Nodes : ledger[n].chain \in Seq(Block)
    BY DEF SyncInv, TypeOK, LedgerSet
  <1>2. StepImproves
    BY <1>1, KeepsItself DEF StepImproves
  <1>3. WireClosed' /\ HashesIdentify'
    BY DEF SyncInv, WireClosed, HashesIdentify
  <1>4. \A n \in Nodes : Replayed(ledger[n])'
    BY DEF SyncInv, Replayed
  <1>5. \A n \in Nodes : JobImproves(n)'
    BY DEF SyncInv, JobImproves, Replayed
  <1> QED
    BY <1>2, <1>3, <1>4, <1>5 DEF SyncInv

\* PrepareBlock only records what the block will be built on.
LEMMA PrepareBlockInv ==
    ASSUME SyncInv, NEW n \in Nodes, PrepareBlock(n)
    PROVE  SyncInv' /\ StepImproves
  <1>1. ledger[n].chain \in Seq(Block) /\ ledger[n].pending \in SUBSET Tx
    BY DEF SyncInv, TypeOK, LedgerSet
  <1>2. TipHash(ledger[n].chain) \in Nat
    BY <1>1, TipHashType
  <1>3. TypeOK'
    BY <1>1, <1>2 DEF PrepareBlock, SyncInv, TypeOK
  <1> QED
    BY <1>3, QuietStep DEF PrepareBlock

\* A stale block is dropped.
LEMMA CompleteStaleBlockInv ==
    ASSUME SyncInv, NEW n \in Nodes, CompleteStaleBlock(n)
    PROVE  SyncInv' /\ StepImproves
  <1>1. TypeOK'
    BY DEF CompleteStaleBlock, SyncInv, TypeOK
  <1> QED
    BY <1>1, QuietStep DEF CompleteStaleBlock

\* A submitted transaction changes the pending set only.
LEMMA SubmitTransactionInv ==
    ASSUME SyncInv, NEW n \in Nodes, SubmitTransaction(n)
    PROVE  SyncInv' /\ StepImproves
  <1>1. PICK t \in Tx : ledger' = [ledger EXCEPT ![n].pending = @ \cup {t}]
    BY DEF SubmitTransaction
  <1>2. ledger \in [Nodes -> LedgerSet]
    BY DEF SyncInv, TypeOK
  <1>3. \A m \in Nodes : /\ ledger'[m].chain = ledger[m].chain
                         /\ ledger'[m].checkpoint = ledger[m].checkpoint
    BY <1>1, <1>2 DEF LedgerSet
  <1>4. ledger' \in [Nodes -> LedgerSet]
    BY <1>1, <1>2 DEF LedgerSet
  <1>5. TypeOK'
    BY <1>4 DEF SubmitTransaction, SyncInv, TypeOK
  <1> QED
    BY <1>3, <1>5, QuietStep DEF SubmitTransaction

\* Refused blocks and stuttering steps.
LEMMA StutterInv ==
    ASSUME SyncInv, UNCHANGED vars
    PROVE  SyncInv' /\ StepImproves
  <1>1. TypeOK'
    BY DEF vars, SyncInv, TypeOK
  <1> QED
    BY <1>1, QuietStep DEF vars

\* A gossiped block on the tip moves the node to the announced chain it ends.
LEMMA ReceiveBlockInv ==
    ASSUME SyncInv, NEW n \in Nodes, ReceiveBlock(n)
    PROVE  SyncInv' /\ StepImproves
  <1> DEFINE l == ledger[n]
             height == Len(l.chain)
  <1>1. PICK c \in wire :
           /\ Len(c) = height + 1
           /\ HashAt(c, height) = TipHash(l.chain)
           /\ ledger' = [ledger EXCEPT ![n] = Apply(l, <<c[height + 1]>>)]
    BY DEF ReceiveBlock
  <1>2. /\ WireClosed /\ HashesIdentify /\ wire \subseteq Seq(Block)
        /\ l \in LedgerSet /\ Replayed(l) /\ ledger \in [Nodes -> LedgerSet]
    BY DEF SyncInv, TypeOK
  <1> HIDE DEF l
  <1>3. /\ l.chain \in Seq(Block) /\ l.chain \in wire
        /\ l.checkpoint = Replay(l.chain)
        /\ c \in Seq(Block) /\ height \in Nat /\ Len(c) \in Nat
    BY <1>2, ReplayedIs, LenProperties
  <1>4. <<c[height + 1]>> \in Seq(Block) /\ Len(<<c[height + 1]>>) = 1
    <2>1. c[height + 1] \in Block
      BY <1>1, <1>3, ElementOfSeq
    <2> QED
      BY <2>1
  <1>5. l.chain \o <<c[height + 1]>> = c
    <2>1. SameBlockAt(l.chain, c, height)
      BY <1>1, <1>3 DEF SameBlockAt, TipHash, HashAt
    <2>2. SubSeq(l.chain, 1, height) \o SubSeq(c, height + 1, Len(c)) = c
      <3>1. height \in 0 .. Len(l.chain) /\ height <= Len(c)
        BY <1>1, <1>3
      <3> HIDE DEF height
      <3> QED
        BY <1>2, <1>3, <2>1, <3>1, SpliceIsChain
    <2>3. SubSeq(l.chain, 1, height) = l.chain
      BY <1>3, SubSeqFull
    <2>4. SubSeq(c, height + 1, Len(c)) = <<c[height + 1]>>
      <3>1. \A i \in height + 1 .. height + 1 : c[i] \in Block
        BY <1>1, <1>3, ElementOfSeq
      <3>2. /\ SubSeq(c, height + 1, height + 1) \in Seq(Block)
            /\ Len(SubSeq(c, height + 1, height + 1)) = 1
            /\ SubSeq(c, height + 1, height + 1)[1] = c[height + 1]
        BY <1>3, <3>1, SubSeqProperties
      <3> QED
        <4> DEFINE s == SubSeq(c, height + 1, height + 1)
                   t == <<c[height + 1]>>
        <4>1. Len(s) = Len(t) /\ \A i \in 1 .. Len(s) : s[i] = t[i]
          BY <1>4, <3>2
        <4>2. s \in Seq(Block) /\ t \in Seq(Block)
          BY <1>4, <3>2
        <4>3. s = t
          <5> HIDE DEF s, t
          <5> QED
            BY <4>1, <4>2, SeqEqual
        <4> QED
          BY <1>1, <4>3
    <2> QED
      BY <2>2, <2>3, <2>4
  <1>6. /\ Apply(l, <<c[height + 1]>>) \in LedgerSet
        /\ Apply(l, <<c[height + 1]>>).chain = c
        /\ Apply(l, <<c[height + 1]>>).checkpoint = Replay(c)
        /\ ChainBetter(Apply(l, <<c[height + 1]>>), l)
        /\ KeepsBuried(l.chain, c)
    <2> DEFINE b == <<c[height + 1]>>
    <2>1. b \in Seq(Block) /\ Len(b) > 0 /\ l.chain \o b = c
      BY <1>4, <1>5
    <2> HIDE DEF b
    <2> QED
      BY <1>2, <1>3, <2>1, ApplyType, ExtensionBetter DEF b
  <1>7. ledger'[n] = Apply(l, <<c[height + 1]>>)
    BY <1>1, <1>2
  <1>8. TypeOK'
    BY <1>1, <1>2, <1>6 DEF ReceiveBlock, SyncInv, TypeOK
  <1>9. Replayed(ledger'[n])
    BY <1>3, <1>6, <1>7, FromSnapshotIs DEF Replayed
  <1>10. \A m \in Nodes \ {n} : ledger'[m] = ledger[m] /\ job'[m] = job[m]
    BY <1>1, <1>2 DEF ReceiveBlock
  <1> QED
    BY <1>6, <1>7, <1>8, <1>9, <1>10, MoveStep DEF ReceiveBlock, l

\* Starting a validation computes a result that JobImproves describes.
LEMMA StartValidationInv ==
    ASSUME SyncInv, NEW n \in Nodes, StartValidation(n)
    PROVE  SyncInv' /\ StepImproves
  <1> DEFINE l == ledger[n]
  <1>1. PICK d \in wire : ValidateChain(n, d)
    BY DEF StartValidation
  <1>2. PICK a \in 0 .. Len(l.chain) :
           /\ IsForkPoint(l.chain, d, a)
           /\ a < Len(d)
           /\ job' = [job EXCEPT ![n] = [base   |-> TipHash(l.chain),
                                        ledger |-> ValidatedLedger(l, d, a)]]
    BY <1>1 DEF ValidateChain
  <1>3. UNCHANGED <<ledger, work, wire>>
    BY <1>1 DEF ValidateChain
  <1>4. /\ WireClosed /\ HashesIdentify /\ wire \subseteq Seq(Block)
        /\ l \in LedgerSet /\ Replayed(l) /\ TypeOK
    BY DEF SyncInv, TypeOK
  <1> DEFINE v == ValidatedLedger(l, d, a)
  <1>5. /\ v \in LedgerSet /\ Replayed(v)
        /\ v.chain = l.chain \/ ChainBetter(v, l)
        /\ KeepsBuried(l.chain, v.chain)
    <2> HIDE DEF l
    <2> QED
      BY <1>2, <1>4, ValidatedIs
  <1>6. l.chain \in wire /\ l.chain \in Seq(Block) /\ l.checkpoint = Replay(l.chain)
    BY <1>4, ReplayedIs
  <1>7. TipHash(l.chain) \in Nat
    BY <1>6, TipHashType
  <1>8. TypeOK'
    BY <1>2, <1>3, <1>4, <1>5, <1>7 DEF TypeOK
  <1>9. \A m \in Nodes : ledger[m].chain \in Seq(Block)
    BY <1>4 DEF TypeOK, LedgerSet
  <1>10. StepImproves
    BY <1>3, <1>9, KeepsItself DEF StepImproves
  <1>11. WireClosed' /\ HashesIdentify' /\ \A m \in Nodes : Replayed(ledger[m])'
    BY <1>3 DEF SyncInv, WireClosed, HashesIdentify, Replayed
  <1>12. job'[n] = [base |-> TipHash(l.chain), ledger |-> v]
    BY <1>2, <1>4 DEF TypeOK
  <1>13. v.chain = l.chain \/ ChainBetter(v, FromSnapshot(l.chain))
    <2>1. /\ FromSnapshot(l.chain).chain = l.chain
          /\ FromSnapshot(l.chain).checkpoint = l.checkpoint
      BY <1>6, FromSnapshotIs
    <2> HIDE DEF v, l
    <2> QED
      BY <1>5, <2>1 DEF ChainBetter
  <1>14. JobImproves(n)'
    <2> HIDE DEF v
    <2>1. job'[n].ledger = v /\ job'[n].base = TipHash(l.chain)
      BY <1>12
    <2>2. Replayed(job[n].ledger)'
      BY <1>3, <1>5, <2>1 DEF Replayed
    <2> HIDE DEF l
    <2> QED
      BY <1>3, <1>5, <1>6, <1>13, <2>1, <2>2 DEF JobImproves, Replayed
  <1>15. \A m \in Nodes \ {n} : JobImproves(m)'
    <2>1. \A m \in Nodes \ {n} : job'[m] = job[m]
      BY <1>2, <1>4 DEF TypeOK
    <2> QED
      BY <1>3, <2>1 DEF SyncInv, JobImproves, Replayed
  <1> QED
    BY <1>8, <1>10, <1>11, <1>14, <1>15 DEF SyncInv

\* Importing a validation result moves the node to a better chain, because
\* the tip it is compared with identifies the chain the validation saw.
LEMMA FinishValidationInv ==
    ASSUME SyncInv, NEW n \in Nodes, FinishValidation(n)
    PROVE  SyncInv' /\ StepImproves
  <1> DEFINE l == ledger[n]
             v == job[n].ledger
  <1>1. /\ job[n] # NoJob /\ job' = [job EXCEPT ![n] = NoJob]
        /\ UNCHANGED <<work, wire>>
        /\ ledger' = [ledger EXCEPT ![n] =
                         IF job[n].base = TipHash(l.chain)
                         THEN ImportVerifiedLedger(l, v)
                         ELSE l]
    BY DEF FinishValidation
  <1>2. /\ TypeOK /\ HashesIdentify /\ wire \subseteq Seq(Block)
        /\ l \in LedgerSet /\ Replayed(l) /\ JobImproves(n)
    BY DEF SyncInv, TypeOK
  <1>3. v \in LedgerSet
    BY <1>1, <1>2 DEF TypeOK
  <1>4. l.chain \in wire /\ l.chain \in Seq(Block) /\ l.checkpoint = Replay(l.chain)
    BY <1>2, ReplayedIs
  <1>5. ledger'[n] = l \/ (job[n].base = TipHash(l.chain) /\ ledger'[n] = v)
    BY <1>1, <1>2 DEF TypeOK, ImportVerifiedLedger
  <1>6. TypeOK'
    <2>1. ledger'[n] \in LedgerSet
      BY <1>2, <1>3, <1>5
    <2> QED
      BY <1>1, <1>2, <2>1 DEF TypeOK
  <1>7. /\ \A m \in Nodes \ {n} : ledger'[m] = ledger[m] /\ job'[m] = job[m]
        /\ job'[n] = NoJob
    BY <1>1, <1>2 DEF TypeOK
  <1>8. CASE ledger'[n] = l
    <2>1. KeepsBuried(l.chain, l.chain)
      BY <1>4, KeepsItself
    <2> QED
      BY <1>1, <1>2, <1>6, <1>7, <1>8, <2>1, MoveStep
  <1>9. CASE job[n].base = TipHash(l.chain) /\ ledger'[n] = v
    <2>1. PICK c \in wire :
             /\ TipHash(c) = job[n].base
             /\ v.chain = c \/ ChainBetter(v, FromSnapshot(c))
             /\ KeepsBuried(c, v.chain)
      BY <1>1, <1>2 DEF JobImproves
    <2>2. c = l.chain
      BY <1>2, <1>4, <1>9, <2>1 DEF HashesIdentify
    <2>3. Replayed(v)
      BY <1>1, <1>2 DEF JobImproves
    <2>4. v.chain = l.chain \/ ChainBetter(v, l)
      <3>1. /\ FromSnapshot(c).chain = l.chain
            /\ FromSnapshot(c).checkpoint = l.checkpoint
        BY <1>4, <2>2, FromSnapshotIs
      <3> HIDE DEF v, l
      <3> QED
        BY <2>1, <2>2, <3>1 DEF ChainBetter
    <2> QED
      BY <1>1, <1>6, <1>7, <1>9, <2>1, <2>2, <2>3, <2>4, MoveStep
  <1> QED
    BY <1>5, <1>8, <1>9

\* A chain with one more block.
LEMMA OneMoreBlock ==
    ASSUME NEW c \in Seq(Block), NEW b \in Seq(Block), Len(b) = 1
    PROVE  /\ c \o b \in Seq(Block)
           /\ Len(c \o b) = Len(c) + 1
           /\ \A h \in 1 .. Len(c) : (c \o b)[h] = c[h]
           /\ TipHash(c \o b) = b[1].hash
  <1>1. /\ c \o b \in Seq(Block) /\ Len(c \o b) = Len(c) + 1 /\ Len(c) \in Nat
        /\ \A h \in 1 .. Len(c) : (c \o b)[h] = c[h]
    BY Extension
  <1>2. \A i \in 1 .. Len(c) + Len(b) :
           (c \o b)[i] = IF i <= Len(c) THEN c[i] ELSE b[i - Len(c)]
    BY ConcatProperties
  <1>3. (c \o b)[Len(c) + 1] = b[1]
    BY <1>1, <1>2
  <1> QED
    BY <1>1, <1>3 DEF TipHash, HashAt

\* A block the node produced itself extends its chain by a fresh hash.
LEMMA CompleteBlockInv ==
    ASSUME SyncInv, NEW n \in Nodes, CompleteBlock(n)
    PROVE  SyncInv' /\ StepImproves
  <1> DEFINE l == ledger[n]
  <1>1. PICK hash \in Hashes \ UsedHashes, shape \in Shapes :
           LET block == NewBlock(hash, shape, work[n].txs)
               next  == Apply(l, <<block>>)
           IN  /\ ledger' = [ledger EXCEPT ![n] = next]
               /\ wire' = wire \cup {next.chain}
    BY DEF CompleteBlock
  <1> DEFINE block == NewBlock(hash, shape, work[n].txs)
             b == <<block>>
             next == Apply(l, b)
             d == l.chain \o b
  <1>2. /\ TypeOK /\ WireClosed /\ HashesIdentify /\ wire \subseteq Seq(Block)
        /\ l \in LedgerSet /\ Replayed(l)
    BY DEF SyncInv, TypeOK
  <1>3. /\ l.chain \in wire /\ l.chain \in Seq(Block)
        /\ l.checkpoint = Replay(l.chain) /\ Len(l.chain) \in Nat
    BY <1>2, ReplayedIs, LenProperties
  <1>4. block \in Block /\ block.hash = hash
    <2>1. work[n] \in [prev : Nat, txs : SUBSET Tx]
      BY <1>2 DEF CompleteBlock, TypeOK
    <2> QED
      BY <2>1, ChainSyncAssumption DEF NewBlock, Block, BlockOf
  <1>5. b \in Seq(Block) /\ Len(b) = 1 /\ b[1] = block
    <2> HIDE DEF block
    <2> QED
      BY <1>4
  <1> HIDE DEF b, block, l
  <1>6. /\ next \in LedgerSet /\ next.chain = d /\ next.checkpoint = Replay(d)
        /\ ChainBetter(next, l) /\ KeepsBuried(l.chain, d)
    <2>1. Len(b) > 0
      BY <1>5
    <2> QED
      BY <1>2, <1>3, <1>5, <2>1, ApplyType, ExtensionBetter
  <1>7. /\ d \in Seq(Block) /\ Len(d) = Len(l.chain) + 1
        /\ \A h \in 1 .. Len(l.chain) : d[h] = l.chain[h]
        /\ TipHash(d) = hash
    <2> DEFINE c == l.chain
    <2>1. c \in Seq(Block)
      BY <1>3
    <2> HIDE DEF c
    <2>2. /\ c \o b \in Seq(Block) /\ Len(c \o b) = Len(c) + 1
          /\ \A h \in 1 .. Len(c) : (c \o b)[h] = c[h]
          /\ TipHash(c \o b) = b[1].hash
      BY <1>5, <2>1, OneMoreBlock
    <2> QED
      BY <1>4, <1>5, <2>2 DEF c
  <1>8. ledger' = [ledger EXCEPT ![n] = next] /\ wire' = wire \cup {d}
    BY <1>1, <1>6 DEF b, block, l
  <1> HIDE DEF d, next
  <1>9. UNCHANGED job /\ work' = [work EXCEPT ![n] = NoWork]
    BY DEF CompleteBlock
  <1>10. TypeOK'
    BY <1>2, <1>6, <1>7, <1>8, <1>9 DEF TypeOK
  <1>11. /\ ledger'[n] = next
         /\ \A m \in Nodes \ {n} : ledger'[m] = ledger[m]
    BY <1>2, <1>8 DEF TypeOK
  <1>12. StepImproves
    <2>1. \A m \in Nodes : ledger[m].chain \in Seq(Block)
      BY <1>2 DEF TypeOK, LedgerSet
    <2> QED
      BY <1>6, <1>11, <2>1, KeepsItself DEF StepImproves, l
  <1>13. WireClosed'
    <2>1. ASSUME NEW h \in 0 .. Len(d)
          PROVE  SubSeq(d, 1, h) \in wire'
      <3>1. CASE h = Len(d)
        BY <1>7, <1>8, <3>1, SubSeqFull
      <3>2. CASE h # Len(d)
        <4>1. h \in 0 .. Len(l.chain) /\ h \in Int
          BY <1>3, <1>7, <3>2
        <4>2. /\ \A i \in 1 .. h : d[i] \in Block
              /\ \A i \in 1 .. h : l.chain[i] \in Block
              /\ \A i \in 1 .. h : d[i] = l.chain[i]
          BY <1>3, <1>7, <4>1, ElementOfSeq
        <4>3. SubSeq(d, 1, h) = SubSeq(l.chain, 1, h)
          <5> DEFINE s == SubSeq(d, 1, h)
                     t == SubSeq(l.chain, 1, h)
          <5>1. /\ s \in Seq(Block) /\ Len(s) = IF 1 <= h THEN h - 1 + 1 ELSE 0
                /\ \A i \in 1 .. h - 1 + 1 : s[i] = d[1 + i - 1]
            BY <4>1, <4>2, SubSeqProperties
          <5>2. /\ t \in Seq(Block) /\ Len(t) = IF 1 <= h THEN h - 1 + 1 ELSE 0
                /\ \A i \in 1 .. h - 1 + 1 : t[i] = l.chain[1 + i - 1]
            BY <4>1, <4>2, SubSeqProperties
          <5> HIDE DEF s, t
          <5>3. Len(s) = Len(t) /\ \A i \in 1 .. Len(s) : s[i] = t[i]
            BY <4>1, <4>2, <5>1, <5>2
          <5>4. s = t
            BY <5>1, <5>2, <5>3, SeqEqual
          <5> QED
            BY <5>4 DEF s, t
        <4>4. SubSeq(l.chain, 1, h) \in wire
          BY <1>2, <1>3, <4>1 DEF WireClosed
        <4> QED
          BY <1>8, <4>3, <4>4
      <3> QED
        BY <3>1, <3>2
    <2> QED
      BY <1>2, <1>8, <2>1 DEF WireClosed
  <1>14. HashesIdentify'
    <2>1. \A c \in wire : TipHash(c) # TipHash(d)
      BY <1>1, <1>7 DEF UsedHashes
    <2> QED
      BY <1>2, <1>8, <2>1 DEF HashesIdentify
  <1>15. \A m \in Nodes : Replayed(ledger[m])'
    <2>1. Replayed(ledger[n])'
      BY <1>6, <1>7, <1>8, <1>11, FromSnapshotIs DEF Replayed
    <2>2. \A m \in Nodes \ {n} : Replayed(ledger[m])'
      BY <1>8, <1>11 DEF SyncInv, Replayed
    <2> QED
      BY <2>1, <2>2
  <1>16. \A m \in Nodes : JobImproves(m)'
    BY <1>8, <1>9 DEF SyncInv, JobImproves, Replayed
  <1> QED
    BY <1>10, <1>12, <1>13, <1>14, <1>15, <1>16 DEF SyncInv

\* Every step keeps the invariant and only improves chains.
LEMMA NextInv ==
    SyncInv /\ [Next]_vars => SyncInv' /\ StepImproves
  <1> SUFFICES ASSUME SyncInv, [Next]_vars
               PROVE  SyncInv' /\ StepImproves
    OBVIOUS
  <1>1. CASE UNCHANGED vars
    BY <1>1, StutterInv
  <1>2. ASSUME NEW n \in Nodes, PrepareBlock(n)
        PROVE  SyncInv' /\ StepImproves
    BY <1>2, PrepareBlockInv
  <1>3. ASSUME NEW n \in Nodes, CompleteBlock(n)
        PROVE  SyncInv' /\ StepImproves
    BY <1>3, CompleteBlockInv
  <1>4. ASSUME NEW n \in Nodes, CompleteStaleBlock(n)
        PROVE  SyncInv' /\ StepImproves
    BY <1>4, CompleteStaleBlockInv
  <1>5. ASSUME NEW n \in Nodes, ReceiveBlock(n)
        PROVE  SyncInv' /\ StepImproves
    BY <1>5, ReceiveBlockInv
  <1>6. ASSUME NEW n \in Nodes, ReceiveOtherBlock(n)
        PROVE  SyncInv' /\ StepImproves
    BY <1>6, StutterInv DEF ReceiveOtherBlock
  <1>7. ASSUME NEW n \in Nodes, StartValidation(n)
        PROVE  SyncInv' /\ StepImproves
    BY <1>7, StartValidationInv
  <1>8. ASSUME NEW n \in Nodes, FinishValidation(n)
        PROVE  SyncInv' /\ StepImproves
    BY <1>8, FinishValidationInv
  <1>9. ASSUME NEW n \in Nodes, SubmitTransaction(n)
        PROVE  SyncInv' /\ StepImproves
    BY <1>9, SubmitTransactionInv
  <1> QED
    BY <1>1, <1>2, <1>3, <1>4, <1>5, <1>6, <1>7, <1>8, <1>9 DEF Next

-----------------------------------------------------------------------------
(* Theorems.                                                               *)

\* The inductive invariant holds in every reachable state, for any number of
\* nodes, any chain length, activation height and finality depth.
THEOREM SyncInvHolds == Spec => []SyncInv
  <1>1. SyncInv /\ [Next]_vars => SyncInv'
    BY NextInv
  <1> QED
    BY <1>1, InitInv, PTL DEF Spec

\* Every variable keeps its type.
THEOREM TypeCorrect == Spec => []TypeOK
  <1>1. SyncInv => TypeOK
    BY DEF SyncInv
  <1> QED
    BY <1>1, SyncInvHolds, PTL

\* The checkpoint kept while blocks are applied and chains are switched is the
\* one a restart recomputes from the chain (apply_block, from_snapshot).
THEOREM CheckpointIsReplayedHolds == Spec => []CheckpointIsReplayed
  <1>1. SyncInv => CheckpointIsReplayed
    BY DEF SyncInv, Replayed, CheckpointIsReplayed
  <1> QED
    BY <1>1, SyncInvHolds, PTL

\* A checkpoint names a block of the node's own chain between the activation
\* height and the tip (block_certifies_parent).
THEOREM CheckpointOnOwnChainHolds == Spec => []CheckpointOnOwnChain
  <1>1. SyncInv => CheckpointOnOwnChain
    <2> SUFFICES ASSUME SyncInv, NEW n \in Nodes,
                        ledger[n].checkpoint # NoCheckpoint
                 PROVE  /\ ledger[n].checkpoint.height \in
                              ActivationHeight .. Len(ledger[n].chain) - 1
                        /\ ledger[n].checkpoint.hash =
                              HashAt(ledger[n].chain, ledger[n].checkpoint.height)
      BY DEF CheckpointOnOwnChain
    <2>1. ledger[n] \in LedgerSet /\ Replayed(ledger[n]) /\ wire \subseteq Seq(Block)
      BY DEF SyncInv, TypeOK
    <2>2. /\ ledger[n].chain \in Seq(Block)
          /\ ledger[n].checkpoint = Replay(ledger[n].chain)
      BY <2>1, ReplayedIs
    <2> QED
      BY <2>2, ReplayOnChain
  <1> QED
    BY <1>1, SyncInvHolds, PTL

\* No step takes a node to a chain that ranks lower than the one it has
\* (choose_fork, import_verified_ledger and the tip check in front of it).
THEOREM ChainOnlyImprovesHolds == Spec => ChainOnlyImproves
  <1>1. SyncInv /\ [Next]_vars =>
           [\A n \in Nodes :
               \/ ledger'[n].chain = ledger[n].chain
               \/ ChainBetter(ledger'[n], ledger[n])]_vars
    BY NextInv DEF StepImproves
  <1> QED
    BY <1>1, SyncInvHolds, PTL DEF Spec, ChainOnlyImproves

\* Blocks below the activation height, and before activation the blocks
\* deeper than the finality depth, are never rewritten by any step
\* (choose_fork, fork_rewrites_finalized_history).
THEOREM BuriedHistoryFrozenHolds == Spec => BuriedHistoryFrozen
  <1>1. SyncInv /\ [Next]_vars =>
           [\A n \in Nodes : KeepsBuried(ledger[n].chain, ledger'[n].chain)]_vars
    BY NextInv DEF StepImproves
  <1> QED
    BY <1>1, SyncInvHolds, PTL DEF Spec, BuriedHistoryFrozen

-----------------------------------------------------------------------------
(* Fork choice between two ledgers.                                        *)

\* A leader score is a triple of naturals.
LEMMA LeaderScoreType ==
    ASSUME NEW b \in Block
    PROVE  LeaderScore(b) \in Nat \X Nat \X Nat
  BY BlockFields DEF LeaderScore, Ticket, Recovery

\* Of two scores at most one is lower.
LEMMA ScoreLessAsymmetric ==
    ASSUME NEW s \in Nat \X Nat \X Nat, NEW t \in Nat \X Nat \X Nat,
           ScoreLess(s, t)
    PROVE  ~ScoreLess(t, s) /\ s # t
  BY DEF ScoreLess

\* Of two chains at most one has the better leaders above a fork point.
LEMMA QualityAsymmetric ==
    ASSUME NEW c \in Seq(Block), NEW d \in Seq(Block), NEW a \in Nat,
           ForkQualityBetter(c, d, a), ForkQualityBetter(d, c, a)
    PROVE  FALSE
  <1>0. Len(c) \in Nat /\ Len(d) \in Nat
    BY LenProperties
  <1> DEFINE top == Lesser(Len(c), Len(d))
  <1>1. Lesser(Len(d), Len(c)) = top /\ top \in Nat
        /\ top <= Len(c) /\ top <= Len(d)
    BY <1>0 DEF Lesser
  <1>2. PICK g \in a + 1 .. top :
           /\ ScoreLess(LeaderScore(c[g]), LeaderScore(d[g]))
           /\ \A k \in a + 1 .. g - 1 : LeaderScore(c[k]) = LeaderScore(d[k])
    BY <1>1 DEF ForkQualityBetter
  <1>3. PICK h \in a + 1 .. top :
           /\ ScoreLess(LeaderScore(d[h]), LeaderScore(c[h]))
           /\ \A k \in a + 1 .. h - 1 : LeaderScore(d[k]) = LeaderScore(c[k])
    BY <1>1 DEF ForkQualityBetter
  <1> HIDE DEF top
  <1>4. \A k \in a + 1 .. top : c[k] \in Block /\ d[k] \in Block
    BY <1>0, <1>1, ElementOfSeq
  <1>5. \A k \in a + 1 .. top : /\ LeaderScore(c[k]) \in Nat \X Nat \X Nat
                                /\ LeaderScore(d[k]) \in Nat \X Nat \X Nat
    BY <1>4, LeaderScoreType
  <1>6. g = h
    <2>1. LeaderScore(c[g]) # LeaderScore(d[g])
      BY <1>2, <1>5, ScoreLessAsymmetric
    <2>2. LeaderScore(c[h]) # LeaderScore(d[h])
      BY <1>3, <1>5, ScoreLessAsymmetric
    <2>3. ~(g < h)
      BY <1>1, <1>2, <1>3, <2>1
    <2>4. ~(h < g)
      BY <1>1, <1>2, <1>3, <2>2
    <2> QED
      BY <1>1, <2>3, <2>4
  <1> QED
    BY <1>2, <1>3, <1>5, <1>6, ScoreLessAsymmetric

\* Two ledgers never both prefer the other.
LEMMA SwitchAsymmetric ==
    ASSUME NEW l \in LedgerSet, NEW r \in LedgerSet, NEW a \in Nat,
           SwitchToCandidate(l, r, a), SwitchToCandidate(r, l, a)
    PROVE  FALSE
  <1>1. /\ l.chain \in Seq(Block) /\ r.chain \in Seq(Block)
        /\ Len(l.chain) \in Nat /\ Len(r.chain) \in Nat
        /\ l.checkpoint \in Checkpoints /\ r.checkpoint \in Checkpoints
    BY LenProperties DEF LedgerSet
  <1>2. ~(LongerOrBetterLed(l, r, a) /\ LongerOrBetterLed(r, l, a))
    BY <1>1, QualityAsymmetric DEF LongerOrBetterLed
  <1>3. CASE a + 1 < ActivationHeight
    BY <1>2, <1>3 DEF SwitchToCandidate
  <1>4. CASE ~(a + 1 < ActivationHeight)
    <2>1. \/ CheckpointBetter(r.checkpoint, l.checkpoint)
          \/ r.checkpoint = l.checkpoint /\ LongerOrBetterLed(l, r, a)
      BY <1>4 DEF SwitchToCandidate
    <2>2. \/ CheckpointBetter(l.checkpoint, r.checkpoint)
          \/ l.checkpoint = r.checkpoint /\ LongerOrBetterLed(r, l, a)
      BY <1>4 DEF SwitchToCandidate
    <2> QED
      BY <1>1, <1>2, <2>1, <2>2 DEF CheckpointBetter, Checkpoints
  <1> QED
    BY <1>3, <1>4

\* Two nodes that compare their chains never swap them (choose_fork).
THEOREM NeverBothSwitchHolds == Spec => []NeverBothSwitch
  <1>1. TypeOK => NeverBothSwitch
    <2> SUFFICES ASSUME TypeOK, NEW m \in Nodes, NEW n \in Nodes,
                        NEW a \in 0 .. MaxHeight,
                        SwitchToCandidate(ledger[m], ledger[n], a),
                        SwitchToCandidate(ledger[n], ledger[m], a)
                 PROVE  FALSE
      BY DEF NeverBothSwitch
    <2>1. ledger[m] \in LedgerSet /\ ledger[n] \in LedgerSet /\ a \in Nat
      BY ChainSyncAssumption DEF TypeOK
    <2> QED
      BY <2>1, SwitchAsymmetric
  <1> QED
    BY <1>1, TypeCorrect, PTL

\* Above the activation height a rank 0 block that a validator accepts
\* (required_explicit_burn_signatures) certifies its parent
\* (block_certifies_parent), whatever the size of its committee.
THEOREM RankZeroCertifies ==
    ASSUME NEW b \in Block, NEW height \in Nat,
           height > ActivationHeight, b.mode = Ticket, b.rank = 0,
           b.committee > 0, BurnSectionValid(b, height)
    PROVE  BlockCertifiesParent(b, height)
  <1>1. b.committee \in Nat /\ b.signatures \in Nat
    BY BlockFields
  <1>2. ObjectiveFinalityQuorum(b.committee) \in Nat \ {0}
    BY <1>1 DEF ObjectiveFinalityQuorum
  <1>3. RequiredExplicitBurnSignatures(height, Ticket, 0, b.committee) =
           SaturatingSub(ObjectiveFinalityQuorum(b.committee), 1)
    BY <1>1, ForkChoiceAssumption
    DEF RequiredExplicitBurnSignatures, Ticket, Recovery
  <1>4. b.signatures >= SaturatingSub(ObjectiveFinalityQuorum(b.committee), 1)
    BY <1>3 DEF BurnSectionValid
  <1> QED
    BY <1>1, <1>2, <1>4 DEF BlockCertifiesParent, SaturatingSub

\* Two quorums of one committee share more than a third of it, so conflicting
\* certificates of one height need that many double signers
\* (objective_finality_quorum).
THEOREM QuorumsOverlap ==
    ASSUME NEW size \in Nat \ {0}
    PROVE  /\ ObjectiveFinalityQuorum(size) \in 1 .. size
           /\ 3 * (2 * ObjectiveFinalityQuorum(size) - size) > size
  BY DEF ObjectiveFinalityQuorum
-----------------------------------------------------------------------------
(* Transactions.                                                           *)

\* A ledger that separates its pending transactions from its chain still does
\* after it applied more blocks.
LEMMA ApplySeparate ==
    ASSUME NEW l \in LedgerSet, NEW b \in Seq(Block), Separate(l)
    PROVE  Separate(Apply(l, b))
  <1> DEFINE c == l.chain
             d == c \o b
  <1>1. c \in Seq(Block)
    BY DEF LedgerSet
  <1>2. /\ Len(d) = Len(c) + Len(b) /\ Len(c) \in Nat /\ Len(b) \in Nat
        /\ \A h \in 1 .. Len(c) : d[h] = c[h]
    BY <1>1, Extension
  <1>3. Apply(l, b).chain = d /\ Apply(l, b).pending = l.pending \ MinedIn(d, Len(c) + 1)
    BY DEF Apply
  <1> SUFFICES ASSUME NEW t \in l.pending \ MinedIn(d, Len(c) + 1), t \in MinedIn(d, 1)
               PROVE  FALSE
    BY <1>3 DEF Separate
  <1>4. PICK h \in 1 .. Len(d) : t \in d[h].txs
    BY DEF MinedIn
  <1>5. CASE h <= Len(c)
    <2>1. t \in c[h].txs /\ h \in 1 .. Len(c)
      BY <1>2, <1>4, <1>5
    <2>2. t \in MinedIn(c, 1)
      BY <2>1 DEF MinedIn
    <2> QED
      BY <2>2 DEF Separate
  <1>6. CASE h > Len(c)
    <2>1. h \in Len(c) + 1 .. Len(d)
      BY <1>2, <1>6
    <2> HIDE DEF d
    <2> QED
      BY <1>4, <2>1 DEF MinedIn
  <1> QED
    BY <1>2, <1>5, <1>6

\* So does the result of a validation: an abandoned block's transactions wait
\* again only when the chain switched to has not mined them.
LEMMA ValidatedSeparate ==
    ASSUME NEW l \in LedgerSet, NEW d \in Seq(Block), NEW a \in 0 .. Len(l.chain),
           a < Len(d), Separate(l)
    PROVE  Separate(ValidatedLedger(l, d, a))
  <1>1. CASE a = Len(l.chain)
    <2>1. Len(d) \in Nat /\ Len(l.chain) \in Nat
      BY LenProperties DEF LedgerSet
    <2>2. \A i \in a + 1 .. Len(d) : d[i] \in Block
      BY <2>1, ElementOfSeq
    <2>3. SubSeq(d, a + 1, Len(d)) \in Seq(Block)
      BY <2>1, <2>2, SubSeqProperties
    <2> QED
      BY <1>1, <2>3, ApplySeparate DEF ValidatedLedger
  <1>2. CASE a # Len(l.chain)
    <2> DEFINE r == FromSnapshot(SubSeq(l.chain, 1, a) \o SubSeq(d, a + 1, Len(d)))
    <2>1. ValidatedLedger(l, d, a) = l
             \/ ValidatedLedger(l, d, a) = ReplaceWithBetterChain(l, r, a)
      BY <1>2 DEF ValidatedLedger, ExtendFromSnapshot
    <2>2. Separate(ReplaceWithBetterChain(l, r, a))
      BY DEF Separate, ReplaceWithBetterChain, FromSnapshot, Apply
    <2> QED
      BY <2>1, <2>2
  <1> QED
    BY <1>1, <1>2

\* The initial state.
LEMMA InitTransactionInv ==
    Init => TransactionInv
  <1> SUFFICES ASSUME Init
               PROVE  TransactionInv
    OBVIOUS
  <1>1. MinedOnce(<<>>)
    BY DEF MinedOnce
  <1>2. Separate(GenesisLedger)
    BY DEF Separate, GenesisLedger
  <1> QED
    BY <1>1, <1>2 DEF Init, TransactionInv, WorkSeparate

\* What a step must keep of the four conjuncts when it announces nothing.
LEMMA QuietTransactions ==
    ASSUME TransactionInv, wire' = wire,
           \A n \in Nodes : Separate(ledger'[n]),
           \A n \in Nodes : job'[n] # NoJob => Separate(job'[n].ledger),
           \A n \in Nodes : work'[n] = NoWork \/ work'[n] = work[n]
                               \/ WorkSeparate(n)'
    PROVE  TransactionInv'
  <1>1. \A n \in Nodes : WorkSeparate(n)'
    BY DEF TransactionInv, WorkSeparate
  <1> QED
    BY <1>1 DEF TransactionInv, Separate

\* A prepared block takes transactions its parent's chain has not mined.
LEMMA PrepareBlockTransactions ==
    ASSUME SyncInv, TransactionInv, NEW n \in Nodes, PrepareBlock(n)
    PROVE  TransactionInv'
  <1> DEFINE c == ledger[n].chain
  <1>1. PICK txs \in SUBSET ledger[n].pending :
           work' = [work EXCEPT ![n] = [prev |-> TipHash(c), txs |-> txs]]
    BY DEF PrepareBlock
  <1>2. UNCHANGED <<ledger, job, wire>>
    BY DEF PrepareBlock
  <1>3. c \in wire /\ Separate(ledger[n]) /\ work \in [Nodes -> {NoWork} \cup [prev : Nat, txs : SUBSET Tx]]
    BY DEF SyncInv, TypeOK, Replayed, TransactionInv
  <1>4. work'[n] = [prev |-> TipHash(c), txs |-> txs]
        /\ \A m \in Nodes \ {n} : work'[m] = work[m]
    BY <1>1, <1>3
  <1>5. txs \cap MinedIn(c, 1) = {}
    BY <1>3 DEF Separate
  <1>6. WorkSeparate(n)'
    <2> HIDE DEF c
    <2> QED
      BY <1>2, <1>3, <1>4, <1>5 DEF WorkSeparate
  <1> QED
    BY <1>2, <1>4, <1>6, QuietTransactions DEF TransactionInv

\* A produced block mines what its chain had not mined, because the tip it was
\* prepared on names that chain.
LEMMA CompleteBlockTransactions ==
    ASSUME SyncInv, TransactionInv, NEW n \in Nodes, CompleteBlock(n)
    PROVE  TransactionInv'
  <1> DEFINE l == ledger[n]
             c == l.chain
  <1>1. PICK hash \in Hashes \ UsedHashes, shape \in Shapes :
           LET block == NewBlock(hash, shape, work[n].txs)
               next  == Apply(l, <<block>>)
           IN  /\ ledger' = [ledger EXCEPT ![n] = next]
               /\ wire' = wire \cup {next.chain}
    BY DEF CompleteBlock
  <1> DEFINE block == NewBlock(hash, shape, work[n].txs)
             b == <<block>>
             d == c \o b
  <1>2. /\ work[n] # NoWork /\ work[n].prev = TipHash(c) /\ UNCHANGED job
        /\ work' = [work EXCEPT ![n] = NoWork]
    BY DEF CompleteBlock
  <1>3. /\ TypeOK /\ HashesIdentify /\ l \in LedgerSet /\ c \in wire
        /\ c \in Seq(Block) /\ Len(c) \in Nat
    <2>1. l \in LedgerSet /\ TypeOK /\ HashesIdentify /\ Replayed(l)
      BY DEF SyncInv, TypeOK
    <2> QED
      BY <2>1, ReplayedIs, LenProperties DEF TypeOK
  <1>4. work[n].txs \cap MinedIn(c, 1) = {}
    <2>1. PICK e \in wire : TipHash(e) = work[n].prev /\ work[n].txs \cap MinedIn(e, 1) = {}
      BY <1>2 DEF TransactionInv, WorkSeparate
    <2>2. e = c
      BY <1>2, <1>3, <2>1 DEF HashesIdentify
    <2> QED
      BY <2>1, <2>2
  <1>5. block \in Block /\ block.txs = work[n].txs
    <2>1. work[n] \in [prev : Nat, txs : SUBSET Tx]
      BY <1>2, <1>3 DEF TypeOK
    <2> QED
      BY <2>1, ChainSyncAssumption DEF NewBlock, Block, BlockOf
  <1>6. b \in Seq(Block) /\ Len(b) = 1 /\ b[1] = block
    <2> HIDE DEF block
    <2> QED
      BY <1>5
  <1>7. Apply(l, b).chain = d
    BY DEF Apply
  <1>8. /\ ledger' = [ledger EXCEPT ![n] = Apply(l, b)]
        /\ wire' = wire \cup {d}
    BY <1>1, <1>7
  <1> HIDE DEF block, b
  <1>9. /\ d \in Seq(Block) /\ Len(d) = Len(c) + 1
        /\ \A h \in 1 .. Len(c) : d[h] = c[h]
        /\ d[Len(c) + 1].txs = work[n].txs
    <2> HIDE DEF l, c
    <2>1. /\ d \in Seq(Block) /\ Len(d) = Len(c) + 1
          /\ \A h \in 1 .. Len(c) : d[h] = c[h]
      BY <1>3, <1>6, OneMoreBlock
    <2>2. \A i \in 1 .. Len(c) + Len(b) :
             d[i] = IF i <= Len(c) THEN c[i] ELSE b[i - Len(c)]
      BY <1>3, <1>6, ConcatProperties
    <2>3. d[Len(c) + 1] = block
      <3>1. Len(c) + 1 \in 1 .. Len(c) + Len(b) /\ Len(c) + 1 - Len(c) = 1
        BY <1>3, <1>6
      <3>2. d[Len(c) + 1] = b[1]
        BY <1>3, <2>2, <3>1
      <3> QED
        BY <1>6, <3>2
    <2> QED
      BY <1>5, <2>1, <2>3
  <1> HIDE DEF d, c, l
  <1>10. MinedOnce(d)
    <2> SUFFICES ASSUME NEW g \in DOMAIN d, NEW h \in DOMAIN d, g < h
                 PROVE  d[g].txs \cap d[h].txs = {}
      <3>1. \A g \in DOMAIN d : g \in Int
        BY <1>9, LenProperties
      <3> QED
        BY <3>1 DEF MinedOnce
    <2>1. g \in 1 .. Len(c) + 1 /\ h \in 1 .. Len(c) + 1
      BY <1>9, LenProperties
    <2>2. g \in 1 .. Len(c) /\ d[g] = c[g] /\ g \in DOMAIN c
      BY <1>3, <1>9, <2>1, LenProperties
    <2>3. CASE h <= Len(c)
      <3>1. d[h] = c[h] /\ h \in DOMAIN c /\ g # h
        BY <1>3, <1>9, <2>1, <2>3, LenProperties
      <3> QED
        BY <1>3, <2>2, <3>1 DEF TransactionInv, MinedOnce
    <2>4. CASE h = Len(c) + 1
      <3>1. c[g].txs \subseteq MinedIn(c, 1)
        BY <2>2 DEF MinedIn
      <3> QED
        BY <1>4, <1>9, <2>2, <2>4, <3>1
    <2> QED
      BY <1>3, <2>1, <2>3, <2>4
  <1>11. Separate(Apply(l, b))
    <2>1. Separate(l)
      BY DEF TransactionInv, l
    <2> QED
      BY <1>3, <1>6, <2>1, ApplySeparate
  <1>12. \A m \in Nodes : Separate(ledger'[m])
    <2>1. \A m \in Nodes : ledger'[m] = ledger[m] \/ ledger'[m] = Apply(l, b)
      BY <1>3, <1>8 DEF TypeOK
    <2> QED
      BY <1>11, <2>1 DEF TransactionInv
  <1>13. \A m \in Nodes : WorkSeparate(m)'
    <2>1. \A m \in Nodes : work'[m] = NoWork \/ work'[m] = work[m]
      BY <1>2, <1>3 DEF TypeOK
    <2> QED
      BY <1>8, <2>1 DEF TransactionInv, WorkSeparate
  <1> QED
    BY <1>2, <1>8, <1>10, <1>12, <1>13 DEF TransactionInv, MinedOnce, Separate

\* A received block takes what it mined out of the pending transactions.
LEMMA ReceiveBlockTransactions ==
    ASSUME SyncInv, TransactionInv, NEW n \in Nodes, ReceiveBlock(n)
    PROVE  TransactionInv'
  <1> DEFINE l == ledger[n]
             height == Len(l.chain)
  <1>1. PICK c \in wire :
           /\ Len(c) = height + 1
           /\ ledger' = [ledger EXCEPT ![n] = Apply(l, <<c[height + 1]>>)]
    BY DEF ReceiveBlock
  <1>2. UNCHANGED <<work, job, wire>>
    BY DEF ReceiveBlock
  <1>3. /\ l \in LedgerSet /\ Separate(l) /\ c \in Seq(Block) /\ height \in Nat
        /\ ledger \in [Nodes -> LedgerSet]
    BY LenProperties DEF SyncInv, TypeOK, TransactionInv, LedgerSet
  <1>4. <<c[height + 1]>> \in Seq(Block)
    <2>1. c[height + 1] \in Block
      BY <1>1, <1>3, ElementOfSeq
    <2> QED
      BY <2>1
  <1>5. Separate(Apply(l, <<c[height + 1]>>))
    <2> HIDE DEF l, height
    <2> QED
      BY <1>3, <1>4, ApplySeparate
  <1>6. \A m \in Nodes : Separate(ledger'[m])
    <2>1. \A m \in Nodes : ledger'[m] = ledger[m] \/ ledger'[m] = Apply(l, <<c[height + 1]>>)
      BY <1>1, <1>3
    <2> QED
      BY <1>5, <2>1 DEF TransactionInv
  <1> QED
    BY <1>2, <1>6, QuietTransactions DEF TransactionInv

\* A validation starts from a ledger that separates its transactions.
LEMMA StartValidationTransactions ==
    ASSUME SyncInv, TransactionInv, NEW n \in Nodes, StartValidation(n)
    PROVE  TransactionInv'
  <1> DEFINE l == ledger[n]
  <1>1. PICK d \in wire : ValidateChain(n, d)
    BY DEF StartValidation
  <1>2. PICK a \in 0 .. Len(l.chain) :
           /\ a < Len(d)
           /\ job' = [job EXCEPT ![n] = [base   |-> TipHash(l.chain),
                                        ledger |-> ValidatedLedger(l, d, a)]]
    BY <1>1 DEF ValidateChain
  <1>3. UNCHANGED <<ledger, work, wire>>
    BY <1>1 DEF ValidateChain
  <1>4. l \in LedgerSet /\ Separate(l) /\ d \in Seq(Block) /\ TypeOK
    BY DEF SyncInv, TypeOK, TransactionInv
  <1>5. Separate(ValidatedLedger(l, d, a))
    <2> HIDE DEF l
    <2> QED
      BY <1>2, <1>4, ValidatedSeparate
  <1>6. \A m \in Nodes : job'[m] # NoJob => Separate(job'[m].ledger)
    <2> DEFINE v == ValidatedLedger(l, d, a)
    <2> HIDE DEF v
    <2>1. job' = [job EXCEPT ![n] = [base |-> TipHash(l.chain), ledger |-> v]]
      BY <1>2 DEF v
    <2>2. \A m \in Nodes : job'[m] = job[m] \/ job'[m].ledger = v
      BY <1>4, <2>1 DEF TypeOK
    <2> QED
      BY <1>5, <2>2 DEF TransactionInv, v
  <1> QED
    BY <1>3, <1>6, QuietTransactions DEF TransactionInv

\* An import takes over the validated ledger or keeps the local one.
LEMMA FinishValidationTransactions ==
    ASSUME SyncInv, TransactionInv, NEW n \in Nodes, FinishValidation(n)
    PROVE  TransactionInv'
  <1>1. /\ job[n] # NoJob /\ job' = [job EXCEPT ![n] = NoJob]
        /\ UNCHANGED <<work, wire>>
    BY DEF FinishValidation
  <1>2. \A m \in Nodes : ledger'[m] = ledger[m]
                            \/ (m = n /\ ledger'[m] = job[n].ledger)
    BY DEF FinishValidation, ImportVerifiedLedger, SyncInv, TypeOK
  <1>3. \A m \in Nodes : job'[m] = job[m] \/ job'[m] = NoJob
    BY <1>1 DEF SyncInv, TypeOK
  <1> QED
    BY <1>1, <1>2, <1>3, QuietTransactions DEF TransactionInv

\* A known transaction is not submitted again.
LEMMA SubmitTransactions ==
    ASSUME SyncInv, TransactionInv, NEW n \in Nodes, SubmitTransaction(n)
    PROVE  TransactionInv'
  <1>1. PICK t \in Tx \ (ledger[n].pending \cup MinedIn(ledger[n].chain, 1)) :
           ledger' = [ledger EXCEPT ![n].pending = @ \cup {t}]
    BY DEF SubmitTransaction
  <1>2. UNCHANGED <<work, job, wire>>
    BY DEF SubmitTransaction
  <1>3. ledger \in [Nodes -> LedgerSet]
    BY DEF SyncInv, TypeOK
  <1>4. /\ ledger'[n].chain = ledger[n].chain
        /\ ledger'[n].pending = ledger[n].pending \cup {t}
        /\ \A m \in Nodes \ {n} : ledger'[m] = ledger[m]
    BY <1>1, <1>3 DEF LedgerSet
  <1>5. \A m \in Nodes : Separate(ledger'[m])
    BY <1>1, <1>4 DEF TransactionInv, Separate
  <1> QED
    BY <1>2, <1>5, QuietTransactions DEF TransactionInv

\* Every step keeps the transactions apart.
LEMMA NextTransactionInv ==
    SyncInv /\ TransactionInv /\ [Next]_vars => TransactionInv'
  <1> SUFFICES ASSUME SyncInv, TransactionInv, [Next]_vars
               PROVE  TransactionInv'
    OBVIOUS
  <1>1. CASE UNCHANGED vars
    BY <1>1, QuietTransactions DEF vars, TransactionInv
  <1>2. ASSUME NEW n \in Nodes, CompleteStaleBlock(n)
        PROVE  TransactionInv'
    <2>1. \A m \in Nodes : work'[m] = NoWork \/ work'[m] = work[m]
      BY <1>2 DEF CompleteStaleBlock, SyncInv, TypeOK
    <2> QED
      BY <1>2, <2>1, QuietTransactions DEF CompleteStaleBlock, TransactionInv
  <1>3. ASSUME NEW n \in Nodes, ReceiveOtherBlock(n)
        PROVE  TransactionInv'
    BY <1>3, QuietTransactions DEF ReceiveOtherBlock, vars, TransactionInv
  <1> QED
    BY <1>1, <1>2, <1>3, PrepareBlockTransactions, CompleteBlockTransactions,
       ReceiveBlockTransactions, StartValidationTransactions,
       FinishValidationTransactions, SubmitTransactions DEF Next

\* A transaction is in at most one block of a node's chain and never mined and
\* pending at once, through forks, late validations and blocks in preparation
\* (transactions_to_restore, apply_block, prepare_automatic_finalization).
THEOREM NoTransactionTwiceHolds == Spec => []NoTransactionTwice
  <1>1. TransactionInv /\ SyncInv => NoTransactionTwice
    BY DEF TransactionInv, SyncInv, Replayed, NoTransactionTwice, Separate, MinedOnce
  <1>2. SyncInv /\ [Next]_vars => SyncInv'
    BY NextInv
  <1>3. SyncInv /\ TransactionInv /\ [Next]_vars => TransactionInv'
    BY NextTransactionInv
  <1> QED
    BY <1>1, <1>2, <1>3, InitInv, InitTransactionInv, PTL DEF Spec
=============================================================================
