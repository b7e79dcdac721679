---------------------------- MODULE Finalization ----------------------------
(* Automatic finalization: committee members sign the burns they know for    *)
(* the next block, the holder of a ranked ticket collects the signatures,    *)
(* prepares a block around its own burn, runs the VDF and publishes it when  *)
(* its time slot opens, while the chain may move to another branch at any    *)
(* moment.                                                                   *)
(*                                                                           *)
(* A burn is [id, owner, fee, for]: "for" is the grandparent hash it names,  *)
(* so it fits blocks on one branch.  A bundle is what a member signed for a  *)
(* slot.  Signatures cannot be forged: a bundle carries its member's name.   *)
(* The network duplicates, reorders and loses what was broadcast.            *)
EXTENDS Integers, Sequences, FiniteSets, FiniteSetsExt, SequencesExt, TLC

CONSTANTS
    Ranked,             \* nodes by finalizer rank, the same at every height
    Finalizers,         \* nodes with automatic mining enabled
    CommitteeLimit,     \* BURN_COMMITTEE_SIZE
    ObjectiveHeight,    \* OBJECTIVE_FINALITY_ACTIVATION_HEIGHT
    TopRankPercent,     \* recovery_vdf_top_rank_percent
    CollectTime,        \* BURN_BUNDLE_COLLECTION_MS
    SlotTime,           \* the delay of one finalizer rank
    RecoveryTime,       \* RECOVERY_BLOCK_DELAY_MS
    AnchorLead,         \* AUTO_PLAINTEXT_BURN_BEFORE_RECOVERY_MS
    BundleLimit,        \* burns that fit MAX_BURN_BUNDLE_BYTES
    Faults,             \* what may disturb a behaviour; one of them does
    LastHeight              \* bound

ASSUME RankedAssumption ==
    /\ IsInjective(Ranked) /\ Ranked # << >>
    /\ Finalizers \subseteq Range(Ranked)

VARIABLES
    node,       \* the state of each node
    sent,       \* what is in the network
    now,        \* the clock, the same for all
    signed,     \* every bundle that was ever signed, with the life of its signer
    fault       \* what disturbs this behaviour
finalVars == <<node, sent, now, signed, fault>>

Members == Range(Ranked)
None == << >>
GenesisTip == [height |-> 0, hash |-> 0, prev |-> -1, time |-> 0]

RankOf(n) == (CHOOSE i \in DOMAIN Ranked : Ranked[i] = n) - 1

----------------------------------------------------------------------------
(* The committee and its signatures.                                        *)

\* Slot 0 is the finalizer; who had a better rank has no seat.  Slots count from 0.
CommitteeSeq(rank) ==
    SubSeq(Ranked, rank + 1, Min({Len(Ranked), rank + CommitteeLimit}))
InSlot(rank, slot, member) ==
    slot + 1 \in DOMAIN CommitteeSeq(rank) /\ CommitteeSeq(rank)[slot + 1] = member

CheckedRanks == 0..(Min({Len(Ranked), CommitteeLimit}) - 1)

\* The slots a node signs for: each slot once, whichever rank it belongs to.
Memberships(n) == {slot \in 0..(CommitteeLimit - 1) : \E r \in CheckedRanks : InSlot(r, slot, n)}

Quorum(size) == IF size = 0 THEN 0 ELSE (size * 2) \div 3 + 1

\* Mutant: a recovery block needs the signatures of a ticket block.
RequiredInRecovery(height, mode, rank) ==
    LET size == Len(CommitteeSeq(rank))
    IN  IF size = 0 \/ rank > 1 THEN 0 ELSE Min({size, 2}) - 1

RequiredSignatures(height, mode, rank) ==
    LET size == Len(CommitteeSeq(rank))
    IN  IF mode = "recovery" \/ size = 0 \/ rank > 1 THEN 0
        ELSE IF rank = 1 THEN Min({size, 2}) - 1
        ELSE IF height >= ObjectiveHeight THEN Quorum(size) - 1
        ELSE Min({size, 3}) - 1

\* Higher fee first, smaller identifier among equals.
FeeOrder(b, c) == b.fee > c.fee \/ (b.fee = c.fee /\ b.id < c.id)
Sorted(burns) == SetToSortSeq(burns, FeeOrder)

Fits(tip, burn) == burn.for = tip.prev          \* in the next block
Queued(tip, burn) == burn.for \in {tip.prev, tip.hash}

Key(b) == <<b.height, b.slot, b.member>>

----------------------------------------------------------------------------
(* Bundles.                                                                 *)

\* What a member signs: the burns for the next block, the best ones that fit.
BuildBurnBundles(n, tip, pool) ==
    LET burns == Sorted({b \in pool : Fits(tip, b)})
    IN  {[height |-> tip.height + 1, prev |-> tip.hash, slot |-> slot, member |-> n,
          burns |-> SubSeq(burns, 1, Min({Len(burns), BundleLimit}))] : slot \in Memberships(n)}

\* The checks of one bundle against the committee of a rank.
PrecheckBurnBundle(tip, rank, b) ==
    /\ b.height = tip.height + 1
    /\ b.prev = tip.hash
    /\ InSlot(rank, b.slot, b.member)
    /\ Len(b.burns) <= BundleLimit
    /\ \A i \in DOMAIN b.burns : Fits(tip, b.burns[i])
    /\ \A i \in 1..(Len(b.burns) - 1) : FeeOrder(b.burns[i], b.burns[i + 1])

PrecheckNextBlockBurnBundle(tip, b) == \E r \in CheckedRanks : PrecheckBurnBundle(tip, r, b)

ValidateForCommittee(tip, rank, pool, bundles) ==
    /\ Cardinality(bundles) <= CommitteeLimit
    /\ \A b, c \in bundles : b # c => b.slot # c.slot /\ b.member # c.member
    /\ \A b \in bundles : PrecheckBurnBundle(tip, rank, b) /\ Range(b.burns) \subseteq pool

ValidateNextBlockBurnBundles(tip, pool, bundles) ==
    \E r \in CheckedRanks : ValidateForCommittee(tip, r, pool, bundles)

ValidateForFinalizerRank(tip, rank, pool, bundles) ==
    /\ ValidateForCommittee(tip, rank, pool, bundles)
    /\ Cardinality({b \in bundles : b.slot # 0})
          >= RequiredSignatures(tip.height + 1, "ticket", rank)

\* Mutant: every signature is taken to cover every burn of the section.
SectionOfAll(bundles) ==
    LET burns == Sorted(UNION {Range(b.burns) : b \in bundles})
        explicit == {b \in bundles : b.slot # 0}
    IN  [signatures |-> {[slot |-> b.slot, member |-> b.member, over |-> b] : b \in explicit},
         burns |-> [i \in DOMAIN burns |->
            [burn |-> burns[i], mask |-> {b.slot : b \in explicit}]]]

\* The section of a block: the signatures without their burns, and each burn once with
\* the slots that signed it; the finalizer's own list has no bit.
SectionFromBundles(bundles) ==
    LET burns == Sorted(UNION {Range(b.burns) : b \in bundles})
        explicit == {b \in bundles : b.slot # 0}
    IN  [signatures |-> {[slot |-> b.slot, member |-> b.member, over |-> b] : b \in explicit},
         burns |-> [i \in DOMAIN burns |->
            [burn |-> burns[i],
             mask |-> {b.slot : b \in {b \in explicit : burns[i] \in Range(b.burns)}}]]]

\* The bundles a section stands for.
Expand(section, height, prev) ==
    {[height |-> height, prev |-> prev, slot |-> s.slot, member |-> s.member,
      burns |-> LET of == SelectSeq(section.burns, LAMBDA m : s.slot \in m.mask)
                IN  [i \in DOMAIN of |-> of[i].burn]] : s \in section.signatures}

\* Every signature covers exactly the bundle that the section expands to.
ValidateSection(tip, block) ==
    LET section == block.section
        slots == {s.slot : s \in section.signatures}
    IN  /\ Cardinality(slots) = Cardinality(section.signatures)
        /\ \A s, t \in section.signatures : s.member = t.member => s = t
        /\ \A s \in section.signatures :
              s.slot # 0 /\ block.mode = "ticket" /\ InSlot(block.rank, s.slot, s.member)
        /\ Cardinality(slots) >= RequiredSignatures(block.height, block.mode, block.rank)
        /\ \A i \in DOMAIN section.burns :
              /\ section.burns[i].mask \subseteq slots
              /\ section.burns[i].burn \in block.body
        /\ \A s \in section.signatures : s.over \in Expand(section, block.height, block.prev)

----------------------------------------------------------------------------
(* Rules for a block.                                                       *)

RankRunsVdf(rank) ==
    \/ rank = 0
    \/ rank < (Len(Ranked) * TopRankPercent + 99) \div 100

MinTime(tip, mode, rank) ==
    IF mode = "recovery" THEN tip.time + RecoveryTime
    ELSE tip.time + (IF rank = 0 THEN 1 ELSE SlotTime * rank)

\* A block that a node on this tip accepts at a time.
AcceptableAt(tip, block, time) ==
    /\ block.height = tip.height + 1 /\ block.prev = tip.hash
    /\ block.time >= MinTime(tip, block.mode, block.rank)
    /\ block.time <= time
    /\ block.body # {} /\ \A b \in block.body : Fits(tip, b)
    /\ IF block.mode = "ticket" THEN Ranked[block.rank + 1] = block.miner
       ELSE \E b \in block.body : b.owner = block.miner
    /\ ValidateSection(tip, block)

Acceptable(tip, block) == AcceptableAt(tip, block, now)

TipOf(block) ==
    [height |-> block.height, hash |-> block.hash, prev |-> block.prev, time |-> block.time]

\* Between blocks of one height a ticket beats recovery, a better rank a worse one.
BetterBlock(b, c) ==
    IF b.mode # c.mode THEN b.mode = "ticket"
    ELSE b.rank < c.rank \/ (b.rank = c.rank /\ b.hash < c.hash)

----------------------------------------------------------------------------
(* The node's memory of the current height.                                 *)

Fresh(tip) ==
    [tip |-> tip, pool |-> {}, bundles |-> << >>, equivocated |-> {}, started |-> None,
     anchor |-> None, autoBurn |-> -1, autoAnchor |-> -1, work |-> None, enabled |-> TRUE,
     life |-> 0]

ClearStaleAnchor(s) ==
    [s EXCEPT !.anchor = IF @ # None /\ @[1] # s.tip.height THEN None ELSE @]

ClearStaleCollection(s) ==
    [s EXCEPT !.started = IF @ # None /\ @[1] # s.tip.height + 1 THEN None ELSE @]

\* Only the height decides what stays.
PruneBurnBundles(s) ==
    [s EXCEPT !.bundles = [k \in {k \in DOMAIN @ : k[1] > s.tip.height} |-> @[k]],
              !.equivocated = {k \in @ : k[1] > s.tip.height}]

ResetAutomaticMiningProgress(s) ==
    [s EXCEPT !.autoBurn = -1, !.autoAnchor = -1, !.started = None]

\* The pool keeps what is not in the block and still names the right branch.
OnTip(s, block) ==
    LET tip == TipOf(block)
    IN  [s EXCEPT !.tip = tip,
                  !.pool = {b \in @ : b \notin block.body /\ Queued(tip, b)}]

----------------------------------------------------------------------------
(* Automatic burns.                                                         *)

BurnId(n, height, tag) == height * 100 + n * 10 + tag
AnchorBurn(n, tip) ==
    [id |-> BurnId(n, tip.height, 1), owner |-> n, fee |-> 1, for |-> tip.prev]
QueuedBurn(n, tip) ==
    [id |-> BurnId(n, tip.height, 2), owner |-> n, fee |-> 1, for |-> tip.hash]

RecoveryAvailable(s) == now >= s.tip.time + RecoveryTime

NeedsAnchor(n, s) ==
    \/ RankRunsVdf(RankOf(n))
    \/ now + AnchorLead >= s.tip.time + RecoveryTime

PrepareAutomaticAnchorBurn(n, s) ==
    IF \/ ~NeedsAnchor(n, s)
       \/ (s.anchor # None /\ s.anchor[1] = s.tip.height)
       \/ s.autoAnchor = s.tip.height
    THEN s
    ELSE [s EXCEPT !.anchor = <<s.tip.height, AnchorBurn(n, s.tip)>>,
                   !.autoAnchor = s.tip.height]

\* One burn per height: the anchor when there is one, else a burn for the following block.
PrepareAutomaticBurn(n, s) ==
    LET t == PrepareAutomaticAnchorBurn(n, s)
    IN  IF t.anchor # s.anchor THEN [t EXCEPT !.autoBurn = t.tip.height]
        ELSE IF t.autoBurn = t.tip.height THEN t
        ELSE [t EXCEPT !.pool = @ \cup {QueuedBurn(n, t.tip)}, !.autoBurn = t.tip.height]

\* The pool a block or a bundle is built from; the anchor joins it when it fits.
PoolWithLocalAnchor(s) ==
    IF s.anchor # None /\ s.anchor[1] = s.tip.height /\ Queued(s.tip, s.anchor[2])
    THEN s.pool \cup {s.anchor[2]} ELSE s.pool

\* Starts or continues the collection; the result says whether it still waits.
BurnBundleCollection(n, s) ==
    LET runs == RankRunsVdf(RankOf(n)) /\ ~RecoveryAvailable(s)
        started == IF ~runs THEN None
                   ELSE IF s.started # None /\ s.started[1] = s.tip.height + 1 THEN s.started
                   ELSE <<s.tip.height + 1, now>>
    IN  [state |-> [s EXCEPT !.started = started],
         waits |-> started # None /\ now - started[2] < CollectTime]
----------------------------------------------------------------------------
(* Publishing bundles.                                                      *)

\* Bundles of new keys join the others.
WithBundles(bundles, new) ==
    [k \in DOMAIN bundles \cup {Key(b) : b \in new} |->
        IF k \in DOMAIN bundles THEN bundles[k] ELSE CHOOSE b \in new : Key(b) = k]

\* A slot signed before is only sent again; an equivocated slot is left alone.
PublishBurnBundle(n, s) ==
    LET built == {b \in BuildBurnBundles(n, s.tip, PoolWithLocalAnchor(s)) :
                    Key(b) \notin s.equivocated}
        new == {b \in built : Key(b) \notin DOMAIN s.bundles}
    IN  [state |-> [s EXCEPT !.bundles = WithBundles(@, new)],
         out |-> new \cup {s.bundles[Key(b)] : b \in built \ new},
         new |-> new]

\* By height and slot owner; the parent of a bundle is not looked at.
UsableBurnBundles(s, rank) ==
    {s.bundles[k] : k \in {k \in DOMAIN s.bundles :
        k[1] = s.tip.height + 1 /\ k \notin s.equivocated /\ InSlot(rank, k[2], k[3])}}

----------------------------------------------------------------------------
(* Preparing a block.  The result is None when the preparation fails.       *)

Prepared(n, s, mode, rank, time, section, pool) ==
    [height |-> s.tip.height + 1, prev |-> s.tip.hash, time |-> time, miner |-> n,
     mode |-> mode, rank |-> rank, section |-> section,
     body |-> {b \in pool : Fits(s.tip, b)}]

PrepareNextBlock(n, s) ==
    LET rank == RankOf(n)
        pool == PoolWithLocalAnchor(s)
        bundles == UsableBurnBundles(s, rank)
        block == Prepared(n, s, "ticket", rank, Max({now, MinTime(s.tip, "ticket", rank)}),
                          SectionFromBundles(bundles), pool)
    IN  IF ValidateForFinalizerRank(s.tip, rank, pool, bundles) /\ block.body # {}
        THEN block ELSE None

PrepareRecoveryBlock(n, s) ==
    LET block == Prepared(n, s, "recovery", 0, Max({now, s.tip.time + 1}),
                          SectionFromBundles({}), PoolWithLocalAnchor(s))
    IN  IF \E b \in block.body : b.owner = n THEN block ELSE None

\* The block with the time it is published at; recovery committed to its time before.
FinishAt(work, time) ==
    [work EXCEPT !.time = IF work.mode = "ticket" THEN Max({time, @}) ELSE @]

\* What a round of the finalizer prepares; nothing above the bound.
PrepareWork(n, s) ==
    IF s.tip.height >= LastHeight THEN None
    ELSE IF RecoveryAvailable(s) THEN PrepareRecoveryBlock(n, s)
    ELSE IF RankRunsVdf(RankOf(n)) THEN PrepareNextBlock(n, s)
    ELSE None

----------------------------------------------------------------------------
(* Chains: what was broadcast can be fetched, so a hash stands for a chain. *)

IsBlock(m) == "body" \in DOMAIN m
IsBundle(m) == "slot" \in DOMAIN m
IsBurn(m) == "owner" \in DOMAIN m
Blocks == {m \in sent : IsBlock(m)}
BlockWith(hash) == CHOOSE b \in Blocks : b.hash = hash

ChainTo(hash) ==
    LET path[h \in 0..Cardinality(Blocks)] ==
            IF h = 0 THEN << >> ELSE Append(path[BlockWith(h).prev], BlockWith(h))
    IN  path[hash]

MinedIn(chain) == UNION {chain[h].body : h \in DOMAIN chain}

\* A higher chain wins, then the better block where two chains first differ.
Prefers(block, tip) ==
    \/ block.height > tip.height
    \/ /\ block.height = tip.height
       /\ \E remote \in {ChainTo(block.hash)}, local \in {ChainTo(tip.hash)} :
          \E h \in DOMAIN local :
             BetterBlock(remote[h], local[h]) /\ SubSeq(remote, 1, h - 1) = SubSeq(local, 1, h - 1)

----------------------------------------------------------------------------
(* Actions.                                                                 *)

Horizon == RecoveryTime + 1

FinalInit ==
    /\ node = [n \in Members |-> [Fresh(GenesisTip) EXCEPT !.enabled = n \in Finalizers]]
    /\ sent = {}
    /\ now = 0
    /\ signed = {}
    /\ fault \in Faults

\* Time runs while some timer of a node waits for it.
Tick ==
    /\ \E n \in Members : node[n].tip.height < LastHeight /\ now < node[n].tip.time + Horizon
    /\ now' = now + 1
    /\ UNCHANGED <<node, sent, signed, fault>>

\* Work that would be refused when its time slot opens is dropped before the VDF.
Prechecked(tip, work) ==
    IF work = None THEN None
    ELSE IF AcceptableAt(tip, work, Max({now, work.time})) THEN work ELSE None

FinalizerStep(n, s, out, new) ==
    /\ node' = [node EXCEPT ![n] = s]
    /\ sent' = sent \cup out
    /\ signed' = signed \cup {[bundle |-> b, life |-> node[n].life] : b \in new}
    /\ UNCHANGED <<now, fault>>

\* One round of the finalizer under the node lock, and the check before the VDF.
AutoFinalize(n) ==
    /\ node[n].work = None
    /\ node[n].tip.height < LastHeight \/ fault = "fork"
    /\ \/ /\ ~node[n].enabled
          /\ \E published \in {PublishBurnBundle(n, node[n])} :
                FinalizerStep(n, published.state, published.out, published.new)
       \/ /\ node[n].enabled
          /\ \E burned \in {PrepareAutomaticBurn(n, node[n])} :
             \E collection \in {BurnBundleCollection(n, burned)} :
                \/ /\ collection.waits
                   /\ FinalizerStep(n, collection.state, burned.pool \ node[n].pool, {})
                \/ /\ ~collection.waits
                   /\ \E published \in {PublishBurnBundle(n, collection.state)} :
                      \E work \in {PrepareWork(n, published.state)} :
                         FinalizerStep(n,
                             [published.state EXCEPT !.work = Prechecked(node[n].tip, work)],
                             (burned.pool \ node[n].pool) \cup published.out, published.new)

\* The VDF is done and the time slot open.
CompletePreparedBlock(n) ==
    LET s == node[n]
    IN  /\ s.work # None /\ s.enabled /\ now >= s.work.time
        /\ \E block \in {FinishAt(s.work, now) @@ [hash |-> Cardinality(Blocks) + 1]} :
              IF Acceptable(s.tip, block)
              THEN /\ node' = [node EXCEPT ![n] = PruneBurnBundles(ClearStaleAnchor(
                                   OnTip([s EXCEPT !.work = None], block)))]
                   /\ sent' = sent \cup {block}
              ELSE /\ node' = [node EXCEPT ![n].work = None]
                   /\ UNCHANGED sent
        /\ UNCHANGED <<now, signed, fault>>

\* The VDF or the wait is given up.
CancelWork(n) ==
    /\ node[n].work # None
    /\ \/ node[n].work.prev # node[n].tip.hash
       \/ ~node[n].enabled
       \/ fault = "off"
    /\ node' = [node EXCEPT ![n].work = None]
    /\ UNCHANGED <<sent, now, signed, fault>>

ReceiveBurn(n, burn) ==
    /\ burn \notin node[n].pool /\ Queued(node[n].tip, burn)
    /\ node' = [node EXCEPT ![n].pool = @ \cup {burn}]
    /\ UNCHANGED <<sent, now, signed, fault>>

\* Mutant: the mark of an equivocated slot is not looked at.
ReceiveBundleUnmarked(s, b) ==
    LET t == [s EXCEPT !.pool = @ \cup Range(b.burns)]
        k == Key(b)
    IN  IF ~ValidateNextBlockBurnBundles(t.tip, t.pool, {b}) THEN t
        ELSE IF k \in DOMAIN t.bundles
        THEN IF t.bundles[k] = b THEN t
             ELSE [t EXCEPT !.bundles = [j \in DOMAIN @ \ {k} |-> @[j]], !.equivocated = @ \cup {k}]
        ELSE [t EXCEPT !.bundles = WithBundles(@, {b})]

\* The burns join the pool; two different bundles of one slot disqualify it.
ReceivedBundle(s, b) ==
    LET t == [s EXCEPT !.pool = @ \cup Range(b.burns)]
        k == Key(b)
    IN  IF ~ValidateNextBlockBurnBundles(t.tip, t.pool, {b}) \/ k \in t.equivocated THEN t
        ELSE IF k \in DOMAIN t.bundles
        THEN IF t.bundles[k] = b THEN t
             ELSE [t EXCEPT !.bundles = [j \in DOMAIN @ \ {k} |-> @[j]], !.equivocated = @ \cup {k}]
        ELSE [t EXCEPT !.bundles = WithBundles(@, {b})]

ReceiveBurnBundle(n, b) ==
    /\ PrecheckNextBlockBurnBundle(node[n].tip, b)
    /\ \E s \in {ReceivedBundle(node[n], b)} : node' = [node EXCEPT ![n] = s]
    /\ UNCHANGED <<sent, now, signed, fault>>

ReceiveBlock(n, block) ==
    /\ Acceptable(node[n].tip, block)
    /\ node' = [node EXCEPT ![n] =
          PruneBurnBundles(ClearStaleCollection(ClearStaleAnchor(OnTip(@, block))))]
    /\ UNCHANGED <<sent, now, signed, fault>>

\* The tip of another branch, with the burns of the abandoned one restored.
OnBranch(s, block, local, remote) ==
    LET tip == TipOf(block)
    IN  [s EXCEPT !.tip = tip,
                  !.pool = {b \in (s.pool \cup MinedIn(local)) \ MinedIn(remote) : Queued(tip, b)}]

\* import_verified_ledger: the better of two branches.
Reorganize(n, block) ==
    \E local \in {ChainTo(node[n].tip.hash)}, remote \in {ChainTo(block.hash)} :
        /\ Prefers(block, node[n].tip) /\ ~IsPrefix(local, remote)
        /\ block.time <= now
        /\ node' = [node EXCEPT ![n] = PruneBurnBundles(ClearStaleCollection(ClearStaleAnchor(
              ResetAutomaticMiningProgress(OnBranch(@, block, local, remote)))))]
        /\ UNCHANGED <<sent, now, signed, fault>>

\* (Bound: while the VDF runs.)
DisableMining(n) ==
    /\ fault = "off" /\ n = Last(Ranked) /\ node[n].work # None
    /\ node' = [node EXCEPT ![n].enabled = FALSE]
    /\ fault' = "on"
    /\ UNCHANGED <<sent, now, signed>>

\* What was burned at this height is forgotten, and the node burns at once.
EnableMining(n) ==
    LET s == node[n]
        on == [s EXCEPT !.enabled = TRUE, !.autoBurn = -1, !.autoAnchor = -1]
    IN  /\ fault = "on" /\ n = Last(Ranked)
        /\ \E t \in {PrepareAutomaticBurn(n, on)} :
              /\ node' = [node EXCEPT ![n] = t]
              /\ sent' = sent \cup (t.pool \ s.pool)
        /\ fault' = "none"
        /\ UNCHANGED <<now, signed>>

\* The chain and the pending transactions are on disk, the rest is lost.  (Bound: once, and
\* when there is something to lose.)
Restart(n) ==
    /\ fault = "restart" /\ node[n].life = 0 /\ n = Last(Ranked) /\ node[n].bundles # << >>
    /\ node' = [node EXCEPT ![n] = [Fresh(@.tip) EXCEPT
          !.pool = node[n].pool, !.enabled = node[n].enabled, !.life = 1]]
    /\ UNCHANGED <<sent, now, signed, fault>>

Receive(n) ==
    \E m \in sent :
        \/ IsBurn(m) /\ ReceiveBurn(n, m)
        \/ IsBundle(m) /\ ReceiveBurnBundle(n, m)
        \/ IsBlock(m) /\ ReceiveBlock(n, m)
        \/ IsBlock(m) /\ Reorganize(n, m)

FinalNext ==
    \/ Tick
    \/ \E n \in Members :
          \/ AutoFinalize(n)
          \/ CompletePreparedBlock(n)
          \/ CancelWork(n)
          \/ Receive(n)
          \/ DisableMining(n)
          \/ EnableMining(n)
          \/ Restart(n)

FinalSpec == FinalInit /\ [][FinalNext]_finalVars

\* The finalizer loop of every node keeps running; nothing has to be delivered.
FairFinalSpec ==
    /\ FinalSpec
    /\ WF_finalVars(Tick)
    /\ \A n \in Members :
          WF_finalVars(AutoFinalize(n) \/ CompletePreparedBlock(n) \/ CancelWork(n))

----------------------------------------------------------------------------
(* Properties.                                                              *)

\* Every burn in a pool, every timer and every cached bundle is about the current height:
\* the memory of a height is dropped whichever way the chain leaves it.
MemoryOfThisHeight ==
    \A n \in Members :
        LET s == node[n]
        IN  /\ \A b \in s.pool : Queued(s.tip, b)
            /\ \A k \in DOMAIN s.bundles : Key(s.bundles[k]) = k /\ k[1] = s.tip.height + 1
            /\ \A k \in s.equivocated : k[1] = s.tip.height + 1
            /\ s.anchor # None => s.anchor[1] = s.tip.height
            /\ s.autoBurn <= s.tip.height /\ s.autoAnchor <= s.tip.height

\* Between two starts a member signs one bundle for its slot and height, however its
\* pool changes, whichever bundles of its own come back to it and on whichever branch.
SignsOnce ==
    \A x, y \in signed : (Key(x.bundle) = Key(y.bundle) /\ x.life = y.life) => x = y

\* A slot with two different bundles is out for the height: no later bundle for it is
\* kept, so no block can be built on it.
EquivocatedNeverUsed ==
    \A n \in Members : DOMAIN node[n].bundles \cap node[n].equivocated = {}

\* What a node remembers of a height and its bundles is sound, through blocks, forks,
\* restarts and bundles in any order (receive.rs, automatic_mining.rs).
BundlesSound == MemoryOfThisHeight /\ SignsOnce /\ EquivocatedNeverUsed

\* A bundle stays with its signer until its height is decided or the signer restarts,
\* unless the slot is equivocated meanwhile.
SignedIsKept ==
    \A x \in signed :
        LET s == node[x.bundle.member]
            k == Key(x.bundle)
        IN  (x.life = s.life /\ x.bundle.height > s.tip.height) =>
                \/ k \in s.equivocated
                \/ k \in DOMAIN s.bundles /\ s.bundles[k] = x.bundle

\* A record with the fields of a node.
IsState(s) ==
    s = [tip |-> s.tip, pool |-> s.pool, bundles |-> s.bundles,
         equivocated |-> s.equivocated, started |-> s.started, anchor |-> s.anchor,
         autoBurn |-> s.autoBurn, autoAnchor |-> s.autoAnchor, work |-> s.work,
         enabled |-> s.enabled, life |-> s.life]

\* The inductive invariant behind BundlesSound: besides what it says itself, signed
\* bundles are remembered, and heights and lives are numbers that only grow.
BundlesInv ==
    /\ node = [n \in Members |-> node[n]]
    /\ \A n \in Members :
          /\ IsState(node[n])
          /\ node[n].tip.height \in Nat /\ node[n].life \in Nat
          /\ node[n].autoBurn \in Int /\ node[n].autoAnchor \in Int
    /\ \A m \in sent : IsBlock(m) => m.height \in Nat
    /\ \A x \in signed :
          /\ x = [bundle |-> x.bundle, life |-> x.life]
          /\ x.bundle.member \in Members
          /\ x.bundle.height \in Nat
          /\ x.life \in 0..node[x.bundle.member].life
    /\ SignedIsKept
    /\ BundlesSound

\* What the builder prepares from signatures collected one by one is what the validator
\* accepts: the check before the VDF and the application after it never refuse it.
PreparedIsAcceptable ==
    \A n \in Members :
        LET s == node[n]
            work == PrepareNextBlock(n, s)
        IN  work # None =>
              /\ ValidateSection(s.tip, work)
              /\ Expand(work.section, work.height, work.prev)
                    = {b \in UsableBurnBundles(s, RankOf(n)) : b.slot # 0}

\* Every node gets to the last height: by its ticket, by a better-ranked one or by recovery.
ChainAdvances == 
    fault # "off" => <>[](\A n \in Members : node[n].tip.height = LastHeight)
=============================================================================
