------------------------------- MODULE Ledger -------------------------------
(* The consensus state of one node and how a block changes it: unspent       *)
(* outputs, lineage indexes, burn tickets, retargeting, the committee, and   *)
(* the part of the chain that stays resident once history is pruned.         *)
(*                                                                           *)
(* The state is one record, so that an operation is a function from ledgers  *)
(* to ledgers, as a Ledger value is in the code.  "full" is the whole chain, *)
(* which a pruned node no longer holds.  The VDF output of a block is its    *)
(* "seed", the randomness of every draw for the next height.                 *)
EXTENDS LedgerOps

CONSTANTS
    Allocation,         \* genesis allocations: a function from addresses to amounts
    GenesisBurns,       \* genesis burns: a sequence of [owner, amount]
    GenesisBonus,       \* BLOCK_REWARD, paid once to the first genesis burner
    TicketMaturity, TicketExpiry,
    InvalidationHeight, \* MISSED_FALLBACK_TICKET_INVALIDATION_HEIGHT
    LineageMaturity, CommitteeSize,
    TargetTime,         \* VDF_TARGET_BLOCK_MS
    RecoveryDelay,      \* RECOVERY_BLOCK_DELAY_MS
    FutureDrift,        \* MAX_BLOCK_TIMESTAMP_FUTURE_DRIFT_MS
    MedianWindow, RoundsWindow, MineWindow,
    MinBits, InitialBits, InitialRounds, MaxRounds,
    MinePerAnchor,      \* MINE_ACTIONS_PER_ANCHOR_LIMIT
    TipBoundHeight,     \* TIP_BOUND_BURN_ACTIVATION_HEIGHT
    MaxBlockTxs, MaxBlockBytes,
    DrawBlocks,         \* RESIDENT_TICKET_DRAW_BLOCKS
    ResidentBlocks      \* RESIDENT_CHAIN_BLOCKS

Tip(L) == L.chain[Len(L.chain)]
Body(b) == b.v1 \o b.v2
NextHeight(L) == Tip(L).height + 1

----------------------------------------------------------------------------
(* Weighted draws.                                                          *)

\* The first position whose cumulative weight exceeds the draw; 0 without weight.
FirstReached(weights, draw) ==
    Min({i \in DOMAIN weights : draw < SumSeq(SubSeq(weights, 1, i))})

DrawnOf(weights, digest, total) ==
    IF total = 0 THEN 0 ELSE FirstReached(weights, digest % total)

SelectWeighted(weights, digest) == DrawnOf(weights, digest, SumSeq(weights))

Eligible(ticket, height) == ticket.from <= height /\ height <= ticket.until

\* The elements of a sequence at some positions, in order.
PickNext(picked, s, positions, i) == IF i \in positions THEN Append(picked, s[i]) ELSE picked

PickedUpTo(s, positions) ==
    LET picked[i \in 0..Len(s)] ==
            IF i = 0 THEN << >> ELSE PickNext(picked[i - 1], s, positions, i)
    IN  picked

Picked(s, positions) == PickedUpTo(s, positions)[Len(s)]

EligibleTickets(tickets, height) ==
    Picked(tickets, {i \in DOMAIN tickets : Eligible(tickets[i], height)})

MoveToRanked(s, i) ==
    IF i = 0 THEN s
    ELSE [ranked |-> Append(s.ranked, s.left[i]), left |-> RemoveAt(s.left, i)]

DrawRank(s, digest) ==
    MoveToRanked(s, SelectWeighted([j \in DOMAIN s.left |-> s.left[j].amount], digest))

\* The tickets of the first n ranks and those left, for every n. The digest of a draw is
\* the seed shifted by the rank or slot that it is for.
RanksDrawn(seed, eligible) ==
    LET drawn[n \in 0..Len(eligible)] ==
            IF n = 0 THEN [ranked |-> << >>, left |-> eligible]
            ELSE DrawRank(drawn[n - 1], seed + n - 1)
    IN  drawn

RankedOf(seed, eligible) == RanksDrawn(seed, eligible)[Len(eligible)].ranked

RankedTickets(seed, height, tickets) ==
    RankedOf(seed, EligibleTickets(tickets, height))

NextRanks(L) == RankedTickets(Tip(L).seed, NextHeight(L), L.tickets)

\* What the draws read of a ledger: its indexes and its tip, and no block below.
AtTip(L) == [L EXCEPT !.chain = <<Tip(L)>>, !.pruned = FALSE]

----------------------------------------------------------------------------
(* Lineage: every output that descends from a mine carries the newest mine   *)
(* of its ancestors, its root <<height, outpoint>>.                          *)

NoRoot == << >>
NoOwner == 0

OutpointLess(o, p) == o[1] < p[1] \/ (o[1] = p[1] /\ o[2] < p[2])
RootLess(r, s) == r[1] < s[1] \/ (r[1] = s[1] /\ OutpointLess(r[2], s[2]))

NewestLineageRoot(roots) ==
    IF roots = {} THEN NoRoot
    ELSE CHOOSE r \in roots : \A s \in roots : ~RootLess(r, s)

\* Mutant: a root or an owner whose last output is spent stays in the indexes.
SpendKeepingEmptyEntries(L, spent) ==
    LET tracked == spent \cap DOMAIN L.lineage
        of(r) == {o \in tracked : L.lineage[o] = r}
        held(k) == {o \in of(k[1]) : L.utxos[o].owner = k[2]}
    IN  [L EXCEPT
            !.utxos = Drop(@, spent),
            !.lineage = Drop(@, tracked),
            !.values = [r \in DOMAIN @ |->
                @[r] - Sum([o \in of(r) |-> L.utxos[o].amount], of(r))],
            !.owners = [k \in DOMAIN @ |-> Drop(@[k], held(k))]]

\* The spent outputs leave both indexes; an entry that becomes empty is removed.
SpendInputsWithLineage(L, spent) ==
    LET tracked == spent \cap DOMAIN L.lineage
        of(r) == {o \in tracked : L.lineage[o] = r}
        value(r) == L.values[r] - Sum([o \in of(r) |-> L.utxos[o].amount], of(r))
        held(k) == Drop(L.owners[k], {o \in of(k[1]) : L.utxos[o].owner = k[2]})
    IN  [L EXCEPT
            !.utxos = Drop(@, spent),
            !.lineage = Drop(@, tracked),
            !.values = [r \in {r \in DOMAIN @ : value(r) # 0} |-> value(r)],
            !.owners = [k \in {k \in DOMAIN @ : DOMAIN held(k) # {}} |-> held(k)]]

InsertOutputsWithLineage(L, t, root) ==
    LET created == CreatedOutputs(t)
        amount == [o \in DOMAIN created |-> created[o].amount]
        ownerKeys == {<<root, created[o].owner>> : o \in DOMAIN created}
        of(k) == {o \in DOMAIN created : created[o].owner = k[2]}
        before(f, k, none) == IF k \in DOMAIN f THEN f[k] ELSE none
        M == [L EXCEPT !.utxos = Merge(@, created)]
    IN  IF root = NoRoot \/ DOMAIN created = {} THEN M
        ELSE [M EXCEPT
                !.lineage = Merge(@, [o \in DOMAIN created |-> root]),
                !.values = Merge(@, [r \in {root} |->
                    before(@, root, 0) + Sum(amount, DOMAIN created)]),
                !.owners = Merge(@, [k \in ownerKeys |->
                    Merge(before(@, k, << >>), [o \in of(k) |-> amount[o]])])]

ApplyTransactionWithLineage(L, t, height) ==
    IF IsMine(t) THEN InsertOutputsWithLineage(L, t, <<height, <<t, 1>>>>)
    ELSE LET roots == {L.lineage[o] : o \in Inputs(t) \cap DOMAIN L.lineage}
         IN  InsertOutputsWithLineage(SpendInputsWithLineage(L, Inputs(t)), t,
                                      NewestLineageRoot(roots))

----------------------------------------------------------------------------
(* The burn committee: the finalizer in slot 0, then owners of mature        *)
(* lineage, drawn by weight among the owners of eligible tickets.            *)

Weight(value) == Max({n \in 0..value : 2 ^ n <= value + 1})

\* The legacy identity that a hybrid address is bound to.
Identity(L, owner) == IF owner \in DOMAIN L.binds THEN L.binds[owner] ELSE owner

HasOwner(L, root, identity) ==
    \E k \in DOMAIN L.owners : k[1] = root /\ Identity(L, k[2]) = identity

\* The identity that holds the largest output of a root, the smallest outpoint among equals.
Representative(L, root, skipped, eligible) ==
    LET keys == {k \in DOMAIN L.owners :
                    /\ k[1] = root
                    /\ Identity(L, k[2]) \in eligible \ skipped}
        held == UNION {{<<k, o>> : o \in DOMAIN L.owners[k]} : k \in keys}
        amount(h) == L.owners[h[1]][h[2]]
        best == CHOOSE h \in held : \A g \in held :
                    \/ amount(g) < amount(h)
                    \/ amount(g) = amount(h) /\ ~OutpointLess(g[2], h[2])
    IN  IF held = {} THEN NoOwner ELSE Identity(L, best[1][2])

\* Roots in the order of their outpoints.
InRootOrder(roots) ==
    CHOOSE s \in [1..Cardinality(roots) -> roots] :
        \A i, j \in DOMAIN s : i < j => OutpointLess(s[i][2], s[j][2])

EligibleLineageCandidates(L, skipped) ==
    InRootOrder({r \in DOMAIN L.values :
                    /\ Weight(L.values[r]) > 0
                    /\ r[1] + LineageMaturity <= Tip(L).height
                    /\ \A owner \in skipped : ~HasOwner(L, r, owner)})

\* The roots that an eligible owner represents, those already drawn left out.
Represented(L, roots, skipped, eligible) ==
    Picked(roots, {i \in DOMAIN roots : Representative(L, roots[i], skipped, eligible) # NoOwner})

\* The owner of the root drawn for a slot joins, and owns no further slot.
WithMember(L, s, slot, i, owner, eligible) ==
    [members |-> Append(s.members, [slot |-> slot, root |-> s.left[i][2], owner |-> owner]),
     skip |-> s.skip \cup {owner},
     left |-> Represented(L, RemoveAt(s.left, i), s.skip \cup {owner}, eligible)]

DrawSlot(L, s, slot, i, eligible) ==
    IF i = 0 THEN s
    ELSE WithMember(L, s, slot, i, Representative(L, s.left[i], s.skip, eligible), eligible)

\* Before the first draw: the finalizer in slot 0.
FinalizerSeated(L, finalizer, skipped, eligible) ==
    [members |-> <<[slot |-> 0, root |-> finalizer.id, owner |-> finalizer.owner]>>,
     skip |-> skipped,
     left |-> Represented(L, EligibleLineageCandidates(L, skipped), skipped, eligible)]

DrawNext(L, s, slot, eligible) ==
    DrawSlot(L, s, slot,
             SelectWeighted([j \in DOMAIN s.left |-> Weight(L.values[s.left[j]])],
                            Tip(L).seed + slot),
             eligible)

\* The members and what is left to draw after each slot.
SlotsDrawn(L, finalizer, skipped, eligible) ==
    LET drawn[slot \in 0..(CommitteeSize - 1)] ==
            IF slot = 0 THEN FinalizerSeated(L, finalizer, skipped, eligible)
            ELSE DrawNext(L, drawn[slot - 1], slot, eligible)
    IN  drawn

CommitteeDrawn(L, finalizer, skipped, eligible) ==
    SlotsDrawn(L, finalizer, skipped, eligible)[CommitteeSize - 1].members

CommitteeOfRanked(L, rank, ranked) ==
    IF rank >= Len(ranked) THEN << >>
    ELSE CommitteeDrawn(L, ranked[rank + 1], {ranked[i].owner : i \in 1..(rank + 1)},
                        {ranked[i].owner : i \in DOMAIN ranked})

LineageBurnCommittee(L, rank) == CommitteeOfRanked(AtTip(L), rank, NextRanks(L))

BurnCommitteeForBlock(L, b) ==
    IF b.mode = "ticket" THEN LineageBurnCommittee(L, b.rank)
    ELSE <<[slot |-> 0, root |-> <<b.hash, 0>>, owner |-> b.miner]>>

\* The owner of each committee slot, for the rewards.
OwnersBySlot(committee) ==
    [s \in {committee[i].slot : i \in DOMAIN committee} |-> committee[s + 1].owner]

----------------------------------------------------------------------------
(* Tickets.                                                                 *)

TicketOwner(t) == IF IsV2(t) THEN TxTable[t].legacy ELSE Owner(t)

\* A legacy burn of nothing makes no ticket.
TicketsCreatedByBlock(b) ==
    LET txs == Body(b)
        burns == Picked(txs, {i \in DOMAIN txs :
                    IsBurn(txs[i]) /\ (IsV2(txs[i]) \/ Burned(txs[i]) > 0)})
    IN  [i \in DOMAIN burns |->
            [id |-> <<burns[i], 0>>, owner |-> TicketOwner(burns[i]),
             amount |-> Burned(burns[i]), from |-> b.height + TicketMaturity,
             until |-> b.height + TicketMaturity + TicketExpiry - 1]]

\* One ticket per genesis burn for each height before the first burns mature; without
\* genesis burns one ticket of weight 1 for the last funded address.
GenesisTickets ==
    LET funded == {a \in DOMAIN Allocation : Allocation[a] > 0}
        burns == Picked(GenesisBurns, {i \in DOMAIN GenesisBurns : GenesisBurns[i].amount > 0})
        sources == IF burns # << >> THEN burns
                   ELSE IF funded = {} THEN << >>
                   ELSE <<[owner |-> Max(funded), amount |-> 1]>>
        count == Len(sources)
    IN  [i \in 1..(TicketMaturity * count) |->
            LET height == (i - 1) \div count + 1
                source == ((i - 1) % count) + 1
            IN  [id |-> <<-source, height>>, owner |-> sources[source].owner,
                 amount |-> sources[source].amount, from |-> height, until |-> height]]

\* From the invalidation height on, a fallback block spends every eligible ticket
\* of the owners that missed their turn and of the finalizer.
InvalidatedAtIndex(L, b, ranked, index) ==
    LET missed == {ranked[i].owner : i \in 1..index}
    IN  IF b.height < InvalidationHeight \/ index = 1 THEN {b.ticket}
        ELSE {L.tickets[i].id : i \in {j \in DOMAIN L.tickets :
                 Eligible(L.tickets[j], b.height) /\ L.tickets[j].owner \in missed}}

InvalidatedOfRanked(L, b, ranked) ==
    InvalidatedAtIndex(L, b, ranked, CHOOSE i \in DOMAIN ranked : ranked[i].id = b.ticket)

InvalidatedTicketIds(L, b) == InvalidatedOfRanked(AtTip(L), b, NextRanks(L))

\* Mutant: tickets leave only when they expire.
ExpireTicketsOnly(L, b) == SelectSeq(L.tickets, LAMBDA t : t.until > b.height)

TicketsKept(tickets, spent, height) ==
    Picked(tickets, {i \in DOMAIN tickets :
                        tickets[i].id \notin spent /\ tickets[i].until > height})

TicketsNotEligible(tickets, height) ==
    Picked(tickets, {i \in DOMAIN tickets :
                        ~Eligible(tickets[i], height) /\ tickets[i].until > height})

ApplyFinalizerTicketEffects(L, b) ==
    IF b.mode = "ticket" THEN TicketsKept(L.tickets, InvalidatedTicketIds(L, b), b.height)
    ELSE TicketsNotEligible(L.tickets, b.height)

----------------------------------------------------------------------------
(* Retargeting.                                                             *)

Clamp(x, low, high) == IF x < low THEN low ELSE IF x > high THEN high ELSE x

RetargetVdfRounds(current, observed) ==
    LET deadband == (TargetTime * 10) \div 100
        step == Max({(current * 2) \div 100, 1})
    IN  IF observed \in (TargetTime - deadband)..(TargetTime + deadband) THEN current
        ELSE Clamp((current * TargetTime) \div Max({observed, 1}),
                   Max({current - step, 1}), Min({current + step, MaxRounds}))

\* Only rank 0 blocks are observed, and not the first one, whose parent has no real time.
RecordVdfRetargetObservation(L, b) ==
    LET observed == Clamp(b.time - Tip(L).time, TargetTime \div 4, TargetTime * 4)
        all == Append(L.observations, observed)
    IN  IF Tip(L).height = 0 \/ b.mode # "ticket" \/ b.rank # 0 THEN L.observations
        ELSE IF Len(all) > RoundsWindow THEN Tail(all) ELSE all

NextVdfRoundsAfterTip(L) ==
    IF Tip(L).height < 2 \/ L.observations = << >> THEN L.rounds
    ELSE RetargetVdfRounds(Tip(L).rounds \div (Tip(L).rank + 1),
                           SumSeq(L.observations) \div Len(L.observations))

FloorLog2Ratio(n, d) == IF d = 0 \/ n <= d THEN 0 ELSE Max({k \in 0..n : d * 2 ^ k <= n})

RetargetMineDifficultyBits(current, actions) ==
    LET up == FloorLog2Ratio(actions, MineWindow)
        down == IF actions = 0 THEN 2 ELSE FloorLog2Ratio(MineWindow, actions)
    IN  Max({current + Min({up, 2}) - (IF actions < MineWindow THEN Min({down, 2}) ELSE 0),
             MinBits})

MineActionCount(b) == Cardinality({i \in DOMAIN b.v1 : IsMine(b.v1[i])})

\* At the end of a window, the mines of the last resident blocks set the next difficulty.
UpdateMineDifficultyCache(L) ==
    LET height == Tip(L).height
        recent == {i \in DOMAIN L.chain : i > Len(L.chain) - MineWindow}
        actions == Sum([i \in recent |-> MineActionCount(L.chain[i])], recent)
    IN  IF height = 0 \/ height % MineWindow # 0 \/ Len(L.windows) >= height \div MineWindow + 1
        THEN L.windows
        ELSE Append(L.windows, RetargetMineDifficultyBits(Last(L.windows), actions))

MineDifficultyBits(L, anchorHeight) == L.windows[anchorHeight \div MineWindow + 1]

----------------------------------------------------------------------------
(* What a block has to satisfy.                                             *)

MedianOf(times) == SortSeq(times, <)[Len(times) \div 2 + 1]

MedianTimePast(L) ==
    LET recent == SubSeq(L.chain, Max({1, Len(L.chain) - MedianWindow + 1}), Len(L.chain))
    IN  MedianOf([i \in DOMAIN recent |-> recent[i].time])

\* A mine names a resident block of the last window and that block's difficulty.
TermsHold(L, t) ==
    /\ Genuine(t)
    /\ Fee(t) > 0
    /\ IsMine(t) =>
        \E i \in DOMAIN L.chain :
            /\ L.chain[i].hash = Anchor(t)
            /\ Tip(L).height - L.chain[i].height <= MineWindow
            /\ TxTable[t].bits = MineDifficultyBits(L, L.chain[i].height)

\* A burn is bound to the block's grandparent once that rule is active; before, a v1 burn
\* has no anchor and that of a v2 burn is not looked at.
AnchorHoldsForBlock(L, t, height) ==
    IsBurn(t) =>
        IF height < TipBoundHeight THEN IsV2(t) \/ Anchor(t) = NoAnchor
        ELSE Anchor(t) = Tip(L).prev

\* The pool also keeps burns for the block after the next, which name the tip.
AnchorHoldsForPending(L, t) ==
    IsBurn(t) =>
        \/ IsV2(t) /\ Anchor(t) \in {Tip(L).hash, Tip(L).prev}
        \/ ~IsV2(t) /\ NextHeight(L) < TipBoundHeight /\ Anchor(t) = NoAnchor
        \/ ~IsV2(t) /\ NextHeight(L) >= TipBoundHeight /\ Anchor(t) = Tip(L).prev
        \/ ~IsV2(t) /\ NextHeight(L) + 1 >= TipBoundHeight /\ Anchor(t) = Tip(L).hash

TicketBlockMinTimestamp(parent, rank) ==
    parent.time + (IF rank = 0 THEN 1 ELSE 2 * TargetTime * rank)

WithinMineAnchorLimit(txs) ==
    \A i \in DOMAIN txs : IsMine(txs[i]) =>
        Cardinality({j \in DOMAIN txs : IsMine(txs[j]) /\ Anchor(txs[j]) = Anchor(txs[i])})
            <= MinePerAnchor

HasBurnFrom(txs, owner) ==
    \E i \in DOMAIN txs : IsBurn(txs[i]) /\ TicketOwner(txs[i]) = owner

\* A transaction is in the chain once.
NotReplays(L, b) ==
    \A i \in DOMAIN Body(b) : Body(b)[i] \notin L.mined

\* The ticket of a block is the one drawn for its rank, and its miner owns it.
FinalizesByRank(b, ranked) ==
    /\ b.rank < Len(ranked)
    /\ ranked[b.rank + 1].owner = b.miner
    /\ ranked[b.rank + 1].id = b.ticket

\* The checks made before the VDF is verified; the burn section is its own component.
PrecheckBlock(L, b, now) ==
    LET txs == Body(b)
    IN  /\ b.height = NextHeight(L)
        /\ b.prev = Tip(L).hash
        /\ NotReplays(L, b)
        /\ FeeReward(txs) <= MaxAmount
        /\ b.reward = FeeReward(txs)
        /\ b.rounds = L.rounds * (IF b.mode = "ticket" THEN b.rank + 1 ELSE 1)
        /\ b.time > Tip(L).time
        /\ b.time > MedianTimePast(L)
        /\ b.time <= now + FutureDrift
        /\ Len(txs) <= MaxBlockTxs
        /\ SumSeq([i \in DOMAIN txs |-> Bytes(txs[i])]) <= MaxBlockBytes
        /\ WithinMineAnchorLimit(b.v1)
        /\ \E i \in DOMAIN txs : IsBurn(txs[i])
        /\ \/ /\ b.mode = "ticket"
              /\ b.time >= TicketBlockMinTimestamp(Tip(L), b.rank)
              /\ FinalizesByRank(b, NextRanks(L))
           \/ /\ b.mode = "recovery"
              /\ b.rank = 0
              /\ b.time >= Tip(L).time + RecoveryDelay
              /\ HasBurnFrom(txs, b.miner)

\* Every transaction of the block applies after the ones before it.
BodyApplies(L, b) ==
    LET txs == Body(b)
    IN  /\ Cardinality(Range(txs)) = Len(txs)
        /\ \A i \in DOMAIN txs :
              /\ TermsHold(L, txs[i])
              /\ AnchorHoldsForBlock(L, txs[i], b.height)
        /\ AllApply(txs, L.utxos)

\* A hybrid address may not be bound to a second legacy identity.
BindingsAgree(L, b) ==
    \A t, u \in Range(b.v2) :
        /\ Owner(t) \in DOMAIN L.binds => L.binds[Owner(t)] = TxTable[t].legacy
        /\ Owner(t) = Owner(u) => TxTable[t].legacy = TxTable[u].legacy

BlockValid(L, b, now) == PrecheckBlock(L, b, now) /\ BodyApplies(L, b) /\ BindingsAgree(L, b)

----------------------------------------------------------------------------
(* What a block does.                                                       *)

\* The tickets a block was drawn from, kept for the last DrawBlocks heights.
RecordTicketDraw(L, b) ==
    LET kept == {h \in DOMAIN L.draws : h > b.height - DrawBlocks}
    IN  [h \in kept \cup {b.height} |->
            IF h # b.height THEN L.draws[h]
            ELSE [hash |-> b.hash, seed |-> Tip(L).seed,
                  tickets |-> EligibleTickets(L.tickets, b.height)]]

HybridBindings(b) ==
    LET spends == {t \in Range(b.v2) : Kind(t) # "migration"}
    IN  [a \in {Owner(t) : t \in spends} |->
            TxTable[CHOOSE t \in spends : Owner(t) = a].legacy]

WithWindows(L) == [L EXCEPT !.windows = UpdateMineDifficultyCache(L)]

WithNextRounds(L) == [L EXCEPT !.rounds = NextVdfRoundsAfterTip(L)]

\* The ledger after the first i transactions of a block, for every i.
LedgerAfter(L, txs, height) ==
    LET after[i \in 0..Len(txs)] ==
            IF i = 0 THEN L ELSE ApplyTransactionWithLineage(after[i - 1], txs[i], height)
    IN  after

ApplyTransactions(L, b) == LedgerAfter(L, Body(b), b.height)[Len(Body(b))]

\* M is the ledger L with the transactions of the block applied.
WithBlockEffects(L, b, M) ==
    [M EXCEPT
        !.binds = Merge(HybridBindings(b), @),
        !.tickets = ApplyFinalizerTicketEffects(L, b) \o TicketsCreatedByBlock(b),
        !.utxos = CreditRewardOutputs(@, b, b.reward, OwnersBySlot(BurnCommitteeForBlock(L, b))),
        !.mined = @ \cup Range(Body(b)),
        !.draws = RecordTicketDraw(L, b),
        !.observations = RecordVdfRetargetObservation(L, b),
        !.chain = Append(@, b)]

\* The state after a block that is known to be valid.
ApplyTrustedBlock(L, b) ==
    WithNextRounds(WithWindows(WithBlockEffects(L, b, ApplyTransactions(L, b))))

\* Only a genesis with burns pays a reward.
Genesis ==
    LET burned == GenesisBurns # << >>
    IN  [hash |-> 0, height |-> 0, prev |-> -1, time |-> 0,
         miner |-> IF burned THEN GenesisBurns[1].owner ELSE Min(DOMAIN Allocation),
         mode |-> "ticket", rank |-> 0, ticket |-> << >>, signed |-> {}, v1 |-> << >>,
         v2 |-> << >>, seed |-> 0, reward |-> IF burned THEN GenesisBonus ELSE 0, rounds |-> 0]

GenesisBurnOf(address) ==
    SumSeq([i \in DOMAIN GenesisBurns |->
        IF GenesisBurns[i].owner = address THEN GenesisBurns[i].amount ELSE 0])

\* The allocations less the genesis burns, each at an outpoint of its address.
UtxosAfterGenesis ==
    LET left == [a \in DOMAIN Allocation |-> Allocation[a] - GenesisBurnOf(a)]
        allocated == [o \in {<<0, a>> : a \in {a \in DOMAIN left : left[a] > 0}} |->
                        [owner |-> o[2], amount |-> left[o[2]]]]
    IN  CreditRewardOutputs(allocated, Genesis, Genesis.reward, << >>)

GenesisLedger ==
    [chain |-> <<Genesis>>, utxos |-> UtxosAfterGenesis, lineage |-> << >>, values |-> << >>,
     owners |-> << >>, binds |-> << >>, tickets |-> GenesisTickets, mined |-> {},
     windows |-> <<InitialBits>>, observations |-> << >>, rounds |-> InitialRounds,
     draws |-> << >>, pruned |-> FALSE]

\* The ledger after the first i of some valid blocks, for every i.
LedgersFrom(L, blocks) ==
    LET after[i \in 0..Len(blocks)] ==
            IF i = 0 THEN L ELSE ApplyTrustedBlock(after[i - 1], blocks[i])
    IN  after

ReplayOnto(L, blocks) == LedgersFrom(L, blocks)[Len(blocks)]

\* The ledger rebuilt from the whole chain, as a restart does.
Replay(blocks) == ReplayOnto(GenesisLedger, Tail(blocks))

----------------------------------------------------------------------------
(* Pruning.                                                                 *)

\* Mutant: fewer blocks stay than the retargeting windows need.
RetainOneBlock(L, limit) ==
    IF Len(L.chain) <= 2 THEN L
    ELSE [L EXCEPT !.chain = <<Head(@), Last(@)>>, !.pruned = TRUE]

RetainRecentChainBlocks(L, limit) ==
    IF Len(L.chain) <= limit + 1 THEN L
    ELSE [L EXCEPT !.chain = <<Head(@)>> \o SubSeq(@, Len(@) - limit + 1, Len(@)),
                   !.pruned = TRUE]

ResidentBlockAt(L, height) == {b \in Range(L.chain) : b.height = height}

\* The resident blocks above a height: the last ones of the chain.
NewerBlocks(L, height) ==
    LET count == Cardinality({i \in DOMAIN L.chain : L.chain[i].height > height})
    IN  SubSeq(L.chain, Len(L.chain) - count + 1, Len(L.chain))

ExtendsRestored(L, tip) ==
    \/ tip \in Range(L.chain)
    \/ \E b \in ResidentBlockAt(L, tip.height + 1) : b.prev = tip.hash

WithHistory(L, restored) ==
    IF Tip(restored).hash # Tip(L).hash THEN L
    ELSE [L EXCEPT !.chain = restored.chain, !.pruned = FALSE]

\* Reattach history from a complete ledger of an earlier tip of the same chain.
RestorePrunedHistory(L, complete) ==
    IF ~L.pruned \/ ~ExtendsRestored(L, Tip(complete)) THEN L
    ELSE WithHistory(L, ReplayOnto(complete, NewerBlocks(L, Tip(complete).height)))

\* Ranks of a past block from its retained draw, without replaying history.
CachedBurnLeaderRanks(L, b) ==
    RankedTickets(L.draws[b.height].seed, b.height, L.draws[b.height].tickets)
=============================================================================
