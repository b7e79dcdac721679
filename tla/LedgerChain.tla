----------------------------- MODULE LedgerChain ----------------------------
(* One ledger that takes block after block, ticket or recovery, and whose    *)
(* resident history is pruned and restored along the way.                    *)
EXTENDS Ledger

CONSTANTS
    MaxHeight,      \* bound on the chain
    Seeds,          \* VDF outputs
    Delays,         \* how long after its earliest time a block is made
    Bodies          \* the transactions of a block: [v1, v2]

\* Genesis names funded addresses, the finalizer sits on every committee, and what is read
\* of past blocks lies within the resident ones (protocol.rs:43, mine_policy.rs:7, app.rs:55).
ASSUME ChainAssumption ==
    /\ \A body \in Bodies : body.v1 \in Seq(TxIds) /\ body.v2 \in Seq(TxIds)
    /\ IsFiniteSet(DOMAIN Allocation)
    /\ \A a \in DOMAIN Allocation : a \in Nat \ {0} /\ Allocation[a] \in 0..MaxAmount
    /\ \E a \in DOMAIN Allocation : Allocation[a] > 0
    /\ GenesisBurns \in Seq(Range(GenesisBurns))
    /\ \A i \in DOMAIN GenesisBurns : GenesisBurns[i].amount \in Nat
    /\ GenesisBonus \in 0..MaxAmount
    /\ Seeds \subseteq Nat /\ Delays \subseteq Nat
    /\ TicketMaturity \in Nat \ {0} /\ TicketExpiry \in Nat \ {0}
    /\ CommitteeSize \in Nat \ {0}
    /\ ResidentBlocks \in Nat
    /\ MineWindow \in 1..ResidentBlocks /\ MedianWindow \in 1..ResidentBlocks
    /\ MinBits \in Nat /\ InitialBits \in Nat /\ MinBits <= InitialBits
    /\ MaxRounds \in Nat /\ InitialRounds \in 1..MaxRounds
    /\ TargetTime \in Nat /\ RecoveryDelay \in Nat /\ LineageMaturity \in Nat

VARIABLES ledger, full
ledgerVars == <<ledger, full>>

LedgerInit ==
    /\ ledger = GenesisLedger
    /\ full = <<Genesis>>

\* A block on the tip, finished by the holder of a ranked ticket or in recovery.
NewBlock(mode, rank, miner, ticket, body, delay, signed, seed) ==
    [hash |-> NextHeight(ledger), height |-> NextHeight(ledger), prev |-> Tip(ledger).hash,
     time |-> delay + (IF mode = "ticket" THEN TicketBlockMinTimestamp(Tip(ledger), rank)
                       ELSE Tip(ledger).time + RecoveryDelay),
     miner |-> miner, mode |-> mode, rank |-> rank, ticket |-> ticket, signed |-> signed,
     v1 |-> body.v1, v2 |-> body.v2, seed |-> seed, reward |-> FeeReward(body.v1 \o body.v2),
     rounds |-> ledger.rounds * (rank + 1)]

ApplyBlock(b) ==
    /\ BlockValid(ledger, b, b.time)
    /\ ledger' = ApplyTrustedBlock(ledger, b)
    /\ full' = Append(full, b)

TicketBlock(rank, ticket, body, delay, seed) ==
    \E signed \in {{0}, DOMAIN OwnersBySlot(LineageBurnCommittee(ledger, rank))} :
        ApplyBlock(NewBlock("ticket", rank, ticket.owner, ticket.id, body, delay, signed, seed))

FinalizeTicketBlock ==
    /\ Tip(ledger).height < MaxHeight
    /\ \E ranked \in {NextRanks(ledger)}, body \in Bodies, delay \in Delays, seed \in Seeds :
          \E rank \in 0..(Len(ranked) - 1) :
              TicketBlock(rank, ranked[rank + 1], body, delay, seed)

FinalizeRecoveryBlock ==
    /\ Tip(ledger).height < MaxHeight
    /\ \E miner \in DOMAIN Allocation, body \in Bodies, seed \in Seeds :
          ApplyBlock(NewBlock("recovery", 0, miner, << >>, body, 0, {}, seed))

Prune ==
    /\ ledger' = RetainRecentChainBlocks(ledger, ResidentBlocks)
    /\ ledger' # ledger
    /\ UNCHANGED full

\* A complete ledger is loaded at a saved tip of this chain; a node prunes no block that
\* is not saved, so that tip is not below the resident window.
Restore ==
    /\ ledger.pruned
    /\ \E k \in DOMAIN full :
          /\ full[k].height + 1 >= ledger.chain[2].height
          /\ ledger' = RestorePrunedHistory(ledger, Replay(SubSeq(full, 1, k)))
    /\ ledger' # ledger
    /\ UNCHANGED full

LedgerNext == FinalizeTicketBlock \/ FinalizeRecoveryBlock \/ Prune \/ Restore

LedgerSpec == LedgerInit /\ [][LedgerNext]_ledgerVars

----------------------------------------------------------------------------
(* Properties.                                                              *)

LedgerTypeOK ==
    /\ Head(ledger.chain) = Genesis
    /\ \A o \in DOMAIN ledger.utxos : ledger.utxos[o].amount \in 1..MaxAmount
    /\ DOMAIN ledger.lineage \subseteq DOMAIN ledger.utxos
    /\ ledger.rounds \in 1..MaxRounds
    /\ \A i \in DOMAIN ledger.windows : ledger.windows[i] >= MinBits

\* Nothing creates an output of nothing: the wallet builders and the validation of version 2
\* refuse one, the validation of version 1 does not (ledger_builders.rs:656,
\* transaction_v2.rs:599).
PositiveOutputs ==
    \A t \in TxIds : \A o \in DOMAIN CreatedOutputs(t) : CreatedOutputs(t)[o].amount > 0

\* What the outputs hold, and what a block adds to it: a mine creates its reward and its fee.
Total(utxos) == Sum([o \in DOMAIN utxos |-> utxos[o].amount], DOMAIN utxos)
Minted(t) == IF IsMine(t) THEN MineReward + Fee(t) ELSE 0
Issued(b) == SumSeq([i \in DOMAIN Body(b) |-> Minted(Body(b)[i]) - Burned(Body(b)[i])])

\* Fees are paid out in full, only mines create value and only burns destroy it
\* (reward_outputs_for_block splits the reward without losing a unit).
SupplyConserved ==
    Total(ledger.utxos) = Total(UtxosAfterGenesis) + SumSeq([i \in DOMAIN full |-> Issued(full[i])])

\* Both lineage indexes, kept up to date per transaction, are what the outputs and their
\* roots say: no entry is stale, missing or empty.
LineageIndexesExact ==
    LET L == ledger
        rooted(r) == {o \in DOMAIN L.lineage : L.lineage[o] = r}
        roots == {L.lineage[o] : o \in DOMAIN L.lineage}
    IN  /\ L.values = [r \in roots |-> Sum([o \in rooted(r) |-> L.utxos[o].amount], rooted(r))]
        /\ L.owners = [k \in {<<L.lineage[o], L.utxos[o].owner>> : o \in DOMAIN L.lineage} |->
                [o \in {p \in rooted(k[1]) : L.utxos[p].owner = k[2]} |-> L.utxos[o].amount]]

\* No ticket finalizes two blocks, whatever fallbacks and recoveries came between.
TicketFinalizesOnce ==
    \A i, j \in 2..Len(full) :
        (i # j /\ full[i].mode = "ticket") => full[i].ticket # full[j].ticket

\* The next height always has a finalizer: the burns of the block TicketMaturity below it
\* cannot have been spent or invalidated before they mature.
NextHeightHasFinalizer ==
    (\A i \in 2..Len(full) : \E t \in Range(Body(full[i])) : Burned(t) > 0)
        => NextRanks(ledger) # << >>

\* A burn is drawn at most once for the block it bought, and there always is somebody who
\* may finish the next one, through expiry, invalidation and recovery.
FinalizersSound == TicketFinalizesOnce /\ NextHeightHasFinalizer

NoneTwice(committee) ==
    \A i, j \in DOMAIN committee : i # j =>
        /\ committee[i].owner # committee[j].owner
        /\ committee[i].root # committee[j].root

\* No identity and no lineage root sits on a committee twice, at any rank.
CommitteeDistinct ==
    \A rank \in 0..(Len(NextRanks(ledger)) - 1) : NoneTwice(LineageBurnCommittee(ledger, rank))

\* The outputs and their lineage are sound: amounts fit, both indexes are what the outputs
\* and their roots say, and no owner and no root sits in a committee twice
\* (spend_inputs_with_lineage, lineage_burn_committee_for_height).
LineageSound == LedgerTypeOK /\ LineageIndexesExact /\ CommitteeDistinct

AgreesWith(whole) ==
    /\ ledger = [whole EXCEPT !.chain = ledger.chain, !.pruned = ledger.pruned]
    /\ MedianTimePast(ledger) = MedianTimePast(whole)
    /\ ~ledger.pruned => ledger.chain = full

\* The ranks shown for a retained block are the ones the block was finalized under.
CachedRanksAreHistorical ==
    \A i \in 2..Len(full) : full[i].height \in DOMAIN ledger.draws =>
        CachedBurnLeaderRanks(ledger, full[i]) = NextRanks(Replay(SubSeq(full, 1, i - 1)))

\* What a node keeps after pruning and restoring, block by block, is what a restart
\* rebuilds from the whole chain: outputs, tickets, difficulty, rounds, and the draws of
\* past blocks.
KeptStateIsReplayed == AgreesWith(Replay(full)) /\ CachedRanksAreHistorical
=============================================================================
