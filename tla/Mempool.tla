------------------------------- MODULE Mempool ------------------------------
(* The pool of transactions that wait for a block: admission, orphans,       *)
(* eviction, v2 transactions, selection of a block's content, and what a new *)
(* block or a reorganization leaves of the pool.                             *)
(*                                                                           *)
(* A pool is a record: pending, orphans and v2 are sequences in order of     *)
(* admission, the byte counters are kept beside them as in the code.         *)
EXTENDS Ledger

CONSTANTS
    MaxPending, MaxOrphans, MaxPoolBytes,
    Miners,             \* addresses that finalize blocks
    OtherBodies,        \* content of blocks made elsewhere: [v1, v2]
    MaxChain, MaxForks  \* bounds on the chain and on reorganizations

VARIABLES mledger, mchain, pool, forks
mempoolVars == <<mledger, mchain, pool, forks>>

EmptyPool ==
    [pending |-> << >>, orphans |-> << >>, v2 |-> << >>,
     pendingBytes |-> 0, orphanBytes |-> 0, v2Bytes |-> 0]

PoolLen(txs) == SumSeq([i \in DOMAIN txs |-> Bytes(txs[i])])
SpentBy(txs) == UNION {Inputs(txs[i]) : i \in DOMAIN txs}
Without(txs, S) == SelectSeq(txs, LAMBDA t : t \notin S)

----------------------------------------------------------------------------
(* What the pool makes of the outputs.                                      *)

MinesOn(txs, anchor) == Len(SelectSeq(txs, LAMBDA t : IsMine(t) /\ Anchor(t) = anchor))
MineAnchorCount(L, anchor) ==
    SumSeq([i \in DOMAIN L.chain |-> MinesOn(L.chain[i].v1, anchor)])

Waits(L, s, t) ==
    /\ t \notin Range(s.valid)
    /\ IsMine(t) => MineAnchorCount(L, Anchor(t)) + MinesOn(s.valid, Anchor(t)) < MinePerAnchor
    /\ TermsHold(L, t)
    /\ AnchorHoldsForPending(L, t)
    /\ CanApply(t, s.utxos)

TakeWaiting(L, s, t) ==
    IF Waits(L, s, t)
    THEN [valid |-> Append(s.valid, t), utxos |-> AfterSpending(t, s.utxos)]
    ELSE s

\* Passes over the pool until none adds a transaction: what applies, in the order found,
\* and the outputs it leaves.
PassesOver(L, txs) ==
    FoldLeft(LAMBDA s, n : FoldLeft(LAMBDA r, t : TakeWaiting(L, r, t), s, txs),
             [valid |-> << >>, utxos |-> L.utxos], txs)

ValidPendingTransactions(L, P) == PassesOver(L, P.pending).valid

UtxosAfterValidPending(L, P) == PassesOver(L, P.pending).utxos

\* Outputs of pending mines cannot be spent by what is built on this set.
UtxosAfterSpendablePending(L, P) ==
    ApplyEach(SelectSeq(ValidPendingTransactions(L, P), LAMBDA t : ~IsMine(t)), L.utxos)

\* Every v2 entry has to apply on top; the code fails when one does not.
AppliesAfter(txs, t, utxos) == AllApply(Append(txs, t), utxos)

ValidateMineAnchorAvailable(L, P, t) ==
    IsMine(t) =>
        MineAnchorCount(L, Anchor(t)) + MinesOn(P.pending, Anchor(t))
            + MinesOn(Without(P.orphans, {t}), Anchor(t)) < MinePerAnchor

ValidateNewTransaction(L, P, t) ==
    /\ TermsHold(L, t)
    /\ AnchorHoldsForPending(L, t)
    /\ Bytes(t) <= MaxBlockBytes
    /\ ValidateMineAnchorAvailable(L, P, t)
    /\ CanApply(t, UtxosAfterSpendablePending(L, P))

----------------------------------------------------------------------------
(* Orphans.                                                                 *)

AppliesTo(available, t) == ~HasMissingInputs(t, available) /\ CanApply(t, available)

Promotable(L, P, t) ==
    /\ Inputs(t) \cap SpentBy(P.pending) = {}
    /\ P.pendingBytes + Bytes(t) <= MaxPoolBytes
    /\ AppliesTo(UtxosAfterValidPending(L, P), t)
    /\ ValidateNewTransaction(L, P, t)

Promoted(P, t) ==
    [P EXCEPT !.orphans = Without(@, {t}), !.orphanBytes = @ - Bytes(t),
              !.pending = Append(@, t), !.pendingBytes = @ + Bytes(t)]

PromoteFirst(P, ready) ==
    IF Len(P.pending) >= MaxPending \/ ready = {} THEN P
    ELSE Promoted(P, P.orphans[Min(ready)])

\* One orphan moves to the pool, the first that can.
PromoteOne(L, P) ==
    PromoteFirst(P, {i \in DOMAIN P.orphans : Promotable(L, P, P.orphans[i])})

PromoteOrphanTransactions(L, P) == FoldLeft(LAMBDA Q, n : PromoteOne(L, Q), P, P.orphans)

----------------------------------------------------------------------------
(* Eviction.  Connected pending transactions leave the pool together, the    *)
(* cheapest package first, and only for a candidate that pays a better rate. *)

RefreshByteCounters(P) ==
    [P EXCEPT !.pendingBytes = PoolLen(P.pending), !.orphanBytes = PoolLen(P.orphans)]

Spends(child, parent) == \E o \in Inputs(child) : o[1] = parent

\* The transactions of a set that are connected to t through spent outputs.
Package(txs, t) ==
    LET grow[n \in 0..Cardinality(txs)] ==
            IF n = 0 THEN {t}
            ELSE {u \in txs : \E v \in grow[n - 1] : u = v \/ Spends(u, v) \/ Spends(v, u)}
    IN  grow[Cardinality(txs)]

SetFee(S) == Sum([t \in S |-> Fee(t)], S)
SetBytes(S) == Sum([t \in S |-> Bytes(t)], S)
PaysLess(S, T) == SetFee(S) * SetBytes(T) < SetFee(T) * SetBytes(S)

ComparePackages(S, T) ==
    \/ PaysLess(S, T)
    \/ /\ ~PaysLess(T, S)
       /\ \/ SetFee(S) < SetFee(T)
          \/ SetFee(S) = SetFee(T) /\ Min(S) < Min(T)

OrphanDescendants(P, evicted) ==
    LET grow[n \in 0..Len(P.orphans)] ==
            IF n = 0 THEN evicted
            ELSE grow[n - 1] \cup
                 {t \in Range(P.orphans) : \E u \in grow[n - 1] : Spends(t, u)}
    IN  grow[Len(P.orphans)]

FitsPending(P, t, evicted) ==
    /\ Len(P.pending) - Cardinality(evicted) < MaxPending
    /\ PoolLen(P.pending) - SetBytes(evicted) + Bytes(t) <= MaxPoolBytes

\* Mutant: single transactions are evicted, whatever depends on them.
EvictSingles(P, t) ==
    {S \in {{u} : u \in Range(P.pending)} : PaysLess(S, {t}) /\ FitsPending(P, t, S)}

\* Mutant: a candidate that pays the same rate displaces what is there.
EvictEqualRate(P, t) == {{u} : u \in Range(P.pending)}

FirstPackages(packages, k) == UNION {packages[i] : i \in 1..k}

CheapestPackages(P, t, packages) ==
    LET enough == {k \in 0..Len(packages) : FitsPending(P, t, FirstPackages(packages, k))}
    IN  {OrphanDescendants(P, FirstPackages(packages, k)) : k \in
            {k \in enough : /\ k = Min(enough)
                            /\ \A i \in 1..k : PaysLess(packages[i], {t})}}

\* The evicted transactions, in a set that is empty when the candidate is refused.
PendingEvictionPlan(P, t) ==
    LET all == {Package(Range(P.pending), u) : u \in Range(P.pending)}
    IN  CheapestPackages(P, t,
            SetToSortSeq({S \in all : \A u \in S : ~Spends(t, u)}, ComparePackages))

----------------------------------------------------------------------------
(* Admission.                                                               *)

HasTransaction(L, P, t) == t \in L.mined \cup Range(P.pending) \cup Range(P.orphans)

ConflictsWithPool(P, t) ==
    Inputs(t) \cap (SpentBy(P.pending) \cup SpentBy(P.orphans)
        \cup SpentBy(SelectSeq(P.v2, LAMBDA u : Kind(u) = "migration"))) # {}

RefusedOutright(L, P, t) ==
    \/ HasTransaction(L, P, t)
    \/ ~TermsHold(L, t)
    \/ ~AnchorHoldsForPending(L, t)
    \/ Bytes(t) > MaxBlockBytes
    \/ ~ValidateMineAnchorAvailable(L, P, t)
    \/ ConflictsWithPool(P, t)

AddOrphan(P, t) ==
    IF Len(P.orphans) >= MaxOrphans \/ P.orphanBytes + Bytes(t) > MaxPoolBytes THEN P
    ELSE [P EXCEPT !.orphans = Append(@, t), !.orphanBytes = @ + Bytes(t)]

Evicted(P, evicted) ==
    IF evicted = {} THEN P
    ELSE RefreshByteCounters([P EXCEPT !.pending = Without(@, evicted),
                                       !.orphans = Without(@, evicted)])

\* What stays is the pool without what was evicted for the candidate.
AddPending(L, P, stays, t) ==
    IF ~CanApply(t, UtxosAfterValidPending(L, stays)) THEN P
    ELSE PromoteOrphanTransactions(L,
            [stays EXCEPT !.pending = Append(@, t), !.pendingBytes = @ + Bytes(t)])

MakeRoom(L, P, t, room) ==
    IF room = {} THEN P ELSE AddPending(L, P, Evicted(P, CHOOSE S \in room : TRUE), t)

SubmitOn(L, P, t, available) ==
    IF HasMissingInputs(t, available) THEN AddOrphan(P, t)
    ELSE IF ~CanApply(t, available) THEN P
    ELSE MakeRoom(L, P, t, IF FitsPending(P, t, {}) THEN {{}} ELSE PendingEvictionPlan(P, t))

\* The pool after a v1 transaction was offered; unchanged when it is refused.
SubmitTransaction(L, P, t) ==
    IF RefusedOutright(L, P, t) THEN P
    ELSE SubmitOn(L, P, t, UtxosAfterValidPending(L, P))

\* v2 transactions share the limits, evict nothing and have no orphans.
SubmitTransactionV2(L, P, t) ==
    IF /\ AnchorHoldsForPending(L, t)
       /\ t \notin Range(P.v2)
       /\ Fee(t) > 0
       /\ Bytes(t) <= MaxBlockBytes
       /\ Len(P.pending) + Len(P.v2) < MaxPending
       /\ P.pendingBytes + P.v2Bytes + Bytes(t) <= MaxPoolBytes
       /\ AppliesAfter(P.v2, t, UtxosAfterSpendablePending(L, P))
    THEN [P EXCEPT !.v2 = Append(@, t), !.v2Bytes = @ + Bytes(t)]
    ELSE P

SubmitEach(L, P, txs) ==
    FoldLeft(LAMBDA Q, t : IF IsV2(t) THEN SubmitTransactionV2(L, Q, t)
                           ELSE SubmitTransaction(L, Q, t), P, txs)

----------------------------------------------------------------------------
(* The pool after a block.                                                  *)

WithV2(P, kept) == [P EXCEPT !.v2 = kept, !.v2Bytes = PoolLen(kept)]

KeepV2(L, s, t) ==
    IF AnchorHoldsForPending(L, t) /\ CanApply(t, s.utxos)
    THEN [kept |-> Append(s.kept, t), utxos |-> AfterSpending(t, s.utxos)]
    ELSE s

RevalidatePendingV2(L, P) ==
    WithV2(P, FoldLeft(LAMBDA s, t : KeepV2(L, s, t),
                       [kept |-> << >>, utxos |-> UtxosAfterSpendablePending(L, P)],
                       P.v2).kept)

\* Only transactions whose inputs are confirmed stay pending; L is the ledger after b.
PoolAfterBlock(L, P, b) ==
    LET holds(t) == t \notin Range(b.v1) /\ TermsHold(L, t) /\ AnchorHoldsForPending(L, t)
        filtered == [P EXCEPT
            !.pending = SelectSeq(@, LAMBDA t : holds(t) /\ ~HasMissingInputs(t, L.utxos)),
            !.orphans = SelectSeq(@, holds)]
    IN  RevalidatePendingV2(L, PromoteOrphanTransactions(L, RefreshByteCounters(filtered)))

\* The new chain starts with an empty pool and is offered what the node held and what
\* the abandoned blocks contained.
PoolAfterReorganization(L, P, stale) ==
    LET v1 == P.pending \o P.orphans \o FlattenSeq([i \in DOMAIN stale |-> stale[i].v1])
        v2 == FlattenSeq([i \in DOMAIN stale |-> stale[i].v2]) \o P.v2
    IN  SubmitEach(L, EmptyPool, Without(v1, L.mined) \o Without(v2, L.mined))

----------------------------------------------------------------------------
(* Selection of a block's content.                                          *)

Rate(t) == (Fee(t) * 1000) \div Bytes(t)

\* The best applicable v1 transaction of a set: rate, fee, burns first, smaller identifier.
Better(t, u) ==
    \/ Rate(t) > Rate(u)
    \/ /\ Rate(t) = Rate(u)
       /\ \/ Fee(t) > Fee(u)
          \/ Fee(t) = Fee(u) /\ IsBurn(t) /\ ~IsBurn(u)
          \/ Fee(t) = Fee(u) /\ IsBurn(t) = IsBurn(u) /\ t < u

BestSelectable(txs, utxos) ==
    {t \in Range(txs) : CanApply(t, utxos)
        /\ \A u \in Range(txs) \ {t} : CanApply(u, utxos) => Better(t, u)}

FirstOfBestRate(txs, can) ==
    {txs[i] : i \in {i \in can : \A j \in can : \/ Rate(txs[j]) < Rate(txs[i])
                                                \/ Rate(txs[j]) = Rate(txs[i]) /\ i <= j}}

\* The first applicable v2 transaction of the highest rate.
BestSelectableV2(txs, utxos) ==
    FirstOfBestRate(txs, {i \in DOMAIN txs : CanApply(txs[i], utxos)})

\* A selection in progress; "ok" is false once the code has given up on the block.
Take(s, t) ==
    IF ~s.ok \/ ~CanApply(t, s.utxos) THEN [s EXCEPT !.ok = FALSE]
    ELSE [s EXCEPT !.utxos = AfterSpending(t, @),
                   !.v1 = IF IsV2(t) THEN @ ELSE Append(@, t),
                   !.v2 = IF IsV2(t) THEN Append(@, t) ELSE @,
                   !.left = Without(@, {t}), !.left2 = Without(@, {t})]

\* A required v2 burn brings its pending v2 ancestors with it, parents first.
TakeWithPendingParents(s, t) ==
    LET grow[n \in 0..Len(s.left2)] ==
            IF n = 0 THEN {t}
            ELSE grow[n - 1] \cup {u \in Range(s.left2) : \E v \in grow[n - 1] :
                    \E o \in Inputs(v) : o[1] = u /\ o \notin DOMAIN s.utxos}
    IN  FoldLeft(Take, s, SelectSeq(s.left2, LAMBDA u : u \in grow[Len(s.left2)]))

RequiredBurn(s, signature, own, own2) ==
    IF signature \in Range(own) THEN Take(s, signature)
    ELSE IF signature \in Range(own2) THEN TakeWithPendingParents(s, signature)
    ELSE [s EXCEPT !.ok = FALSE]

OwnBurn(s, legacy, own2) ==
    IF legacy # {} THEN Take(s, CHOOSE t \in legacy : TRUE)
    ELSE IF own2 # << >> THEN TakeWithPendingParents(s, Head(own2))
    ELSE s

\* The finalizer's own burn, the required one when a signature is given (0: none).
TakeAnchorBurn(s, miner, signature) ==
    LET own == SelectSeq(s.left, LAMBDA t : IsBurn(t) /\ Owner(t) = miner)
        own2 == SelectSeq(s.left2, LAMBDA t : IsBurn(t) /\ TicketOwner(t) = miner)
    IN  IF signature # 0 THEN RequiredBurn(s, signature, own, own2)
        ELSE OwnBurn(s, BestSelectable(own, s.utxos), own2)

AttestedFits(s, attested) ==
    [s EXCEPT !.ok = @ /\ attested \subseteq Range(s.v1) \cup Range(s.v2)
                       /\ Len(s.v1) + Len(s.v2) <= MaxBlockTxs
                       /\ PoolLen(s.v1 \o s.v2) <= MaxBlockBytes]

\* Every attested burn, in pool order: a v1 burn has to apply as it stands.
TakeAttestedBurns(s, attested) ==
    LET each(r, t) == IF t \in Range(r.v2) THEN r ELSE TakeWithPendingParents(r, t)
        chosen(t) == t \in attested
    IN  AttestedFits(FoldLeft(each, FoldLeft(Take, s, SelectSeq(s.left, chosen)),
                              SelectSeq(s.left2, chosen)), attested)

\* The better of two sets of at most one transaction; v1 wins at equal rates.
BetterRate(legacy, v2) ==
    LET rateOf(S) == Rate(CHOOSE t \in S : TRUE)
    IN  IF legacy = {} \/ (v2 # {} /\ rateOf(v2) > rateOf(legacy)) THEN v2 ELSE legacy

FillWith(s, t) ==
    IF PoolLen(s.v1 \o s.v2) + Bytes(t) <= MaxBlockBytes THEN Take(s, t)
    ELSE [s EXCEPT !.left = Without(@, {t}), !.left2 = Without(@, {t})]

FillFrom(s, best) ==
    IF Len(s.v1) + Len(s.v2) >= MaxBlockTxs \/ best = {} THEN s
    ELSE FillWith(s, CHOOSE t \in best : TRUE)

\* The rest of the block by fee rate; one that does not fit is passed over.
FillOne(s) ==
    FillFrom(s, BetterRate(BestSelectable(s.left, s.utxos), BestSelectableV2(s.left2, s.utxos)))

\* Mutant: burns queued for the following height are selected too.
EligibleAnyHeight(L, txs) == txs

EligibleForNextBlock(L, txs) ==
    SelectSeq(txs, LAMBDA t : AnchorHoldsForBlock(L, t, NextHeight(L)))

FillBlock(s, waiting) == IF s.ok THEN FoldLeft(LAMBDA r, n : FillOne(r), s, waiting) ELSE s

SelectBlockTransactions(L, P, miner, signature, attested) ==
    LET start == [ok |-> TRUE, utxos |-> L.utxos, v1 |-> << >>, v2 |-> << >>,
                  left |-> EligibleForNextBlock(L, ValidPendingTransactions(L, P)),
                  left2 |-> EligibleForNextBlock(L, P.v2)]
    IN  FillBlock(TakeAttestedBurns(TakeAnchorBurn(start, miner, signature), attested),
                  P.pending \o P.v2)

\* A burn for this block is put first on a copy of the pool, the rest is offered again.
PrioritizeTransaction(L, P, t) ==
    LET stays == IF IsV2(t) THEN [P EXCEPT !.v2 = << >>, !.v2Bytes = 0]
                 ELSE [EmptyPool EXCEPT !.v2 = P.v2, !.v2Bytes = P.v2Bytes]
    IN  SubmitEach(L, stays, <<t>> \o (IF IsV2(t) THEN P.v2 ELSE P.pending \o P.orphans))

PoolFor(L, P, signature) == IF signature = 0 THEN P ELSE PrioritizeTransaction(L, P, signature)

\* The burns a committee member signs: the eligible ones of its pool, v2 burns only
\* when their inputs are confirmed.
AttestedBurns(L, P) ==
    {t \in Range(EligibleForNextBlock(L, ValidPendingTransactions(L, P))) : IsBurn(t)}
    \cup {t \in Range(EligibleForNextBlock(L, P.v2)) :
            IsBurn(t) /\ ~HasMissingInputs(t, L.utxos)}

----------------------------------------------------------------------------
(* The node.                                                                *)

MempoolInit ==
    /\ mledger = GenesisLedger
    /\ mchain = <<Genesis>>
    /\ pool = EmptyPool
    /\ forks = 0

\* A rank 0 block on a ledger; its hash tells the branches of the chain apart.
BlockWith(L, body, branch, ticket) ==
    [hash |-> NextHeight(L) * 10 + branch, height |-> NextHeight(L), prev |-> Tip(L).hash,
     time |-> Tip(L).time + 1, miner |-> ticket.owner, mode |-> "ticket", rank |-> 0,
     ticket |-> ticket.id, signed |-> {}, v1 |-> body.v1, v2 |-> body.v2,
     seed |-> 0, reward |-> FeeReward(body.v1 \o body.v2), rounds |-> L.rounds]

BlockOn(L, body, branch) == BlockWith(L, body, branch, NextRanks(L)[1])

AcceptBlock(b) ==
    /\ BlockValid(mledger, b, b.time)
    /\ mledger' = ApplyTrustedBlock(mledger, b)
    /\ mchain' = Append(mchain, b)
    /\ pool' = PoolAfterBlock(mledger', pool, b)
    /\ UNCHANGED forks

Submit(t) ==
    /\ pool' = SubmitEach(mledger, pool, <<t>>)
    /\ pool' # pool
    /\ UNCHANGED <<mledger, mchain, forks>>

\* The burns the next finalizer may have built for its block, and 0 for none.
OwnAnchors(L, finalizer) ==
    {0} \cup {t \in TxIds \ L.mined :
                IsBurn(t) /\ finalizer \in {Owner(t), TicketOwner(t)}}

\* A block of the node's own: selected from its pool, or around a required burn.
MineOwnBlock ==
    /\ Len(mchain) <= MaxChain
    /\ \E ranked \in {NextRanks(mledger)} :
          /\ ranked # << >>
          /\ ranked[1].owner \in Miners
          /\ \E signature \in OwnAnchors(mledger, ranked[1].owner) :
                \E selected \in
                    {SelectBlockTransactions(mledger, PoolFor(mledger, pool, signature),
                                             ranked[1].owner, signature, {})} :
                    selected.ok /\ AcceptBlock(BlockOn(mledger, selected, forks))

ReceiveOtherBlock ==
    /\ Len(mchain) <= MaxChain
    /\ NextRanks(mledger) # << >>
    /\ \E body \in OtherBodies : AcceptBlock(BlockOn(mledger, body, forks))

\* The last block is replaced by another one of the same height, and maybe more.
Reorganize ==
    /\ forks < MaxForks
    /\ Len(mchain) > 1
    /\ \E base \in {Replay(SubSeq(mchain, 1, Len(mchain) - 1))}, body \in OtherBodies :
          \E b \in {BlockOn(base, body, forks + 1)} :
              /\ BlockValid(base, b, b.time)
              /\ Body(b) # Body(Last(mchain))
              /\ mledger' = ApplyTrustedBlock(base, b)
              /\ mchain' = Append(SubSeq(mchain, 1, Len(mchain) - 1), b)
              /\ pool' = PoolAfterReorganization(mledger', pool, <<Last(mchain)>>)
              /\ forks' = forks + 1

MempoolNext ==
    \/ \E t \in TxIds : Submit(t)
    \/ MineOwnBlock
    \/ ReceiveOtherBlock
    \/ Reorganize

MempoolSpec == MempoolInit /\ [][MempoolNext]_mempoolVars

----------------------------------------------------------------------------
(* Properties.                                                              *)

\* The byte counters are those of the pools, and no pool exceeds its limits.
PoolTypeOK ==
    /\ pool.pendingBytes = PoolLen(pool.pending)
    /\ pool.orphanBytes = PoolLen(pool.orphans)
    /\ pool.v2Bytes = PoolLen(pool.v2)
    /\ Len(pool.pending) <= MaxPending /\ Len(pool.orphans) <= MaxOrphans
    /\ pool.pendingBytes <= MaxPoolBytes /\ pool.orphanBytes <= MaxPoolBytes

\* What is pending applies to the outputs as they are, in some order, through evictions,
\* promotions, blocks and reorganizations.  Only a mine whose anchor was used up by the
\* mines of received blocks may wait in vain.
PendingStillApplies ==
    \A t \in Range(pool.pending) \ Range(ValidPendingTransactions(mledger, pool)) :
        /\ IsMine(t)
        /\ MineAnchorCount(mledger, Anchor(t)) + MinesOn(pool.pending, Anchor(t)) > MinePerAnchor

\* No output is spent twice by pending and orphan transactions together.
NoPooledDoubleSpend ==
    LET txs == pool.pending \o pool.orphans
    IN  \A i, j \in DOMAIN txs : i # j => Inputs(txs[i]) \cap Inputs(txs[j]) = {}

\* A transaction in the chain waits in no pool.
NothingMinedIsPooled ==
    mledger.mined \cap Range(pool.pending \o pool.orphans \o pool.v2) = {}

\* No orphan stays behind that could be pending.
NoReadyOrphan ==
    Len(pool.pending) < MaxPending =>
        \A t \in Range(pool.orphans) : ~Promotable(mledger, pool, t)

ValidIfBuilt(ok, b) == (ok /\ \E t \in Range(Body(b)) : IsBurn(t)) => BlockValid(mledger, b, b.time)

SelectionValid(s) == ValidIfBuilt(s.ok, BlockOn(mledger, s, forks))

\* A block selected from the pool passes the checks of a block, with or without a burn
\* that has to come first, and with the burns the committee attested.
SelectedBlockValid ==
    \A ranked \in {NextRanks(mledger)} : ranked # << >> =>
        \A signature \in OwnAnchors(mledger, ranked[1].owner) :
            \A offered \in {PoolFor(mledger, pool, signature)},
               attested \in {{}, AttestedBurns(mledger, pool)} :
                SelectionValid(
                    SelectBlockTransactions(mledger, offered, ranked[1].owner,
                                            signature, attested))

\* A pending transaction leaves without a block only for one that pays a better rate.
EvictionPaysBetter ==
    [][mchain' = mchain =>
        LET gone == Range(pool.pending) \ Range(pool'.pending)
            come == Range(pool'.pending) \ (Range(pool.pending) \cup Range(pool.orphans))
        IN  gone # {} => \E t \in come : PaysLess(gone, {t})]_mempoolVars

=============================================================================
