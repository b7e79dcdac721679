----------------------------- MODULE LedgerOps ------------------------------
(* What a transaction does to the set of unspent outputs, and how a block    *)
(* rewards its finalizer and its committee: the pure operations under the    *)
(* ledger and its mempool.                                                   *)
(*                                                                           *)
(* A transaction is an identifier, its content a row of TxTable.  Addresses, *)
(* amounts and outpoints keep their meaning; encodings, keys and signatures  *)
(* are abstracted to the row's field "genuine": what the stateless checks    *)
(* (signature, address format, fits an empty block) say of it.               *)
EXTENDS Integers, Sequences, FiniteSets, FiniteSetsExt, SequencesExt

CONSTANTS
    TxTable,        \* the transactions that exist
    NoAnchor,       \* a burn without a chain anchor
    MineReward,     \* MINE_REWARD
    MaxAmount       \* the largest Amount (u64::MAX)

TxIds == DOMAIN TxTable
V2Kinds == {"migration", "transfer2", "burn2"}

Kind(t) == TxTable[t].kind
IsV2(t) == Kind(t) \in V2Kinds
IsBurn(t) == Kind(t) \in {"burn", "burn2"}
IsMine(t) == Kind(t) = "mine"
Inputs(t) == TxTable[t].inputs
Owner(t) == TxTable[t].owner
Fee(t) == TxTable[t].fee
Bytes(t) == TxTable[t].bytes
Anchor(t) == TxTable[t].anchor
Genuine(t) == TxTable[t].genuine
Burned(t) == IF IsBurn(t) THEN TxTable[t].burned ELSE 0

\* The change or payment outputs; a mine pays the fixed reward to its recipient.
Outputs(t) ==
    IF IsMine(t) THEN <<[owner |-> Owner(t), amount |-> MineReward]>>
    ELSE TxTable[t].outputs

\* Amounts are unsigned, a mine has no inputs, and identifiers are positive numbers, so that
\* no outpoint of a transaction is one of the genesis block or of a reward.
ASSUME TransactionAssumption ==
    /\ MaxAmount \in Nat /\ MineReward \in 0..MaxAmount
    /\ \A t \in TxIds :
        /\ t \in Nat \ {0}
        /\ Fee(t) \in Nat /\ Burned(t) \in Nat
        /\ IsFiniteSet(Inputs(t))
        /\ IsMine(t) => Inputs(t) = {}
        /\ Len(Outputs(t)) \in Nat /\ DOMAIN Outputs(t) = 1..Len(Outputs(t))
        /\ \A i \in DOMAIN Outputs(t) : Outputs(t)[i].amount \in Nat

Sum(f, S) == FoldSet(LAMBDA x, acc : f[x] + acc, 0, S)
SumSeq(s) == FoldSeq(LAMBDA x, acc : x + acc, 0, s)
Amounts(s) == [i \in DOMAIN s |-> s[i].amount]
Drop(f, S) == [x \in DOMAIN f \ S |-> f[x]]
Merge(f, g) == [x \in DOMAIN f \cup DOMAIN g |-> IF x \in DOMAIN g THEN g[x] ELSE f[x]]

----------------------------------------------------------------------------
(* Spending.                                                                *)

CreatedOutputs(t) ==
    [o \in {<<t, i>> : i \in DOMAIN Outputs(t)} |-> Outputs(t)[o[2]]]

HasMissingInputs(t, utxos) == ~(Inputs(t) \subseteq DOMAIN utxos)

InputTotal(t, utxos) == Sum([o \in Inputs(t) |-> utxos[o].amount], Inputs(t))

Required(t) ==
    SumSeq(Amounts(Outputs(t))) + Fee(t) + Burned(t)

\* The inputs have one owner and balance, and no sum exceeds what an Amount can hold.
SpendsOwnOutputs(t, utxos) ==
    /\ ~HasMissingInputs(t, utxos)
    /\ \A o \in Inputs(t) : utxos[o].owner = Owner(t)
    /\ InputTotal(t, utxos) = Required(t)
    /\ Required(t) <= MaxAmount

BalanceOf(address, utxos) ==
    LET own == {o \in DOMAIN utxos : utxos[o].owner = address}
    IN  Sum([o \in own |-> utxos[o].amount], own)

\* No address may end up with more than an Amount can hold.
NoBalanceOverflow(utxos, outputs) ==
    \A address \in {outputs[i].owner : i \in DOMAIN outputs} :
        BalanceOf(address, utxos)
            + SumSeq(Amounts(SelectSeq(outputs, LAMBDA o : o.owner = address)))
        <= MaxAmount

AfterSpending(t, utxos) == Merge(Drop(utxos, Inputs(t)), CreatedOutputs(t))

\* What a v1 transaction is checked for beside its inputs: no balance overflows.
OutputsHoldV1(t, utxos) ==
    Genuine(t) /\ NoBalanceOverflow(Drop(utxos, Inputs(t)), Outputs(t))

\* And a v2 transaction: it recreates no outpoint.
OutputsHoldV2(t, utxos) == DOMAIN CreatedOutputs(t) \cap DOMAIN utxos = {}

\* A mine spends nothing; every other transaction has one owner and balances, and only
\* a v1 transaction is asked for an input.
CanApply(t, utxos) ==
    /\ \/ IsMine(t)
       \/ /\ IsV2(t) \/ Inputs(t) # {}
          /\ SpendsOwnOutputs(t, utxos)
    /\ IF IsV2(t) THEN OutputsHoldV2(t, utxos) ELSE OutputsHoldV1(t, utxos)

\* The outputs left by the transactions of a sequence that apply, in order;
\* one that does not apply is passed over.
ApplyEach(txs, utxos) ==
    FoldLeft(LAMBDA u, t : IF CanApply(t, u) THEN AfterSpending(t, u) ELSE u, utxos, txs)

\* The outputs left by the first i transactions of a sequence, for every i.
UtxosAfter(txs, utxos) ==
    LET after[i \in 0..Len(txs)] ==
            IF i = 0 THEN utxos ELSE AfterSpending(txs[i], after[i - 1])
    IN  after

\* Every transaction of the sequence applies after the ones before it.
AllApply(txs, utxos) ==
    LET after == UtxosAfter(txs, utxos)
    IN  {i \in DOMAIN txs : ~CanApply(txs[i], after[i - 1])} = {}

----------------------------------------------------------------------------
(* Rewards.  A block pays its fees: half of them, when committee members     *)
(* other than the finalizer signed, to those members in equal parts with the *)
(* rest to the last one.                                                     *)

FeeReward(txs) == SumSeq([i \in DOMAIN txs |-> Fee(txs[i])])

\* The slots of a set in ascending order.
Ascending(S) ==
    CHOOSE s \in [1..Cardinality(S) -> S] : \A i, j \in DOMAIN s : i < j => s[i] < s[j]

\* Mutant: the finalizer's own slot earns a member's share too.
RewardSlotsWithFinalizer(block, committee) ==
    Ascending({s \in block.signed : s \in DOMAIN committee})

\* Slots whose signature earns a part of the reward, in slot order.
RewardSlots(block, committee) ==
    IF block.mode = "ticket" /\ block.rank <= 1
    THEN Ascending({s \in block.signed : s \in DOMAIN committee /\ committee[s] # block.miner})
    ELSE << >>

\* What the members at positions 1..i take of a pool, one after the other, for every i.
SharesTaken(pool, count) ==
    LET taken[i \in 0..count] ==
            IF i = 0 THEN 0
            ELSE LET left == pool - taken[i - 1]
                 IN  taken[i - 1] + (IF i = count THEN left ELSE left \div (count - i + 1))
    IN  taken

MemberShares(pool, count) ==
    LET taken == SharesTaken(pool, count)
    IN  [i \in 1..count |-> taken[i] - taken[i - 1]]

\* The finalizer's output has index u32::MAX, a member's u32::MAX - slot: here 0 and -slot.
FinalizerOutput(block, amount) ==
    [o \in IF amount > 0 THEN {<<block.hash, 0>>} ELSE {} |->
        [owner |-> block.miner, amount |-> amount]]

MemberOutputs(block, committee, slots, shares) ==
    [o \in {<<block.hash, -slots[i]>> : i \in {j \in DOMAIN slots : shares[j] > 0}} |->
        LET i == CHOOSE j \in DOMAIN slots : -slots[j] = o[2]
        IN  [owner |-> committee[slots[i]], amount |-> shares[i]]]

SplitReward(block, reward, committee, slots, pool) ==
    Merge(FinalizerOutput(block, reward - pool),
          MemberOutputs(block, committee, slots, MemberShares(pool, Len(slots))))

PaidSlots(block, reward, committee, slots) ==
    SplitReward(block, reward, committee, slots, IF slots = << >> THEN 0 ELSE reward \div 2)

RewardOutputs(block, reward, committee) ==
    IF reward = 0 THEN << >>
    ELSE PaidSlots(block, reward, committee, RewardSlots(block, committee))

CreditRewardOutputs(utxos, block, reward, committee) ==
    Merge(utxos, RewardOutputs(block, reward, committee))
=============================================================================
