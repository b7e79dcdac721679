--------------------------- MODULE MCTransactions ---------------------------
(* From the wallet to the pool, in one run of four settings: the addresses  *)
(* of a wallet, the transactions it builds, the mines found by its miner    *)
(* and by Stratum clients, and the mempool that admits, evicts and selects. *)
EXTENDS WalletAddresses, WalletBuilder, ExternalMining, Mempool

VARIABLE focus

-----------------------------------------------------------------------------
(* The mempool.                                                             *)

Pay(address, n) == [owner |-> address, amount |-> n]
PoolTx(kind, owner, inputs, outputs, fee, burned, bytes, on) ==
    [kind |-> kind, owner |-> owner, inputs |-> inputs, outputs |-> outputs, fee |-> fee,
     burned |-> burned, anchor |-> on, legacy |-> 1, bits |-> 3, bytes |-> bytes,
     genuine |-> TRUE]

\* Finalizer 1 with burns for blocks 1 to 3; a payment of 2 to 1 with change, which 1
\* burns or migrates to its hybrid address 11 and 2 spends again; two mines on genesis.
MCPoolTable ==
    <<PoolTx("burn", 1, {<<0, 1>>}, <<Pay(1, 7)>>, 1, 1, 1, 99),
      PoolTx("transfer", 2, {<<0, 2>>}, <<Pay(1, 3), Pay(2, 5)>>, 1, 0, 1, 99),
      PoolTx("transfer", 2, {<<2, 2>>}, <<Pay(2, 2)>>, 3, 0, 2, 99),
      PoolTx("burn", 1, {<<2, 1>>}, << >>, 1, 2, 1, 99),
      PoolTx("migration", 1, {<<2, 1>>}, <<Pay(11, 2)>>, 1, 0, 1, 99),
      PoolTx("burn2", 11, {<<5, 1>>}, << >>, 1, 1, 1, 0),
      PoolTx("mine", 2, {}, << >>, 2, 0, 1, 0),
      PoolTx("mine", 1, {}, << >>, 2, 0, 1, 0),
      PoolTx("burn", 1, {<<0, 0>>}, <<Pay(1, 1)>>, 1, 1, 1, 0),
      PoolTx("transfer", 2, {<<2, 2>>}, <<Pay(2, 4)>>, 1, 0, 1, 99)>>

MCPoolAllocation == [a \in {1, 2} |-> IF a = 1 THEN 10 ELSE 9]
MCPoolGenesisBurns == <<[owner |-> 1, amount |-> 1]>>
MCOtherBodies ==
    {[v1 |-> v1, v2 |-> << >>] : v1 \in {<<1, 2, 7>>, <<9>>}}

-----------------------------------------------------------------------------
(* The wallet's outputs and what is asked of it.                            *)

LegacyOut(amount, root, idBytes) ==
    [kind |-> "legacy", owner |-> 0, root |-> root, amount |-> amount, idBytes |-> idBytes]
HybridOut(amount, owner, root) ==
    [kind |-> "hybrid", owner |-> owner, root |-> root, amount |-> amount, idBytes |-> 32]

\* Legacy outputs around a change of compact length: the two smaller ones merge
\* into one output of 2^21 +- a byte's fee, so the consolidation fee oscillates.
LegacyWallet ==
    <<LegacyOut(1048576, 1, 64), LegacyOut(1048576 + 298, 1, 64), LegacyOut(1500000, 1, 32),
      LegacyOut(30000, 2, 64), LegacyOut(20000, 2, 64)>>
MixedWallet ==
    <<HybridOut(450000, 1, 1), HybridOut(450000, 2, 1), HybridOut(500000, 2, 2),
      LegacyOut(16800, 3, 64), LegacyOut(16700, 3, 64)>>
MCWallets == {LegacyWallet, MixedWallet}
MCPayments == {LegacyOut(16700, 3, 64)}
MCAmounts == {16384, 460000}
MCRates == {1}

-----------------------------------------------------------------------------
(* Miners.                                                                  *)

CONSTANTS c1, c2, alice, bob, home
MCSourceOf == [c \in {c1, c2} |-> home]

\* Long Stratum histories are explored beside an idle automatic miner.
MCMiningFocus ==
    focus = "mining" => nextSalt <= 2 \/ (tried = {} /\ search = NoJob)

-----------------------------------------------------------------------------

\* The variables of the settings that were not chosen; wallet addresses and miners start
\* the same way in every setting.
IdleMempool == mledger = 0 /\ mchain = 0 /\ pool = EmptyPool /\ forks = 0
IdleBuilder ==
    /\ outs = 0 /\ confirmed = 0 /\ pending = 0 /\ anchor = 0 /\ plan = 0
    /\ requests = 0 /\ arrivals = 0

TransactionsInit ==
    /\ focus \in {"mempool", "addresses", "builder", "mining"}
    /\ IF focus = "mempool" THEN MempoolInit ELSE IdleMempool
    /\ IF focus = "builder" THEN BuilderInit ELSE IdleBuilder
    /\ AddressInit
    /\ MiningInit

TransactionsSpec ==
    /\ TransactionsInit
    /\ [][/\ UNCHANGED focus
          /\ \/ /\ focus = "mempool" /\ MempoolNext
                /\ UNCHANGED <<addressVars, builderVars, miningVars>>
             \/ /\ focus = "addresses" /\ AddressNext
                /\ UNCHANGED <<mempoolVars, builderVars, miningVars>>
             \/ /\ focus = "builder" /\ BuilderNext
                /\ UNCHANGED <<mempoolVars, addressVars, miningVars>>
             \/ /\ focus = "mining" /\ MiningNext
                /\ UNCHANGED <<mempoolVars, addressVars, builderVars>>
         ]_<<focus, mempoolVars, addressVars, builderVars, miningVars>>

\* Through admission, eviction, promotion, blocks and reorganizations the pools keep
\* their limits and byte counts, what is pending applies in some order, nothing is spent
\* twice, nothing mined is pooled and no orphan waits that could be pending
\* (submit_transaction, promote_orphan_transactions, apply_block, replace_with_better_chain).
PoolIsSound ==
    focus = "mempool" =>
        /\ PoolTypeOK
        /\ PendingStillApplies
        /\ NoPooledDoubleSpend
        /\ NothingMinedIsPooled
        /\ NoReadyOrphan

\* A block built from the pool (select_block_transactions_with_required_burn_owner) passes
\* the checks of a received block, in every state the pool gets into.
SelectionIsValid == focus = "mempool" => SelectedBlockValid

\* What the wallet builds pays the rate asked for from its own unspent outputs, and a
\* consolidation the user approved is built as it was shown (converge_fee_by_byte,
\* consolidation_plan, build_consolidation).
WalletBuildsAsAsked ==
    focus = "builder" =>
        /\ BuiltPaysItsRate
        /\ PlanIsSound
        /\ ApprovedPlanBuilds
        /\ SelectionIsAdmitted
=============================================================================
