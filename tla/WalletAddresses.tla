-------------------------- MODULE WalletAddresses --------------------------
(***************************************************************************)
(* Which hybrid addresses a node takes for its wallet's own.  The wallet   *)
(* derives addresses by index on two branches; the node finds the index in *)
(* use by scanning from a cursor up to a gap of unused addresses           *)
(* (ledger_builders.rs), over the indexes of confirmed history             *)
(* (ledger_history_index.rs) and the pending pool.  The cursors, the tip   *)
(* they were computed at and the once-only historical recovery live in     *)
(* memory, shared by every clone of the wallet (domain/wallet.rs); a       *)
(* restart starts from the seed again.                                     *)
(*                                                                         *)
(* An external address counts as used once it is paid, a reward address    *)
(* once it is spent from.  Signatures and amounts are left out: a spend    *)
(* takes all the value of one address, pays someone else and returns the   *)
(* change.                                                                 *)
(***************************************************************************)
EXTENDS Integers, FiniteSets, FiniteSetsExt

CONSTANTS
    GapLimit,           \* HYBRID_EXTERNAL_ADDRESS_GAP_LIMIT
    MaxDiscovered,      \* MAX_DISCOVERED_EXTERNAL_ADDRESSES
    MaxTxs,             \* bound on the transactions ever made
    MaxRestarts         \* bound on restarts

\* The transactions stay so few that no scan fails at MaxDiscovered.
ASSUME WalletAssumption ==
    /\ GapLimit \in Nat \ {0} /\ MaxDiscovered \in Nat /\ MaxTxs \in Nat
    /\ MaxTxs + GapLimit <= MaxDiscovered

VARIABLES
    mined,          \* transactions of the chain the node is on, or would join
    unmined,        \* pending transactions that concern this wallet
    height,         \* stands for the tip hash
    joined,         \* FALSE while the node has only the setup placeholder
    seed,           \* the wallet's in-memory state
    handedOut,      \* external addresses the owner was shown: the ones others may pay
    txsMade,        \* number of transactions made
    restarts,
    joinsLate       \* history: this process came up without a chain

addressVars == <<mined, unmined, height, joined, seed, handedOut, txsMade, restarts, joinsLate>>

Branches == {"external", "reward"}
Nothing == <<"none", 0>>

\* Wallet::from_seed: cursors at zero, nothing scanned.
FreshSeed == [cursor |-> [b \in Branches |-> 0], scanned |-> [b \in Branches |-> -1],
              recovered |-> FALSE]

-----------------------------------------------------------------------------
(* The indexes over transactions.  A transaction is [from, pays, change].  *)

\* collect_v2_output_addresses, collect_legacy_hybrid_outputs: addresses that were paid.
UsedBy(txs) == (UNION {{t.pays, t.change} : t \in txs}) \ {Nothing}

\* collect_v2_input_addresses: addresses that were spent from.
SpentAddresses(txs) == {t.from : t \in txs} \ {Nothing}

\* record_transaction_v2 with record_authored_spend: addresses whose authorization carries
\* the wallet's Ed25519 key, and the change of those spends.
AuthoredBy(txs) ==
    (UNION {{t.from, t.change} : t \in {u \in txs : u.from # Nothing}}) \ {Nothing}

OnLedger == IF joined THEN mined ELSE {}
TipHash == IF joined THEN height ELSE 0

\* pending_hybrid_addresses, pending_spent_hybrid_addresses, and with the confirmed index
\* used_hybrid_addresses and spent_hybrid_addresses.
Index(branch, txs) == IF branch = "external" THEN UsedBy(txs) ELSE SpentAddresses(txs)

-----------------------------------------------------------------------------
(* Recovery and discovery.                                                 *)

\* A bug: recovery looks no further than the scan does.
RecoverWithinGap(s) ==
    LET near(b) == {i \in 0 .. GapLimit - 1 : <<b, i>> \in AuthoredBy(OnLedger)}
    IN  IF s.recovered THEN s
        ELSE [s EXCEPT
            !.recovered = TRUE,
            !.cursor = [b \in Branches |-> IF near(b) = {} THEN @[b] ELSE Max(near(b)) + 1]]

\* recover_historical_hybrid_address_cursors: once per wallet object, whatever the ledger
\* knows at that moment.
Recover(s) ==
    LET highest(b) == {i \in 0 .. MaxDiscovered - 1 : <<b, i>> \in AuthoredBy(OnLedger)}
    IN  IF s.recovered THEN s
        ELSE [s EXCEPT
            !.recovered = TRUE,
            !.cursor = [b \in Branches |->
                IF highest(b) = {} THEN @[b] ELSE Max({@[b], Max(highest(b)) + 1})]]

\* The confirmed index is consulted again when the tip is another one.
Lookup(s, b) ==
    Index(b, IF s.scanned[b] # TipHash THEN OnLedger \cup unmined ELSE unmined)

\* The scan from the cursor ends after GapLimit unused addresses in a row.
ScanEnds(s, b) ==
    {e \in s.cursor[b] + GapLimit - 1 .. MaxDiscovered - 1 :
        \A i \in e - GapLimit + 1 .. e : <<b, i>> \notin Lookup(s, b)}

\* wallet_external_addresses and wallet_reward_addresses: the seed after the scan.  Past
\* MaxDiscovered the call fails and the cursor stays.
Discover(s, b) ==
    LET r == Recover(s)
        hits == {i \in r.cursor[b] .. Min(ScanEnds(r, b)) : <<b, i>> \in Lookup(r, b)}
    IN  IF ScanEnds(r, b) = {} THEN r
        ELSE [r EXCEPT !.cursor[b] = IF hits = {} THEN @ ELSE Max(hits) + 1,
                       !.scanned[b] = TipHash]

\* wallet_receive_address and wallet_reward_address, without the seed they leave.
CurrentAddress(s, b) == <<b, Discover(s, b).cursor[b]>>

\* wallet_owned_hybrid_addresses: every address up to the current one of both branches.
OwnedAfter(s) ==
    LET e == Discover(s, "external") r == Discover(e, "reward")
    IN  {<<b, i>> : b \in Branches, i \in 0 .. MaxDiscovered} \cap
        (UNION {{<<b, i>> : i \in 0 .. r.cursor[b]} : b \in Branches})

-----------------------------------------------------------------------------
(* Steps.                                                                  *)

Funded == {a \in UsedBy(OnLedger) : a \notin SpentAddresses(OnLedger \cup unmined)}

\* Any status, balance or fee query of the node.
QueryOwned ==
    /\ seed' = Discover(Discover(seed, "external"), "reward")
    /\ UNCHANGED <<mined, unmined, height, joined, handedOut, txsMade, restarts, joinsLate>>

\* The wallet page shows the receive address.
ShowReceiveAddress ==
    /\ seed' = Discover(seed, "external")
    /\ handedOut' = handedOut \cup {CurrentAddress(seed, "external")}
    /\ UNCHANGED <<mined, unmined, height, joined, txsMade, restarts, joinsLate>>

\* build_v2_transfer with finish_v2_transfer, submitted: the owner's outputs are found among
\* the owned addresses; the change goes to the current external address.  A burn returns
\* its change to the spent address (build_v2_burn_with_anchor).
Spend ==
    /\ joined /\ txsMade < MaxTxs
    /\ \E from \in Funded \cap OwnedAfter(seed), burn \in BOOLEAN :
        /\ unmined' = unmined \cup {[from |-> from, pays |-> Nothing,
             change |-> IF burn THEN from
                        ELSE CurrentAddress(Discover(Discover(seed, "external"), "reward"), "external")]}
    /\ seed' = Discover(Discover(seed, "external"), "reward")
    /\ txsMade' = txsMade + 1
    /\ UNCHANGED <<mined, height, joined, handedOut, restarts, joinsLate>>

\* Someone pays an address that was handed out.
IsPaid ==
    /\ joined /\ txsMade < MaxTxs
    /\ \E a \in handedOut :
        unmined' = unmined \cup {[from |-> Nothing, pays |-> a, change |-> Nothing]}
    /\ txsMade' = txsMade + 1
    /\ UNCHANGED <<mined, height, joined, seed, handedOut, restarts, joinsLate>>

\* A block of this node or another: pending transactions confirm, and the block may pay the
\* current reward address.
BlockConfirms ==
    /\ joined
    /\ \E txs \in SUBSET unmined, reward \in BOOLEAN :
        /\ txs # {} \/ reward
        /\ reward => txsMade < MaxTxs
        /\ mined' = mined \cup txs \cup
            (IF reward THEN {[from |-> Nothing, pays |-> CurrentAddress(seed, "reward"),
                              change |-> Nothing]} ELSE {})
        /\ unmined' = unmined \ txs
        /\ seed' = IF reward THEN Discover(seed, "reward") ELSE seed
        /\ txsMade' = IF reward THEN txsMade + 1 ELSE txsMade
    /\ height' = height + 1
    /\ UNCHANGED <<joined, handedOut, restarts, joinsLate>>

\* A pending transaction is evicted or expires and never confirms.
TransactionAbandoned ==
    /\ \E t \in unmined : unmined' = unmined \ {t}
    /\ UNCHANGED <<mined, height, joined, seed, handedOut, txsMade, restarts, joinsLate>>

\* The process starts again from the seed phrase: the pool and every cursor are gone.  With
\* a stored chain it is loaded before the first query; a new installation has none.
Restart ==
    /\ restarts < MaxRestarts
    /\ seed' = FreshSeed
    /\ unmined' = {}
    /\ joined' \in BOOLEAN
    /\ joinsLate' = ~joined'
    /\ restarts' = restarts + 1
    /\ UNCHANGED <<mined, height, handedOut, txsMade>>

\* The node replaces its placeholder by the chain a peer has.
JoinChain ==
    /\ ~joined /\ joined' = TRUE
    /\ UNCHANGED <<mined, unmined, height, seed, handedOut, txsMade, restarts, joinsLate>>

AddressInit ==
    /\ mined = {} /\ unmined = {} /\ height = 1 /\ joined = TRUE
    /\ seed = FreshSeed /\ handedOut = {} /\ txsMade = 0 /\ restarts = 0 /\ joinsLate = FALSE

AddressNext ==
    \/ QueryOwned \/ ShowReceiveAddress \/ Spend \/ IsPaid \/ BlockConfirms
    \/ TransactionAbandoned \/ Restart \/ JoinChain

AddressSpec == AddressInit /\ [][AddressNext]_addressVars

-----------------------------------------------------------------------------
(* Properties.                                                             *)

\* The comment on recover_historical_hybrid_address_cursors: cursors are restored across gaps
\* left by addresses of pending transactions that never confirmed.  Every address this
\* wallet has spent from or sent change to on the chain is among the addresses it owns, when
\* the chain was there before the wallet was first asked for its addresses.
AuthoredIsOwned ==
    (joined /\ ~joinsLate) => \A a \in AuthoredBy(mined) : a \in OwnedAfter(seed)

\* Until a restart the node keeps every address it handed out: what is paid there is seen in
\* the balance, even when transactions were abandoned in between.
HandedOutIsOwned ==
    (joined /\ restarts = 0) => \A a \in handedOut : a \in OwnedAfter(seed)

\* Until a restart, a receive address the node shows has not been paid before, in the chain
\* or the pool, although most scans look at the pool alone.
ReceiveAddressFresh ==
    (joined /\ restarts = 0) =>
        \A a \in UsedBy(mined \cup unmined) : a # CurrentAddress(seed, "external")

\* A wallet finds every address it used again after gaps, restarts and abandoned
\* transactions, and shows no receive address twice
\* (recover_historical_hybrid_address_cursors, wallet_receive_address).
AddressesAreKept == AuthoredIsOwned /\ HandedOutIsOwned /\ ReceiveAddressFresh

-----------------------------------------------------------------------------
(* What AddressesAreKept rests on.                                         *)

Address == Branches \X Nat
WalletTx == [from : Address \cup {Nothing}, pays : Address \cup {Nothing},
             change : Address \cup {Nothing}]

\* An index is taken into use by a transaction, and indexes are taken in order.
IndexesBounded ==
    /\ \A t \in mined \cup unmined : \A a \in {t.from, t.pays, t.change} \ {Nothing} :
        a[2] < txsMade
    /\ \A b \in Branches : seed.cursor[b] <= txsMade
    /\ \A a \in handedOut : a[1] = "external" /\ a[2] <= txsMade
    /\ txsMade <= MaxTxs

AddressTypeInv ==
    /\ mined \in SUBSET WalletTx /\ unmined \in SUBSET WalletTx
    /\ height \in Nat \ {0} /\ joined \in BOOLEAN /\ joinsLate \in BOOLEAN
    /\ seed \in [cursor : [Branches -> Nat], scanned : [Branches -> Nat \cup {-1}],
                 recovered : BOOLEAN]
    /\ handedOut \in SUBSET Address
    /\ txsMade \in Nat /\ restarts \in Nat
    /\ IndexesBounded
    /\ \A b \in Branches : seed.scanned[b] <= height

\* Until a restart the cursor is at or past every external address in use.  It stands on one
\* that the chain pays only until the next scan, which looks at the chain again.
CursorLeads ==
    restarts = 0 =>
        /\ joined
        /\ \A a \in handedOut : a[2] <= seed.cursor["external"]
        /\ \A a \in UsedBy(mined \cup unmined) :
            a[1] = "external" => a[2] <= seed.cursor["external"]
        /\ <<"external", seed.cursor["external"]>> \in UsedBy(mined) =>
            seed.scanned["external"] # height

\* Once recovered, the cursors are at or past every address the wallet spent from or sent
\* change to; before, none of those is pending.
RecoveredLeads ==
    /\ ~joined => joinsLate
    /\ ~joinsLate =>
        /\ ~seed.recovered => AuthoredBy(unmined) = {}
        /\ seed.recovered =>
            \A a \in AuthoredBy(mined \cup unmined) : a[2] <= seed.cursor[a[1]]

AddressInv == AddressTypeInv /\ CursorLeads /\ RecoveredLeads
=============================================================================
