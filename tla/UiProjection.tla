---------------------------- MODULE UiProjection ----------------------------
(***************************************************************************)
(* The UI database of src/adapters/ui_data_store.rs, which the persistence *)
(* loop of main.rs keeps in step with the live chain: it is extended when  *)
(* the projected tip is still on the chain, rewound to the newest shared   *)
(* block when a reorganization abandoned it, and rebuilt when neither is   *)
(* possible.  A transaction that fails leaves the tables as they were, and *)
(* metrics are written in a transaction of their own.                      *)
(*                                                                         *)
(* A block is the path of choices leading to it from genesis, <<>>, and a  *)
(* choice stands for the contents of a block.  What is resident, stored    *)
(* and pruned follows NodeHistory: the chain database agrees with the live *)
(* chain below the resident window.                                        *)
(***************************************************************************)
EXTENDS Integers, Sequences, SequencesExt, FiniteSets, FiniteSetsExt, Functions

CONSTANTS
    Contents,        \* a choice's transactions and its finalizer
    Allocations,     \* the amounts genesis gives to addresses
    MineReward,      \* MINE_REWARD
    ProjectedKept,   \* UI_PROJECTED_BLOCKS_RETAINED, 256 in the code
    DrawsKept,       \* RESIDENT_TICKET_DRAW_BLOCKS, 128 in the code
    ResidentBlocks,  \* RESIDENT_CHAIN_BLOCKS, 64 in the code
    ForkDepth,       \* FORK_FINALITY_DEPTH, 6 in the code
    StartTips,       \* the chains the node starts with, or none
    MaxHeight,       \* bound on the chain
    MaxIncidents     \* bound on forks, crashes, deletions, failures and mode changes

VARIABLES
    live,       \* the ledger in memory: its tip and the lowest resident height above genesis
    stored,     \* the tip of the chain database
    ui,         \* the tables of the UI projection
    metrics,    \* the tables of the block metrics
    loop,       \* the persistence loop and what it remembers
    keep,       \* keep_track_of_metrics
    incidents   \* how many incidents there were

vars == <<live, stored, ui, metrics, loop, keep, incidents>>

Choice == DOMAIN Contents

NoTip == <<"none">>

At(tip, h) == SubSeq(tip, 1, h)

OnChain(b, tip) == tip # NoTip /\ b # NoTip /\ IsPrefix(b, tip)

Chain(tip) == {At(tip, h) : h \in 0 .. Len(tip)}

-----------------------------------------------------------------------------
(* What blocks do.  A transaction spends all the outputs of its owner.     *)

Output(id, address, amount) == [id |-> id, address |-> address, amount |-> amount]

Amount(outputs) == MapThenSumSet(LAMBDA o : o.amount, outputs)

Genesis ==
    {Output(<< <<>>, 0, k >>, Allocations[k].address, Allocations[k].amount) :
        k \in DOMAIN Allocations}

Txs(b) == IF b = <<>> THEN <<>> ELSE Contents[Last(b)].txs

Indices(n) == [i \in 1 .. n |-> i]

Fees(b) == MapThenSumSet(LAMBDA i : Txs(b)[i].fee, DOMAIN Txs(b))

RewardOutputs(b) ==
    IF Fees(b) = 0 THEN {} ELSE {Output(<<b, 0, 1>>, Contents[Last(b)].finalizer, Fees(b))}

Spent(t, utxos) == {o \in utxos : t.kind # "mine" /\ o.address = t.from}

Change(b, i, total) ==
    LET t == Txs(b)[i]
    IN  IF total > t.amount + t.fee
        THEN {Output(<<b, i, 2>>, t.from, total - t.amount - t.fee)} ELSE {}

\* The outputs a transaction creates: a mine's reward, a transfer's payment and change,
\* a burn's change.
OutputsOf(b, i, total) ==
    LET t == Txs(b)[i]
    IN  CASE t.kind = "mine" -> {Output(<<b, i, 1>>, t.to, MineReward)}
          [] t.kind = "transfer" -> {Output(<<b, i, 1>>, t.to, t.amount)} \cup Change(b, i, total)
          [] t.kind = "burn" -> Change(b, i, total)

\* The unspent outputs after a block, and for each transaction what it spent and made.
Apply(before, b) ==
    LET step(s, i) ==
            LET spent == Spent(Txs(b)[i], s.utxos)
                made == OutputsOf(b, i, Amount(spent))
            IN  [utxos |-> (s.utxos \ spent) \cup made,
                 steps |-> Append(s.steps, [spent |-> spent, made |-> made])]
        all == FoldLeft(step, [utxos |-> before, steps |-> <<>>], Indices(Len(Txs(b))))
    IN  [all EXCEPT !.utxos = @ \cup RewardOutputs(b)]

Utxos(tip) ==
    FoldLeft(LAMBDA u, h : Apply(u, At(tip, h)).utxos, Genesis, Indices(Len(tip)))

Steps(b) == IF b = <<>> THEN <<>> ELSE Apply(Utxos(Front(b)), b).steps

\* A choice may follow tip when its transactions can be paid.
MayFollow(tip, c) ==
    LET b == Append(tip, c)
    IN  \A i \in DOMAIN Txs(b) :
            LET t == Txs(b)[i] IN
            t.kind # "mine" => Amount(Steps(b)[i].spent) >= t.amount + t.fee

\* The addresses of the wallets a transaction belongs to.
WalletAddresses(t) ==
    CASE t.kind = "mine" -> {t.to} [] t.kind = "burn" -> {t.from} [] OTHER -> {t.from, t.to}

-----------------------------------------------------------------------------
(* The rows of blocks.                                                     *)

KnownOutputs(blocks) ==
    UNION {RewardOutputs(b) \cup UNION {Steps(b)[i].made : i \in DOMAIN Steps(b)} :
              b \in blocks \ {<<>>}}

RowsOf(v, b) ==
    UNION {{[address |-> a, height |-> Len(b), kind |-> Txs(b)[i].kind, id |-> <<b, i>>,
             amount |-> IF Txs(b)[i].kind = "mine" THEN MineReward ELSE Txs(b)[i].amount] :
               a \in WalletAddresses(Txs(b)[i])} :
           i \in {j \in DOMAIN Txs(b) : Txs(b)[j].v = v}}

RewardRows(b) ==
    IF b = <<>> THEN {}
    ELSE {[address |-> o.address, height |-> Len(b), kind |-> "reward", id |-> <<b, 0>>,
           amount |-> o.amount] : o \in RewardOutputs(b)}

WalletTransactions(blocks) == UNION {RowsOf(1, b) \cup RewardRows(b) : b \in blocks}

WalletTransactionsV2(blocks) == UNION {RowsOf(2, b) : b \in blocks}

\* The mine and burn activity among rows that counts for one leaderboard entry.
Activity(rows, k) ==
    {r \in rows : r.kind \in {"mine", "burn"} /\ <<r.kind, r.address>> = k}

Keys(rows) == {<<r.kind, r.address>> : r \in {q \in rows : q.kind \in {"mine", "burn"}}}

Total(rows) == MapThenSumSet(LAMBDA r : r.amount, rows)

NoBoards == [k \in {} |-> 0]

AccumulateActivity(boards, rows) ==
    [k \in DOMAIN boards \cup Keys(rows) |->
        LET old == IF k \in DOMAIN boards THEN boards[k] ELSE [amount |-> 0, count |-> 0]
        IN  [amount |-> old.amount + Total(Activity(rows, k)),
             count |-> old.count + Cardinality(Activity(rows, k))]]

\* The other direction: amounts and counts saturate, and an entry without activity goes.
TakeBackActivity(boards, rows) ==
    LET left(k) == boards[k].count - Cardinality(Activity(rows, k))
    IN  [k \in {j \in DOMAIN boards : left(j) > 0} |->
            [amount |-> Max({0, boards[k].amount - Total(Activity(rows, k))}),
             count |-> left(k)]]

\* load_ui_activity_leaderboards: balances are not carried over.
ActivityBoards(boards) ==
    Restrict(boards, {k \in DOMAIN boards : k[1] # "balances"})

AccumulateBalances(boards, utxos) ==
    LET holders == {o.address : o \in utxos}
        of(a) == {o \in utxos : o.address = a}
    IN  [k \in DOMAIN boards \cup ({"balances"} \X holders) |->
            IF k \in DOMAIN boards THEN boards[k]
            ELSE [amount |-> Amount(of(k[2])), count |-> Cardinality(of(k[2]))]]

-----------------------------------------------------------------------------
(* The tables.                                                             *)

EmptyUi ==
    [tip |-> NoTip, outputs |-> {}, utxos |-> {}, rows |-> {}, rowsV2 |-> {},
     boards |-> NoBoards, ranks |-> {}, projected |-> {}, sizes |-> {}]

Pruned(ledger) == ledger.first > 1

Resident(ledger) == {b \in Chain(ledger.tip) : b = <<>> \/ Len(b) >= ledger.first}

\* burn_leader_ranks_by_block_hash: genesis, retained draws, and what the resident history
\* can replay; the others are omitted.
RankedBlocks(ledger, blocks) ==
    {b \in blocks \cap Chain(ledger.tip) :
        b = <<>> \/ Len(b) > Len(ledger.tip) - DrawsKept \/ ~Pruned(ledger)}

\* recorded_storage_size_breakdowns, of the blocks the ledger holds.
SizedBlocks(ledger, blocks) == blocks \cap Resident(ledger)

RecordProjectedBlocks(table, blocks) ==
    IF blocks = {} THEN table
    ELSE LET newest == Max({Len(b) : b \in blocks})
             oldest == Max({0, newest - ProjectedKept + 1})
             other == {b \in table : \A c \in blocks : Len(b) # Len(c)}
         IN  {b \in other \cup blocks : Len(b) \in oldest .. newest}

\* append_ui_chain_index and the appends around it.  The meta row is updated, so a
\* missing one stays missing.
AppendBlocks(u, ledger, blocks) ==
    [u EXCEPT !.tip = IF @ = NoTip THEN NoTip ELSE ledger.tip,
              !.outputs = @ \cup KnownOutputs(blocks),
              !.rows = @ \cup WalletTransactions(blocks),
              !.rowsV2 = @ \cup WalletTransactionsV2(blocks),
              !.ranks = @ \cup RankedBlocks(ledger, blocks),
              !.sizes = @ \cup SizedBlocks(ledger, blocks),
              !.projected = RecordProjectedBlocks(@, blocks)]

\* Mutant: the board entries of abandoned blocks stay.
RewindRowsOnly(u, height) ==
    [u EXCEPT !.rows = {r \in @ : r.height <= height},
              !.rowsV2 = {r \in @ : r.height <= height},
              !.ranks = @ \ {b \in u.projected : Len(b) > height},
              !.sizes = @ \ {b \in u.projected : Len(b) > height},
              !.projected = {b \in @ : Len(b) <= height}]

\* rewind_ui_projection_above.  The output index keeps the outputs of abandoned blocks.
RewindAbove(u, height) ==
    LET abandoned == {b \in u.projected : Len(b) > height}
    IN  [u EXCEPT !.boards = TakeBackActivity(@, {r \in u.rows : r.height > height}),
                  !.rows = {r \in @ : r.height <= height},
                  !.rowsV2 = {r \in @ : r.height <= height},
                  !.ranks = @ \ abandoned,
                  !.sizes = @ \ abandoned,
                  !.projected = {b \in @ : Len(b) <= height}]

\* project_snapshot from scratch.
Rebuild(tip) ==
    LET whole == [tip |-> tip, first |-> 1]
        rows == WalletTransactions(Chain(tip))
    IN  [tip       |-> tip,
         outputs   |-> Genesis \cup KnownOutputs(Chain(tip)),
         utxos     |-> Utxos(tip),
         rows      |-> rows,
         rowsV2    |-> WalletTransactionsV2(Chain(tip)),
         boards    |-> AccumulateBalances(AccumulateActivity(NoBoards, rows), Utxos(tip)),
         ranks     |-> RankedBlocks(whole, Chain(tip)),
         projected |-> RecordProjectedBlocks({}, Chain(tip)),
         sizes     |-> SizedBlocks(whole, Chain(tip))]

\* project_snapshot when the projected tip is on the chain: the boards are rebuilt.
Extend(u, tip, from) ==
    LET whole == [tip |-> tip, first |-> 1]
        blocks == {b \in Chain(tip) : Len(b) >= from}
        rows == WalletTransactions(Chain(tip))
    IN  [AppendBlocks(u, whole, blocks) EXCEPT
            !.utxos = Utxos(tip),
            !.boards = AccumulateBalances(AccumulateActivity(NoBoards, rows), Utxos(tip))]

\* project_ledger of a pruned ledger: rewind, append, boards from the rows appended.
Continue(u, ledger, start) ==
    LET kept == [u EXCEPT !.boards = ActivityBoards(@)]
        base == IF start.rewind THEN RewindAbove(kept, start.from - 1) ELSE kept
        blocks == {b \in Chain(ledger.tip) : Len(b) >= start.from}
        boards == AccumulateActivity(base.boards, WalletTransactions(blocks))
    IN  [AppendBlocks(base, ledger, blocks) EXCEPT
            !.utxos = Utxos(ledger.tip),
            !.boards = AccumulateBalances(boards, Utxos(ledger.tip))]

\* pruned_projection_start, as a set of at most one start: after the projected tip if it
\* is resident or, below the window, stored; else after the newest shared block.
PrunedStart(u, ledger, tip) ==
    LET live_at(b) == IF b = <<>> \/ Len(b) >= ledger.first
                      THEN b \in Resident(ledger) ELSE OnChain(b, tip)
        shared == {b \in u.projected : live_at(b)}
    IN  IF u.tip = NoTip THEN {}
        ELSE IF u.tip \in Resident(ledger)
                \/ (OnChain(u.tip, tip) /\ Len(u.tip) < ledger.first)
        THEN {[from |-> Len(u.tip) + 1, rewind |-> FALSE]}
        ELSE IF shared = {} THEN {}
        ELSE {[from |-> Max({Len(b) : b \in shared}) + 1, rewind |-> TRUE]}

\* The blocks below the window are streamed from the database, and have to connect.
Streamable(ledger, tip, from) ==
    from < ledger.first => OnChain(At(ledger.tip, ledger.first - 1), tip)

-----------------------------------------------------------------------------
(* Metrics.                                                                *)

NoMetrics ==
    [tip |-> NoTip, rows |-> <<>>, known |-> {}, identities |-> {}, addresses |-> {}]

MetricAddresses(b) ==
    IF b = <<>> THEN {}
    ELSE {Contents[Last(b)].finalizer} \cup
         UNION {WalletAddresses(Txs(b)[i]) : i \in {j \in DOMAIN Txs(b) : Txs(b)[j].v = 1}}

\* The owners whose hybrid key a block reveals: transfers and burns of version 2.
RevealedOwners(b) ==
    {Txs(b)[i].from : i \in {j \in DOMAIN Txs(b) :
                                Txs(b)[j].v = 2 /\ Txs(b)[j].kind \in {"transfer", "burn"}}}

IdentityOf(owner) == owner[1]

\* INSERT OR IGNORE of new names, with the height they are first seen at.
Seen(table, names, height) ==
    table \cup {[name |-> n, height |-> height] : n \in names \ {r.name : r \in table}}

Names(table) == {r.name : r \in table}

BurnedIn(b) ==
    MapThenSumSet(LAMBDA i : IF Txs(b)[i].kind = "burn" THEN Txs(b)[i].amount ELSE 0,
                  DOMAIN Txs(b))

\* incremental_metric_for_block: the counters follow from the previous row.
MetricAfter(prev, b) ==
    LET minted == MapThenSumSet(LAMBDA i : IF Txs(b)[i].kind = "mine" THEN MineReward ELSE 0,
                                DOMAIN Txs(b))
        delta == MapThenSumSet(LAMBDA i : Cardinality(Steps(b)[i].made)
                                          - Cardinality(Steps(b)[i].spent), DOMAIN Txs(b))
    IN  [block  |-> b,
         supply |-> prev.supply + minted - Fees(b) - BurnedIn(b)
                    + (IF b = <<>> THEN 0 ELSE Fees(b)),
         utxos  |-> prev.utxos + delta
                    + (IF b = <<>> THEN 0 ELSE Cardinality(RewardOutputs(b))),
         burned |-> prev.burned + BurnedIn(b)]

BeforeGenesis ==
    [supply |-> Amount(Genesis), utxos |-> Cardinality(Genesis), burned |-> 0]

Counted(row, known, identities, value) ==
    [block |-> row.block, supply |-> row.supply, utxos |-> row.utxos, burned |-> row.burned,
     known |-> known, revealed |-> identities, value |-> value]

\* metrics_common_height, -1 for none.
MetricsCommonHeight(m, tip) ==
    LET candidate == Min({Len(m.tip), Len(tip)})
        common == {h \in DOMAIN m.rows : h <= candidate /\ m.rows[h].block = At(tip, h)}
    IN  IF m.tip = NoTip THEN -1
        ELSE IF OnChain(m.tip, tip) THEN Len(m.tip)
        ELSE IF common = {} THEN -1 ELSE Max(common)

\* Mutant: addresses first seen in abandoned blocks stay known.
TruncateRowsOnly(m, height) ==
    [m EXCEPT !.rows = Restrict(@, {h \in DOMAIN m.rows : h <= height}),
              !.identities = {r \in @ : r.height <= height},
              !.addresses = {r \in @ : r.height <= height}]

TruncateMetrics(m, height) ==
    [m EXCEPT !.rows = Restrict(@, {h \in DOMAIN m.rows : h <= height}),
              !.known = {r \in @ : r.height <= height},
              !.identities = {r \in @ : r.height <= height},
              !.addresses = {r \in @ : r.height <= height}]

\* revealed_key_value, of the ledger at a block.
RevealedKeyValue(b, addresses) == Amount({o \in Utxos(b) : o.address \in Names(addresses)})

\* The step of project_metrics_in_transaction for one block.
MetricStep(m, b) ==
    LET h == Len(b)
        prev == IF h - 1 \in DOMAIN m.rows THEN m.rows[h - 1] ELSE BeforeGenesis
        known == Seen(m.known, MetricAddresses(b), h)
        identities == Seen(m.identities, {IdentityOf(o) : o \in RevealedOwners(b)}, h)
        addresses == Seen(m.addresses, RevealedOwners(b), h)
        count == (IF h = 0 THEN Cardinality(m.known) ELSE prev.known)
                 + Cardinality(known) - Cardinality(m.known)
        value == RevealedKeyValue(b, addresses)
    IN  [m EXCEPT !.known = known, !.identities = identities, !.addresses = addresses,
                  !.rows = (h :> Counted(MetricAfter(prev, b), count, Cardinality(identities),
                                         value)) @@ @]

ProjectMetrics(m, tip) ==
    LET common == MetricsCommonHeight(m, tip)
        base == IF common >= 0 THEN TruncateMetrics(m, common)
                ELSE [NoMetrics EXCEPT
                        !.known = Seen({}, {Allocations[k].address : k \in DOMAIN Allocations}, 0)]
        done == FoldLeft(LAMBDA t, i : MetricStep(t, At(tip, common + i)), base,
                         Indices(Len(tip) - common))
    IN  [done EXCEPT !.tip = tip]

MetricsFor(m, tip, on) == IF on THEN ProjectMetrics(m, tip) ELSE NoMetrics

-----------------------------------------------------------------------------
(* The live chain and the chain database, as NodeHistory has them.         *)

\* prune_persisted_history.
Prune(ledger, bounded, tip) ==
    IF bounded /\ OnChain(tip, ledger.tip) /\ tip \in Resident(ledger)
    THEN [ledger EXCEPT !.first =
             Max({@, Len(ledger.tip) - Max({Len(ledger.tip) - Len(tip), ResidentBlocks}) + 1})]
    ELSE ledger

Incident == incidents < MaxIncidents /\ incidents' = incidents + 1

Bootstrap ==
    /\ live.tip = NoTip
    /\ live' = [tip |-> <<>>, first |-> 1]
    /\ UNCHANGED <<stored, ui, metrics, loop, keep, incidents>>

Grow ==
    /\ live.tip # NoTip
    /\ Len(live.tip) < MaxHeight
    /\ \E c \in Choice :
          /\ MayFollow(live.tip, c)
          /\ live' = Prune([live EXCEPT !.tip = Append(@, c)], loop.bounded, stored)
    /\ UNCHANGED <<stored, ui, metrics, loop, keep, incidents>>

\* A fork of the same height is adopted, at most ForkDepth blocks down; a pruned ledger is
\* rebuilt from the database, which has to hold the live tip.
Reorganize ==
    /\ live.tip # NoTip
    /\ Incident
    /\ Pruned(live) => stored = live.tip
    /\ \E d \in 1 .. Min({ForkDepth, Len(live.tip)}) : \E suffix \in [1 .. d -> Choice] :
          LET base == At(live.tip, Len(live.tip) - d)
              tip == base \o suffix
          IN  /\ suffix[1] # live.tip[Len(base) + 1]
              /\ \A h \in Len(base) .. Len(tip) - 1 : MayFollow(At(tip, h), tip[h + 1])
              /\ live' = Prune([tip |-> tip,
                                first |-> IF Pruned(live)
                                          THEN Max({1, Len(base) - ResidentBlocks + 1}) ELSE 1],
                               loop.bounded, stored)
    /\ UNCHANGED <<stored, ui, metrics, loop, keep>>

-----------------------------------------------------------------------------
(* The persistence loop.                                                   *)

NoLedger == [tip |-> NoTip, first |-> 1]

Idle(l) ==
    [l EXCEPT !.stage = "idle", !.tip = NoTip, !.ledger = NoLedger, !.plan = {},
              !.sure = FALSE]

\* An iteration with work: history is aligned with the metrics mode, the tip is saved and
\* marked.  While syncing nothing is projected.
SaveChain(syncing) ==
    /\ loop.stage = "idle"
    /\ live.tip # NoTip
    /\ \/ loop.saved # live.tip
       \/ ~syncing /\ (loop.projected # live.tip \/ loop.mode # keep)
    /\ LET aligned == IF keep /\ Pruned(live) /\ OnChain(stored, live.tip)
                      THEN [live EXCEPT !.first = 1] ELSE live
       IN  live' = Prune(aligned, ~keep, live.tip)
    /\ stored' = live.tip
    /\ loop' = IF syncing
               THEN [loop EXCEPT !.saved = live.tip, !.bounded = ~keep]
               ELSE [loop EXCEPT !.stage = "saved", !.tip = live.tip, !.keep = keep,
                                 !.bounded = ~keep]
    /\ UNCHANGED <<ui, metrics, keep, incidents>>

\* project_snapshot of a chain, as the plan of the transaction that follows: up to the
\* projected tip if it is on the chain.
SnapshotPlan(tip) ==
    {[kind |-> IF OnChain(ui.tip, tip) THEN "extend" ELSE "rebuild", tip |-> tip,
      from |-> IF OnChain(ui.tip, tip) THEN Len(ui.tip) + 1 ELSE 0, rewind |-> FALSE]}

ContinuePlan(ledger) ==
    {[kind |-> "continue", tip |-> ledger.tip, from |-> s.from, rewind |-> s.rewind] :
        s \in {t \in PrunedStart(ui, ledger, stored) : Streamable(ledger, stored, t.from)}}

\* project_ui_data_store: the ledger of this moment is cloned; where to continue is read,
\* and a projection from a snapshot writes the metrics first.
StartProjection ==
    /\ loop.stage = "saved"
    /\ live.tip # NoTip
    /\ \E continue \in {IF Pruned(live) /\ ~loop.keep THEN ContinuePlan(live) ELSE {}} :
       \E tip \in {IF Pruned(live) THEN stored ELSE live.tip} :
          IF continue # {}
          THEN /\ loop' = [loop EXCEPT !.stage = "projecting", !.ledger = live, !.sure = TRUE,
                                       !.plan = continue]
               /\ UNCHANGED metrics
          ELSE IF tip = NoTip
          THEN loop' = Idle(loop) /\ UNCHANGED metrics
          ELSE /\ loop' = [loop EXCEPT !.stage = "projecting", !.ledger = live, !.sure = TRUE,
                                       !.plan = SnapshotPlan(tip)]
               /\ metrics' = MetricsFor(metrics, tip, loop.keep)
    /\ UNCHANGED <<live, stored, ui, keep, incidents>>

\* The chain was deleted meanwhile: the setup placeholder is projected, as an empty table.
ProjectPlaceholder ==
    /\ loop.stage = "saved"
    /\ live.tip = NoTip
    /\ ui' = EmptyUi
    /\ metrics' = NoMetrics
    /\ loop' = [Idle(loop) EXCEPT !.saved = loop.tip, !.projected = NoTip, !.mode = loop.keep]
    /\ UNCHANGED <<live, stored, keep, incidents>>

Projected(u, plan, ledger) ==
    CASE plan.kind = "rebuild" -> Rebuild(plan.tip)
      [] plan.kind = "extend" -> IF plan.from > Len(plan.tip) THEN u
                                 ELSE Extend(u, plan.tip, plan.from)
      [] plan.kind = "continue" -> IF plan.from > Len(plan.tip) /\ ~plan.rewind THEN u
                                   ELSE Continue(u, ledger, plan)

\* Mutant: the tip of the moment the transaction ends is taken for saved and projected.
CommitTakingNewestTip ==
    /\ loop.stage = "projecting"
    /\ \E plan \in loop.plan :
          /\ ui' = Projected(ui, plan, loop.ledger)
          /\ metrics' = IF plan.kind = "continue" THEN NoMetrics ELSE metrics
    /\ loop' = [Idle(loop) EXCEPT !.saved = live.tip, !.projected = live.tip,
                                  !.mode = loop.keep, !.fresh = loop.fresh /\ ~loop.sure]
    /\ UNCHANGED <<live, stored, keep, incidents>>

\* The transaction.  The loop takes the clone's tip for projected, also when the database,
\* which may be behind, was projected instead; then it is not sure of what is shown.
CommitProjection ==
    /\ loop.stage = "projecting"
    /\ \E plan \in loop.plan :
          /\ ui' = Projected(ui, plan, loop.ledger)
          /\ metrics' = IF plan.kind = "continue" THEN NoMetrics ELSE metrics
          /\ loop' = [Idle(loop) EXCEPT
                         !.saved = loop.tip, !.projected = loop.ledger.tip, !.mode = loop.keep,
                         !.fresh = (@ /\ ~loop.sure) \/ plan.tip # loop.ledger.tip]
    /\ UNCHANGED <<live, stored, keep, incidents>>

\* A save or a projection fails; the next iteration starts over.
Fail ==
    /\ loop.stage \in {"saved", "projecting"}
    /\ Incident
    /\ loop' = Idle(loop)
    /\ UNCHANGED <<live, stored, ui, metrics, keep>>

ToggleMetrics ==
    /\ Incident
    /\ keep' = ~keep
    /\ UNCHANGED <<live, stored, ui, metrics, loop>>

-----------------------------------------------------------------------------
(* Deleting the chain, and starting again.                                 *)

\* reset_local_chain: the chain in memory and in the database.
DeleteChain ==
    /\ live.tip # NoTip
    /\ Incident
    /\ live' = NoLedger
    /\ stored' = NoTip
    /\ loop' = [loop EXCEPT !.clearing = TRUE]
    /\ UNCHANGED <<ui, metrics, keep>>

\* clear_ui_data, its last step.
ClearUi ==
    /\ loop.clearing
    /\ ui' = EmptyUi
    /\ metrics' = NoMetrics
    /\ loop' = [loop EXCEPT !.clearing = FALSE, !.sure = FALSE, !.fresh = TRUE]
    /\ UNCHANGED <<live, stored, keep, incidents>>

Booting(ledger, on) ==
    [stage |-> "warming", tip |-> NoTip, ledger |-> ledger, plan |-> {}, keep |-> on,
     bounded |-> FALSE, saved |-> NoTip, projected |-> NoTip, mode |-> on,
     fresh |-> TRUE, sure |-> FALSE, clearing |-> FALSE]

\* A crash or a stop.  Only the window is loaded when nothing has to be projected.
Restart ==
    /\ Incident
    /\ LET windowed == ~keep /\ stored # NoTip /\ ui.tip = stored
           loaded == [tip |-> stored,
                      first |-> IF windowed THEN Max({1, Len(stored) - ResidentBlocks + 1})
                                ELSE 1]
       IN  live' = loaded /\ loop' = Booting(loaded, keep)
    /\ UNCHANGED <<stored, ui, metrics, keep>>

\* warm_ui_data_store, its first transaction; without a chain the tables are cleared.
Warm ==
    /\ loop.stage = "warming"
    /\ \E tip \in {loop.ledger.tip} :
          CASE tip = NoTip ->
                   /\ ui' = EmptyUi
                   /\ metrics' = NoMetrics
                   /\ loop' = [loop EXCEPT !.stage = "started"]
            [] tip # NoTip /\ ui.tip = tip ->
                   /\ metrics' = MetricsFor(metrics, tip, loop.keep)
                   /\ loop' = [loop EXCEPT !.stage = "started"]
                   /\ UNCHANGED ui
            [] OTHER ->
                   /\ metrics' = MetricsFor(metrics, tip, loop.keep)
                   /\ loop' = [loop EXCEPT !.stage = "warmed", !.plan = SnapshotPlan(tip)]
                   /\ UNCHANGED ui
    /\ UNCHANGED <<live, stored, keep, incidents>>

CommitWarm ==
    /\ loop.stage = "warmed"
    /\ \E plan \in loop.plan : ui' = Projected(ui, plan, loop.ledger)
    /\ loop' = [loop EXCEPT !.stage = "started", !.plan = {}]
    /\ UNCHANGED <<live, stored, metrics, keep, incidents>>

\* run_chain_persistence takes the tip of this moment for saved and projected.
StartLoop ==
    /\ loop.stage = "started"
    /\ live' = Prune(live, ~keep, stored)
    /\ loop' = [Idle(loop) EXCEPT !.saved = live.tip, !.projected = live.tip,
                                  !.mode = IF loop.ledger.tip = NoTip THEN keep ELSE loop.keep,
                                  !.bounded = ~keep]
    /\ UNCHANGED <<stored, ui, metrics, keep, incidents>>

\* A first start without a chain, or a running node that has saved and projected the tip.
UiInit ==
    /\ keep \in BOOLEAN
    /\ \E tip \in StartTips :
          /\ live = Prune([tip |-> tip, first |-> 1], ~keep, tip)
          /\ stored = tip
          /\ ui = IF tip = NoTip THEN EmptyUi ELSE Rebuild(tip)
          /\ metrics = IF tip = NoTip THEN NoMetrics ELSE MetricsFor(NoMetrics, tip, keep)
          /\ loop = IF tip = NoTip THEN Booting(NoLedger, keep)
                    ELSE [Idle(Booting(NoLedger, keep)) EXCEPT
                            !.saved = tip, !.projected = tip, !.bounded = ~keep, !.fresh = FALSE]
          /\ incidents = IF tip = NoTip THEN MaxIncidents ELSE 0

UiNext ==
    \/ Bootstrap \/ Grow \/ Reorganize
    \/ SaveChain(TRUE) \/ SaveChain(FALSE)
    \/ StartProjection \/ ProjectPlaceholder \/ CommitProjection \/ Fail \/ ToggleMetrics
    \/ DeleteChain \/ ClearUi \/ Restart \/ Warm \/ CommitWarm \/ StartLoop

UiSpec == UiInit /\ [][UiNext]_vars

-----------------------------------------------------------------------------
(* Properties.                                                             *)

\* However the projection came about, by appending, rewinding, streaming or rebuilding,
\* the unspent outputs, wallet histories and leaderboards are the ones a rebuild from the
\* projected chain gives, the block index has only blocks of that chain, and no known output
\* is missing.
ProjectionIsRebuild ==
    ui.tip # NoTip =>
        LET whole == Rebuild(ui.tip)
        IN  /\ ui.utxos = whole.utxos
            /\ ui.rows = whole.rows
            /\ ui.rowsV2 = whole.rowsV2
            /\ ui.boards = whole.boards
            /\ ui.tip \in ui.projected
            /\ ui.projected \subseteq whole.projected
            /\ whole.outputs \subseteq ui.outputs

\* The views that are looked up by block hash, leader ranks and storage sizes, keep no row
\* of a block that a reorganization took off the projected chain.
NoAbandonedRows ==
    ui.tip # NoTip => ui.ranks \cup ui.sizes \subseteq Chain(ui.tip)

\* The counters that metrics carry from block to block agree with the ledger at every
\* height: supply and unspent outputs, what was burned, the addresses known, and the
\* identities and value revealed.
MetricsMatchLedger ==
    metrics.tip # NoTip =>
        /\ DOMAIN metrics.rows = 0 .. Len(metrics.tip)
        /\ \A h \in DOMAIN metrics.rows :
              LET b == At(metrics.tip, h)
                  chain == Chain(b)
                  owners == UNION {RevealedOwners(c) : c \in chain}
              IN  metrics.rows[h] =
                    [block |-> b,
                     supply |-> Amount(Utxos(b)),
                     utxos |-> Cardinality(Utxos(b)),
                     burned |-> MapThenSumSet(BurnedIn, chain),
                     known |-> Cardinality({Allocations[k].address : k \in DOMAIN Allocations}
                                           \cup UNION {MetricAddresses(c) : c \in chain}),
                     revealed |-> Cardinality({IdentityOf(o) : o \in owners}),
                     value |-> Amount({o \in Utxos(b) : o.address \in owners})]

\* Once a projection has started and finished since the last start and the last deletion
\* of the chain, and the last one did not fall back to a database that was behind, a loop
\* that has nothing to do means that the UI shows the live chain, and metrics if wanted.
SettledIsShown ==
    /\ loop.stage = "idle"
    /\ ~loop.fresh
    /\ ~loop.clearing
    /\ live.tip # NoTip
    /\ loop.saved = live.tip
    /\ loop.projected = live.tip
    /\ loop.mode = keep
    => /\ ui.tip = live.tip
       /\ metrics.tip = IF keep THEN live.tip ELSE NoTip
=============================================================================
