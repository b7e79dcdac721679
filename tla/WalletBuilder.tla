--------------------------- MODULE WalletBuilder ---------------------------
(***************************************************************************)
(* How the node's wallet turns a request (pay, burn, migrate, consolidate) *)
(* into a transaction: which outputs it spends, where the change goes, and *)
(* the loop that looks for a fee that covers the bytes of the transaction  *)
(* the fee itself is part of.  Legacy (v1) transactions have compact       *)
(* integers, so their size moves with the fee and with the outputs chosen; *)
(* v2 transactions have fixed-width fields and one signature per owner.    *)
(*                                                                         *)
(* An outpoint is a number; outpoints compare in the order of creation.    *)
(***************************************************************************)
EXTENDS Integers, FiniteSets, SequencesExt, FiniteSetsExt, Functions

CONSTANTS StartWallets,        \* initial wallets: functions outpoint -> output
          Payments,       \* outputs that may arrive from elsewhere
          AskedAmounts,        \* amounts asked for
          Rates,          \* fees per byte asked for
          BatchInputs,    \* BATCH_INPUTS
          MaxBatches,     \* MAX_BATCHES
          MigrationInputs,\* most legacy outputs of one migration
          MaxTxBytes,     \* bytes that fit an empty block
          ChainIdBytes,   \* length of the profile's id
          FeeRounds,      \* rounds of a fee loop (64)
          MaxRequests,    \* bound: requests served
          MaxArrivals     \* bound: outputs received

VARIABLES outs,      \* every output the wallet ever had: outpoint -> output
          confirmed, \* the outpoints of the ledger's UTXO set
          pending,   \* sequence of the wallet's pending transactions
          anchor,    \* inputs of the local block anchor burn
          plan,      \* the last consolidation preview
          requests,  \* requests served so far
          arrivals   \* outputs received so far

builderVars == <<outs, confirmed, pending, anchor, plan, requests, arrivals>>

NoPlan == [rate |-> 0, merge |-> FALSE, batches |-> <<>>, sent |-> {}, current |-> FALSE]

Total(ids) == FoldSet(LAMBDA i, acc : outs[i].amount + acc, 0, ids)
SumOf(amounts) == FoldLeft(LAMBDA acc, a : acc + a, 0, amounts)
Legacy(ids) == {i \in ids : outs[i].kind = "legacy"}
Hybrid(ids) == {i \in ids : outs[i].kind = "hybrid"}
Owners(ids) == {outs[i].owner : i \in ids}
NewId == Cardinality(DOMAIN outs) + 1

-----------------------------------------------------------------------------
(* What can be spent.                                                       *)

PendingOf(version) == {pending[k] : k \in {n \in DOMAIN pending : pending[n].version = version}}
SpentInputs(txs) == UNION {t.ins : t \in txs}
MadeBy(txs) == UNION {t.made : t \in txs}

\* utxos_after_spendable_pending of the ledger: v1 pending transactions only.
AfterV1 == (confirmed \cup MadeBy(PendingOf(1))) \ SpentInputs(PendingOf(1))

\* utxos_after_all_spendable_pending.
AfterAll == (AfterV1 \cup MadeBy(PendingOf(2))) \ SpentInputs(PendingOf(2))

\* The same two on wallet_build_ledger, a copy without the anchor's inputs.
Reserved == IF anchor \subseteq AfterV1 THEN anchor ELSE {}
SelectableV1 == AfterV1 \ Reserved
Selectable == AfterAll \ Reserved

-----------------------------------------------------------------------------
(* Sizes.                                                                   *)

CompactLen(n) == CHOOSE k \in 1..5 : n < 128 ^ k /\ (k = 1 \/ n >= 128 ^ (k - 1))

LegacyInputBytes(ids) == FoldSet(LAMBDA i, acc : outs[i].idBytes + 1 + 32 + acc, 0, ids)
LegacyOutputBytes(amounts) == SumOf([k \in DOMAIN amounts |-> 32 + CompactLen(amounts[k])])

TransferBytes(ids, amounts, fee) ==
    1 + CompactLen(Cardinality(ids)) + LegacyInputBytes(ids) + CompactLen(Len(amounts))
      + LegacyOutputBytes(amounts) + CompactLen(fee) + 64

BurnBytes(ids, change, amount, fee) ==
    1 + CompactLen(Cardinality(ids)) + LegacyInputBytes(ids) + CompactLen(Len(change))
      + LegacyOutputBytes(change) + CompactLen(amount) + CompactLen(fee) + 32 + 64

MinimumTransferBytes(n) == 1 + CompactLen(n) + n * (32 + 1 + 32) + CompactLen(1) + 32 + 1 + 1 + 64

V2Prefix == 10 + 2 + 4 + ChainIdBytes + 32
HybridAuthorizations(ids) == 4 + Cardinality(Owners(ids)) * (1 + 4 + 1344 + 4 + 2484)
V2TransferBytes(ids, amounts) ==
    V2Prefix + 1 + 4 + Cardinality(ids) * (32 + 4 + 33) + 4 + Len(amounts) * (33 + 8) + 8
      + HybridAuthorizations(ids)
V2BurnBytes(ids, change) ==
    V2Prefix + 1 + 4 + Cardinality(ids) * (32 + 4 + 33) + 4 + Len(change) * (33 + 8) + 8 + 8 + 33
      + HybridAuthorizations(ids)
MigrationBytes(ids) ==
    V2Prefix + 1 + 4 + FoldSet(LAMBDA i, acc : 1 + outs[i].idBytes + 4 + 33 + acc, 0, ids)
      + 4 + (33 + 8) + 8 + 4 + (1 + 4 + 32 + 4 + 64)

-----------------------------------------------------------------------------
(* Selection.  A selection is the empty set (insufficient funds) or the set *)
(* of the chosen set of outpoints.                                          *)

LargestFirst(ids) ==
    SetToSortSeq(ids, LAMBDA i, j : \/ outs[i].amount > outs[j].amount
                                    \/ outs[i].amount = outs[j].amount /\ i < j)
SmallestFirst(ids) ==
    SetToSortSeq(ids, LAMBDA i, j : \/ outs[i].amount < outs[j].amount
                                    \/ outs[i].amount = outs[j].amount /\ i < j)
InOrder(ids) == SetToSortSeq(ids, LAMBDA i, j : i < j)

\* The shortest prefix of a list of outpoints that covers an amount.
Covering(list, required) ==
    LET enough == {n \in 1..Len(list) : Total(ToSet(SubSeq(list, 1, n))) >= required}
    IN  IF enough = {} THEN {} ELSE {ToSet(SubSeq(list, 1, Min(enough)))}

\* build_transfer: the smallest sufficient output, or the largest first.
TransferSelection(required) ==
    LET mine == Legacy(Selectable)
        single == {i \in mine : outs[i].amount >= required}
    IN  IF single # {} THEN {{Head(SmallestFirst(single))}}
        ELSE Covering(LargestFirst(mine), required)

\* select_inputs: outpoint order, and only v1 pending transactions count.
BurnSelection(required) == Covering(InOrder(Legacy(SelectableV1)), required)

V2TransferSelection(required) == Covering(LargestFirst(Hybrid(Selectable)), required)

\* build_v2_burn_with_anchor: the first owner whose outputs suffice.
V2BurnSelection(required) ==
    LET of(o) == {i \in Hybrid(Selectable) : outs[i].owner = o}
        able == {o \in Owners(Hybrid(Selectable)) : Total(of(o)) >= required}
    IN  IF able = {} THEN {} ELSE Covering(LargestFirst(of(Min(able))), required)

-----------------------------------------------------------------------------
(* Builders: for a fee, no transaction or the one transaction.              *)

Change(ids, required) == IF Total(ids) > required THEN <<Total(ids) - required>> ELSE <<>>

Tx(op, version, ids, paid, change, fee, bytes) ==
    [op |-> op, version |-> version, ins |-> ids, paid |-> paid, change |-> change,
     fee |-> fee, bytes |-> bytes]

Fitting(txs) == {t \in txs : t.bytes <= MaxTxBytes}

BuildTransfer(selection, amount, fee) ==
    Fitting({Tx("transfer", 1, ids, amount, Change(ids, amount + fee), fee,
                TransferBytes(ids, <<amount>> \o Change(ids, amount + fee), fee))
             : ids \in selection})

BuildBurn(amount, fee) ==
    Fitting({Tx("burn", 1, ids, amount, Change(ids, amount + fee), fee,
                BurnBytes(ids, Change(ids, amount + fee), amount, fee))
             : ids \in BurnSelection(amount + fee)})

BuildV2Transfer(selection, amount, fee) ==
    Fitting({Tx("transfer", 2, ids, amount, Change(ids, amount + fee), fee,
                V2TransferBytes(ids, <<amount>> \o Change(ids, amount + fee)))
             : ids \in selection})

BuildV2Burn(amount, fee) ==
    Fitting({Tx("burn", 2, ids, amount, Change(ids, amount + fee), fee,
                V2BurnBytes(ids, Change(ids, amount + fee)))
             : ids \in V2BurnSelection(amount + fee)})

\* select_inputs_by_outpoint and its hybrid twin: exactly the outputs named.
Chosen(ids, spendable, required) ==
    IF ids \subseteq spendable /\ Total(ids) >= required THEN {ids} ELSE {}

\* build_v2_migration_batch: the longest prefix the shrinking loop settles on.
MigrationPrefix ==
    LET list == InOrder(Legacy(Selectable))
        at(n) == ToSet(SubSeq(list, 1, n))
        shrunk(n) == Max({1, Min({n - 1, (n * MaxTxBytes) \div MigrationBytes(at(n))})})
        shrink(n, k) == IF n = 0 \/ MigrationBytes(at(n)) <= MaxTxBytes THEN n
                        ELSE IF n = 1 THEN 0 ELSE shrunk(n)
    IN  at(FoldLeft(shrink, Min({Len(list), MigrationInputs}), [k \in 1..MigrationInputs |-> k]))

BuildMigration(fee) ==
    {Tx("migration", 2, ids, 0, <<Total(ids) - fee>>, fee, MigrationBytes(ids))
     : ids \in {s \in {MigrationPrefix} : s # {} /\ Total(s) > fee}}

-----------------------------------------------------------------------------
(* The fee loops.                                                           *)

AtLeastOne(n) == Max({1, n})
RequiredFee(rate, t) == AtLeastOne(rate * t.bytes)

\* The cheapest transaction met so far that pays at least its size at the rate.
KeepBest(best, t, required) ==
    IF t.fee > required /\ \A b \in best : t.fee < b.fee THEN {t} ELSE best

\* converge_fee_by_byte: the transaction that pays exactly its size at the rate,
\* or else the cheapest one met that pays at least that.
ConvergeFeeByByte(rate, Build(_)) ==
    LET round(s, k) ==
            IF s.done \/ s.failed THEN s
            ELSE LET built == Build(s.fee) IN
                 IF built = {} THEN [s EXCEPT !.failed = TRUE]
                 ELSE LET t == CHOOSE x \in built : TRUE
                          required == RequiredFee(rate, t)
                      IN  IF t.fee = required THEN [s EXCEPT !.done = TRUE, !.best = {t}]
                          ELSE [s EXCEPT !.fee = required, !.best = KeepBest(@, t, required)]
        end == FoldLeft(round, [fee |-> 1, best |-> {}, done |-> FALSE, failed |-> FALSE],
                        [k \in 1..FeeRounds |-> k])
        pays(txs) == {t \in txs : t.fee >= RequiredFee(rate, t)}
        last == Build(end.fee)
        raised == IF last = {} THEN {} ELSE Build(RequiredFee(rate, CHOOSE t \in last : TRUE))
    IN  CASE end.failed -> {}
          [] end.best # {} -> end.best
          [] OTHER -> IF pays(last) # {} THEN last ELSE pays(raised)

\* The loops of the hybrid builders and of the legacy estimate: the first fee
\* that covers the size.
FirstCoveringFee(rate, Build(_)) ==
    LET round(s, k) ==
            IF s.found # {} \/ s.failed THEN s
            ELSE LET built == Build(s.fee) IN
                 IF built = {} THEN [s EXCEPT !.failed = TRUE]
                 ELSE LET t == CHOOSE x \in built : TRUE
                          required == RequiredFee(rate, t)
                      IN  IF t.fee >= required THEN [s EXCEPT !.found = {t}]
                          ELSE [s EXCEPT !.fee = required]
    IN  FoldLeft(round, [fee |-> 1, found |-> {}, failed |-> FALSE],
                 [k \in 1..FeeRounds |-> k]).found

\* preview_quantum_migration: the fee of the bytes of a batch built with fee 1.
MigrationAtRate(rate) ==
    UNION {BuildMigration(rate * t.bytes) : t \in BuildMigration(1)}

-----------------------------------------------------------------------------
(* Consolidation.                                                           *)

\* wallet_pending_spent_outpoints: pending inputs, v1, v2 and the anchor's.
PendingSpent == SpentInputs(PendingOf(1)) \cup SpentInputs(PendingOf(2)) \cup Reserved

\* consolidation_inventory: confirmed outputs no pending transaction spends.
Available == (Selectable \cap (confirmed \ Reserved)) \ PendingSpent

\* consolidation_inputs: 2 to BATCH_INPUTS outputs, still there, of one kind
\* and, without consent, of one mining root.
InputsAccepted(ids, merge) ==
    /\ Cardinality(ids) \in 2..BatchInputs
    /\ ids \subseteq Available
    /\ Cardinality({outs[i].kind : i \in ids}) = 1
    /\ merge \/ Cardinality({outs[i].root : i \in ids}) = 1

\* consolidation_batch: at most 1% of the value goes to fees.
WithinFeeCap(t) == t.fee * 100 <= Total(t.ins)

MeetsFeeCap(ids, rate) == AtLeastOne(rate * MinimumTransferBytes(Cardinality(ids))) * 100 <= Total(ids)

LegacyConsolidation(ids, fee) ==
    Fitting({Tx("consolidate", 1, s, 0, <<Total(s) - fee>>, fee, TransferBytes(s, <<Total(s) - fee>>, fee))
             : s \in {x \in {ids} : Total(x) > fee}})

\* estimate_v2_consolidation_size_with_input_owners: one output and one
\* authorization per owner, before anything is signed.
ConsolidationBytes(ids) == V2TransferBytes(ids, <<0>>)

HybridConsolidation(ids, rate) ==
    LET bytes == ConsolidationBytes(ids)
        fee == AtLeastOne(rate * bytes)
    IN  Fitting({Tx("consolidate", 2, s, 0, <<Total(s) - fee>>, fee, bytes)
                 : s \in {x \in {ids} : Total(x) > fee}})

\* Mutant: the estimate takes the lower bound of the size for the size.
LegacyEstimateMinimum(ids, rate) ==
    LegacyConsolidation(ids, AtLeastOne(rate * MinimumTransferBytes(Cardinality(ids))))

LegacyEstimate(ids, rate) == FirstCoveringFee(rate, LAMBDA fee : LegacyConsolidation(ids, fee))

\* preview_consolidation estimates, build_consolidation signs.
PreviewConsolidation(ids, rate, merge) ==
    IF ~InputsAccepted(ids, merge) THEN {}
    ELSE {t \in (IF Legacy(ids) # {} THEN LegacyEstimate(ids, rate) ELSE HybridConsolidation(ids, rate)) :
              WithinFeeCap(t)}

BuildConsolidation(ids, rate, merge) ==
    IF ~InputsAccepted(ids, merge) THEN {}
    ELSE {t \in (IF Legacy(ids) # {} THEN ConvergeFeeByByte(rate, LAMBDA fee : LegacyConsolidation(ids, fee))
                 ELSE HybridConsolidation(ids, rate)) : WithinFeeCap(t)}

\* The outputs that may be merged: all but the largest of each kind.
Candidates ==
    LET largest(ids) == IF ids = {} THEN {} ELSE {Last(SmallestFirst(ids))}
    IN  Available \ (largest(Legacy(Available)) \cup largest(Hybrid(Available)))

GroupKeys(merge) == {<<outs[i].kind, IF merge THEN 0 ELSE outs[i].root>> : i \in Candidates}
Group(key, merge) ==
    SmallestFirst({i \in Candidates : /\ outs[i].kind = key[1]
                                      /\ merge \/ outs[i].root = key[2]})
GroupsInOrder(merge) ==
    SetToSortSeq(GroupKeys(merge), LAMBDA a, b : \/ a[1] = "legacy" /\ b[1] = "hybrid"
                                                 \/ a[1] = b[1] /\ a[2] < b[2])

\* The preview of the largest count that has one.
LargestPreview(previews) ==
    LET fits == {n \in DOMAIN previews : previews[n] # {}}
    IN  IF fits = {} THEN {} ELSE previews[Max(fits)]

\* The batch that starts at an offset of a group: the count is halved until the
\* preview accepts it.
BatchAt(group, offset, rate, merge) ==
    LET first == Min({BatchInputs, Len(group) - offset})
        ids(n) == ToSet(SubSeq(group, offset + 1, offset + n))
    IN  LargestPreview(
            [n \in {first \div (2 ^ k) : k \in 0..7} \ {0, 1} |->
                IF MeetsFeeCap(ids(n), rate) THEN PreviewConsolidation(ids(n), rate, merge)
                ELSE {}])

\* A batch, in a set of at most one, joins the plan; or the first output is passed over.
WithBatch(s, found) ==
    IF found = {} THEN [s EXCEPT !.offset = @ + 1]
    ELSE LET t == CHOOSE x \in found : TRUE
         IN  [offset |-> s.offset + Cardinality(t.ins), batches |-> Append(s.batches, t)]

\* The group's batches, appended to the plan's.
PlanGroup(batches, group, rate, merge) ==
    LET walk(s, k) ==
            IF s.offset + 1 >= Len(group) \/ Len(s.batches) >= MaxBatches THEN s
            ELSE WithBatch(s, BatchAt(group, s.offset, rate, merge))
    IN  FoldLeft(walk, [offset |-> 0, batches |-> batches], group).batches

ConsolidationPlan(rate, merge) ==
    FoldLeft(LAMBDA batches, key : PlanGroup(batches, Group(key, merge), rate, merge),
             <<>>, GroupsInOrder(merge))

-----------------------------------------------------------------------------
(* Actions.                                                                 *)

\* The pool takes the transaction unless a pending migration spends an input of
\* a v1 transaction, or a v2 input is gone.
Admitted(t) ==
    IF t.version = 1 THEN t.ins \cap SpentInputs({p \in PendingOf(2) : p.op = "migration"}) = {}
    ELSE t.ins \subseteq AfterAll

\* What the wallet gets back: change, in the kind and to the owner the builder
\* names; a payment leaves the wallet.
OwnOutput(t, amount) ==
    [kind |-> IF t.version = 1 THEN "legacy" ELSE "hybrid",
     owner |-> IF t.version = 1 THEN 0
               ELSE IF t.op = "burn" THEN Min(Owners(t.ins)) ELSE Max({1} \cup Owners(Hybrid(DOMAIN outs))),
     root |-> IF Cardinality({outs[i].root : i \in t.ins}) = 1
              THEN outs[CHOOSE i \in t.ins : TRUE].root ELSE NewId,
     amount |-> amount,
     idBytes |-> IF t.version = 1 THEN 64 ELSE 32]

SubmitPublic(t, rate) ==
    /\ requests < MaxRequests
    /\ requests' = requests + 1
    /\ IF Admitted(t)
       THEN /\ outs' = IF t.change = <<>> THEN outs
                       ELSE [i \in DOMAIN outs \cup {NewId} |->
                                IF i = NewId THEN OwnOutput(t, t.change[1]) ELSE outs[i]]
            /\ pending' = Append(pending,
                  [op |-> t.op, version |-> t.version, ins |-> t.ins, paid |-> t.paid, fee |-> t.fee,
                   bytes |-> t.bytes, made |-> IF t.change = <<>> THEN {} ELSE {NewId}, rate |-> rate])
       ELSE UNCHANGED <<outs, pending>>
    /\ UNCHANGED <<confirmed, anchor, arrivals>>

Stale == plan' = [plan EXCEPT !.current = FALSE]

\* transfer_with_fee_rate with the wallet's choice of outputs, or the user's.
Transfer(amount, rate) ==
    \E t \in ConvergeFeeByByte(rate, LAMBDA fee : BuildTransfer(TransferSelection(amount + fee), amount, fee)) :
        SubmitPublic(t, rate) /\ Stale
TransferSpending(ids, amount, rate) ==
    \E t \in ConvergeFeeByByte(rate, LAMBDA fee :
                BuildTransfer(Chosen(ids, Legacy(SelectableV1), amount + fee), amount, fee)) :
        SubmitPublic(t, rate) /\ Stale

BurnAtRate(amount, rate) ==
    \E t \in ConvergeFeeByByte(rate, LAMBDA fee : BuildBurn(amount, fee)) : SubmitPublic(t, rate) /\ Stale

\* transfer_hybrid_with_fee_rate.
TransferHybrid(amount, rate) ==
    /\ rate > 0
    /\ \E t \in FirstCoveringFee(rate, LAMBDA fee :
                    BuildV2Transfer(V2TransferSelection(amount + fee), amount, fee)) :
          SubmitPublic(t, rate) /\ Stale
TransferHybridSpending(ids, amount, rate) ==
    /\ rate > 0
    /\ \E t \in FirstCoveringFee(rate, LAMBDA fee :
                    BuildV2Transfer(Chosen(ids, Hybrid(Selectable), amount + fee), amount, fee)) :
          SubmitPublic(t, rate) /\ Stale

\* build_v2_burn_with_fee_rate_on_ledger.
BurnHybrid(amount, rate) ==
    /\ rate > 0
    /\ \E t \in FirstCoveringFee(rate, LAMBDA fee : BuildV2Burn(amount, fee)) : SubmitPublic(t, rate) /\ Stale

\* submit_quantum_migration of what preview_quantum_migration showed.
Migrate(rate) == rate > 0 /\ \E t \in MigrationAtRate(rate) : SubmitPublic(t, rate) /\ Stale

Preview(rate, merge) ==
    /\ requests < MaxRequests
    /\ requests' = requests + 1
    /\ plan' = [rate |-> rate, merge |-> merge, batches |-> ConsolidationPlan(rate, merge),
                sent |-> {}, current |-> TRUE]
    /\ UNCHANGED <<outs, confirmed, pending, anchor, arrivals>>

\* consolidate: a batch of the plan, with its fee as the limit approved.
Consolidate(b) ==
    /\ b \notin plan.sent
    /\ \E t \in BuildConsolidation(plan.batches[b].ins, plan.rate, plan.merge) :
          /\ t.fee <= plan.batches[b].fee
          /\ SubmitPublic(t, plan.rate)
          /\ plan' = [plan EXCEPT !.sent = @ \cup {b}]

\* The node's own burn for the next block reserves an output (external choice).
ReserveAnchor ==
    /\ anchor = {}
    /\ \E i \in Legacy(confirmed) \cap AfterV1 : anchor' = {i}
    /\ Stale
    /\ UNCHANGED <<outs, confirmed, pending, requests, arrivals>>

\* A block with the first n pending transactions; the anchor was of the old tip.
WalletBlock ==
    /\ \E n \in 0..Len(pending) :
          LET mined == {pending[k] : k \in 1..n} IN
          /\ n > 0 \/ anchor # {}
          /\ confirmed' = (confirmed \cup MadeBy(mined)) \ SpentInputs(mined)
          /\ pending' = SubSeq(pending, n + 1, Len(pending))
    /\ anchor' = {}
    /\ Stale
    /\ UNCHANGED <<outs, requests, arrivals>>

PaymentArrives ==
    /\ arrivals < MaxArrivals
    /\ arrivals' = arrivals + 1
    /\ \E o \in Payments :
          outs' = [i \in DOMAIN outs \cup {NewId} |-> IF i = NewId THEN o ELSE outs[i]]
    /\ confirmed' = confirmed \cup {NewId}
    /\ Stale
    /\ UNCHANGED <<pending, anchor, requests>>

BuilderInit ==
    /\ outs \in StartWallets
    /\ confirmed = DOMAIN outs
    /\ pending = <<>> /\ anchor = {} /\ plan = NoPlan /\ requests = 0 /\ arrivals = 0

\* The user's requests.
Request ==
    /\ requests < MaxRequests
    /\ \/ \E amount \in AskedAmounts, rate \in Rates :
             \/ Transfer(amount, rate)
             \/ BurnAtRate(amount, rate)
             \/ TransferHybrid(amount, rate)
             \/ BurnHybrid(amount, rate)
             \/ \E ids \in kSubset(2, DOMAIN outs) : \/ TransferSpending(ids, amount, rate)
                                                     \/ TransferHybridSpending(ids, amount, rate)
       \/ \E rate \in Rates : Migrate(rate) \/ Preview(rate, TRUE) \/ Preview(rate, FALSE)
       \/ \E b \in DOMAIN plan.batches : Consolidate(b)

BuilderNext == Request \/ ReserveAnchor \/ WalletBlock \/ PaymentArrives

BuilderSpec == BuilderInit /\ [][BuilderNext]_builderVars

-----------------------------------------------------------------------------
(* Properties.                                                              *)

\* Every pending transaction of the wallet spends what it pays, returns and
\* offers as fee, offers at least the rate it was asked for, and shares no input
\* with another pending one: the fee loop may jump between selections
\* (converge_fee_by_byte) and still may not leave a fee of another transaction.
BuiltPaysItsRate ==
    /\ \A k \in DOMAIN pending :
          LET t == pending[k] IN
          /\ Total(t.ins) = t.paid + t.fee + Total(t.made)
          /\ t.fee >= AtLeastOne(t.rate * t.bytes)
          /\ \A m \in DOMAIN pending \ {k} : t.ins \cap pending[m].ins = {}

\* A consolidation preview keeps the largest free output of each kind out of its
\* batches, its batches share no output, each has one kind and (without consent)
\* one mining root, and none gives more than 1% of its value to fees.
PlanIsSound ==
    plan.current =>
        LET used == UNION {b.ins : b \in ToSet(plan.batches)} IN
        /\ \A x, y \in DOMAIN plan.batches :
              x # y => plan.batches[x].ins \cap plan.batches[y].ins = {}
        /\ \A b \in ToSet(plan.batches) :
              /\ \A i, j \in b.ins : /\ outs[i].kind = outs[j].kind
                                     /\ plan.merge \/ outs[i].root = outs[j].root
              /\ b.fee * 100 <= Total(b.ins)
              /\ \E i \in confirmed \ used :
                    /\ outs[i].kind = outs[CHOOSE j \in b.ins : TRUE].kind
                    /\ \A j \in b.ins : outs[i].amount >= outs[j].amount

\* As long as nothing else touched the wallet, each batch of a preview that was
\* not sent yet is built and accepted within the fee the preview showed: the
\* estimate (estimate_legacy_consolidation_fee) and the builder
\* (converge_fee_by_byte) walk to different fees.
ApprovedPlanBuilds ==
    plan.current =>
        \A b \in DOMAIN plan.batches \ plan.sent :
            \E t \in BuildConsolidation(plan.batches[b].ins, plan.rate, plan.merge) :
                t.fee <= plan.batches[b].fee /\ Admitted(t)

\* A transaction the builder itself picked the inputs of is admitted by the pool,
\* also while a migration is pending.  Legacy burns are left out: select_inputs
\* does not see pending v2 transactions, so a burn may pick an output a pending
\* migration spends and be refused.
SelectionIsAdmitted ==
    \A amount \in AskedAmounts :
        /\ \A ids \in TransferSelection(amount) : Admitted([version |-> 1, ins |-> ids])
        /\ \A ids \in V2TransferSelection(amount) \cup V2BurnSelection(amount) :
              Admitted([version |-> 2, ins |-> ids])
=============================================================================
