---------------------------- MODULE CompactCodec ----------------------------
(***************************************************************************)
(* The compact encoding of blocks (adapters/chain_store/compact.rs).  An   *)
(* address or a protocol id is written once and afterwards by its number   *)
(* in a table that the writer and the reader extend in step; the height,   *)
(* the previous hash and the hash of a block are not written at all.       *)
(*                                                                         *)
(* The same encoder measures blocks: their consensus size is what they     *)
(* take after their parent chain, so every ledger carries the tables of    *)
(* its chain (CompactBlockContext) through appends, pruning and replays.   *)
(*                                                                         *)
(* Bytes are abstracted to tokens with a size; an integer is its size.     *)
(***************************************************************************)
EXTENDS Integers, Sequences, FiniteSets, SequencesExt

CONSTANTS
    GenesisAddresses,  \* a sequence: the keys of genesis_allocations
    TextAddresses,     \* addresses of the versioned (Bech32m) form
    SegmentBlocks,     \* CHAIN_SEGMENT_BLOCKS, 256 in the code
    None               \* no reward address, no leader proof, no anchor

\* The finalizer modes and the kinds of transactions.
Ticket == "ticket"
Recovery == "recovery"

SignatureBytes == 64
HashBytes == 32
TextAddressBytes == 64

\* compact_varint_size: seven bits to a byte.
VarintSize(n) == 1 + Cardinality({k \in 1 .. 4 : n >= 2 ^ (7 * k)})

-----------------------------------------------------------------------------
(* Tables: the values in the order they were registered.                   *)

NoTables == [addresses |-> <<>>, ids |-> <<>>]

Registered(table, value) == IF Contains(table, value) THEN table ELSE Append(table, value)

RegisterId(tables, id) == [tables EXCEPT !.ids = Registered(@, id)]

\* The tables of a segment and of a ledger start with the genesis addresses.
SeededTables == [NoTables EXCEPT !.addresses = GenesisAddresses]

PositionOf(table, value) == CHOOSE i \in DOMAIN table : table[i] = value

-----------------------------------------------------------------------------
(* Writing: [out, size, tables, ok], size being the bytes of out.          *)

Token(kind, value, bytes) == [kind |-> kind, value |-> value, bytes |-> bytes]

Put(w, token) == [w EXCEPT !.out = Append(@, token), !.size = @ + token.bytes]

\* varint, u8, bool, and hex fields of a fixed length.
PutData(w, value, bytes) == Put(w, Token("data", value, bytes))

PutCount(w, n) == PutData(w, n, VarintSize(n))

PutRef(w, table, value) ==
    LET index == PositionOf(table, value) - 1
    IN  Put(w, Token("ref", index, 1 + VarintSize(index)))

AddressBytes(a) == IF a \in TextAddresses THEN 1 + TextAddressBytes ELSE HashBytes

\* CompactWriter::address.
PutAddress(w, a) ==
    IF Contains(w.tables.addresses, a)
    THEN PutRef(w, w.tables.addresses, a)
    ELSE [Put(w, Token("new", a, 1 + AddressBytes(a)))
          EXCEPT !.tables.addresses = Append(@, a)]

\* Ids are <<kind, ...>>: the signatures of transfers and burns take 64 bytes,
\* hashes of blocks, mines and genesis transactions 32.
IdBytes(id) == IF id[1] = "signature" THEN SignatureBytes ELSE HashBytes

\* CompactWriter::protocol_id_ref.
PutId(w, id) ==
    IF Contains(w.tables.ids, id)
    THEN PutRef(w, w.tables.ids, id)
    ELSE [Put(w, Token("new", id, 1 + IdBytes(id))) EXCEPT !.tables = RegisterId(@, id)]

PutOption(w, value, Write(_, _)) ==
    IF value = None THEN PutData(w, FALSE, 1) ELSE Write(PutData(w, TRUE, 1), value)

PutAll(w, items, Write(_, _)) == FoldLeft(Write, PutCount(w, Len(items)), items)

\* common_input_owner: one owner for all inputs.
StorableInputs(inputs) == \A i \in DOMAIN inputs : inputs[i].owner = inputs[1].owner

\* encode_outpoints, then the owner of all inputs; several owners are refused.
PutInputs(w, inputs) ==
    LET PutOutpoint(v, input) == PutData(PutId(v, input.txid), input.index, 1)
        written == PutAddress(PutAll(w, inputs, PutOutpoint), inputs[1].owner)
    IN  [written EXCEPT !.ok = @ /\ StorableInputs(inputs)]

\* encode_outputs.
PutOutputs(w, outputs) ==
    LET PutOutput(v, output) == PutData(PutAddress(v, output.address), output.amount, 4)
    IN  PutAll(w, outputs, PutOutput)

\* How the change of a burn is written: none, one output to the owner, others.
ChangeMode(tx) ==
    IF tx.outputs = <<>> THEN 0
    ELSE IF Len(tx.outputs) = 1 /\ tx.outputs[1].address = tx.inputs[1].owner THEN 1
    ELSE 2

PutTransfer(w, tx) ==
    PutData(PutOutputs(PutInputs(w, tx.inputs), tx.outputs), tx.id, SignatureBytes)

PutChange(w, tx) ==
    CASE ChangeMode(tx) = 0 -> w
      [] ChangeMode(tx) = 1 -> PutData(w, tx.outputs[1].amount, 4)
      [] OTHER -> PutOutputs(w, tx.outputs)

PutAnchor(w, anchor) == IF anchor = None THEN w ELSE PutId(w, anchor)

PutChangeMode(w, tx) == PutData(w, <<ChangeMode(tx), tx.anchor # None>>, 1)

PutBurn(w, tx) ==
    PutData(PutAnchor(PutChange(PutInputs(PutChangeMode(w, tx), tx.inputs), tx), tx.anchor),
            tx.id, IdBytes(tx.id))

PutMine(w, tx) ==
    PutData(PutId(PutAddress(w, tx.outputs[1].address), tx.anchor), tx.id, HashBytes)

\* encode_transaction.
PutTransaction(w, tx) ==
    CASE tx.kind = "transfer" -> PutTransfer(PutData(w, "transfer", 1), tx)
      [] tx.kind = "burn" -> PutBurn(PutData(w, "burn", 1), tx)
      [] OTHER -> PutMine(PutData(w, "mine", 1), tx)

\* The versions of the block body: 7 has neither envelopes nor hybrid rewards, 8
\* the envelopes, 9 both.
HasHybridRewards(block) ==
    \/ block.reward # None
    \/ block.burns2 # <<>>
    \/ \E i \in DOMAIN block.signatures : block.signatures[i].reward # None

BodyVersion(block) ==
    IF HasHybridRewards(block) THEN 9 ELSE IF block.envelopes = <<>> THEN 7 ELSE 8

CurrentVersion == 9

PutSince(w, version, first, written) == IF version >= first THEN written ELSE w

PutMasked(w, masked) == PutData(PutCount(w, masked.index), masked.mask, 1)

PutMaskedSince9(w, burns, version) ==
    PutSince(w, version, 9, PutAll(w, burns, PutMasked))

PutSignature(w, s, version) ==
    LET PutReward(v) == PutSince(v, version, 9, PutOption(v, s.reward, PutAddress))
    IN  PutData(PutReward(PutAddress(PutData(w, s.slot, 1), s.member)),
                "signature", SignatureBytes)

\* encode_burn_bundle_section: attested burns are numbers of transactions.
PutSection(w, block, version) ==
    LET PutSigned(v, s) == PutSignature(v, s, version)
    IN  PutMaskedSince9(PutAll(PutAll(w, block.signatures, PutSigned), block.burns, PutMasked),
                        block.burns2, version)

\* The reward address of the miner and the signature that follows it.
PutMinerReward(w, reward, version) ==
    PutSince(w, version, 9,
        PutData(PutOption(w, reward, PutAddress), reward # None,
                IF reward = None THEN 1 ELSE 1 + SignatureBytes))

PutProof(w, proof) ==
    PutData(PutAddress(PutId(w, proof.ticket), proof.key), "proof", SignatureBytes)

\* A transaction and, once it is written, its id in the tables.
PutRegistered(w, tx) ==
    IF w.ok
    THEN [PutTransaction(w, tx) EXCEPT !.tables = RegisterId(@, tx.id)]
    ELSE w

PutEnvelope(w, envelope) ==
    PutData(w, envelope, VarintSize(envelope.bytes) + envelope.bytes)

PutEnvelopes(w, envelopes, version) ==
    PutSince(w, version, 8, PutAll(w, envelopes, PutEnvelope))

PutHeader(w, block, version) ==
    PutOption(PutData(PutMinerReward(PutAddress(PutData(w, block.numbers, block.numbers),
                                                block.miner),
                                     block.reward, version),
                      block.mode, 2),
              block.proof, PutProof)

PutContents(w, block, version) ==
    PutEnvelopes(PutAll(w, block.transactions, PutRegistered), block.envelopes, version)

\* encode_block_body_with_size_breakdown_for_version.
PutBody(w, block, version) ==
    PutSection(PutContents(PutHeader(w, block, version), block, version), block, version)

\* What the writer takes from a block: height, previous hash and hash are left out.
HashOf(height, prev, body) == <<"block", height, prev, body>>

Writer(tables) == [out |-> <<>>, size |-> 0, tables |-> tables, ok |-> TRUE]

\* A block and, once it is written, its hash in the tables.
PutBlock(w, block) ==
    IF w.ok
    THEN [PutBody(w, block.body, CurrentVersion) EXCEPT !.tables = RegisterId(@, block.hash)]
    ELSE w

-----------------------------------------------------------------------------
(* Reading: [in, at, tables, ok, value]; value is what was read last.      *)

Reader(in, tables) == [in |-> in, at |-> 1, tables |-> tables, ok |-> TRUE, value |-> None]

Refused(r) == [r EXCEPT !.ok = FALSE]

Holds(r, kind) == r.ok /\ r.at <= Len(r.in) /\ r.in[r.at].kind = kind

Took(r, value) == [r EXCEPT !.at = @ + 1, !.value = value]

TakeData(r) == IF Holds(r, "data") THEN Took(r, r.in[r.at].value) ELSE Refused(r)

\* A number in a table: out of bounds is refused.
TakeRef(r, table) ==
    IF r.in[r.at].value < Len(table) THEN Took(r, table[r.in[r.at].value + 1]) ELSE Refused(r)

\* CompactReader::address: a value written twice is refused.
TakeAddress(r) ==
    CASE Holds(r, "ref") -> TakeRef(r, r.tables.addresses)
      [] Holds(r, "new") /\ ~Contains(r.tables.addresses, r.in[r.at].value) ->
            [Took(r, r.in[r.at].value) EXCEPT !.tables.addresses = Append(@, r.in[r.at].value)]
      [] OTHER -> Refused(r)

\* CompactReader::protocol_id_ref.
TakeId(r) ==
    CASE Holds(r, "ref") -> TakeRef(r, r.tables.ids)
      [] Holds(r, "new") /\ ~Contains(r.tables.ids, r.in[r.at].value) ->
            [Took(r, r.in[r.at].value) EXCEPT !.tables = RegisterId(@, r.in[r.at].value)]
      [] OTHER -> Refused(r)

OptionAfter(flag, Read(_)) ==
    IF flag.ok /\ flag.value THEN Read(flag) ELSE [flag EXCEPT !.value = None]

TakeOption(r, Read(_)) == OptionAfter(TakeData(r), Read)

ItemAfter(items, item) ==
    IF items.ok /\ item.ok
    THEN [item EXCEPT !.value = Append(items.value, item.value)]
    ELSE Refused(items)

ItemsAfter(count, Read(_)) ==
    LET TakeNext(items, i) == ItemAfter(items, Read(items))
    IN  IF count.ok
        THEN FoldLeft(TakeNext, [count EXCEPT !.value = <<>>], [i \in 1 .. count.value |-> i])
        ELSE count

\* decode_vec.
TakeAll(r, Read(_)) == ItemsAfter(TakeData(r), Read)

(* Reading the fields of a record: value is the fields read so far.         *)

Fields(r) == [r EXCEPT !.value = <<>>]

FieldAfter(r, field) == [field EXCEPT !.value = Append(r.value, field.value)]

TakeField(r, Read(_)) == FieldAfter(r, Read(r))

Made(r, Make(_)) == IF r.ok THEN [r EXCEPT !.value = Make(@)] ELSE r

TakeOutpoint(r) ==
    LET Outpoint(f) == [txid |-> f[1], index |-> f[2]]
    IN  Made(TakeField(TakeField(Fields(r), TakeId), TakeData), Outpoint)

TakeOutput(r) ==
    LET Output(f) == [address |-> f[1], amount |-> f[2]]
    IN  Made(TakeField(TakeField(Fields(r), TakeAddress), TakeData), Output)

TakeOutpoints(r) == TakeAll(r, TakeOutpoint)

TakeOutputs(r) == TakeAll(r, TakeOutput)

\* decode_outpoints and signed_inputs: every input gets the one owner.
TakeInputs(r) ==
    LET Owned(f) == [i \in DOMAIN f[1] |-> [txid |-> f[1][i].txid, index |-> f[1][i].index,
                                            owner |-> f[2]]]
    IN  Made(TakeField(TakeField(Fields(r), TakeOutpoints), TakeAddress), Owned)

Transfer(inputs, outputs, id) ==
    [kind |-> "transfer", inputs |-> inputs, outputs |-> outputs, anchor |-> None, id |-> id]

Burn(inputs, change, anchor, id) ==
    [kind |-> "burn", inputs |-> inputs, outputs |-> change, anchor |-> anchor, id |-> id]

Mine(recipient, anchor, id) ==
    [kind |-> "mine", inputs |-> <<>>, outputs |-> <<[address |-> recipient, amount |-> 0]>>,
     anchor |-> anchor, id |-> id]

TakeTransfer(r) ==
    LET MadeTransfer(f) == Transfer(f[1], f[2], f[3])
    IN  Made(TakeField(TakeField(TakeField(Fields(r), TakeInputs), TakeOutputs), TakeData),
             MadeTransfer)

\* The change of a burn, by the mode read first: f = <<mode, inputs>>.
TakeChange(r) ==
    LET ToOwner(amount) == <<[address |-> r.value[2][1].owner, amount |-> amount]>>
    IN  CASE ~r.ok -> r
          [] r.value[1][1] = 0 -> [r EXCEPT !.value = <<>>]
          [] r.value[1][1] = 1 -> Made(TakeData(r), ToOwner)
          [] OTHER -> TakeOutputs(r)

TakeAnchor(r) == IF r.ok /\ r.value[1][2] THEN TakeId(r) ELSE [r EXCEPT !.value = None]

TakeBurnSpend(r) == TakeField(TakeField(Fields(r), TakeData), TakeInputs)

TakeBurn(r) ==
    LET MadeBurn(f) == Burn(f[2], f[3], f[4], f[5])
    IN  Made(TakeField(TakeField(TakeField(TakeBurnSpend(r), TakeChange), TakeAnchor), TakeData),
             MadeBurn)

TakeMine(r) ==
    LET MadeMine(f) == Mine(f[1], f[2], f[3])
    IN  Made(TakeField(TakeField(TakeField(Fields(r), TakeAddress), TakeId), TakeData),
             MadeMine)

TransactionAfter(kind) ==
    CASE kind.value = "transfer" -> TakeTransfer(kind)
      [] kind.value = "burn" -> TakeBurn(kind)
      [] OTHER -> TakeMine(kind)

RegisteredAfter(tx) ==
    IF tx.ok THEN [tx EXCEPT !.tables = RegisterId(@, tx.value.id)] ELSE tx

\* Mutant: the id of a transaction is registered with the block, not at once.
TakeTransactionUnregistered(r) == TransactionAfter(TakeData(r))

\* decode_transaction, and the registration that follows it.
TakeTransaction(r) == RegisteredAfter(TransactionAfter(TakeData(r)))

TakeProof(r) ==
    LET Proof(f) == [ticket |-> f[1], key |-> f[2]]
    IN  Made(TakeField(TakeField(TakeField(Fields(r), TakeId), TakeAddress), TakeData), Proof)

TakeReward(r) == TakeOption(r, TakeAddress)

TakeMember(r) == TakeField(TakeField(Fields(r), TakeData), TakeAddress)

TakeSignature(r) ==
    LET Signature(f) == [slot |-> f[1], member |-> f[2], reward |-> f[3]]
    IN  Made(TakeField(TakeField(TakeMember(r), TakeReward), TakeData), Signature)

TakeMasked(r) ==
    LET Masked(f) == [index |-> f[1], mask |-> f[2]]
    IN  Made(TakeField(TakeField(Fields(r), TakeData), TakeData), Masked)

TakeOptionalProof(r) == TakeOption(r, TakeProof)
TakeTransactions(r) == TakeAll(r, TakeTransaction)
TakeEnvelopes(r) == TakeAll(r, TakeData)
TakeSignatures(r) == TakeAll(r, TakeSignature)
TakeMaskedBurns(r) == TakeAll(r, TakeMasked)

\* The fields in their order; the fourth is the signature of the reward.
BodyOf(f) ==
    [numbers |-> f[1], miner |-> f[2], reward |-> f[3], mode |-> f[5], proof |-> f[6],
     transactions |-> f[7], envelopes |-> f[8], signatures |-> f[9],
     burns |-> f[10], burns2 |-> f[11]]

\* An attested burn is a burn of the block, or an envelope of it.
AttestsItsOwn(body) ==
    /\ \A i \in DOMAIN body.burns :
          /\ body.burns[i].index + 1 \in DOMAIN body.transactions
          /\ body.transactions[body.burns[i].index + 1].kind = "burn"
    /\ \A i \in DOMAIN body.burns2 : body.burns2[i].index < Len(body.envelopes)

CheckedBody(r) == IF r.ok /\ AttestsItsOwn(r.value) THEN r ELSE Refused(r)

TakeMiner(r) == TakeField(TakeField(TakeMember(r), TakeReward), TakeData)

TakeHeader(r) == TakeField(TakeField(TakeMiner(r), TakeData), TakeOptionalProof)

TakeContents(r) == TakeField(TakeField(r, TakeTransactions), TakeEnvelopes)

TakeSection(r) ==
    TakeField(TakeField(TakeField(r, TakeSignatures), TakeMaskedBurns), TakeMaskedBurns)

\* decode_block_body_for_version and decode_burn_bundle_section, version 9.
TakeBody(r) == CheckedBody(Made(TakeSection(TakeContents(TakeHeader(r))), BodyOf))
=============================================================================
