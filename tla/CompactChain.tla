---------------------------- MODULE CompactChain ----------------------------
(***************************************************************************)
(* A ledger and the compact tables of its chain (CompactBlockContext): the *)
(* tables decide how large the next block is, and the sizes recorded when  *)
(* blocks were applied add up to the size of the stored chain.  The ledger *)
(* appends blocks, drops old ones from memory, is read back from the       *)
(* database segment by segment, and is rebuilt on a fork.                  *)
(***************************************************************************)
EXTENDS CompactCodec

CONSTANTS
    BodiesAfter(_),  \* the block bodies that may follow a chain
    BlockByteLimit,  \* max_block_bytes
    MaxBlocks        \* bound on the length of the chain, genesis included

VARIABLES
    chain,     \* the blocks from genesis on, those dropped from memory included
    resident,  \* the lowest position above genesis that is in memory
    context    \* the tables, and the recorded size of resident blocks

chainVars == <<chain, resident, context>>

-----------------------------------------------------------------------------
(* Whole encodings.                                                        *)

HeaderBytes == 13 + 1 + 8

\* encode_compact_snapshot_fixed_prefix: the genesis addresses are written here.
SnapshotPrefix ==
    LET PutAllocation(w, a) == PutData(PutAddress(w, a), "amount", 4)
    IN  PutAll(PutData(Writer(NoTables), "header", HeaderBytes), GenesisAddresses, PutAllocation)

\* encode_compact_snapshot.
EncodeSnapshot(blocks) ==
    FoldLeft(PutBlock, PutCount(SnapshotPrefix, Len(blocks)), blocks)

\* encode_compact_segment: the tables restart, the first previous hash is kept.
EncodeSegment(blocks) ==
    FoldLeft(PutBlock, PutCount(PutData(Writer(SeededTables), blocks[1].prev, HashBytes),
                                Len(blocks)), blocks).out

BlockAt(height, prev, body) ==
    [height |-> height, prev |-> prev, hash |-> HashOf(height, prev, body), body |-> body]

\* A block is known once its body is read, and its hash is then in the tables.
BlockRead(read, block, body) ==
    [body EXCEPT !.value = Append(read.value, block), !.tables = RegisterId(@, block.hash)]

BlockAfterBody(read, height, first, body) ==
    LET prev == IF read.value = <<>> THEN first ELSE Last(read.value).hash
    IN  IF read.ok /\ body.ok
        THEN BlockRead(read, BlockAt(height, prev, body.value), body)
        ELSE Refused(read)

BlocksAfter(count, prev, first) ==
    LET TakeBlock(read, height) == BlockAfterBody(read, height, prev, TakeBody(read))
    IN  FoldLeft(TakeBlock, [count EXCEPT !.value = <<>>],
                 [i \in 1 .. count.value |-> first + i - 1])

WholeInput(read) == IF read.ok /\ read.at = Len(read.in) + 1 THEN read.value ELSE None

\* decode_compact_segment: heights, previous hashes and hashes are computed.
DecodeSegment(first, in) ==
    LET prev == TakeData(Reader(in, SeededTables))
    IN  WholeInput(BlocksAfter(TakeData(prev), prev.value, first))

SegmentOf(blocks, id) ==
    SelectSeq(blocks, LAMBDA block : block.height \div SegmentBlocks = id)

SegmentIds(blocks) == {block.height \div SegmentBlocks : block \in ToSet(blocks)}

Joined(blocks, segment) ==
    IF blocks = None \/ segment = None THEN None ELSE blocks \o segment

\* load_segmented_snapshot: every segment is decoded on its own.
ReadBack(blocks) ==
    LET AppendSegment(read, id) ==
            Joined(read, DecodeSegment(id * SegmentBlocks, EncodeSegment(SegmentOf(blocks, id))))
    IN  FoldLeft(AppendSegment, <<>>, SetToSortSeq(SegmentIds(blocks), <))

-----------------------------------------------------------------------------
(* The context of a chain.                                                 *)

\* block_size_breakdown: the consensus size of a block after this chain.
BlockSize(ctx, body) ==
    PutBody(Writer(ctx.tables), body, BodyVersion(body)).size

Measured(ctx, hash, written) ==
    [tables |-> written.tables, sizes |-> (hash :> written.size) @@ ctx.sizes]

\* append_block_with_size_breakdown: recorded as stored, in the current version.
AppendToContext(ctx, block) ==
    Measured(ctx, block.hash, PutBlock(Writer(ctx.tables), block))

\* for_chain, and a replay that appends block after block.
ForChain(blocks) ==
    FoldLeft(AppendToContext, [tables |-> SeededTables, sizes |-> <<>>], blocks)

\* chain_storage_bytes_by_hash: the recorded sizes of the first k blocks and what
\* precedes them.
StorageBytes(k) ==
    LET AddSize(sum, block) == sum + context.sizes[block.hash]
    IN  FoldLeft(AddSize, SnapshotPrefix.size + VarintSize(k), SubSeq(chain, 1, k))

BlockAfter(blocks, body) ==
    BlockAt(Len(blocks), IF blocks = <<>> THEN <<"none">> ELSE Last(blocks).hash, body)

-----------------------------------------------------------------------------
(* Building a block.                                                       *)

NumberBytes == 30
Placeholder == "placeholder"

\* estimated_block_selection_size_bytes: the largest numbers, unknown keys, and
\* no reward address.
Estimated(body) ==
    [body EXCEPT !.numbers = NumberBytes, !.miner = Placeholder, !.reward = None,
                 !.proof = IF body.mode = Ticket
                           THEN [ticket |-> <<"placeholder">>, key |-> Placeholder]
                           ELSE None]

\* The block that is sealed from a selection within the limit.
SealedFits(ctx, body) ==
    BlockSize(ctx, Estimated(body)) <= BlockByteLimit => BlockSize(ctx, body) <= BlockByteLimit

-----------------------------------------------------------------------------

CodecInit ==
    \E genesis \in BodiesAfter(<<>>) :
        /\ chain = <<BlockAfter(<<>>, genesis)>>
        /\ resident = 1
        /\ context = ForChain(chain)

\* apply_block: refused above the limit, or if it cannot be encoded.
ApplyChainBlock ==
    /\ Len(chain) < MaxBlocks
    /\ \E body \in BodiesAfter(chain) :
          /\ PutBody(Writer(context.tables), body, BodyVersion(body)).ok
          /\ BlockSize(context, body) <= BlockByteLimit
          /\ chain' = Append(chain, BlockAfter(chain, body))
          /\ context' = AppendToContext(context, BlockAfter(chain, body))
    /\ UNCHANGED resident

\* retain_recent_chain_blocks: genesis and the tip stay, with their sizes.
RetainRecent ==
    /\ Len(chain) > resident + 1
    /\ resident' = Len(chain) - 1
    /\ context' = [context EXCEPT !.sizes = 
                      [hash \in {chain[1].hash, Last(chain).hash} |-> @[hash]]]
    /\ UNCHANGED chain

\* A restart reads the database; restore_pruned_history takes the context of a
\* ledger that was read the same way.
Restart ==
    /\ chain' = ReadBack(chain)
    /\ chain' # None
    /\ resident' = 1
    /\ context' = ForChain(chain')

\* A fork is validated on the ledger of the common ancestor.
Fork ==
    \E k \in 1 .. Len(chain) - 1 :
        /\ chain' = SubSeq(chain, 1, k)
        /\ resident' = 1
        /\ context' = ForChain(chain')

CodecNext == ApplyChainBlock \/ RetainRecent \/ Restart \/ Fork

CodecSpec == CodecInit /\ [][CodecNext]_chainVars

-----------------------------------------------------------------------------
(* Properties.                                                             *)

\* Every segment can be read without the segments before it, and gives back the
\* blocks it was written from: reader and writer number the same values in the
\* same order (encode_compact_segment, decode_compact_segment).
SegmentsReadBack == ReadBack(chain) = chain

\* Whatever a node did before (appended, pruned, restarted, left a fork), it
\* measures the next block with the tables of the snapshot of its chain
\* (protocol.md:59), and while the whole chain is in memory the recorded sizes
\* add up to the size of the snapshot of every prefix
\* (chain_storage_bytes_by_hash).
SizesAreOfTheSnapshot ==
    /\ context.tables = EncodeSnapshot(chain).tables
    /\ resident = 1 =>
        \A k \in 1 .. Len(chain) :
            StorageBytes(k) = EncodeSnapshot(SubSeq(chain, 1, k)).size

\* "Block construction uses the same encoder while reserving mandatory anchor
\* and attested burns before filling the remaining space" (protocol.md:366): a
\* selection the builder accepts is a block its own ledger accepts.
BuiltBlockFits == \A body \in BodiesAfter(chain) : SealedFits(context, body)
=============================================================================
