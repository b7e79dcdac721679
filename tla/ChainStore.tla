----------------------------- MODULE ChainStore -----------------------------
(***************************************************************************)
(* The chain database of src/adapters/chain_store.rs: its tables, and what *)
(* a save, a load or a lookup does to them.  A save is one SQLite          *)
(* transaction, so a crash leaves either the old or the new tables.        *)
(*                                                                         *)
(* A block is written as the path of choices that leads to it from         *)
(* genesis, which is the empty path: a block hash commits to the parent    *)
(* hash, hence to the whole history, and the path is that history.  So the *)
(* height of a block is its length, and a chain is known by its tip.       *)
(***************************************************************************)
EXTENDS Integers, Sequences, FiniteSets

CONSTANTS
    Branch,         \* the different blocks a parent may have, naturals
    SegmentBlocks,  \* CHAIN_SEGMENT_BLOCKS, 256 in the code
    NoChain         \* stands for an absent row, or for the setup placeholder

ASSUME ChainStoreAssumption ==
    /\ Branch \subseteq Nat
    /\ SegmentBlocks \in Nat \ {0}
    /\ NoChain \notin Seq(Branch)

Block == Seq(Branch)

\* The block of tip's chain at height h.
At(tip, h) == SubSeq(tip, 1, h)

\* Whether block b is on the chain of tip.
OnChain(b, tip) == Len(b) <= Len(tip) /\ At(tip, Len(b)) = b

SegmentOf(h) == h \div SegmentBlocks

SegmentHeights(s, tip) == {h \in 0 .. Len(tip) : SegmentOf(h) = s}

-----------------------------------------------------------------------------
(* The tables: chain_metadata (tip), chain_segments (segs: the blocks of a *)
(* segment by height, and the height of the last one), chain_block_index   *)
(* (index) and chain_verification (verified).                              *)

EmptyStore ==
    [tip |-> NoChain, segs |-> <<>>, index |-> <<>>, verified |-> NoChain]

SegmentRow(s, tip) ==
    [last   |-> IF s = SegmentOf(Len(tip)) THEN Len(tip)
                ELSE s * SegmentBlocks + SegmentBlocks - 1,
     blocks |-> [h \in SegmentHeights(s, tip) |-> At(tip, h)]]

EndBlock(row) == row.blocks[row.last]

\* The tables of a database that holds exactly the chain of tip.
StoreOf(tip) ==
    [tip      |-> tip,
     segs     |-> [s \in 0 .. SegmentOf(Len(tip)) |-> SegmentRow(s, tip)],
     index    |-> [h \in 0 .. Len(tip) |-> At(tip, h)],
     verified |-> tip]

-----------------------------------------------------------------------------
(* Saving a snapshot that starts at genesis and has no gap.                *)

\* Mutant: one segment too many is taken for finished.
FirstSegmentToCheckRoundedUp(db, tip) ==
    IF db.tip # NoChain /\ OnChain(db.tip, tip)
    THEN (Len(db.tip) + SegmentBlocks) \div SegmentBlocks
    ELSE 0

\* Segments the stored tip had finished are skipped when the new chain
\* extends the stored one.
FirstSegmentToCheck(db, tip) ==
    IF db.tip # NoChain /\ OnChain(db.tip, tip)
    THEN (Len(db.tip) + 1) \div SegmentBlocks
    ELSE 0

\* The segments save writes: those that are missing or end in another block.
RewrittenSegments(db, tip) ==
    {s \in FirstSegmentToCheck(db, tip) .. SegmentOf(Len(tip)) :
        ~(s \in DOMAIN db.segs /\ EndBlock(db.segs[s]) = EndBlock(SegmentRow(s, tip)))}

\* The index rows after the rewritten segments' rows were replaced and the
\* rows above the tip deleted.
PatchedIndex(db, tip) ==
    LET rewritten == RewrittenSegments(db, tip)
        kept == {h \in DOMAIN db.index : h <= Len(tip) /\ SegmentOf(h) \notin rewritten}
    IN  [h \in kept \cup {h \in 0 .. Len(tip) : SegmentOf(h) \in rewritten} |->
            IF SegmentOf(h) \in rewritten THEN At(tip, h) ELSE db.index[h]]

\* save_verified: write what changed, drop what lies above, and rebuild the
\* index when its row count is not the chain's.
SaveVerified(db, tip) ==
    LET rewritten == RewrittenSegments(db, tip)
        segments  == {s \in DOMAIN db.segs : s <= SegmentOf(Len(tip))} \cup rewritten
        patched   == PatchedIndex(db, tip)
    IN  [tip      |-> tip,
         segs     |-> [s \in segments |->
                          IF s \in rewritten THEN SegmentRow(s, tip) ELSE db.segs[s]],
         index    |-> IF Cardinality(DOMAIN patched) = Len(tip) + 1
                      THEN patched
                      ELSE [h \in 0 .. Len(tip) |-> At(tip, h)],
         verified |-> tip]

-----------------------------------------------------------------------------
(* Saving a pruned snapshot: genesis and the blocks from height first on.  *)

\* The tail must extend a persisted block, and the segment it starts in must
\* be there unless the tail starts it.
TailExtendsStore(db, tip, first) ==
    /\ db.tip # NoChain
    /\ first - 1 \in DOMAIN db.index
    /\ db.index[first - 1] = At(tip, first - 1)
    /\ first % SegmentBlocks = 0 \/ SegmentOf(first) \in DOMAIN db.segs

\* The stored blocks below the tail in the segment it starts in.
FirstPrefix(db, first) ==
    IF first % SegmentBlocks = 0 THEN {}
    ELSE {h \in DOMAIN db.segs[SegmentOf(first)].blocks : h < first}

\* The row of segment s after the tail is merged into it.
MergedRow(db, s, tip, first) ==
    LET prefix == IF s = SegmentOf(first) THEN FirstPrefix(db, first) ELSE {} IN
    [last   |-> SegmentRow(s, tip).last,
     blocks |-> [h \in prefix \cup {k \in SegmentHeights(s, tip) : k >= first} |->
                    IF h \in prefix THEN db.segs[s].blocks[h] ELSE At(tip, h)]]

SaveTail(db, tip, first) ==
    LET touched == SegmentOf(first) .. SegmentOf(Len(tip))
        kept    == {h \in DOMAIN db.index : h < first /\ SegmentOf(h) \notin touched}
    IN  [tip      |-> tip,
         segs     |-> [s \in {s \in DOMAIN db.segs : s < SegmentOf(first)} \cup touched |->
                          IF s \in touched THEN MergedRow(db, s, tip, first)
                          ELSE db.segs[s]],
         index    |-> [h \in kept \cup FirstPrefix(db, first) \cup (first .. Len(tip)) |->
                          IF h \in kept THEN db.index[h]
                          ELSE MergedRow(db, SegmentOf(h), tip, first).blocks[h]],
         verified |-> tip]

\* save_verified_resident accepts the snapshot.
CanSave(db, tip, first) == first = 1 \/ TailExtendsStore(db, tip, first)

SaveVerifiedResident(db, tip, first) ==
    IF first = 1 THEN SaveVerified(db, tip) ELSE SaveTail(db, tip, first)

-----------------------------------------------------------------------------
(* Reading.                                                                *)

StoredBlocks(db) == UNION {DOMAIN db.segs[s].blocks : s \in DOMAIN db.segs}

\* The blocks of all segment rows by height, as a load concatenates them.
LoadedBlocks(db) ==
    [h \in StoredBlocks(db) |-> db.segs[SegmentOf(h)].blocks[h]]

\* load_bounded_ledger_at_block finds block b.
Indexed(db, b) == Len(b) \in DOMAIN db.index /\ db.index[Len(b)] = b

\* blocks_from: at most limit stored blocks from a height on.
BlocksFrom(db, from, limit) ==
    {LoadedBlocks(db)[h] : h \in StoredBlocks(db) \cap (from .. from + limit - 1)}
=============================================================================
