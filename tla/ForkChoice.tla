----------------------------- MODULE ForkChoice -----------------------------
(***************************************************************************)
(* The pure rules of src/domain: what a block certifies, which chain a     *)
(* ledger prefers, and what a ledger looks like after blocks are appended  *)
(* or a better chain replaces it.                                          *)
(*                                                                         *)
(* A chain is the sequence of blocks above genesis, so the block at height *)
(* h is chain[h] and genesis, which every chain of a network shares, is    *)
(* height 0.  A block hash stands for the whole history below it.          *)
(***************************************************************************)
EXTENDS Integers, Sequences

CONSTANTS
    ActivationHeight,  \* OBJECTIVE_FINALITY_ACTIVATION_HEIGHT, 1000 in the code
    FinalityDepth      \* FORK_FINALITY_DEPTH, 6 in the code

ASSUME ForkChoiceAssumption ==
    /\ ActivationHeight \in Nat \ {0}
    /\ FinalityDepth \in Nat

-----------------------------------------------------------------------------
\* FinalizerMode, by its fork choice rank.
Ticket == 0
Recovery == 1

(***************************************************************************)
(* A block: its hash, the leader score fields, the size of the burn        *)
(* committee drawn for it, the explicit burn-list signatures it carries,   *)
(* and the transactions it mines.  proof is the hash of a ticket block's   *)
(* leader proof.                                                           *)
(***************************************************************************)
BlockOf(Tx) ==
    [hash : Nat \ {0}, mode : {Ticket, Recovery}, rank : Nat, proof : Nat,
     committee : Nat, signatures : Nat, txs : SUBSET Tx]

GenesisHash == 0

HashAt(chain, h) == IF h = 0 THEN GenesisHash ELSE chain[h].hash

TipHash(chain) == HashAt(chain, Len(chain))

-----------------------------------------------------------------------------
(* Objective finality.                                                     *)

Lesser(a, b) == IF a < b THEN a ELSE b

\* a - b of u64, saturating at zero.
SaturatingSub(a, b) == IF a < b THEN 0 ELSE a - b

ObjectiveFinalityQuorum(size) == IF size = 0 THEN 0 ELSE (size * 2) \div 3 + 1

\* Signatures a block must carry besides its finalizer's own leader proof.
RequiredExplicitBurnSignatures(height, mode, rank, size) ==
    CASE size = 0 \/ mode = Recovery -> 0
      [] size # 0 /\ mode = Ticket /\ rank = 0 ->
            IF height >= ActivationHeight
            THEN SaturatingSub(ObjectiveFinalityQuorum(size), 1)
            ELSE SaturatingSub(Lesser(size, 3), 1)
      [] size # 0 /\ mode = Ticket /\ rank = 1 -> SaturatingSub(Lesser(size, 2), 1)
      [] OTHER -> 0

\* Mutant: the activation block already certifies its parent.
BlockCertifiesParentTooEarly(block, height) ==
    /\ height >= ActivationHeight
    /\ block.mode = Ticket
    /\ block.rank = 0
    /\ block.committee > 0
    /\ block.signatures + 1 >= ObjectiveFinalityQuorum(block.committee)

\* block_certifies_parent.
BlockCertifiesParent(block, height) ==
    /\ height > ActivationHeight
    /\ block.mode = Ticket
    /\ block.rank = 0
    /\ block.committee > 0
    /\ block.signatures + 1 >= ObjectiveFinalityQuorum(block.committee)

\* Option<FinalityCheckpoint>: height 0 is never certified and stands for None.
NoCheckpoint == [height |-> 0, hash |-> GenesisHash]

Checkpoints == [height : Nat, hash : Nat]

\* Mutant: conflicting certificates of one height beat each other.
CheckpointDiffers(remote, local) ==
    \/ remote.height > local.height
    \/ remote.height = local.height /\ remote.hash # local.hash

\* objective_finality_quality(local, remote) = RemoteBetter.
CheckpointBetter(remote, local) ==
    \/ remote.height > local.height
    \/ remote.height = local.height /\ remote.hash < local.hash

-----------------------------------------------------------------------------
(* Leader scores: lower is better.                                         *)

LeaderScore(block) ==
    <<block.mode, block.rank,
      IF block.mode = Ticket THEN block.proof ELSE block.hash>>

ScoreLess(s, t) ==
    \/ s[1] < t[1]
    \/ s[1] = t[1] /\ s[2] < t[2]
    \/ s[1] = t[1] /\ s[2] = t[2] /\ s[3] < t[3]

\* fork_quality = RemoteBetter: at the first height above the ancestor whose
\* scores differ, the remote block has the lower score.
ForkQualityBetter(remote, local, ancestor) ==
    \E h \in ancestor + 1 .. Lesser(Len(local), Len(remote)) :
        /\ ScoreLess(LeaderScore(remote[h]), LeaderScore(local[h]))
        /\ \A k \in ancestor + 1 .. h - 1 :
              LeaderScore(remote[k]) = LeaderScore(local[k])

-----------------------------------------------------------------------------
(* Fork choice.                                                            *)

SameBlockAt(c, d, h) ==
    \/ h = 0
    \/ h \in 1 .. Len(c) /\ h \in 1 .. Len(d) /\ c[h].hash = d[h].hash

\* fork_point_with_candidate: the highest block both chains hold.
IsForkPoint(c, d, a) ==
    /\ a \in 0 .. Len(c)
    /\ SameBlockAt(c, d, a)
    /\ \A h \in a + 1 .. Len(c) : ~SameBlockAt(c, d, h)

\* Mutant: one more block may be rewritten.
ForkRewritesTooLate(localHeight, ancestor) ==
    ancestor + 1 < SaturatingSub(localHeight, FinalityDepth)

ForkRewritesFinalizedHistory(localHeight, ancestor) ==
    ancestor < SaturatingSub(localHeight, FinalityDepth)

\* The comparison below the checkpoints: height, then leader scores.
LongerOrBetterLed(local, remote, ancestor) ==
    \/ Len(remote.chain) > Len(local.chain)
    \/ /\ Len(remote.chain) = Len(local.chain)
       /\ ForkQualityBetter(remote.chain, local.chain, ancestor)

\* choose_fork = SwitchToCandidate.
SwitchToCandidate(local, remote, ancestor) ==
    /\ ~(/\ Len(remote.chain) = Len(local.chain)
         /\ TipHash(remote.chain) = TipHash(local.chain))
    /\ IF ancestor + 1 < ActivationHeight
       THEN /\ Len(local.chain) < ActivationHeight
            /\ ~ForkRewritesFinalizedHistory(Len(local.chain), ancestor)
            /\ LongerOrBetterLed(local, remote, ancestor)
       ELSE \/ CheckpointBetter(remote.checkpoint, local.checkpoint)
            \/ /\ remote.checkpoint = local.checkpoint
               /\ LongerOrBetterLed(local, remote, ancestor)

-----------------------------------------------------------------------------
(* Ledgers.                                                                *)

\* Heights in from..Len(chain) whose block certifies the block below it.
CertifyingHeights(chain, from) ==
    {h \in from .. Len(chain) : BlockCertifiesParent(chain[h], h)}

\* The checkpoint after the blocks of chain above height base were applied in
\* order to a ledger whose checkpoint was old: the last certificate wins.
CheckpointAfter(chain, base, old) ==
    IF CertifyingHeights(chain, base + 1) = {}
    THEN old
    ELSE LET last == CHOOSE h \in CertifyingHeights(chain, base + 1) :
                        \A k \in CertifyingHeights(chain, base + 1) : k <= h
         IN  [height |-> last - 1, hash |-> HashAt(chain, last - 1)]

MinedIn(chain, from) == UNION {chain[h].txs : h \in from .. Len(chain)}

\* apply_block for each of blocks in turn, on a ledger they extend.
Apply(ledger, blocks) ==
    LET chain == ledger.chain \o blocks IN
    [chain      |-> chain,
     checkpoint |-> CheckpointAfter(chain, Len(ledger.chain), ledger.checkpoint),
     pending    |-> ledger.pending \ MinedIn(chain, Len(ledger.chain) + 1)]

GenesisLedger == [chain |-> <<>>, checkpoint |-> NoCheckpoint, pending |-> {}]

\* from_snapshot: a fresh ledger that replays a whole chain.
FromSnapshot(chain) == Apply(GenesisLedger, chain)

\* Mutant: the local checkpoint survives the switch.
ReplaceKeepingCheckpoint(local, candidate, ancestor) ==
    [candidate EXCEPT
        !.checkpoint = local.checkpoint,
        !.pending = (local.pending \cup MinedIn(local.chain, ancestor + 1))
                        \ MinedIn(candidate.chain, 1)]

\* Mutant: what the candidate mined is restored as well.
ReplaceRestoringAll(local, candidate, ancestor) ==
    [candidate EXCEPT !.pending =
        local.pending \cup MinedIn(local.chain, ancestor + 1)]

\* replace_with_better_chain: the candidate plus the transactions only the
\* abandoned ledger had, mined in its stale blocks or still pending.
ReplaceWithBetterChain(local, candidate, ancestor) ==
    [candidate EXCEPT !.pending =
        (local.pending \cup MinedIn(local.chain, ancestor + 1))
            \ MinedIn(candidate.chain, 1)]

\* extend_from_snapshot: what the local ledger becomes when it is offered a
\* chain that leaves its own at ancestor.
ExtendFromSnapshot(local, chain, ancestor) ==
    IF SwitchToCandidate(local, FromSnapshot(chain), ancestor)
    THEN ReplaceWithBetterChain(local, FromSnapshot(chain), ancestor)
    ELSE local
=============================================================================
