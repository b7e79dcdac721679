---------------------------- MODULE MCChainSync -----------------------------
(* Small instances of ChainSync for TLC.                                   *)
EXTENDS ChainSync, TLC

Shape(mode, rank, proof, committee, signatures) ==
    [mode |-> mode, rank |-> rank, proof |-> proof,
     committee |-> committee, signatures |-> signatures]

\* A rank 0 block with the smallest quorum of a committee of four, a rank 1
\* fallback with the smallest attestation, and a recovery block, whose score
\* is its own hash.
QuorumBlock == Shape(Ticket, 0, 1, 4, 2)
FallbackBlock == Shape(Ticket, 1, 1, 2, 1)
RecoveryBlock == Shape(Recovery, 0, 0, 1, 0)

\* Enough signatures for rank 0 below the activation height, one short of the
\* quorum of a committee of five above it.
LegacyQuorumBlock == Shape(Ticket, 0, 2, 5, 2)

QuorumOrRecovery == {QuorumBlock, RecoveryBlock}
QuorumOrFallback == {QuorumBlock, FallbackBlock}
QuorumOnly == {QuorumBlock}
AroundActivation == {QuorumBlock, LegacyQuorumBlock}

NodeSymmetry == Permutations(Nodes)
=============================================================================
