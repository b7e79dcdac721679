---------------------------- MODULE MCConsensus -----------------------------
(* What every node must compute alike, in one run of four settings: the     *)
(* ledger, the encoding its blocks are measured in, the limb arithmetic of  *)
(* the VDF, and the prover built on it.                                     *)
EXTENDS LedgerChain, MCCodec, MCLimbGcd

VARIABLES focus, disc, rounds, challenge, params, vdfPhase, output, done, checkpoints,
          pass, at, buckets, proof, residue, work, cancelled, progress

-----------------------------------------------------------------------------
(* The transactions of the ledger.                                          *)

Pay(address, n) == [owner |-> address, amount |-> n]
Tx(kind, owner, inputs, outputs, fee, burned, anchor, legacy) ==
    [kind |-> kind, owner |-> owner, inputs |-> inputs, outputs |-> outputs, fee |-> fee,
     burned |-> burned, anchor |-> anchor, legacy |-> legacy, bits |-> 3, bytes |-> 1,
     genuine |-> TRUE]

\* Two legacy addresses 1 and 2, and the hybrid address 11 of 1: two chains of burns,
\* three mines, and the first mine either merged with another by a transfer or migrated
\* and burned.
MCTable ==
    <<Tx("burn", 1, {<<0, 1>>}, <<Pay(1, 7)>>, 1, 2, 99, 1),
      Tx("burn", 1, {<<1, 1>>}, <<Pay(1, 5)>>, 1, 1, 99, 1),
      Tx("burn", 2, {<<0, 2>>}, <<Pay(2, 4)>>, 3, 1, 99, 2),
      Tx("burn", 2, {<<3, 1>>}, <<Pay(2, 1)>>, 1, 2, 99, 2),
      Tx("mine", 1, {}, << >>, 1, 0, 0, 1),
      Tx("mine", 2, {}, << >>, 1, 0, 1, 2),
      Tx("transfer", 1, {<<5, 1>>, <<0, 0>>}, <<Pay(2, 5)>>, 1, 0, 99, 1),
      Tx("migration", 1, {<<5, 1>>, <<0, 0>>}, <<Pay(11, 5)>>, 1, 0, 99, 1),
      Tx("burn2", 11, {<<8, 1>>}, <<Pay(11, 2)>>, 1, 2, 99, 1),
      Tx("mine", 2, {}, << >>, 1, 0, 1, 2),
      Tx("transfer", 2, {<<6, 1>>, <<7, 1>>}, <<Pay(1, 3), Pay(2, 4)>>, 1, 0, 99, 2)>>

\* The hypothesis of LineageProofs holds of them.
ASSUME MCOutputs == PositiveOutputs

MCAllocation == [a \in {1, 2} |-> IF a = 1 THEN 12 ELSE 8]
MCGenesisBurns == <<[owner |-> 1, amount |-> 2]>>

MCBodies ==
    {[v1 |-> v1, v2 |-> << >>] :
        v1 \in {<<1>>, <<2>>, <<2, 7>>, <<5, 3, 1>>, <<4, 6, 10>>, <<4, 6, 11>>}}
    \cup {[v1 |-> <<2>>, v2 |-> <<8>>], [v1 |-> << >>, v2 |-> <<9>>],
          [v1 |-> <<4>>, v2 |-> <<8, 9>>]}

-----------------------------------------------------------------------------
(* The prover.                                                              *)

Vdf == INSTANCE VdfProver WITH
    phase <- vdfPhase, Discriminants <- {-79, -191}, MaxRounds <- 7, Challenges <- {3, 5, 13},
    WindowBits <- {1, 2, 3}, Strides <- {1, 2}, Budgets <- {0, 2, 8}, MaxCheckpoints <- 5,
    MaxBuckets <- 4, MayCancel <- TRUE

vdfVars ==
    <<disc, rounds, challenge, params, vdfPhase, output, done, checkpoints, pass, at, buckets,
      proof, residue, work, cancelled, progress>>

-----------------------------------------------------------------------------

\* The variables of the settings that were not chosen.
IdleLedger == LedgerInit
IdleCodec == chain = 0 /\ resident = 0 /\ context = 0
IdleGcd ==
    /\ variant = 0 /\ left = 0 /\ right = 0 /\ threshold = 0 /\ oldR = 0 /\ r = 0
    /\ oldS = 0 /\ s = 0 /\ oldT = 0 /\ t = 0 /\ phase = 0
IdleVdf ==
    /\ disc = 0 /\ rounds = 0 /\ challenge = 0 /\ params = 0 /\ vdfPhase = 0 /\ output = 0
    /\ done = 0 /\ checkpoints = 0 /\ pass = 0 /\ at = 0 /\ buckets = 0 /\ proof = 0
    /\ residue = 0 /\ work = 0 /\ cancelled = 0 /\ progress = 0

ConsensusSpec ==
    /\ focus \in {"ledger", "encoding", "limbs", "vdf"}
    /\ IF focus = "ledger" THEN LedgerInit ELSE IdleLedger
    /\ IF focus = "encoding" THEN CodecInit ELSE IdleCodec
    /\ IF focus = "limbs" THEN Init ELSE IdleGcd
    /\ IF focus = "vdf" THEN Vdf!Init ELSE IdleVdf
    /\ [][/\ UNCHANGED focus
          /\ \/ /\ focus = "ledger" /\ LedgerNext
                /\ UNCHANGED <<chainVars, gcdVars, vdfVars>>
             \/ /\ focus = "encoding" /\ CodecNext
                /\ UNCHANGED <<ledgerVars, gcdVars, vdfVars>>
             \/ /\ focus = "limbs" /\ Next
                /\ UNCHANGED <<ledgerVars, chainVars, vdfVars>>
             \/ /\ focus = "vdf" /\ Vdf!Next
                /\ UNCHANGED <<ledgerVars, chainVars, gcdVars>>
         ]_<<focus, ledgerVars, chainVars, gcdVars, vdfVars>>

\* Segments of the database read back as the blocks they were written from, and every node
\* measures the next block alike whatever it did before (encode_compact_segment,
\* append_block_with_size_breakdown).
EncodingReadsBack == focus = "encoding" => SegmentsReadBack /\ SizesAreOfTheSnapshot

\* Arithmetic on limbs is arithmetic on integers, in the operations and through every turn
\* of the extended Euclidean loops (limbs/mod.rs).
LimbsExact ==
    /\ LimbsCanonical
    /\ ArithmeticMatchesIntegers
    /\ CofactorsExact
    /\ DivisorKept
    /\ PartialStopsFirst

\* Whatever windows, passes and memory the prover chooses, it returns the one output and
\* proof that the verifier of every other node accepts (wesolowski_proof_from_checkpoints).
ProofsVerify ==
    /\ Vdf!SolutionVerifies
    /\ Vdf!ProofIndependentOfTradeoff
    /\ Vdf!CompositionIsGroupLaw
    /\ Vdf!DiscriminantKept
    /\ Vdf!CheckpointsWithinBudget
    /\ Vdf!ProgressWithinTotal

\* Every node computes the same proof of elapsed time, down to the limbs.
VdfExact == (focus = "limbs" => LimbsExact) /\ (focus = "vdf" => ProofsVerify)
=============================================================================
