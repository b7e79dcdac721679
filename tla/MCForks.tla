------------------------------- MODULE MCForks ------------------------------
(* ChainSync with its forks around the activation height, in four settings  *)
(* of one run: chains that cross it, recovery blocks between them, the rule *)
(* of the finality depth that holds below it, and a transaction on forks.   *)
EXTENDS MCChainSync

VARIABLE focus

\* Ticket blocks on both sides of the activation height; a fork may start below it.
Crossing == INSTANCE ChainSync WITH Tx <- {}, Shapes <- AroundActivation

\* Shorter, with recovery blocks, whose score is their hash.
Recovering == INSTANCE ChainSync WITH Tx <- {}, Shapes <- QuorumOrRecovery,
                                      Hashes <- 1 .. 4

\* Before activation, two whole branches.  Chains of at most two blocks are buried
\* alike here and by the constants of the run: their first block, once there is a
\* second.
Early == INSTANCE ChainSync WITH ActivationHeight <- 3, FinalityDepth <- 1, MaxHeight <- 2,
                                 Tx <- {}, Shapes <- QuorumOrFallback, Hashes <- 1 .. 4

\* The same with a transaction that one branch has mined and the other has not.
Carrying == INSTANCE ChainSync WITH ActivationHeight <- 3, FinalityDepth <- 1, MaxHeight <- 2,
                                    Shapes <- QuorumOrFallback, Hashes <- 1 .. 3

ForksInit == Init /\ focus \in {"crossing", "recovering", "early", "carrying"}

ForksSpec ==
    /\ ForksInit
    /\ [][/\ UNCHANGED focus
          /\ \/ focus = "crossing" /\ Crossing!Next
             \/ focus = "recovering" /\ Recovering!Next
             \/ focus = "early" /\ Early!Next
             \/ focus = "carrying" /\ Carrying!Next]_<<vars, focus>>
=============================================================================
