------------------------------ MODULE MCStore -------------------------------
(***************************************************************************)
(* NodeHistory for TLC, each of three questions where it can arise:        *)
(* crashes while chains of two branches are saved, one height below the    *)
(* bound; forks below the resident window, without crashes; and deletions  *)
(* of the chain with crashes and metrics mode, on one branch.              *)
(***************************************************************************)
EXTENDS MCNodeHistory

VARIABLE focus

Short(tip) == tip = NoChain \/ Len(tip) < MaxHeight

OnFirstBranch(tip) == tip = NoChain \/ \A h \in DOMAIN tip : tip[h] = 1

WithinFocus ==
    \/ /\ focus = "crashes"
       /\ ~resetting /\ ~metrics
       /\ Short(node.tip)
       /\ fork.stage = "none" \/ Short(fork.candidate)
    \/ focus = "forks" /\ ~resetting /\ ~metrics
    \/ focus = "resets" /\ fork.stage = "none" /\ OnFirstBranch(node.tip)

Crashes == loop.stage # "starting" /\ loop'.stage = "starting"

StoreInit == Init /\ focus \in {"crashes", "forks", "resets"}

StoreNext ==
    /\ focus' = focus
    /\ Next
    /\ WithinFocus'
    /\ focus = "forks" => ~Crashes

StoreSpec == StoreInit /\ [][StoreNext]_<<vars, focus>>
=============================================================================
