---------------------------- MODULE DurableChain ----------------------------
(***************************************************************************)
(* What the chain database promises: the chain it holds is always a whole  *)
(* chain, from genesis to a tip the node had when a snapshot was taken,    *)
(* and a process that starts again goes on from exactly that chain.        *)
(***************************************************************************)
EXTENDS Integers, Sequences

CONSTANTS Branch, NoChain

VARIABLES
    live,      \* the tip of the node, or NoChain
    running,   \* the process has finished its start-up
    snapshot,  \* the tip of the snapshot being saved
    saved      \* the blocks in the database, by height

vars == <<live, running, snapshot, saved>>

\* Every block of a chain, by height.
Whole(tip) ==
    [h \in IF tip = NoChain THEN {} ELSE 0 .. Len(tip) |-> SubSeq(tip, 1, h)]

Init ==
    /\ live = NoChain
    /\ running = FALSE
    /\ snapshot = NoChain
    /\ saved = Whole(NoChain)

Advance ==
    /\ live' \in Seq(Branch) \cup {NoChain}
    /\ UNCHANGED <<running, snapshot, saved>>

TakeSnapshot ==
    /\ snapshot' = live
    /\ UNCHANGED <<live, running, saved>>

DropSnapshot ==
    /\ snapshot' = NoChain
    /\ UNCHANGED <<live, running, saved>>

Commit ==
    /\ saved' = Whole(snapshot)
    /\ UNCHANGED <<live, running, snapshot>>

Clear ==
    /\ saved' = Whole(NoChain)
    /\ UNCHANGED <<live, running, snapshot>>

FinishStart ==
    /\ ~running
    /\ running' = TRUE
    /\ UNCHANGED <<live, snapshot, saved>>

\* The process ends, and the next one loads the database.
Restart ==
    /\ running' = FALSE
    /\ live' \in Seq(Branch) \cup {NoChain}
    /\ Whole(live') = saved
    /\ snapshot' = NoChain
    /\ UNCHANGED saved

Next == Advance \/ TakeSnapshot \/ DropSnapshot \/ Commit \/ Clear \/ FinishStart \/ Restart

Spec == Init /\ [][Next]_vars
=============================================================================
