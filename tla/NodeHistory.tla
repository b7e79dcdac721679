---------------------------- MODULE NodeHistory -----------------------------
(***************************************************************************)
(* One node and its chain database.  The node keeps genesis and a recent   *)
(* window of blocks in memory (app/node_lifecycle.rs); the persistence     *)
(* loop of main.rs saves the chain behind its back; forks that leave the   *)
(* chain below the window are validated on state rebuilt from the database *)
(* (adapters/p2p/process.rs); the user may delete the local chain, or      *)
(* switch to metrics mode, which needs the whole history in memory.        *)
(*                                                                         *)
(* Heights are below the activation of objective finality, where forks are *)
(* chosen by depth, length and leader score; a block's score is its last   *)
(* choice.                                                                 *)
(***************************************************************************)
EXTENDS ChainStore

CONSTANTS
    ResidentBlocks,  \* RESIDENT_CHAIN_BLOCKS, 64 in the code
    FinalityDepth,   \* FORK_FINALITY_DEPTH, 6 in the code
    MaxHeight,       \* bound on chain height
    MayReset,        \* whether the user may delete the local chain
    MayCrash,        \* whether the process may crash
    MayTrackMetrics  \* whether the user may switch metrics mode

ASSUME NodeHistoryAssumption ==
    /\ ResidentBlocks \in Nat \ {0}
    /\ FinalityDepth \in Nat
    /\ MaxHeight \in Nat
    /\ {MayReset, MayCrash, MayTrackMetrics} \subseteq BOOLEAN

VARIABLES
    node,       \* the chain in memory: tip, the lowest height above genesis that
                \* is resident, bounded_history, persisted_tip
    db,         \* the chain database
    loop,       \* the persistence loop: its stage, the snapshot it saves or the
                \* history it loaded, and last_saved_tip
    fork,       \* the validation of a fork below the resident window
    metrics,    \* keep_track_of_metrics
    resetting   \* a chain deletion is between its two steps

vars == <<node, db, loop, fork, metrics, resetting>>

Blocks == UNION {[1 .. h -> Branch] : h \in 0 .. MaxHeight}

Tips == Blocks \cup {NoChain}

Greater(a, b) == IF a > b THEN a ELSE b

-----------------------------------------------------------------------------
(* Pruning.                                                                *)

Resident(n, h) == h = 0 \/ h \in n.first .. Len(n.tip)

\* retain_recent_chain_blocks.
RetainRecent(n, keep) ==
    [n EXCEPT !.first = Greater(@, Len(n.tip) - keep + 1)]

\* Mutant: blocks the database does not have yet are dropped as well.
PruneToWindow(n) ==
    IF /\ n.bounded
       /\ n.persisted # NoChain
       /\ n.tip # NoChain
       /\ OnChain(n.persisted, n.tip)
       /\ Resident(n, Len(n.persisted))
    THEN RetainRecent(n, ResidentBlocks)
    ELSE n

\* prune_persisted_history: nothing unless the persisted tip is resident.
PrunePersistedHistory(n) ==
    IF /\ n.bounded
       /\ n.persisted # NoChain
       /\ n.tip # NoChain
       /\ OnChain(n.persisted, n.tip)
       /\ Resident(n, Len(n.persisted))
    THEN RetainRecent(n, Greater(Len(n.tip) - Len(n.persisted), ResidentBlocks))
    ELSE n

Pruned(n) == n.first > 1

-----------------------------------------------------------------------------
(* Start-up.                                                               *)

NoFork == [stage |-> "none"]

\* Mutant: the replay of the stored segments stops before the tip.
LoadedNodeShort(first) ==
    LET tip == IF db.tip \in {NoChain, <<>>} THEN db.tip ELSE At(db.tip, Len(db.tip) - 1)
    IN  [tip |-> tip, first |-> 1, bounded |-> FALSE, persisted |-> NoChain]

LoadedNode(first) ==
    [tip |-> db.tip, first |-> first, bounded |-> FALSE, persisted |-> db.tip]

Starting(mode) ==
    [stage |-> "starting", tip |-> NoChain, first |-> 1, saved |-> NoChain,
     mode |-> mode, keep |-> mode]

Init ==
    /\ node = [tip |-> NoChain, first |-> 1, bounded |-> FALSE, persisted |-> NoChain]
    /\ db = EmptyStore
    /\ loop = Starting(FALSE)
    /\ fork = NoFork
    /\ metrics = FALSE
    /\ resetting = FALSE

\* A crash, and the next start: the whole chain is loaded, or the recent
\* window when the UI projection is current and metrics are off.
Restart ==
    /\ MayCrash
    /\ \E window \in {1} \cup (IF metrics \/ db.tip = NoChain THEN {}
                               ELSE {Greater(1, Len(db.tip) - ResidentBlocks + 1)}) :
          node' = LoadedNode(window)
    /\ loop' = Starting(metrics)
    /\ fork' = NoFork
    /\ resetting' = FALSE
    /\ UNCHANGED <<db, metrics>>

\* The end of main's start-up, when peers are connected already: history is
\* bounded, and the tip of this moment is taken for saved.
StartLoop ==
    /\ loop.stage = "starting"
    /\ node' = IF metrics THEN node
               ELSE PrunePersistedHistory([node EXCEPT !.bounded = TRUE])
    /\ loop' = [loop EXCEPT !.stage = "idle", !.saved = node.tip,
                            !.mode = IF node.persisted = NoChain THEN metrics ELSE @]
    /\ UNCHANGED <<db, fork, metrics, resetting>>

-----------------------------------------------------------------------------
(* The chain grows, or is replaced.                                        *)

\* import_verified_ledger of a bootstrap: the setup placeholder becomes genesis.
Bootstrap ==
    /\ node.tip = NoChain
    /\ node' = PrunePersistedHistory([node EXCEPT !.tip = <<>>, !.first = 1])
    /\ UNCHANGED <<db, loop, fork, metrics, resetting>>

\* A block of the node or of a peer extends the tip.
Extend ==
    /\ node.tip # NoChain
    /\ Len(node.tip) < MaxHeight
    /\ \E b \in Branch :
          node' = PrunePersistedHistory([node EXCEPT !.tip = Append(@, b)])
    /\ UNCHANGED <<db, loop, fork, metrics, resetting>>

\* Same-height chains: the lower leader score at the first difference wins.
BetterLed(remote, local) ==
    \E h \in 1 .. Len(local) :
        remote[h] < local[h] /\ At(remote, h - 1) = At(local, h - 1)

\* choose_fork below the activation height, for a fork above height ancestor.
PrefersFork(candidate, local, ancestor) ==
    /\ ancestor >= Len(local) - FinalityDepth
    /\ \/ Len(candidate) > Len(local)
       \/ Len(candidate) = Len(local) /\ BetterLed(candidate, local)

\* A fork whose ancestor is in memory: the candidate is replayed from genesis.
Reorganize ==
    /\ node.tip # NoChain
    /\ ~Pruned(node)
    /\ \E c \in Blocks : \E a \in 0 .. Len(node.tip) - 1 :
          /\ a < Len(c)
          /\ At(c, a) = At(node.tip, a)
          /\ c[a + 1] # node.tip[a + 1]
          /\ PrefersFork(c, node.tip, a)
          /\ node' = PrunePersistedHistory([node EXCEPT !.tip = c, !.first = 1])
    /\ UNCHANGED <<db, loop, fork, metrics, resetting>>

-----------------------------------------------------------------------------
(* A fork of a pruned node: the ledger is cloned, the database is opened   *)
(* if it holds the live tip, the common ancestor's state is rebuilt from   *)
(* it, then the local blocks above the ancestor are read.  Nothing is      *)
(* locked in between.                                                      *)

CloneForFork ==
    /\ fork.stage = "none"
    /\ node.tip # NoChain
    /\ Pruned(node)
    /\ \E c \in Blocks : \E a \in 0 .. Len(c) - 1 :
          /\ At(c, a) # node.tip
          /\ ~OnChain(At(c, a + 1), node.tip)
          /\ fork' = [stage |-> "cloned", base |-> node.tip,
                      candidate |-> c, ancestor |-> At(c, a)]
    /\ UNCHANGED <<node, db, loop, metrics, resetting>>

\* Mutant: the database is used whatever tip it holds.
OpenAnyStore ==
    /\ fork.stage = "cloned"
    /\ fork' = [fork EXCEPT !.stage = "opened"]
    /\ UNCHANGED <<node, db, loop, metrics, resetting>>

\* current_chain_store: a database that lags or leads is not used, and the
\* pruned ledger alone cannot replay the fork.
OpenStore ==
    /\ fork.stage = "cloned"
    /\ fork' = IF node.tip # NoChain /\ db.tip = node.tip
               THEN [fork EXCEPT !.stage = "opened"]
               ELSE NoFork
    /\ UNCHANGED <<node, db, loop, metrics, resetting>>

\* block_by_hash and load_bounded_ledger_at_block.
LoadForkBase ==
    /\ fork.stage = "opened"
    /\ fork' = IF Indexed(db, fork.ancestor)
               THEN [fork EXCEPT !.stage = "based"]
               ELSE NoFork
    /\ UNCHANGED <<node, db, loop, metrics, resetting>>

\* The persisted local blocks, as many as the batch has, form a path from the
\* ancestor, which reaches the tip when the heights are equal.
LocalForkUsable(blocks) ==
    /\ \A b \in blocks : OnChain(fork.ancestor, b)
    /\ \A b, d \in blocks : OnChain(b, d) \/ OnChain(d, b)
    /\ Len(fork.candidate) = Len(fork.base) => fork.base \in blocks

\* adopt_prevalidated_fork on the clone, with the fork point the database gave.
ValidateFork ==
    /\ fork.stage = "based"
    /\ LET a      == Len(fork.ancestor)
           blocks == BlocksFrom(db, a + 1, Len(fork.candidate) - a)
       IN  fork' = IF /\ LocalForkUsable(blocks)
                      /\ PrefersFork(fork.candidate, fork.base, a)
                   THEN [fork EXCEPT !.stage = "adopted"]
                   ELSE NoFork
    /\ UNCHANGED <<node, db, loop, metrics, resetting>>

\* The import, if the tip is still the one the validation started from.
FinishFork ==
    /\ fork.stage = "adopted"
    /\ node' = IF node.tip = fork.base
               THEN PrunePersistedHistory(
                       [node EXCEPT !.tip = fork.candidate,
                                    !.first = Greater(1, Len(fork.ancestor) - ResidentBlocks + 1)])
               ELSE node
    /\ fork' = NoFork
    /\ UNCHANGED <<db, loop, metrics, resetting>>

-----------------------------------------------------------------------------
(* The persistence loop.                                                   *)

\* The loop after an iteration that dropped its snapshot.
Idle(l) == [l EXCEPT !.stage = "idle", !.tip = NoChain, !.first = 1]

\* The user switches metrics mode.
ToggleMetrics ==
    /\ MayTrackMetrics
    /\ metrics' = ~metrics
    /\ UNCHANGED <<node, db, loop, fork, resetting>>

\* What makes the loop run even when the UI projection is current.
LoopHasWork == node.tip # NoChain /\ (loop.saved # node.tip \/ loop.mode # metrics)

\* align_resident_history_with_metrics_mode: bound the history again, or stop
\* bounding it and load what was pruned.  The loop also runs for a UI projection
\* that is behind, which is not part of the model, so it may run at any time.
AlignHistory ==
    /\ loop.stage = "idle"
    /\ node.tip # NoChain
    /\ node' = CASE ~metrics /\ ~node.bounded ->
                        PrunePersistedHistory([node EXCEPT !.bounded = TRUE])
                 [] metrics /\ node.bounded -> [node EXCEPT !.bounded = FALSE]
                 [] OTHER -> node
    /\ loop' = IF metrics /\ Pruned(node) /\ db.tip # NoChain
               THEN [loop EXCEPT !.stage = "restoring", !.tip = db.tip, !.keep = metrics]
               ELSE [loop EXCEPT !.stage = "aligned", !.keep = metrics]
    /\ UNCHANGED <<db, fork, metrics, resetting>>

\* Mutant: blocks applied since the history was loaded are not replayed on it.
AttachSameTip ==
    /\ loop.stage = "restoring"
    /\ node' = IF loop.tip = node.tip THEN [node EXCEPT !.first = 1] ELSE node
    /\ loop' = [loop EXCEPT !.stage = "aligned", !.tip = NoChain]
    /\ UNCHANGED <<db, fork, metrics, resetting>>

\* restore_pruned_history: the loaded chain must be below the resident tip, and
\* reach the resident window.
AttachHistory ==
    /\ loop.stage = "restoring"
    /\ node' = IF /\ node.tip # NoChain
                  /\ Pruned(node)
                  /\ OnChain(loop.tip, node.tip)
                  /\ \/ Resident(node, Len(loop.tip))
                     \/ Resident(node, Len(loop.tip) + 1)
               THEN [node EXCEPT !.first = 1]
               ELSE node
    /\ loop' = [loop EXCEPT !.stage = "aligned", !.tip = NoChain]
    /\ UNCHANGED <<db, fork, metrics, resetting>>

\* The snapshot, under the lock, if the tip changed since the last save.
TakeSnapshot ==
    /\ loop.stage = "aligned"
    /\ node.tip # NoChain
    /\ loop.saved # node.tip
    /\ loop' = [loop EXCEPT !.stage = "saving", !.tip = node.tip, !.first = node.first]
    /\ UNCHANGED <<node, db, fork, metrics, resetting>>

\* Otherwise only the UI projection, which may fail, follows.
SkipSave ==
    /\ loop.stage = "aligned"
    /\ node.tip = NoChain \/ loop.saved = node.tip
    /\ \E projected \in BOOLEAN :
          /\ projected => node.tip # NoChain
          /\ loop' = [Idle(loop) EXCEPT
                               !.mode = IF projected THEN loop.keep ELSE @]
    /\ UNCHANGED <<node, db, fork, metrics, resetting>>

\* save_verified_resident commits.
CommitSave ==
    /\ loop.stage = "saving"
    /\ CanSave(db, loop.tip, loop.first)
    /\ db' = SaveVerifiedResident(db, loop.tip, loop.first)
    /\ loop' = [loop EXCEPT !.stage = "committed"]
    /\ UNCHANGED <<node, fork, metrics, resetting>>

\* Mutant: a failed save is not tried again.
FailSaveForGood ==
    /\ loop.stage = "saving"
    /\ loop' = [Idle(loop) EXCEPT !.saved = loop.tip]
    /\ UNCHANGED <<node, db, fork, metrics, resetting>>

\* The save is refused, or SQLite reports an error.
FailSave ==
    /\ loop.stage = "saving"
    /\ loop' = Idle(loop)
    /\ UNCHANGED <<node, db, fork, metrics, resetting>>

\* mark_chain_persisted; the tip counts as saved unless the UI projection that
\* follows fails, and a projection is not tried while the node is syncing.
MarkPersisted ==
    /\ loop.stage = "committed"
    /\ node' = PrunePersistedHistory([node EXCEPT !.persisted = loop.tip])
    /\ \E s \in {loop.saved, loop.tip}, m \in {loop.mode, loop.keep} :
          /\ m # loop.mode => s = loop.tip
          /\ loop' = [Idle(loop) EXCEPT !.saved = s, !.mode = m]
    /\ UNCHANGED <<db, fork, metrics, resetting>>

-----------------------------------------------------------------------------
(* Deleting the local chain.                                               *)

\* reset_chain_to_setup_placeholder; the sync generation changes, so no fork
\* validation in flight is imported any more.
ResetNode ==
    /\ MayReset
    /\ ~resetting
    /\ node' = [node EXCEPT !.tip = NoChain, !.first = 1, !.persisted = NoChain]
    /\ fork' = NoFork
    /\ resetting' = TRUE
    /\ UNCHANGED <<db, loop, metrics>>

\* Mutant: the block index is left behind.
ClearAllButIndex ==
    /\ resetting
    /\ db' = [EmptyStore EXCEPT !.index = db.index]
    /\ resetting' = FALSE
    /\ UNCHANGED <<node, loop, fork, metrics>>

\* clear_chain, after the lock was released.
ClearStore ==
    /\ resetting
    /\ db' = EmptyStore
    /\ resetting' = FALSE
    /\ UNCHANGED <<node, loop, fork, metrics>>

-----------------------------------------------------------------------------
ValidateForkNext ==
    CloneForFork \/ OpenStore \/ LoadForkBase \/ ValidateFork \/ FinishFork

LoopNext ==
    \/ AlignHistory \/ AttachHistory \/ TakeSnapshot \/ SkipSave
    \/ CommitSave \/ FailSave \/ MarkPersisted

Next ==
    \/ Restart
    \/ StartLoop
    \/ Bootstrap
    \/ Extend
    \/ Reorganize
    \/ ValidateForkNext
    \/ ToggleMetrics
    \/ LoopNext
    \/ ResetNode
    \/ ClearStore

Spec == Init /\ [][Next]_vars

(***************************************************************************)
(* The loop wakes up every two seconds and each of its steps ends; a save  *)
(* may fail, but not every time it is tried.                               *)
(***************************************************************************)
LoopFairness ==
    /\ WF_vars(StartLoop)
    /\ WF_vars(LoopHasWork /\ AlignHistory)
    /\ WF_vars(AttachHistory)
    /\ WF_vars(TakeSnapshot)
    /\ WF_vars(SkipSave)
    /\ WF_vars(MarkPersisted)
    /\ WF_vars(CommitSave \/ FailSave)
    /\ SF_vars(CommitSave)

FairSpec == Spec /\ LoopFairness

-----------------------------------------------------------------------------
(* Properties.                                                             *)

LoopStages == {"starting", "idle", "restoring", "aligned", "saving", "committed"}

\* A chain in memory, of which at least the tip is resident.
NodeOK(n) ==
    /\ n \in [tip : Tips, first : 1 .. MaxHeight + 1, bounded : BOOLEAN,
              persisted : Tips]
    /\ n.tip # NoChain => n.first <= Greater(1, Len(n.tip))

TypeOK ==
    /\ NodeOK(node)
    /\ db.tip \in Tips
    /\ loop \in [stage : LoopStages, tip : Tips, first : 1 .. MaxHeight + 1,
                 saved : Tips, mode : BOOLEAN, keep : BOOLEAN]
    /\ \/ fork = NoFork
       \/ fork \in [stage : {"cloned", "opened", "based", "adopted"}, base : Blocks,
                    candidate : Blocks, ancestor : Blocks]
    /\ metrics \in BOOLEAN
    /\ resetting \in BOOLEAN

\* Whatever saves of whole chains and of pruned tails, of chains that grew or
\* were reorganized, came one after the other, the tables agree with each
\* other: segments, index, metadata and verification mark describe one chain.
StoreConsistent ==
    IF db.tip = NoChain THEN db = EmptyStore ELSE db = StoreOf(db.tip)

\* The inductive invariant behind the theorems of ChainStoreProofs: besides the
\* types and the tables, a snapshot on its way into the database is a chain that
\* ends in resident blocks, and a fork has blocks above its ancestor.
StoreInv ==
    /\ TypeOK
    /\ StoreConsistent
    /\ loop.stage = "saving" =>
          loop.tip # NoChain /\ loop.first <= Greater(1, Len(loop.tip))
    /\ fork.stage # "none" => Len(fork.ancestor) < Len(fork.candidate)

\* A block is dropped from memory only while the database can give it back: it
\* holds the whole chain below the resident window (prune_persisted_history).
\* It is also what the next save of the pruned chain needs to be accepted.
HistoryRecoverable ==
    Pruned(node) =>
        /\ db.tip # NoChain
        /\ node.first - 1 <= Len(db.tip)
        /\ At(db.tip, node.first - 1) = At(node.tip, node.first - 1)

\* A fork adopted on state from the database is a fork of the node's own chain:
\* it leaves blocks below the finality depth alone, although the ancestor came
\* from a database that is saved to while the validation runs.
DepthRespected ==
    [][(/\ node.tip # NoChain
        /\ node'.tip # NoChain
        /\ loop'.stage # "starting")
       => \A h \in 1 .. Len(node.tip) - FinalityDepth :
             At(node'.tip, h) = At(node.tip, h)]_vars

\* A chain that may have replaced old without reaching below the finality depth.
Keeps(new, old) ==
    /\ Len(new) >= Len(old)
    /\ \A h \in 1 .. Len(old) - FinalityDepth : At(new, h) = At(old, h)

\* The inductive invariant behind DepthRespected while nobody deletes the chain:
\* the database, the snapshot on its way into it and the base of a fork are
\* earlier chains of the node, in this order, and the ancestor a fork takes from
\* the database lies on what its base keeps.
DepthInv ==
    /\ ~resetting
    /\ db.tip # NoChain => node.tip # NoChain /\ Keeps(node.tip, db.tip)
    /\ loop.stage = "saving" =>
          /\ node.tip # NoChain /\ Keeps(node.tip, loop.tip)
          /\ db.tip # NoChain => Keeps(loop.tip, db.tip)
    /\ fork.stage # "none" =>
          /\ node.tip # NoChain /\ Keeps(node.tip, fork.base)
          /\ At(fork.candidate, Len(fork.ancestor)) = fork.ancestor
    /\ fork.stage = "opened" => db.tip # NoChain /\ Keeps(db.tip, fork.base)
    /\ fork.stage \in {"based", "adopted"} =>
          \A h \in 1 .. Len(fork.base) - FinalityDepth :
              h <= Len(fork.ancestor) => At(fork.ancestor, h) = At(fork.base, h)
    /\ fork.stage = "adopted" =>
          PrefersFork(fork.candidate, fork.base, Len(fork.ancestor))

\* The same with forks, up to the finality depth: a pruned node finds every height it
\* lacks in the database, and there its own block unless that lies within the depth of
\* the stored tip.
HistoryToDepth ==
    Pruned(node) =>
        /\ db.tip # NoChain
        /\ node.first - 1 <= Len(db.tip)
        /\ \A h \in 1 .. node.first - 1 :
              h <= Len(db.tip) - FinalityDepth => At(db.tip, h) = At(node.tip, h)

\* The inductive invariant behind both: heights are pruned up to a persisted tip or
\* taken from the database, whose chain never gets shorter while nobody deletes it.
WindowInv ==
    /\ Pruned(node) => db.tip # NoChain /\ node.first - 1 <= Len(db.tip)
    /\ node.persisted # NoChain => db.tip # NoChain /\ Len(node.persisted) <= Len(db.tip)
    /\ loop.stage = "committed" => loop.tip = db.tip
    /\ fork.stage \in {"based", "adopted"} =>
          db.tip # NoChain /\ Len(fork.ancestor) <= Len(db.tip)

\* A tip the loop sees for the first time is saved, unless it is replaced
\* first: a failed save is tried again, and no stage of the loop blocks.
NewTipStored ==
    \A t \in Blocks :
        (node.tip = t /\ loop.stage # "starting" /\ loop.saved # t)
            ~> (db.tip = t \/ node.tip # t)

\* A restore of pruned history that was started for metrics mode succeeds, by
\* a later try if the tip moved meanwhile, unless the mode is left
\* (align_resident_history_with_metrics_mode).
HistoryRestored ==
    (loop.stage = "restoring") ~> (~Pruned(node) \/ ~metrics)

Durable == INSTANCE DurableChain WITH
    live     <- node.tip,
    running  <- loop.stage # "starting",
    snapshot <- IF loop.stage = "restoring" THEN NoChain ELSE loop.tip,
    saved    <- LoadedBlocks(db)

\* The database refines a chain that is saved whole, survives crashes, and is
\* loaded whole by the next process.
ImplementsDurableChain == Durable!Spec
=============================================================================
