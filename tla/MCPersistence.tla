---------------------------- MODULE MCPersistence ---------------------------
(* The persistence loop in one run of two settings: with the chain database *)
(* and the window kept in memory, and with the tables the UI reads.         *)
EXTENDS MCNodeHistory

VARIABLES focus, live, stored, ui, uiMetrics, uiLoop, keep, incidents

uiVars == <<live, stored, ui, uiMetrics, uiLoop, keep, incidents>>

-----------------------------------------------------------------------------
(* The UI tables.                                                          *)

X == <<"x", 1>>
Y == <<"y", 1>>
Z == <<"z", 1>>
Rotated == <<"x", 2>>

UiTx(v, kind, from, to, amount, fee) ==
    [v |-> v, kind |-> kind, from |-> from, to |-> to, amount |-> amount, fee |-> fee]

\* A mine and a burn of one address; or a version 2 transfer to a rotated address of the
\* same owner, and a burn from there.
UiBlocks ==
    [a |-> [txs |-> <<UiTx(1, "mine", X, X, 0, 0), UiTx(1, "burn", X, X, 2, 1)>>,
            finalizer |-> Y],
     b |-> [txs |-> <<UiTx(2, "transfer", X, Rotated, 3, 0),
                      UiTx(2, "burn", Rotated, Rotated, 1, 1)>>,
            finalizer |-> Z]]

UiStart == <<[address |-> X, amount |-> 5], [address |-> Y, amount |-> 2]>>

Ui == INSTANCE UiProjection WITH
    loop <- uiLoop, metrics <- uiMetrics, Contents <- UiBlocks, Allocations <- UiStart,
    StartTips <- {<<"none">>, <<"a">>}, MineReward <- 4, ProjectedKept <- 2, DrawsKept <- 2,
    ResidentBlocks <- 1, ForkDepth <- 2, MaxHeight <- 3, MaxIncidents <- 1

-----------------------------------------------------------------------------

PersistenceInit ==
    /\ focus \in {"window", "ui"} /\ Init /\ Ui!UiInit
    /\ focus = "window" => keep /\ stored = Ui!NoTip

PersistenceSpec ==
    /\ PersistenceInit
    /\ [][/\ UNCHANGED focus
          /\ \/ focus = "window" /\ Next /\ UNCHANGED uiVars
             \/ focus = "ui" /\ Ui!UiNext /\ UNCHANGED vars]_<<focus, vars, uiVars>>
    /\ LoopFairness

\* However the projection came about, by appending, rewinding, streaming or rebuilding, the
\* UI tables are those a rebuild from the projected chain gives, without rows of a block
\* that a reorganization took off it (apply_ui_projection, rewind_ui_projection_to).
ProjectionMatchesChain == Ui!ProjectionIsRebuild /\ Ui!NoAbandonedRows

\* The counters that metrics carry from block to block agree with the ledger at every
\* height, through truncation and restarts (extend_metrics, truncate_metrics_above).
MetricsMatchLedger == Ui!MetricsMatchLedger

\* A persistence loop that has nothing left to do means that the UI shows the live chain,
\* whatever blocks, forks and mode changes arrived while it was projecting (main.rs).
SettledIsShown == Ui!SettledIsShown
=============================================================================
