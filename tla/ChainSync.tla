----------------------------- MODULE ChainSync ------------------------------
(***************************************************************************)
(* Nodes that produce blocks, gossip them and import each other's chains.  *)
(* Every node guards its ledger with one lock, but the two long            *)
(* computations run with the lock released: the VDF of a block the node    *)
(* is producing (main.rs, app/wallet.rs) and the validation of a batch of  *)
(* received blocks (adapters/p2p/process.rs).  Each works on what the node *)
(* had when it started and compares the tip again before it writes.        *)
(*                                                                         *)
(* Transactions are transfers that spend distinct genesis outputs, so each *)
(* is valid on every chain that has not mined it yet.                      *)
(***************************************************************************)
EXTENDS ForkChoice

CONSTANTS
    Nodes,      \* the peers
    Tx,         \* transactions users may submit
    Hashes,     \* block hashes still to be drawn, positive naturals
    Shapes,     \* the finalizer fields a produced block may have
    MaxHeight,  \* bound on chain height
    NoJob, NoWork

ASSUME ChainSyncAssumption ==
    /\ Hashes \subseteq Nat \ {0}
    /\ Shapes \subseteq [mode : {Ticket, Recovery}, rank : Nat, proof : Nat,
                         committee : Nat, signatures : Nat]
    /\ MaxHeight \in Nat
    /\ NoJob \notin [base : Nat, ledger : [chain : Seq(BlockOf(Tx)),
                        checkpoint : Checkpoints, pending : SUBSET Tx]]
    /\ NoWork \notin [prev : Nat, txs : SUBSET Tx]

VARIABLES
    ledger,  \* node -> its ledger: chain, checkpoint and pending transactions
    work,    \* node -> the block it prepared and is running the VDF for
    job,     \* node -> the batch validation that holds the validation permit
    wire     \* every chain whose last block some node announced.  Peers serve
             \* pieces of what they hold, which are pieces of these chains, any
             \* number of times and in any order; a message is lost when nobody
             \* receives it

vars == <<ledger, work, job, wire>>

Block == BlockOf(Tx)

LedgerSet ==
    [chain : Seq(Block), checkpoint : Checkpoints, pending : SUBSET Tx]

\* A produced block is the tip of the chain it was announced with.
UsedHashes == {TipHash(c) : c \in wire}

Init ==
    /\ ledger = [n \in Nodes |-> GenesisLedger]
    /\ work = [n \in Nodes |-> NoWork]
    /\ job = [n \in Nodes |-> NoJob]
    /\ wire = {<<>>}

-----------------------------------------------------------------------------
(* Block production.                                                       *)

\* prepare_automatic_finalization: fix the parent and the transactions, then
\* release the lock and run the VDF.
PrepareBlock(n) ==
    /\ work[n] = NoWork
    /\ Len(ledger[n].chain) < MaxHeight
    /\ \E txs \in SUBSET ledger[n].pending :
          work' = [work EXCEPT ![n] = [prev |-> TipHash(ledger[n].chain),
                                       txs  |-> txs]]
    /\ UNCHANGED <<ledger, job, wire>>

\* The checks of the burn-list section a validator makes of a block.
BurnSectionValid(shape, height) ==
    /\ shape.signatures < shape.committee \/ shape.signatures = 0
    /\ shape.signatures >= RequiredExplicitBurnSignatures(
                              height, shape.mode, shape.rank, shape.committee)

NewBlock(hash, shape, txs) ==
    [hash |-> hash, mode |-> shape.mode, rank |-> shape.rank,
     proof |-> shape.proof, committee |-> shape.committee,
     signatures |-> shape.signatures, txs |-> txs]

\* complete_prepared_block_at: the block is applied only to the tip it was
\* prepared on, and announced.
CompleteBlock(n) ==
    /\ work[n] # NoWork
    /\ work[n].prev = TipHash(ledger[n].chain)
    /\ \E hash \in Hashes \ UsedHashes, shape \in Shapes :
          /\ BurnSectionValid(shape, Len(ledger[n].chain) + 1)
          /\ LET block == NewBlock(hash, shape, work[n].txs)
                 next  == Apply(ledger[n], <<block>>)
             IN  /\ ledger' = [ledger EXCEPT ![n] = next]
                 /\ wire' = wire \cup {next.chain}
    /\ work' = [work EXCEPT ![n] = NoWork]
    /\ UNCHANGED job

\* The same call when the tip moved during the VDF: apply_block refuses the
\* block and the work is dropped.
CompleteStaleBlock(n) ==
    /\ work[n] # NoWork
    /\ work[n].prev # TipHash(ledger[n].chain)
    /\ work' = [work EXCEPT ![n] = NoWork]
    /\ UNCHANGED <<ledger, job, wire>>

-----------------------------------------------------------------------------
(* Gossip and import.                                                      *)

\* GossipEnvelope::Block: verified off the lock and applied under it, if the
\* tip is still the one it was checked against.
ReceiveBlock(n) ==
    /\ job[n] = NoJob
    /\ LET height == Len(ledger[n].chain) IN
       \E c \in wire :
          /\ Len(c) = height + 1
          /\ HashAt(c, height) = TipHash(ledger[n].chain)
          /\ ledger' = [ledger EXCEPT ![n] = Apply(ledger[n], <<c[height + 1]>>)]
    /\ UNCHANGED <<work, job, wire>>

\* A block at or below the tip: known ones are ignored, conflicting ones are
\* refused, and so is a block that skips a height or has another parent.
ReceiveOtherBlock(n) ==
    /\ {c \in wire \ {<<>>} :
          \/ Len(c) # Len(ledger[n].chain) + 1
          \/ HashAt(c, Len(c) - 1) # TipHash(ledger[n].chain)} # {}
    /\ UNCHANGED vars

\* validate_blocks_extension_with_fork_base on a clone of the local ledger:
\* blocks that extend the tip are applied, others go through fork choice.
ValidatedLedger(local, chain, ancestor) ==
    IF ancestor = Len(local.chain)
    THEN Apply(local, SubSeq(chain, ancestor + 1, Len(chain)))
    ELSE ExtendFromSnapshot(
            local,
            SubSeq(local.chain, 1, ancestor)
                \o SubSeq(chain, ancestor + 1, Len(chain)),
            ancestor)

\* GossipEnvelope::Blocks, up to the release of the lock: a batch whose known
\* blocks were dropped, whose parent this node holds, and which is not part
\* of its chain already.
ValidateChain(n, chain) ==
    /\ job[n] = NoJob
    /\ \E ancestor \in 0 .. Len(ledger[n].chain) :
          /\ IsForkPoint(ledger[n].chain, chain, ancestor)
          /\ ancestor < Len(chain)
          /\ job' = [job EXCEPT ![n] =
                       [base   |-> TipHash(ledger[n].chain),
                        ledger |-> ValidatedLedger(ledger[n], chain, ancestor)]]
    /\ UNCHANGED <<ledger, work, wire>>

\* wire is closed under prefixes, so a page of any length ends at one of its
\* chains.
StartValidation(n) == \E chain \in wire : ValidateChain(n, chain)

\* Mutant: only a higher chain is imported.
ImportHigherLedger(local, verified) ==
    IF Len(verified.chain) <= Len(local.chain) THEN local ELSE verified

\* import_verified_ledger replaces the node's ledger as a whole.
ImportVerifiedLedger(local, verified) ==
    IF \/ Len(verified.chain) < Len(local.chain)
       \/ /\ Len(verified.chain) = Len(local.chain)
          /\ TipHash(verified.chain) = TipHash(local.chain)
    THEN local
    ELSE verified

\* Mutant: the tip is not compared again after the validation.
FinishWithoutTipCheck(n) ==
    /\ job[n] # NoJob
    /\ ledger' = [ledger EXCEPT ![n] =
                     ImportVerifiedLedger(ledger[n], job[n].ledger)]
    /\ job' = [job EXCEPT ![n] = NoJob]
    /\ UNCHANGED <<work, wire>>

\* The second half of GossipEnvelope::Blocks.
FinishValidation(n) ==
    /\ job[n] # NoJob
    /\ ledger' = [ledger EXCEPT ![n] =
                     IF job[n].base = TipHash(ledger[n].chain)
                     THEN ImportVerifiedLedger(ledger[n], job[n].ledger)
                     ELSE ledger[n]]
    /\ job' = [job EXCEPT ![n] = NoJob]
    /\ UNCHANGED <<work, wire>>

\* submit_transaction, from a user or a peer.
SubmitTransaction(n) ==
    /\ \E t \in Tx \ (ledger[n].pending \cup MinedIn(ledger[n].chain, 1)) :
          ledger' = [ledger EXCEPT ![n].pending = @ \cup {t}]
    /\ UNCHANGED <<work, job, wire>>

-----------------------------------------------------------------------------
Next ==
    \E n \in Nodes :
        \/ PrepareBlock(n)
        \/ CompleteBlock(n)
        \/ CompleteStaleBlock(n)
        \/ ReceiveBlock(n)
        \/ ReceiveOtherBlock(n)
        \/ StartValidation(n)
        \/ FinishValidation(n)
        \/ SubmitTransaction(n)

Spec == Init /\ [][Next]_vars

(***************************************************************************)
(* Fairness.  Every peer's status poll and inventory are answered with the *)
(* chain it holds, the validation permit is a first-come semaphore, and a  *)
(* validation that started runs to its end.  Nothing is promised about     *)
(* block production.                                                       *)
(***************************************************************************)
SyncFairness ==
    \A n \in Nodes :
        /\ WF_vars(FinishValidation(n))
        /\ \A m \in Nodes : SF_vars(ValidateChain(n, ledger[m].chain))

FairSpec == Spec /\ SyncFairness

-----------------------------------------------------------------------------
(* Properties.                                                             *)

TypeOK ==
    /\ ledger \in [Nodes -> LedgerSet]
    /\ work \in [Nodes -> {NoWork} \cup [prev : Nat, txs : SUBSET Tx]]
    /\ job \in [Nodes -> {NoJob} \cup [base : Nat, ledger : LedgerSet]]
    /\ wire \subseteq Seq(Block)

\* The checkpoint a ledger keeps incrementally while it applies blocks and
\* switches chains is the one a node that replays the same chain after a
\* restart computes (apply_block against from_snapshot).
CheckpointIsReplayed ==
    \A n \in Nodes :
        ledger[n].checkpoint = FromSnapshot(ledger[n].chain).checkpoint

\* A checkpoint names a block of the node's own chain, at or above the
\* activation height and strictly below the tip that certified it.
CheckpointOnOwnChain ==
    \A n \in Nodes :
        LET c == ledger[n].checkpoint IN
        c # NoCheckpoint =>
            /\ c.height \in ActivationHeight .. Len(ledger[n].chain) - 1
            /\ c.hash = HashAt(ledger[n].chain, c.height)

\* The heights of a chain that no import may change any more.
BuriedHeight(chain) ==
    IF Len(chain) >= ActivationHeight
    THEN ActivationHeight - 1
    ELSE SaturatingSub(Len(chain), FinalityDepth)

KeepsBuried(old, new) ==
    \A h \in 1 .. BuriedHeight(old) : h <= Len(new) /\ new[h] = old[h]

\* Once a node has reached the activation height the history below it never
\* changes again, and before that no step rewrites blocks buried deeper than
\* the finality depth (choose_fork against fork_rewrites_finalized_history).
BuriedHistoryFrozen ==
    [][\A n \in Nodes : KeepsBuried(ledger[n].chain, ledger'[n].chain)]_vars

\* Of two nodes that compare their chains at most one wants to switch, so two
\* peers never swap chains with each other.
NeverBothSwitch ==
    \A m, n \in Nodes : \A a \in 0 .. MaxHeight :
        IsForkPoint(ledger[m].chain, ledger[n].chain, a) =>
            ~(/\ SwitchToCandidate(ledger[m], ledger[n], a)
              /\ SwitchToCandidate(ledger[n], ledger[m], a))

\* The rank of a chain as every node sees it: checkpoint, height, and the
\* leader scores compared from the first height on.
ChainBetter(new, old) ==
    \/ CheckpointBetter(new.checkpoint, old.checkpoint)
    \/ /\ new.checkpoint = old.checkpoint
       /\ \/ Len(new.chain) > Len(old.chain)
          \/ /\ Len(new.chain) = Len(old.chain)
             /\ ForkQualityBetter(new.chain, old.chain, 0)

\* Whatever a node does to its chain, by applying its own block, a gossiped
\* one, or a batch validated while the lock was free, it ends up on a chain
\* that ranks strictly higher: nodes cannot oscillate between forks, and a
\* late validation result cannot undo a newer tip.
ChainOnlyImproves ==
    [][\A n \in Nodes :
          \/ ledger'[n].chain = ledger[n].chain
          \/ ChainBetter(ledger'[n], ledger[n])]_vars

\* A transaction is in at most one block of a chain and never both mined and
\* pending, whatever batches and switches the node went through.
NoTransactionTwice ==
    \A n \in Nodes :
        LET c == ledger[n].chain IN
        /\ ledger[n].pending \cap MinedIn(c, 1) = {}
        /\ \A g, h \in DOMAIN c : g # h => c[g].txs \cap c[h].txs = {}

\* Two nodes that neither of which would switch to the other's chain.
Settled(m, n) ==
    \A a \in 0 .. Len(ledger[m].chain) :
        IsForkPoint(ledger[m].chain, ledger[n].chain, a) =>
            ~SwitchToCandidate(ledger[m], ledger[n], a)

\* When every block is a quorum block, partitions that grew apart by any
\* number of blocks settle once production pauses: nobody is left preferring
\* a peer's chain it does not take over.
PartitionsSettle == <>[](\A m, n \in Nodes : Settled(m, n))

-----------------------------------------------------------------------------
(* The inductive invariant behind the theorems of ChainSyncProofs.         *)

\* The pieces of an announced chain were announced before it.
WireClosed ==
    /\ <<>> \in wire
    /\ \A c \in wire : \A h \in 0 .. Len(c) : SubSeq(c, 1, h) \in wire

\* A block hash stands for the whole history below it.
HashesIdentify == \A c, d \in wire : TipHash(c) = TipHash(d) => c = d

\* A ledger on an announced chain, with the checkpoint of a replay.
Replayed(l) ==
    /\ l.chain \in wire
    /\ l.checkpoint = FromSnapshot(l.chain).checkpoint

\* What a validation in flight knows of the chain it started from: its result
\* is that chain or a better one that keeps the buried blocks.
JobImproves(n) ==
    job[n] # NoJob =>
        /\ Replayed(job[n].ledger)
        /\ \E c \in wire :
              /\ TipHash(c) = job[n].base
              /\ \/ job[n].ledger.chain = c
                 \/ ChainBetter(job[n].ledger, FromSnapshot(c))
              /\ KeepsBuried(c, job[n].ledger.chain)

SyncInv ==
    /\ TypeOK
    /\ WireClosed
    /\ HashesIdentify
    /\ \A n \in Nodes : Replayed(ledger[n])
    /\ \A n \in Nodes : JobImproves(n)

\* What a ledger, a validation in flight and a block in preparation know of the
\* transactions: those waiting are not in the chain they wait on.
Separate(l) == l.pending \cap MinedIn(l.chain, 1) = {}

WorkSeparate(n) ==
    work[n] # NoWork =>
        \E c \in wire : /\ TipHash(c) = work[n].prev
                       /\ work[n].txs \cap MinedIn(c, 1) = {}

MinedOnce(c) == \A g, h \in DOMAIN c : g # h => c[g].txs \cap c[h].txs = {}

TransactionInv ==
    /\ \A c \in wire : MinedOnce(c)
    /\ \A n \in Nodes : Separate(ledger[n])
    /\ \A n \in Nodes : job[n] # NoJob => Separate(job[n].ledger)
    /\ \A n \in Nodes : WorkSeparate(n)
=============================================================================
