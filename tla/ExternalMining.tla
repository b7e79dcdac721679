--------------------------- MODULE ExternalMining ---------------------------
(***************************************************************************)
(* The three producers of mine actions around one node: the Stratum server *)
(* (adapters/stratum.rs), the automatic miner loop (run_automatic_pow_miner *)
(* with automatic_mining/pow.rs) and blocks that arrive from elsewhere.    *)
(* The node lock makes each of the node calls one step; the search itself, *)
(* the socket and the permits live outside the lock.                       *)
(*                                                                         *)
(* A proof of work is abstracted to the constant Winning: the nonces that  *)
(* meet the difficulty, the same for every header.  A mine action is       *)
(* identified by what its hash commits to: recipient, anchor, salt, nonce. *)
(***************************************************************************)
EXTENDS Integers, Sequences, FiniteSets

CONSTANTS
    Clients,            \* sockets that may connect to the Stratum listener
    SourceOf,           \* client -> stratum_source_key of its address
    Workers,            \* reward addresses, the wallets' ones included
    Wallets,            \* wallets the node may be given
    Winning,            \* nonces whose hash meets the difficulty
    NonceLimit,         \* nonces are 0 .. NonceLimit - 1, then wrap
    SearchAttempts,     \* AUTO_POW_NONCE_ATTEMPTS_PER_WORKER_TICK * workers
    AnchorLimit,        \* MINE_ACTIONS_PER_ANCHOR_LIMIT
    AnchorAge,          \* MINE_MAX_ANCHOR_AGE_BLOCKS
    SessionLimit,       \* STRATUM_MAX_SESSIONS
    SourceLimit,        \* STRATUM_MAX_SESSIONS_PER_SOURCE
    JobLimit,           \* STRATUM_MAX_JOBS_PER_SESSION
    MaxTips,            \* bound on the blocks ever made
    MaxSalt             \* bound on the jobs ever sent

\* An address is not a number: the salts of the automatic miner, which stand for themselves,
\* are no Stratum salts.
ASSUME ExternalMiningAssumption ==
    /\ NonceLimit \in Nat \ {0} /\ SearchAttempts \in Nat \ {0} /\ JobLimit \in Nat
    /\ Wallets \subseteq Workers /\ \A w \in Workers : w \notin Int

VARIABLES
    tips,       \* the node's chain: [hash, mines] per block, genesis first
    blocksMade, \* number of block hashes used so far
    pendingMines,
    sessions,   \* client -> StratumSession, or NoSession
    permits,    \* free global permits of the StratumSessionLimiter
    bySource,   \* active_by_source
    nextSalt,   \* next_job_salt, shared by all sessions
    powMiner,   \* the node's pow_mining_enabled, wallet and cursor
    search,     \* the job the blocking search task works on, or NoJob
    tried       \* history: the [recipient, anchor, nonce] the automatic miner searched

miningVars == <<tips, blocksMade, pendingMines, sessions, permits, bySource, nextSalt,
                powMiner, search, tried>>

NoSession == [worker |-> "closed", jobs |-> <<>>]
Nobody == "nobody"
NoCursor == [anchor |-> -1, next |-> 0]
NoJob == [recipient |-> Nobody, anchor |-> -1, start |-> 0]

MiningTip == tips[Len(tips)].hash
Sources == {SourceOf[c] : c \in Clients}

-----------------------------------------------------------------------------
(* What the node does with a mine action.                                  *)

MeetsDifficulty(nonce) == nonce \in Winning

MinedOn(anchor) ==
    Cardinality({t \in UNION {tips[i].mines : i \in DOMAIN tips} : t.anchor = anchor})

PendingMineCount(anchor) == Cardinality({t \in pendingMines : t.anchor = anchor})

\* validate_transaction_terms and validate_mine_anchor_available of a mine action: the
\* anchor is on the chain and recent, and has a free place.
MineIsValid(t) ==
    /\ MeetsDifficulty(t.nonce)
    /\ \E i \in DOMAIN tips :
        /\ tips[i].hash = t.anchor
        /\ Len(tips) - i <= AnchorAge
    /\ MinedOn(t.anchor) + PendingMineCount(t.anchor) < AnchorLimit

MineIsKnown(t) == t \in pendingMines \cup UNION {tips[i].mines : i \in DOMAIN tips}

\* submit_public_mine_action: a known action is no error and adds nothing.
SubmitPublicMineAction(t) ==
    /\ MineIsKnown(t) \/ MineIsValid(t)
    /\ pendingMines' = pendingMines \cup (IF MineIsKnown(t) THEN {} ELSE {t})

-----------------------------------------------------------------------------
(* The chain moves: a block with some of the pending actions, or one made  *)
(* elsewhere with an action of another node; or the last block is replaced.*)

\* Mine actions whose anchor left the chain or grew too old are dropped from the pool.
StillValid(chain, pool) ==
    {t \in pool : \E i \in DOMAIN chain :
        chain[i].hash = t.anchor /\ Len(chain) - i <= AnchorAge}

ChainMoves(chain) ==
    /\ tips' = chain
    /\ pendingMines' = StillValid(chain,
        pendingMines \ UNION {chain[i].mines : i \in DOMAIN chain})
    /\ blocksMade' = blocksMade + 1
    /\ UNCHANGED <<sessions, permits, bySource, nextSalt, powMiner, search, tried>>

BlockArrives ==
    /\ blocksMade < MaxTips
    /\ \E mines \in SUBSET pendingMines :
        ChainMoves(Append(tips, [hash |-> blocksMade + 1, mines |-> mines]))

TipReplaced ==
    /\ blocksMade < MaxTips /\ Len(tips) > 1
    /\ ChainMoves([tips EXCEPT ![Len(tips)] = [hash |-> blocksMade + 1, mines |-> {}]])

-----------------------------------------------------------------------------
(* Stratum sessions.                                                       *)

\* try_acquire: the global permit is taken first and given back when the source is full.
Accepted(c) == permits > 0 /\ bySource[SourceOf[c]] < SourceLimit

Connect(c) ==
    /\ sessions[c] = NoSession /\ Accepted(c)
    /\ sessions' = [sessions EXCEPT ![c] = [worker |-> Nobody, jobs |-> <<>>]]
    /\ permits' = permits - 1
    /\ bySource' = [bySource EXCEPT ![SourceOf[c]] = @ + 1]
    /\ UNCHANGED <<tips, blocksMade, pendingMines, nextSalt, powMiner, search, tried>>

\* The session ends at end of file, an idle or write timeout, an oversized line or a
\* malformed request: its jobs go, and dropping the permit frees both counts.
Ends(c) ==
    /\ sessions' = [sessions EXCEPT ![c] = NoSession]
    /\ permits' = permits + 1
    /\ bySource' = [bySource EXCEPT ![SourceOf[c]] = @ - 1]

SessionEnds(c) ==
    /\ sessions[c] # NoSession
    /\ Ends(c)
    /\ UNCHANGED <<tips, blocksMade, pendingMines, nextSalt, powMiner, search, tried>>

\* next_job_salt.fetch_add: one counter for every session.
JobSalt(c) == nextSalt

\* insert_bounded_job: the oldest job goes when the cache is full.  A job's identifier
\* is its number in the session; a forgotten job is NoJob.
InsertBoundedJob(jobs, job) ==
    LET all == Append(jobs, job)
    IN  [i \in DOMAIN all |-> IF i <= Len(all) - JobLimit THEN NoJob ELSE all[i]]

\* send_job: a template on the current tip for the worker's reward address.
SendJob(c, w, chain) ==
    /\ nextSalt < MaxSalt
    /\ nextSalt' = nextSalt + 1
    /\ sessions' = [sessions EXCEPT ![c] =
        [worker |-> w,
         jobs |-> InsertBoundedJob(@.jobs,
            [recipient |-> w, anchor |-> chain[Len(chain)].hash, start |-> JobSalt(c)])]]

\* mining.authorize: a session may authorize again, with another worker; the jobs it holds
\* stay.
Authorize(c, w) ==
    /\ sessions[c] # NoSession
    /\ SendJob(c, w, tips)
    /\ UNCHANGED <<tips, blocksMade, pendingMines, permits, bySource, powMiner, search, tried>>

Share(job, nonce) ==
    [recipient |-> job.recipient, anchor |-> job.anchor, salt |-> job.start, nonce |-> nonce]

\* A bug: the share is credited to whatever address its template names.
SubmitExternalMineUnchecked(worker, job, nonce) == SubmitPublicMineAction(Share(job, nonce))

\* submit_external_mine: build_stratum_mine validates the share against the node's tip,
\* then the template's recipient must be the worker's.
SubmitExternalMine(worker, job, nonce) ==
    /\ MineIsValid(Share(job, nonce))
    /\ job.recipient = worker
    /\ SubmitPublicMineAction(Share(job, nonce))

\* mining.submit of an authorized worker for a job the session still holds: an accepted
\* share is answered with a new job; a refused one changes nothing.
SubmitShare(c, id, nonce) ==
    LET s == sessions[c] IN
    /\ s # NoSession /\ s.worker # Nobody
    /\ id \in DOMAIN s.jobs /\ s.jobs[id] # NoJob
    /\ SubmitExternalMine(s.worker, s.jobs[id], nonce)
    /\ SendJob(c, s.worker, tips)
    /\ UNCHANGED <<tips, blocksMade, permits, bySource, powMiner, search, tried>>

-----------------------------------------------------------------------------
(* The automatic miner.                                                    *)

\* A bug: the cursor is kept when the tip changes while no search is running.
NeedsCursorOnlyOnce(anchor) == powMiner.cursor = NoCursor

NeedsCursor(anchor) == powMiner.cursor = NoCursor \/ powMiner.cursor.anchor # anchor

\* prepare_automatic_pow_mine: disabled or with the anchor's places taken, the cursor is
\* dropped; otherwise the search continues where the cursor of this tip stands.
PrepareSearch ==
    /\ search = NoJob
    /\ \/ /\ ~powMiner.on \/ PendingMineCount(MiningTip) >= AnchorLimit
          /\ powMiner' = [powMiner EXCEPT !.cursor = NoCursor]
          /\ UNCHANGED search
       \/ /\ powMiner.on /\ PendingMineCount(MiningTip) < AnchorLimit
          /\ \E cursor \in {IF NeedsCursor(MiningTip) THEN [anchor |-> MiningTip, next |-> 0]
                            ELSE powMiner.cursor} :
                /\ powMiner' = [powMiner EXCEPT !.cursor = cursor]
                /\ search' = [recipient |-> powMiner.wallet, anchor |-> MiningTip,
                              start |-> cursor.next]
    /\ UNCHANGED <<tips, blocksMade, pendingMines, sessions, permits, bySource, nextSalt, tried>>

\* MineSearchWork::search: nonces from the start up to the first that wins, wrapping.
Nonce(job, i) == (job.start + i) % NonceLimit
Attempts(job) ==
    LET wins == {i \in 0 .. SearchAttempts - 1 : MeetsDifficulty(Nonce(job, i))}
    IN  IF wins = {} THEN SearchAttempts ELSE 1 + CHOOSE i \in wins : \A j \in wins : i <= j

\* The salt of an automatic action is a function of the wallet and the anchor.
AutoMine(job, nonce) ==
    [recipient |-> job.recipient, anchor |-> job.anchor, salt |-> job.recipient, nonce |-> nonce]

\* finish_automatic_pow_mining_job.  The search ran without the node lock: mining may have
\* been disabled, the tip may have changed, the wallet may be another one.
FinishSearch ==
    LET job == search
        last == Nonce(job, Attempts(job) - 1)
        tx == AutoMine(job, last)
        advanced == IF powMiner.cursor.anchor = MiningTip
                    THEN [powMiner EXCEPT !.cursor.next = (last + 1) % NonceLimit]
                    ELSE powMiner
    IN
    /\ search # NoJob
    /\ search' = NoJob
    /\ tried' = tried \cup {[recipient |-> job.recipient, anchor |-> job.anchor,
                             nonce |-> Nonce(job, i)] : i \in 0 .. Attempts(job) - 1}
    /\ \/ /\ ~powMiner.on
          /\ UNCHANGED <<powMiner, pendingMines>>
       \/ /\ powMiner.on /\ job.anchor # MiningTip
          /\ powMiner' = [powMiner EXCEPT !.cursor = NoCursor]
          /\ UNCHANGED pendingMines
       \/ /\ powMiner.on /\ job.anchor = MiningTip
          /\ MeetsDifficulty(last) /\ PendingMineCount(MiningTip) >= AnchorLimit
          /\ powMiner' = [powMiner EXCEPT !.cursor = NoCursor]
          /\ UNCHANGED pendingMines
       \/ /\ powMiner.on /\ job.anchor = MiningTip
          /\ ~MeetsDifficulty(last) \/ PendingMineCount(MiningTip) < AnchorLimit
          /\ powMiner' = advanced
          /\ \/ MeetsDifficulty(last) /\ SubmitPublicMineAction(tx)
             \/ /\ MeetsDifficulty(last) => ~(MineIsKnown(tx) \/ MineIsValid(tx))
                /\ UNCHANGED pendingMines
    /\ UNCHANGED <<tips, blocksMade, sessions, permits, bySource, nextSalt>>

\* No good peer when the search ends: the loop forgets the result.
SearchForgotten ==
    /\ search # NoJob
    /\ search' = NoJob
    /\ UNCHANGED <<tips, blocksMade, pendingMines, sessions, permits, bySource, nextSalt, powMiner, tried>>

\* set_pow_mining_enabled, set_pow_mining_workers: each drops the cursor.
SetPowMining(on) ==
    /\ powMiner' = [powMiner EXCEPT !.on = on, !.cursor = NoCursor]
    /\ UNCHANGED <<tips, blocksMade, pendingMines, sessions, permits, bySource, nextSalt, search, tried>>

\* replace_wallet resets the automatic mining progress, the cursor included.
ReplaceWallet(w) ==
    /\ powMiner' = [powMiner EXCEPT !.wallet = w, !.cursor = NoCursor]
    /\ UNCHANGED <<tips, blocksMade, pendingMines, sessions, permits, bySource, nextSalt, search, tried>>

-----------------------------------------------------------------------------
MiningInit ==
    /\ tips = <<[hash |-> 1, mines |-> {}]>> /\ blocksMade = 1
    /\ pendingMines = {}
    /\ sessions = [c \in Clients |-> NoSession]
    /\ permits = SessionLimit
    /\ bySource = [s \in Sources |-> 0]
    /\ nextSalt = 1
    /\ powMiner \in {[on |-> FALSE, wallet |-> w, cursor |-> NoCursor] : w \in Wallets}
    /\ search = NoJob
    /\ tried = {}

MiningNext ==
    \/ BlockArrives
    \/ TipReplaced
    \/ \E c \in Clients : Connect(c) \/ SessionEnds(c)
    \/ \E c \in Clients, w \in Workers : Authorize(c, w)
    \/ \E c \in Clients, n \in 0 .. NonceLimit - 1 :
        \E id \in DOMAIN sessions[c].jobs : SubmitShare(c, id, n)
    \/ PrepareSearch
    \/ FinishSearch
    \/ SearchForgotten
    \/ \E on \in BOOLEAN : SetPowMining(on)
    \/ \E w \in Wallets : ReplaceWallet(w)

MiningSpec == MiningInit /\ [][MiningNext]_miningVars

-----------------------------------------------------------------------------
(* Properties.                                                             *)

MineAction ==
    [recipient : Workers, anchor : Nat, salt : Nat \cup Wallets, nonce : 0 .. NonceLimit - 1]

\* The two ends of a Stratum job: the salt of its template and the tip it was made for.
Job == [recipient : Workers, anchor : Nat, start : Nat \ {0}]

\* Every variable the properties below depend on is what the code holds there.
MiningTypeInv ==
    /\ tips \in Seq([hash : Nat, mines : SUBSET MineAction]) /\ tips # <<>>
    /\ blocksMade \in Nat /\ pendingMines \in SUBSET MineAction
    /\ sessions \in [Clients -> [worker : Workers \cup {Nobody, "closed"},
                                 jobs : Seq(Job \cup {NoJob})]]
    /\ nextSalt \in Nat \ {0}
    /\ powMiner \in [on : BOOLEAN, wallet : Wallets,
                     cursor : [anchor : Nat \cup {-1}, next : 0 .. NonceLimit - 1]]
    /\ search \in [recipient : Wallets, anchor : Nat, start : 0 .. NonceLimit - 1] \cup {NoJob}

\* No nonce of a tip is skipped: whatever a search starts past has been searched before for
\* this address and tip, however tips, settings and wallets change around the searches
\* (prepare_automatic_pow_mine, finish_automatic_pow_mining_job).
SearchIsContiguous ==
    \A n \in 0 .. search.start - 1 :
        [recipient |-> search.recipient, anchor |-> search.anchor, nonce |-> n] \in tried

\* No two jobs that miners hold, in one session or in two, describe the same work: a share
\* found for one is never a duplicate of a share found for another.
TemplatesDistinct ==
    \A c, d \in Clients : \A i \in DOMAIN sessions[c].jobs, j \in DOMAIN sessions[d].jobs :
        (sessions[c].jobs[i] = sessions[d].jobs[j] /\ sessions[c].jobs[i] # NoJob)
            => (c = d /\ i = j)

\* No nonce is skipped by the automatic miner and no two Stratum jobs are the same work.
WorkIsNotRepeated == SearchIsContiguous /\ TemplatesDistinct

SearchedUpTo(recipient, anchor, end) ==
    \A n \in 0 .. end - 1 : [recipient |-> recipient, anchor |-> anchor, nonce |-> n] \in tried

\* What SearchIsContiguous rests on: all below the cursor was searched for the present
\* wallet, and a running search starts where the cursor stands, unless the cursor was
\* dropped meanwhile.
SearchInv ==
    /\ SearchedUpTo(powMiner.wallet, powMiner.cursor.anchor, powMiner.cursor.next)
    /\ SearchedUpTo(search.recipient, search.anchor, search.start)
    /\ (search # NoJob /\ powMiner.cursor.anchor # -1) =>
        /\ search.recipient = powMiner.wallet
        /\ search.anchor = powMiner.cursor.anchor /\ search.start = powMiner.cursor.next

\* What TemplatesDistinct rests on: a salt that was used is never handed out again.
SaltInv ==
    \A c \in Clients : \A i \in DOMAIN sessions[c].jobs :
        /\ sessions[c].jobs[i].start < nextSalt
        /\ \A d \in Clients : \A j \in DOMAIN sessions[d].jobs :
            (sessions[c].jobs[i] # NoJob /\ sessions[d].jobs[j] # NoJob
             /\ sessions[d].jobs[j].start = sessions[c].jobs[i].start) => (c = d /\ i = j)

MiningInv == SearchInv /\ SaltInv

\* A share pays the worker its session is authorized for when it is accepted, also when the
\* session changed its worker after it took the job.
SharePaysItsWorker ==
    [][\A t \in pendingMines' \ pendingMines :
        t.salt \in Nat => \E c \in Clients : sessions'[c].worker = t.recipient
                                             /\ sessions[c].worker = t.recipient]_miningVars
=============================================================================
