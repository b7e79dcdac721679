------------------------ MODULE WalletMiningProofs --------------------------
(***************************************************************************)
(* Proofs about the two components around one node that MCTransactions     *)
(* runs beside its pool: ExternalMining, for any clients, wallets, nonce   *)
(* range, search length and set of winning nonces, and WalletAddresses,    *)
(* for any gap limit and any number of transactions and restarts, as long  *)
(* as the addresses in use stay below MaxDiscovered.                       *)
(***************************************************************************)
EXTENDS ExternalMining, WalletAddresses, SequenceTheorems, WellFoundedInduction, TLAPS

-----------------------------------------------------------------------------
(* The nonces of one search.                                               *)

\* A nonempty set of numbers has a lowest element.
LEMMA LowestElement ==
    ASSUME NEW S, S \subseteq Nat, S # {}
    PROVE  \E m \in S : \A k \in S : m <= k
  <1> DEFINE R == {ss \in Nat \X Nat : ss[1] < ss[2]}
  <1>1. IsWellFoundedOn(R, Nat)
    BY NatLessThanWellFounded DEF OpToRel
  <1>2. PICK m \in S : \A k \in S : ~(<<k, m>> \in R)
    <2> HIDE DEF R
    <2> QED
      BY <1>1, WFMin
  <1>3. \A k \in S : ~(k < m)
    BY <1>2
  <1> QED
    BY <1>3

\* A search tries between one and SearchAttempts nonces.
LEMMA AttemptsType ==
    ASSUME NEW job
    PROVE  Attempts(job) \in 1 .. SearchAttempts
  <1> DEFINE wins == {i \in 0 .. SearchAttempts - 1 : MeetsDifficulty(Nonce(job, i))}
             first == CHOOSE i \in wins : \A j \in wins : i <= j
  <1>1. SearchAttempts \in Nat \ {0}
    BY ExternalMiningAssumption
  <1>2. CASE wins = {}
    <2>1. Attempts(job) = SearchAttempts
      BY <1>2 DEF Attempts
    <2> QED
      BY <1>1, <2>1
  <1>3. CASE wins # {}
    <2>1. wins \subseteq 0 .. SearchAttempts - 1
      OBVIOUS
    <2>2. Attempts(job) = 1 + first
      BY <1>3 DEF Attempts
    <2> HIDE DEF wins
    <2>3. wins \subseteq Nat
      BY <1>1, <2>1
    <2>4. \E m \in wins : \A k \in wins : m <= k
      BY <1>3, <2>3, LowestElement
    <2>5. first \in wins
      BY <2>4
    <2> HIDE DEF first
    <2> QED
      BY <1>1, <2>1, <2>2, <2>5
  <1> QED
    BY <1>2, <1>3

\* Searched nonces stay in range.
LEMMA NonceType ==
    ASSUME NEW job, job.start \in Nat, NEW i \in Nat
    PROVE  Nonce(job, i) \in 0 .. NonceLimit - 1
  <1>1. NonceLimit \in Nat \ {0}
    BY ExternalMiningAssumption
  <1> QED
    BY <1>1 DEF Nonce

\* Counting modulo L: a number of the present round, reached from x, is its own remainder.
LEMMA SameRound ==
    ASSUME NEW L \in Nat \ {0}, NEW x \in Nat, NEW n \in 0 .. x % L
    PROVE  (x - (x % L) + n) % L = n
  <1>1. x % L \in 0 .. L - 1
    OBVIOUS
  <1>2. x = (L * (x \div L)) + (x % L)
    OBVIOUS
  <1>3. x \div L \in Nat
    OBVIOUS
  <1> DEFINE q == x \div L
  <1>4. x - (x % L) + n = (L * q) + n
    BY <1>1, <1>2, <1>3
  <1>5. n \in 0 .. L - 1
    BY <1>1
  <1> HIDE DEF q
  <1>6. q \in Nat
    BY <1>3 DEF q
  <1>7. ((L * q) + n) % L = n
    BY <1>5, <1>6
  <1> QED
    BY <1>4, <1>7

\* What lies up to the last nonce of a search that wrapped or not: below its start, or tried.
LEMMA NoncesCovered ==
    ASSUME NEW job, job.start \in 0 .. NonceLimit - 1, NEW k \in Nat,
           NEW n \in 0 .. Nonce(job, k)
    PROVE  n < job.start \/ \E i \in 0 .. k : Nonce(job, i) = n
  <1> DEFINE L == NonceLimit
             s == job.start
             x == s + k
             m == x % L
  <1>1. L \in Nat \ {0} /\ s \in Nat /\ s < L
    BY ExternalMiningAssumption
  <1>2. x \in Nat /\ m \in 0 .. L - 1 /\ n \in 0 .. m
    BY <1>1 DEF Nonce
  <1>3. CASE n < s
    BY <1>3
  <1>4. CASE s <= n
    <2> DEFINE i == k - (m - n)
    <2>1. (x - m + n) % L = n
      BY <1>1, <1>2, SameRound
    <2>2. s + i = x - m + n
      BY <1>1, <1>2
    <2>3. m <= x
      BY <1>1, <1>2
    <2>4. i \in 0 .. k
      <3>1. m - n <= k
        BY <1>1, <1>2, <1>4, <2>3
      <3> QED
        BY <1>1, <1>2, <3>1
    <2>5. Nonce(job, i) = n
      BY <2>1, <2>2 DEF Nonce
    <2> QED
      BY <2>4, <2>5
  <1> QED
    BY <1>1, <1>2, <1>3, <1>4

-----------------------------------------------------------------------------
(* Types.                                                                  *)

\* The fields of a block and the hash of the tip.
LEMMA TipType ==
    ASSUME MiningTypeInv
    PROVE  /\ MiningTip \in Nat
           /\ Len(tips) \in Nat \ {0}
           /\ \A i \in DOMAIN tips : tips[i].mines \in SUBSET MineAction
  <1>1. tips \in Seq([hash : Nat, mines : SUBSET MineAction]) /\ tips # <<>>
    BY DEF MiningTypeInv
  <1>2. Len(tips) \in Nat \ {0} /\ DOMAIN tips = 1 .. Len(tips)
    BY <1>1, EmptySeq, LenProperties
  <1>3. \A i \in 1 .. Len(tips) : tips[i] \in [hash : Nat, mines : SUBSET MineAction]
    BY <1>1, ElementOfSeq
  <1>4. tips[Len(tips)].hash \in Nat
    BY <1>2, <1>3
  <1> QED
    BY <1>2, <1>3, <1>4 DEF MiningTip

\* The initial state is typed.
LEMMA MiningInitType == MiningInit => MiningTypeInv
  <1> SUFFICES ASSUME MiningInit
               PROVE  MiningTypeInv
    OBVIOUS
  <1>1. NonceLimit \in Nat \ {0}
    BY ExternalMiningAssumption
  <1>2. [hash |-> 1, mines |-> {}] \in [hash : Nat, mines : SUBSET MineAction]
    OBVIOUS
  <1>3. tips \in Seq([hash : Nat, mines : SUBSET MineAction]) /\ tips # <<>>
    BY <1>2 DEF MiningInit
  <1>4. <<>> \in Seq(Job \cup {NoJob})
    BY EmptySeq
  <1>5. sessions \in [Clients -> [worker : Workers \cup {Nobody, "closed"},
                                  jobs : Seq(Job \cup {NoJob})]]
    BY <1>4 DEF MiningInit, NoSession
  <1>6. powMiner \in [on : BOOLEAN, wallet : Wallets,
                      cursor : [anchor : Nat \cup {-1}, next : 0 .. NonceLimit - 1]]
    <2>1. PICK w \in Wallets : powMiner = [on |-> FALSE, wallet |-> w, cursor |-> NoCursor]
      BY DEF MiningInit
    <2>2. NoCursor \in [anchor : Nat \cup {-1}, next : 0 .. NonceLimit - 1]
      BY <1>1 DEF NoCursor
    <2> QED
      BY <2>1, <2>2
  <1> QED
    BY <1>3, <1>5, <1>6 DEF MiningInit, MiningTypeInv

\* A chain that takes the place of the old one, and what stays pending.
LEMMA ChainMovesType ==
    ASSUME MiningTypeInv, NEW chain \in Seq([hash : Nat, mines : SUBSET MineAction]),
           chain # <<>>, ChainMoves(chain)
    PROVE  MiningTypeInv'
  <1>1. pendingMines' \in SUBSET MineAction
    BY DEF ChainMoves, StillValid, MiningTypeInv
  <1> QED
    BY <1>1 DEF ChainMoves, MiningTypeInv, MineAction

\* A block arrives or replaces the last one.
LEMMA BlockStepsType ==
    ASSUME MiningTypeInv, BlockArrives \/ TipReplaced
    PROVE  MiningTypeInv'
  <1> DEFINE B == [hash : Nat, mines : SUBSET MineAction]
  <1>1. tips \in Seq(B) /\ tips # <<>> /\ blocksMade + 1 \in Nat
    BY DEF MiningTypeInv
  <1>2. CASE BlockArrives
    <2>1. PICK mines \in SUBSET pendingMines :
            ChainMoves(Append(tips, [hash |-> blocksMade + 1, mines |-> mines]))
      BY <1>2 DEF BlockArrives
    <2> DEFINE b == [hash |-> blocksMade + 1, mines |-> mines]
    <2>2. b \in B
      BY <1>1 DEF MiningTypeInv
    <2> HIDE DEF b, B
    <2>3. Append(tips, b) \in Seq(B) /\ Append(tips, b) # <<>>
      BY <1>1, <2>2, AppendProperties, EmptySeq
    <2> QED
      BY <2>1, <2>3, ChainMovesType DEF b, B
  <1>3. CASE TipReplaced
    <2> DEFINE b == [hash |-> blocksMade + 1, mines |-> {}]
    <2>1. b \in B
      BY <1>1
    <2>2. ChainMoves([tips EXCEPT ![Len(tips)] = b])
      BY <1>3 DEF TipReplaced
    <2> HIDE DEF b, B
    <2>3. [tips EXCEPT ![Len(tips)] = b] \in Seq(B) /\ Len(tips) \in Nat \ {0}
      BY <1>1, <2>1, ExceptSeq, EmptySeq, LenProperties
    <2>4. [tips EXCEPT ![Len(tips)] = b] # <<>>
      <3>1. Len([tips EXCEPT ![Len(tips)] = b]) = Len(tips)
        BY <1>1, <2>1, <2>3, ExceptSeq
      <3> QED
        BY <2>3, <3>1, EmptySeq
    <2> QED
      BY <2>2, <2>3, <2>4, ChainMovesType DEF B
  <1> QED
    BY <1>2, <1>3 DEF BlockArrives, TipReplaced

\* A public mine action joins the pool if it is one.
LEMMA SubmitType ==
    ASSUME MiningTypeInv, NEW t \in MineAction, SubmitPublicMineAction(t)
    PROVE  pendingMines' \in SUBSET MineAction
  BY DEF SubmitPublicMineAction, MiningTypeInv

\* A bounded job list: as long as it was with the new job, each old job kept or forgotten.
LEMMA InsertedJobs ==
    ASSUME NEW jobs \in Seq(Job \cup {NoJob}), NEW job \in Job
    PROVE  /\ InsertBoundedJob(jobs, job) \in Seq(Job \cup {NoJob})
           /\ DOMAIN InsertBoundedJob(jobs, job) = 1 .. Len(jobs) + 1
           /\ Len(jobs) \in Nat /\ DOMAIN jobs = 1 .. Len(jobs)
           /\ \A i \in 1 .. Len(jobs) : InsertBoundedJob(jobs, job)[i] \in {jobs[i], NoJob}
           /\ InsertBoundedJob(jobs, job)[Len(jobs) + 1] \in {job, NoJob}
  <1> DEFINE all == Append(jobs, job)
             T == Job \cup {NoJob}
             new == [i \in DOMAIN all |-> IF i <= Len(all) - JobLimit THEN NoJob ELSE all[i]]
  <1>1. job \in T /\ NoJob \in T
    OBVIOUS
  <1> HIDE DEF T
  <1>2. /\ all \in Seq(T) /\ Len(all) = Len(jobs) + 1
        /\ \A i \in 1 .. Len(jobs) : all[i] = jobs[i]
        /\ all[Len(jobs) + 1] = job
    BY <1>1, AppendProperties DEF T
  <1>3. Len(jobs) \in Nat /\ DOMAIN jobs = 1 .. Len(jobs) /\ DOMAIN all = 1 .. Len(jobs) + 1
    BY <1>2, LenProperties
  <1>4. \A i \in 1 .. Len(jobs) + 1 : all[i] \in T
    BY <1>2, <1>3, ElementOfSeq
  <1>5. InsertBoundedJob(jobs, job) = new
    BY DEF InsertBoundedJob
  <1> HIDE DEF all
  <1>6. DOMAIN new = 1 .. Len(jobs) + 1 /\ \A i \in 1 .. Len(jobs) + 1 : new[i] \in {all[i], NoJob}
    BY <1>3
  <1> HIDE DEF new
  <1>7. \A i \in 1 .. Len(jobs) + 1 : new[i] \in T
    BY <1>1, <1>4, <1>6
  <1>8. new \in [1 .. Len(jobs) + 1 -> T]
    BY <1>6, <1>7, <1>5 DEF new
  <1>9. new \in Seq(T)
    BY <1>3, <1>8, SeqDef
  <1> QED
    BY <1>2, <1>3, <1>5, <1>6, <1>9 DEF T

\* A job sent to a session keeps the sessions typed and takes the next salt.
LEMMA SendJobEffect ==
    ASSUME MiningTypeInv, NEW c \in Clients, NEW w \in Workers, SendJob(c, w, tips)
    PROVE  LET job == [recipient |-> w, anchor |-> MiningTip, start |-> nextSalt] IN
           /\ job \in Job
           /\ nextSalt' = nextSalt + 1 /\ nextSalt' \in Nat \ {0}
           /\ sessions[c].jobs \in Seq(Job \cup {NoJob})
           /\ sessions' = [sessions EXCEPT ![c] =
                [worker |-> w, jobs |-> InsertBoundedJob(sessions[c].jobs, job)]]
           /\ sessions' \in [Clients -> [worker : Workers \cup {Nobody, "closed"},
                                         jobs : Seq(Job \cup {NoJob})]]
  <1> DEFINE job == [recipient |-> w, anchor |-> MiningTip, start |-> nextSalt]
             S == [worker : Workers \cup {Nobody, "closed"}, jobs : Seq(Job \cup {NoJob})]
             new == [worker |-> w, jobs |-> InsertBoundedJob(sessions[c].jobs, job)]
  <1>1. nextSalt' = nextSalt + 1 /\ nextSalt \in Nat \ {0}
    BY DEF SendJob, MiningTypeInv
  <1>2. job \in Job
    BY <1>1, TipType DEF Job
  <1>3. sessions \in [Clients -> S]
    BY DEF MiningTypeInv
  <1>4. sessions[c].jobs \in Seq(Job \cup {NoJob})
    BY <1>3
  <1>5. sessions' = [sessions EXCEPT ![c] = new]
    BY DEF SendJob, JobSalt, MiningTip
  <1> HIDE DEF job
  <1>6. InsertBoundedJob(sessions[c].jobs, job) \in Seq(Job \cup {NoJob})
    BY <1>2, <1>4, InsertedJobs
  <1>7. new \in S
    BY <1>6
  <1>8. sessions' \in [Clients -> S]
    BY <1>3, <1>5, <1>7
  <1>9. nextSalt' \in Nat \ {0}
    BY <1>1
  <1> QED
    BY <1>1, <1>2, <1>4, <1>5, <1>8, <1>9 DEF job

\* Every step of the sessions keeps the types.
LEMMA SessionStepsType ==
    ASSUME MiningTypeInv, NEW c \in Clients,
           \/ Connect(c)
           \/ SessionEnds(c)
           \/ \E w \in Workers : Authorize(c, w)
           \/ \E n \in 0 .. NonceLimit - 1 : \E id \in DOMAIN sessions[c].jobs :
                SubmitShare(c, id, n)
    PROVE  MiningTypeInv'
  <1> DEFINE S == [worker : Workers \cup {Nobody, "closed"}, jobs : Seq(Job \cup {NoJob})]
  <1>0. sessions \in [Clients -> S] /\ <<>> \in Seq(Job \cup {NoJob})
    BY EmptySeq DEF MiningTypeInv
  <1>1. CASE Connect(c)
    <2>1. sessions' \in [Clients -> S]
      BY <1>0, <1>1 DEF Connect
    <2> QED
      BY <1>1, <2>1 DEF Connect, MiningTypeInv, MineAction
  <1>2. CASE SessionEnds(c)
    <2>1. sessions' \in [Clients -> S]
      BY <1>0, <1>2 DEF SessionEnds, Ends, NoSession
    <2> QED
      BY <1>2, <2>1 DEF SessionEnds, Ends, MiningTypeInv, MineAction
  <1>3. ASSUME NEW w \in Workers, Authorize(c, w)
        PROVE  MiningTypeInv'
    <2>1. SendJob(c, w, tips)
      BY <1>3 DEF Authorize
    <2>2. sessions' \in [Clients -> S] /\ nextSalt' \in Nat \ {0}
      BY <2>1, SendJobEffect
    <2> QED
      BY <1>3, <2>2 DEF Authorize, MiningTypeInv, MineAction
  <1>4. ASSUME NEW n \in 0 .. NonceLimit - 1, NEW id \in DOMAIN sessions[c].jobs,
               SubmitShare(c, id, n)
        PROVE  MiningTypeInv'
    <2> DEFINE job == sessions[c].jobs[id]
               w == sessions[c].worker
    <2>1. sessions[c].jobs \in Seq(Job \cup {NoJob})
      BY <1>0
    <2>2. job \in Job
      <3>1. job \in Job \cup {NoJob}
        BY <2>1, ElementOfSeq, LenProperties
      <3> QED
        BY <1>4, <3>1 DEF SubmitShare
    <2>3. SubmitPublicMineAction(Share(job, n)) /\ job.recipient = w /\ SendJob(c, w, tips)
      BY <1>4 DEF SubmitShare, SubmitExternalMine
    <2>4. w \in Workers
      BY <2>2, <2>3 DEF Job
    <2>5. Share(job, n) \in MineAction
      BY <2>2 DEF Share, Job, MineAction
    <2>6. pendingMines' \in SUBSET MineAction
      BY <2>3, <2>5, SubmitType
    <2>7. sessions' \in [Clients -> S] /\ nextSalt' \in Nat \ {0}
      BY <2>3, <2>4, SendJobEffect
    <2> QED
      BY <1>4, <2>6, <2>7 DEF SubmitShare, MiningTypeInv, MineAction
  <1> QED
    BY <1>1, <1>2, <1>3, <1>4

\* Every step of the automatic miner keeps the types.
LEMMA MinerStepsType ==
    ASSUME MiningTypeInv,
           \/ PrepareSearch \/ FinishSearch \/ SearchForgotten
           \/ \E on \in BOOLEAN : SetPowMining(on)
           \/ \E w \in Wallets : ReplaceWallet(w)
    PROVE  MiningTypeInv'
  <1> DEFINE C == [anchor : Nat \cup {-1}, next : 0 .. NonceLimit - 1]
             M == [on : BOOLEAN, wallet : Wallets, cursor : C]
             J == [recipient : Wallets, anchor : Nat, start : 0 .. NonceLimit - 1]
  <1>1. NonceLimit \in Nat \ {0} /\ SearchAttempts \in Nat \ {0} /\ Wallets \subseteq Workers
    BY ExternalMiningAssumption
  <1>2. powMiner \in M /\ search \in J \cup {NoJob} /\ MiningTip \in Nat
    BY TipType DEF MiningTypeInv
  <1>3. NoCursor \in C
    BY <1>1 DEF NoCursor
  <1>4. CASE PrepareSearch
    <2>1. CASE powMiner' = [powMiner EXCEPT !.cursor = NoCursor] /\ UNCHANGED search
      <3>1. powMiner' \in M
        BY <1>2, <1>3, <2>1
      <3> QED
        BY <1>4, <2>1, <3>1 DEF PrepareSearch, MiningTypeInv, MineAction
    <2>2. ASSUME NEW cursor \in {IF NeedsCursor(MiningTip) THEN [anchor |-> MiningTip, next |-> 0]
                                 ELSE powMiner.cursor},
                 powMiner' = [powMiner EXCEPT !.cursor = cursor],
                 search' = [recipient |-> powMiner.wallet, anchor |-> MiningTip,
                            start |-> cursor.next]
          PROVE  MiningTypeInv'
      <3>1. cursor \in C
        BY <1>1, <1>2, <2>2
      <3>2. powMiner' \in M /\ search' \in J
        BY <1>2, <2>2, <3>1
      <3> QED
        BY <1>4, <3>2 DEF PrepareSearch, MiningTypeInv, MineAction
    <2> QED
      BY <1>4, <2>1, <2>2 DEF PrepareSearch
  <1>5. CASE FinishSearch
    <2> DEFINE last == Nonce(search, Attempts(search) - 1)
               tx == AutoMine(search, last)
               next == [powMiner EXCEPT !.cursor.next = (last + 1) % NonceLimit]
    <2>1. search \in J
      BY <1>2, <1>5 DEF FinishSearch
    <2>2. last \in 0 .. NonceLimit - 1
      <3>1. Attempts(search) - 1 \in Nat
        BY <1>1, AttemptsType
      <3> QED
        BY <2>1, <3>1, NonceType
    <2>3. tx \in MineAction
      BY <1>1, <2>1, <2>2 DEF AutoMine, MineAction
    <2> HIDE DEF last
    <2>4. next \in M
      <3>1. (last + 1) % NonceLimit \in 0 .. NonceLimit - 1
        BY <1>1, <2>2
      <3> QED
        BY <1>2, <3>1
    <2>5. powMiner' \in {powMiner, next, [powMiner EXCEPT !.cursor = NoCursor]}
      BY <1>5 DEF FinishSearch, last
    <2>6. powMiner' \in M
      BY <1>2, <1>3, <2>4, <2>5
    <2>7. SubmitPublicMineAction(tx) \/ pendingMines' = pendingMines
      BY <1>5 DEF FinishSearch, last
    <2>8. pendingMines' \in SUBSET MineAction
      BY <2>3, <2>7, SubmitType DEF MiningTypeInv
    <2> QED
      BY <1>5, <2>6, <2>8 DEF FinishSearch, MiningTypeInv, MineAction
  <1>6. CASE SearchForgotten
    BY <1>6 DEF SearchForgotten, MiningTypeInv, MineAction
  <1>7. ASSUME NEW on \in BOOLEAN, SetPowMining(on)
        PROVE  MiningTypeInv'
    <2>1. powMiner' \in M
      BY <1>2, <1>3, <1>7 DEF SetPowMining
    <2> QED
      BY <1>7, <2>1 DEF SetPowMining, MiningTypeInv, MineAction
  <1>8. ASSUME NEW w \in Wallets, ReplaceWallet(w)
        PROVE  MiningTypeInv'
    <2>1. powMiner' \in M
      BY <1>2, <1>3, <1>8 DEF ReplaceWallet
    <2> QED
      BY <1>8, <2>1 DEF ReplaceWallet, MiningTypeInv, MineAction
  <1> QED
    BY <1>4, <1>5, <1>6, <1>7, <1>8

\* The types hold throughout.
LEMMA MiningTypeStep == MiningTypeInv /\ [MiningNext]_miningVars => MiningTypeInv'
  <1> SUFFICES ASSUME MiningTypeInv, [MiningNext]_miningVars
               PROVE  MiningTypeInv'
    OBVIOUS
  <1>1. CASE BlockArrives \/ TipReplaced
    BY <1>1, BlockStepsType
  <1>2. CASE \E c \in Clients : Connect(c) \/ SessionEnds(c)
    BY <1>2, SessionStepsType
  <1>3. CASE \E c \in Clients, w \in Workers : Authorize(c, w)
    BY <1>3, SessionStepsType
  <1>4. CASE \E c \in Clients, n \in 0 .. NonceLimit - 1 :
                \E id \in DOMAIN sessions[c].jobs : SubmitShare(c, id, n)
    BY <1>4, SessionStepsType
  <1>5. CASE \/ PrepareSearch \/ FinishSearch \/ SearchForgotten
             \/ \E on \in BOOLEAN : SetPowMining(on)
             \/ \E w \in Wallets : ReplaceWallet(w)
    BY <1>5, MinerStepsType
  <1>6. CASE UNCHANGED miningVars
    BY <1>6 DEF miningVars, MiningTypeInv, MineAction
  <1> QED
    BY <1>1, <1>2, <1>3, <1>4, <1>5, <1>6 DEF MiningNext

-----------------------------------------------------------------------------
(* The automatic miner leaves no nonce out.                                *)

\* Steps that touch neither the cursor, the search nor the history keep SearchInv.
LEMMA SearchUntouched ==
    ASSUME SearchInv, UNCHANGED <<powMiner, search, tried>>
    PROVE  SearchInv'
  BY DEF SearchInv, SearchedUpTo

\* Dropping the cursor keeps SearchInv, whatever the switch and the wallet become.
LEMMA CursorDropped ==
    ASSUME SearchInv, powMiner'.cursor = NoCursor, search' \in {search, NoJob},
           tried \subseteq tried'
    PROVE  SearchInv'
  BY DEF SearchInv, SearchedUpTo, NoCursor, NoJob

\* A search starts at the cursor of this tip, or at the first nonce.
LEMMA PrepareKeepsSearchInv ==
    ASSUME MiningTypeInv, SearchInv, PrepareSearch
    PROVE  SearchInv'
  <1> DEFINE fresh == [anchor |-> MiningTip, next |-> 0]
  <1>0. powMiner \in [on : BOOLEAN, wallet : Wallets,
                      cursor : [anchor : Nat \cup {-1}, next : 0 .. NonceLimit - 1]]
    BY DEF MiningTypeInv
  <1>1. CASE powMiner' = [powMiner EXCEPT !.cursor = NoCursor] /\ UNCHANGED search
    <2>1. powMiner'.cursor = NoCursor
      BY <1>0, <1>1
    <2> QED
      BY <1>1, <2>1, CursorDropped DEF PrepareSearch
  <1>2. ASSUME NEW cursor \in {IF NeedsCursor(MiningTip) THEN fresh ELSE powMiner.cursor},
               powMiner' = [powMiner EXCEPT !.cursor = cursor],
               search' = [recipient |-> powMiner.wallet, anchor |-> MiningTip,
                          start |-> cursor.next]
        PROVE  SearchInv'
    <2>1. powMiner'.cursor = cursor /\ powMiner'.wallet = powMiner.wallet /\ tried' = tried
      BY <1>0, <1>2 DEF PrepareSearch
    <2>2. cursor.anchor = MiningTip
      BY <1>2 DEF NeedsCursor
    <2>3. CASE cursor = fresh
      BY <1>2, <2>1, <2>3 DEF SearchInv, SearchedUpTo
    <2>4. CASE cursor = powMiner.cursor
      BY <1>2, <2>1, <2>2, <2>4 DEF SearchInv, SearchedUpTo
    <2> QED
      BY <1>2, <2>3, <2>4
  <1> QED
    BY <1>1, <1>2 DEF PrepareSearch

\* The cursor advances past what the search tried, and past nothing else.
LEMMA FinishKeepsSearchInv ==
    ASSUME MiningTypeInv, SearchInv, FinishSearch
    PROVE  SearchInv'
  <1> DEFINE k == Attempts(search) - 1
             last == Nonce(search, k)
             found == {[recipient |-> search.recipient, anchor |-> search.anchor,
                        nonce |-> Nonce(search, i)] : i \in 0 .. Attempts(search) - 1}
             next == [powMiner EXCEPT !.cursor.next = (last + 1) % NonceLimit]
  <1>0. powMiner \in [on : BOOLEAN, wallet : Wallets,
                      cursor : [anchor : Nat \cup {-1}, next : 0 .. NonceLimit - 1]]
    BY DEF MiningTypeInv
  <1>1. search \in [recipient : Wallets, anchor : Nat, start : 0 .. NonceLimit - 1]
    BY DEF FinishSearch, MiningTypeInv
  <1>2. tried' = tried \cup found /\ search' = NoJob /\ search # NoJob
    BY DEF FinishSearch
  <1>3. k \in Nat /\ Attempts(search) - 1 = k
    BY AttemptsType, ExternalMiningAssumption
  <1>4. CASE powMiner' = powMiner
    BY <1>2, <1>4 DEF SearchInv, SearchedUpTo, NoJob
  <1>5. CASE powMiner' = [powMiner EXCEPT !.cursor = NoCursor]
    <2>1. powMiner'.cursor = NoCursor
      BY <1>0, <1>5
    <2> QED
      BY <1>2, <2>1, CursorDropped
  <1>6. CASE powMiner' = next /\ powMiner.cursor.anchor = MiningTip
    <2>1. MiningTip # -1
      BY TipType
    <2>2. search.recipient = powMiner.wallet /\ search.anchor = powMiner.cursor.anchor
      BY <1>2, <1>6, <2>1 DEF SearchInv
    <2>3. last \in 0 .. NonceLimit - 1
      BY <1>1, <1>3, NonceType
    <2>4. ASSUME NEW n \in 0 .. ((last + 1) % NonceLimit) - 1
          PROVE  [recipient |-> search.recipient, anchor |-> search.anchor, nonce |-> n]
                    \in tried'
      <3>1. (last + 1) % NonceLimit <= last + 1
        BY <2>3, ExternalMiningAssumption
      <3>2. n \in 0 .. last
        <4> HIDE DEF last
        <4>1. (last + 1) % NonceLimit \in Nat
          BY <2>3, ExternalMiningAssumption
        <4> QED
          BY <2>3, <2>4, <3>1, <4>1
      <3>3. n < search.start \/ \E i \in 0 .. k : Nonce(search, i) = n
        BY <1>1, <1>3, <3>2, NoncesCovered
      <3>4. CASE n < search.start
        <4>1. n \in 0 .. search.start - 1
          BY <1>1, <3>2, <3>4
        <4> QED
          BY <1>2, <4>1 DEF SearchInv, SearchedUpTo
      <3>5. CASE \E i \in 0 .. k : Nonce(search, i) = n
        BY <1>2, <1>3, <3>5
      <3> QED
        BY <3>3, <3>4, <3>5
    <2>5. /\ powMiner'.wallet = powMiner.wallet /\ powMiner'.cursor.anchor = powMiner.cursor.anchor
          /\ powMiner'.cursor.next = (last + 1) % NonceLimit
      <3> HIDE DEF last
      <3> QED
        BY <1>0, <1>6
    <2> HIDE DEF last
    <2>6. SearchedUpTo(powMiner.wallet, powMiner.cursor.anchor, powMiner.cursor.next)'
      BY <2>2, <2>4, <2>5 DEF SearchedUpTo
    <2> QED
      BY <1>2, <2>6 DEF SearchInv, SearchedUpTo, NoJob
  <1> QED
    BY <1>4, <1>5, <1>6 DEF FinishSearch

\* No nonce is left out, however tips, settings and wallets change around the searches.
LEMMA SearchInvStep == MiningTypeInv /\ SearchInv /\ [MiningNext]_miningVars => SearchInv'
  <1> SUFFICES ASSUME MiningTypeInv, SearchInv, [MiningNext]_miningVars
               PROVE  SearchInv'
    OBVIOUS
  <1>0. powMiner \in [on : BOOLEAN, wallet : Wallets,
                      cursor : [anchor : Nat \cup {-1}, next : 0 .. NonceLimit - 1]]
    BY DEF MiningTypeInv
  <1>1. CASE BlockArrives \/ TipReplaced
    BY <1>1, SearchUntouched DEF BlockArrives, TipReplaced, ChainMoves
  <1>2. CASE \E c \in Clients : Connect(c) \/ SessionEnds(c)
    BY <1>2, SearchUntouched DEF Connect, SessionEnds
  <1>3. CASE \E c \in Clients, w \in Workers : Authorize(c, w)
    BY <1>3, SearchUntouched DEF Authorize
  <1>4. CASE \E c \in Clients, n \in 0 .. NonceLimit - 1 :
                \E id \in DOMAIN sessions[c].jobs : SubmitShare(c, id, n)
    BY <1>4, SearchUntouched DEF SubmitShare
  <1>5. CASE PrepareSearch
    BY <1>5, PrepareKeepsSearchInv
  <1>6. CASE FinishSearch
    BY <1>6, FinishKeepsSearchInv
  <1>7. CASE SearchForgotten
    BY <1>7 DEF SearchForgotten, SearchInv, SearchedUpTo, NoJob
  <1>8. ASSUME NEW on \in BOOLEAN, SetPowMining(on)
        PROVE  SearchInv'
    BY <1>0, <1>8, CursorDropped DEF SetPowMining
  <1>9. ASSUME NEW w \in Wallets, ReplaceWallet(w)
        PROVE  SearchInv'
    BY <1>0, <1>9, CursorDropped DEF ReplaceWallet
  <1>10. CASE UNCHANGED miningVars
    BY <1>10, SearchUntouched DEF miningVars
  <1> QED
    BY <1>1, <1>2, <1>3, <1>4, <1>5, <1>6, <1>7, <1>8, <1>9, <1>10 DEF MiningNext

-----------------------------------------------------------------------------
(* No two Stratum jobs are the same work.                                  *)

\* A job sent with a new salt differs from every job there is, and forgetting jobs makes
\* none alike.
LEMMA SendJobKeepsSalts ==
    ASSUME MiningTypeInv, SaltInv, NEW e \in Clients, NEW w \in Workers, SendJob(e, w, tips)
    PROVE  SaltInv'
  <1> DEFINE job == [recipient |-> w, anchor |-> MiningTip, start |-> nextSalt]
             old == sessions[e].jobs
             new == InsertBoundedJob(old, job)
             n == Len(old) + 1
             T == [worker : Workers \cup {Nobody, "closed"}, jobs : Seq(Job \cup {NoJob})]
  <1>1. /\ job \in Job /\ old \in Seq(Job \cup {NoJob})
        /\ nextSalt' = nextSalt + 1 /\ nextSalt' \in Nat \ {0}
        /\ sessions' = [sessions EXCEPT ![e] = [worker |-> w, jobs |-> new]]
    BY SendJobEffect
  <1>2. sessions \in [Clients -> T] /\ nextSalt \in Nat \ {0}
    BY DEF MiningTypeInv
  <1> HIDE DEF old
  <1>3. /\ DOMAIN new = 1 .. n /\ n \in Nat \ {0} /\ DOMAIN old = 1 .. n - 1
        /\ \A i \in 1 .. n - 1 : new[i] \in {old[i], NoJob}
        /\ new[n] \in {job, NoJob}
    <2> HIDE DEF job
    <2>1. /\ DOMAIN InsertBoundedJob(old, job) = 1 .. Len(old) + 1
          /\ Len(old) \in Nat /\ DOMAIN old = 1 .. Len(old)
          /\ \A i \in 1 .. Len(old) : InsertBoundedJob(old, job)[i] \in {old[i], NoJob}
          /\ InsertBoundedJob(old, job)[Len(old) + 1] \in {job, NoJob}
      BY <1>1, InsertedJobs
    <2> QED
      BY <2>1
  <1>4. job.start = nextSalt /\ NoJob.start = 0
    BY DEF NoJob
  <1>5. sessions'[e].jobs = new /\ \A c \in Clients \ {e} : sessions'[c].jobs = sessions[c].jobs
    BY <1>1, <1>2
  <1> HIDE DEF job, new, n
  \* A job now held is forgotten, the new one, or one held before at the same place.
  <1>6. ASSUME NEW c \in Clients, NEW i \in DOMAIN sessions'[c].jobs
        PROVE  \/ sessions'[c].jobs[i] = NoJob
               \/ c = e /\ i = n /\ sessions'[c].jobs[i] = job
               \/ /\ i \in DOMAIN sessions[c].jobs
                  /\ sessions'[c].jobs[i] = sessions[c].jobs[i]
    <2>1. CASE c = e
      <3>0. i \in 1 .. n
        BY <1>3, <1>5, <1>6, <2>1
      <3>1. i \in 1 .. n - 1 \/ i = n
        BY <1>3, <3>0
      <3> QED
        BY <1>3, <1>5, <2>1, <3>1 DEF old
    <2>2. CASE c # e
      BY <1>5, <1>6, <2>2
    <2> QED
      BY <2>1, <2>2
  <1>7. ASSUME NEW c \in Clients, NEW i \in DOMAIN sessions'[c].jobs
        PROVE  sessions'[c].jobs[i].start < nextSalt'
    <2>1. CASE sessions'[c].jobs[i] \in {NoJob, job}
      BY <1>1, <1>2, <1>4, <2>1
    <2>2. CASE i \in DOMAIN sessions[c].jobs /\ sessions'[c].jobs[i] = sessions[c].jobs[i]
      <3>1. sessions[c].jobs[i].start < nextSalt
        BY <2>2 DEF SaltInv
      <3>2. sessions[c].jobs[i] \in Job \cup {NoJob}
        BY <1>2, <2>2, ElementOfSeq, LenProperties
      <3>3. sessions[c].jobs[i].start \in Nat
        BY <3>2, <1>4 DEF Job
      <3> QED
        BY <1>1, <1>2, <2>2, <3>1, <3>3
    <2> QED
      BY <1>6, <2>1, <2>2
  <1>8. ASSUME NEW c \in Clients, NEW i \in DOMAIN sessions'[c].jobs,
               NEW d \in Clients, NEW j \in DOMAIN sessions'[d].jobs,
               sessions'[c].jobs[i] # NoJob, sessions'[d].jobs[j] # NoJob,
               sessions'[d].jobs[j].start = sessions'[c].jobs[i].start
        PROVE  c = d /\ i = j
    <2>1. \A b \in Clients : \A k \in DOMAIN sessions[b].jobs :
            sessions[b].jobs[k].start < nextSalt /\ ~(nextSalt < nextSalt)
      BY <1>2 DEF SaltInv
    <2>2. CASE sessions'[c].jobs[i] = job /\ c = e /\ i = n
      BY <1>4, <1>6, <1>8, <2>1, <2>2
    <2>3. CASE sessions'[d].jobs[j] = job /\ d = e /\ j = n
      BY <1>4, <1>6, <1>8, <2>1, <2>3
    <2>4. CASE /\ i \in DOMAIN sessions[c].jobs /\ sessions'[c].jobs[i] = sessions[c].jobs[i]
               /\ j \in DOMAIN sessions[d].jobs /\ sessions'[d].jobs[j] = sessions[d].jobs[j]
      BY <1>8, <2>4 DEF SaltInv
    <2> QED
      BY <1>6, <1>8, <2>2, <2>3, <2>4
  <1> QED
    BY <1>7, <1>8 DEF SaltInv

\* Steps that add no job keep SaltInv: every job was there before.
LEMMA JobsOnlyGo ==
    ASSUME SaltInv, nextSalt' = nextSalt,
           \A c \in Clients : sessions'[c].jobs \in {sessions[c].jobs, <<>>}
    PROVE  SaltInv'
  <1>1. \A c \in Clients : \A i \in DOMAIN sessions'[c].jobs :
            i \in DOMAIN sessions[c].jobs /\ sessions'[c].jobs[i] = sessions[c].jobs[i]
    <2>1. DOMAIN (<<>>) = {}
      OBVIOUS
    <2> QED
      BY <2>1
  <1> QED
    BY <1>1 DEF SaltInv

\* A salt that was used is never handed out again.
LEMMA SaltInvStep == MiningTypeInv /\ SaltInv /\ [MiningNext]_miningVars => SaltInv'
  <1> SUFFICES ASSUME MiningTypeInv, SaltInv, [MiningNext]_miningVars
               PROVE  SaltInv'
    OBVIOUS
  <1>0. sessions \in [Clients -> [worker : Workers \cup {Nobody, "closed"},
                                  jobs : Seq(Job \cup {NoJob})]]
    BY DEF MiningTypeInv
  <1>1. ASSUME NEW e \in Clients, Connect(e) \/ SessionEnds(e)
        PROVE  SaltInv'
    <2>1. nextSalt' = nextSalt
      BY <1>1 DEF Connect, SessionEnds
    <2>2. \A c \in Clients : sessions'[c].jobs \in {sessions[c].jobs, <<>>}
      BY <1>0, <1>1 DEF Connect, SessionEnds, Ends, NoSession
    <2> QED
      BY <2>1, <2>2, JobsOnlyGo
  <1>2. ASSUME NEW e \in Clients, NEW w \in Workers, Authorize(e, w)
        PROVE  SaltInv'
    BY <1>2, SendJobKeepsSalts DEF Authorize
  <1>3. ASSUME NEW e \in Clients, NEW n \in 0 .. NonceLimit - 1,
               NEW id \in DOMAIN sessions[e].jobs, SubmitShare(e, id, n)
        PROVE  SaltInv'
    <2>1. sessions[e].jobs[id] \in Job \cup {NoJob}
      BY <1>0, ElementOfSeq, LenProperties
    <2>2. sessions[e].worker \in Workers
      BY <1>3, <2>1 DEF SubmitShare, SubmitExternalMine, Job
    <2> QED
      BY <1>3, <2>2, SendJobKeepsSalts DEF SubmitShare
  <1>4. CASE \/ BlockArrives \/ TipReplaced
             \/ PrepareSearch \/ FinishSearch \/ SearchForgotten
             \/ \E on \in BOOLEAN : SetPowMining(on)
             \/ \E w \in Wallets : ReplaceWallet(w)
             \/ UNCHANGED miningVars
    <2>1. sessions' = sessions /\ nextSalt' = nextSalt
      BY <1>4 DEF BlockArrives, TipReplaced, ChainMoves, PrepareSearch, FinishSearch,
                  SearchForgotten, SetPowMining, ReplaceWallet, miningVars
    <2> QED
      BY <2>1, JobsOnlyGo
  <1> QED
    BY <1>1, <1>2, <1>3, <1>4 DEF MiningNext

-----------------------------------------------------------------------------
(* Theorems of the specification.                                          *)

\* Types, no nonce left out and no salt used twice.
THEOREM MiningInvHolds == MiningSpec => [](MiningTypeInv /\ MiningInv)
  <1>1. MiningInit => MiningTypeInv /\ MiningInv
    <2> SUFFICES ASSUME MiningInit
                 PROVE  MiningTypeInv /\ MiningInv
      OBVIOUS
    <2>1. SearchInv
      BY DEF MiningInit, SearchInv, SearchedUpTo, NoCursor, NoJob
    <2>2. SaltInv
      <3>1. \A c \in Clients : DOMAIN sessions[c].jobs = {}
        BY DEF MiningInit, NoSession
      <3> QED
        BY <3>1 DEF SaltInv
    <2> QED
      BY <2>1, <2>2, MiningInitType DEF MiningInv
  <1>2. MiningTypeInv /\ MiningInv /\ [MiningNext]_miningVars => (MiningTypeInv /\ MiningInv)'
    BY MiningTypeStep, SearchInvStep, SaltInvStep DEF MiningInv
  <1> QED
    BY <1>1, <1>2, PTL DEF MiningSpec

\* The automatic miner skips no nonce of a tip (finish_automatic_pow_mining_job) and no two
\* Stratum templates are the same work (next_job_salt), for any number of sessions.
THEOREM WorkIsNotRepeatedHolds == MiningSpec => []WorkIsNotRepeated
  <1>1. MiningTypeInv /\ MiningInv => WorkIsNotRepeated
    <2> SUFFICES ASSUME MiningTypeInv, MiningInv
                 PROVE  WorkIsNotRepeated
      OBVIOUS
    <2>1. SearchIsContiguous
      BY DEF MiningInv, SearchInv, SearchedUpTo, SearchIsContiguous
    <2>2. TemplatesDistinct
      BY DEF MiningInv, SaltInv, TemplatesDistinct
    <2> QED
      BY <2>1, <2>2 DEF WorkIsNotRepeated
  <1> QED
    BY <1>1, MiningInvHolds, PTL

\* A share is credited to the worker of the session that found it (submit_external_mine).
THEOREM SharePaysItsWorkerHolds == MiningSpec => SharePaysItsWorker
  <1> DEFINE Pays ==
        \A t \in pendingMines' \ pendingMines :
            t.salt \in Nat => \E c \in Clients : sessions'[c].worker = t.recipient
                                                 /\ sessions[c].worker = t.recipient
  <1>1. MiningTypeInv /\ [MiningNext]_miningVars => [Pays]_miningVars
    <2> SUFFICES ASSUME MiningTypeInv, MiningNext,
                        NEW t \in pendingMines' \ pendingMines, t.salt \in Nat
                 PROVE  \E c \in Clients : sessions'[c].worker = t.recipient
                                           /\ sessions[c].worker = t.recipient
      OBVIOUS
    <2>1. CASE BlockArrives \/ TipReplaced
      BY <2>1 DEF BlockArrives, TipReplaced, ChainMoves, StillValid
    <2>2. CASE \E c \in Clients : Connect(c) \/ SessionEnds(c)
      BY <2>2 DEF Connect, SessionEnds
    <2>3. CASE \E c \in Clients, w \in Workers : Authorize(c, w)
      BY <2>3 DEF Authorize
    <2>4. ASSUME NEW c \in Clients, NEW n \in 0 .. NonceLimit - 1,
                 NEW id \in DOMAIN sessions[c].jobs, SubmitShare(c, id, n)
          PROVE  sessions'[c].worker = t.recipient /\ sessions[c].worker = t.recipient
      <3>1. /\ SubmitPublicMineAction(Share(sessions[c].jobs[id], n))
            /\ sessions[c].jobs[id].recipient = sessions[c].worker
            /\ SendJob(c, sessions[c].worker, tips)
        BY <2>4 DEF SubmitShare, SubmitExternalMine
      <3>2. t = Share(sessions[c].jobs[id], n)
        BY <3>1 DEF SubmitPublicMineAction
      <3>3. t.recipient = sessions[c].worker
        BY <3>1, <3>2 DEF Share
      <3>4. sessions'[c].worker = sessions[c].worker
        BY <3>1 DEF SendJob, MiningTypeInv
      <3> QED
        BY <3>3, <3>4
    <2>5. CASE FinishSearch
      <3>1. PICK nonce : pendingMines' \subseteq pendingMines \cup {AutoMine(search, nonce)}
        <4>1. CASE pendingMines' = pendingMines
          BY <4>1
        <4>2. CASE SubmitPublicMineAction(AutoMine(search, Nonce(search, Attempts(search) - 1)))
          BY <4>2 DEF SubmitPublicMineAction
        <4> QED
          BY <2>5, <4>1, <4>2 DEF FinishSearch
      <3>2. t.salt = search.recipient
        BY <3>1 DEF AutoMine
      <3>3. search.recipient \in Wallets
        BY <2>5 DEF FinishSearch, MiningTypeInv
      <3>4. search.recipient \notin Int
        BY <3>3, ExternalMiningAssumption
      <3> QED
        BY <3>2, <3>4
    <2>6. CASE \/ PrepareSearch \/ SearchForgotten
               \/ \E on \in BOOLEAN : SetPowMining(on)
               \/ \E w \in Wallets : ReplaceWallet(w)
      BY <2>6 DEF PrepareSearch, SearchForgotten, SetPowMining, ReplaceWallet
    <2> QED
      BY <2>1, <2>2, <2>3, <2>4, <2>5, <2>6 DEF MiningNext
  <1> QED
    BY <1>1, MiningInvHolds, PTL DEF MiningSpec, SharePaysItsWorker

-----------------------------------------------------------------------------
(* Lowest and highest indexes.                                             *)

\* A nonempty set of indexes has a lowest one, and Min is it.
LEMMA LowestIndex ==
    ASSUME NEW S, S \subseteq Nat, S # {}
    PROVE  Min(S) \in S /\ \A k \in S : Min(S) <= k
  <1> DEFINE R == {ss \in Nat \X Nat : ss[1] < ss[2]}
  <1>1. IsWellFoundedOn(R, Nat)
    BY NatLessThanWellFounded DEF OpToRel
  <1>2. PICK m \in S : \A k \in S : ~(<<k, m>> \in R)
    <2> HIDE DEF R
    <2> QED
      BY <1>1, WFMin
  <1>3. \A k \in S : ~(k < m)
    BY <1>2
  <1>4. \A k \in S : m <= k
    BY <1>3
  <1> QED
    BY <1>4 DEF Min

\* A nonempty set of indexes below a bound has a highest one, and Max is it.
LEMMA HighestIndex ==
    ASSUME NEW n \in Nat, NEW S, S \subseteq 0 .. n, S # {}
    PROVE  Max(S) \in S /\ \A k \in S : k <= Max(S)
  <1> DEFINE T == {d \in Nat : n - d \in S}
             m == Min(T)
  <1>1. T \subseteq Nat
    OBVIOUS
  <1>2. T # {}
    <2>1. PICK s \in S : TRUE
      OBVIOUS
    <2>2. n - s \in Nat /\ n - (n - s) = s
      BY <2>1
    <2> QED
      BY <2>1, <2>2
  <1>3. m \in T /\ \A k \in T : m <= k
    <2> HIDE DEF T
    <2> QED
      BY <1>1, <1>2, LowestIndex
  <1>4. ASSUME NEW k \in S
        PROVE  k <= n - m
    <2>1. n - k \in Nat /\ n - (n - k) = k
      OBVIOUS
    <2>2. n - k \in T
      BY <2>1
    <2>3. m \in Nat /\ m <= n - k
      BY <1>3, <2>2
    <2> HIDE DEF m
    <2> QED
      BY <2>1, <2>3
  <1>5. n - m \in S
    BY <1>3
  <1> HIDE DEF m
  <1>6. \E x \in S : \A y \in S : x >= y
    BY <1>4, <1>5
  <1> QED
    BY <1>6 DEF Max

-----------------------------------------------------------------------------
(* Recovery.                                                               *)

\* An address is in one of the three indexes for a transaction that names it.
LEMMA Indexed ==
    ASSUME NEW txs
    PROVE  /\ \A a : a \in UsedBy(txs) <=>
                \E t \in txs : (a = t.pays \/ a = t.change) /\ a # Nothing
           /\ \A a : a \in SpentAddresses(txs) <=> \E t \in txs : a = t.from /\ a # Nothing
           /\ \A a : a \in AuthoredBy(txs) <=>
                \E t \in txs : (a = t.from \/ a = t.change) /\ t.from # Nothing /\ a # Nothing
  <1>1. ASSUME NEW a
        PROVE  a \in UNION {{t.pays, t.change} : t \in txs} <=>
                \E t \in txs : a = t.pays \/ a = t.change
    <2>1. ASSUME NEW t \in txs, a = t.pays \/ a = t.change
          PROVE  a \in UNION {{u.pays, u.change} : u \in txs}
      <3>1. a \in {t.pays, t.change} /\ {t.pays, t.change} \in {{u.pays, u.change} : u \in txs}
        BY <2>1
      <3> QED
        BY <3>1
    <2>2. ASSUME a \in UNION {{u.pays, u.change} : u \in txs}
          PROVE  \E t \in txs : a = t.pays \/ a = t.change
      <3>1. PICK B \in {{u.pays, u.change} : u \in txs} : a \in B
        BY <2>2
      <3>2. PICK t \in txs : B = {t.pays, t.change}
        BY <3>1
      <3> QED
        BY <3>1, <3>2
    <2> QED
      BY <2>1, <2>2
  <1>2. ASSUME NEW a
        PROVE  a \in UNION {{t.from, t.change} : t \in {u \in txs : u.from # Nothing}} <=>
                \E t \in txs : (a = t.from \/ a = t.change) /\ t.from # Nothing
    <2> DEFINE own == {u \in txs : u.from # Nothing}
    <2>1. ASSUME NEW t \in own, a = t.from \/ a = t.change
          PROVE  a \in UNION {{u.from, u.change} : u \in own}
      <3>1. a \in {t.from, t.change} /\ {t.from, t.change} \in {{u.from, u.change} : u \in own}
        BY <2>1
      <3> QED
        BY <3>1
    <2>2. ASSUME a \in UNION {{u.from, u.change} : u \in own}
          PROVE  \E t \in own : a = t.from \/ a = t.change
      <3>1. PICK B \in {{u.from, u.change} : u \in own} : a \in B
        BY <2>2
      <3>2. PICK t \in own : B = {t.from, t.change}
        BY <3>1
      <3> QED
        BY <3>1, <3>2
    <2>3. \A t : t \in own <=> t \in txs /\ t.from # Nothing
      OBVIOUS
    <2> HIDE DEF own
    <2>4. a \in UNION {{u.from, u.change} : u \in own} <=>
            \E t \in own : a = t.from \/ a = t.change
      BY <2>1, <2>2
    <2> QED
      BY <2>3, <2>4 DEF own
  <1>3. \A a : a \in SpentAddresses(txs) <=> \E t \in txs : a = t.from /\ a # Nothing
    BY DEF SpentAddresses
  <1>4. \A a : a \in UsedBy(txs) <=>
            a \in UNION {{t.pays, t.change} : t \in txs} /\ a # Nothing
    <2> DEFINE U == UNION {{t.pays, t.change} : t \in txs}
    <2>1. UsedBy(txs) = U \ {Nothing}
      BY DEF UsedBy
    <2> HIDE DEF U
    <2>2. \A a : a \in UsedBy(txs) <=> a \in U /\ a # Nothing
      BY <2>1
    <2> QED
      BY <2>2 DEF U
  <1>5. \A a : a \in AuthoredBy(txs) <=>
            a \in UNION {{t.from, t.change} : t \in {u \in txs : u.from # Nothing}} /\ a # Nothing
    <2> DEFINE U == UNION {{t.from, t.change} : t \in {u \in txs : u.from # Nothing}}
    <2>1. AuthoredBy(txs) = U \ {Nothing}
      BY DEF AuthoredBy
    <2> HIDE DEF U
    <2>2. \A a : a \in AuthoredBy(txs) <=> a \in U /\ a # Nothing
      BY <2>1
    <2> QED
      BY <2>2 DEF U
  <1>6. \A a : a \in UsedBy(txs) <=>
            \E t \in txs : (a = t.pays \/ a = t.change) /\ a # Nothing
    BY <1>1, <1>4
  <1>7. \A a : a \in AuthoredBy(txs) <=>
            \E t \in txs : (a = t.from \/ a = t.change) /\ t.from # Nothing /\ a # Nothing
    BY <1>2, <1>5
  <1> QED
    BY <1>3, <1>6, <1>7

SeedType == [cursor : [Branches -> Nat], scanned : [Branches -> Nat \cup {-1}],
             recovered : BOOLEAN]

\* What holds of the transactions and of a seed within the limits.
Bounded ==
    /\ mined \in SUBSET WalletTx /\ unmined \in SUBSET WalletTx
    /\ txsMade \in Nat /\ txsMade <= MaxTxs
    /\ \A t \in mined \cup unmined : \A a \in {t.from, t.pays, t.change} \ {Nothing} :
        a[2] < txsMade

\* The type invariant has these parts.
LEMMA TypeParts ==
    ASSUME AddressTypeInv
    PROVE  /\ Bounded
           /\ seed \in SeedType
           /\ \A b \in Branches : seed.cursor[b] <= txsMade
           /\ \A b \in Branches : seed.scanned[b] <= height
  BY DEF AddressTypeInv, IndexesBounded, Bounded, SeedType

\* The constants.
LEMMA Limits ==
    /\ GapLimit \in Nat /\ GapLimit >= 1 /\ MaxDiscovered \in Nat /\ MaxTxs \in Nat
    /\ MaxTxs + GapLimit <= MaxDiscovered
  BY WalletAssumption

\* The addresses of the indexes lie below the number of transactions.
LEMMA IndexBounds ==
    ASSUME Bounded
    PROVE  /\ \A a \in UsedBy(mined \cup unmined) \cup SpentAddresses(mined \cup unmined)
                       \cup AuthoredBy(mined \cup unmined) :
                a \in Address /\ a[2] < txsMade
           /\ \A b \in Branches : \A txs \in {mined \cup unmined, OnLedger \cup unmined, unmined} :
                \A i \in Nat : <<b, i>> \in Index(b, txs) => i < txsMade
  <1>1. \A t \in mined \cup unmined : t \in WalletTx
    BY DEF Bounded
  <1>2. \A a \in UsedBy(mined \cup unmined) \cup SpentAddresses(mined \cup unmined)
                 \cup AuthoredBy(mined \cup unmined) :
            \E t \in mined \cup unmined : a \in {t.from, t.pays, t.change} \ {Nothing}
    BY Indexed
  <1>3. \A t \in mined \cup unmined : \A a \in {t.from, t.pays, t.change} \ {Nothing} :
            a \in Address /\ a[2] < txsMade
    BY <1>1 DEF Bounded, WalletTx
  <1>4. ASSUME NEW b \in Branches,
               NEW txs \in {mined \cup unmined, OnLedger \cup unmined, unmined},
               NEW i \in Nat, <<b, i>> \in Index(b, txs)
        PROVE  i < txsMade
    <2>1. txs \subseteq mined \cup unmined
      BY DEF OnLedger
    <2>2. <<b, i>> \in UsedBy(mined \cup unmined) \cup SpentAddresses(mined \cup unmined)
      BY <1>4, <2>1 DEF Index, UsedBy, SpentAddresses
    <2>3. <<b, i>>[2] = i
      OBVIOUS
    <2> QED
      BY <1>2, <1>3, <2>2, <2>3
  <1> QED
    BY <1>2, <1>3, <1>4

\* Recovery raises cursors past every authored address of the chain, within the limits.
LEMMA RecoverEffect ==
    ASSUME Bounded, NEW s \in SeedType, \A b \in Branches : s.cursor[b] <= txsMade
    PROVE  /\ Recover(s) \in SeedType
           /\ Recover(s).recovered
           /\ Recover(s).scanned = s.scanned
           /\ s.recovered => Recover(s) = s
           /\ \A b \in Branches : s.cursor[b] <= Recover(s).cursor[b]
                                  /\ Recover(s).cursor[b] <= txsMade
           /\ ~s.recovered => \A a \in AuthoredBy(OnLedger) : a[2] <= Recover(s).cursor[a[1]]
  <1> DEFINE highest(b) == {i \in 0 .. MaxDiscovered - 1 : <<b, i>> \in AuthoredBy(OnLedger)}
             new(b) == IF highest(b) = {} THEN s.cursor[b]
                       ELSE Max({s.cursor[b], Max(highest(b)) + 1})
  <1>1. CASE s.recovered
    BY <1>1 DEF Recover, SeedType
  <1>2. CASE ~s.recovered
    <2>1. Recover(s) = [s EXCEPT !.recovered = TRUE, !.cursor = [b \in Branches |-> new(b)]]
      BY <1>2 DEF Recover
    <2>2. ASSUME NEW b \in Branches
          PROVE  /\ new(b) \in Nat /\ s.cursor[b] <= new(b) /\ new(b) <= txsMade
                 /\ \A i \in highest(b) : i <= new(b)
      <3>0. s.cursor[b] \in Nat /\ s.cursor[b] <= txsMade /\ txsMade \in Nat
        BY DEF SeedType, Bounded
      <3>1. CASE highest(b) = {}
        BY <3>0, <3>1
      <3>2. CASE highest(b) # {}
        <4> DEFINE top == Max(highest(b))
                   two == {s.cursor[b], top + 1}
        <4>1. highest(b) \subseteq 0 .. MaxDiscovered - 1 /\ MaxDiscovered - 1 \in Nat
          <5>1. MaxDiscovered >= 1 /\ MaxDiscovered \in Nat
            BY Limits
          <5> QED
            BY <5>1
        <4>2. top \in highest(b) /\ \A i \in highest(b) : i <= top
          <5> HIDE DEF highest
          <5> QED
            BY <3>2, <4>1, HighestIndex
        <4>3. top \in Nat /\ <<b, top>> \in AuthoredBy(OnLedger)
          BY <4>2
        <4>4. top < txsMade
          <5>1. <<b, top>> \in AuthoredBy(mined \cup unmined)
            BY <4>3 DEF AuthoredBy, OnLedger
          <5>2. <<b, top>>[2] < txsMade
            <6> HIDE DEF top
            <6> QED
              BY <5>1, IndexBounds
          <5> QED
            BY <5>2
        <4> HIDE DEF top, highest
        <4>5. two \subseteq 0 .. txsMade /\ two # {}
          BY <3>0, <4>3, <4>4
        <4>6. Max(two) \in two /\ \A k \in two : k <= Max(two)
          <5> HIDE DEF two
          <5> QED
            BY <3>0, <4>5, HighestIndex
        <4>7. new(b) = Max(two)
          BY <3>2 DEF top
        <4>8. Max(two) \in Nat /\ Max(two) <= txsMade /\ s.cursor[b] <= Max(two)
              /\ top + 1 <= Max(two)
          BY <3>0, <4>5, <4>6
        <4>9. \A i \in highest(b) : i <= Max(two)
          <5>1. \A i \in highest(b) : i \in Nat
            BY <4>1
          <5> HIDE DEF two
          <5> QED
            BY <4>2, <4>3, <4>8, <5>1
        <4> HIDE DEF two, new
        <4> QED
          BY <4>7, <4>8, <4>9
      <3> HIDE DEF new, highest
      <3> QED
        BY <3>1, <3>2
    <2>3. \A a \in AuthoredBy(OnLedger) : a[1] \in Branches /\ a[2] <= new(a[1])
      <3>1. ASSUME NEW a \in AuthoredBy(OnLedger)
            PROVE  a[1] \in Branches /\ a[2] <= new(a[1])
        <4>1. a \in AuthoredBy(mined \cup unmined)
          BY DEF AuthoredBy, OnLedger
        <4>2. a \in Address /\ a[2] < txsMade
          BY <4>1, IndexBounds
        <4>3. a[1] \in Branches /\ a[2] \in Nat /\ a = <<a[1], a[2]>>
          BY <4>2 DEF Address
        <4>4. a[2] \in 0 .. MaxDiscovered - 1
          BY <4>2, <4>3, Limits DEF Bounded
        <4>5. a[2] \in highest(a[1])
          BY <4>3, <4>4
        <4> QED
          BY <2>2, <4>3, <4>5
      <3> QED
        BY <3>1
    <2> HIDE DEF new
    <2>4. [b \in Branches |-> new(b)] \in [Branches -> Nat]
      BY <2>2
    <2>5. /\ Recover(s) \in SeedType /\ Recover(s).recovered
          /\ Recover(s).scanned = s.scanned
          /\ \A b \in Branches : Recover(s).cursor[b] = new(b)
      BY <2>1, <2>4 DEF SeedType
    <2> QED
      BY <1>2, <2>2, <2>3, <2>5
  <1> QED
    BY <1>1, <1>2

-----------------------------------------------------------------------------
(* Discovery.                                                              *)

\* A scan moves the cursor of its branch past what it finds, to addresses it found unused,
\* and leaves the other branch as recovery left it.
LEMMA DiscoverEffect ==
    ASSUME Bounded, height \in Nat, NEW s \in SeedType,
           \A b \in Branches : s.cursor[b] <= txsMade, NEW b \in Branches
    PROVE  LET d == Discover(s, b) r == Recover(s) IN
           /\ d \in SeedType /\ d.recovered
           /\ \A x \in Branches : r.cursor[x] <= d.cursor[x] /\ d.cursor[x] <= txsMade
           /\ \A x \in Branches \ {b} : d.cursor[x] = r.cursor[x] /\ d.scanned[x] = s.scanned[x]
           /\ d.scanned[b] = TipHash
           /\ \A i \in d.cursor[b] .. d.cursor[b] + GapLimit - 1 : <<b, i>> \notin Lookup(r, b)
  <1> DEFINE r == Recover(s)
             c == r.cursor[b]
             E == ScanEnds(r, b)
             m == Min(E)
             hits == {i \in c .. m : <<b, i>> \in Lookup(r, b)}
             new == IF hits = {} THEN c ELSE Max(hits) + 1
  <1>1. r \in SeedType /\ r.recovered /\ r.scanned = s.scanned
        /\ \A x \in Branches : r.cursor[x] <= txsMade
    BY RecoverEffect
  <1> HIDE DEF r
  <1>2. c \in Nat /\ c <= txsMade /\ txsMade \in Nat /\ txsMade <= MaxTxs
    BY <1>1 DEF SeedType, Bounded
  <1>3. \A i \in Nat : <<b, i>> \in Lookup(r, b) => i < txsMade
    BY IndexBounds DEF Lookup
  <1>4. E \subseteq Nat /\ E # {}
    <2> DEFINE e == txsMade + GapLimit - 1
    <2>1. e \in c + GapLimit - 1 .. MaxDiscovered - 1
      BY <1>2, Limits
    <2>2. \A i \in e - GapLimit + 1 .. e : i \in Nat /\ ~(i < txsMade)
      BY <1>2, Limits
    <2>3. e \in E
      BY <1>3, <2>1, <2>2 DEF ScanEnds
    <2>4. \A x \in E : x \in c + GapLimit - 1 .. MaxDiscovered - 1
      BY DEF ScanEnds
    <2>5. \A x \in E : x \in Nat
      BY <1>2, <2>4, Limits
    <2> QED
      BY <2>3, <2>5
  <1>5. m \in E
    <2> HIDE DEF E
    <2> QED
      BY <1>4, LowestIndex
  <1>6. /\ m \in Nat /\ c + GapLimit - 1 <= m /\ m <= MaxDiscovered - 1
        /\ \A i \in m - GapLimit + 1 .. m : <<b, i>> \notin Lookup(r, b)
    <2>1. \A e \in E : /\ e \in c + GapLimit - 1 .. MaxDiscovered - 1
                       /\ \A i \in e - GapLimit + 1 .. e : <<b, i>> \notin Lookup(r, b)
      BY DEF ScanEnds
    <2>2. /\ m \in Nat /\ m \in c + GapLimit - 1 .. MaxDiscovered - 1
          /\ \A i \in m - GapLimit + 1 .. m : <<b, i>> \notin Lookup(r, b)
      <3> HIDE DEF E, m
      <3> QED
        BY <1>4, <1>5, <2>1
    <2> HIDE DEF E, m
    <2> QED
      BY <1>2, <2>2, Limits
  <1>7. Discover(s, b) = [r EXCEPT !.cursor[b] = new, !.scanned[b] = TipHash]
    BY <1>4 DEF Discover, r, SeedType
  <1> HIDE DEF E, m
  <1>8. /\ new \in Nat /\ c <= new /\ new <= txsMade
        /\ \A i \in new .. new + GapLimit - 1 : <<b, i>> \notin Lookup(r, b)
    <2>1. CASE hits = {}
      <3>1. \A i \in c .. c + GapLimit - 1 : i \in c .. m
        BY <1>2, <1>6, Limits
      <3>2. \A i \in c .. m : <<b, i>> \notin Lookup(r, b)
        BY <2>1
      <3> HIDE DEF hits
      <3> QED
        BY <1>2, <2>1, <3>1, <3>2
    <2>2. CASE hits # {}
      <3> DEFINE h == Max(hits)
      <3>1. hits \subseteq 0 .. m
        BY <1>2, <1>6
      <3>2. h \in hits /\ \A i \in hits : i <= h
        <4> HIDE DEF hits
        <4> QED
          BY <1>6, <2>2, <3>1, HighestIndex
      <3>3. h \in c .. m /\ h \in Nat /\ <<b, h>> \in Lookup(r, b)
        BY <1>2, <3>2
      <3>4. h < txsMade
        BY <1>3, <3>3
      <3>5. h + GapLimit <= m
        <4>1. h \notin m - GapLimit + 1 .. m
          BY <1>6, <3>3
        <4> HIDE DEF h
        <4> QED
          BY <1>6, <3>3, <4>1, Limits
      <3>6. ASSUME NEW i \in h + 1 .. h + GapLimit, <<b, i>> \in Lookup(r, b)
            PROVE  FALSE
        <4> HIDE DEF h
        <4>1. i \in c .. m /\ ~(i <= h)
          BY <1>2, <1>6, <3>3, <3>5, Limits
        <4> QED
          BY <3>2, <3>6, <4>1
      <3>7. new = h + 1
        BY <2>2
      <3> HIDE DEF new, h
      <3>8. new + GapLimit - 1 = h + GapLimit
        BY <3>3, <3>7, Limits
      <3> QED
        BY <1>2, <3>3, <3>4, <3>6, <3>7, <3>8
    <2> QED
      BY <2>1, <2>2
  <1> HIDE DEF new
  <1>9. TipHash \in Nat
    BY DEF TipHash
  <1>10. /\ Discover(s, b) \in SeedType /\ Discover(s, b).recovered
         /\ Discover(s, b).cursor[b] = new /\ Discover(s, b).scanned[b] = TipHash
         /\ \A x \in Branches \ {b} : /\ Discover(s, b).cursor[x] = r.cursor[x]
                                     /\ Discover(s, b).scanned[x] = r.scanned[x]
    <2>1. /\ r.cursor \in [Branches -> Nat] /\ r.scanned \in [Branches -> Nat \cup {-1}]
          /\ r.recovered \in BOOLEAN /\ DOMAIN r = {"cursor", "scanned", "recovered"}
      BY <1>1 DEF SeedType
    <2> DEFINE cs == [r.cursor EXCEPT ![b] = new]
               sc == [r.scanned EXCEPT ![b] = TipHash]
    <2>2. Discover(s, b) = [r EXCEPT !.cursor = cs, !.scanned = sc]
      BY <1>7, <2>1
    <2>3. /\ cs \in [Branches -> Nat] /\ cs[b] = new
          /\ \A x \in Branches \ {b} : cs[x] = r.cursor[x]
      BY <1>8, <2>1
    <2>4. /\ sc \in [Branches -> Nat \cup {-1}] /\ sc[b] = TipHash
          /\ \A x \in Branches \ {b} : sc[x] = r.scanned[x]
      BY <1>9, <2>1
    <2> HIDE DEF cs, sc
    <2>5. /\ Discover(s, b) \in SeedType
          /\ Discover(s, b).cursor = cs /\ Discover(s, b).scanned = sc
          /\ Discover(s, b).recovered = r.recovered
      BY <1>1, <2>2, <2>3, <2>4 DEF SeedType
    <2> QED
      BY <1>1, <2>3, <2>4, <2>5
  <1>11. \A x \in Branches : r.cursor[x] \in Nat
    BY <1>1 DEF SeedType
  <1> QED
    BY <1>1, <1>8, <1>10, <1>11 DEF r

\* Once the addresses at the cursor are known to be unused, a scan moves nothing.
LEMMA DiscoverIdle ==
    ASSUME NEW s \in SeedType, s.recovered, NEW b \in Branches,
           \A i \in s.cursor[b] .. s.cursor[b] + GapLimit - 1 : <<b, i>> \notin Lookup(s, b)
    PROVE  Discover(s, b).cursor = s.cursor
  <1> DEFINE c == s.cursor[b]
             E == ScanEnds(s, b)
             m == Min(E)
             hits == {i \in c .. m : <<b, i>> \in Lookup(s, b)}
  <1>1. Recover(s) = s
    BY DEF Recover
  <1>2. c \in Nat
    BY DEF SeedType
  <1>3. CASE E = {}
    BY <1>1, <1>3 DEF Discover
  <1>4. CASE E # {}
    <2>1. \A x \in E : x \in c + GapLimit - 1 .. MaxDiscovered - 1
      BY DEF ScanEnds
    <2>2. E \subseteq Nat
      BY <1>2, <2>1, Limits
    <2>3. m \in E /\ \A x \in E : m <= x
      <3> HIDE DEF E
      <3> QED
        BY <1>4, <2>2, LowestIndex
    <2> DEFINE e == c + GapLimit - 1
    <2>4. e \in c + GapLimit - 1 .. MaxDiscovered - 1
      <3>1. m \in c + GapLimit - 1 .. MaxDiscovered - 1
        BY <2>1, <2>3
      <3> HIDE DEF m
      <3> QED
        BY <1>2, <3>1, Limits
    <2>5. \A i \in e - GapLimit + 1 .. e : i \in c .. c + GapLimit - 1
      BY <1>2, Limits
    <2>6. e \in E
      BY <2>4, <2>5 DEF ScanEnds
    <2>7. m <= e /\ m \in Nat
      BY <2>2, <2>3, <2>6
    <2> HIDE DEF m, E
    <2>8. hits = {}
      <3>1. \A i \in c .. m : i \in c .. c + GapLimit - 1
        BY <1>2, <2>7, Limits
      <3> QED
        BY <3>1
    <2>9. Discover(s, b) = [s EXCEPT !.cursor[b] = c, !.scanned[b] = TipHash]
      BY <1>1, <1>4, <2>8 DEF Discover, E, m
    <2> QED
      BY <2>9 DEF SeedType
  <1> QED
    BY <1>3, <1>4

\* What a query of the wallet's addresses leaves: both branches are scanned at this tip, and
\* asking again moves nothing.
Queried(s) == Discover(Discover(s, "external"), "reward")

LEMMA QueryEffect ==
    ASSUME Bounded, height \in Nat, NEW s \in SeedType,
           \A b \in Branches : s.cursor[b] <= txsMade
    PROVE  LET q == Queried(s) r == Recover(s) IN
           /\ q \in SeedType /\ q.recovered
           /\ \A x \in Branches : /\ r.cursor[x] <= q.cursor[x] /\ q.cursor[x] <= txsMade
                                 /\ q.scanned[x] = TipHash
           /\ q.cursor["external"] = Discover(s, "external").cursor["external"]
           /\ <<"external", q.cursor["external"]>> \notin Lookup(r, "external")
           /\ CurrentAddress(q, "external") = <<"external", q.cursor["external"]>>
           /\ OwnedAfter(s) = {a \in Address : a[2] <= q.cursor[a[1]]}
  <1> DEFINE r == Recover(s)
             d == Discover(s, "external")
             q == Discover(d, "reward")
  <1>0. "external" \in Branches /\ "reward" \in Branches /\ "external" # "reward"
        /\ Branches \ {"external"} = {"reward"} /\ Branches \ {"reward"} = {"external"}
    BY DEF Branches
  <1>1. /\ d \in SeedType /\ d.recovered
        /\ \A x \in Branches : r.cursor[x] <= d.cursor[x] /\ d.cursor[x] <= txsMade
        /\ d.scanned["external"] = TipHash
        /\ \A i \in d.cursor["external"] .. d.cursor["external"] + GapLimit - 1 :
                <<"external", i>> \notin Lookup(r, "external")
    BY <1>0, DiscoverEffect
  <1>2. Recover(d) = d
    BY <1>1 DEF Recover
  <1> HIDE DEF d
  <1>3. /\ q \in SeedType /\ q.recovered
        /\ \A x \in Branches : d.cursor[x] <= q.cursor[x] /\ q.cursor[x] <= txsMade
        /\ q.cursor["external"] = d.cursor["external"]
        /\ q.scanned["external"] = TipHash /\ q.scanned["reward"] = TipHash
    BY <1>0, <1>1, <1>2, DiscoverEffect
  <1>4. r \in SeedType
    BY RecoverEffect
  <1> HIDE DEF q, r
  <1>5. /\ q.cursor["external"] \in Nat
        /\ \A x \in Branches : r.cursor[x] <= q.cursor[x] /\ q.scanned[x] = TipHash
    BY <1>0, <1>1, <1>3, <1>4 DEF SeedType, Branches
  <1>6. <<"external", q.cursor["external"]>> \notin Lookup(r, "external")
    BY <1>1, <1>3, <1>5, Limits
  <1>7. CurrentAddress(q, "external") = <<"external", q.cursor["external"]>>
    <2>1. Lookup(q, "external") \subseteq Lookup(r, "external")
      <3>1. Lookup(q, "external") = Index("external", unmined)
        BY <1>3 DEF Lookup
      <3>2. Lookup(r, "external") = Index("external", unmined)
            \/ Lookup(r, "external") = Index("external", OnLedger \cup unmined)
        BY DEF Lookup
      <3>3. Index("external", unmined) \subseteq Index("external", OnLedger \cup unmined)
        <4>1. UsedBy(unmined) \subseteq UsedBy(OnLedger \cup unmined)
          BY Indexed
        <4> QED
          BY <4>1 DEF Index
      <3> QED
        BY <3>1, <3>2, <3>3
    <2>2. Discover(q, "external").cursor = q.cursor
      BY <1>0, <1>1, <1>3, <2>1, DiscoverIdle
    <2> QED
      BY <2>2 DEF CurrentAddress
  <1>8. OwnedAfter(s) = {a \in Address : a[2] <= q.cursor[a[1]]}
    <2> DEFINE upto == {{<<b, i>> : i \in 0 .. q.cursor[b]} : b \in Branches}
    <2>1. OwnedAfter(s) = {<<b, i>> : b \in Branches, i \in 0 .. MaxDiscovered} \cap (UNION upto)
      BY DEF OwnedAfter, q, d
    <2>2. \A b \in Branches : q.cursor[b] \in Nat /\ q.cursor[b] <= MaxDiscovered
      BY <1>3, Limits DEF SeedType, Bounded
    <2>3. ASSUME NEW a \in OwnedAfter(s)
          PROVE  a \in Address /\ a[2] <= q.cursor[a[1]]
      <3>1. PICK B \in upto : a \in B
        <4> HIDE DEF upto
        <4>1. a \in UNION upto
          BY <2>1
        <4> QED
          BY <4>1
      <3>2. PICK b \in Branches : B = {<<b, i>> : i \in 0 .. q.cursor[b]}
        BY <3>1
      <3>3. PICK i \in 0 .. q.cursor[b] : a = <<b, i>>
        BY <3>1, <3>2
      <3>4. i \in Nat /\ a[1] = b /\ a[2] = i
        BY <2>2, <3>3
      <3> QED
        BY <3>3, <3>4 DEF Address
    <2>4. ASSUME NEW a \in Address, a[2] <= q.cursor[a[1]]
          PROVE  a \in OwnedAfter(s)
      <3>1. PICK b \in Branches, i \in Nat : a = <<b, i>>
        <4>1. a[1] \in Branches /\ a[2] \in Nat /\ a = <<a[1], a[2]>>
          BY DEF Address
        <4> QED
          BY <4>1
      <3>2. a[1] = b /\ a[2] = i /\ i \in 0 .. q.cursor[b] /\ i \in 0 .. MaxDiscovered
        <4>1. a[1] = b /\ a[2] = i
          BY <3>1
        <4>2. i <= q.cursor[b]
          BY <2>4, <4>1
        <4> QED
          BY <2>2, <4>1, <4>2, Limits
      <3>3. a \in {<<b, j>> : j \in 0 .. q.cursor[b]}
        BY <3>1, <3>2
      <3>4. {<<b, j>> : j \in 0 .. q.cursor[b]} \in upto
        OBVIOUS
      <3> HIDE DEF upto
      <3>5. a \in UNION upto
        BY <3>3, <3>4
      <3>6. a \in {<<x, j>> : x \in Branches, j \in 0 .. MaxDiscovered}
        BY <3>1, <3>2
      <3> QED
        BY <2>1, <3>5, <3>6
    <2> QED
      BY <2>3, <2>4
  <1> QED
    BY <1>3, <1>5, <1>6, <1>7, <1>8 DEF Queried, q, d, r

-----------------------------------------------------------------------------
(* Types.                                                                  *)

\* Where the seed is moved, it is moved within the types and never back.
LEMMA GrownSeed ==
    ASSUME AddressTypeInv,
           NEW q \in {Discover(seed, "external"), Discover(seed, "reward"), Queried(seed)}
    PROVE  /\ q \in SeedType /\ q.recovered
           /\ \A x \in Branches : /\ seed.cursor[x] <= q.cursor[x] /\ q.cursor[x] <= txsMade
                                 /\ q.scanned[x] <= height
           /\ ~seed.recovered => \A a \in AuthoredBy(OnLedger) : a[2] <= q.cursor[a[1]]
  <1> DEFINE r == Recover(seed)
  <1>0. "external" \in Branches /\ "reward" \in Branches /\ Branches = {"external", "reward"}
    BY DEF Branches
  <1>1. /\ Bounded /\ seed \in SeedType /\ height \in Nat \ {0}
        /\ \A b \in Branches : seed.cursor[b] <= txsMade
        /\ \A b \in Branches : seed.scanned[b] <= height
    BY TypeParts DEF AddressTypeInv
  <1>2. /\ r \in SeedType
        /\ \A b \in Branches : seed.cursor[b] <= r.cursor[b]
        /\ ~seed.recovered => \A a \in AuthoredBy(OnLedger) : a[2] <= r.cursor[a[1]]
    BY <1>1, RecoverEffect
  <1>3. TipHash <= height
    BY <1>1 DEF TipHash
  <1> HIDE DEF r
  <1>4. /\ q \in SeedType /\ q.recovered
        /\ \A x \in Branches : /\ r.cursor[x] <= q.cursor[x] /\ q.cursor[x] <= txsMade
                              /\ q.scanned[x] \in {seed.scanned[x], TipHash}
    <2>1. CASE q = Discover(seed, "external")
      BY <1>0, <1>1, <2>1, DiscoverEffect DEF r
    <2>2. CASE q = Discover(seed, "reward")
      BY <1>0, <1>1, <2>2, DiscoverEffect DEF r
    <2>3. CASE q = Queried(seed)
      BY <1>1, <2>3, QueryEffect DEF r
    <2> QED
      BY <2>1, <2>2, <2>3
  <1>5. \A x \in Branches : seed.cursor[x] \in Nat /\ r.cursor[x] \in Nat /\ q.cursor[x] \in Nat
    BY <1>1, <1>2, <1>4 DEF SeedType
  <1>6. \A x \in Branches : seed.cursor[x] <= q.cursor[x] /\ q.scanned[x] <= height
    BY <1>1, <1>2, <1>3, <1>4, <1>5
  <1>7. ASSUME ~seed.recovered, NEW a \in AuthoredBy(OnLedger)
        PROVE  a[2] <= q.cursor[a[1]]
    <2>1. a \in AuthoredBy(mined \cup unmined)
      <3>1. OnLedger \subseteq mined \cup unmined
        BY DEF OnLedger
      <3> QED
        BY <3>1, Indexed
    <2>2. a \in Address
      BY <1>1, <2>1, IndexBounds
    <2>3. a[1] \in Branches /\ a[2] \in Nat
      BY <2>2 DEF Address
    <2>4. a[2] <= r.cursor[a[1]]
      BY <1>2, <1>7
    <2> QED
      BY <1>4, <1>5, <2>3, <2>4
  <1> QED
    BY <1>4, <1>6, <1>7

\* A transaction of this wallet or one that pays it, made with the indexes known so far.
LEMMA NewTransaction ==
    ASSUME AddressTypeInv, txsMade < MaxTxs,
           NEW t \in WalletTx, \A a \in {t.from, t.pays, t.change} \ {Nothing} : a[2] <= txsMade,
           mined' \cup unmined' \subseteq mined \cup unmined \cup {t},
           txsMade' = txsMade + 1
    PROVE  /\ mined' \in SUBSET WalletTx /\ unmined' \in SUBSET WalletTx
           /\ txsMade' \in Nat /\ txsMade' <= MaxTxs
           /\ \A u \in mined' \cup unmined' : \A a \in {u.from, u.pays, u.change} \ {Nothing} :
                a[2] < txsMade'
  <1>1. txsMade \in Nat /\ MaxTxs \in Nat
    BY Limits DEF AddressTypeInv
  <1>2. ASSUME NEW u \in mined \cup unmined \cup {t},
               NEW a \in {u.from, u.pays, u.change} \ {Nothing}
        PROVE  u \in WalletTx /\ a[2] < txsMade'
    <2>1. u \in WalletTx
      BY DEF AddressTypeInv
    <2>2. a \in Address
      BY <2>1 DEF WalletTx
    <2>3. a[2] \in Nat
      BY <2>2 DEF Address
    <2>4. a[2] <= txsMade
      <3>1. CASE u = t
        BY <3>1
      <3>2. CASE u \in mined \cup unmined
        <4>1. a[2] < txsMade
          BY <3>2 DEF AddressTypeInv, IndexesBounded
        <4> QED
          BY <1>1, <2>3, <4>1
      <3> QED
        BY <3>1, <3>2
    <2> QED
      BY <1>1, <2>1, <2>3, <2>4
  <1>3. \A u \in mined' \cup unmined' : u \in WalletTx
    BY DEF AddressTypeInv
  <1> QED
    BY <1>1, <1>2, <1>3

\* An index in use stays in use when it moves from the pool to the chain or is abandoned.
LEMMA FewerTransactions ==
    ASSUME AddressTypeInv, mined' \cup unmined' \subseteq mined \cup unmined, txsMade' = txsMade
    PROVE  /\ mined' \in SUBSET WalletTx /\ unmined' \in SUBSET WalletTx
           /\ txsMade' \in Nat /\ txsMade' <= MaxTxs
           /\ \A u \in mined' \cup unmined' : \A a \in {u.from, u.pays, u.change} \ {Nothing} :
                a[2] < txsMade'
  BY DEF AddressTypeInv, IndexesBounded

\* What a spend writes: an owned address is spent, and the change goes back to it or to the
\* current external address.
SpendTx(q, from, burn) ==
    [from |-> from, pays |-> Nothing,
     change |-> IF burn THEN from ELSE <<"external", q.cursor["external"]>>]

LEMMA SpendEffect ==
    ASSUME AddressTypeInv, Spend
    PROVE  /\ seed' = Queried(seed) /\ joined /\ txsMade < MaxTxs
           /\ \E from \in Address, burn \in BOOLEAN :
                /\ from[2] <= seed'.cursor[from[1]]
                /\ unmined' = unmined \cup {SpendTx(seed', from, burn)}
                /\ SpendTx(seed', from, burn) \in WalletTx
                /\ LET t == SpendTx(seed', from, burn) IN
                   /\ \A a \in {t.from, t.pays, t.change} \ {Nothing} : a[2] <= txsMade
                   /\ \A a \in {t.from, t.change} : a[2] <= seed'.cursor[a[1]]
  <1> DEFINE q == Queried(seed)
  <1>1. seed' = q /\ joined /\ txsMade < MaxTxs
    BY DEF Spend, Queried
  <1>2. /\ q \in SeedType
        /\ \A x \in Branches : q.cursor[x] <= txsMade
        /\ OwnedAfter(seed) = {a \in Address : a[2] <= q.cursor[a[1]]}
        /\ CurrentAddress(q, "external") = <<"external", q.cursor["external"]>>
    BY TypeParts, QueryEffect DEF AddressTypeInv
  <1>3. PICK from \in Funded \cap OwnedAfter(seed), burn \in BOOLEAN :
            unmined' = unmined \cup {[from |-> from, pays |-> Nothing,
                change |-> IF burn THEN from ELSE CurrentAddress(q, "external")]}
    BY DEF Spend, Queried
  <1> HIDE DEF q
  <1>4. from \in Address /\ from[2] <= q.cursor[from[1]]
    BY <1>2, <1>3
  <1> DEFINE t == SpendTx(q, from, burn)
             cur == <<"external", q.cursor["external"]>>
  <1>5. unmined' = unmined \cup {t}
    BY <1>2, <1>3 DEF SpendTx
  <1>6. /\ from[1] \in Branches /\ from[2] \in Nat /\ from[2] <= txsMade
        /\ cur \in Address /\ cur[1] = "external" /\ cur[2] = q.cursor["external"]
        /\ cur[2] <= txsMade /\ cur[2] <= q.cursor[cur[1]]
    <2>1. from[1] \in Branches /\ from[2] \in Nat
      BY <1>4 DEF Address
    <2>2. "external" \in Branches
      BY DEF Branches
    <2>3. \A x \in Branches : q.cursor[x] \in Nat
      BY <1>2 DEF SeedType
    <2>4. txsMade \in Nat
      BY DEF AddressTypeInv
    <2> QED
      BY <1>2, <1>4, <2>1, <2>2, <2>3, <2>4 DEF Address
  <1>7. t.from = from /\ t.pays = Nothing /\ t.change \in {from, cur}
    BY DEF SpendTx
  <1>8. t \in WalletTx
    BY <1>4, <1>6 DEF SpendTx, WalletTx
  <1> HIDE DEF t, cur
  <1>9. /\ \A a \in {t.from, t.pays, t.change} \ {Nothing} : a[2] <= txsMade
        /\ \A a \in {t.from, t.change} : a[2] <= q.cursor[a[1]]
    BY <1>4, <1>6, <1>7
  <1>10. \E f \in Address, b \in BOOLEAN :
            /\ f[2] <= q.cursor[f[1]]
            /\ unmined' = unmined \cup {SpendTx(q, f, b)}
            /\ SpendTx(q, f, b) \in WalletTx
            /\ LET u == SpendTx(q, f, b) IN
               /\ \A a \in {u.from, u.pays, u.change} \ {Nothing} : a[2] <= txsMade
               /\ \A a \in {u.from, u.change} : a[2] <= q.cursor[a[1]]
    <2>1. from \in Address /\ from[2] <= q.cursor[from[1]]
      BY <1>4
    <2> USE <2>1
    <2> WITNESS from \in Address, burn \in BOOLEAN
    <2> QED
      BY <1>5, <1>8, <1>9 DEF t
  <1> QED
    BY <1>1, <1>10 DEF q

\* What a reward block pays: the current reward address.
LEMMA RewardEffect ==
    ASSUME AddressTypeInv
    PROVE  LET t == [from |-> Nothing, pays |-> CurrentAddress(seed, "reward"),
                     change |-> Nothing] IN
           /\ t \in WalletTx
           /\ \A a \in {t.from, t.pays, t.change} \ {Nothing} :
                a[1] = "reward" /\ a[2] <= txsMade
  <1> DEFINE d == Discover(seed, "reward")
             a == <<"reward", d.cursor["reward"]>>
  <1>1. d \in SeedType /\ \A x \in Branches : d.cursor[x] <= txsMade
    BY GrownSeed
  <1>2. CurrentAddress(seed, "reward") = a
    BY DEF CurrentAddress
  <1> HIDE DEF d
  <1>3. a \in Address /\ a[1] = "reward" /\ a[2] <= txsMade
    BY <1>1 DEF SeedType, Branches, Address
  <1> HIDE DEF a
  <1> QED
    BY <1>2, <1>3 DEF WalletTx

\* The type invariant follows from the transactions and the seed staying in their bounds.
LEMMA TypeFrom ==
    ASSUME mined' \in SUBSET WalletTx, unmined' \in SUBSET WalletTx,
           txsMade' \in Nat, txsMade' <= MaxTxs,
           \A u \in mined' \cup unmined' : \A a \in {u.from, u.pays, u.change} \ {Nothing} :
                a[2] < txsMade',
           height' \in Nat \ {0}, joined' \in BOOLEAN, joinsLate' \in BOOLEAN,
           restarts' \in Nat,
           seed' \in SeedType,
           \A x \in Branches : seed'.cursor[x] <= txsMade' /\ seed'.scanned[x] <= height',
           handedOut' \in SUBSET Address,
           \A a \in handedOut' : a[1] = "external" /\ a[2] <= txsMade'
    PROVE  AddressTypeInv'
  BY DEF AddressTypeInv, IndexesBounded, SeedType, WalletTx, Address

\* What an address that was handed out is, at a later count of transactions too.
LEMMA HandedOutType ==
    ASSUME AddressTypeInv
    PROVE  /\ handedOut \in SUBSET Address
           /\ \A a \in handedOut : a[1] = "external" /\ a[2] <= txsMade /\ a[2] <= txsMade + 1
           /\ \A x \in Branches : /\ seed.cursor[x] \in Nat /\ seed.scanned[x] \in Int
                                 /\ seed.cursor[x] <= txsMade /\ seed.cursor[x] <= txsMade + 1
                                 /\ seed.scanned[x] <= height /\ seed.scanned[x] <= height + 1
           /\ seed \in SeedType /\ txsMade \in Nat /\ height \in Nat \ {0}
           /\ height + 1 \in Nat \ {0}
           /\ joined \in BOOLEAN /\ joinsLate \in BOOLEAN /\ restarts \in Nat
           /\ mined \in SUBSET WalletTx /\ unmined \in SUBSET WalletTx
  <1>1. handedOut \in SUBSET Address /\ txsMade \in Nat /\ height \in Nat \ {0}
        /\ seed \in SeedType
    BY DEF AddressTypeInv, SeedType
  <1>2. \A a \in handedOut : a[1] = "external" /\ a[2] <= txsMade /\ a[2] \in Nat
    BY <1>1 DEF AddressTypeInv, IndexesBounded, Address
  <1>3. \A x \in Branches : /\ seed.cursor[x] \in Nat /\ seed.scanned[x] \in Int
                            /\ seed.cursor[x] <= txsMade /\ seed.scanned[x] <= height
    BY <1>1 DEF AddressTypeInv, IndexesBounded, SeedType
  <1> QED
    BY <1>1, <1>2, <1>3 DEF AddressTypeInv

\* The types hold throughout.
LEMMA AddressTypeStep == AddressTypeInv /\ [AddressNext]_addressVars => AddressTypeInv'
  <1> SUFFICES ASSUME AddressTypeInv, [AddressNext]_addressVars
               PROVE  AddressTypeInv'
    OBVIOUS
  <1>1. CASE QueryOwned
    <2>1. seed' = Queried(seed)
      BY <1>1 DEF QueryOwned, Queried
    <2>2. /\ seed' \in SeedType
          /\ \A x \in Branches : seed'.cursor[x] <= txsMade /\ seed'.scanned[x] <= height
      BY <2>1, GrownSeed
    <2> QED
      BY <1>1, <2>2, FewerTransactions, HandedOutType, TypeFrom DEF QueryOwned
  <1>2. CASE ShowReceiveAddress
    <2>1. seed' = Discover(seed, "external")
      BY <1>2 DEF ShowReceiveAddress
    <2>2. /\ seed' \in SeedType
          /\ \A x \in Branches : seed'.cursor[x] <= txsMade /\ seed'.scanned[x] <= height
      BY <2>1, GrownSeed
    <2> DEFINE shown == <<"external", seed'.cursor["external"]>>
    <2>3. handedOut' = handedOut \cup {shown}
      BY <1>2, <2>1 DEF ShowReceiveAddress, CurrentAddress
    <2>4. shown \in Address /\ shown[1] = "external" /\ shown[2] <= txsMade
      BY <2>2 DEF SeedType, Branches, Address
    <2> HIDE DEF shown
    <2>5. handedOut' \in SUBSET Address /\ \A a \in handedOut' : a[1] = "external" /\ a[2] <= txsMade
      BY <2>3, <2>4, HandedOutType
    <2> QED
      BY <1>2, <2>2, <2>5, FewerTransactions, HandedOutType, TypeFrom DEF ShowReceiveAddress
  <1>3. CASE Spend
    <2>1. seed' = Queried(seed) /\ txsMade < MaxTxs
      BY <1>3, SpendEffect
    <2>2. PICK from \in Address, burn \in BOOLEAN :
            /\ unmined' = unmined \cup {SpendTx(seed', from, burn)}
            /\ SpendTx(seed', from, burn) \in WalletTx
            /\ LET t == SpendTx(seed', from, burn) IN
               \A a \in {t.from, t.pays, t.change} \ {Nothing} : a[2] <= txsMade
      BY <1>3, SpendEffect
    <2> DEFINE t == SpendTx(seed', from, burn)
    <2>3. /\ seed' \in SeedType
          /\ \A x \in Branches : seed'.cursor[x] <= txsMade /\ seed'.scanned[x] <= height
      BY <2>1, GrownSeed
    <2>4. \A x \in Branches : seed'.cursor[x] <= txsMade + 1
      BY <2>3, HandedOutType DEF SeedType
    <2> HIDE DEF t
    <2>5. mined' = mined /\ unmined' = unmined \cup {t} /\ txsMade' = txsMade + 1
          /\ t \in WalletTx /\ \A a \in {t.from, t.pays, t.change} \ {Nothing} : a[2] <= txsMade
      BY <1>3, <2>2 DEF Spend, t
    <2>6. /\ mined' \in SUBSET WalletTx /\ unmined' \in SUBSET WalletTx
          /\ txsMade' \in Nat /\ txsMade' <= MaxTxs
          /\ \A u \in mined' \cup unmined' : \A a \in {u.from, u.pays, u.change} \ {Nothing} :
                a[2] < txsMade'
      BY <2>1, <2>5, NewTransaction
    <2> QED
      BY <1>3, <2>3, <2>4, <2>5, <2>6, HandedOutType, TypeFrom DEF Spend
  <1>4. CASE IsPaid
    <2>1. PICK a \in handedOut :
            unmined' = unmined \cup {[from |-> Nothing, pays |-> a, change |-> Nothing]}
      BY <1>4 DEF IsPaid
    <2> DEFINE t == [from |-> Nothing, pays |-> a, change |-> Nothing]
    <2>2. t \in WalletTx /\ \A x \in {t.from, t.pays, t.change} \ {Nothing} : x[2] <= txsMade
      BY HandedOutType DEF WalletTx
    <2> HIDE DEF t
    <2>3. mined' = mined /\ unmined' = unmined \cup {t} /\ txsMade' = txsMade + 1
          /\ txsMade < MaxTxs
      BY <1>4, <2>1 DEF IsPaid, t
    <2>4. /\ mined' \in SUBSET WalletTx /\ unmined' \in SUBSET WalletTx
          /\ txsMade' \in Nat /\ txsMade' <= MaxTxs
          /\ \A u \in mined' \cup unmined' : \A x \in {u.from, u.pays, u.change} \ {Nothing} :
                x[2] < txsMade'
      BY <2>2, <2>3, NewTransaction
    <2> QED
      BY <1>4, <2>3, <2>4, HandedOutType, TypeFrom DEF IsPaid
  <1>5. CASE BlockConfirms
    <2>1. PICK txs \in SUBSET unmined, reward \in BOOLEAN :
            /\ reward => txsMade < MaxTxs
            /\ mined' = mined \cup txs \cup
                (IF reward THEN {[from |-> Nothing, pays |-> CurrentAddress(seed, "reward"),
                                  change |-> Nothing]} ELSE {})
            /\ unmined' = unmined \ txs
            /\ seed' = IF reward THEN Discover(seed, "reward") ELSE seed
            /\ txsMade' = IF reward THEN txsMade + 1 ELSE txsMade
      BY <1>5 DEF BlockConfirms
    <2>2. height' = height + 1
      BY <1>5 DEF BlockConfirms
    <2>3. CASE reward
      <3> DEFINE t == [from |-> Nothing, pays |-> CurrentAddress(seed, "reward"),
                       change |-> Nothing]
      <3>1. t \in WalletTx /\ \A a \in {t.from, t.pays, t.change} \ {Nothing} : a[2] <= txsMade
        BY RewardEffect
      <3>2. mined' = mined \cup txs \cup {t}
        BY <2>1, <2>3
      <3> HIDE DEF t
      <3>3. mined' \cup unmined' \subseteq mined \cup unmined \cup {t}
        BY <2>1, <3>2
      <3>4. /\ mined' \in SUBSET WalletTx /\ unmined' \in SUBSET WalletTx
            /\ txsMade' \in Nat /\ txsMade' <= MaxTxs
            /\ \A u \in mined' \cup unmined' : \A a \in {u.from, u.pays, u.change} \ {Nothing} :
                  a[2] < txsMade'
        BY <2>1, <2>3, <3>1, <3>3, NewTransaction
      <3>5. /\ seed' \in SeedType
            /\ \A x \in Branches : seed'.cursor[x] <= txsMade /\ seed'.scanned[x] <= height
        BY <2>1, <2>3, GrownSeed
      <3>6. \A x \in Branches : seed'.cursor[x] <= txsMade + 1 /\ seed'.scanned[x] <= height + 1
        BY <3>5, HandedOutType DEF SeedType
      <3> QED
        BY <1>5, <2>1, <2>2, <2>3, <3>4, <3>5, <3>6, HandedOutType, TypeFrom DEF BlockConfirms
    <2>4. CASE ~reward
      <3>1. mined' \cup unmined' \subseteq mined \cup unmined /\ txsMade' = txsMade /\ seed' = seed
        BY <2>1, <2>4
      <3>2. /\ mined' \in SUBSET WalletTx /\ unmined' \in SUBSET WalletTx
            /\ txsMade' \in Nat /\ txsMade' <= MaxTxs
            /\ \A u \in mined' \cup unmined' : \A a \in {u.from, u.pays, u.change} \ {Nothing} :
                  a[2] < txsMade'
        BY <3>1, FewerTransactions
      <3> QED
        BY <1>5, <2>2, <3>1, <3>2, HandedOutType, TypeFrom DEF BlockConfirms
    <2> QED
      BY <2>3, <2>4
  <1>6. CASE TransactionAbandoned
    <2>1. mined' \cup unmined' \subseteq mined \cup unmined /\ txsMade' = txsMade
      BY <1>6 DEF TransactionAbandoned
    <2> QED
      BY <1>6, <2>1, FewerTransactions, HandedOutType, TypeFrom DEF TransactionAbandoned
  <1>7. CASE Restart
    <2>1. mined' \cup unmined' \subseteq mined \cup unmined /\ txsMade' = txsMade
      BY <1>7 DEF Restart
    <2>2. FreshSeed \in SeedType
          /\ \A x \in Branches : FreshSeed.cursor[x] <= txsMade /\ FreshSeed.scanned[x] <= height
      BY HandedOutType DEF FreshSeed, SeedType
    <2>3. joined' \in BOOLEAN /\ joinsLate' \in BOOLEAN
      BY <1>7 DEF Restart
    <2> QED
      BY <1>7, <2>1, <2>2, <2>3, FewerTransactions, HandedOutType, TypeFrom DEF Restart
  <1>8. CASE JoinChain
    <2>1. mined' \cup unmined' \subseteq mined \cup unmined /\ txsMade' = txsMade
      BY <1>8 DEF JoinChain
    <2> QED
      BY <1>8, <2>1, FewerTransactions, HandedOutType, TypeFrom DEF JoinChain
  <1>9. CASE UNCHANGED addressVars
    BY <1>9 DEF addressVars, AddressTypeInv, IndexesBounded
  <1> QED
    BY <1>1, <1>2, <1>3, <1>4, <1>5, <1>6, <1>7, <1>8, <1>9 DEF AddressNext

-----------------------------------------------------------------------------
(* Receive addresses are fresh.                                            *)

\* A scan of the external branch before any restart leaves the cursor past every external
\* address in use, although it may have looked at the pool alone.
LEMMA ScannedExternal ==
    ASSUME AddressTypeInv, CursorLeads, restarts = 0,
           NEW q \in {Discover(seed, "external"), Queried(seed)}
    PROVE  \A a \in UsedBy(mined \cup unmined) :
                a[1] = "external" => a[2] < q.cursor["external"]
  <1> DEFINE r == Recover(seed)
             c == seed.cursor["external"]
             n == q.cursor["external"]
  <1>0. "external" \in Branches
    BY DEF Branches
  <1>1. /\ Bounded /\ seed \in SeedType /\ height \in Nat \ {0}
        /\ \A b \in Branches : seed.cursor[b] <= txsMade
    BY TypeParts DEF AddressTypeInv
  <1>2. /\ r \in SeedType /\ r.scanned = seed.scanned /\ c <= r.cursor["external"]
    BY <1>0, <1>1, RecoverEffect
  <1> HIDE DEF r
  <1>3. /\ q \in SeedType /\ r.cursor["external"] <= n
        /\ <<"external", n>> \notin Lookup(r, "external")
    <2>1. CASE q = Discover(seed, "external")
      <3>1. /\ q \in SeedType /\ r.cursor["external"] <= n
            /\ \A i \in n .. n + GapLimit - 1 : <<"external", i>> \notin Lookup(r, "external")
        BY <1>0, <1>1, <2>1, DiscoverEffect DEF r
      <3>2. n \in Nat
        BY <1>0, <3>1 DEF SeedType
      <3>3. n \in n .. n + GapLimit - 1
        BY <3>2, Limits
      <3> QED
        BY <3>1, <3>3
    <2>2. CASE q = Queried(seed)
      BY <1>0, <1>1, <2>2, QueryEffect DEF r
    <2> QED
      BY <2>1, <2>2
  <1>4. c \in Nat /\ n \in Nat /\ r.cursor["external"] \in Nat
    BY <1>0, <1>1, <1>2, <1>3 DEF SeedType
  <1>5. ASSUME NEW a \in UsedBy(mined \cup unmined), a[1] = "external", ~(a[2] < n)
        PROVE  FALSE
    <2>1. a \in Address
      BY <1>1, IndexBounds
    <2>2. a[2] \in Nat /\ a = <<"external", a[2]>>
      BY <1>5, <2>1 DEF Address
    <2>3. a[2] <= c
      BY <1>5 DEF CursorLeads
    <2>4. a[2] = n /\ a[2] = c
      BY <1>2, <1>3, <1>4, <1>5, <2>2, <2>3
    <2>5. a = <<"external", n>> /\ a = <<"external", c>>
      BY <2>2, <2>4
    <2>6. TipHash = height /\ OnLedger = mined
      BY DEF CursorLeads, TipHash, OnLedger
    <2>7. a \in UsedBy(mined) \/ a \in UsedBy(unmined)
      BY <1>5, Indexed
    <2>8. CASE a \in UsedBy(mined)
      <3>1. seed.scanned["external"] # height
        BY <2>5, <2>8 DEF CursorLeads
      <3>2. Lookup(r, "external") = UsedBy(mined \cup unmined)
        BY <1>2, <2>6, <3>1 DEF Lookup, Index
      <3> QED
        BY <1>3, <1>5, <2>5, <3>2
    <2>9. CASE a \in UsedBy(unmined)
      <3>1. Lookup(r, "external") \in {UsedBy(unmined), UsedBy(mined \cup unmined)}
        BY <2>6 DEF Lookup, Index
      <3> QED
        BY <1>3, <1>5, <2>5, <2>9, <3>1
    <2> QED
      BY <2>7, <2>8, <2>9
  <1> QED
    BY <1>5

\* Addresses taken into use, or out of it, while the cursor stays where it leads.
LEMMA LeadsFrom ==
    ASSUME restarts' = 0 => /\ joined'
                            /\ \A a \in handedOut' : a[2] <= seed'.cursor["external"],
           restarts' = 0 => \A a \in UsedBy(mined' \cup unmined') :
                a[1] = "external" => a[2] <= seed'.cursor["external"],
           restarts' = 0 => (<<"external", seed'.cursor["external"]>> \in UsedBy(mined') =>
                seed'.scanned["external"] # height')
    PROVE  CursorLeads'
  BY DEF CursorLeads, UsedBy

\* After a scan of the external branch, with at most the current address taken into use.
LEMMA LeadsAfterScan ==
    ASSUME AddressTypeInv, CursorLeads, mined' = mined, joined' = joined, restarts' = restarts,
           seed' \in {Discover(seed, "external"), Queried(seed)},
           \A a \in UsedBy(unmined') : \/ a \in UsedBy(unmined)
                                       \/ a[1] = "external" => a[2] <= seed'.cursor["external"],
           \A a \in handedOut' : a \in handedOut \/ a[2] <= seed'.cursor["external"]
    PROVE  CursorLeads'
  <1> SUFFICES ASSUME restarts = 0
               PROVE  CursorLeads'
    BY LeadsFrom
  <1>1. \A a \in UsedBy(mined \cup unmined) :
            a[1] = "external" => a[2] < seed'.cursor["external"]
    BY ScannedExternal
  <1>2. /\ seed' \in SeedType /\ "external" \in Branches
        /\ seed.cursor["external"] <= seed'.cursor["external"]
    BY GrownSeed DEF Branches
  <1>3. seed'.cursor["external"] \in Nat /\ seed.cursor["external"] \in Nat
    BY <1>2, HandedOutType DEF SeedType
  <1>4. ASSUME NEW a \in UsedBy(mined \cup unmined)
        PROVE  a \in Address /\ a[2] \in Nat
    <2>1. a \in Address
      BY IndexBounds, TypeParts
    <2> QED
      BY <2>1 DEF Address
  <1>5. joined' /\ \A a \in handedOut' : a[2] <= seed'.cursor["external"]
    <2>1. \A a \in handedOut : a[2] <= seed.cursor["external"] /\ a[2] \in Nat
      BY HandedOutType DEF CursorLeads, Address
    <2>2. \A a \in handedOut : a[2] <= seed'.cursor["external"]
      BY <1>2, <1>3, <2>1
    <2> QED
      BY <2>2 DEF CursorLeads
  <1>6. \A a \in UsedBy(mined' \cup unmined') :
            a[1] = "external" => a[2] <= seed'.cursor["external"]
    <2>1. ASSUME NEW a \in UsedBy(mined' \cup unmined'), a[1] = "external"
          PROVE  a[2] <= seed'.cursor["external"]
      <3>1. a \in UsedBy(mined) \/ a \in UsedBy(unmined')
        BY <2>1, Indexed
      <3>2. CASE a \in UsedBy(mined) \/ a \in UsedBy(unmined)
        <4>1. a \in UsedBy(mined \cup unmined)
          BY <3>2, Indexed
        <4>2. a[2] < seed'.cursor["external"] /\ a[2] \in Nat
          BY <1>1, <1>4, <2>1, <4>1
        <4> QED
          BY <1>3, <4>2
      <3>3. CASE a \in UsedBy(unmined') /\ a \notin UsedBy(unmined)
        BY <2>1, <3>3
      <3> QED
        BY <3>1, <3>2, <3>3
    <2> QED
      BY <2>1
  <1>7. <<"external", seed'.cursor["external"]>> \notin UsedBy(mined')
    <2> DEFINE a == <<"external", seed'.cursor["external"]>>
    <2>1. SUFFICES ASSUME a \in UsedBy(mined)
                   PROVE  FALSE
      OBVIOUS
    <2>2. a \in UsedBy(mined \cup unmined)
      BY <2>1, Indexed
    <2>3. a[1] = "external" /\ a[2] = seed'.cursor["external"]
      OBVIOUS
    <2> QED
      BY <1>1, <1>3, <2>2, <2>3
  <1> QED
    BY <1>5, <1>6, <1>7, LeadsFrom

\* The cursor leads the external addresses in use until a restart.
LEMMA CursorLeadsStep ==
    AddressTypeInv /\ CursorLeads /\ [AddressNext]_addressVars => CursorLeads'
  <1> SUFFICES ASSUME AddressTypeInv, CursorLeads, [AddressNext]_addressVars
               PROVE  CursorLeads'
    OBVIOUS
  <1>0. "external" \in Branches
    BY DEF Branches
  <1>1. CASE QueryOwned
    <2>1. seed' = Queried(seed)
      BY <1>1 DEF QueryOwned, Queried
    <2> QED
      BY <1>1, <2>1, LeadsAfterScan DEF QueryOwned
  <1>2. CASE ShowReceiveAddress
    <2>1. seed' = Discover(seed, "external")
          /\ handedOut' = handedOut \cup {<<"external", seed'.cursor["external"]>>}
      BY <1>2 DEF ShowReceiveAddress, CurrentAddress
    <2>2. seed'.cursor["external"] <= seed'.cursor["external"]
      BY <1>0, <2>1, GrownSeed DEF SeedType
    <2> QED
      BY <1>2, <2>1, <2>2, LeadsAfterScan DEF ShowReceiveAddress
  <1>3. CASE Spend
    <2>1. seed' = Queried(seed)
      BY <1>3, SpendEffect
    <2>2. PICK from \in Address, burn \in BOOLEAN :
            /\ unmined' = unmined \cup {SpendTx(seed', from, burn)}
            /\ LET t == SpendTx(seed', from, burn) IN
               \A a \in {t.from, t.change} : a[2] <= seed'.cursor[a[1]]
      BY <1>3, SpendEffect
    <2>3. \A a \in UsedBy(unmined') : \/ a \in UsedBy(unmined)
                                      \/ a[1] = "external" => a[2] <= seed'.cursor["external"]
      <3> DEFINE t == SpendTx(seed', from, burn)
      <3>1. t.pays = Nothing /\ unmined' = unmined \cup {t}
            /\ t.change[2] <= seed'.cursor[t.change[1]]
        BY <2>2 DEF SpendTx
      <3> HIDE DEF t
      <3>2. \A a \in UsedBy(unmined \cup {t}) : a \in UsedBy(unmined) \/ a = t.change
        BY <3>1, Indexed
      <3> QED
        BY <3>1, <3>2
    <2> QED
      BY <1>3, <2>1, <2>3, LeadsAfterScan DEF Spend
  <1>4. CASE IsPaid
    <2>1. PICK h \in handedOut :
            unmined' = unmined \cup {[from |-> Nothing, pays |-> h, change |-> Nothing]}
      BY <1>4 DEF IsPaid
    <2> DEFINE t == [from |-> Nothing, pays |-> h, change |-> Nothing]
    <2>2. t.pays = h /\ t.change = Nothing
      OBVIOUS
    <2> HIDE DEF t
    <2>3. \A a \in UsedBy(mined \cup (unmined \cup {t})) :
            a \in UsedBy(mined \cup unmined) \/ a = h
      BY <2>2, Indexed
    <2>4. unmined' = unmined \cup {t}
      BY <2>1 DEF t
    <2> QED
      BY <1>4, <2>3, <2>4, LeadsFrom DEF IsPaid, CursorLeads
  <1>5. CASE BlockConfirms
    <2>1. PICK txs \in SUBSET unmined, reward \in BOOLEAN :
            /\ mined' = mined \cup txs \cup
                (IF reward THEN {[from |-> Nothing, pays |-> CurrentAddress(seed, "reward"),
                                  change |-> Nothing]} ELSE {})
            /\ unmined' = unmined \ txs
            /\ seed' = IF reward THEN Discover(seed, "reward") ELSE seed
      BY <1>5 DEF BlockConfirms
    <2> DEFINE t == [from |-> Nothing, pays |-> CurrentAddress(seed, "reward"),
                     change |-> Nothing]
    <2>2. t.change = Nothing /\ (t.pays # Nothing => t.pays[1] = "reward")
      BY RewardEffect
    <2>3. mined' \cup unmined' \subseteq mined \cup unmined \cup {t}
      BY <2>1
    <2> HIDE DEF t
    <2>4. \A a \in UsedBy(mined' \cup unmined') :
            a[1] = "external" => a \in UsedBy(mined \cup unmined)
      <3>1. \A a \in UsedBy(mined' \cup unmined') : a \in UsedBy(mined \cup unmined) \/ a = t.pays
        BY <2>2, <2>3, Indexed
      <3>2. \A a \in UsedBy(mined' \cup unmined') : a # Nothing
        BY Indexed
      <3> QED
        BY <2>2, <3>1, <3>2
    <2>5. /\ seed.cursor["external"] <= seed'.cursor["external"]
          /\ seed'.scanned["external"] = seed.scanned["external"]
          /\ seed'.cursor["external"] \in Nat
      <3>1. CASE reward
        <4>1. seed' = Discover(seed, "reward")
          BY <2>1, <3>1
        <4>2. seed' \in SeedType /\ seed.cursor["external"] <= seed'.cursor["external"]
          BY <1>0, <4>1, GrownSeed
        <4>3. /\ "reward" \in Branches /\ "external" \in Branches \ {"reward"}
          BY DEF Branches
        <4>4. seed'.scanned["external"] = seed.scanned["external"]
          BY <4>1, <4>3, TypeParts, DiscoverEffect DEF AddressTypeInv
        <4> QED
          BY <1>0, <4>2, <4>4 DEF SeedType
      <3>2. CASE ~reward
        BY <1>0, <2>1, <3>2, HandedOutType
      <3> QED
        BY <3>1, <3>2
    <2>6. seed'.scanned["external"] # height'
      BY <1>0, <1>5, <2>5, HandedOutType DEF BlockConfirms
    <2>7. restarts = 0 => \A a \in UsedBy(mined' \cup unmined') :
            a[1] = "external" => a[2] <= seed'.cursor["external"]
      <3>1. ASSUME restarts = 0, NEW a \in UsedBy(mined \cup unmined), a[1] = "external"
            PROVE  a[2] <= seed'.cursor["external"]
        <4>1. a \in Address
          BY IndexBounds, TypeParts
        <4>2. a[2] \in Nat /\ a[2] <= seed.cursor["external"]
          BY <3>1, <4>1 DEF CursorLeads, Address
        <4> QED
          BY <1>0, <2>5, <4>2, HandedOutType
      <3> QED
        BY <2>4, <3>1
    <2>8. restarts = 0 => joined /\ \A a \in handedOut : a[2] <= seed'.cursor["external"]
      <3>1. ASSUME restarts = 0, NEW a \in handedOut
            PROVE  a[2] <= seed'.cursor["external"]
        <4>1. a[2] <= seed.cursor["external"] /\ a[2] \in Nat
          BY <3>1, HandedOutType DEF CursorLeads, Address
        <4> QED
          BY <1>0, <2>5, <4>1, HandedOutType
      <3> QED
        BY <3>1 DEF CursorLeads
    <2> QED
      BY <1>5, <2>6, <2>7, <2>8, LeadsFrom DEF BlockConfirms
  <1>6. CASE TransactionAbandoned
    <2>1. unmined' \subseteq unmined /\ mined' = mined
      BY <1>6 DEF TransactionAbandoned
    <2>2. \A a \in UsedBy(mined' \cup unmined') : a \in UsedBy(mined \cup unmined)
      BY <2>1, Indexed
    <2> QED
      BY <1>6, <2>2, LeadsFrom DEF TransactionAbandoned, CursorLeads
  <1>7. CASE Restart
    <2>1. restarts' # 0
      BY <1>7, HandedOutType DEF Restart
    <2> QED
      BY <2>1 DEF CursorLeads
  <1>8. CASE JoinChain
    BY <1>8, LeadsFrom DEF JoinChain, CursorLeads
  <1>9. CASE UNCHANGED addressVars
    BY <1>9 DEF addressVars, CursorLeads, UsedBy
  <1> QED
    BY <1>1, <1>2, <1>3, <1>4, <1>5, <1>6, <1>7, <1>8, <1>9 DEF AddressNext

-----------------------------------------------------------------------------
(* Authored addresses are found again.                                     *)

\* A moved seed is recovered, and its cursors lead every authored address there was.
LEMMA RecoveredAfter ==
    ASSUME AddressTypeInv, RecoveredLeads, ~joinsLate,
           NEW q \in {Discover(seed, "external"), Discover(seed, "reward"), Queried(seed)}
    PROVE  \A a \in AuthoredBy(mined \cup unmined) : a[2] <= q.cursor[a[1]]
  <1>1. /\ q \in SeedType
        /\ \A x \in Branches : seed.cursor[x] <= q.cursor[x]
        /\ ~seed.recovered => \A a \in AuthoredBy(OnLedger) : a[2] <= q.cursor[a[1]]
    BY GrownSeed
  <1>2. joined
    BY DEF RecoveredLeads
  <1>3. OnLedger = mined
    BY <1>2 DEF OnLedger
  <1>4. ASSUME NEW a \in AuthoredBy(mined \cup unmined)
        PROVE  a[2] <= q.cursor[a[1]]
    <2>1. a \in Address
      BY IndexBounds, TypeParts
    <2>2. a[1] \in Branches /\ a[2] \in Nat
      BY <2>1 DEF Address
    <2>3. CASE seed.recovered
      <3>1. a[2] <= seed.cursor[a[1]] /\ seed.cursor[a[1]] <= q.cursor[a[1]]
        BY <1>1, <2>2, <2>3 DEF RecoveredLeads
      <3>2. seed.cursor[a[1]] \in Nat /\ q.cursor[a[1]] \in Nat
        BY <1>1, <2>2, HandedOutType DEF SeedType
      <3> QED
        BY <2>2, <3>1, <3>2
    <2>4. CASE ~seed.recovered
      <3>1. a \in AuthoredBy(mined) \/ a \in AuthoredBy(unmined)
        BY Indexed
      <3>2. a \in AuthoredBy(mined)
        BY <2>4, <3>1 DEF RecoveredLeads
      <3> QED
        BY <1>1, <1>3, <2>4, <3>2
    <2> QED
      BY <2>3, <2>4
  <1> QED
    BY <1>4

\* No step but a spend adds an authored address.
LEMMA AuthoredFewer ==
    ASSUME AddressTypeInv, RecoveredLeads, joined' = joined, joinsLate' = joinsLate,
           \A t \in mined' \cup unmined' : t \in mined \cup unmined \/ t.from = Nothing,
           \A t \in unmined' : t \in unmined \/ t.from = Nothing,
           seed' \in {seed, Discover(seed, "external"), Discover(seed, "reward"), Queried(seed)}
    PROVE  RecoveredLeads'
  <1>1. \A a \in AuthoredBy(mined' \cup unmined') : a \in AuthoredBy(mined \cup unmined)
    BY Indexed
  <1>2. \A a \in AuthoredBy(unmined') : a \in AuthoredBy(unmined)
    BY Indexed
  <1>3. CASE seed' = seed
    <2>1. AuthoredBy(unmined) = {} => AuthoredBy(unmined') = {}
      BY <1>2
    <2>2. AuthoredBy(mined' \cup unmined') \subseteq AuthoredBy(mined \cup unmined)
      BY <1>1
    <2>3. AuthoredBy(unmined)' = AuthoredBy(unmined')
          /\ AuthoredBy(mined \cup unmined)' = AuthoredBy(mined' \cup unmined')
      BY DEF AuthoredBy
    <2> QED
      BY <1>3, <2>1, <2>2, <2>3 DEF RecoveredLeads
  <1>4. CASE seed' # seed
    <2>1. seed' \in {Discover(seed, "external"), Discover(seed, "reward"), Queried(seed)}
      BY <1>4
    <2>2. seed'.recovered
      BY <2>1, GrownSeed
    <2>3. ~joinsLate => \A a \in AuthoredBy(mined' \cup unmined') : a[2] <= seed'.cursor[a[1]]
      BY <1>1, <2>1, RecoveredAfter
    <2>4. AuthoredBy(mined \cup unmined)' = AuthoredBy(mined' \cup unmined')
      BY DEF AuthoredBy
    <2> QED
      BY <2>2, <2>3, <2>4 DEF RecoveredLeads
  <1> QED
    BY <1>3, <1>4

\* Cursors lead what the wallet authored, from recovery on.
LEMMA RecoveredLeadsStep ==
    AddressTypeInv /\ RecoveredLeads /\ [AddressNext]_addressVars => RecoveredLeads'
  <1> SUFFICES ASSUME AddressTypeInv, RecoveredLeads, [AddressNext]_addressVars
               PROVE  RecoveredLeads'
    OBVIOUS
  <1>1. CASE QueryOwned
    BY <1>1, AuthoredFewer DEF QueryOwned, Queried
  <1>2. CASE ShowReceiveAddress
    BY <1>2, AuthoredFewer DEF ShowReceiveAddress
  <1>3. CASE Spend
    <2>1. seed' = Queried(seed) /\ seed'.recovered
      BY <1>3, SpendEffect, GrownSeed
    <2>2. PICK from \in Address, burn \in BOOLEAN :
            /\ unmined' = unmined \cup {SpendTx(seed', from, burn)}
            /\ LET t == SpendTx(seed', from, burn) IN
               \A a \in {t.from, t.change} : a[2] <= seed'.cursor[a[1]]
      BY <1>3, SpendEffect
    <2> DEFINE t == SpendTx(seed', from, burn)
    <2> HIDE DEF t
    <2>3. \A a \in {t.from, t.change} : a[2] <= seed'.cursor[a[1]]
      BY <2>2 DEF t
    <2>4. mined' \cup unmined' = mined \cup unmined \cup {t}
      BY <1>3, <2>2 DEF Spend, t
    <2>5. \A a \in AuthoredBy(mined' \cup unmined') :
            a \in AuthoredBy(mined \cup unmined) \/ a \in {t.from, t.change}
      BY <2>4, Indexed
    <2>6. ~joinsLate => \A a \in AuthoredBy(mined \cup unmined) : a[2] <= seed'.cursor[a[1]]
      BY <2>1, RecoveredAfter
    <2>7. ~joinsLate => \A a \in AuthoredBy(mined' \cup unmined') : a[2] <= seed'.cursor[a[1]]
      BY <2>3, <2>5, <2>6
    <2>8. AuthoredBy(mined \cup unmined)' = AuthoredBy(mined' \cup unmined')
      BY DEF AuthoredBy
    <2> QED
      BY <1>3, <2>1, <2>7, <2>8 DEF Spend, RecoveredLeads
  <1>4. CASE IsPaid
    BY <1>4, AuthoredFewer DEF IsPaid
  <1>5. CASE BlockConfirms
    <2>1. PICK txs \in SUBSET unmined, reward \in BOOLEAN :
            /\ mined' = mined \cup txs \cup
                (IF reward THEN {[from |-> Nothing, pays |-> CurrentAddress(seed, "reward"),
                                  change |-> Nothing]} ELSE {})
            /\ unmined' = unmined \ txs
            /\ seed' = IF reward THEN Discover(seed, "reward") ELSE seed
      BY <1>5 DEF BlockConfirms
    <2>2. \A t \in mined' \cup unmined' : t \in mined \cup unmined \/ t.from = Nothing
      BY <2>1
    <2>3. \A t \in unmined' : t \in unmined
      BY <2>1
    <2>4. seed' \in {seed, Discover(seed, "reward")}
      BY <2>1
    <2> QED
      BY <1>5, <2>2, <2>3, <2>4, AuthoredFewer DEF BlockConfirms
  <1>6. CASE TransactionAbandoned
    BY <1>6, AuthoredFewer DEF TransactionAbandoned
  <1>7. CASE Restart
    <2>1. unmined' = {} /\ ~seed'.recovered /\ joinsLate' = ~joined'
      BY <1>7 DEF Restart, FreshSeed
    <2>2. AuthoredBy(unmined)' = {}
      <3>1. AuthoredBy({}) = {}
        BY Indexed
      <3> QED
        BY <2>1, <3>1 DEF AuthoredBy
    <2> QED
      BY <2>1, <2>2 DEF RecoveredLeads
  <1>8. CASE JoinChain
    <2>1. joinsLate' /\ joined'
      BY <1>8 DEF JoinChain, RecoveredLeads
    <2> QED
      BY <2>1 DEF RecoveredLeads
  <1>9. CASE UNCHANGED addressVars
    BY <1>9 DEF addressVars, RecoveredLeads, AuthoredBy
  <1> QED
    BY <1>1, <1>2, <1>3, <1>4, <1>5, <1>6, <1>7, <1>8, <1>9 DEF AddressNext

-----------------------------------------------------------------------------
(* Theorems of the specification.                                          *)

\* Types, fresh receive addresses and found authored addresses, inductively.
THEOREM AddressInvHolds == AddressSpec => []AddressInv
  <1>1. AddressInit => AddressInv
    <2> SUFFICES ASSUME AddressInit
                 PROVE  AddressInv
      OBVIOUS
    <2>1. seed = FreshSeed /\ mined = {} /\ unmined = {}
      BY DEF AddressInit
    <2>2. UsedBy({}) = {} /\ AuthoredBy({}) = {} /\ {} \cup {} = {}
      BY Indexed
    <2>3. AddressTypeInv
      <3>1. /\ seed.cursor = [b \in Branches |-> 0] /\ seed.scanned = [b \in Branches |-> -1]
            /\ seed.recovered = FALSE
            /\ seed \in [cursor : [Branches -> Nat], scanned : [Branches -> Nat \cup {-1}],
                         recovered : BOOLEAN]
        BY <2>1 DEF FreshSeed
      <3>2. height = 1 /\ txsMade = 0 /\ handedOut = {} /\ restarts = 0 /\ joined = TRUE
            /\ joinsLate = FALSE
        BY DEF AddressInit
      <3>3. IndexesBounded
        BY <2>1, <3>1, <3>2, Limits DEF IndexesBounded
      <3>4. \A b \in Branches : seed.scanned[b] <= height
        BY <3>1, <3>2
      <3>5. /\ mined \in SUBSET WalletTx /\ unmined \in SUBSET WalletTx
            /\ handedOut \in SUBSET Address
            /\ height \in Nat \ {0} /\ txsMade \in Nat /\ restarts \in Nat
        BY <2>1, <3>2
      <3>6. joined \in BOOLEAN /\ joinsLate \in BOOLEAN
        BY <3>2
      <3> QED
        BY <3>1, <3>3, <3>4, <3>5, <3>6 DEF AddressTypeInv
    <2>4. CursorLeads
      BY <2>2 DEF AddressInit, CursorLeads
    <2>5. RecoveredLeads
      BY <2>2 DEF AddressInit, RecoveredLeads, FreshSeed
    <2> QED
      BY <2>3, <2>4, <2>5 DEF AddressInv
  <1>2. AddressInv /\ [AddressNext]_addressVars => AddressInv'
    BY AddressTypeStep, CursorLeadsStep, RecoveredLeadsStep DEF AddressInv
  <1> QED
    BY <1>1, <1>2, PTL DEF AddressSpec

\* The wallet finds every address it authored again after gaps, restarts and abandoned
\* transactions, keeps those it handed out, and shows none twice
\* (recover_historical_hybrid_address_cursors, wallet_receive_address).
THEOREM AddressesAreKeptHolds == AddressSpec => []AddressesAreKept
  <1>1. AddressInv => AddressesAreKept
    <2> SUFFICES ASSUME AddressInv
                 PROVE  AddressesAreKept
      OBVIOUS
    <2> DEFINE q == Queried(seed)
    <2>1. AddressTypeInv /\ CursorLeads /\ RecoveredLeads
      BY DEF AddressInv
    <2>2. /\ q \in SeedType
          /\ q.cursor["external"] = Discover(seed, "external").cursor["external"]
          /\ OwnedAfter(seed) = {a \in Address : a[2] <= q.cursor[a[1]]}
      BY <2>1, TypeParts, QueryEffect DEF AddressTypeInv
    <2>3. \A x \in Branches : seed.cursor[x] <= q.cursor[x] /\ seed.cursor[x] \in Nat
                              /\ q.cursor[x] \in Nat
      BY <2>1, <2>2, GrownSeed, HandedOutType DEF SeedType
    <2>4. AuthoredIsOwned
      <3>1. ASSUME joined, ~joinsLate, NEW a \in AuthoredBy(mined)
            PROVE  a \in OwnedAfter(seed)
        <4>1. a \in AuthoredBy(mined \cup unmined)
          BY <3>1, Indexed
        <4>2. a \in Address
          BY <2>1, <4>1, IndexBounds, TypeParts
        <4>3. a[2] <= q.cursor[a[1]]
          BY <2>1, <3>1, <4>1, RecoveredAfter
        <4> QED
          BY <2>2, <4>2, <4>3
      <3> QED
        BY <3>1 DEF AuthoredIsOwned
    <2>5. HandedOutIsOwned
      <3>1. ASSUME restarts = 0, NEW a \in handedOut
            PROVE  a \in OwnedAfter(seed)
        <4>1. a \in Address /\ a[1] = "external" /\ a[2] <= seed.cursor["external"]
          BY <2>1, <3>1, HandedOutType DEF CursorLeads
        <4>2. a[2] \in Nat /\ a[1] \in Branches
          BY <4>1 DEF Address
        <4>3. a[2] <= q.cursor[a[1]]
          BY <2>3, <4>1, <4>2
        <4> QED
          BY <2>2, <4>1, <4>3
      <3> QED
        BY <3>1 DEF HandedOutIsOwned
    <2>6. ReceiveAddressFresh
      <3>1. ASSUME restarts = 0, NEW a \in UsedBy(mined \cup unmined),
                   a = CurrentAddress(seed, "external")
            PROVE  FALSE
        <4>1. a = <<"external", q.cursor["external"]>>
          BY <2>2, <3>1 DEF CurrentAddress
        <4>2. a[1] = "external" /\ a[2] = q.cursor["external"]
          BY <4>1
        <4>3. a[2] < q.cursor["external"]
          BY <2>1, <3>1, <4>2, ScannedExternal
        <4>4. q.cursor["external"] \in Nat
          BY <2>3 DEF Branches
        <4> QED
          BY <4>2, <4>3, <4>4
      <3> QED
        BY <3>1 DEF ReceiveAddressFresh
    <2> QED
      BY <2>4, <2>5, <2>6 DEF AddressesAreKept
  <1> QED
    BY <1>1, AddressInvHolds, PTL

=============================================================================
