------------------------------- MODULE CatchUp -------------------------------
(* How one node brings its chain up to those of its peers: what a session    *)
(* asks for, how an answer is claimed, validated away from the node lock and *)
(* applied, and how an unanswered request is asked again.                    *)
(*                                                                           *)
(* A chain is named by its tip in a constant tree of blocks. Setup is the    *)
(* placeholder a node without a chain holds; it is no ancestor of anything.  *)
(* The peers are correct nodes whose answers travel over ordered channels.   *)
EXTENDS Integers, FiniteSets, Sequences, SequencesExt

CONSTANTS
    Setup, Genesis,     \* the placeholder and the network's first block
    Parent,             \* the parent of every other block
    Prefers,            \* set of pairs <<a, b>>: of two tips of equal height, a wins
    Peers,              \* the peers, one session each
    Starts,             \* how a behaviour may start: this node's tip, the tips of the
                        \* peers (Setup: none there), pruned, and the incidents to come
    PageLimit,          \* blocks in an answer: MAX_BLOCK_BATCH, byte_bounded_block_page
    MaxValidations      \* MAX_CONCURRENT_CHAIN_VALIDATIONS

VARIABLES
    tip,        \* this node's chain
    gen,        \* generation of SyncProgressState, counted by resets
    resetting,  \* a reset has still to ask the peers for a bootstrap
    active,     \* the validation keys claimed
    pruned,     \* the ledger keeps a window of its chain only
    hydrated,   \* fork history was rebuilt less than FORK_HYDRATION_INTERVAL ago
    session,    \* peer -> its session
    peerTip,    \* peer -> its chain
    incidents   \* how many incidents may still happen
catchUpVars == <<tip, gen, resetting, active, pruned, hydrated, session, peerTip, incidents>>

Block == DOMAIN Parent \cup {Genesis, Setup}
Height[b \in Block] == IF b \in DOMAIN Parent THEN Height[Parent[b]] + 1 ELSE 0
Chain[b \in Block] == {b} \cup (IF b \in DOMAIN Parent THEN Chain[Parent[b]] ELSE {})

AtHeight(b, h) == CHOOSE a \in Chain[b] : Height[a] = h

(* choose_fork: the longer chain, then the tie-break; finality is the        *)
(* subject of ForkChoice.                                                    *)
Better(a, b) ==
    Height[a] > Height[b] \/ (Height[a] = Height[b] /\ <<a, b>> \in Prefers)

(* The blocks are a tree: going from block to parent ends, so that heights   *)
(* and chains are defined by their recursion. A page reaches past the        *)
(* deepest branch that has to be given up for a better one (128 blocks       *)
(* against a fork depth of 6).                                               *)
ASSUME TreeAssumption ==
    /\ Setup \notin DOMAIN Parent /\ Genesis \notin DOMAIN Parent /\ Setup # Genesis
    /\ \A b \in DOMAIN Parent : Parent[b] \in Block \ {Setup}
    /\ PageLimit \in Nat \ {0} /\ MaxValidations \in Nat \ {0}
    /\ \A a, b \in Block \ {Setup} :
          Better(a, b) => Height[b] - Cardinality(Chain[a] \cap Chain[b]) + 1 < PageLimit
ASSUME RecursionAssumption ==
    /\ Height \in [Block -> Nat]
    /\ Height = [b \in Block |-> IF b \in DOMAIN Parent THEN Height[Parent[b]] + 1 ELSE 0]
    /\ Chain = [b \in Block |-> {b} \cup (IF b \in DOMAIN Parent THEN Chain[Parent[b]] ELSE {})]
ASSUME StartsAssumption ==
    /\ IsFiniteSet(Peers)
    /\ Starts \subseteq [tip : Block, peers : [Peers -> Block], pruned : BOOLEAN, incidents : Nat]

(***************************************************************************)
(* Messages. A page of blocks is named by the parent of its first block    *)
(* and by its last block.                                                  *)
(***************************************************************************)
Page(from, to) == [kind |-> "blocks", after |-> from, last |-> to]
EmptyPage == Page(Genesis, Genesis)
Blocks(page) == Chain[page.last] \ Chain[page.after]

(* blocks_from with byte_bounded_block_page.                                 *)
BlocksFrom(b, h) ==
    IF h > Height[b] THEN EmptyPage
    ELSE Page(AtHeight(b, h - 1),
              AtHeight(b, IF h + PageLimit - 1 < Height[b] THEN h + PageLimit - 1 ELSE Height[b]))

(* block_locator holds every block of a short chain.                         *)
BlocksAfterLocator(b, locator) ==
    LET common == Chain[b] \cap Chain[locator]
    IN  IF common = {} THEN EmptyPage ELSE BlocksFrom(b, Cardinality(common))

(* The answers of a correct peer; an unknown hash is not answered.           *)
Answer(b, request) ==
    CASE request.kind = "boot" -> <<[kind |-> "bootstrap"]>>
      [] request.kind = "range" -> <<BlocksFrom(b, request.from)>>
      [] request.kind = "locator" -> <<BlocksAfterLocator(b, request.tip)>>
      [] request.kind = "get" -> IF request.block \in Chain[b]
                                 THEN <<Page(Parent[request.block], request.block)>> ELSE << >>

(***************************************************************************)
(* A session: what the peer said, whether a request is out (catchup_       *)
(* requested_at, overdue after CATCHUP_REQUEST_TIMEOUT), the two channels  *)
(* and the answer being worked on.                                         *)
(***************************************************************************)
Idle == [stage |-> "idle"]
Down == [up |-> FALSE]

(* maybe_request_catchup.                                                    *)
Wanted(status, mine) ==
    CASE status.boot -> <<[kind |-> "boot"]>>
      [] ~status.boot /\ Height[status.tip] > Height[mine] ->
            <<[kind |-> "range", from |-> Height[mine] + 1]>>
      [] ~status.boot /\ Height[status.tip] = Height[mine] /\ status.tip # mine ->
            <<[kind |-> "locator", tip |-> mine]>>
      [] OTHER -> << >>

Send(s, request) == [s EXCEPT !.wire = @ \o request]
Ask(s, request) ==
    IF request = << >> THEN s ELSE [Send(s, request) EXCEPT !.asked = "yes"]

(* maybe_start_catchup.                                                      *)
StartCatchup(s, mine) == IF s.asked = "no" THEN Ask(s, Wanted(s.status, mine)) ELSE s

(* missing_inventory_request for an inventory of one block.                  *)
MissingInventory(b, mine) ==
    CASE b \in Chain[mine] -> << >>
      [] b \notin Chain[mine] /\ Height[b] > Height[mine] + 1 ->
            <<[kind |-> "range", from |-> Height[mine] + 1]>>
      [] OTHER -> <<[kind |-> "get", block |-> b]>>

CatchUpInit ==
    /\ \E start \in Starts :
          /\ tip = start.tip /\ peerTip = start.peers
          /\ pruned = start.pruned /\ incidents = start.incidents
    /\ gen = 0 /\ resetting = FALSE /\ active = {} /\ hydrated = FALSE
    /\ session = [p \in Peers |-> Down]

Working(p) == session[p].up /\ session[p].work.stage # "idle"
Update(p, s) == session' = [session EXCEPT ![p] = s]
Quiet(p) == session[p].up /\ session[p].inbox = << >> /\ session[p].wire = << >>

(* A connection is made and the peer's hello is read.                        *)
Greet(p) ==
    /\ ~session[p].up /\ peerTip[p] # Setup
    /\ Update(p, StartCatchup([up |-> TRUE, asked |-> "no", inbox |-> << >>, wire |-> << >>,
                               work |-> Idle,
                               status |-> [tip |-> peerTip[p], boot |-> tip = Setup]], tip))
    /\ UNCHANGED <<tip, gen, resetting, active, pruned, hydrated, peerTip, incidents>>

(* The sync tick: an overdue request is given up and asked again.            *)
Tick(p) ==
    /\ session[p].up /\ ~Working(p)
    /\ session[p].asked # "yes"
    /\ Update(p, StartCatchup([session[p] EXCEPT !.asked = "no"], tip))
    /\ UNCHANGED <<tip, gen, resetting, active, pruned, hydrated, peerTip, incidents>>

(* CATCHUP_REQUEST_TIMEOUT passes; with the answer still on its way this is  *)
(* an incident.                                                              *)
Expected(p) == session[p].wire # << >> \/ \E m \in ToSet(session[p].inbox) :
                                             m.kind \in {"blocks", "bootstrap"}
Overdue(p) ==
    /\ session[p].up /\ session[p].asked = "yes"
    /\ Expected(p) => incidents > 0
    /\ incidents' = IF Expected(p) THEN incidents - 1 ELSE incidents
    /\ Update(p, [session[p] EXCEPT !.asked = "overdue"])
    /\ UNCHANGED <<tip, gen, resetting, active, pruned, hydrated, peerTip>>

(* The peer answers a request.                                               *)
PeerAnswers(p) ==
    /\ session[p].up /\ session[p].wire # << >>
    /\ Update(p, [session[p] EXCEPT !.wire = Tail(@),
                                    !.inbox = @ \o Answer(peerTip[p], Head(session[p].wire))])
    /\ UNCHANGED <<tip, gen, resetting, active, pruned, hydrated, peerTip, incidents>>

(* The peer's sync tick reports its tip, here between other messages only.   *)
PeerStatus(p) ==
    /\ Quiet(p)
    /\ Update(p, [session[p] EXCEPT !.inbox = Append(@, [kind |-> "status", tip |-> peerTip[p]])])
    /\ UNCHANGED <<tip, gen, resetting, active, pruned, hydrated, peerTip, incidents>>

(* The peer's chain grows, and it gossips the block or its inventory.        *)
PeerGrows(p) ==
    /\ session[p].up /\ incidents > 0
    /\ \E b \in DOMAIN Parent, kind \in {"block", "inventory"} :
          /\ Parent[b] = peerTip[p]
          /\ peerTip' = [peerTip EXCEPT ![p] = b]
          /\ Update(p, [session[p] EXCEPT !.inbox = Append(@, [kind |-> kind, block |-> b])])
    /\ incidents' = incidents - 1
    /\ UNCHANGED <<tip, gen, resetting, active, pruned, hydrated>>

(* The connection is lost between two messages.                              *)
Disconnect(p) ==
    /\ session[p].up /\ ~Working(p) /\ incidents > 0
    /\ Update(p, Down)
    /\ incidents' = incidents - 1
    /\ UNCHANGED <<tip, gen, resetting, active, pruned, hydrated, peerTip>>

(***************************************************************************)
(* process_envelope. The session reads nothing else until it is done.      *)
(***************************************************************************)
Contained(page) == Blocks(page) \subseteq Chain[tip]

(* known_block_prefix_len: the blocks already held are dropped from a page.  *)
DropKnown(page) ==
    IF page.after \in Chain[tip]
    THEN [page EXCEPT !.after = AtHeight(tip, Cardinality(Chain[tip] \cap Chain[page.last]) - 1)]
    ELSE page

Work(kind, page, held) ==
    [stage |-> "claim", kind |-> kind, page |-> page, base |-> tip, gen |-> gen,
     before |-> tip, already |-> held, result |-> tip, fork |-> FALSE]
Done(work, fork) == [work EXCEPT !.stage = "done", !.fork = fork]
ValidationKey(work) == <<work.kind, work.base, work.page>>

(* What reading the first message does to a session.                         *)
Read(s, m) ==
    CASE m.kind = "status" ->
            StartCatchup([s EXCEPT !.status = [tip |-> m.tip, boot |-> FALSE]], tip)
      [] m.kind = "inventory" ->
            IF s.asked = "no" THEN Ask(s, MissingInventory(m.block, tip)) ELSE s
      [] m.kind = "bootstrap" ->
            [s EXCEPT !.work = Work("bootstrap", Page(Genesis, Genesis), FALSE)]
      [] m.kind = "block" ->
            LET work == Work("block", Page(Parent[m.block], m.block), FALSE)
            IN  IF m.block \in Chain[tip] THEN [s EXCEPT !.work = Done(work, FALSE)]
                ELSE IF Parent[m.block] # tip
                THEN [Send(s, <<[kind |-> "locator", tip |-> tip]>>) EXCEPT
                         !.work = Done(work, TRUE)]
                ELSE [s EXCEPT !.work = work]
      [] m.kind = "blocks" ->
            IF Contained(m)
            THEN [s EXCEPT !.work = Done(Work("blocks", m, m # EmptyPage), FALSE)]
            ELSE [s EXCEPT !.work = Work("blocks", DropKnown(m), FALSE)]

Receive(p) ==
    /\ session[p].up /\ ~Working(p) /\ session[p].inbox # << >>
    /\ Update(p, Read([session[p] EXCEPT !.inbox = Tail(@)], Head(session[p].inbox)))
    /\ UNCHANGED <<tip, gen, resetting, active, pruned, hydrated, peerTip, incidents>>

(* claim_chain_validation: an equal key and the permits are waited for.      *)
Claim(p) ==
    /\ session[p].up /\ session[p].work.stage = "claim"
    /\ ValidationKey(session[p].work) \notin active
    /\ Cardinality(active) < MaxValidations
    /\ active' = active \cup {ValidationKey(session[p].work)}
    /\ session' = [session EXCEPT ![p].work.stage = "held"]
    /\ UNCHANGED <<tip, gen, resetting, pruned, hydrated, peerTip, incidents>>

(* The node is still where it was when the work was read.                    *)
BaseIsCurrent(work) == work.gen = gen /\ work.base = tip

(* Mutant: an early return forgets the claim.                                *)
BeginKeepingClaim(p) ==
    LET work == session[p].work
    IN  /\ session[p].up /\ work.stage = "held"
        /\ session' = [session EXCEPT ![p].work = IF BaseIsCurrent(work)
                                                  THEN [work EXCEPT !.stage = "validate"]
                                                  ELSE Done(work, FALSE)]
        /\ UNCHANGED <<tip, gen, resetting, active, pruned, hydrated, peerTip, incidents>>

(* Once the claim is held the base is looked at again, and the ledger cloned.*)
Begin(p) ==
    LET work == session[p].work
        goOn == BaseIsCurrent(work) /\ (work.kind = "blocks" => ~Contained(work.page))
    IN  /\ session[p].up /\ work.stage = "held"
        /\ session' = [session EXCEPT ![p].work = IF goOn THEN [work EXCEPT !.stage = "validate"]
                                                         ELSE Done(work, FALSE)]
        /\ active' = IF goOn THEN active ELSE active \ {ValidationKey(work)}
        /\ UNCHANGED <<tip, gen, resetting, pruned, hydrated, peerTip, incidents>>

(* validate_blocks_extension_with_fork_base on the cloned ledger, with       *)
(* prepare_pruned_fork_validation_base; a bootstrap validates to the genesis.*)
Extends(work) == work.page.after = work.base
SharesHistory(work) == work.page.after \in Chain[work.base]
Validated(work) ==
    IF work.kind = "bootstrap" THEN Genesis
    ELSE IF Extends(work) \/ Better(work.page.last, work.base) THEN work.page.last
    ELSE work.base

Validate(p) ==
    LET work == session[p].work
        asFork == work.kind = "blocks" /\ ~Extends(work)
        noAncestor == asFork /\ ~SharesHistory(work)
        throttled == asFork /\ SharesHistory(work) /\ pruned /\ hydrated
        failed == noAncestor \/ throttled
    IN  /\ session[p].up /\ work.stage = "validate"
        /\ session' = [session EXCEPT
              ![p].work = [work EXCEPT !.stage = "apply", !.fork = noAncestor,
                                       !.result = IF failed THEN work.base ELSE Validated(work)]]
        /\ hydrated' = (hydrated \/ (asFork /\ ~failed /\ pruned))
        /\ UNCHANGED <<tip, gen, resetting, active, pruned, peerTip, incidents>>

(* import_verified_ledger, and receive_preverified_block for a single block. *)
Imported(new) ==
    IF tip = Setup /\ new # Setup THEN new
    ELSE IF Height[new] < Height[tip] THEN tip ELSE new

(* Mutant: the import trusts that no other chain arrived.                    *)
ApplyIfSameGeneration(work) == IF work.gen = gen THEN Imported(work.result) ELSE tip

ApplyResult(work) == IF BaseIsCurrent(work) THEN Imported(work.result) ELSE tip

(* The validated ledger is imported and the claim released; a page without a *)
(* common ancestor is answered with a locator request.                       *)
Apply(p) ==
    LET work == session[p].work
    IN  /\ session[p].up /\ work.stage = "apply"
        /\ tip' = ApplyResult(work)
        /\ active' = active \ {ValidationKey(work)}
        /\ Update(p, [Send(session[p], IF work.fork THEN <<[kind |-> "locator", tip |-> tip']>>
                                       ELSE << >>) EXCEPT !.work = Done(work, work.fork)])
        /\ UNCHANGED <<gen, resetting, pruned, hydrated, peerTip, incidents>>

(* The locator request cannot be written: the session ends, and its guards   *)
(* are dropped.                                                              *)
LocatorWriteFails(p) ==
    LET work == session[p].work
    IN  /\ session[p].up /\ work.stage = "apply" /\ work.fork /\ incidents > 0
        /\ active' = active \ {ValidationKey(work)}
        /\ Update(p, Down)
        /\ incidents' = incidents - 1
        /\ UNCHANGED <<tip, gen, resetting, pruned, hydrated, peerTip>>

(* Mutant: an answer that changed nothing leaves the request as it is.       *)
AskedForEver(asked, work, satisfied) == IF work.fork \/ ~satisfied THEN "never" ELSE "no"

(* update_catchup_request_state.                                             *)
AskedAfter(asked, work, satisfied) ==
    LET completes == work.kind # "block"
    IN  IF work.fork \/ (completes /\ ~satisfied) THEN "yes"
        ELSE IF completes THEN "no" ELSE asked

(* Back in session_loop: the answer counts when the chain moved or already   *)
(* held it, and then the next request follows.                               *)
Finish(p) ==
    LET work == session[p].work
        satisfied == tip # work.before \/ work.already
        rested == [session[p] EXCEPT !.work = Idle,
                                     !.asked = AskedAfter(@, work, satisfied)]
    IN  /\ session[p].up /\ work.stage = "done"
        /\ Update(p, IF satisfied /\ ~work.fork THEN StartCatchup(rested, tip) ELSE rested)
        /\ UNCHANGED <<tip, gen, resetting, active, pruned, hydrated, peerTip, incidents>>

(* FORK_HYDRATION_INTERVAL passes.                                           *)
HydrationIntervalPasses ==
    /\ hydrated /\ hydrated' = FALSE
    /\ UNCHANGED <<tip, gen, resetting, active, pruned, session, peerTip, incidents>>

(***************************************************************************)
(* reset_local_chain: validations under way are invalidated together with  *)
(* the chain; the peers are asked for a bootstrap once the stores are      *)
(* cleared.                                                                *)
(***************************************************************************)
ResetChain ==
    /\ incidents > 0 /\ ~resetting
    /\ gen' = gen + 1
    /\ tip' = Setup
    /\ resetting' = TRUE
    /\ incidents' = incidents - 1
    /\ UNCHANGED <<active, pruned, hydrated, session, peerTip>>

ResetAsksPeers ==
    /\ resetting
    /\ resetting' = FALSE
    /\ session' = [p \in Peers |-> IF session[p].up THEN Send(session[p], <<[kind |-> "boot"]>>)
                                    ELSE session[p]]
    /\ UNCHANGED <<tip, gen, active, pruned, hydrated, peerTip, incidents>>

(* The node finalizes a block of its own; this path claims nothing.          *)
MinesOwnBlock ==
    /\ incidents > 0
    /\ \E b \in DOMAIN Parent : Parent[b] = tip /\ tip' = b
    /\ incidents' = incidents - 1
    /\ UNCHANGED <<gen, resetting, active, pruned, hydrated, session, peerTip>>

SessionStep(p) ==
    \/ Greet(p) \/ Tick(p) \/ Overdue(p) \/ PeerAnswers(p) \/ PeerStatus(p)
    \/ PeerGrows(p) \/ Disconnect(p) \/ Receive(p) \/ Claim(p) \/ Begin(p)
    \/ Validate(p) \/ Apply(p) \/ LocatorWriteFails(p) \/ Finish(p)
CatchUpNext == (\E p \in Peers : SessionStep(p)) \/ HydrationIntervalPasses
               \/ ResetChain \/ ResetAsksPeers \/ MinesOwnBlock

(* Sessions and peers keep running, timers fire, and the semaphore serves    *)
(* its waiters in turn; a peer's status timer fires whatever is under way, so *)
(* its restriction to quiet moments must not starve it. Incidents need not   *)
(* happen.                                                                   *)
CatchUpFairness ==
    /\ \A p \in Peers :
          /\ WF_catchUpVars(Greet(p)) /\ WF_catchUpVars(Tick(p)) /\ WF_catchUpVars(Overdue(p))
          /\ WF_catchUpVars(PeerAnswers(p)) /\ SF_catchUpVars(PeerStatus(p))
          /\ WF_catchUpVars(Receive(p)) /\ SF_catchUpVars(Claim(p)) /\ WF_catchUpVars(Begin(p))
          /\ WF_catchUpVars(Validate(p)) /\ WF_catchUpVars(Apply(p)) /\ WF_catchUpVars(Finish(p))
    /\ WF_catchUpVars(HydrationIntervalPasses) /\ WF_catchUpVars(ResetAsksPeers)
CatchUpSpec == CatchUpInit /\ [][CatchUpNext]_catchUpVars /\ CatchUpFairness

(***************************************************************************)
(* Properties.                                                             *)
(***************************************************************************)

(* What travels and what a session holds: a page starts at an ancestor of    *)
(* its last block, and no message names the placeholder as a block.          *)
Message ==
    {m \in [kind : {"blocks"}, after : Block \ {Setup}, last : Block] : m.after \in Chain[m.last]}
    \cup [kind : {"bootstrap"}]
    \cup [kind : {"status"}, tip : Block \ {Setup}]
    \cup [kind : {"block", "inventory"}, block : DOMAIN Parent]
Request ==
    [kind : {"boot"}] \cup [kind : {"range"}, from : Nat \ {0}]
    \cup [kind : {"locator"}, tip : Block] \cup [kind : {"get"}, block : DOMAIN Parent]
PageSet == [kind : {"blocks"}, after : Block \ {Setup}, last : Block]
ActiveWork ==
    [stage : {"claim", "held", "validate", "apply", "done"},
     kind : {"bootstrap", "blocks", "block"}, page : PageSet, base : Block, gen : Nat,
     before : Block, already : BOOLEAN, result : Block, fork : BOOLEAN]
Connected ==
    [up : {TRUE}, asked : {"no", "yes", "overdue"}, inbox : Seq(Message), wire : Seq(Request),
     work : {Idle} \cup ActiveWork, status : [tip : Block \ {Setup}, boot : BOOLEAN]]

CatchUpTypeInv ==
    /\ tip \in Block /\ gen \in Nat /\ incidents \in Nat
    /\ resetting \in BOOLEAN /\ pruned \in BOOLEAN /\ hydrated \in BOOLEAN
    /\ peerTip \in [Peers -> Block]
    /\ session \in [Peers -> {Down} \cup Connected]
    /\ \A p \in Peers : session[p].up => peerTip[p] # Setup

(* An answer under validation builds on its base or brings something the     *)
(* base does not have, and a result is the base or better than it.           *)
NotWorse(new, base) ==
    new = base \/ new = Genesis \/ (base # Setup /\ Better(new, base))
WorkIsSound(work) ==
    /\ work.kind = "block" /\ work.stage # "done" =>
          work.page.last \in DOMAIN Parent /\ work.page.after = Parent[work.page.last]
          /\ work.page.after = work.base
    /\ work.kind = "blocks" /\ Extends(work) => work.base \in Chain[work.page.last]
    /\ work.kind = "blocks" /\ work.stage = "validate" =>
          ~(Blocks(work.page) \subseteq Chain[work.base])
    /\ work.stage = "apply" => NotWorse(work.result, work.base)
WorkInv == \A p \in Peers : Working(p) => WorkIsSound(session[p].work)

(* A claim belongs to one session: two that hold one never hold the same.    *)
Holders == {p \in Peers : Working(p) /\ session[p].work.stage \in {"held", "validate", "apply"}}
ClaimInv ==
    /\ active = {ValidationKey(session[p].work) : p \in Holders}
    /\ \A p, q \in Holders :
          ValidationKey(session[p].work) = ValidationKey(session[q].work) => p = q
    /\ Cardinality(active) <= MaxValidations

CatchUpInv == CatchUpTypeInv /\ WorkInv /\ ClaimInv

(* The claimed keys are exactly those of the sessions between claim and      *)
(* release, one each: no way out of process_envelope, an early return or a   *)
(* failed write included, leaves a key or the permit behind.                 *)
ClaimsAreHeld ==
    /\ active = {ValidationKey(session[p].work) : p \in Holders}
    /\ Cardinality(active) = Cardinality(Holders)
    /\ Cardinality(active) <= MaxValidations

(* A chain validated away from the lock never replaces a better one that was *)
(* adopted in the meantime: every step of the tip is an improvement, unless  *)
(* the operator deletes the chain; and after a reset nothing validated for   *)
(* the deleted chain comes back: the placeholder is left for the genesis     *)
(* block, from which sync starts again.                                      *)
NeverWorseChain ==
    [][tip' # tip => \/ tip = Setup /\ tip' = Genesis
                     \/ tip # Setup /\ Better(tip', tip)
                     \/ tip' = Setup /\ gen' = gen + 1]_catchUpVars

(* A peer with a better chain is caught up with, or the connection is lost:  *)
(* no request, throttle, claim or reset leaves a session waiting for ever.   *)
CatchesUp ==
    \A p \in Peers :
       (session[p].up /\ Better(peerTip[p], tip)) ~> (~session[p].up \/ ~Better(peerTip[p], tip))
=============================================================================
