---------------------------- MODULE PeerSessions ----------------------------
(* The sessions of one node with its peers: the supervisor that starts a     *)
(* task for every address worth dialling, the tasks themselves, the inbound  *)
(* sessions behind the connection limiter, the registry that broadcasts go   *)
(* through, and the peer book they all write.                                *)
(*                                                                           *)
(* A channel stands for the mpsc queue, its byte budget and the shutdown     *)
(* flag that are made together; it has a sender while the registry names it. *)
(* Messages are reduced to what they do to the book and to the session.      *)
EXTENDS PeerBook

CONSTANTS
    Addrs,              \* addresses of listening nodes
    Remotes,            \* source addresses of inbound connections
    NodeAt,             \* the node that listens at each address
    Self,               \* this node
    AnnounceAddr,       \* p2p_announce_addr, or None
    Configured,         \* the peers of the configuration
    MaxInbound, MaxInboundPerIp,    \* MAX_INBOUND_SESSIONS, .._PER_IP
    MaxAccepts,         \* MAX_INBOUND_ACCEPTS_PER_IP_PER_WINDOW
    QueueLimit,         \* batches that fit an outbound queue
    InboundQueueLimit,  \* batches that fit an inbound queue
    GlobalQueueLimit,   \* batches that fit GLOBAL_PEER_QUEUE_BYTES
    MaxDials,           \* MAX_DISCOVERED_OUTBOUND_DIALS_PER_CYCLE
    InitialAttempts,    \* INITIAL_CONNECT_ATTEMPTS_BEFORE_REMOVAL
    Tasks, Channels,    \* bounds: session tasks and channels at one time
    Events,             \* bound: how many messages, failures and acts, by plot
    Plots               \* what happens in a behaviour besides the sessions

VARIABLES
    book,       \* the peer book
    task,       \* the live session tasks
    sessions,   \* the registry: key -> [chan, peer]
    channel,    \* the channels
    scan,       \* {the addresses the supervisor read}, or {} once it has acted
    closing,    \* registry entries a broadcast is about to remove
    limiter,    \* InboundConnectionLimiter: active in all, and active and accepts by ip
    accepting,  \* the accept loop runs
    plot,       \* what happens in this behaviour
    events      \* how many events it may still have
sessionVars == <<book, task, sessions, channel, scan, closing, limiter, accepting, plot, events>>

Ips == {a.ip : a \in Remotes}

(* Addresses are records; completing an unspecified address gives another    *)
(* address of a node.                                                        *)
Address == [ip : STRING, group : STRING, port : Int]
ASSUME PeersAssumption ==
    /\ Addrs \cup Remotes \subseteq Address /\ None \notin Addrs /\ Configured \subseteq Addrs
    /\ DOMAIN NodeAt = Addrs
    /\ \A a \in Addrs, r \in Addrs \cup Remotes : ReachableAdvertised(a, r) \in Addrs
    /\ IsFiniteSet(Tasks)
    /\ MaxInbound \in Nat /\ MaxInboundPerIp \in Nat /\ MaxAccepts \in Nat
    /\ InitialAttempts \in Nat /\ BanScore \in Nat /\ MaxDials \in Nat

Key(t) == <<task[t].kind, task[t].addr>>
Entries == Range(sessions)
FreshChannels == Channels \ ({task[t].chan : t \in DOMAIN task} \cup {e.chan : e \in Entries}
                             \cup {c.entry.chan : c \in closing})
NewChannel == [queue |-> 0, open |-> TRUE, stop |-> FALSE]
NewTask(kind, addr, node, pc, chan) ==
    [kind |-> kind, addr |-> addr, node |-> node, pc |-> pc, hello |-> FALSE,
     known |-> None, chan |-> chan, attempts |-> 0, failed |-> FALSE]
PeerOf(t) == IF task[t].known = None THEN task[t].addr ELSE task[t].known

(* accepts_inbound, advertised_addr, self_filter_addr and is_self_peer.      *)
SelfFilter == IF AnnounceAddr # None THEN AnnounceAddr
              ELSE IF accepting THEN ListenAddr ELSE None
SelfPeer(a) == IsSelfPeer(a, SelfFilter)

SessionsInit ==
    /\ book = [a \in Configured |-> NewPeer("Outbound")]
    /\ task = << >> /\ sessions = << >>
    /\ channel = [c \in Channels |-> NewChannel]
    /\ scan = {} /\ closing = {}
    /\ limiter = [active |-> 0, peers |-> [ip \in Ips |-> [active |-> 0, accepts |-> 0]]]
    /\ accepting = TRUE
    /\ plot \in Plots /\ events = Events[plot]

(* Something from outside happens.                                           *)
Event == events > 0 /\ events' = events - 1

Goes(t, info) == task' = [task EXCEPT ![t] = info]
Joined(new, old) ==
    [x \in DOMAIN new \cup DOMAIN old |-> IF x \in DOMAIN new THEN new[x] ELSE old[x]]
Gone(t) == task' = Restrict(task, DOMAIN task \ {t})
Unregister(keys) == Restrict(sessions, DOMAIN sessions \ keys)
(* The receiver of t's channel is dropped, and what was queued with it.      *)
Closed(t) == [channel EXCEPT ![task[t].chan] = [@ EXCEPT !.open = FALSE, !.queue = 0]]

---------------------------------------------------------------------------
(* ensure_outbound_sessions: it prunes and reads the book under one lock,    *)
(* and acts on the registry under another.                                   *)
Supervise ==
    /\ scan = {}
    /\ book' = PruneStalePeers(book)
    /\ \E wanted \in SessionCandidates(PruneStalePeers(book), MaxDials) : scan' = {wanted}
    /\ UNCHANGED <<task, sessions, channel, closing, limiter, accepting, plot, events>>

EnsureSessions ==
    /\ scan # {} /\ scan' = {}
    /\ UNCHANGED <<book, closing, limiter, accepting, plot, events>>
    /\ LET wanted == {a \in UNION scan : ~SelfPeer(a)}
           kept == Unregister({k \in DOMAIN sessions : k[1] = "out" /\ k[2] \notin wanted})
           missing == {a \in wanted : <<"out", a>> \notin DOMAIN kept}
           slots == Injection(missing, Tasks \ DOMAIN task)
           lines == Injection(missing, FreshChannels)
           slot == CHOOSE f \in slots : TRUE
           line == CHOOSE f \in lines : TRUE
       IN IF missing = {} THEN sessions' = kept /\ UNCHANGED <<task, channel>>
          ELSE /\ slots # {} /\ lines # {}
               /\ task' = Joined([i \in Range(slot) |->
                                    LET a == CHOOSE a \in missing : slot[a] = i
                                    IN NewTask("out", a, NodeAt[a], "top", line[a])], task)
               /\ sessions' = Joined([k \in {<<"out", a>> : a \in missing} |->
                                        [chan |-> line[k[2]], peer |-> k[2]]], kept)
               /\ channel' = Joined([c \in Range(line) |-> NewChannel], channel)

(* The top of outbound_session's loop.  A banned peer is waited for.         *)
Dial(t) ==
    /\ task[t].kind = "out" /\ task[t].pc = "top"
    /\ IF ~IsConnectable(book, task[t].addr) \/ SelfPeer(task[t].addr)
       THEN sessions' = Unregister({Key(t)}) /\ Gone(t) /\ channel' = Closed(t)
       ELSE /\ ~IsBanned(book, task[t].addr)
            /\ Goes(t, [task[t] EXCEPT !.pc = "connect",
                                    !.attempts = Min({@ + 1, InitialAttempts})])
            /\ UNCHANGED <<sessions, channel>>
    /\ UNCHANGED <<book, scan, closing, limiter, accepting, plot, events>>

(* remove_initially_unreachable_peer on the book b.                          *)
WithoutUnreachable(t, b) ==
    IF task[t].attempts >= InitialAttempts THEN RemoveNeverConnected(b, task[t].addr) ELSE b

ConnectFails(t) ==
    /\ Event
    /\ task[t].pc = "connect"
    /\ LET noted == RecordError(book, task[t].addr)
           after == WithoutUnreachable(t, noted)
       IN /\ book' = after
          /\ IF Known(after, task[t].addr)
             THEN Goes(t, [task[t] EXCEPT !.pc = "top"]) /\ UNCHANGED <<sessions, channel>>
             ELSE sessions' = Unregister({Key(t)}) /\ Gone(t) /\ channel' = Closed(t)
    /\ UNCHANGED <<scan, closing, limiter, accepting, plot>>

ConnectSucceeds(t) ==
    /\ task[t].pc = "connect"
    /\ Goes(t, [task[t] EXCEPT !.pc = "session", !.hello = FALSE, !.known = task[t].addr])
    /\ UNCHANGED <<book, sessions, channel, scan, closing, limiter, accepting, plot, events>>

---------------------------------------------------------------------------
(* Inbound connections: try_acquire counts sessions and accepts per address; *)
(* the accepts leave the window as time passes.                              *)

TryAcquire(ip) ==
    /\ limiter.active < MaxInbound
    /\ limiter.peers[ip].active < MaxInboundPerIp
    /\ limiter.peers[ip].accepts < MaxAccepts

Acquired(ip) ==
    [active |-> limiter.active + 1,
     peers |-> [limiter.peers EXCEPT ![ip] = [active |-> @.active + 1, accepts |-> @.accepts + 1]]]

Lowered(n) == IF n > 0 THEN n - 1 ELSE n
Release(ip) ==
    [active |-> Lowered(limiter.active),
     peers |-> [limiter.peers EXCEPT ![ip] = [active |-> Lowered(@.active), accepts |-> @.accepts]]]

(* An accept leaves the window.                                              *)
Forgotten(ip) ==
    [active |-> limiter.active,
     peers |-> [limiter.peers EXCEPT ![ip] = [active |-> @.active, accepts |-> @.accepts - 1]]]

Accept(t, remote, node) ==
    /\ Event
    /\ plot = "inbound" /\ accepting
    /\ t \in Tasks \ DOMAIN task
    /\ \A u \in DOMAIN task : task[u].kind = "in" => task[u].addr # remote
    /\ TryAcquire(remote.ip)
    /\ limiter' = Acquired(remote.ip)
    /\ \E c \in FreshChannels :
         /\ c = Min(FreshChannels)
         /\ channel' = [channel EXCEPT ![c] = NewChannel]
         /\ task' = With(task, t, NewTask("in", remote, node, "hello", c))
    /\ UNCHANGED <<book, sessions, scan, closing, accepting, plot>>

WindowPasses(ip) ==
    /\ Event
    /\ plot = "inbound" /\ limiter.peers[ip].accepts > 0
    /\ limiter' = Forgotten(ip)
    /\ UNCHANGED <<book, task, sessions, channel, scan, closing, accepting, plot>>

(* set_accept_inbound: sessions that were accepted go on.                    *)
SetAcceptInbound ==
    /\ Event
    /\ plot = "inbound" /\ accepting' = ~accepting
    /\ UNCHANGED <<book, task, sessions, channel, scan, closing, limiter, plot>>

---------------------------------------------------------------------------
Ended(t, failed) ==
    [task[t] EXCEPT !.pc = "ended", !.failed = failed, !.hello = FALSE, !.known = None]

LeaveWithoutPermit(t, failed) == \* mutant: an inbound session that fails keeps its place
    /\ channel' = Closed(t)
    /\ IF task[t].kind = "out"
       THEN /\ Goes(t, Ended(t, failed))
            /\ UNCHANGED <<sessions, limiter>>
       ELSE /\ Gone(t) /\ sessions' = Unregister({Key(t)})
            /\ limiter' = (IF failed THEN limiter ELSE Release(task[t].addr.ip))

(* The end of session_loop.  An outbound task notes the result and comes     *)
(* back in AfterSession; an inbound one leaves the registry and the limiter. *)
Leave(t, failed) ==
    /\ channel' = Closed(t)
    /\ IF task[t].kind = "out"
       THEN Goes(t, Ended(t, failed)) /\ UNCHANGED <<sessions, limiter>>
       ELSE Gone(t) /\ sessions' = Unregister({Key(t)}) /\ limiter' = Release(task[t].addr.ip)

StayEnded(t) == \* mutant of AfterSession: the task does not register again
    /\ task[t].pc = "ended"
    /\ book' = (IF task[t].failed THEN RecordError(book, task[t].addr) ELSE book)
    /\ Goes(t, [task[t] EXCEPT !.pc = "top"])
    /\ UNCHANGED <<sessions, channel, scan, closing, limiter, accepting, plot, events>>

AfterSession(t) ==
    /\ task[t].pc = "ended"
    /\ LET noted == IF task[t].failed THEN RecordError(book, task[t].addr) ELSE book
           after == IF channel[task[t].chan].stop THEN book ELSE WithoutUnreachable(t, noted)
       IN /\ book' = after
          /\ IF channel[task[t].chan].stop \/ ~IsConnectable(after, task[t].addr)
             THEN Gone(t) /\ sessions' = Unregister({Key(t)}) /\ UNCHANGED channel
             ELSE \E c \in FreshChannels :
                    /\ c = Min(FreshChannels)
                    /\ channel' = [channel EXCEPT ![c] = NewChannel]
                    /\ Goes(t, [task[t] EXCEPT !.pc = "top", !.chan = c, !.failed = FALSE])
                    /\ sessions' = With(sessions, Key(t), [chan |-> c, peer |-> task[t].addr])
    /\ UNCHANGED <<scan, closing, limiter, accepting, plot, events>>

(* The peer or the network ends the session; with an error or without.       *)
Disconnect(t, failed) ==
    /\ Event
    /\ task[t].pc \in {"session", "hello"}
    /\ Leave(t, failed)
    /\ UNCHANGED <<book, scan, closing, accepting, plot>>

(* A session sees its shutdown flag; an inbound one also ends when its       *)
(* entry, and with it the sender of the flag, is gone.                       *)
StopSession(t) ==
    /\ task[t].pc = "session"
    /\ \/ channel[task[t].chan].stop
       \/ /\ task[t].kind = "in"
          /\ \A e \in Entries : e.chan # task[t].chan
          /\ \A c \in closing : c.entry.chan # task[t].chan
    /\ Leave(t, FALSE)
    /\ UNCHANGED <<book, scan, closing, accepting, plot, events>>

---------------------------------------------------------------------------
(* Messages of a session.  A hello names this very node, an address of this  *)
(* node, or an address that is kept once its owner is verified: the peer     *)
(* signs a challenge on this session, and the node that answers at the       *)
(* address signs another.  Either may time out.                              *)
OwnsItsNodeId(t, a) == TRUE \* mutant: the address is not dialled back

OwnsAddress(t, a) == task[t].node = NodeAt[a]

Verified(t, a) ==
    /\ Discoverable(a, task[t].addr)
    /\ task[t].known = a \/ OwnsAddress(t, a)

Remembered(t, a) ==
    IF task[t].known = None THEN AddDiscoveredPeer(book, a)
    ELSE ReplacePeerAddress(book, task[t].known, a)

(* record_peer_status, record_peer_hello and the peer list sent in answer.   *)
StatusRecorded(b, t, known) ==
    IF known = None THEN RecordInboundStatus(b, task[t].addr) ELSE RecordSent(RecordStatus(b, known), known)

AwaitsHello(t) == ~task[t].hello /\ task[t].pc \in {"hello", "session"}

HelloFromSelf(t) ==
    /\ Event
    /\ AwaitsHello(t) /\ task[t].node = Self
    /\ book' = (IF task[t].known = None THEN book ELSE RemovePeer(book, task[t].known))
    /\ Leave(t, FALSE)
    /\ UNCHANGED <<scan, closing, accepting, plot>>

HelloNamingSelf(t, a) ==
    /\ Event
    /\ AwaitsHello(t) /\ task[t].node # Self
    /\ SelfPeer(ReachableAdvertised(a, task[t].addr))
    /\ book' = StatusRecorded(IF task[t].known = None THEN book ELSE RemovePeer(book, task[t].known),
                              t, None)
    /\ Leave(t, FALSE)
    /\ UNCHANGED <<scan, closing, accepting, plot>>

Hello(t, known, b) ==
    /\ Event
    /\ AwaitsHello(t) /\ task[t].node # Self
    /\ book' = StatusRecorded(b, t, known)
    /\ Goes(t, [task[t] EXCEPT !.pc = "session", !.hello = TRUE, !.known = known])
    /\ sessions' = (IF task[t].kind = "in"
                    THEN With(sessions, Key(t),
                              [chan |-> task[t].chan,
                               peer |-> IF known = None THEN task[t].addr ELSE known])
                    ELSE sessions)
    /\ UNCHANGED <<channel, scan, closing, limiter, accepting, plot>>

ProcessHello(t, advertised) ==
    \/ HelloFromSelf(t)
    \/ /\ advertised = None \/ ~SelfPeer(ReachableAdvertised(advertised, task[t].addr))
       /\ Hello(t, task[t].known, book)
    \/ /\ advertised # None
       /\ LET a == ReachableAdvertised(advertised, task[t].addr)
          IN \/ HelloNamingSelf(t, advertised)
             \/ ~SelfPeer(a) /\ Verified(t, a) /\ Hello(t, a, Remembered(t, a))

(* process_envelope: b is the book after the message.  A session whose peer  *)
(* is banned by then ends.                                                   *)
Processed(t, b) ==
    /\ Event
    /\ task[t].pc = "session"
    /\ book' = b
    /\ IF IsBanned(b, PeerOf(t)) THEN Leave(t, FALSE)
       ELSE UNCHANGED <<task, sessions, channel, limiter>>
    /\ UNCHANGED <<scan, closing, accepting, plot>>

ReceiveStatus(t) ==
    /\ Event
    /\ task[t].pc = "session"
    /\ book' = StatusRecorded(book, t, task[t].known)
    /\ UNCHANGED <<task, sessions, channel, scan, closing, limiter, accepting, plot>>

ReceiveGood(t) ==
    Processed(t, IF task[t].known = None THEN book ELSE RecordReceived(book, task[t].known))

ReceiveBad(t) ==
    /\ plot = "ban"
    /\ Processed(t, RecordMisbehavior(book, PeerOf(t),
                                      IF task[t].known = None THEN "Inbound" ELSE "Outbound"))

(* A fork, a block of the future or a conflict in the mempool is no fault of *)
(* the peer.                                                                 *)
ReceiveTolerated(t) == Processed(t, RecordInboundError(book, PeerOf(t)))

(* apply_peer_list, one address at a time.                                   *)
ReceivePeerList(t, a) ==
    /\ plot = "discover"
    /\ LET b == ReachableAdvertised(a, task[t].addr)
       IN Processed(t, IF SelfPeer(b) \/ ~Discoverable(b, task[t].addr) THEN book
                       ELSE AddDiscoveredPeer(book, b))

(* A peer announcement that names this node: the peer is forgotten.          *)
ReceiveSelfAnnouncement(t) ==
    /\ Event
    /\ plot = "discover" /\ task[t].pc = "session" /\ task[t].known # None
    /\ book' = RemovePeer(book, task[t].known)
    /\ IF task[t].kind = "out" THEN Leave(t, FALSE)
       ELSE Goes(t, [task[t] EXCEPT !.known = None]) /\ UNCHANGED <<sessions, channel, limiter>>
    /\ UNCHANGED <<scan, closing, accepting, plot>>

SendBatch(t) ==
    /\ task[t].pc = "session" /\ channel[task[t].chan].queue > 0
    /\ channel' = [channel EXCEPT ![task[t].chan].queue = @ - 1]
    /\ book' = (IF task[t].known = None THEN book ELSE RecordSent(book, task[t].known))
    /\ UNCHANGED <<task, sessions, scan, closing, limiter, accepting, plot, events>>

---------------------------------------------------------------------------
(* broadcast: the queues are filled from a copy of the registry; the entries *)
(* it gives up are removed under the lock afterwards, if they are still the  *)
(* ones it saw.                                                              *)
Limit(k) == IF k[1] = "in" THEN InboundQueueLimit ELSE QueueLimit

Broadcast ==
    /\ Event
    /\ plot \in {"gossip", "inbound"} /\ closing = {}
    /\ LET total == FoldFunctionOnSet(LAMBDA c, n : c.queue + n, 0, channel, Channels)
           to == {k \in DOMAIN sessions : ~IsBanned(book, sessions[k].peer)}
           open(k) == channel[sessions[k].chan].open
           full(k) == channel[sessions[k].chan].queue >= Limit(k)
           taken == {k \in to : open(k) /\ ~full(k)}
       IN \E reached \in SUBSET to :
            /\ Cardinality(reached \cap taken) <= GlobalQueueLimit - total
            /\ reached # to => Cardinality(reached \cap taken) = GlobalQueueLimit - total
            /\ LET given == {k \in reached : ~open(k) \/ (full(k) /\ k[1] = "in")}
               IN /\ closing' = {[key |-> k, entry |-> sessions[k]] : k \in given}
                  /\ channel' = [c \in Channels |->
                        IF \E k \in given : sessions[k].chan = c
                        THEN [channel[c] EXCEPT !.stop = TRUE]
                        ELSE IF \E k \in reached \cap taken : sessions[k].chan = c
                             THEN [channel[c] EXCEPT !.queue = @ + 1]
                             ELSE channel[c]]
            /\ closing' # {} \/ channel' # channel
    /\ UNCHANGED <<book, task, sessions, scan, limiter, accepting, plot>>

DropClosing ==
    /\ closing # {}
    /\ sessions' = Unregister({c.key : c \in {d \in closing :
                                    d.key \in DOMAIN sessions /\ sessions[d.key].chan = d.entry.chan}})
    /\ closing' = {}
    /\ UNCHANGED <<book, task, channel, scan, limiter, accepting, plot, events>>

---------------------------------------------------------------------------
(* The operator, and time.                                                   *)
UserAdds(a) ==
    /\ Event
    /\ plot = "operator" /\ book' = AddPeer(book, a)
    /\ UNCHANGED <<task, sessions, channel, scan, closing, limiter, accepting, plot>>

UserRemoves(a) ==
    /\ Event
    /\ plot = "operator" /\ IsConnectable(book, a) /\ book' = RemovePeer(book, a)
    /\ UNCHANGED <<task, sessions, channel, scan, closing, limiter, accepting, plot>>

BanEnds(a) ==
    /\ Event
    /\ plot = "ban" /\ IsBanned(book, a)
    /\ book' = With(book, a, [book[a] EXCEPT !.banned = FALSE])
    /\ UNCHANGED <<task, sessions, channel, scan, closing, limiter, accepting, plot>>

Older(age) == CASE age = "new" -> "aged" [] age = "aged" -> "stale" [] OTHER -> age

Age(a) ==
    /\ Event
    /\ plot \in {"discover", "ban"} /\ Known(book, a)
    /\ book' = With(book, a, [book[a] EXCEPT !.contact = Older(@), !.success = Older(@)])
    /\ UNCHANGED <<task, sessions, channel, scan, closing, limiter, accepting, plot>>

TaskStep(t) ==
    \/ Dial(t) \/ ConnectFails(t) \/ ConnectSucceeds(t)
    \/ AfterSession(t) \/ StopSession(t) \/ SendBatch(t)

Message(t) ==
    \/ \E a \in Addrs \cup {None} : ProcessHello(t, a)
    \/ ReceiveStatus(t) \/ ReceiveGood(t) \/ ReceiveBad(t) \/ ReceiveTolerated(t)
    \/ \E a \in Addrs : ReceivePeerList(t, a)
    \/ ReceiveSelfAnnouncement(t)
    \/ \E failed \in BOOLEAN : Disconnect(t, failed)

SessionsNext ==
    \/ Supervise \/ EnsureSessions
    \/ \E t \in DOMAIN task : TaskStep(t) \/ Message(t)
    \/ \E t \in Tasks, r \in Remotes, n \in Range(NodeAt) : Accept(t, r, n)
    \/ \E ip \in Ips : WindowPasses(ip)
    \/ SetAcceptInbound \/ Broadcast \/ DropClosing
    \/ \E a \in Addrs : UserAdds(a) \/ UserRemoves(a)
    \/ \E a \in DOMAIN book : BanEnds(a) \/ Age(a)

(* The supervisor ticks for ever, and a task that can go on does.            *)
SessionsFairness ==
    /\ WF_sessionVars(Supervise) /\ WF_sessionVars(EnsureSessions)
    /\ WF_sessionVars(DropClosing)
    /\ \A t \in Tasks : WF_sessionVars(t \in DOMAIN task /\ TaskStep(t))

SessionsSpec == SessionsInit /\ [][SessionsNext]_sessionVars /\ SessionsFairness

---------------------------------------------------------------------------
TaskInfo ==
    [kind: {"out", "in"}, addr: Addrs \cup Remotes, node: Range(NodeAt),
     pc: {"top", "connect", "session", "ended", "hello"}, hello: BOOLEAN,
     known: Addrs \cup {None}, chan: Channels, attempts: 0..InitialAttempts, failed: BOOLEAN]

SessionsTypeOK ==
    /\ DOMAIN book \subseteq Addrs \cup Remotes /\ Range(book) \subseteq PeerInfo
    /\ DOMAIN task \subseteq Tasks /\ Range(task) \subseteq TaskInfo
    /\ \A k \in DOMAIN sessions : k[1] \in {"out", "in"} /\ sessions[k].chan \in Channels
    /\ limiter \in [active: 0..MaxInbound,
                    peers: [Ips -> [active: 0..MaxInboundPerIp, accepts: 0..MaxAccepts]]]

(* Whatever the order in which tasks, broadcasts and the supervisor reach    *)
(* the registry, an entry always leads to a task that is still there: gossip *)
(* is never queued for a task that has returned.                             *)
EntryHasItsTask ==
    \A k \in DOMAIN sessions : \E t \in DOMAIN task :
        Key(t) = k /\ task[t].chan = sessions[k].chan

(* A ban is lifted by time, or with the peer when it leaves the book: removed *)
(* by the operator, recognised as this node, or given up as never connected. *)
(* Nothing else a session does lifts it: not a success, not an error, not    *)
(* pruning, not a change of the address, which takes the ban along.          *)
BanKept ==
    [][\A a \in DOMAIN book :
        book[a].banned =>
            \/ IsBanned(book', a)
            \/ BanEnds(a) \/ UserRemoves(a)
            \/ \E t \in DOMAIN task :
                 \/ HelloFromSelf(t) \/ ReceiveSelfAnnouncement(t)
                 \/ \E b \in Addrs : HelloNamingSelf(t, b)
                 \/ task[t].known = a /\ \E b \in DOMAIN book' : book'[b].banned
                 \/ /\ task[t].addr = a /\ book[a].success = "none"
                    /\ ConnectFails(t) \/ AfterSession(t)]_sessionVars

(* The limiter's counts are the inbound sessions there really are, through   *)
(* every way a session can end, and stay below their limits.                 *)
InboundFrom(ips) == {t \in DOMAIN task : task[t].kind = "in" /\ task[t].addr.ip \in ips}
LimiterExact ==
    /\ \A ip \in Ips : limiter.peers[ip].active = Cardinality(InboundFrom({ip}))
    /\ limiter.active = Cardinality(InboundFrom(Ips))

(* The registry and the limiter account for the sessions there are.          *)
SessionsAccounted == SessionsTypeOK /\ EntryHasItsTask /\ LimiterExact

(* What the sessions and the book hold beyond their types: only addresses of *)
(* listening nodes are dialled, an inbound session has no such address to    *)
(* dial, and no session is known by an address of another node.              *)
DialledAddrs == \A a \in DOMAIN book : book[a].direction # "Inbound" => a \in Addrs
TaskOk(info) ==
    /\ info.kind = "in" => info.addr \in Remotes /\ info.pc \in {"hello", "session"}
    /\ info.kind = "out" =>
         info.addr \in Addrs /\ info.node = NodeAt[info.addr] /\ info.pc # "hello"
    /\ info.known # None => info.node = NodeAt[info.known]
TasksOk == \A t \in DOMAIN task : TaskOk(task[t])
NetworkInv ==
    /\ SessionsAccounted /\ DialledAddrs /\ TasksOk
    /\ scan \in SUBSET SUBSET Addrs

(* The address a session is known by belongs to the node at its other end,   *)
(* for an inbound session as for an outbound one that changed its name.      *)
KnownIsTheirs ==
    \A t \in DOMAIN task :
        task[t].pc = "session" /\ task[t].known # None => task[t].node = NodeAt[task[t].known]

(* Once failures and messages cease, gossip for every configured peer is     *)
(* queued where a session or a dialling task will take it: broadcasts that   *)
(* found a closed queue, tasks that ended and supervisor rounds in between   *)
(* do not leave a peer without a place in the registry.                      *)
PeerServed ==
    plot = "gossip" =>
        <>[](\A a \in OutboundAddresses(book) :
                ~SelfPeer(a) => /\ <<"out", a>> \in DOMAIN sessions
                                /\ channel[sessions[<<"out", a>>].chan].open)
=============================================================================
