------------------------------ MODULE PeerBook ------------------------------
(* The peer book (app/peer_book.rs) and the address rules it is fed through  *)
(* (p2p/peer_addr.rs), as operators on a book: a function from the addresses *)
(* it knows to what it knows of them.                                        *)
(*                                                                           *)
(* Times are kept as ages: "none" (never), "new" (counts as a good           *)
(* connection), "aged" (no longer) and "stale" (past the retention).  A ban  *)
(* is a flag that the passing of time lowers.  Counters of messages and the  *)
(* texts of errors are left out.                                             *)
EXTENDS Integers, FiniteSets, FiniteSetsExt, Functions, Sequences, SequencesExt

CONSTANTS
    ListenAddr,             \* the address this node listens on
    MaxTotal,               \* MAX_TOTAL_PEERS
    MaxDiscovered,          \* MAX_DISCOVERED_PEERS
    MaxPerIp,               \* MAX_DISCOVERED_PEERS_PER_IP
    MaxPerGroup,            \* MAX_DISCOVERED_PEERS_PER_IPV4_PREFIX
    BanScore                \* PEER_MISBEHAVIOR_BAN_SCORE

None == [ip |-> "none", group |-> "none", port |-> 0]     \* no address
Ages == {"none", "new", "aged", "stale"}
Directions == {"Outbound", "Discovered", "Inbound"}

PeerInfo == [direction: Directions, status: BOOLEAN, error: BOOLEAN, contact: Ages,
             success: Ages, score: 0..BanScore, banned: BOOLEAN]

NewPeer(direction) ==
    [direction |-> direction, status |-> FALSE, error |-> FALSE, contact |-> "none",
     success |-> "none", score |-> 0, banned |-> FALSE]

(* Addresses: [ip, group, port]; "any" is the unspecified address, "loop"    *)
(* loopback, "private" any range that is not routed, everything else public. *)
ReachableAdvertised(a, remote) == IF a.ip = "any" THEN [a EXCEPT !.ip = remote.ip] ELSE a

Discoverable(a, remote) ==
    IF a.ip = "loop" THEN remote.ip = "loop" ELSE a.ip \notin {"any", "private"}

IsSelfSocket(a, listen) ==
    \/ a = listen
    \/ /\ a.port = listen.port
       /\ \/ listen.ip = "any" /\ a.ip \in {"any", "loop"}
          \/ a.ip = "any" /\ listen.ip = "loop"

IsSelfPeer(a, advertised) ==
    \/ IsSelfSocket(a, ListenAddr)
    \/ advertised # None /\ IsSelfSocket(a, advertised)

Known(book, a) == a \in DOMAIN book
With(book, a, info) == [x \in DOMAIN book \cup {a} |-> IF x = a THEN info ELSE book[x]]
Without(book, as) == Restrict(book, DOMAIN book \ as)
Ensure(book, a, direction) == IF Known(book, a) THEN book[a] ELSE NewPeer(direction)

WithDirection(book, direction) == {a \in DOMAIN book : book[a].direction = direction}
DiscoveredPeers(book) == WithDirection(book, "Discovered")

IsBanned(book, a) == Known(book, a) /\ book[a].banned

IsGoodConnection(info) ==
    ~info.banned /\ ~info.error /\ info.status /\ info.success = "new"

HasGoodConnection(book) == \E a \in DOMAIN book : IsGoodConnection(book[a])

AddPeer(book, a) ==
    IF ~Known(book, a) /\ Cardinality(DOMAIN book) >= MaxTotal THEN book
    ELSE With(book, a, [Ensure(book, a, "Outbound") EXCEPT !.direction = "Outbound"])

DiscoveredHasRoom(book, a) ==
    LET found == DiscoveredPeers(book)
    IN /\ Cardinality(found) < MaxDiscovered
       /\ Cardinality({b \in found : b.ip = a.ip}) < MaxPerIp
       /\ Cardinality({b \in found : b.group = a.group}) < MaxPerGroup

AddDiscoveredPeer(book, a) ==
    IF Known(book, a)
    THEN IF book[a].direction = "Inbound" /\ ~DiscoveredHasRoom(book, a) THEN book
         ELSE With(book, a,
                   [book[a] EXCEPT
                     !.direction = IF @ = "Inbound" THEN "Discovered" ELSE @,
                     !.contact = IF @ = "none" THEN "new" ELSE @])
    ELSE IF DiscoveredHasRoom(book, a)
         THEN With(book, a, [NewPeer("Discovered") EXCEPT !.contact = "new"])
         ELSE book

KeptWhenStale(info) ==
    \/ info.banned
    \/ CASE info.direction = "Outbound" -> TRUE
         [] info.direction = "Inbound" -> info.contact \in {"new", "aged"}
         [] info.direction = "Discovered" ->
              (IF info.success # "none" THEN info.success ELSE info.contact) \in {"new", "aged"}

PruneStalePeers(book) == Without(book, {a \in DOMAIN book : ~KeptWhenStale(book[a])})

(* The younger of two ages.                                                  *)
Later(x, y) == CHOOSE z \in {x, y} :
    \/ z = "new"
    \/ z = "aged" /\ "new" \notin {x, y}
    \/ z = "stale" /\ {x, y} \subseteq {"stale", "none"}
    \/ {x, y} = {"none"}

ReplacePeerAddress(book, from, to) ==
    IF from = to THEN IF Known(book, from) THEN book ELSE AddPeer(book, to)
    ELSE IF ~Known(book, from) THEN AddPeer(book, to)
    ELSE LET old == book[from]
             rest == Without(book, {from})
             new == Ensure(rest, to, old.direction)
         IN With(rest, to,
                 [direction |-> IF \/ old.direction = "Outbound"
                                   \/ old.direction = "Discovered" /\ new.direction = "Inbound"
                                THEN old.direction ELSE new.direction,
                  status |-> new.status \/ old.status,
                  error |-> new.error \/ old.error,
                  contact |-> Later(new.contact, old.contact),
                  success |-> Later(new.success, old.success),
                  score |-> Min({new.score + old.score, BanScore}),
                  banned |-> new.banned \/ old.banned])

IsConnectable(book, a) == Known(book, a) /\ book[a].direction # "Inbound"

RemovePeer(book, a) == IF IsConnectable(book, a) THEN Without(book, {a}) ELSE book

RemoveNeverConnected(book, a) ==
    IF IsConnectable(book, a) /\ book[a].success = "none" /\ HasGoodConnection(book)
    THEN Without(book, {a}) ELSE book

(* outbound_session_candidates_at: all configured peers, and of the          *)
(* discovered ones the dials that succeeded last; the sort also looks at     *)
(* the time of the last error and at the address, which ages do not tell.    *)
SessionCandidates(book, dials) ==
    LET free == {a \in DOMAIN book : ~book[a].banned}
        found == DiscoveredPeers(book) \cap free
        worse(a, b) == /\ Later(book[a].success, book[b].success) = book[b].success
                       /\ book[a].success # book[b].success
    IN {(WithDirection(book, "Outbound") \cap free) \cup picked :
            picked \in {s \in kSubset(Min({dials, Cardinality(found)}), found) :
                            \A a \in s : \A b \in found \ s : ~worse(a, b)}}

OutboundAddresses(book) == {a \in WithDirection(book, "Outbound") : ~book[a].banned}

SucceededForgivingBans(info) == \* mutant
    [info EXCEPT !.contact = "new", !.success = "new", !.error = FALSE, !.score = 0,
                 !.banned = FALSE]

(* What every successful exchange does to a peer: a ban is not lifted by it. *)
Succeeded(info) ==
    LET seen == [info EXCEPT !.contact = "new", !.success = "new"]
    IN IF info.banned THEN seen ELSE [seen EXCEPT !.error = FALSE, !.score = 0]

Promoted(info) ==
    [info EXCEPT !.direction = IF @ = "Discovered" THEN "Outbound" ELSE @]

RecordSent(book, a) == With(book, a, Succeeded(Promoted(Ensure(book, a, "Outbound"))))
RecordStatus(book, a) ==
    With(book, a, [Succeeded(Promoted(Ensure(book, a, "Outbound"))) EXCEPT !.status = TRUE])
RecordInboundStatus(book, a) ==
    With(book, a, [Succeeded(Ensure(book, a, "Inbound")) EXCEPT !.status = TRUE])
RecordReceived(book, a) == With(book, a, Succeeded(Ensure(book, a, "Inbound")))

Failed(info) == [info EXCEPT !.contact = "new", !.error = TRUE]
RecordError(book, a) == With(book, a, Failed(Ensure(book, a, "Outbound")))
RecordInboundError(book, a) == With(book, a, Failed(Ensure(book, a, "Inbound")))

RecordMisbehavior(book, a, direction) ==
    LET score == Min({Ensure(book, a, direction).score + 1, BanScore})
    IN With(book, a,
            [Failed(Ensure(book, a, direction)) EXCEPT
              !.score = score, !.banned = @ \/ score >= BanScore])

=============================================================================
