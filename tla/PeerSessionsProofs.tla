------------------------- MODULE PeerSessionsProofs -------------------------
(***************************************************************************)
(* Proofs about PeerSessions and the peer book for any addresses, limits   *)
(* and events.                                                             *)
(***************************************************************************)
EXTENDS PeerSessions, FiniteSetTheorems, TLAPS

-----------------------------------------------------------------------------
(* The peer book.                                                          *)

AllAddresses == Addrs \cup Remotes
BookOk(b) ==
    /\ DOMAIN b \subseteq AllAddresses /\ \A a \in DOMAIN b : b[a] \in PeerInfo
    /\ \A a \in DOMAIN b : b[a].direction # "Inbound" => a \in Addrs
KeepsBans(b, c) == \A a \in DOMAIN b : b[a].banned => IsBanned(c, a)
Follows(b, c) == BookOk(c) /\ KeepsBans(b, c)

\* The lower and the higher of two numbers.
LEMMA MinOfTwo ==
    ASSUME NEW x \in Int, NEW y \in Int
    PROVE  /\ Min({x, y}) = (IF x <= y THEN x ELSE y)
  <1> DEFINE m == IF x <= y THEN x ELSE y
  <1>1. m \in {x, y} /\ \A z \in {x, y} : m <= z
    OBVIOUS
  <1>2. \A n \in {x, y} : (\A z \in {x, y} : n <= z) => n = m
    OBVIOUS
  <1> QED
    BY <1>1, <1>2 DEF Min

\* Writing one entry.
LEMMA WithOk ==
    ASSUME NEW b, BookOk(b), NEW a \in AllAddresses, NEW info \in PeerInfo,
           info.direction # "Inbound" => a \in Addrs,
           a \in DOMAIN b /\ b[a].banned => info.banned
    PROVE  Follows(b, With(b, a, info))
  <1>1. DOMAIN With(b, a, info) = DOMAIN b \cup {a} /\ With(b, a, info)[a] = info
        /\ \A c \in DOMAIN b \ {a} : With(b, a, info)[c] = b[c]
    BY DEF With
  <1>2. BookOk(With(b, a, info))
    BY <1>1 DEF BookOk
  <1>3. KeepsBans(b, With(b, a, info))
    <2> SUFFICES ASSUME NEW c \in DOMAIN b, b[c].banned
                 PROVE  IsBanned(With(b, a, info), c)
      BY DEF KeepsBans
    <2> QED
      BY <1>1 DEF IsBanned, Known
  <1> QED
    BY <1>2, <1>3 DEF Follows

LEMMA FollowsTrans ==
    ASSUME NEW b, NEW c, NEW d, Follows(b, c), Follows(c, d)
    PROVE  Follows(b, d)
  BY DEF Follows, KeepsBans, IsBanned, Known

LEMMA FollowsSelf ==
    ASSUME NEW b, BookOk(b)
    PROVE  Follows(b, b)
  BY DEF Follows, KeepsBans, IsBanned, Known

LEMMA NewPeerType ==
    ASSUME NEW direction \in Directions
    PROVE  /\ NewPeer(direction) \in PeerInfo /\ NewPeer(direction).direction = direction
           /\ ~NewPeer(direction).banned
  BY PeersAssumption DEF NewPeer, PeerInfo, Ages

LEMMA EnsureType ==
    ASSUME NEW b, BookOk(b), NEW a, NEW direction \in Directions
    PROVE  /\ Ensure(b, a, direction) \in PeerInfo
           /\ a \in DOMAIN b => Ensure(b, a, direction) = b[a]
           /\ a \notin DOMAIN b => Ensure(b, a, direction).direction = direction
  BY NewPeerType DEF Ensure, Known, BookOk

LEMMA SucceededType ==
    ASSUME NEW info \in PeerInfo
    PROVE  /\ Succeeded(info) \in PeerInfo /\ Succeeded(info).direction = info.direction
           /\ Succeeded(info).banned = info.banned
  <1> DEFINE seen == [info EXCEPT !.contact = "new", !.success = "new"]
  <1>1. seen \in PeerInfo /\ seen.direction = info.direction /\ seen.banned = info.banned
    BY DEF PeerInfo, Ages
  <1>2. 0 \in 0 .. BanScore
    BY PeersAssumption
  <1>3. /\ [seen EXCEPT !.error = FALSE, !.score = 0] \in PeerInfo
        /\ [seen EXCEPT !.error = FALSE, !.score = 0].direction = info.direction
        /\ [seen EXCEPT !.error = FALSE, !.score = 0].banned = info.banned
    <2> HIDE DEF seen
    <2> QED
      BY <1>1, <1>2 DEF PeerInfo
  <1> QED
    BY <1>1, <1>3 DEF Succeeded

LEMMA PromotedType ==
    ASSUME NEW info \in PeerInfo
    PROVE  /\ Promoted(info) \in PeerInfo /\ Promoted(info).banned = info.banned
           /\ info.direction = "Inbound" => Promoted(info).direction = "Inbound"
  BY DEF Promoted, PeerInfo, Directions

LEMMA FailedType ==
    ASSUME NEW info \in PeerInfo
    PROVE  /\ Failed(info) \in PeerInfo /\ Failed(info).direction = info.direction
           /\ Failed(info).banned = info.banned
  BY DEF Failed, PeerInfo, Ages

LEMMA AddPeerOk ==
    ASSUME NEW b, BookOk(b), NEW a \in Addrs
    PROVE  Follows(b, AddPeer(b, a))
  <1> DEFINE info == [Ensure(b, a, "Outbound") EXCEPT !.direction = "Outbound"]
  <1>1. /\ Ensure(b, a, "Outbound") \in PeerInfo
        /\ a \in DOMAIN b => Ensure(b, a, "Outbound") = b[a]
    BY EnsureType DEF Directions
  <1>2. info \in PeerInfo /\ (a \in DOMAIN b /\ b[a].banned => info.banned)
    BY <1>1 DEF PeerInfo, Directions
  <1>3. Follows(b, With(b, a, info))
    <2> HIDE DEF info
    <2> QED
      BY <1>2, WithOk DEF AllAddresses
  <1> QED
    BY <1>3, FollowsSelf DEF AddPeer

LEMMA AddDiscoveredPeerOk ==
    ASSUME NEW b, BookOk(b), NEW a \in Addrs
    PROVE  Follows(b, AddDiscoveredPeer(b, a))
  <1> DEFINE met == [b[a] EXCEPT !.direction = IF @ = "Inbound" THEN "Discovered" ELSE @,
                                 !.contact = IF @ = "none" THEN "new" ELSE @]
             found == [NewPeer("Discovered") EXCEPT !.contact = "new"]
  <1>1. CASE a \in DOMAIN b
    <2>1. b[a] \in PeerInfo
      BY <1>1 DEF BookOk
    <2>2. met \in PeerInfo /\ met.banned = b[a].banned
      BY <2>1 DEF PeerInfo, Directions, Ages
    <2>3. Follows(b, With(b, a, met))
      <3> HIDE DEF met
      <3> QED
        BY <2>2, WithOk DEF AllAddresses
    <2> QED
      BY <1>1, <2>3, FollowsSelf DEF AddDiscoveredPeer, Known
  <1>2. CASE a \notin DOMAIN b
    <2>1. NewPeer("Discovered") \in PeerInfo
      BY NewPeerType DEF Directions
    <2>2. found \in PeerInfo
      BY <2>1 DEF PeerInfo, Ages
    <2>3. Follows(b, With(b, a, found))
      <3> HIDE DEF found
      <3> QED
        BY <1>2, <2>2, WithOk DEF AllAddresses
    <2> QED
      BY <1>2, <2>3, FollowsSelf DEF AddDiscoveredPeer, Known
  <1> QED
    BY <1>1, <1>2

\* Removing entries that carry no ban.
LEMMA WithoutOk ==
    ASSUME NEW b, BookOk(b), NEW as
    PROVE  /\ BookOk(Without(b, as))
           /\ (\A a \in DOMAIN b \cap as : ~b[a].banned) => KeepsBans(b, Without(b, as))
  <1>1. DOMAIN Without(b, as) = DOMAIN b \ as
        /\ \A a \in DOMAIN b \ as : Without(b, as)[a] = b[a]
    BY DEF Without, Restrict
  <1> QED
    BY <1>1 DEF BookOk, KeepsBans, IsBanned, Known

LEMMA PruneStalePeersOk ==
    ASSUME NEW b, BookOk(b)
    PROVE  Follows(b, PruneStalePeers(b))
  BY WithoutOk DEF PruneStalePeers, KeptWhenStale, Follows

LEMMA LaterType ==
    ASSUME NEW x \in Ages, NEW y \in Ages
    PROVE  Later(x, y) \in Ages
  <1> DEFINE Good(z) == \/ z = "new"
                        \/ z = "aged" /\ "new" \notin {x, y}
                        \/ z = "stale" /\ {x, y} \subseteq {"stale", "none"}
                        \/ {x, y} = {"none"}
  <1>1. \E z \in {x, y} : Good(z)
    BY DEF Ages
  <1>2. Later(x, y) \in {x, y}
    BY <1>1 DEF Later
  <1> QED
    BY <1>2

\* The ban of an address goes to the address that replaces it.
LEMMA ReplacePeerAddressOk ==
    ASSUME NEW b, BookOk(b), NEW from \in Addrs, NEW to \in Addrs
    PROVE  LET c == ReplacePeerAddress(b, from, to)
           IN  /\ BookOk(c)
               /\ \A a \in DOMAIN b \ {from} : b[a].banned => IsBanned(c, a)
               /\ from \in DOMAIN b /\ b[from].banned => \E a \in DOMAIN c : c[a].banned
  <1>1. CASE from = to \/ from \notin DOMAIN b
    BY <1>1, AddPeerOk, FollowsSelf DEF ReplacePeerAddress, Known, Follows, KeepsBans, IsBanned
  <1>2. CASE from # to /\ from \in DOMAIN b
    <2> DEFINE old == b[from]
               rest == Without(b, {from})
               new == Ensure(rest, to, old.direction)
               score == Min({new.score + old.score, BanScore})
               info == [direction |-> IF \/ old.direction = "Outbound"
                                         \/ old.direction = "Discovered" /\ new.direction = "Inbound"
                                      THEN old.direction ELSE new.direction,
                        status |-> new.status \/ old.status,
                        error |-> new.error \/ old.error,
                        contact |-> Later(new.contact, old.contact),
                        success |-> Later(new.success, old.success),
                        score |-> score,
                        banned |-> new.banned \/ old.banned]
    <2>1. BookOk(rest) /\ DOMAIN rest = DOMAIN b \ {from}
          /\ \A a \in DOMAIN b \ {from} : rest[a] = b[a]
      BY WithoutOk DEF Without, Restrict
    <2>2. old \in PeerInfo /\ old.direction \in Directions
      BY <1>2 DEF BookOk, PeerInfo
    <2>3. new \in PeerInfo /\ (to \in DOMAIN rest => new = rest[to])
      <3> HIDE DEF rest
      <3> QED
        BY <2>1, <2>2, EnsureType
    <2>4. score \in 0 .. BanScore
      <3>1. new.score \in 0 .. BanScore /\ old.score \in 0 .. BanScore /\ BanScore \in Nat
        BY <2>2, <2>3, PeersAssumption DEF PeerInfo
      <3>2. new.score + old.score \in Nat /\ BanScore \in Int
        BY <3>1
      <3>3. score = IF new.score + old.score <= BanScore THEN new.score + old.score ELSE BanScore
        <4> HIDE DEF new, old
        <4> QED
          BY <3>2, MinOfTwo
      <3> QED
        BY <3>1, <3>2, <3>3
    <2>5. Later(new.contact, old.contact) \in Ages /\ Later(new.success, old.success) \in Ages
      BY <2>2, <2>3, LaterType DEF PeerInfo
    <2>6. info \in PeerInfo /\ info.banned = (new.banned \/ old.banned)
      <3> HIDE DEF new, old, score
      <3> QED
        BY <2>2, <2>3, <2>4, <2>5 DEF PeerInfo
    <2>7. ReplacePeerAddress(b, from, to) = With(rest, to, info)
      BY <1>2 DEF ReplacePeerAddress, Known
    <2>8. to \in DOMAIN rest /\ rest[to].banned => info.banned
      BY <2>3, <2>6
    <2>9. Follows(rest, With(rest, to, info))
      <3> HIDE DEF info, rest
      <3> QED
        BY <2>1, <2>6, <2>8, WithOk DEF AllAddresses
    <2>10. to \in DOMAIN With(rest, to, info) /\ With(rest, to, info)[to] = info
      BY DEF With
    <2>11. \A a \in DOMAIN b \ {from} : b[a].banned => IsBanned(With(rest, to, info), a)
      <3> HIDE DEF info, rest
      <3> QED
        BY <2>1, <2>9 DEF Follows, KeepsBans
    <2> HIDE DEF info
    <2> QED
      BY <2>6, <2>7, <2>9, <2>10, <2>11 DEF Follows
  <1> QED
    BY <1>1, <1>2

LEMMA RecordsFollow ==
    ASSUME NEW b, BookOk(b), NEW a \in Addrs
    PROVE  /\ Follows(b, RecordSent(b, a)) /\ Follows(b, RecordStatus(b, a))
           /\ Follows(b, RecordReceived(b, a)) /\ Follows(b, RecordError(b, a))
  <1> DEFINE out == Ensure(b, a, "Outbound")
             in == Ensure(b, a, "Inbound")
             sent == Succeeded(Promoted(out))
             status == [sent EXCEPT !.status = TRUE]
  <1>1. /\ out \in PeerInfo /\ (a \in DOMAIN b => out = b[a])
        /\ in \in PeerInfo /\ (a \in DOMAIN b => in = b[a])
    BY EnsureType DEF Directions
  <1>2. Promoted(out) \in PeerInfo /\ Promoted(out).banned = out.banned
    <2> HIDE DEF out
    <2> QED
      BY <1>1, PromotedType
  <1>3. sent \in PeerInfo /\ sent.banned = out.banned
    <2> HIDE DEF out
    <2> QED
      BY <1>2, SucceededType
  <1>4. status \in PeerInfo /\ status.banned = out.banned
    <2> HIDE DEF sent
    <2> QED
      BY <1>3 DEF PeerInfo
  <1>5. Follows(b, With(b, a, sent))
    <2> HIDE DEF sent, out
    <2> QED
      BY <1>1, <1>3, WithOk DEF AllAddresses
  <1>6. Follows(b, With(b, a, status))
    <2> HIDE DEF status, out
    <2> QED
      BY <1>1, <1>4, WithOk DEF AllAddresses
  <1>7. Follows(b, With(b, a, Succeeded(in)))
    <2>1. Succeeded(in) \in PeerInfo /\ Succeeded(in).banned = in.banned
      <3> HIDE DEF in
      <3> QED
        BY <1>1, SucceededType
    <2> HIDE DEF in
    <2> QED
      BY <1>1, <2>1, WithOk DEF AllAddresses
  <1>8. Follows(b, With(b, a, Failed(out)))
    <2>1. Failed(out) \in PeerInfo /\ Failed(out).banned = out.banned
      <3> HIDE DEF out
      <3> QED
        BY <1>1, FailedType
    <2> HIDE DEF out
    <2> QED
      BY <1>1, <2>1, WithOk DEF AllAddresses
  <1> QED
    BY <1>5, <1>6, <1>7, <1>8 DEF RecordSent, RecordStatus, RecordReceived, RecordError

LEMMA InboundRecordsFollow ==
    ASSUME NEW b, BookOk(b), NEW a \in AllAddresses
    PROVE  Follows(b, RecordInboundStatus(b, a)) /\ Follows(b, RecordInboundError(b, a))
  <1> DEFINE in == Ensure(b, a, "Inbound")
             status == [Succeeded(in) EXCEPT !.status = TRUE]
  <1>1. /\ in \in PeerInfo /\ (a \in DOMAIN b => in = b[a])
        /\ in.direction # "Inbound" => a \in Addrs
    BY EnsureType DEF Directions, BookOk
  <1> HIDE DEF in
  <1>2. /\ Succeeded(in) \in PeerInfo /\ Succeeded(in).direction = in.direction
        /\ Succeeded(in).banned = in.banned
    BY <1>1, SucceededType
  <1>3. status \in PeerInfo /\ status.direction = in.direction /\ status.banned = in.banned
    BY <1>2 DEF PeerInfo
  <1>4. Follows(b, With(b, a, status))
    <2> HIDE DEF status
    <2> QED
      BY <1>1, <1>3, WithOk
  <1>5. Failed(in) \in PeerInfo /\ Failed(in).direction = in.direction
        /\ Failed(in).banned = in.banned
    BY <1>1, FailedType
  <1>6. Follows(b, With(b, a, Failed(in)))
    BY <1>1, <1>5, WithOk
  <1> QED
    BY <1>4, <1>6 DEF RecordInboundStatus, RecordInboundError, in

LEMMA MisbehaviorFollows ==
    ASSUME NEW b, BookOk(b), NEW a \in AllAddresses, NEW direction \in Directions,
           direction # "Inbound" => a \in Addrs
    PROVE  Follows(b, RecordMisbehavior(b, a, direction))
  <1> DEFINE old == Ensure(b, a, direction)
             score == Min({old.score + 1, BanScore})
             info == [Failed(old) EXCEPT !.score = score, !.banned = @ \/ score >= BanScore]
  <1>1. /\ old \in PeerInfo /\ (a \in DOMAIN b => old = b[a])
        /\ old.direction # "Inbound" => a \in Addrs
    BY EnsureType DEF BookOk
  <1> HIDE DEF old
  <1>2. score \in 0 .. BanScore
    <2>1. old.score \in 0 .. BanScore /\ BanScore \in Nat
      BY <1>1, PeersAssumption DEF PeerInfo
    <2>2. score = IF old.score + 1 <= BanScore THEN old.score + 1 ELSE BanScore
      BY <2>1, MinOfTwo
    <2> QED
      BY <2>1, <2>2
  <1>3. /\ Failed(old) \in PeerInfo /\ Failed(old).direction = old.direction
        /\ Failed(old).banned = old.banned
    BY <1>1, FailedType
  <1>4. (score >= BanScore) \in BOOLEAN /\ old.banned \in BOOLEAN
    BY <1>1 DEF PeerInfo
  <1>5. /\ info \in PeerInfo /\ info.direction = old.direction
        /\ old.banned => info.banned
    <2> HIDE DEF score
    <2> QED
      BY <1>2, <1>3, <1>4 DEF PeerInfo
  <1>6. Follows(b, With(b, a, info))
    <2> HIDE DEF info
    <2> QED
      BY <1>1, <1>5, WithOk
  <1> QED
    BY <1>6 DEF RecordMisbehavior, old

-----------------------------------------------------------------------------
(* The invariant, by part, of any book, tasks, registry and limiter.       *)

TasksInv(tk) == DOMAIN tk \subseteq Tasks /\ \A t \in DOMAIN tk : tk[t] \in TaskInfo /\ TaskOk(tk[t])
KeyOf(info) == <<info.kind, info.addr>>
Registered(tk, ss) ==
    \A k \in DOMAIN ss : /\ k[1] \in {"out", "in"} /\ ss[k].chan \in Channels
                         /\ \E t \in DOMAIN tk : KeyOf(tk[t]) = k /\ tk[t].chan = ss[k].chan
From(tk, ips) == {t \in DOMAIN tk : tk[t].kind = "in" /\ tk[t].addr.ip \in ips}
Counted(tk, l) ==
    /\ l \in [active: 0..MaxInbound,
              peers: [Ips -> [active: 0..MaxInboundPerIp, accepts: 0..MaxAccepts]]]
    /\ \A ip \in Ips : l.peers[ip].active = Cardinality(From(tk, {ip}))
    /\ l.active = Cardinality(From(tk, Ips))
Net(b, tk, ss, l, sc) ==
    /\ BookOk(b) /\ TasksInv(tk) /\ Registered(tk, ss) /\ Counted(tk, l)
    /\ sc \in SUBSET SUBSET Addrs

LEMMA NetworkInvParts == NetworkInv <=> Net(book, task, sessions, limiter, scan)
  BY DEF NetworkInv, Net, SessionsAccounted, SessionsTypeOK, EntryHasItsTask, LimiterExact,
         InboundFrom, DialledAddrs, TasksOk, BookOk, TasksInv, Registered, Counted, From, KeyOf,
         Key, Range, AllAddresses

LEMMA NetworkInvNext == NetworkInv' <=> Net(book', task', sessions', limiter', scan')
  BY DEF NetworkInv, Net, SessionsAccounted, SessionsTypeOK, EntryHasItsTask, LimiterExact,
         InboundFrom, DialledAddrs, TasksOk, BookOk, TasksInv, Registered, Counted, From, KeyOf,
         Key, Range, AllAddresses

LEMMA FromFinite ==
    ASSUME NEW tk, TasksInv(tk), NEW ips
    PROVE  IsFiniteSet(From(tk, ips)) /\ Cardinality(From(tk, ips)) \in Nat
  <1>1. From(tk, ips) \in SUBSET Tasks
    BY DEF TasksInv, From
  <1>2. IsFiniteSet(Tasks)
    BY PeersAssumption
  <1>3. IsFiniteSet(From(tk, ips))
    BY <1>1, <1>2, FS_Subset, Zenon
  <1> QED
    BY <1>3, FS_CardinalityType, Zenon

\* A task goes on as the same session.
LEMMA TaskGoes ==
    ASSUME NEW tk, TasksInv(tk), NEW t \in DOMAIN tk, NEW info \in TaskInfo, TaskOk(info),
           info.kind = tk[t].kind, info.addr = tk[t].addr, info.chan = tk[t].chan,
           NEW ss, Registered(tk, ss), NEW l, Counted(tk, l),
           NEW new, new = [tk EXCEPT ![t] = info]
    PROVE  TasksInv(new) /\ Registered(new, ss) /\ Counted(new, l)
  <1>1. DOMAIN new = DOMAIN tk /\ new[t] = info /\ \A u \in DOMAIN tk \ {t} : new[u] = tk[u]
    OBVIOUS
  <1>2. TasksInv(new)
    BY <1>1 DEF TasksInv
  <1>3. \A u \in DOMAIN tk : KeyOf(new[u]) = KeyOf(tk[u]) /\ new[u].chan = tk[u].chan
                              /\ new[u].kind = tk[u].kind /\ new[u].addr = tk[u].addr
    BY <1>1 DEF KeyOf
  <1>4. Registered(new, ss)
    BY <1>1, <1>3 DEF Registered
  <1>5. \A ips : From(new, ips) = From(tk, ips)
    BY <1>1, <1>3 DEF From
  <1> QED
    BY <1>2, <1>4, <1>5 DEF Counted

\* An outbound task registers a new channel.
LEMMA TaskRegisters ==
    ASSUME NEW tk, TasksInv(tk), NEW t \in DOMAIN tk, NEW info \in TaskInfo, TaskOk(info),
           info.kind = tk[t].kind, info.addr = tk[t].addr,
           NEW ss, Registered(tk, ss), NEW l, Counted(tk, l), NEW entry, entry.chan = info.chan,
           NEW new, new = [tk EXCEPT ![t] = info]
    PROVE  /\ TasksInv(new) /\ Registered(new, With(ss, KeyOf(tk[t]), entry)) /\ Counted(new, l)
  <1>1. DOMAIN new = DOMAIN tk /\ new[t] = info /\ \A u \in DOMAIN tk \ {t} : new[u] = tk[u]
    OBVIOUS
  <1>2. TasksInv(new)
    BY <1>1 DEF TasksInv
  <1>3. KeyOf(info) = KeyOf(tk[t]) /\ info.kind \in {"out", "in"} /\ info.chan \in Channels
    BY DEF KeyOf, TaskInfo
  <1>4. DOMAIN With(ss, KeyOf(tk[t]), entry) = DOMAIN ss \cup {KeyOf(tk[t])}
        /\ With(ss, KeyOf(tk[t]), entry)[KeyOf(tk[t])] = entry
        /\ \A k \in DOMAIN ss \ {KeyOf(tk[t])} : With(ss, KeyOf(tk[t]), entry)[k] = ss[k]
    BY DEF With
  <1>5. Registered(new, With(ss, KeyOf(tk[t]), entry))
    <2> SUFFICES ASSUME NEW k \in DOMAIN ss \cup {KeyOf(tk[t])}
                 PROVE  LET e == With(ss, KeyOf(tk[t]), entry)[k]
                        IN  /\ k[1] \in {"out", "in"} /\ e.chan \in Channels
                            /\ \E u \in DOMAIN new : KeyOf(new[u]) = k /\ new[u].chan = e.chan
      BY <1>4 DEF Registered
    <2>1. CASE k = KeyOf(tk[t])
      <3>1. k[1] = tk[t].kind
        BY <2>1 DEF KeyOf
      <3> QED
        BY <1>1, <1>3, <1>4, <2>1, <3>1
    <2>2. CASE k # KeyOf(tk[t])
      <3>1. k \in DOMAIN ss /\ With(ss, KeyOf(tk[t]), entry)[k] = ss[k]
        BY <1>4, <2>2
      <3>2. PICK u \in DOMAIN tk : KeyOf(tk[u]) = k /\ tk[u].chan = ss[k].chan
        BY <3>1 DEF Registered
      <3>3. u # t /\ new[u] = tk[u]
        BY <1>1, <2>2, <3>2
      <3>4. k[1] \in {"out", "in"} /\ ss[k].chan \in Channels
        BY <3>1 DEF Registered
      <3> QED
        BY <1>1, <3>1, <3>2, <3>3, <3>4
    <2> QED
      BY <2>1, <2>2
  <1>6. \A ips : From(new, ips) = From(tk, ips)
    BY <1>1 DEF From
  <1> QED
    BY <1>2, <1>5, <1>6 DEF Counted

\* A task ends and takes its key out of the registry.
LEMMA TaskEnds ==
    ASSUME NEW tk, TasksInv(tk), NEW t \in DOMAIN tk, NEW ss, Registered(tk, ss),
           NEW rest, rest = Restrict(ss, DOMAIN ss \ {KeyOf(tk[t])}),
           NEW new, new = Restrict(tk, DOMAIN tk \ {t})
    PROVE  TasksInv(new) /\ Registered(new, rest) /\ \A ips : From(new, ips) = From(tk, ips) \ {t}
  <1>1. DOMAIN new = DOMAIN tk \ {t} /\ \A u \in DOMAIN tk \ {t} : new[u] = tk[u]
    BY DEF Restrict
  <1>2. DOMAIN rest = DOMAIN ss \ {KeyOf(tk[t])} /\ \A k \in DOMAIN rest : rest[k] = ss[k]
    BY DEF Restrict
  <1>3. TasksInv(new)
    BY <1>1 DEF TasksInv
  <1>4. Registered(new, rest)
    <2> SUFFICES ASSUME NEW k \in DOMAIN rest
                 PROVE  /\ k[1] \in {"out", "in"} /\ rest[k].chan \in Channels
                        /\ \E u \in DOMAIN new : KeyOf(new[u]) = k /\ new[u].chan = rest[k].chan
      BY DEF Registered
    <2>1. k \in DOMAIN ss /\ k # KeyOf(tk[t]) /\ rest[k] = ss[k]
      BY <1>2
    <2>2. k[1] \in {"out", "in"} /\ ss[k].chan \in Channels
      BY <2>1 DEF Registered
    <2>3. PICK u \in DOMAIN tk : KeyOf(tk[u]) = k /\ tk[u].chan = ss[k].chan
      BY <2>1 DEF Registered
    <2>4. u # t /\ u \in DOMAIN new /\ new[u] = tk[u]
      BY <1>1, <2>1, <2>3
    <2> QED
      BY <2>1, <2>2, <2>3, <2>4
  <1>5. \A ips : From(new, ips) = From(tk, ips) \ {t}
    BY <1>1 DEF From
  <1> QED
    BY <1>3, <1>4, <1>5

LEMMA OutboundEndCounted ==
    ASSUME NEW tk, NEW new, NEW l, Counted(tk, l), NEW t, tk[t].kind = "out",
           \A ips : From(new, ips) = From(tk, ips) \ {t}
    PROVE  Counted(new, l)
  <1>1. \A ips : From(new, ips) = From(tk, ips)
    BY DEF From
  <1> QED
    BY <1>1 DEF Counted

\* The permit of an inbound session is given back with it.
LEMMA InboundEndCounted ==
    ASSUME NEW tk, TasksInv(tk), NEW new, Counted(tk, limiter),
           NEW t \in DOMAIN tk, tk[t].kind = "in",
           \A ips : From(new, ips) = From(tk, ips) \ {t}
    PROVE  Counted(new, Release(tk[t].addr.ip))
  <1> DEFINE ip == tk[t].addr.ip
  <1>1. ip \in Ips
    BY DEF TasksInv, TaskOk, Ips
  <1>2. limiter \in [active: 0..MaxInbound,
                     peers: [Ips -> [active: 0..MaxInboundPerIp, accepts: 0..MaxAccepts]]]
    BY DEF Counted
  <1>3. /\ limiter.active \in 0..MaxInbound
        /\ limiter.peers \in [Ips -> [active: 0..MaxInboundPerIp, accepts: 0..MaxAccepts]]
        /\ limiter.peers[ip] \in [active: 0..MaxInboundPerIp, accepts: 0..MaxAccepts]
    <2> HIDE DEF ip
    <2> QED
      BY <1>1, <1>2
  <1>4. \A ips : Cardinality(From(new, ips)) = IF t \in From(tk, ips)
                                               THEN Cardinality(From(tk, ips)) - 1
                                               ELSE Cardinality(From(tk, ips))
    BY FromFinite, FS_RemoveElement, Zenon
  <1>5. t \in From(tk, Ips) /\ \A i \in Ips : t \in From(tk, {i}) <=> i = ip
    BY <1>1 DEF From
  <1>6. /\ Cardinality(From(new, Ips)) = limiter.active - 1
        /\ \A i \in Ips : Cardinality(From(new, {i})) = IF i = ip THEN limiter.peers[i].active - 1
                                                        ELSE limiter.peers[i].active
    BY <1>4, <1>5 DEF Counted
  <1>7. limiter.active > 0 /\ limiter.peers[ip].active > 0
    <2>1. From(tk, Ips) # {} /\ From(tk, {ip}) # {}
      BY <1>1, <1>5
    <2>2. Cardinality(From(tk, Ips)) # 0 /\ Cardinality(From(tk, {ip})) # 0
      BY <2>1, FromFinite, FS_EmptySet, Zenon
    <2>3. limiter.active # 0 /\ limiter.peers[ip].active # 0
      BY <1>1, <2>2 DEF Counted
    <2> HIDE DEF ip
    <2> QED
      BY <1>3, <2>3
  <1> DEFINE l == Release(ip)
             entry == [active |-> limiter.peers[ip].active - 1,
                       accepts |-> limiter.peers[ip].accepts]
  <1>8. l.active = limiter.active - 1 /\ l.peers = [limiter.peers EXCEPT ![ip] = entry]
        /\ l = [active |-> limiter.active - 1, peers |-> [limiter.peers EXCEPT ![ip] = entry]]
    <2>1. /\ Lowered(limiter.active) = limiter.active - 1
          /\ Lowered(limiter.peers[ip].active) = limiter.peers[ip].active - 1
      BY <1>7 DEF Lowered
    <2> DEFINE low == [active |-> Lowered(limiter.peers[ip].active),
                      accepts |-> limiter.peers[ip].accepts]
    <2> HIDE DEF ip
    <2>3. l = [active |-> Lowered(limiter.active), peers |-> [limiter.peers EXCEPT ![ip] = low]]
      BY Zenon DEF Release
    <2>4. low = entry
      BY <2>1
    <2>2. l = [active |-> limiter.active - 1, peers |-> [limiter.peers EXCEPT ![ip] = entry]]
      <3> HIDE DEF l, low, entry
      <3> QED
        BY <2>1, <2>3, <2>4
    <2> HIDE DEF l
    <2> QED
      BY <2>2
  <1>9. entry \in [active: 0..MaxInboundPerIp, accepts: 0..MaxAccepts]
        /\ entry.active = limiter.peers[ip].active - 1
    <2> HIDE DEF ip
    <2> QED
      BY <1>3, <1>7, PeersAssumption
  <1>10. limiter.active - 1 \in 0..MaxInbound
    BY <1>3, <1>7, PeersAssumption
  <1>11. \A i \in Ips : l.peers[i].active = IF i = ip THEN limiter.peers[i].active - 1
                                            ELSE limiter.peers[i].active
    <2> HIDE DEF ip, entry, l
    <2> QED
      BY <1>1, <1>3, <1>8, <1>9
  <1>12. l \in [active: 0..MaxInbound,
                peers: [Ips -> [active: 0..MaxInboundPerIp, accepts: 0..MaxAccepts]]]
    <2> HIDE DEF ip, entry, l
    <2> QED
      BY <1>1, <1>3, <1>8, <1>9, <1>10
  <1>13. \A i \in Ips : l.peers[i].active = Cardinality(From(new, {i}))
    <2> HIDE DEF ip, entry, l
    <2> QED
      BY <1>6, <1>11
  <1> HIDE DEF l, ip
  <1>14. l.active = Cardinality(From(new, Ips))
    BY <1>6, <1>8
  <1> QED
    BY <1>12, <1>13, <1>14 DEF Counted, l, ip

\* An inbound connection joins with its permit, in no registry yet.
LEMMA TaskJoins ==
    ASSUME NEW tk, TasksInv(tk), NEW ss, Registered(tk, ss), Counted(tk, limiter),
           NEW t \in Tasks \ DOMAIN tk, NEW remote \in Remotes, TryAcquire(remote.ip),
           NEW info \in TaskInfo, TaskOk(info), info.kind = "in", info.addr = remote,
           NEW new, new = With(tk, t, info)
    PROVE  TasksInv(new) /\ Registered(new, ss) /\ Counted(new, Acquired(remote.ip))
  <1> DEFINE ip == remote.ip
  <1>1. DOMAIN new = DOMAIN tk \cup {t} /\ new[t] = info /\ \A u \in DOMAIN tk : new[u] = tk[u]
    BY DEF With
  <1>2. TasksInv(new) /\ Registered(new, ss)
    BY <1>1 DEF TasksInv, Registered
  <1>3. ip \in Ips
    BY DEF Ips
  <1>4. \A ips : From(new, ips) = IF ip \in ips THEN From(tk, ips) \cup {t} ELSE From(tk, ips)
    BY <1>1 DEF From
  <1>5. \A ips : t \notin From(tk, ips)
    BY DEF From
  <1>6. \A ips : Cardinality(From(tk, ips) \cup {t}) = Cardinality(From(tk, ips)) + 1
    BY <1>5, FromFinite, FS_AddElement, Zenon
  <1>7. /\ Cardinality(From(new, Ips)) = limiter.active + 1
        /\ \A i \in Ips : Cardinality(From(new, {i})) = IF i = ip THEN limiter.peers[i].active + 1
                                                        ELSE limiter.peers[i].active
    <2>1. \A i : ip \in {i} <=> i = ip
      OBVIOUS
    <2> HIDE DEF ip
    <2> QED
      BY <1>3, <1>4, <1>6, <2>1 DEF Counted
  <1> HIDE DEF ip
  <1>8. limiter \in [active: 0..MaxInbound,
                     peers: [Ips -> [active: 0..MaxInboundPerIp, accepts: 0..MaxAccepts]]]
    BY DEF Counted
  <1>9. /\ limiter.active \in 0..MaxInbound
        /\ limiter.peers \in [Ips -> [active: 0..MaxInboundPerIp, accepts: 0..MaxAccepts]]
        /\ limiter.peers[ip] \in [active: 0..MaxInboundPerIp, accepts: 0..MaxAccepts]
    BY <1>3, <1>8
  <1>10. limiter.active < MaxInbound /\ limiter.peers[ip].active < MaxInboundPerIp
         /\ limiter.peers[ip].accepts < MaxAccepts
    BY DEF TryAcquire, ip
  <1> DEFINE l == Acquired(ip)
             entry == [active |-> limiter.peers[ip].active + 1,
                       accepts |-> limiter.peers[ip].accepts + 1]
  <1>11. l.active = limiter.active + 1 /\ l.peers = [limiter.peers EXCEPT ![ip] = entry]
         /\ l = [active |-> limiter.active + 1, peers |-> [limiter.peers EXCEPT ![ip] = entry]]
    BY <1>3, <1>8, <1>9, Zenon DEF Acquired
  <1>12. entry \in [active: 0..MaxInboundPerIp, accepts: 0..MaxAccepts]
         /\ entry.active = limiter.peers[ip].active + 1
    BY <1>9, <1>10, PeersAssumption
  <1>13. limiter.active + 1 \in 0..MaxInbound
    BY <1>9, <1>10, PeersAssumption
  <1> HIDE DEF l, entry
  <1>14. \A i \in Ips : l.peers[i].active = IF i = ip THEN limiter.peers[i].active + 1
                                            ELSE limiter.peers[i].active
    BY <1>3, <1>9, <1>11, <1>12
  <1>15. l \in [active: 0..MaxInbound,
                peers: [Ips -> [active: 0..MaxInboundPerIp, accepts: 0..MaxAccepts]]]
    BY <1>3, <1>9, <1>11, <1>12, <1>13
  <1>16. Counted(new, l)
    BY <1>7, <1>11, <1>14, <1>15 DEF Counted
  <1> QED
    BY <1>2, <1>16 DEF l, ip

-----------------------------------------------------------------------------
(* The steps.                                                              *)

\* The registry loses entries.
LEMMA Fewer ==
    ASSUME NEW tk, NEW ss, Registered(tk, ss), NEW keys,
           NEW rest, rest = Restrict(ss, DOMAIN ss \ keys)
    PROVE  Registered(tk, rest)
  <1>1. DOMAIN rest = DOMAIN ss \ keys /\ \A k \in DOMAIN ss \ keys : rest[k] = ss[k]
    BY DEF Restrict
  <1>2. \A k \in DOMAIN rest : k \in DOMAIN ss /\ rest[k] = ss[k]
    BY <1>1
  <1> HIDE <1>1
  <1> QED
    BY <1>2 DEF Registered

LEMMA InvParts ==
    ASSUME NetworkInv
    PROVE  /\ BookOk(book) /\ TasksInv(task) /\ Registered(task, sessions) /\ Counted(task, limiter)
           /\ scan \in SUBSET SUBSET Addrs
  BY NetworkInvParts DEF Net

LEMMA InvNext ==
    ASSUME BookOk(book'), TasksInv(task'), Registered(task', sessions'), Counted(task', limiter'),
           scan' \in SUBSET SUBSET Addrs
    PROVE  NetworkInv'
  BY NetworkInvNext DEF Net

LEMMA TaskTyped ==
    ASSUME NetworkInv, NEW t \in DOMAIN task
    PROVE  /\ task[t] \in TaskInfo /\ TaskOk(task[t]) /\ t \in Tasks
           /\ task[t].kind \in {"in", "out"} /\ task[t].addr \in AllAddresses
           /\ task[t].kind = "out" => task[t].addr \in Addrs
           /\ task[t].known \in Addrs \cup {None}
  <1>1. task[t] \in TaskInfo /\ TaskOk(task[t]) /\ t \in Tasks
    BY InvParts DEF TasksInv
  <1>2. task[t].kind = "out" => task[t].addr \in Addrs
    BY <1>1 DEF TaskOk
  <1> QED
    BY <1>1, <1>2 DEF TaskInfo, AllAddresses

LEMMA GoesOn ==
    ASSUME NetworkInv, NEW t \in DOMAIN task, NEW info \in TaskInfo, TaskOk(info),
           info.kind = task[t].kind, info.addr = task[t].addr, info.chan = task[t].chan,
           Goes(t, info), BookOk(book'), UNCHANGED <<sessions, limiter, scan>>
    PROVE  NetworkInv'
  <1>1. task' = [task EXCEPT ![t] = info]
    BY DEF Goes
  <1>2. TasksInv(task') /\ Registered(task', sessions) /\ Counted(task', limiter)
    BY <1>1, InvParts, TaskGoes
  <1> QED
    BY <1>2, InvParts, InvNext

\* An outbound task returns.
LEMMA TaskStops ==
    ASSUME NetworkInv, NEW t \in DOMAIN task, task[t].kind = "out", Gone(t),
           sessions' = Unregister({Key(t)}), BookOk(book'), UNCHANGED <<limiter, scan>>
    PROVE  NetworkInv'
  <1>1. task' = Restrict(task, DOMAIN task \ {t})
        /\ sessions' = Restrict(sessions, DOMAIN sessions \ {KeyOf(task[t])})
    BY DEF Gone, Unregister, Key, KeyOf
  <1>2. /\ TasksInv(task') /\ Registered(task', sessions')
        /\ \A ips : From(task', ips) = From(task, ips) \ {t}
    BY <1>1, InvParts, TaskEnds
  <1>3. Counted(task', limiter)
    BY <1>2, InvParts, OutboundEndCounted
  <1> QED
    BY <1>2, <1>3, InvParts, InvNext

LEMMA LeaveOk ==
    ASSUME NetworkInv, NEW t \in DOMAIN task, NEW failed \in BOOLEAN, Leave(t, failed),
           BookOk(book'), scan' = scan
    PROVE  NetworkInv'
  <1>1. CASE task[t].kind = "out"
    <2>1. Goes(t, Ended(t, failed)) /\ UNCHANGED <<sessions, limiter>>
      BY <1>1 DEF Leave
    <2>2. /\ Ended(t, failed) \in TaskInfo /\ Ended(t, failed).kind = task[t].kind
          /\ Ended(t, failed).addr = task[t].addr /\ Ended(t, failed).chan = task[t].chan
          /\ Ended(t, failed).node = task[t].node /\ Ended(t, failed).known = None
          /\ Ended(t, failed).pc = "ended"
      BY TaskTyped DEF Ended, TaskInfo
    <2>3. TaskOk(Ended(t, failed))
      BY <1>1, <2>2, TaskTyped DEF TaskOk
    <2> QED
      BY <2>1, <2>2, <2>3, GoesOn
  <1>2. CASE task[t].kind # "out"
    <2>1. task[t].kind = "in"
      BY <1>2, TaskTyped
    <2>2. /\ task' = Restrict(task, DOMAIN task \ {t})
          /\ sessions' = Restrict(sessions, DOMAIN sessions \ {KeyOf(task[t])})
          /\ limiter' = Release(task[t].addr.ip)
      BY <1>2 DEF Leave, Gone, Unregister, Key, KeyOf
    <2>3. /\ TasksInv(task') /\ Registered(task', sessions')
          /\ \A ips : From(task', ips) = From(task, ips) \ {t}
      BY <2>2, InvParts, TaskEnds
    <2>4. Counted(task', limiter')
      BY <2>1, <2>2, <2>3, InvParts, InboundEndCounted
    <2> QED
      BY <2>3, <2>4, InvParts, InvNext
  <1> QED
    BY <1>1, <1>2

LEMMA StatusRecordedFollows ==
    ASSUME NetworkInv, NEW t \in DOMAIN task, NEW b, BookOk(b), NEW known \in Addrs \cup {None}
    PROVE  Follows(b, StatusRecorded(b, t, known))
  <1>1. Follows(b, RecordInboundStatus(b, task[t].addr))
    BY TaskTyped, InboundRecordsFollow
  <1>2. ASSUME known # None
        PROVE  Follows(b, RecordSent(RecordStatus(b, known), known))
    <2>1. known \in Addrs
      BY <1>2
    <2>2. Follows(b, RecordStatus(b, known))
      BY <2>1, RecordsFollow
    <2>3. BookOk(RecordStatus(b, known))
      BY <2>2 DEF Follows
    <2>4. Follows(RecordStatus(b, known), RecordSent(RecordStatus(b, known), known))
      BY <2>1, <2>3, RecordsFollow
    <2> QED
      BY <2>2, <2>4, FollowsTrans
  <1> QED
    BY <1>1, <1>2 DEF StatusRecorded

LEMMA RemovePeerOk ==
    ASSUME NEW b, BookOk(b), NEW a
    PROVE  BookOk(RemovePeer(b, a))
  BY WithoutOk DEF RemovePeer

LEMMA NeverConnectedDropped ==
    ASSUME NEW b, BookOk(b), NEW addr, NEW c,
           c = b \/ (c = Without(b, {addr}) /\ b[addr].success = "none")
    PROVE  /\ BookOk(c)
           /\ \A a \in DOMAIN b : b[a].banned => IsBanned(c, a) \/ (a = addr /\ b[a].success = "none")
  <1>1. CASE c = b
    BY <1>1 DEF IsBanned, Known
  <1>2. CASE c = Without(b, {addr}) /\ b[addr].success = "none"
    <2>1. DOMAIN c = DOMAIN b \ {addr} /\ \A a \in DOMAIN b \ {addr} : c[a] = b[a]
      BY <1>2 DEF Without, Restrict
    <2>2. \A a \in DOMAIN b \ {addr} : b[a].banned => IsBanned(c, a)
      BY <2>1 DEF IsBanned, Known
    <2>3. BookOk(c)
      BY <1>2, WithoutOk
    <2> HIDE <2>1
    <2> QED
      BY <1>2, <2>2, <2>3
  <1> QED
    BY <1>1, <1>2

\* What a failed dial, or the end of a session, does to the book.
LEMMA FailureNoted ==
    ASSUME NetworkInv, NEW t \in DOMAIN task, task[t].kind = "out"
    PROVE  LET noted == RecordError(book, task[t].addr)
           IN  /\ BookOk(noted) /\ BookOk(WithoutUnreachable(t, noted))
               /\ BookOk(WithoutUnreachable(t, book))
               /\ \A a \in DOMAIN book : book[a].banned =>
                    /\ IsBanned(noted, a)
                    /\ \/ a = task[t].addr /\ book[a].success = "none"
                       \/ IsBanned(WithoutUnreachable(t, noted), a)
                    /\ \/ a = task[t].addr /\ book[a].success = "none"
                       \/ IsBanned(WithoutUnreachable(t, book), a)
  <1> DEFINE addr == task[t].addr
             noted == RecordError(book, addr)
  <1>1. addr \in Addrs /\ BookOk(book)
    BY TaskTyped, InvParts
  <1> HIDE DEF addr
  <1>2. Follows(book, noted) /\ BookOk(noted)
    BY <1>1, RecordsFollow DEF Follows
  <1>3. addr \in DOMAIN noted /\ (addr \in DOMAIN book => noted[addr].success = book[addr].success)
    <2>1. noted = With(book, addr, Failed(Ensure(book, addr, "Outbound")))
      BY DEF RecordError
    <2>2. addr \in DOMAIN noted /\ noted[addr] = Failed(Ensure(book, addr, "Outbound"))
      BY <2>1 DEF With
    <2>3. ASSUME addr \in DOMAIN book
          PROVE  Failed(Ensure(book, addr, "Outbound")).success = book[addr].success
      <3>1. Ensure(book, addr, "Outbound") = book[addr] /\ book[addr] \in PeerInfo
        BY <1>1, <2>3 DEF Ensure, Known, BookOk
      <3> QED
        BY <3>1 DEF Failed, PeerInfo
    <2> QED
      BY <2>2, <2>3
  <1>4. ASSUME NEW b, BookOk(b)
        PROVE  /\ BookOk(WithoutUnreachable(t, b))
               /\ \A a \in DOMAIN b : b[a].banned =>
                    IsBanned(WithoutUnreachable(t, b), a) \/ (a = addr /\ b[a].success = "none")
    <2>1. \/ WithoutUnreachable(t, b) = b
          \/ WithoutUnreachable(t, b) = Without(b, {addr}) /\ b[addr].success = "none"
      BY DEF WithoutUnreachable, RemoveNeverConnected, addr
    <2> QED
      BY <1>4, <2>1, NeverConnectedDropped
  <1>5. \A a \in DOMAIN book : book[a].banned => a \in DOMAIN noted /\ noted[a].banned
    BY <1>2 DEF Follows, KeepsBans, IsBanned, Known
  <1>6. \A a \in DOMAIN book : book[a].banned => IsBanned(noted, a)
    BY <1>5 DEF IsBanned, Known
  <1>7. BookOk(WithoutUnreachable(t, noted)) /\ BookOk(WithoutUnreachable(t, book))
    BY <1>1, <1>2, <1>4
  <1>8. \A a \in DOMAIN book : book[a].banned =>
          /\ (a = addr /\ book[a].success = "none") \/ IsBanned(WithoutUnreachable(t, noted), a)
          /\ (a = addr /\ book[a].success = "none") \/ IsBanned(WithoutUnreachable(t, book), a)
    <2> SUFFICES ASSUME NEW a \in DOMAIN book, book[a].banned
                 PROVE  /\ \/ a = addr /\ book[a].success = "none"
                           \/ IsBanned(WithoutUnreachable(t, noted), a)
                        /\ \/ a = addr /\ book[a].success = "none"
                           \/ IsBanned(WithoutUnreachable(t, book), a)
      OBVIOUS
    <2>1. IsBanned(WithoutUnreachable(t, book), a) \/ (a = addr /\ book[a].success = "none")
      BY <1>1, <1>4
    <2>2. a \in DOMAIN noted /\ noted[a].banned
      BY <1>5
    <2>3. IsBanned(WithoutUnreachable(t, noted), a) \/ (a = addr /\ noted[a].success = "none")
      BY <1>2, <1>4, <2>2
    <2> QED
      BY <1>3, <2>1, <2>3
  <1> QED
    BY <1>2, <1>6, <1>7, <1>8 DEF addr

-----------------------------------------------------------------------------
(* What a step may do to bans: the action of BanKept.                      *)
BanStep ==
    \A a \in DOMAIN book :
        book[a].banned =>
            \/ IsBanned(book', a)
            \/ BanEnds(a) \/ UserRemoves(a)
            \/ \E t \in DOMAIN task :
                 \/ HelloFromSelf(t) \/ ReceiveSelfAnnouncement(t)
                 \/ \E b \in Addrs : HelloNamingSelf(t, b)
                 \/ task[t].known = a /\ \E b \in DOMAIN book' : book'[b].banned
                 \/ /\ task[t].addr = a /\ book[a].success = "none"
                    /\ ConnectFails(t) \/ AfterSession(t)

LEMMA FollowsKeeps ==
    ASSUME Follows(book, book')
    PROVE  BookOk(book') /\ BanStep
  BY DEF Follows, KeepsBans, BanStep

LEMMA SameBook ==
    ASSUME NetworkInv, book' = book
    PROVE  BookOk(book') /\ BanStep
  <1>1. Follows(book, book')
    BY InvParts, FollowsSelf
  <1> QED
    BY <1>1, FollowsKeeps

\* A step of the book alone.
LEMMA BookStep ==
    ASSUME NetworkInv, BookOk(book'), UNCHANGED <<task, sessions, limiter, scan>>
    PROVE  NetworkInv'
  BY InvParts, InvNext

LEMMA SuperviseOk ==
    ASSUME NetworkInv, Supervise
    PROVE  NetworkInv' /\ BanStep
  <1> DEFINE b == PruneStalePeers(book)
  <1>1. BookOk(book)
    BY InvParts
  <1>2. Follows(book, b) /\ BookOk(b)
    BY <1>1, PruneStalePeersOk DEF Follows
  <1>3. book' = b
    BY DEF Supervise
  <1>4. PICK wanted \in SessionCandidates(b, MaxDials) : scan' = {wanted}
    BY DEF Supervise
  <1> HIDE DEF b
  <1>5. WithDirection(b, "Outbound") \subseteq Addrs /\ DiscoveredPeers(b) \subseteq Addrs
    BY <1>2 DEF WithDirection, DiscoveredPeers, BookOk
  <1>6. wanted \subseteq Addrs
    <2> DEFINE free == {a \in DOMAIN b : ~b[a].banned}
               found == DiscoveredPeers(b) \cap free
               n == Min({MaxDials, Cardinality(found)})
    <2>1. PICK picked \in kSubset(n, found) : wanted = (WithDirection(b, "Outbound") \cap free) \cup picked
      BY <1>4 DEF SessionCandidates
    <2>2. picked \subseteq found
      <3> HIDE DEF n, found
      <3> QED
        BY <2>1 DEF kSubset
    <2> QED
      BY <1>5, <2>1, <2>2
  <1>7. scan' \in SUBSET SUBSET Addrs
    BY <1>4, <1>6
  <1>8. TasksInv(task') /\ Registered(task', sessions') /\ Counted(task', limiter')
    BY InvParts DEF Supervise
  <1> QED
    BY <1>2, <1>3, <1>7, <1>8, InvNext, FollowsKeeps

LEMMA DialOk ==
    ASSUME NetworkInv, NEW t \in DOMAIN task, Dial(t)
    PROVE  NetworkInv' /\ BanStep
  <1>1. task[t].kind = "out" /\ UNCHANGED <<book, limiter, scan>>
    BY DEF Dial
  <1>2. BookOk(book') /\ BanStep
    BY <1>1, SameBook
  <1>3. CASE sessions' = Unregister({Key(t)}) /\ Gone(t)
    BY <1>1, <1>2, <1>3, TaskStops
  <1> DEFINE n == Min({task[t].attempts + 1, InitialAttempts})
             info == [task[t] EXCEPT !.pc = "connect", !.attempts = n]
  <1>4. CASE Goes(t, info) /\ UNCHANGED sessions
    <2>1. n \in 0 .. InitialAttempts
      <3>1. task[t].attempts \in 0 .. InitialAttempts /\ InitialAttempts \in Nat
        BY TaskTyped, PeersAssumption DEF TaskInfo
      <3>2. n = IF task[t].attempts + 1 <= InitialAttempts THEN task[t].attempts + 1
                ELSE InitialAttempts
        BY <3>1, MinOfTwo
      <3> QED
        BY <3>1, <3>2
    <2>2. /\ info \in TaskInfo /\ info.kind = task[t].kind /\ info.addr = task[t].addr
          /\ info.chan = task[t].chan /\ info.node = task[t].node /\ info.known = task[t].known
          /\ info.pc = "connect"
      <3> HIDE DEF n
      <3> QED
        BY <2>1, TaskTyped DEF TaskInfo
    <2> HIDE DEF info
    <2>3. TaskOk(info)
      BY <1>1, <2>2, TaskTyped DEF TaskOk
    <2> QED
      BY <1>1, <1>2, <1>4, <2>2, <2>3, GoesOn
  <1>5. \/ sessions' = Unregister({Key(t)}) /\ Gone(t)
        \/ Goes(t, info) /\ UNCHANGED sessions
    BY DEF Dial
  <1> QED
    BY <1>2, <1>3, <1>4, <1>5

LEMMA ConnectFailsOk ==
    ASSUME NetworkInv, NEW t \in DOMAIN task, ConnectFails(t)
    PROVE  NetworkInv' /\ BanStep
  <1>0. UNCHANGED <<limiter, scan>>
    BY DEF ConnectFails
  <1>1. task[t].pc = "connect"
        /\ book' = WithoutUnreachable(t, RecordError(book, task[t].addr))
    BY DEF ConnectFails
  <1>2. task[t].kind = "out"
    BY <1>1, TaskTyped DEF TaskOk
  <1>3. BookOk(book')
    BY <1>1, <1>2, FailureNoted
  <1>4. BanStep
    BY <1>1, <1>2, FailureNoted DEF BanStep
  <1>5. CASE sessions' = Unregister({Key(t)}) /\ Gone(t)
    BY <1>0, <1>2, <1>3, <1>4, <1>5, TaskStops
  <1> DEFINE info == [task[t] EXCEPT !.pc = "top"]
  <1>6. CASE Goes(t, info) /\ UNCHANGED sessions
    <2>1. /\ info \in TaskInfo /\ info.kind = task[t].kind /\ info.addr = task[t].addr
          /\ info.chan = task[t].chan /\ info.node = task[t].node /\ info.known = task[t].known
          /\ info.pc = "top"
      BY TaskTyped DEF TaskInfo
    <2> HIDE DEF info
    <2>2. TaskOk(info)
      BY <1>2, <2>1, TaskTyped DEF TaskOk
    <2> QED
      BY <1>0, <1>3, <1>4, <1>6, <2>1, <2>2, GoesOn
  <1>7. \/ sessions' = Unregister({Key(t)}) /\ Gone(t)
        \/ Goes(t, info) /\ UNCHANGED sessions
    BY DEF ConnectFails
  <1> QED
    BY <1>4, <1>5, <1>6, <1>7

LEMMA ConnectSucceedsOk ==
    ASSUME NetworkInv, NEW t \in DOMAIN task, ConnectSucceeds(t)
    PROVE  NetworkInv' /\ BanStep
  <1> DEFINE info == [task[t] EXCEPT !.pc = "session", !.hello = FALSE, !.known = task[t].addr]
  <1>1. task[t].pc = "connect" /\ Goes(t, info) /\ UNCHANGED <<book, sessions, limiter, scan>>
    BY DEF ConnectSucceeds
  <1>2. task[t].kind = "out" /\ task[t].addr \in Addrs
    BY <1>1, TaskTyped DEF TaskOk
  <1>3. /\ info \in TaskInfo /\ info.kind = task[t].kind /\ info.addr = task[t].addr
        /\ info.chan = task[t].chan /\ info.node = task[t].node /\ info.known = task[t].addr
        /\ info.pc = "session"
    BY <1>2, TaskTyped DEF TaskInfo
  <1> HIDE DEF info
  <1>4. TaskOk(info)
    BY <1>2, <1>3, TaskTyped DEF TaskOk
  <1> QED
    BY <1>1, <1>3, <1>4, GoesOn, SameBook

\* Sessions for addresses that have none: every slot and every channel is
\* given once, to a task and to the entry that leads to it.
LEMMA EnsureSessionsOk ==
    ASSUME NetworkInv, EnsureSessions
    PROVE  NetworkInv' /\ BanStep
  <1> DEFINE wanted == {a \in UNION scan : ~SelfPeer(a)}
             gone == {k \in DOMAIN sessions : k[1] = "out" /\ k[2] \notin wanted}
             kept == Unregister(gone)
             missing == {a \in wanted : <<"out", a>> \notin DOMAIN kept}
             slots == Injection(missing, Tasks \ DOMAIN task)
             lines == Injection(missing, FreshChannels)
             slot == CHOOSE f \in slots : TRUE
             line == CHOOSE f \in lines : TRUE
             New(a) == NewTask("out", a, NodeAt[a], "top", line[a])
             added == [i \in Range(slot) |->
                          LET a == CHOOSE a \in missing : slot[a] = i
                          IN  NewTask("out", a, NodeAt[a], "top", line[a])]
             entries == [k \in {<<"out", a>> : a \in missing} |-> [chan |-> line[k[2]], peer |-> k[2]]]
  <1>a. scan' = {} /\ UNCHANGED <<book, limiter>>
    BY DEF EnsureSessions
  <1>b. \/ sessions' = kept /\ task' = task
        \/ /\ slots # {} /\ lines # {}
           /\ task' = Joined(added, task) /\ sessions' = Joined(entries, kept)
    BY Zenon DEF EnsureSessions
  <1>2. missing \subseteq Addrs
    BY InvParts
  <1>3. Registered(task, kept)
    <2> HIDE DEF gone
    <2> QED
      BY InvParts, Fewer DEF Unregister
  <1>15. scan' \in SUBSET SUBSET Addrs
    BY <1>a
  <1>16. CASE sessions' = kept /\ task' = task
    <2> HIDE DEF kept
    <2> QED
      BY <1>a, <1>3, <1>15, <1>16, InvParts, InvNext, SameBook
  <1> SUFFICES ASSUME slots # {}, lines # {}, task' = Joined(added, task),
                      sessions' = Joined(entries, kept)
               PROVE  NetworkInv' /\ BanStep
    BY <1>b, <1>16
  <1>1. UNCHANGED <<book, limiter>> /\ slots # {} /\ lines # {}
        /\ task' = Joined(added, task) /\ sessions' = Joined(entries, kept)
    BY <1>a
  <1>4. slot \in slots /\ line \in lines
    <2> HIDE DEF slots, lines
    <2> QED
      BY <1>1
  <1> HIDE DEF slot, line, missing, kept
  <1>5. /\ slot \in [missing -> Tasks \ DOMAIN task]
        /\ \A a \in missing, b \in missing : slot[a] = slot[b] => a = b
        /\ line \in [missing -> Channels]
    BY <1>4 DEF Injection, IsInjective, FreshChannels
  <1>6. /\ DOMAIN added = {slot[a] : a \in missing}
        /\ \A a \in missing : added[slot[a]] = New(a)
    <2>1. Range(slot) = {slot[a] : a \in missing}
      BY <1>5 DEF Range
    <2>2. ASSUME NEW a \in missing
          PROVE  (CHOOSE b \in missing : slot[b] = slot[a]) = a
      BY <1>5
    <2> HIDE DEF New
    <2> QED
      BY <2>1, <2>2 DEF New
  <1>7. /\ DOMAIN entries = {<<"out", a>> : a \in missing}
        /\ \A a \in missing : entries[<<"out", a>>].chan = line[a]
    OBVIOUS
  <1>8. \A a \in missing : /\ New(a) \in TaskInfo /\ TaskOk(New(a)) /\ New(a).kind = "out"
                           /\ KeyOf(New(a)) = <<"out", a>> /\ New(a).chan = line[a]
    <2> SUFFICES ASSUME NEW a \in missing
                 PROVE  /\ New(a) \in TaskInfo /\ TaskOk(New(a)) /\ New(a).kind = "out"
                        /\ KeyOf(New(a)) = <<"out", a>> /\ New(a).chan = line[a]
      OBVIOUS
    <2>1. a \in Addrs /\ line[a] \in Channels /\ NodeAt[a] \in Range(NodeAt)
          /\ 0 \in 0 .. InitialAttempts
      BY <1>2, <1>5, PeersAssumption DEF Range
    <2>2. /\ New(a).kind = "out" /\ New(a).addr = a /\ New(a).node = NodeAt[a]
          /\ New(a).pc = "top" /\ New(a).known = None /\ New(a).chan = line[a]
      BY DEF NewTask
    <2>3. New(a) \in TaskInfo
      BY <2>1 DEF NewTask, TaskInfo
    <2> HIDE DEF New
    <2> QED
      BY <2>1, <2>2, <2>3 DEF TaskOk, KeyOf
  <1> HIDE DEF added, entries, New
  <1>9. /\ DOMAIN task' = DOMAIN added \cup DOMAIN task
        /\ \A a \in missing : slot[a] \in DOMAIN task' /\ task'[slot[a]] = New(a)
        /\ \A t \in DOMAIN task : task'[t] = task[t]
        /\ \A t \in DOMAIN task' : t \in DOMAIN task \/ \E a \in missing : t = slot[a]
    <2>1. DOMAIN task' = DOMAIN added \cup DOMAIN task
          /\ \A t \in DOMAIN task' : task'[t] = IF t \in DOMAIN added THEN added[t] ELSE task[t]
      BY <1>1 DEF Joined
    <2>2. \A t \in DOMAIN task : t \notin DOMAIN added
      BY <1>5, <1>6
    <2> QED
      BY <1>6, <2>1, <2>2
  <1>10. \A t \in DOMAIN task' : t \in Tasks /\ task'[t] \in TaskInfo /\ TaskOk(task'[t])
    <2> SUFFICES ASSUME NEW t \in DOMAIN task'
                 PROVE  t \in Tasks /\ task'[t] \in TaskInfo /\ TaskOk(task'[t])
      OBVIOUS
    <2>1. CASE t \in DOMAIN task
      BY <1>9, <2>1, InvParts DEF TasksInv
    <2>2. CASE \E a \in missing : t = slot[a]
      BY <1>5, <1>8, <1>9, <2>2
    <2> QED
      BY <1>9, <2>1, <2>2
  <1>11. TasksInv(task')
    BY <1>10 DEF TasksInv
  <1>12. Registered(task', sessions')
    <2>1. DOMAIN sessions' = DOMAIN entries \cup DOMAIN kept
          /\ \A k \in DOMAIN sessions' : sessions'[k] = IF k \in DOMAIN entries THEN entries[k] ELSE kept[k]
      BY <1>1 DEF Joined
    <2> SUFFICES ASSUME NEW k \in DOMAIN sessions'
                 PROVE  /\ k[1] \in {"out", "in"} /\ sessions'[k].chan \in Channels
                        /\ \E t \in DOMAIN task' : /\ KeyOf(task'[t]) = k
                                                   /\ task'[t].chan = sessions'[k].chan
      BY DEF Registered
    <2>2. CASE k \in DOMAIN entries
      <3>1. PICK a \in missing : k = <<"out", a>>
        BY <1>7, <2>2
      <3>2. k[1] = "out" /\ sessions'[k].chan = line[a] /\ line[a] \in Channels
        BY <1>5, <1>7, <2>1, <2>2, <3>1
      <3>3. slot[a] \in DOMAIN task' /\ KeyOf(task'[slot[a]]) = k /\ task'[slot[a]].chan = line[a]
        BY <1>8, <1>9, <3>1
      <3> QED
        BY <3>2, <3>3
    <2>3. CASE k \notin DOMAIN entries
      <3>1. k \in DOMAIN kept /\ sessions'[k] = kept[k]
        BY <2>1, <2>3
      <3>2. /\ k[1] \in {"out", "in"} /\ kept[k].chan \in Channels
            /\ \E t \in DOMAIN task : KeyOf(task[t]) = k /\ task[t].chan = kept[k].chan
        BY <1>3, <3>1 DEF Registered
      <3> QED
        BY <1>9, <3>1, <3>2
    <2> QED
      BY <2>2, <2>3
  <1>13. \A ips : From(task', ips) = From(task, ips)
    <2> SUFFICES ASSUME NEW ips
                 PROVE  From(task', ips) = From(task, ips)
      OBVIOUS
    <2>1. \A t \in DOMAIN task' : t \in DOMAIN task \/ task'[t].kind # "in"
      BY <1>8, <1>9
    <2>2. DOMAIN task \subseteq DOMAIN task'
      BY <1>9
    <2> QED
      BY <1>9, <2>1, <2>2 DEF From
  <1>14. Counted(task', limiter')
    BY <1>1, <1>13, InvParts DEF Counted
  <1> QED
    BY <1>1, <1>11, <1>12, <1>14, <1>15, InvNext, SameBook

LEMMA AcceptOk ==
    ASSUME NetworkInv, NEW t \in Tasks, NEW r \in Remotes, NEW n \in Range(NodeAt), Accept(t, r, n)
    PROVE  NetworkInv' /\ BanStep
  <1>1. PICK c \in FreshChannels : task' = With(task, t, NewTask("in", r, n, "hello", c))
    BY DEF Accept
  <1>2. /\ t \in Tasks \ DOMAIN task /\ TryAcquire(r.ip) /\ limiter' = Acquired(r.ip)
        /\ UNCHANGED <<book, sessions, scan>>
    BY DEF Accept
  <1> DEFINE info == NewTask("in", r, n, "hello", c)
  <1>3. /\ info.kind = "in" /\ info.addr = r /\ info.pc = "hello" /\ info.known = None
    BY DEF NewTask
  <1>4. info \in TaskInfo
    BY PeersAssumption DEF NewTask, TaskInfo, FreshChannels
  <1> HIDE DEF info
  <1>5. TaskOk(info)
    BY <1>3 DEF TaskOk
  <1>6. task' = With(task, t, info)
    BY <1>1 DEF info
  <1>7. TasksInv(task') /\ Registered(task', sessions) /\ Counted(task', Acquired(r.ip))
    BY <1>2, <1>3, <1>4, <1>5, <1>6, InvParts, TaskJoins
  <1>8. BookOk(book') /\ BanStep /\ scan' \in SUBSET SUBSET Addrs
    BY <1>2, SameBook, InvParts
  <1> QED
    BY <1>2, <1>7, <1>8, InvNext

LEMMA WindowPassesOk ==
    ASSUME NetworkInv, NEW ip \in Ips, WindowPasses(ip)
    PROVE  NetworkInv' /\ BanStep
  <1> DEFINE entry == [active |-> limiter.peers[ip].active, accepts |-> limiter.peers[ip].accepts - 1]
  <1>1. /\ UNCHANGED <<book, task, sessions, scan>> /\ limiter.peers[ip].accepts > 0
        /\ limiter' = [active |-> limiter.active, peers |-> [limiter.peers EXCEPT ![ip] = entry]]
    BY Zenon DEF WindowPasses, Forgotten
  <1>2. limiter \in [active: 0..MaxInbound,
                     peers: [Ips -> [active: 0..MaxInboundPerIp, accepts: 0..MaxAccepts]]]
    BY InvParts DEF Counted
  <1>3. /\ limiter.active \in 0..MaxInbound
        /\ limiter.peers \in [Ips -> [active: 0..MaxInboundPerIp, accepts: 0..MaxAccepts]]
        /\ limiter.peers[ip] \in [active: 0..MaxInboundPerIp, accepts: 0..MaxAccepts]
    BY <1>2
  <1>4. entry \in [active: 0..MaxInboundPerIp, accepts: 0..MaxAccepts]
        /\ entry.active = limiter.peers[ip].active
    BY <1>1, <1>3, PeersAssumption
  <1> HIDE DEF entry
  <1>5. limiter' \in [active: 0..MaxInbound,
                      peers: [Ips -> [active: 0..MaxInboundPerIp, accepts: 0..MaxAccepts]]]
    BY <1>1, <1>3, <1>4
  <1>6. limiter'.active = limiter.active
        /\ \A i \in Ips : limiter'.peers[i].active = limiter.peers[i].active
    BY <1>1, <1>3, <1>4
  <1>7. Counted(task, limiter')
    BY <1>5, <1>6, InvParts DEF Counted
  <1> QED
    BY <1>1, <1>7, InvParts, InvNext, SameBook

LEMMA AfterSessionOk ==
    ASSUME NetworkInv, NEW t \in DOMAIN task, AfterSession(t)
    PROVE  NetworkInv' /\ BanStep
  <1> DEFINE noted == IF task[t].failed THEN RecordError(book, task[t].addr) ELSE book
             after == IF channel[task[t].chan].stop THEN book ELSE WithoutUnreachable(t, noted)
  <1>1. task[t].pc = "ended" /\ book' = after
    BY DEF AfterSession
  <1>2. UNCHANGED <<limiter, scan>>
    BY DEF AfterSession
  <1>3. task[t].kind = "out"
    BY <1>1, TaskTyped DEF TaskOk
  <1>4. BookOk(after)
    BY <1>3, FailureNoted, InvParts
  <1>5. BookOk(book')
    BY <1>1, <1>4
  <1>6. \A a \in DOMAIN book : book[a].banned =>
          IsBanned(after, a) \/ (a = task[t].addr /\ book[a].success = "none")
    <2>1. \A a \in DOMAIN book : book[a].banned => IsBanned(book, a)
      BY DEF IsBanned, Known
    <2> QED
      BY <1>3, <2>1, FailureNoted
  <1>7. BanStep
    <2> HIDE DEF after
    <2> QED
      BY <1>1, <1>6 DEF BanStep
  <1>8. CASE Gone(t) /\ sessions' = Unregister({Key(t)})
    BY <1>2, <1>3, <1>5, <1>7, <1>8, TaskStops
  <1> DEFINE info(c) == [task[t] EXCEPT !.pc = "top", !.chan = c, !.failed = FALSE]
             entry(c) == [chan |-> c, peer |-> task[t].addr]
  <1>9. ASSUME NEW c \in FreshChannels, Goes(t, info(c)), sessions' = With(sessions, Key(t), entry(c))
        PROVE  NetworkInv'
    <2>1. c \in Channels
      BY DEF FreshChannels
    <2>2. /\ info(c) \in TaskInfo /\ info(c).kind = task[t].kind /\ info(c).addr = task[t].addr
          /\ info(c).chan = c /\ info(c).node = task[t].node /\ info(c).known = task[t].known
          /\ info(c).pc = "top"
      BY <2>1, TaskTyped DEF TaskInfo
    <2>3. entry(c).chan = c
      OBVIOUS
    <2>4. task' = [task EXCEPT ![t] = info(c)]
      BY <1>9 DEF Goes
    <2> HIDE DEF info, entry
    <2>5. TaskOk(info(c))
      BY <1>3, <2>2, TaskTyped DEF TaskOk
    <2>6. sessions' = With(sessions, KeyOf(task[t]), entry(c))
      BY <1>9 DEF Key, KeyOf
    <2>7. entry(c).chan = info(c).chan
      BY <2>2, <2>3
    <2>8. TasksInv(task') /\ Registered(task', sessions') /\ Counted(task', limiter)
      BY <2>2, <2>4, <2>5, <2>6, <2>7, InvParts, TaskRegisters
    <2> QED
      BY <1>2, <1>5, <2>8, InvParts, InvNext
  <1>10. \/ Gone(t) /\ sessions' = Unregister({Key(t)})
         \/ \E c \in FreshChannels : /\ Goes(t, info(c))
                                     /\ sessions' = With(sessions, Key(t), entry(c))
    BY DEF AfterSession
  <1> QED
    BY <1>7, <1>8, <1>9, <1>10

LEMMA DisconnectOk ==
    ASSUME NetworkInv, NEW t \in DOMAIN task, NEW failed \in BOOLEAN, Disconnect(t, failed)
    PROVE  NetworkInv' /\ BanStep
  BY SameBook, LeaveOk DEF Disconnect

LEMMA StopSessionOk ==
    ASSUME NetworkInv, NEW t \in DOMAIN task, StopSession(t)
    PROVE  NetworkInv' /\ BanStep
  BY SameBook, LeaveOk DEF StopSession

LEMMA HelloFromSelfOk ==
    ASSUME NetworkInv, NEW t \in DOMAIN task, HelloFromSelf(t)
    PROVE  NetworkInv' /\ BanStep
  <1>1. Leave(t, FALSE) /\ scan' = scan
    BY DEF HelloFromSelf
  <1>2. book' = (IF task[t].known = None THEN book ELSE RemovePeer(book, task[t].known))
    BY DEF HelloFromSelf
  <1>3. BookOk(book')
    BY <1>2, InvParts, RemovePeerOk
  <1>4. BanStep
    BY DEF BanStep
  <1> QED
    BY <1>1, <1>3, <1>4, LeaveOk

LEMMA HelloNamingSelfOk ==
    ASSUME NetworkInv, NEW t \in DOMAIN task, NEW a \in Addrs, HelloNamingSelf(t, a)
    PROVE  NetworkInv' /\ BanStep
  <1> DEFINE b == IF task[t].known = None THEN book ELSE RemovePeer(book, task[t].known)
  <1>1. Leave(t, FALSE) /\ scan' = scan
    BY DEF HelloNamingSelf
  <1>2. book' = StatusRecorded(b, t, None)
    BY DEF HelloNamingSelf
  <1>3. BookOk(b)
    BY InvParts, RemovePeerOk
  <1> HIDE DEF b
  <1>4. BookOk(StatusRecorded(b, t, None))
    BY <1>3, StatusRecordedFollows DEF Follows
  <1>5. BookOk(book')
    BY <1>2, <1>4
  <1>6. BanStep
    BY DEF BanStep
  <1> QED
    BY <1>1, <1>5, <1>6, LeaveOk

\* The session goes on under the address known.
LEMMA HelloOk ==
    ASSUME NetworkInv, NEW t \in DOMAIN task, NEW known \in Addrs \cup {None},
           known # None => task[t].node = NodeAt[known],
           NEW b, BookOk(b), Hello(t, known, b)
    PROVE  NetworkInv' /\ Follows(b, book')
  <1> DEFINE info == [task[t] EXCEPT !.pc = "session", !.hello = TRUE, !.known = known]
             entry == [chan |-> task[t].chan, peer |-> IF known = None THEN task[t].addr ELSE known]
  <1>1. book' = StatusRecorded(b, t, known)
    BY DEF Hello
  <1>2. Follows(b, book') /\ BookOk(book')
    BY <1>1, StatusRecordedFollows DEF Follows
  <1>3. /\ Goes(t, info) /\ UNCHANGED <<limiter, scan>>
        /\ sessions' = (IF task[t].kind = "in" THEN With(sessions, Key(t), entry) ELSE sessions)
    BY DEF Hello
  <1>4. /\ info \in TaskInfo /\ info.kind = task[t].kind /\ info.addr = task[t].addr
        /\ info.chan = task[t].chan /\ info.node = task[t].node /\ info.known = known
        /\ info.pc = "session" /\ entry.chan = info.chan
    BY TaskTyped DEF TaskInfo
  <1> HIDE DEF info, entry
  <1>5. TaskOk(info)
    BY <1>4, TaskTyped DEF TaskOk
  <1>6. CASE task[t].kind = "in"
    <2>1. sessions' = With(sessions, KeyOf(task[t]), entry) /\ task' = [task EXCEPT ![t] = info]
      BY <1>3, <1>6 DEF Key, KeyOf, Goes
    <2>2. TasksInv(task') /\ Registered(task', sessions') /\ Counted(task', limiter)
      BY <1>4, <1>5, <2>1, InvParts, TaskRegisters
    <2> QED
      BY <1>2, <1>3, <2>2, InvParts, InvNext
  <1>7. CASE task[t].kind # "in"
    BY <1>2, <1>3, <1>4, <1>5, <1>7, GoesOn
  <1> QED
    BY <1>2, <1>6, <1>7

LEMMA ProcessHelloOk ==
    ASSUME NetworkInv, NEW t \in DOMAIN task, NEW advertised \in Addrs \cup {None},
           ProcessHello(t, advertised)
    PROVE  NetworkInv' /\ BanStep
  <1> DEFINE a == ReachableAdvertised(advertised, task[t].addr)
  <1>1. CASE HelloFromSelf(t)
    BY <1>1, HelloFromSelfOk
  <1>2. CASE Hello(t, task[t].known, book)
    <2>1. task[t].known # None => task[t].node = NodeAt[task[t].known]
      BY TaskTyped DEF TaskOk
    <2>2. NetworkInv' /\ Follows(book, book')
      BY <1>2, <2>1, TaskTyped, InvParts, HelloOk
    <2> QED
      BY <2>2, FollowsKeeps
  <1>3. CASE advertised # None /\ HelloNamingSelf(t, advertised)
    BY <1>3, HelloNamingSelfOk
  <1>4. CASE advertised # None /\ Verified(t, a) /\ Hello(t, a, Remembered(t, a))
    <2>1. a \in Addrs
      BY <1>4, TaskTyped, PeersAssumption DEF AllAddresses
    <2> HIDE DEF a
    <2>2. task[t].node = NodeAt[a]
      <3>1. a # None
        BY <2>1, PeersAssumption
      <3> QED
        BY <1>4, <3>1, TaskTyped DEF Verified, OwnsAddress, TaskOk
    <2> DEFINE b == Remembered(t, a)
    <2>3. CASE task[t].known = None
      <3>1. Follows(book, b) /\ BookOk(b)
        BY <2>1, <2>3, InvParts, AddDiscoveredPeerOk DEF Remembered, Follows
      <3> HIDE DEF b
      <3>2. NetworkInv' /\ Follows(b, book')
        BY <1>4, <2>1, <2>2, <3>1, HelloOk DEF b
      <3>3. Follows(book, book')
        BY <3>1, <3>2, FollowsTrans
      <3> QED
        BY <3>2, <3>3, FollowsKeeps
    <2>4. CASE task[t].known # None
      <3>1. task[t].known \in Addrs
        BY <2>4, TaskTyped
      <3>2. b = ReplacePeerAddress(book, task[t].known, a)
        BY <2>4 DEF Remembered
      <3> HIDE DEF b
      <3>3. /\ BookOk(b)
            /\ \A x \in DOMAIN book \ {task[t].known} : book[x].banned => IsBanned(b, x)
            /\ task[t].known \in DOMAIN book /\ book[task[t].known].banned
               => \E x \in DOMAIN b : b[x].banned
        BY <2>1, <3>1, <3>2, InvParts, ReplacePeerAddressOk
      <3>4. NetworkInv' /\ Follows(b, book')
        BY <1>4, <2>1, <2>2, <3>3, HelloOk DEF b
      <3>5. \A x : IsBanned(b, x) => IsBanned(book', x)
        BY <3>4 DEF Follows, KeepsBans, IsBanned, Known
      <3>6. (\E x \in DOMAIN b : b[x].banned) => \E x \in DOMAIN book' : book'[x].banned
        BY <3>4 DEF Follows, KeepsBans, IsBanned, Known
      <3>7. BanStep
        <4> SUFFICES ASSUME NEW x \in DOMAIN book, book[x].banned
                     PROVE  \/ IsBanned(book', x)
                            \/ task[t].known = x /\ \E y \in DOMAIN book' : book'[y].banned
          BY DEF BanStep
        <4> QED
          BY <3>3, <3>5, <3>6
      <3> QED
        BY <3>4, <3>7
    <2> QED
      BY <2>3, <2>4
  <1> QED
    BY <1>1, <1>2, <1>3, <1>4 DEF ProcessHello

LEMMA ProcessedOk ==
    ASSUME NetworkInv, NEW t \in DOMAIN task, NEW b, Follows(book, b), Processed(t, b)
    PROVE  NetworkInv' /\ BanStep
  <1>1. book' = b
    BY DEF Processed
  <1>2. scan' = scan /\ (Leave(t, FALSE) \/ UNCHANGED <<task, sessions, limiter>>)
    BY DEF Processed
  <1>3. BookOk(book') /\ BanStep
    BY <1>1, FollowsKeeps
  <1> HIDE <1>1
  <1> QED
    BY <1>2, <1>3, LeaveOk, BookStep

LEMMA PeerOfTyped ==
    ASSUME NetworkInv, NEW t \in DOMAIN task
    PROVE  PeerOf(t) \in AllAddresses /\ (task[t].known # None => PeerOf(t) \in Addrs)
  BY TaskTyped DEF PeerOf, AllAddresses

LEMMA ReceiveOk ==
    ASSUME NetworkInv, NEW t \in DOMAIN task,
           ReceiveStatus(t) \/ ReceiveGood(t) \/ ReceiveBad(t) \/ ReceiveTolerated(t)
    PROVE  NetworkInv' /\ BanStep
  <1>1. BookOk(book)
    BY InvParts
  <1>2. CASE ReceiveStatus(t)
    <2>1. book' = StatusRecorded(book, t, task[t].known)
      BY <1>2 DEF ReceiveStatus
    <2>2. Follows(book, book')
      BY <1>1, <2>1, TaskTyped, StatusRecordedFollows
    <2>3. UNCHANGED <<task, sessions, limiter, scan>>
      BY <1>2 DEF ReceiveStatus
    <2> HIDE <2>1
    <2> QED
      BY <2>2, <2>3, FollowsKeeps, BookStep
  <1>3. CASE ReceiveGood(t)
    <2> DEFINE b == IF task[t].known = None THEN book ELSE RecordReceived(book, task[t].known)
    <2>1. Follows(book, b)
      BY <1>1, TaskTyped, RecordsFollow, FollowsSelf
    <2>2. Processed(t, b)
      BY <1>3 DEF ReceiveGood
    <2> HIDE DEF b
    <2> QED
      BY <2>1, <2>2, ProcessedOk
  <1>4. CASE ReceiveBad(t)
    <2> DEFINE direction == IF task[t].known = None THEN "Inbound" ELSE "Outbound"
               b == RecordMisbehavior(book, PeerOf(t), direction)
    <2>1. direction \in Directions /\ (direction # "Inbound" => PeerOf(t) \in Addrs)
      BY PeerOfTyped DEF Directions
    <2>2. Processed(t, b)
      BY <1>4 DEF ReceiveBad
    <2> HIDE DEF direction
    <2>3. Follows(book, b)
      BY <1>1, <2>1, PeerOfTyped, MisbehaviorFollows
    <2> HIDE DEF b
    <2> QED
      BY <2>2, <2>3, ProcessedOk
  <1>5. CASE ReceiveTolerated(t)
    <2>1. Follows(book, RecordInboundError(book, PeerOf(t)))
      BY <1>1, PeerOfTyped, InboundRecordsFollow
    <2>2. Processed(t, RecordInboundError(book, PeerOf(t)))
      BY <1>5 DEF ReceiveTolerated
    <2> QED
      BY <2>1, <2>2, ProcessedOk
  <1> QED
    BY <1>2, <1>3, <1>4, <1>5

LEMMA ReceivePeerListOk ==
    ASSUME NetworkInv, NEW t \in DOMAIN task, NEW a \in Addrs, ReceivePeerList(t, a)
    PROVE  NetworkInv' /\ BanStep
  <1> DEFINE x == ReachableAdvertised(a, task[t].addr)
             b == IF SelfPeer(x) \/ ~Discoverable(x, task[t].addr) THEN book
                  ELSE AddDiscoveredPeer(book, x)
  <1>1. x \in Addrs
    BY TaskTyped, PeersAssumption DEF AllAddresses
  <1>2. Processed(t, b)
    BY DEF ReceivePeerList
  <1> HIDE DEF x
  <1>3. Follows(book, b)
    BY <1>1, InvParts, AddDiscoveredPeerOk, FollowsSelf
  <1> HIDE DEF b
  <1> QED
    BY <1>2, <1>3, ProcessedOk

LEMMA ReceiveSelfAnnouncementOk ==
    ASSUME NetworkInv, NEW t \in DOMAIN task, ReceiveSelfAnnouncement(t)
    PROVE  NetworkInv' /\ BanStep
  <1>1. BookOk(book')
    BY InvParts, RemovePeerOk DEF ReceiveSelfAnnouncement
  <1>2. BanStep
    BY DEF BanStep
  <1>3. CASE Leave(t, FALSE) /\ scan' = scan
    BY <1>1, <1>2, <1>3, LeaveOk
  <1> DEFINE info == [task[t] EXCEPT !.known = None]
  <1>4. CASE Goes(t, info) /\ UNCHANGED <<sessions, limiter, scan>>
    <2>1. /\ info \in TaskInfo /\ info.kind = task[t].kind /\ info.addr = task[t].addr
          /\ info.chan = task[t].chan /\ info.node = task[t].node /\ info.known = None
          /\ info.pc = task[t].pc
      BY TaskTyped DEF TaskInfo
    <2> HIDE DEF info
    <2>2. TaskOk(info)
      BY <2>1, TaskTyped DEF TaskOk
    <2> QED
      BY <1>1, <1>2, <1>4, <2>1, <2>2, GoesOn
  <1> QED
    BY <1>3, <1>4 DEF ReceiveSelfAnnouncement

LEMMA SendBatchOk ==
    ASSUME NetworkInv, NEW t \in DOMAIN task, SendBatch(t)
    PROVE  NetworkInv' /\ BanStep
  <1>1. book' = (IF task[t].known = None THEN book ELSE RecordSent(book, task[t].known))
    BY DEF SendBatch
  <1>2. Follows(book, book')
    BY <1>1, InvParts, TaskTyped, RecordsFollow, FollowsSelf
  <1>3. UNCHANGED <<task, sessions, limiter, scan>>
    BY DEF SendBatch
  <1> HIDE <1>1
  <1> QED
    BY <1>2, <1>3, FollowsKeeps, BookStep

LEMMA DropClosingOk ==
    ASSUME NetworkInv, DropClosing
    PROVE  NetworkInv' /\ BanStep
  <1> DEFINE keys == {c.key : c \in {d \in closing :
                         d.key \in DOMAIN sessions /\ sessions[d.key].chan = d.entry.chan}}
  <1>1. sessions' = Restrict(sessions, DOMAIN sessions \ keys)
    BY DEF DropClosing, Unregister
  <1>2. UNCHANGED <<book, task, limiter, scan>>
    BY DEF DropClosing
  <1> HIDE DEF keys
  <1>3. Registered(task, sessions')
    BY <1>1, InvParts, Fewer
  <1> QED
    BY <1>2, <1>3, InvParts, InvNext, SameBook

LEMMA OperatorOk ==
    ASSUME NetworkInv, NEW a \in Addrs, UserAdds(a) \/ UserRemoves(a)
    PROVE  NetworkInv' /\ BanStep
  <1>1. CASE UserAdds(a)
    <2>1. Follows(book, book')
      BY <1>1, InvParts, AddPeerOk DEF UserAdds
    <2> QED
      BY <1>1, <2>1, FollowsKeeps, BookStep DEF UserAdds
  <1>2. CASE UserRemoves(a)
    <2>1. book' = RemovePeer(book, a) /\ IsConnectable(book, a)
      BY <1>2 DEF UserRemoves
    <2>2. BookOk(book')
      BY <2>1, InvParts, RemovePeerOk
    <2>3. DOMAIN book' = DOMAIN book \ {a} /\ \A x \in DOMAIN book \ {a} : book'[x] = book[x]
      BY <2>1 DEF RemovePeer, Without, Restrict
    <2>4. BanStep
      <3> SUFFICES ASSUME NEW x \in DOMAIN book, book[x].banned
                   PROVE  IsBanned(book', x) \/ UserRemoves(x)
        BY DEF BanStep
      <3> QED
        BY <1>2, <2>3 DEF IsBanned, Known
    <2>5. UNCHANGED <<task, sessions, limiter, scan>>
      BY <1>2 DEF UserRemoves
    <2> HIDE <2>1, <2>3
    <2> QED
      BY <2>2, <2>4, <2>5, BookStep
  <1> QED
    BY <1>1, <1>2

LEMMA TimeOk ==
    ASSUME NetworkInv, NEW a \in DOMAIN book, BanEnds(a) \/ Age(a)
    PROVE  NetworkInv' /\ BanStep
  <1>1. BookOk(book) /\ a \in AllAddresses /\ book[a] \in PeerInfo
        /\ (book[a].direction # "Inbound" => a \in Addrs)
    BY InvParts DEF BookOk
  <1>2. CASE BanEnds(a)
    <2> DEFINE info == [book[a] EXCEPT !.banned = FALSE]
    <2>1. info \in PeerInfo /\ info.direction = book[a].direction
      BY <1>1 DEF PeerInfo
    <2>2. book' = With(book, a, info) /\ UNCHANGED <<task, sessions, limiter, scan>>
      BY <1>2 DEF BanEnds
    <2> HIDE DEF info
    <2>3. DOMAIN book' = DOMAIN book /\ book'[a] = info
          /\ \A x \in DOMAIN book \ {a} : book'[x] = book[x]
      BY <2>2 DEF With
    <2>4. BookOk(book')
      BY <1>1, <2>1, <2>3 DEF BookOk
    <2>5. BanStep
      <3> SUFFICES ASSUME NEW x \in DOMAIN book, book[x].banned
                   PROVE  IsBanned(book', x) \/ BanEnds(x)
        BY DEF BanStep
      <3> QED
        BY <1>2, <2>3 DEF IsBanned, Known
    <2>6. UNCHANGED <<task, sessions, limiter, scan>>
      BY <2>2
    <2> HIDE <2>2, <2>3
    <2> QED
      BY <2>4, <2>5, <2>6, BookStep
  <1>3. CASE Age(a)
    <2> DEFINE info == [book[a] EXCEPT !.contact = Older(@), !.success = Older(@)]
    <2>1. \A age \in Ages : Older(age) \in Ages
      BY DEF Ages, Older
    <2>2. info \in PeerInfo /\ info.direction = book[a].direction /\ info.banned = book[a].banned
      BY <1>1, <2>1 DEF PeerInfo
    <2>3. book' = With(book, a, info)
      BY <1>3 DEF Age
    <2>4. UNCHANGED <<task, sessions, limiter, scan>>
      BY <1>3 DEF Age
    <2> HIDE DEF info
    <2>5. Follows(book, With(book, a, info))
      BY <1>1, <2>2, WithOk
    <2>6. Follows(book, book')
      BY <2>3, <2>5
    <2> HIDE <2>3
    <2> QED
      BY <2>4, <2>6, FollowsKeeps, BookStep
  <1> QED
    BY <1>2, <1>3

LEMMA StutterOk ==
    ASSUME NetworkInv,
           UNCHANGED sessionVars \/ SetAcceptInbound \/ Broadcast
    PROVE  NetworkInv' /\ BanStep
  <1>1. UNCHANGED <<book, task, sessions, limiter, scan>>
    BY Zenon DEF SetAcceptInbound, Broadcast, sessionVars
  <1> QED
    BY <1>1, SameBook, BookStep

LEMMA InitOk ==
    ASSUME SessionsInit
    PROVE  NetworkInv
  <1>1. BookOk(book)
    <2>1. NewPeer("Outbound") \in PeerInfo
      BY NewPeerType DEF Directions
    <2> QED
      BY <2>1, PeersAssumption DEF SessionsInit, BookOk, AllAddresses
  <1>2. DOMAIN task = {} /\ DOMAIN sessions = {} /\ scan = {}
        /\ limiter = [active |-> 0, peers |-> [ip \in Ips |-> [active |-> 0, accepts |-> 0]]]
    BY DEF SessionsInit
  <1>3. TasksInv(task) /\ Registered(task, sessions)
    BY <1>2 DEF TasksInv, Registered
  <1>4. \A ips : From(task, ips) = {}
    BY <1>2 DEF From
  <1>5. Cardinality({}) = 0
    BY FS_EmptySet, Zenon
  <1>6. Counted(task, limiter)
    <2>1. 0 \in 0..MaxInbound /\ 0 \in 0..MaxInboundPerIp /\ 0 \in 0..MaxAccepts
      BY PeersAssumption
    <2>2. limiter \in [active: 0..MaxInbound,
                       peers: [Ips -> [active: 0..MaxInboundPerIp, accepts: 0..MaxAccepts]]]
          /\ limiter.active = 0 /\ \A ip \in Ips : limiter.peers[ip].active = 0
      BY <1>2, <2>1
    <2>3. \A ips : Cardinality(From(task, ips)) = 0
      BY <1>4, <1>5
    <2> QED
      BY <2>2, <2>3 DEF Counted
  <1> QED
    BY <1>1, <1>2, <1>3, <1>6, NetworkInvParts DEF Net

\* Every step keeps the invariant and treats bans as BanKept says.
LEMMA StepOk ==
    ASSUME NetworkInv, [SessionsNext]_sessionVars
    PROVE  NetworkInv' /\ BanStep
  <1>1. CASE Supervise \/ EnsureSessions
    BY <1>1, SuperviseOk, EnsureSessionsOk
  <1>2. ASSUME NEW t \in DOMAIN task, TaskStep(t)
        PROVE  NetworkInv' /\ BanStep
    BY <1>2, DialOk, ConnectFailsOk, ConnectSucceedsOk, AfterSessionOk, StopSessionOk, SendBatchOk
       DEF TaskStep
  <1>3. ASSUME NEW t \in DOMAIN task, Message(t)
        PROVE  NetworkInv' /\ BanStep
    BY <1>3, ProcessHelloOk, ReceiveOk, ReceivePeerListOk, ReceiveSelfAnnouncementOk, DisconnectOk
       DEF Message
  <1>4. CASE \E t \in Tasks, r \in Remotes, n \in Range(NodeAt) : Accept(t, r, n)
    BY <1>4, AcceptOk
  <1>5. CASE \E ip \in Ips : WindowPasses(ip)
    BY <1>5, WindowPassesOk
  <1>6. CASE SetAcceptInbound \/ Broadcast \/ DropClosing \/ UNCHANGED sessionVars
    BY <1>6, StutterOk, DropClosingOk
  <1>7. CASE \E a \in Addrs : UserAdds(a) \/ UserRemoves(a)
    BY <1>7, OperatorOk
  <1>8. CASE \E a \in DOMAIN book : BanEnds(a) \/ Age(a)
    BY <1>8, TimeOk
  <1> QED
    BY <1>1, <1>2, <1>3, <1>4, <1>5, <1>6, <1>7, <1>8 DEF SessionsNext

-----------------------------------------------------------------------------
(* The inductive invariant: the registry leads to live tasks, the limiter  *)
(* counts the inbound sessions, the book dials only addresses of nodes,    *)
(* and every task has the shape its kind gives it.                         *)
THEOREM NetworkInvHolds == SessionsSpec => []NetworkInv
  <1>1. NetworkInv /\ [SessionsNext]_sessionVars => NetworkInv'
    BY StepOk
  <1> QED
    BY InitOk, <1>1, PTL DEF SessionsSpec

(* For any number of peers, tasks, limits and messages, through every way  *)
(* a session can end (inbound_limiter.rs, session.rs, session_registry.rs),*)
(* an entry of the registry leads to a live task and the limiter's counts  *)
(* are the inbound sessions there are.                                     *)
THEOREM SessionsAccountedHolds == SessionsSpec => []SessionsAccounted
  <1>1. NetworkInv => SessionsAccounted
    BY DEF NetworkInv
  <1> QED
    BY <1>1, NetworkInvHolds, PTL

(* A session is only ever known by an address of the node at its other end *)
(* (process_hello's verification of an advertised address).                *)
THEOREM KnownIsTheirsHolds == SessionsSpec => []KnownIsTheirs
  <1>1. NetworkInv => KnownIsTheirs
    BY DEF NetworkInv, TasksOk, TaskOk, KnownIsTheirs
  <1> QED
    BY <1>1, NetworkInvHolds, PTL

(* No step lifts a ban but the ones BanKept names (peer_book.rs).          *)
THEOREM BanKeptHolds == SessionsSpec => BanKept
  <1>1. NetworkInv /\ [SessionsNext]_sessionVars => [BanStep]_sessionVars
    BY StepOk
  <1>2. SessionsSpec => [][SessionsNext]_sessionVars
    BY PTL DEF SessionsSpec
  <1>3. SessionsSpec => [][BanStep]_sessionVars
    BY <1>1, <1>2, NetworkInvHolds, PTL
  <1> QED
    BY <1>3 DEF BanKept, BanStep
=============================================================================
