------------------------ MODULE FinalizationProofs --------------------------
(***************************************************************************)
(* What a node remembers of a height is sound for every committee, timing  *)
(* and fault: no member signs twice, and an equivocated slot stays out.    *)
(***************************************************************************)
EXTENDS Finalization, TLAPS

-----------------------------------------------------------------------------
(* One node.                                                               *)

\* The part of the invariant that is about one node.
Sound(s) ==
    /\ IsState(s)
    /\ s.tip.height \in Nat /\ s.life \in Nat
    /\ s.autoBurn \in Int /\ s.autoAnchor \in Int
    /\ \A b \in s.pool : Queued(s.tip, b)
    /\ \A k \in DOMAIN s.bundles : Key(s.bundles[k]) = k /\ k[1] = s.tip.height + 1
    /\ \A k \in s.equivocated : k[1] = s.tip.height + 1
    /\ s.anchor # None => s.anchor[1] = s.tip.height
    /\ s.autoBurn <= s.tip.height /\ s.autoAnchor <= s.tip.height
    /\ DOMAIN s.bundles \cap s.equivocated = {}

\* The part that is about a signed bundle and the node of its signer.
Remembers(s, x) ==
    (x.life = s.life /\ x.bundle.height > s.tip.height) =>
        \/ Key(x.bundle) \in s.equivocated
        \/ Key(x.bundle) \in DOMAIN s.bundles /\ s.bundles[Key(x.bundle)] = x.bundle

SignedOK(x) ==
    /\ x = [bundle |-> x.bundle, life |-> x.life]
    /\ x.bundle.member \in Members
    /\ x.bundle.height \in Nat

\* The invariant, taken apart.
LEMMA InvParts ==
    BundlesInv <=>
        /\ node = [n \in Members |-> node[n]]
        /\ \A n \in Members : Sound(node[n])
        /\ \A m \in sent : IsBlock(m) => m.height \in Nat
        /\ \A x \in signed :
              /\ SignedOK(x)
              /\ x.life \in 0..node[x.bundle.member].life
              /\ Remembers(node[x.bundle.member], x)
        /\ SignsOnce
  BY Zenon DEF BundlesInv, BundlesSound, MemoryOfThisHeight, EquivocatedNeverUsed, SignedIsKept,
         Sound, SignedOK, Remembers

\* The same after a step.
LEMMA InvPartsNext ==
    BundlesInv' <=>
        /\ node' = [n \in Members |-> node'[n]]
        /\ \A n \in Members : Sound(node'[n])
        /\ \A m \in sent' : IsBlock(m) => m.height \in Nat
        /\ \A x \in signed' :
              /\ SignedOK(x)
              /\ x.life \in 0..node'[x.bundle.member].life
              /\ Remembers(node'[x.bundle.member], x)
        /\ SignsOnce'
  BY Zenon DEF BundlesInv, BundlesSound, MemoryOfThisHeight, EquivocatedNeverUsed, SignedIsKept,
         Sound, SignedOK, Remembers, IsState, Queued, Key, IsBlock

\* A key names the height, slot and member of its bundle.
LEMMA KeyParts ==
    ASSUME NEW b
    PROVE  Key(b)[1] = b.height /\ Key(b)[2] = b.slot /\ Key(b)[3] = b.member
  BY DEF Key

\* Bundles of keys that are not there yet, one for each key.
LEMMA JoinBundles ==
    ASSUME NEW f, NEW new,
           \A b \in new : Key(b) \notin DOMAIN f,
           \A b, c \in new : Key(b) = Key(c) => b = c
    PROVE  /\ DOMAIN WithBundles(f, new) = DOMAIN f \cup {Key(b) : b \in new}
           /\ \A k \in DOMAIN f : WithBundles(f, new)[k] = f[k]
           /\ \A b \in new : WithBundles(f, new)[Key(b)] = b
  <1>1. DOMAIN WithBundles(f, new) = DOMAIN f \cup {Key(b) : b \in new}
    BY DEF WithBundles
  <1>2. \A k \in DOMAIN f : WithBundles(f, new)[k] = f[k]
    BY DEF WithBundles
  <1>3. ASSUME NEW b \in new PROVE WithBundles(f, new)[Key(b)] = b
    <2>1. WithBundles(f, new)[Key(b)] = CHOOSE c \in new : Key(c) = Key(b)
      BY DEF WithBundles
    <2>2. (CHOOSE c \in new : Key(c) = Key(b)) = b
      BY Zenon
    <2> QED  BY <2>1, <2>2
  <1> QED  BY <1>1, <1>2, <1>3

\* A change of the burns and timers of the current height.
LEMMA BurnsChange ==
    ASSUME NEW s, Sound(s), NEW t, IsState(t),
           t.tip = s.tip, t.bundles = s.bundles, t.equivocated = s.equivocated,
           t.life = s.life,
           \A b \in t.pool : Queued(s.tip, b),
           t.anchor # None => t.anchor[1] = s.tip.height,
           t.autoBurn \in Int, t.autoBurn <= s.tip.height,
           t.autoAnchor \in Int, t.autoAnchor <= s.tip.height
    PROVE  Sound(t) /\ \A x : Remembers(s, x) => Remembers(t, x)
  <1>1. Sound(t)
    BY DEF Sound
  <1>2. \A x : Remembers(s, x) => Remembers(t, x)
    BY DEF Remembers
  <1> QED  BY <1>1, <1>2

\* The automatic anchor of a height.
LEMMA AnchorChange ==
    ASSUME NEW n, NEW s, Sound(s), NEW t, t = PrepareAutomaticAnchorBurn(n, s)
    PROVE  /\ IsState(t)
           /\ t.tip = s.tip /\ t.bundles = s.bundles /\ t.equivocated = s.equivocated
           /\ t.life = s.life /\ t.pool = s.pool
           /\ t.anchor # None => t.anchor[1] = s.tip.height
           /\ t.autoBurn = s.autoBurn
           /\ t.autoAnchor \in Int /\ t.autoAnchor <= s.tip.height
  <1>1. CASE t = s
    BY <1>1 DEF Sound
  <1>2. CASE t = [s EXCEPT !.anchor = <<s.tip.height, AnchorBurn(n, s.tip)>>,
                           !.autoAnchor = s.tip.height]
    <2>1. IsState(s) /\ s.tip.height \in Nat
      BY DEF Sound
    <2>2. t = [tip |-> s.tip, pool |-> s.pool, bundles |-> s.bundles,
               equivocated |-> s.equivocated, started |-> s.started,
               anchor |-> <<s.tip.height, AnchorBurn(n, s.tip)>>,
               autoBurn |-> s.autoBurn, autoAnchor |-> s.tip.height, work |-> s.work,
               enabled |-> s.enabled, life |-> s.life]
      BY <1>2, <2>1 DEF IsState
    <2> QED  BY <2>1, <2>2 DEF IsState
  <1> QED  BY <1>1, <1>2 DEF PrepareAutomaticAnchorBurn

\* The automatic burn of a height adds at most one burn to the pool.
LEMMA BurnChange ==
    ASSUME NEW n, NEW s, Sound(s), NEW t, t = PrepareAutomaticBurn(n, s)
    PROVE  /\ Sound(t) /\ \A x : Remembers(s, x) => Remembers(t, x)
           /\ t.tip = s.tip /\ t.life = s.life
           /\ t.pool \ s.pool \subseteq {QueuedBurn(n, s.tip)}
  <1> DEFINE a == PrepareAutomaticAnchorBurn(n, s)
  <1>1. /\ IsState(a)
        /\ a.tip = s.tip /\ a.bundles = s.bundles /\ a.equivocated = s.equivocated
        /\ a.life = s.life /\ a.pool = s.pool
        /\ a.anchor # None => a.anchor[1] = s.tip.height
        /\ a.autoBurn = s.autoBurn
        /\ a.autoAnchor \in Int /\ a.autoAnchor <= s.tip.height
    BY AnchorChange
  <1>2. \/ t = [a EXCEPT !.autoBurn = a.tip.height]
        \/ t = a
        \/ t = [a EXCEPT !.pool = @ \cup {QueuedBurn(n, a.tip)}, !.autoBurn = a.tip.height]
    BY DEF PrepareAutomaticBurn
  <1>3. s.tip.height \in Nat /\ s.autoBurn \in Int /\ s.autoBurn <= s.tip.height
        /\ \A b \in s.pool : Queued(s.tip, b)
    BY DEF Sound
  <1> HIDE DEF a
  <1>4. /\ IsState(t)
        /\ t.tip = s.tip /\ t.bundles = s.bundles /\ t.equivocated = s.equivocated
        /\ t.life = s.life /\ t.anchor = a.anchor /\ t.autoAnchor = a.autoAnchor
        /\ t.autoBurn \in {s.autoBurn, s.tip.height}
        /\ t.pool \in {s.pool, s.pool \cup {QueuedBurn(n, s.tip)}}
    <2>1. CASE t = a
      BY <1>1, <2>1
    <2>2. CASE t = [a EXCEPT !.autoBurn = a.tip.height]
      BY <1>1, <2>2 DEF IsState
    <2>3. CASE t = [a EXCEPT !.pool = @ \cup {QueuedBurn(n, a.tip)}, !.autoBurn = a.tip.height]
      BY <1>1, <2>3 DEF IsState
    <2> QED  BY <1>2, <2>1, <2>2, <2>3
  <1>5. Queued(s.tip, QueuedBurn(n, s.tip))
    BY DEF Queued, QueuedBurn
  <1>6. \A b \in t.pool : Queued(s.tip, b)
    BY <1>3, <1>4, <1>5
  <1>7. t.pool \ s.pool \subseteq {QueuedBurn(n, s.tip)}
    BY <1>4
  <1> QED  BY <1>1, <1>3, <1>4, <1>6, <1>7, BurnsChange

\* The collection of bundles starts, goes on or ends.
LEMMA CollectionChange ==
    ASSUME NEW n, NEW s, Sound(s), NEW t, t = BurnBundleCollection(n, s).state
    PROVE  /\ Sound(t) /\ \A x : Remembers(s, x) => Remembers(t, x)
           /\ t.tip = s.tip /\ t.life = s.life
  <1>1. PICK v : t = [s EXCEPT !.started = v]
    BY DEF BurnBundleCollection
  <1>2. IsState(s)
    BY DEF Sound
  <1>3. /\ IsState(t) /\ t.tip = s.tip /\ t.bundles = s.bundles
        /\ t.equivocated = s.equivocated /\ t.life = s.life /\ t.pool = s.pool
        /\ t.anchor = s.anchor /\ t.autoBurn = s.autoBurn /\ t.autoAnchor = s.autoAnchor
    BY <1>1, <1>2 DEF IsState
  <1> QED  BY <1>3, BurnsChange DEF Sound

\* A change of the work or of the switch.
LEMMA WorkChange ==
    ASSUME NEW s, Sound(s), NEW w, NEW e, NEW t,
           t \in {[s EXCEPT !.work = w], [s EXCEPT !.enabled = e]}
    PROVE  /\ Sound(t) /\ \A x : Remembers(s, x) => Remembers(t, x)
           /\ t.tip = s.tip /\ t.life = s.life
  <1>2. IsState(s)
    BY DEF Sound
  <1>3. /\ IsState(t) /\ t.tip = s.tip /\ t.bundles = s.bundles
        /\ t.equivocated = s.equivocated /\ t.life = s.life /\ t.pool = s.pool
        /\ t.anchor = s.anchor /\ t.autoBurn = s.autoBurn /\ t.autoAnchor = s.autoAnchor
    BY <1>2 DEF IsState
  <1> QED  BY <1>3, BurnsChange DEF Sound

-----------------------------------------------------------------------------
(* Bundles and blocks.                                                     *)

\* What a member publishes: bundles of the next height, none of them for a key it has
\* a bundle for or that is equivocated.
LEMMA PublishChange ==
    ASSUME NEW n, NEW s, Sound(s), NEW p, p = PublishBurnBundle(n, s)
    PROVE  /\ Sound(p.state) /\ \A x : Remembers(s, x) => Remembers(p.state, x)
           /\ p.state.tip = s.tip /\ p.state.life = s.life
           /\ \A m \in p.out : m.height = s.tip.height + 1
           /\ \A b \in p.new :
                 /\ b.member = n /\ b.height = s.tip.height + 1
                 /\ Key(b) \notin DOMAIN s.bundles /\ Key(b) \notin s.equivocated
                 /\ Key(b) \in DOMAIN p.state.bundles /\ p.state.bundles[Key(b)] = b
           /\ \A b, c \in p.new : Key(b) = Key(c) => b = c
  <1> DEFINE all == BuildBurnBundles(n, s.tip, PoolWithLocalAnchor(s))
             built == {b \in all : Key(b) \notin s.equivocated}
             new == {b \in built : Key(b) \notin DOMAIN s.bundles}
             bundles == WithBundles(s.bundles, new)
  <1>0. /\ p.state = [s EXCEPT !.bundles = bundles]
        /\ p.out = new \cup {s.bundles[Key(b)] : b \in built \ new}
        /\ p.new = new
    BY DEF PublishBurnBundle
  <1>1. /\ \A b \in all : b.member = n /\ b.height = s.tip.height + 1
        /\ \A b, c \in all : b.slot = c.slot => b = c
    <2> DEFINE burns == Sorted({b \in PoolWithLocalAnchor(s) : Fits(s.tip, b)})
               signable == SubSeq(burns, 1, Min({Len(burns), BundleLimit}))
    <2>1. all = {[height |-> s.tip.height + 1, prev |-> s.tip.hash, slot |-> slot,
                  member |-> n, burns |-> signable] : slot \in Memberships(n)}
      BY DEF BuildBurnBundles
    <2> HIDE DEF all, signable
    <2> QED  BY <2>1
  <1>2. \A b, c \in all : Key(b) = Key(c) => b = c
    BY <1>1, KeyParts
  <1> HIDE DEF all
  <1>3. /\ \A b \in new : Key(b) \notin DOMAIN s.bundles /\ Key(b) \notin s.equivocated
        /\ \A b \in new : b \in all
        /\ \A b, c \in new : Key(b) = Key(c) => b = c
    BY <1>2
  <1>4. \A b \in built \ new : Key(b) \in DOMAIN s.bundles
    OBVIOUS
  <1> HIDE DEF built, new
  <1>5. /\ DOMAIN bundles = DOMAIN s.bundles \cup {Key(b) : b \in new}
        /\ \A k \in DOMAIN s.bundles : bundles[k] = s.bundles[k]
        /\ \A b \in new : bundles[Key(b)] = b
    BY <1>3, JoinBundles
  <1> HIDE DEF bundles
  <1>6. /\ IsState(s) /\ DOMAIN s.bundles \cap s.equivocated = {}
        /\ \A k \in DOMAIN s.bundles : Key(s.bundles[k]) = k /\ k[1] = s.tip.height + 1
    BY DEF Sound
  <1> DEFINE t == p.state
  <1>7. /\ IsState(t) /\ t.bundles = bundles
        /\ t.tip = s.tip /\ t.equivocated = s.equivocated /\ t.life = s.life
        /\ t.pool = s.pool /\ t.anchor = s.anchor
        /\ t.autoBurn = s.autoBurn /\ t.autoAnchor = s.autoAnchor
    BY <1>0, <1>6 DEF IsState
  <1> HIDE DEF t
  <1>8. \A b \in new : Key(b)[1] = s.tip.height + 1
    BY <1>1, <1>3, KeyParts
  <1>9. \A k \in DOMAIN t.bundles : Key(t.bundles[k]) = k /\ k[1] = s.tip.height + 1
    BY <1>5, <1>6, <1>7, <1>8
  <1>10. DOMAIN t.bundles \cap t.equivocated = {}
    BY <1>3, <1>5, <1>6, <1>7
  <1>11. Sound(t)
    BY <1>7, <1>9, <1>10 DEF Sound
  <1>12. \A x : Remembers(s, x) => Remembers(t, x)
    BY <1>5, <1>7 DEF Remembers
  <1>13. \A m \in p.out : m.height = s.tip.height + 1
    <2>1. \A b \in built \ new : s.bundles[Key(b)].height = s.tip.height + 1
      BY <1>4, <1>6, KeyParts
    <2>2. \A b \in new : b.height = s.tip.height + 1
      BY <1>1, <1>3
    <2> QED  BY <1>0, <2>1, <2>2
  <1>14. \A b \in p.new :
            /\ b.member = n /\ b.height = s.tip.height + 1
            /\ Key(b) \notin DOMAIN s.bundles /\ Key(b) \notin s.equivocated
            /\ Key(b) \in DOMAIN t.bundles /\ t.bundles[Key(b)] = b
    BY <1>0, <1>1, <1>3, <1>5, <1>7
  <1>15. \A b, c \in p.new : Key(b) = Key(c) => b = c
    BY <1>0, <1>3
  <1> QED  BY <1>7, <1>11, <1>12, <1>13, <1>14, <1>15 DEF t

\* A bundle arrives, is there already, or disqualifies its slot.
LEMMA ReceiveChange ==
    ASSUME NEW s, Sound(s), NEW b, PrecheckNextBlockBurnBundle(s.tip, b),
           NEW t, t = ReceivedBundle(s, b)
    PROVE  /\ Sound(t) /\ \A x : Remembers(s, x) => Remembers(t, x)
           /\ t.tip = s.tip /\ t.life = s.life
  <1> DEFINE r == [s EXCEPT !.pool = @ \cup Range(b.burns)]
             k == Key(b)
             without == [j \in DOMAIN r.bundles \ {k} |-> r.bundles[j]]
  <1>1. /\ IsState(s) /\ DOMAIN s.bundles \cap s.equivocated = {}
        /\ \A j \in DOMAIN s.bundles : Key(s.bundles[j]) = j /\ j[1] = s.tip.height + 1
        /\ \A j \in s.equivocated : j[1] = s.tip.height + 1
    BY DEF Sound
  <1>2. /\ IsState(r) /\ r.pool = s.pool \cup Range(b.burns)
        /\ r.tip = s.tip /\ r.bundles = s.bundles
        /\ r.equivocated = s.equivocated /\ r.life = s.life /\ r.anchor = s.anchor
        /\ r.autoBurn = s.autoBurn /\ r.autoAnchor = s.autoAnchor
    <2> DEFINE pool == s.pool \cup Range(b.burns)
    <2>1. r = [s EXCEPT !.pool = pool]
      OBVIOUS
    <2> HIDE DEF r, pool
    <2>2. /\ IsState(r) /\ r.pool = pool
          /\ r.tip = s.tip /\ r.bundles = s.bundles
          /\ r.equivocated = s.equivocated /\ r.life = s.life /\ r.anchor = s.anchor
          /\ r.autoBurn = s.autoBurn /\ r.autoAnchor = s.autoAnchor
      BY <1>1, <2>1 DEF IsState
    <2> QED  BY <2>2 DEF pool
  <1>3. /\ b.height = s.tip.height + 1
        /\ \A i \in DOMAIN b.burns : Fits(s.tip, b.burns[i])
    BY DEF PrecheckNextBlockBurnBundle, PrecheckBurnBundle
  <1>4. \A c \in r.pool : Queued(s.tip, c)
    <2>1. \A c \in Range(b.burns) : Queued(s.tip, c)
      BY <1>3 DEF Range, Fits, Queued
    <2> QED  BY <1>2, <2>1 DEF Sound
  <1>5. k[1] = s.tip.height + 1
    BY <1>3, KeyParts
  <1>6. \/ t = r
        \/ /\ k \in DOMAIN r.bundles
           /\ t = [r EXCEPT !.bundles = without, !.equivocated = @ \cup {k}]
        \/ /\ k \notin DOMAIN r.bundles /\ k \notin r.equivocated
           /\ t = [r EXCEPT !.bundles = WithBundles(@, {b})]
    BY DEF ReceivedBundle
  <1> HIDE DEF r, k
  <1>7. CASE t = r
    BY <1>2, <1>4, <1>7, BurnsChange DEF Sound
  <1>8. CASE /\ k \in DOMAIN r.bundles
             /\ t = [r EXCEPT !.bundles = without, !.equivocated = @ \cup {k}]
    <2>1. /\ DOMAIN without = DOMAIN s.bundles \ {k}
          /\ \A j \in DOMAIN s.bundles \ {k} : without[j] = s.bundles[j]
      BY <1>2
    <2> HIDE DEF without
    <2>2. /\ IsState(t) /\ t.bundles = without /\ t.equivocated = s.equivocated \cup {k}
          /\ t.tip = s.tip /\ t.life = s.life /\ t.pool = r.pool
          /\ t.anchor = s.anchor /\ t.autoBurn = s.autoBurn /\ t.autoAnchor = s.autoAnchor
      BY <1>2, <1>8 DEF IsState
    <2>3. /\ DOMAIN t.bundles \cap t.equivocated = {}
          /\ \A j \in DOMAIN t.bundles : Key(t.bundles[j]) = j /\ j[1] = s.tip.height + 1
          /\ \A j \in t.equivocated : j[1] = s.tip.height + 1
      BY <1>1, <1>5, <2>1, <2>2
    <2>4. Sound(t)
      BY <1>4, <2>2, <2>3 DEF Sound
    <2>5. \A x : Remembers(s, x) => Remembers(t, x)
      BY <2>1, <2>2 DEF Remembers
    <2> QED  BY <2>2, <2>4, <2>5
  <1>9. CASE /\ k \notin DOMAIN r.bundles /\ k \notin r.equivocated
             /\ t = [r EXCEPT !.bundles = WithBundles(@, {b})]
    <2> DEFINE bundles == WithBundles(s.bundles, {b})
    <2>1. /\ DOMAIN bundles = DOMAIN s.bundles \cup {k}
          /\ \A j \in DOMAIN s.bundles : bundles[j] = s.bundles[j]
          /\ bundles[k] = b
      <3>1. /\ \A c \in {b} : Key(c) \notin DOMAIN s.bundles
            /\ \A c, d \in {b} : Key(c) = Key(d) => c = d
        BY <1>2, <1>9 DEF k
      <3>2. /\ DOMAIN bundles = DOMAIN s.bundles \cup {Key(c) : c \in {b}}
            /\ \A j \in DOMAIN s.bundles : bundles[j] = s.bundles[j]
            /\ \A c \in {b} : bundles[Key(c)] = c
        BY <3>1, JoinBundles
      <3> HIDE DEF bundles
      <3> QED  BY <3>2 DEF k
    <2> HIDE DEF bundles
    <2>2. /\ IsState(t) /\ t.bundles = bundles /\ t.equivocated = s.equivocated
          /\ t.tip = s.tip /\ t.life = s.life /\ t.pool = r.pool
          /\ t.anchor = s.anchor /\ t.autoBurn = s.autoBurn /\ t.autoAnchor = s.autoAnchor
      BY <1>2, <1>9 DEF IsState, bundles
    <2>3. /\ DOMAIN t.bundles \cap t.equivocated = {}
          /\ \A j \in DOMAIN t.bundles : Key(t.bundles[j]) = j /\ j[1] = s.tip.height + 1
          /\ \A j \in t.equivocated : j[1] = s.tip.height + 1
      <3>1. Key(t.bundles[k]) = k
        BY <2>1, <2>2 DEF k
      <3> QED  BY <1>1, <1>2, <1>5, <1>9, <2>1, <2>2, <3>1
    <2>4. Sound(t)
      BY <1>4, <2>2, <2>3 DEF Sound
    <2>5. \A x : Remembers(s, x) => Remembers(t, x)
      BY <2>1, <2>2 DEF Remembers
    <2> QED  BY <2>2, <2>4, <2>5
  <1> QED  BY <1>6, <1>7, <1>8, <1>9

\* Another tip, not below the old one: what is about decided heights is dropped.
LEMMA MoveChange ==
    ASSUME NEW s, Sound(s), NEW r, IsState(r),
           r.bundles = s.bundles, r.equivocated = s.equivocated, r.life = s.life,
           r.tip.height \in Nat, r.tip.height >= s.tip.height,
           \A b \in r.pool : Queued(r.tip, b),
           r.autoBurn \in Int, r.autoBurn <= s.tip.height,
           r.autoAnchor \in Int, r.autoAnchor <= s.tip.height,
           NEW t, \/ t = PruneBurnBundles(ClearStaleAnchor(r))
                  \/ t = PruneBurnBundles(ClearStaleCollection(ClearStaleAnchor(r)))
    PROVE  /\ Sound(t) /\ \A x \in signed : SignedOK(x) /\ Remembers(s, x) => Remembers(t, x)
           /\ t.tip = r.tip /\ t.life = s.life
  <1> DEFINE a == ClearStaleAnchor(r)
             c == ClearStaleCollection(a)
  <1>0. /\ s.tip.height \in Nat /\ DOMAIN s.bundles \cap s.equivocated = {}
        /\ \A k \in DOMAIN s.bundles : Key(s.bundles[k]) = k /\ k[1] = s.tip.height + 1
        /\ \A k \in s.equivocated : k[1] = s.tip.height + 1
        /\ s.life \in Nat
    BY DEF Sound
  <1>1. /\ IsState(a) /\ a.bundles = r.bundles /\ a.equivocated = r.equivocated
        /\ a.life = r.life /\ a.tip = r.tip /\ a.pool = r.pool
        /\ a.anchor # None => a.anchor[1] = r.tip.height
        /\ a.autoBurn = r.autoBurn /\ a.autoAnchor = r.autoAnchor
    <2> DEFINE v == IF r.anchor # None /\ r.anchor[1] # r.tip.height THEN None ELSE r.anchor
    <2>1. a = [r EXCEPT !.anchor = v]
      BY DEF ClearStaleAnchor
    <2>2. v # None => v[1] = r.tip.height
      OBVIOUS
    <2> HIDE DEF a, v
    <2> QED  BY <2>1, <2>2 DEF IsState
  <1>2. /\ IsState(c) /\ c.bundles = r.bundles /\ c.equivocated = r.equivocated
        /\ c.life = r.life /\ c.tip = r.tip /\ c.pool = r.pool /\ c.anchor = a.anchor
        /\ c.autoBurn = r.autoBurn /\ c.autoAnchor = r.autoAnchor
    <2> HIDE DEF a
    <2>1. PICK v : c = [a EXCEPT !.started = v]
      BY DEF ClearStaleCollection
    <2> HIDE DEF c
    <2> QED  BY <1>1, <2>1 DEF IsState
  <1> HIDE DEF a, c
  <1>3. PICK u : /\ u = a \/ u = c
                 /\ t = PruneBurnBundles(u)
    BY DEF a, c
  <1>4. /\ IsState(u) /\ u.bundles = s.bundles /\ u.equivocated = s.equivocated
        /\ u.life = s.life /\ u.tip = r.tip /\ u.pool = r.pool
        /\ u.anchor # None => u.anchor[1] = r.tip.height
        /\ u.autoBurn = r.autoBurn /\ u.autoAnchor = r.autoAnchor
    BY <1>1, <1>2, <1>3
  <1> DEFINE kept == [k \in {k \in DOMAIN s.bundles : k[1] > r.tip.height} |-> s.bundles[k]]
             out == {k \in s.equivocated : k[1] > r.tip.height}
  <1>5. t = [u EXCEPT !.bundles = kept, !.equivocated = out]
    BY <1>3, <1>4 DEF PruneBurnBundles
  <1>6. /\ DOMAIN kept = {k \in DOMAIN s.bundles : k[1] > r.tip.height}
        /\ \A k \in DOMAIN kept : kept[k] = s.bundles[k]
    OBVIOUS
  <1> HIDE DEF kept
  <1>7. /\ IsState(t) /\ t.bundles = kept /\ t.equivocated = out
        /\ t.life = s.life /\ t.tip = r.tip /\ t.pool = r.pool /\ t.anchor = u.anchor
        /\ t.autoBurn = r.autoBurn /\ t.autoAnchor = r.autoAnchor
    <2> HIDE DEF out
    <2> QED  BY <1>4, <1>5 DEF IsState
  <1>8. /\ \A k \in DOMAIN kept : Key(kept[k]) = k /\ k[1] = r.tip.height + 1
        /\ \A k \in out : k[1] = r.tip.height + 1
        /\ DOMAIN kept \cap out = {}
    BY <1>0, <1>6
  <1>9. Sound(t)
    <2> HIDE DEF out
    <2>1. t.autoBurn <= t.tip.height /\ t.autoAnchor <= t.tip.height
      BY <1>0, <1>7
    <2> QED  BY <1>0, <1>4, <1>7, <1>8, <2>1 DEF Sound
  <1>10. ASSUME NEW x \in signed, SignedOK(x), Remembers(s, x) PROVE Remembers(t, x)
    <2> SUFFICES ASSUME x.life = t.life, x.bundle.height > t.tip.height
                 PROVE  \/ Key(x.bundle) \in t.equivocated
                        \/ /\ Key(x.bundle) \in DOMAIN t.bundles
                           /\ t.bundles[Key(x.bundle)] = x.bundle
      BY DEF Remembers
    <2>1. x.bundle.height \in Nat /\ Key(x.bundle)[1] = x.bundle.height
      BY <1>10, KeyParts DEF SignedOK
    <2>2. x.life = s.life /\ x.bundle.height > s.tip.height
          /\ x.bundle.height > r.tip.height
      BY <1>0, <1>7, <2>1
    <2>3. \/ Key(x.bundle) \in s.equivocated
          \/ Key(x.bundle) \in DOMAIN s.bundles /\ s.bundles[Key(x.bundle)] = x.bundle
      BY <1>10, <2>2 DEF Remembers
    <2> QED  BY <1>6, <1>7, <2>1, <2>2, <2>3
  <1> QED  BY <1>7, <1>9, <1>10

-----------------------------------------------------------------------------
(* Steps.                                                                  *)

\* The network after a step: new blocks have a height.
SentOK(messages) == \A m \in messages : IsBlock(m) => m.height \in Nat

\* One node changes, and nobody signs.
LEMMA NodeStep ==
    ASSUME BundlesInv, NEW n \in Members, NEW t, node' = [node EXCEPT ![n] = t],
           Sound(t), t.life >= node[n].life,
           \A x \in signed : SignedOK(x) /\ x.bundle.member = n /\ x.life <= node[n].life
                             /\ Remembers(node[n], x) => Remembers(t, x),
           signed' = signed, SentOK(sent')
    PROVE  BundlesInv'
  <1>0. /\ node = [m \in Members |-> node[m]]
        /\ \A m \in Members : Sound(node[m])
        /\ \A x \in signed :
              /\ SignedOK(x)
              /\ x.life \in 0..node[x.bundle.member].life
              /\ Remembers(node[x.bundle.member], x)
        /\ SignsOnce
    BY InvParts
  <1>1. node' = [m \in Members |-> node'[m]] /\ node'[n] = t
        /\ \A m \in Members \ {n} : node'[m] = node[m]
    BY <1>0
  <1>2. \A m \in Members : Sound(node'[m])
    BY <1>0, <1>1
  <1>3. ASSUME NEW x \in signed
        PROVE  /\ x.life \in 0..node'[x.bundle.member].life
               /\ Remembers(node'[x.bundle.member], x)
    <2>1. x.bundle.member \in Members
      BY <1>0 DEF SignedOK
    <2>2. CASE x.bundle.member = n
      <3>1. node[n].life \in Nat /\ t.life \in Nat
        BY <1>0 DEF Sound
      <3> QED  BY <1>0, <1>1, <2>2, <3>1
    <2>3. CASE x.bundle.member # n
      BY <1>0, <1>1, <2>1, <2>3
    <2> QED  BY <2>2, <2>3
  <1>4. SignsOnce'
    BY <1>0 DEF SignsOnce
  <1>5. BundlesInv' <=>
        /\ node' = [m \in Members |-> node'[m]]
        /\ \A m \in Members : Sound(node'[m])
        /\ \A m \in sent' : IsBlock(m) => m.height \in Nat
        /\ \A x \in signed' :
              /\ SignedOK(x)
              /\ x.life \in 0..node'[x.bundle.member].life
              /\ Remembers(node'[x.bundle.member], x)
        /\ SignsOnce'
    BY InvPartsNext
  <1> QED  BY <1>0, <1>1, <1>2, <1>3, <1>4, <1>5 DEF SentOK

\* The same for a node that keeps its life and its bundles.
LEMMA QuietStep ==
    ASSUME BundlesInv, NEW n \in Members, NEW t, node' = [node EXCEPT ![n] = t],
           Sound(t), t.life = node[n].life,
           \A x \in signed : SignedOK(x) /\ Remembers(node[n], x) => Remembers(t, x),
           signed' = signed, SentOK(sent')
    PROVE  BundlesInv'
  <1>1. node[n].life \in Nat
    BY InvParts DEF Sound
  <1>2. t.life >= node[n].life
    BY <1>1
  <1>3. \A x \in signed : SignedOK(x) /\ x.bundle.member = n /\ x.life <= node[n].life
                            /\ Remembers(node[n], x) => Remembers(t, x)
    OBVIOUS
  <1> QED  BY <1>2, <1>3, NodeStep

\* A round of the finalizer: one node changes, and what it signs is new.  The state c is
\* the one its bundles are published from.
LEMMA SignStep ==
    ASSUME BundlesInv, NEW n \in Members, NEW t, NEW out, NEW new,
           FinalizerStep(n, t, out, new),
           Sound(t), t.life = node[n].life, t.tip = node[n].tip,
           \A x : Remembers(node[n], x) => Remembers(t, x),
           SentOK(out),
           NEW c, c.life = node[n].life, c.tip = node[n].tip,
           \A x : Remembers(node[n], x) => Remembers(c, x),
           \A b \in new :
              /\ b.member = n /\ b.height = node[n].tip.height + 1
              /\ Key(b) \notin DOMAIN c.bundles /\ Key(b) \notin c.equivocated
              /\ Remembers(t, [bundle |-> b, life |-> node[n].life]),
           \A b, d \in new : Key(b) = Key(d) => b = d
    PROVE  BundlesInv'
  <1>0. /\ node = [m \in Members |-> node[m]]
        /\ \A m \in Members : Sound(node[m])
        /\ SentOK(sent)
        /\ \A x \in signed :
              /\ SignedOK(x)
              /\ x.life \in 0..node[x.bundle.member].life
              /\ Remembers(node[x.bundle.member], x)
        /\ SignsOnce
    BY InvParts DEF SentOK
  <1> DEFINE added == {[bundle |-> b, life |-> node[n].life] : b \in new}
  <1>1. /\ node' = [node EXCEPT ![n] = t] /\ sent' = sent \cup out
        /\ signed' = signed \cup added
    BY DEF FinalizerStep
  <1>2. node' = [m \in Members |-> node'[m]] /\ node'[n] = t
        /\ \A m \in Members \ {n} : node'[m] = node[m]
    BY <1>0, <1>1
  <1>3. \A m \in Members : Sound(node'[m])
    BY <1>0, <1>2
  <1>4. node[n].tip.height \in Nat /\ node[n].life \in Nat
    BY <1>0 DEF Sound
  <1>5. ASSUME NEW x \in added
        PROVE  /\ SignedOK(x) /\ x.bundle \in new /\ x.life = node[n].life
               /\ x = [bundle |-> x.bundle, life |-> x.life]
               /\ x.bundle.member = n /\ Remembers(t, x)
    <2>1. PICK b \in new : x = [bundle |-> b, life |-> node[n].life]
      OBVIOUS
    <2>2. x.bundle = b /\ x.life = node[n].life
      BY <2>1
    <2>3. b.member = n /\ b.height \in Nat
      <3>1. b.member = n /\ b.height = node[n].tip.height + 1
        BY <2>1
      <3> QED  BY <1>4, <3>1
    <2> QED  BY <2>1, <2>2, <2>3 DEF SignedOK
  <1> HIDE DEF added
  <1>6. ASSUME NEW x \in signed
        PROVE  /\ x.life \in 0..node'[x.bundle.member].life
               /\ Remembers(node'[x.bundle.member], x)
    <2>1. x.bundle.member \in Members
      BY <1>0 DEF SignedOK
    <2>2. CASE x.bundle.member = n
      BY <1>0, <1>2, <2>2
    <2>3. CASE x.bundle.member # n
      BY <1>0, <1>2, <2>1, <2>3
    <2> QED  BY <2>2, <2>3
  <1>7. ASSUME NEW x \in added
        PROVE  /\ x.life \in 0..node'[x.bundle.member].life
               /\ Remembers(node'[x.bundle.member], x)
    BY <1>2, <1>4, <1>5
  <1>8. ASSUME NEW x \in signed, NEW y \in added,
               Key(x.bundle) = Key(y.bundle), x.life = y.life
        PROVE  FALSE
    <2>1. /\ y.bundle \in new /\ y.life = node[n].life /\ y.bundle.member = n
          /\ y.bundle.height = node[n].tip.height + 1
      BY <1>5
    <2>2. x.bundle.member = n /\ x.bundle.height = node[n].tip.height + 1
      BY <1>8, <2>1, KeyParts
    <2>3. Remembers(c, x)
      BY <1>0, <2>2
    <2>4. x.life = c.life /\ x.bundle.height > c.tip.height
      BY <1>4, <1>8, <2>1, <2>2
    <2>5. Key(x.bundle) \in c.equivocated \/ Key(x.bundle) \in DOMAIN c.bundles
      BY <2>3, <2>4 DEF Remembers
    <2> QED  BY <1>8, <2>1, <2>5
  <1>9. ASSUME NEW x \in added, NEW y \in added, Key(x.bundle) = Key(y.bundle)
        PROVE  x = y
    <2>1. /\ x.bundle \in new /\ x.life = node[n].life
          /\ x = [bundle |-> x.bundle, life |-> x.life]
          /\ y.bundle \in new /\ y.life = node[n].life
          /\ y = [bundle |-> y.bundle, life |-> y.life]
      BY <1>5
    <2>2. x.bundle = y.bundle
      BY <1>9, <2>1
    <2> QED  BY <2>1, <2>2
  <1>10. \A x, y \in signed' : (Key(x.bundle) = Key(y.bundle) /\ x.life = y.life) => x = y
    BY <1>0, <1>1, <1>8, <1>9 DEF SignsOnce
  <1>11. SignsOnce'
    BY <1>10 DEF SignsOnce, Key
  <1>12. \A x \in signed' :
            /\ SignedOK(x)
            /\ x.life \in 0..node'[x.bundle.member].life
            /\ Remembers(node'[x.bundle.member], x)
    BY <1>0, <1>1, <1>5, <1>6, <1>7
  <1>13. \A m \in sent' : IsBlock(m) => m.height \in Nat
    BY <1>0, <1>1 DEF SentOK
  <1> QED  BY <1>2, <1>3, <1>11, <1>12, <1>13, InvPartsNext

\* A burn is no block.
LEMMA BurnIsSent ==
    ASSUME NEW n, NEW tip, NEW burns, burns \subseteq {QueuedBurn(n, tip)}
    PROVE  SentOK(burns)
  <1>1. ~IsBlock(QueuedBurn(n, tip))
    BY DEF IsBlock, QueuedBurn
  <1> QED  BY <1>1 DEF SentOK

\* A round of the finalizer.
LEMMA AutoFinalizeKeeps ==
    ASSUME BundlesInv, NEW n \in Members, AutoFinalize(n)
    PROVE  BundlesInv'
  <1> DEFINE s == node[n]
  <1>0. Sound(s) /\ s.tip.height \in Nat
    BY InvParts DEF Sound
  <1>1. CASE /\ ~node[n].enabled
             /\ \E published \in {PublishBurnBundle(n, node[n])} :
                   FinalizerStep(n, published.state, published.out, published.new)
    <2> DEFINE p == PublishBurnBundle(n, s)
    <2>1. FinalizerStep(n, p.state, p.out, p.new)
      BY <1>1
    <2> HIDE DEF p
    <2>2. /\ Sound(p.state) /\ \A x : Remembers(s, x) => Remembers(p.state, x)
          /\ p.state.tip = s.tip /\ p.state.life = s.life
          /\ \A m \in p.out : m.height = s.tip.height + 1
          /\ \A b \in p.new :
                /\ b.member = n /\ b.height = s.tip.height + 1
                /\ Key(b) \notin DOMAIN s.bundles /\ Key(b) \notin s.equivocated
                /\ Key(b) \in DOMAIN p.state.bundles /\ p.state.bundles[Key(b)] = b
          /\ \A b, c \in p.new : Key(b) = Key(c) => b = c
      BY <1>0, PublishChange DEF p
    <2>3. \A b \in p.new : Remembers(p.state, [bundle |-> b, life |-> node[n].life])
      BY <2>2 DEF Remembers
    <2>4. SentOK(p.out)
      BY <1>0, <2>2 DEF SentOK
    <2> HIDE DEF s
    <2>5. s = node[n]
      BY DEF s
    <2> QED  BY <2>1, <2>2, <2>3, <2>4, <2>5, SignStep
  <1>2. CASE node[n].enabled
    <2> DEFINE burned == PrepareAutomaticBurn(n, s)
               collection == BurnBundleCollection(n, burned)
               c == collection.state
               p == PublishBurnBundle(n, c)
               w == Prechecked(node[n].tip, PrepareWork(n, p.state))
               t == [p.state EXCEPT !.work = w]
    <2>1. \/ FinalizerStep(n, c, burned.pool \ s.pool, {})
          \/ FinalizerStep(n, t, (burned.pool \ s.pool) \cup p.out, p.new)
      BY <1>2 DEF AutoFinalize
    <2> HIDE DEF burned, w, s
    <2>2. /\ Sound(burned) /\ \A x : Remembers(s, x) => Remembers(burned, x)
          /\ burned.tip = s.tip /\ burned.life = s.life
          /\ burned.pool \ s.pool \subseteq {QueuedBurn(n, s.tip)}
      BY <1>0, BurnChange DEF burned
    <2>3. /\ Sound(c) /\ \A x : Remembers(burned, x) => Remembers(c, x)
          /\ c.tip = burned.tip /\ c.life = burned.life
      BY <2>2, CollectionChange
    <2> HIDE DEF c
    <2>4. /\ Sound(p.state) /\ \A x : Remembers(c, x) => Remembers(p.state, x)
          /\ p.state.tip = c.tip /\ p.state.life = c.life
          /\ \A m \in p.out : m.height = c.tip.height + 1
          /\ \A b \in p.new :
                /\ b.member = n /\ b.height = c.tip.height + 1
                /\ Key(b) \notin DOMAIN c.bundles /\ Key(b) \notin c.equivocated
                /\ Key(b) \in DOMAIN p.state.bundles /\ p.state.bundles[Key(b)] = b
          /\ \A b, d \in p.new : Key(b) = Key(d) => b = d
      BY <2>3, PublishChange
    <2> HIDE DEF p
    <2>5. /\ Sound(t) /\ \A x : Remembers(p.state, x) => Remembers(t, x)
          /\ t.tip = p.state.tip /\ t.life = p.state.life
      BY <2>4, WorkChange
    <2> HIDE DEF t
    <2>6. s = node[n]
      BY DEF s
    <2>7. SentOK(burned.pool \ s.pool)
      BY <2>2, BurnIsSent
    <2>8. SentOK((burned.pool \ s.pool) \cup p.out)
      BY <1>0, <2>2, <2>3, <2>4, <2>7 DEF SentOK
    <2>9. \A b \in p.new : Remembers(t, [bundle |-> b, life |-> node[n].life])
      <3>1. \A b \in p.new : Remembers(p.state, [bundle |-> b, life |-> node[n].life])
        BY <2>4 DEF Remembers
      <3> QED  BY <2>5, <3>1
    <2>10. \A x : Remembers(node[n], x) => Remembers(c, x) /\ Remembers(t, x)
      BY <2>2, <2>3, <2>4, <2>5, <2>6
    <2>11. /\ c.life = node[n].life /\ c.tip = node[n].tip
           /\ t.life = node[n].life /\ t.tip = node[n].tip
      BY <2>2, <2>3, <2>4, <2>5, <2>6
    <2>12. CASE FinalizerStep(n, c, burned.pool \ s.pool, {})
      BY <2>3, <2>7, <2>10, <2>11, <2>12, SignStep
    <2>13. CASE FinalizerStep(n, t, (burned.pool \ s.pool) \cup p.out, p.new)
      BY <2>4, <2>5, <2>8, <2>9, <2>10, <2>11, <2>13, SignStep
    <2> QED  BY <2>1, <2>12, <2>13
  <1> QED  BY <1>1, <1>2 DEF AutoFinalize

\* The state a node moves to with a block.
LEMMA OnTipFields ==
    ASSUME NEW s, IsState(s), NEW block, NEW r, r = OnTip(s, block)
    PROVE  /\ IsState(r) /\ r.tip = TipOf(block) /\ \A b \in r.pool : Queued(r.tip, b)
           /\ r.bundles = s.bundles /\ r.equivocated = s.equivocated /\ r.life = s.life
           /\ r.autoBurn = s.autoBurn /\ r.autoAnchor = s.autoAnchor
  <1> DEFINE pool == {b \in s.pool : b \notin block.body /\ Queued(TipOf(block), b)}
             tip == TipOf(block)
  <1>1. r = [s EXCEPT !.tip = tip, !.pool = pool]
    BY DEF OnTip
  <1>2. \A b \in pool : Queued(tip, b)
    OBVIOUS
  <1> HIDE DEF pool, tip
  <1>3. /\ IsState(r) /\ r.tip = tip /\ r.pool = pool
        /\ r.bundles = s.bundles /\ r.equivocated = s.equivocated /\ r.life = s.life
        /\ r.autoBurn = s.autoBurn /\ r.autoAnchor = s.autoAnchor
    BY <1>1 DEF IsState
  <1> QED  BY <1>2, <1>3 DEF tip

\* A block on the tip, made here or received.
LEMMA BlockChange ==
    ASSUME NEW s, Sound(s), NEW block, block.height = s.tip.height + 1,
           NEW t, \/ t = PruneBurnBundles(ClearStaleAnchor(OnTip(s, block)))
                  \/ t = PruneBurnBundles(ClearStaleCollection(ClearStaleAnchor(OnTip(s, block))))
    PROVE  /\ Sound(t) /\ \A x \in signed : SignedOK(x) /\ Remembers(s, x) => Remembers(t, x)
           /\ t.life = s.life
  <1> DEFINE r == OnTip(s, block)
  <1>1. /\ IsState(r) /\ r.tip = TipOf(block) /\ \A b \in r.pool : Queued(r.tip, b)
        /\ r.bundles = s.bundles /\ r.equivocated = s.equivocated /\ r.life = s.life
        /\ r.autoBurn = s.autoBurn /\ r.autoAnchor = s.autoAnchor
    BY OnTipFields DEF Sound
  <1>2. r.tip.height = s.tip.height + 1
    BY <1>1 DEF TipOf
  <1>3. s.tip.height \in Nat /\ s.autoBurn \in Int /\ s.autoAnchor \in Int
        /\ s.autoBurn <= s.tip.height /\ s.autoAnchor <= s.tip.height
    BY DEF Sound
  <1>4. \/ t = PruneBurnBundles(ClearStaleAnchor(r))
        \/ t = PruneBurnBundles(ClearStaleCollection(ClearStaleAnchor(r)))
    OBVIOUS
  <1> HIDE DEF r
  <1>5. r.tip.height \in Nat /\ r.tip.height >= s.tip.height
    BY <1>2, <1>3
  <1> QED  BY <1>1, <1>3, <1>4, <1>5, MoveChange

\* The node's own block, or its refusal.
LEMMA CompleteKeeps ==
    ASSUME BundlesInv, NEW n \in Members, CompletePreparedBlock(n)
    PROVE  BundlesInv'
  <1>0. Sound(node[n]) /\ SentOK(sent)
    BY InvParts DEF SentOK
  <1>1. PICK block :
          /\ IF Acceptable(node[n].tip, block)
             THEN /\ node' = [node EXCEPT ![n] = PruneBurnBundles(ClearStaleAnchor(
                                  OnTip([node[n] EXCEPT !.work = None], block)))]
                  /\ sent' = sent \cup {block}
             ELSE /\ node' = [node EXCEPT ![n].work = None]
                  /\ UNCHANGED sent
          /\ UNCHANGED <<now, signed, fault>>
    BY DEF CompletePreparedBlock
  <1> DEFINE s == [node[n] EXCEPT !.work = None]
             t == PruneBurnBundles(ClearStaleAnchor(OnTip(s, block)))
  <1>2. /\ Sound(s) /\ \A x : Remembers(node[n], x) => Remembers(s, x)
        /\ s.tip = node[n].tip /\ s.life = node[n].life
    BY <1>0, WorkChange
  <1>3. s.life \in Nat /\ s.tip.height \in Nat
    BY <1>2 DEF Sound
  <1>4. CASE Acceptable(node[n].tip, block)
    <2>0. block.height = node[n].tip.height + 1
      BY <1>4 DEF Acceptable, AcceptableAt
    <2>1. node' = [node EXCEPT ![n] = t] /\ signed' = signed /\ sent' = sent \cup {block}
      BY <1>1, <1>4
    <2> HIDE DEF s
    <2>2. /\ Sound(t) /\ \A x \in signed : SignedOK(x) /\ Remembers(s, x) => Remembers(t, x)
          /\ t.life = s.life
      BY <1>2, <2>0, BlockChange
    <2> HIDE DEF t
    <2>3. SentOK(sent')
      BY <1>0, <1>2, <1>3, <2>0, <2>1 DEF SentOK
    <2> QED  BY <1>2, <1>3, <2>1, <2>2, <2>3, QuietStep
  <1>5. CASE ~Acceptable(node[n].tip, block)
    <2>1. node' = [node EXCEPT ![n] = s] /\ signed' = signed /\ sent' = sent
      BY <1>1, <1>5
    <2> HIDE DEF s
    <2> QED  BY <1>0, <1>2, <1>3, <2>1, QuietStep
  <1> QED  BY <1>4, <1>5

\* A received burn, bundle or block.
LEMMA ReceiveKeeps ==
    ASSUME BundlesInv, NEW n \in Members, NEW m \in sent,
           \/ ReceiveBurn(n, m)
           \/ ReceiveBurnBundle(n, m)
           \/ ReceiveBlock(n, m)
    PROVE  BundlesInv'
  <1>0. Sound(node[n]) /\ SentOK(sent) /\ node[n].life \in Nat
    BY InvParts DEF SentOK, Sound
  <1>1. sent' = sent /\ signed' = signed
    BY DEF ReceiveBurn, ReceiveBurnBundle, ReceiveBlock
  <1>2. CASE ReceiveBurn(n, m)
    <2> DEFINE pool == node[n].pool \cup {m}
               t == [node[n] EXCEPT !.pool = pool]
    <2>1. node' = [node EXCEPT ![n] = t] /\ Queued(node[n].tip, m)
      BY <1>2 DEF ReceiveBurn
    <2>2. \A b \in pool : Queued(node[n].tip, b)
      BY <1>0, <2>1 DEF Sound
    <2> HIDE DEF pool
    <2>3. /\ IsState(t) /\ t.tip = node[n].tip /\ t.bundles = node[n].bundles
          /\ t.equivocated = node[n].equivocated /\ t.life = node[n].life /\ t.pool = pool
          /\ t.anchor = node[n].anchor /\ t.autoBurn = node[n].autoBurn
          /\ t.autoAnchor = node[n].autoAnchor
      BY <1>0 DEF Sound, IsState
    <2> HIDE DEF t
    <2>4. Sound(t) /\ \A x : Remembers(node[n], x) => Remembers(t, x)
      BY <1>0, <2>2, <2>3, BurnsChange DEF Sound
    <2> QED  BY <1>0, <1>1, <2>1, <2>3, <2>4, QuietStep
  <1>3. CASE ReceiveBurnBundle(n, m)
    <2> DEFINE t == ReceivedBundle(node[n], m)
    <2>1. node' = [node EXCEPT ![n] = t] /\ PrecheckNextBlockBurnBundle(node[n].tip, m)
      BY <1>3 DEF ReceiveBurnBundle
    <2>2. /\ Sound(t) /\ \A x : Remembers(node[n], x) => Remembers(t, x)
          /\ t.life = node[n].life
      BY <1>0, <2>1, ReceiveChange
    <2> HIDE DEF t
    <2> QED  BY <1>0, <1>1, <2>1, <2>2, QuietStep
  <1>4. CASE ReceiveBlock(n, m)
    <2> DEFINE t == PruneBurnBundles(ClearStaleCollection(ClearStaleAnchor(OnTip(node[n], m))))
    <2>1. node' = [node EXCEPT ![n] = t] /\ m.height = node[n].tip.height + 1
      BY <1>4 DEF ReceiveBlock, Acceptable, AcceptableAt
    <2>2. /\ Sound(t)
          /\ \A x \in signed : SignedOK(x) /\ Remembers(node[n], x) => Remembers(t, x)
          /\ t.life = node[n].life
      BY <1>0, <2>1, BlockChange
    <2> HIDE DEF t
    <2> QED  BY <1>0, <1>1, <2>1, <2>2, QuietStep
  <1> QED  BY <1>2, <1>3, <1>4

\* Another branch, at least as high.
LEMMA ReorganizeKeeps ==
    ASSUME BundlesInv, NEW n \in Members, NEW m \in sent, IsBlock(m), Reorganize(n, m)
    PROVE  BundlesInv'
  <1> DEFINE s == node[n]
  <1>0. Sound(s) /\ SentOK(sent) /\ m.height \in Nat
    BY InvParts DEF SentOK
  <1>1. PICK local, remote :
          /\ Prefers(m, node[n].tip)
          /\ node' = [node EXCEPT ![n] = PruneBurnBundles(ClearStaleCollection(ClearStaleAnchor(
                ResetAutomaticMiningProgress(OnBranch(node[n], m, local, remote)))))]
          /\ UNCHANGED <<sent, now, signed, fault>>
    BY DEF Reorganize
  <1> DEFINE tip == TipOf(m)
             pool == {b \in (s.pool \cup MinedIn(local)) \ MinedIn(remote) : Queued(tip, b)}
             moved == OnBranch(s, m, local, remote)
             r == ResetAutomaticMiningProgress(moved)
             t == PruneBurnBundles(ClearStaleCollection(ClearStaleAnchor(r)))
  <1>2. /\ node' = [node EXCEPT ![n] = t]
        /\ moved = [s EXCEPT !.tip = tip, !.pool = pool]
    BY <1>1 DEF OnBranch
  <1>3. tip.height = m.height
    BY DEF TipOf
  <1>4. s.tip.height \in Nat /\ tip.height \in Nat /\ tip.height >= s.tip.height
    <2>1. s.tip.height \in Nat
      BY <1>0 DEF Sound
    <2>2. m.height >= s.tip.height
      BY <1>0, <1>1, <2>1 DEF Prefers
    <2> QED  BY <1>0, <1>3, <2>1, <2>2
  <1>5. \A b \in pool : Queued(tip, b)
    OBVIOUS
  <1> HIDE DEF tip, pool, moved
  <1>6. /\ IsState(r) /\ r.tip = tip /\ r.pool = pool
        /\ r.bundles = s.bundles /\ r.equivocated = s.equivocated /\ r.life = s.life
        /\ r.autoBurn = -1 /\ r.autoAnchor = -1
    <2>1. IsState(s)
      BY <1>0 DEF Sound
    <2>2. /\ IsState(moved) /\ moved.tip = tip /\ moved.pool = pool
          /\ moved.bundles = s.bundles /\ moved.equivocated = s.equivocated
          /\ moved.life = s.life
      <3> HIDE DEF s
      <3>1. moved = [tip |-> tip, pool |-> pool, bundles |-> s.bundles,
                     equivocated |-> s.equivocated, started |-> s.started, anchor |-> s.anchor,
                     autoBurn |-> s.autoBurn, autoAnchor |-> s.autoAnchor, work |-> s.work,
                     enabled |-> s.enabled, life |-> s.life]
        BY <1>2, <2>1 DEF IsState
      <3> QED  BY <3>1 DEF IsState
    <2>3. r = [moved EXCEPT !.autoBurn = -1, !.autoAnchor = -1, !.started = None]
      BY DEF ResetAutomaticMiningProgress
    <2> HIDE DEF r
    <2> QED  BY <2>2, <2>3 DEF IsState
  <1> HIDE DEF r
  <1>7. /\ Sound(t) /\ \A x \in signed : SignedOK(x) /\ Remembers(s, x) => Remembers(t, x)
        /\ t.life = s.life
    <2> HIDE DEF s
    <2>1. r.autoBurn \in Int /\ r.autoBurn <= s.tip.height
          /\ r.autoAnchor \in Int /\ r.autoAnchor <= s.tip.height
      BY <1>4, <1>6
    <2> QED  BY <1>0, <1>4, <1>5, <1>6, <2>1, MoveChange
  <1> HIDE DEF t
  <1>8. sent' = sent /\ signed' = signed
    BY <1>1
  <1> QED  BY <1>0, <1>2, <1>7, <1>8, QuietStep

\* Work is given up, or mining is switched off.
LEMMA SwitchOffKeeps ==
    ASSUME BundlesInv, NEW n \in Members, CancelWork(n) \/ DisableMining(n)
    PROVE  BundlesInv'
  <1>0. Sound(node[n]) /\ SentOK(sent)
    BY InvParts DEF SentOK
  <1> DEFINE a == [node[n] EXCEPT !.work = None]
             b == [node[n] EXCEPT !.enabled = FALSE]
  <1>1. PICK t \in {a, b} : node' = [node EXCEPT ![n] = t]
    BY DEF CancelWork, DisableMining
  <1>2. sent' = sent /\ signed' = signed
    BY DEF CancelWork, DisableMining
  <1>3. /\ Sound(t) /\ \A x : Remembers(node[n], x) => Remembers(t, x)
        /\ t.life = node[n].life
    BY <1>0, <1>1, WorkChange
  <1> QED  BY <1>0, <1>1, <1>2, <1>3, QuietStep

\* Mining is switched on, and the node burns at once.
LEMMA SwitchOnKeeps ==
    ASSUME BundlesInv, NEW n \in Members, EnableMining(n)
    PROVE  BundlesInv'
  <1> DEFINE s == node[n]
             on == [s EXCEPT !.enabled = TRUE, !.autoBurn = -1, !.autoAnchor = -1]
             t == PrepareAutomaticBurn(n, on)
  <1>0. Sound(s) /\ SentOK(sent)
    BY InvParts DEF SentOK
  <1>1. /\ node' = [node EXCEPT ![n] = t] /\ sent' = sent \cup (t.pool \ s.pool)
        /\ signed' = signed
    BY DEF EnableMining
  <1>2. /\ IsState(on) /\ on.tip = s.tip /\ on.pool = s.pool /\ on.bundles = s.bundles
        /\ on.equivocated = s.equivocated /\ on.life = s.life /\ on.anchor = s.anchor
        /\ on.autoBurn = -1 /\ on.autoAnchor = -1
    <2>1. IsState(s)
      BY <1>0 DEF Sound
    <2> HIDE DEF s
    <2> DEFINE yes == TRUE
               v == -1
    <2>2. on = [s EXCEPT !.enabled = yes, !.autoBurn = v, !.autoAnchor = v]
      BY Zenon
    <2> HIDE DEF yes, v, on
    <2>3. /\ IsState(on) /\ on.tip = s.tip /\ on.pool = s.pool /\ on.bundles = s.bundles
          /\ on.equivocated = s.equivocated /\ on.life = s.life /\ on.anchor = s.anchor
          /\ on.autoBurn = v /\ on.autoAnchor = v
      BY <2>1, <2>2 DEF IsState
    <2> QED  BY <2>3 DEF v
  <1> HIDE DEF on
  <1>3. Sound(on) /\ \A x : Remembers(s, x) => Remembers(on, x)
    <2> HIDE DEF s
    <2>1. /\ s.tip.height \in Nat /\ \A b \in s.pool : Queued(s.tip, b)
          /\ s.anchor # None => s.anchor[1] = s.tip.height
      BY <1>0 DEF Sound
    <2>2. -1 \in Int /\ -1 <= s.tip.height
      BY <2>1
    <2> QED  BY <1>0, <1>2, <2>1, <2>2, BurnsChange
  <1>4. /\ Sound(t) /\ \A x : Remembers(on, x) => Remembers(t, x)
        /\ t.life = on.life
        /\ t.pool \ on.pool \subseteq {QueuedBurn(n, on.tip)}
    BY <1>3, BurnChange
  <1> HIDE DEF t
  <1>5. SentOK(t.pool \ s.pool)
    BY <1>2, <1>4, BurnIsSent
  <1>6. SentOK(sent')
    BY <1>0, <1>1, <1>5 DEF SentOK
  <1>7. /\ \A x : Remembers(node[n], x) => Remembers(t, x)
        /\ t.life = node[n].life
    BY <1>2, <1>3, <1>4
  <1> QED  BY <1>1, <1>4, <1>6, <1>7, QuietStep

\* A restart begins another life.
LEMMA RestartKeeps ==
    ASSUME BundlesInv, NEW n \in Members, Restart(n)
    PROVE  BundlesInv'
  <1> DEFINE s == node[n]
             t == [Fresh(s.tip) EXCEPT !.pool = s.pool, !.enabled = s.enabled, !.life = 1]
  <1>0. Sound(s) /\ SentOK(sent)
    BY InvParts DEF SentOK
  <1>1. node' = [node EXCEPT ![n] = t] /\ s.life = 0 /\ sent' = sent /\ signed' = signed
    BY DEF Restart
  <1>2. /\ IsState(t) /\ t.tip = s.tip /\ t.pool = s.pool /\ t.bundles = << >>
        /\ t.equivocated = {} /\ t.life = 1 /\ t.anchor = None
        /\ t.autoBurn = -1 /\ t.autoAnchor = -1
    <2> HIDE DEF s
    <2> DEFINE f == Fresh(s.tip)
               yes == TRUE
               v == -1
               empty == {}
               pool == s.pool
               enabled == s.enabled
               one == 1
    <2>1. f = [tip |-> s.tip, pool |-> empty, bundles |-> None, equivocated |-> empty,
               started |-> None, anchor |-> None, autoBurn |-> v, autoAnchor |-> v,
               work |-> None, enabled |-> yes, life |-> 0]
      BY Zenon DEF Fresh, None
    <2>2. t = [f EXCEPT !.pool = pool, !.enabled = enabled, !.life = one]
      BY Zenon
    <2>3. None = << >>
      BY DEF None
    <2> HIDE DEF f, t, yes, v, empty, pool, enabled, one
    <2>4. /\ IsState(t) /\ t.tip = s.tip /\ t.pool = pool /\ t.bundles = None
          /\ t.equivocated = empty /\ t.life = one /\ t.anchor = None
          /\ t.autoBurn = v /\ t.autoAnchor = v
      BY <2>1, <2>2 DEF IsState
    <2> QED  BY <2>3, <2>4 DEF empty, pool, one, v
  <1> HIDE DEF t
  <1>3. Sound(t)
    <2> HIDE DEF s
    <2>1. s.tip.height \in Nat /\ \A b \in s.pool : Queued(s.tip, b)
      BY <1>0 DEF Sound
    <2>2. DOMAIN << >> = {}
      OBVIOUS
    <2> QED  BY <1>2, <2>1, <2>2 DEF Sound
  <1>4. ASSUME NEW x \in signed, SignedOK(x) /\ x.bundle.member = n /\ x.life <= node[n].life
        PROVE  Remembers(t, x)
    <2>1. x.life \in Int /\ x.life # 1
      <3>1. x.life \in 0..node[n].life
        BY <1>4, InvParts
      <3> QED  BY <1>1, <3>1
    <2> QED  BY <1>2, <2>1 DEF Remembers
  <1>5. t.life >= node[n].life
    BY <1>1, <1>2
  <1> QED  BY <1>0, <1>1, <1>3, <1>4, <1>5, NodeStep

\* Every step keeps the invariant.
LEMMA BundlesStep == BundlesInv /\ [FinalNext]_finalVars => BundlesInv'
  <1> SUFFICES ASSUME BundlesInv, [FinalNext]_finalVars PROVE BundlesInv'
    OBVIOUS
  <1>1. CASE UNCHANGED <<node, sent, signed>>
    <2>1. SignsOnce' <=> SignsOnce
      BY <1>1 DEF SignsOnce, Key
    <2> QED  BY <1>1, <2>1, InvParts, InvPartsNext
  <1>2. CASE Tick \/ UNCHANGED finalVars
    BY <1>1, <1>2 DEF Tick, finalVars
  <1>3. ASSUME NEW n \in Members, Receive(n) PROVE BundlesInv'
    <2>1. PICK m \in sent :
            \/ ReceiveBurn(n, m) \/ ReceiveBurnBundle(n, m) \/ ReceiveBlock(n, m)
            \/ IsBlock(m) /\ Reorganize(n, m)
      BY <1>3 DEF Receive
    <2> QED  BY <2>1, ReceiveKeeps, ReorganizeKeeps
  <1>4. ASSUME NEW n \in Members,
               \/ AutoFinalize(n) \/ CompletePreparedBlock(n) \/ CancelWork(n)
               \/ DisableMining(n) \/ EnableMining(n) \/ Restart(n)
        PROVE  BundlesInv'
    BY <1>4, AutoFinalizeKeeps, CompleteKeeps, SwitchOffKeeps, SwitchOnKeeps, RestartKeeps
  <1> QED  BY <1>2, <1>3, <1>4 DEF FinalNext

\* The first nodes remember nothing.
LEMMA BundlesInit == FinalInit => BundlesInv
  <1> SUFFICES ASSUME FinalInit PROVE BundlesInv
    OBVIOUS
  <1>1. node = [n \in Members |-> [Fresh(GenesisTip) EXCEPT !.enabled = n \in Finalizers]]
        /\ sent = {} /\ signed = {}
    BY DEF FinalInit
  <1>2. ASSUME NEW n \in Members PROVE Sound(node[n])
    <2> DEFINE e == n \in Finalizers
               s == [Fresh(GenesisTip) EXCEPT !.enabled = e]
    <2>1. node[n] = s
      BY <1>1
    <2> HIDE DEF e
    <2>2. /\ IsState(s) /\ s.tip = GenesisTip /\ s.pool = {} /\ s.bundles = << >>
          /\ s.equivocated = {} /\ s.life = 0 /\ s.anchor = None
          /\ s.autoBurn = -1 /\ s.autoAnchor = -1
      <3> DEFINE f == Fresh(GenesisTip)
                 yes == TRUE
                 v == -1
                 empty == {}
      <3>1. f = [tip |-> GenesisTip, pool |-> empty, bundles |-> None, equivocated |-> empty,
                 started |-> None, anchor |-> None, autoBurn |-> v, autoAnchor |-> v,
                 work |-> None, enabled |-> yes, life |-> 0]
        BY Zenon DEF Fresh, None
      <3>2. s = [f EXCEPT !.enabled = e]
        BY Zenon
      <3>3. None = << >>
        BY DEF None
      <3> HIDE DEF f, s, yes, v, empty
      <3>4. /\ IsState(s) /\ s.tip = GenesisTip /\ s.pool = empty /\ s.bundles = None
            /\ s.equivocated = empty /\ s.life = 0 /\ s.anchor = None
            /\ s.autoBurn = v /\ s.autoAnchor = v
        BY <3>1, <3>2 DEF IsState
      <3> QED  BY <3>3, <3>4 DEF empty, v
    <2> HIDE DEF s
    <2>3. GenesisTip.height = 0 /\ DOMAIN << >> = {}
      BY DEF GenesisTip
    <2>4. Sound(s)
      BY <2>2, <2>3 DEF Sound
    <2> QED  BY <2>1, <2>4
  <1>3. node = [n \in Members |-> node[n]]
    BY <1>1
  <1>4. SignsOnce
    BY <1>1 DEF SignsOnce
  <1> QED  BY <1>1, <1>2, <1>3, <1>4, InvParts

-----------------------------------------------------------------------------
(* Theorems.                                                               *)

\* What a node remembers of a height is about that height, a member signs one bundle for
\* its slot and height between two starts, on whichever branch, and no bundle is kept for
\* a slot that was equivocated: for every committee, every timing, every order of burns,
\* bundles, blocks and reorganizations (receive_burn_bundle, prune_burn_bundles,
\* publish_burn_bundle_for_next_block).
THEOREM BundlesSoundHolds == FinalSpec => []BundlesSound
  <1>1. BundlesInv => BundlesSound
    BY DEF BundlesInv
  <1> QED  BY <1>1, BundlesInit, BundlesStep, PTL DEF FinalSpec
=============================================================================
