---------------------------- MODULE CatchUpProofs ----------------------------
(***************************************************************************)
(* Proofs about CatchUp for any block tree, tie-break, peers, page length  *)
(* and number of validation permits.                                       *)
(***************************************************************************)
EXTENDS CatchUp, FiniteSetTheorems, WellFoundedInduction, TLAPS

-----------------------------------------------------------------------------
(* The block tree.                                                         *)

\* A nonempty set of numbers has a lowest element.
LEMMA LowestNumber ==
    ASSUME NEW S, S \subseteq Nat, S # {}
    PROVE  \E m \in S : \A k \in S : m <= k
  <1> DEFINE R == {ss \in Nat \X Nat : ss[1] < ss[2]}
  <1>1. IsWellFoundedOn(R, Nat)
    BY NatLessThanWellFounded DEF OpToRel
  <1>2. PICK m \in S : \A k \in S : ~(<<k, m>> \in R)
    <2> HIDE DEF R
    <2> QED
      BY <1>1, WFMin
  <1>3. \A k \in S : ~(k < m)
    BY <1>2
  <1> QED
    BY <1>3

\* A property of blocks that holds of a block whenever it holds of its parent
\* holds of every block. The property is given as the set it holds on.
LEMMA TreeInduction ==
    ASSUME NEW S,
           \A b \in Block : (b \in DOMAIN Parent => Parent[b] \in S) => b \in S
    PROVE  Block \subseteq S
  <1> DEFINE Bad == {Height[b] : b \in Block \ S}
  <1>1. Bad \subseteq Nat
    BY RecursionAssumption
  <1>2. SUFFICES ASSUME Bad # {} PROVE FALSE
    OBVIOUS
  <1>3. PICK m \in Bad : \A k \in Bad : m <= k
    <2> HIDE DEF Bad
    <2> QED
      BY <1>1, <1>2, LowestNumber
  <1>4. PICK b \in Block \ S : m = Height[b]
    BY <1>3
  <1>5. b \in DOMAIN Parent /\ Parent[b] \notin S
    BY <1>4
  <1>6. Parent[b] \in Block /\ Height[b] = Height[Parent[b]] + 1 /\ Height[Parent[b]] \in Nat
    BY <1>4, <1>5, TreeAssumption, RecursionAssumption
  <1>7. Height[Parent[b]] \in Bad
    BY <1>5, <1>6
  <1>8. m <= Height[Parent[b]]
    BY <1>3, <1>7
  <1> QED
    BY <1>4, <1>6, <1>8

\* The recursions, block by block.
LEMMA HeightDef ==
    ASSUME NEW b \in Block
    PROVE  /\ Height[b] \in Nat
           /\ b \in DOMAIN Parent => Parent[b] \in Block /\ Height[b] = Height[Parent[b]] + 1
           /\ b \notin DOMAIN Parent => Height[b] = 0
  BY TreeAssumption, RecursionAssumption

LEMMA ChainDef ==
    ASSUME NEW b \in Block
    PROVE  /\ b \in DOMAIN Parent => Chain[b] = {b} \cup Chain[Parent[b]]
           /\ b \notin DOMAIN Parent => Chain[b] = {b}
           /\ b \in Chain[b]
  BY TreeAssumption, RecursionAssumption

\* A chain holds blocks, the placeholder only in its own, and its tip is its
\* highest block.
LEMMA ChainMembers ==
    ASSUME NEW b \in Block
    PROVE  /\ Chain[b] \subseteq Block
           /\ b # Setup => Setup \notin Chain[b]
           /\ \A a \in Chain[b] : a # b => Height[a] < Height[b]
  <1> DEFINE Ok(c) == /\ Chain[c] \subseteq Block
                      /\ c # Setup => Setup \notin Chain[c]
                      /\ \A a \in Chain[c] : a # c => Height[a] < Height[c]
             S == {c \in Block : Ok(c)}
  <1>1. ASSUME NEW c \in Block, c \in DOMAIN Parent => Parent[c] \in S
        PROVE  c \in S
    <2>1. CASE c \in DOMAIN Parent
      <3>1. Ok(Parent[c]) /\ Parent[c] # Setup /\ Parent[c] \in Block
        BY <1>1, <2>1, TreeAssumption
      <3>2. Chain[c] = {c} \cup Chain[Parent[c]] /\ Height[c] = Height[Parent[c]] + 1
            /\ Height[Parent[c]] \in Nat
        BY <2>1, <3>1, ChainDef, HeightDef
      <3>3. \A a \in Chain[c] : a # c => Height[a] < Height[c]
        <4> TAKE a \in Chain[c]
        <4> HAVE a # c
        <4>1. a \in Chain[Parent[c]] /\ Height[a] \in Nat
          BY <3>1, <3>2, HeightDef
        <4> QED
          BY <3>1, <3>2, <4>1
      <3>4. c # Setup
        BY <2>1, TreeAssumption
      <3> QED
        BY <3>1, <3>2, <3>3, <3>4
    <2>2. CASE c \notin DOMAIN Parent
      BY <2>2, ChainDef
    <2> QED
      BY <2>1, <2>2
  <1>2. Block \subseteq S
    <2> HIDE DEF S
    <2> QED
      BY <1>1, TreeInduction
  <1> QED
    BY <1>2

\* A chain has a block at each height up to its tip's.
LEMMA AncestorAt ==
    ASSUME NEW b \in Block, NEW h \in 0 .. Height[b]
    PROVE  AtHeight(b, h) \in Chain[b] /\ Height[AtHeight(b, h)] = h
  <1> DEFINE Ok(c) == \A k \in 0 .. Height[c] : \E a \in Chain[c] : Height[a] = k
             S == {c \in Block : Ok(c)}
  <1>1. ASSUME NEW c \in Block, c \in DOMAIN Parent => Parent[c] \in S
        PROVE  c \in S
    <2>1. CASE c \in DOMAIN Parent
      <3>1. Ok(Parent[c]) /\ Parent[c] \in Block
        BY <1>1, <2>1
      <3>2. Chain[c] = {c} \cup Chain[Parent[c]] /\ Height[c] = Height[Parent[c]] + 1
            /\ Height[Parent[c]] \in Nat
        BY <2>1, <3>1, ChainDef, HeightDef
      <3>3. ASSUME NEW k \in 0 .. Height[c]
            PROVE  \E a \in Chain[c] : Height[a] = k
        <4>1. CASE k = Height[c]
          BY <3>2, <4>1
        <4>2. CASE k # Height[c]
          <5>1. k \in 0 .. Height[Parent[c]]
            BY <3>2, <4>2
          <5> QED
            BY <3>1, <3>2, <5>1
        <4> QED
          BY <4>1, <4>2
      <3> QED
        BY <3>3
    <2>2. CASE c \notin DOMAIN Parent
      BY <2>2, ChainDef, HeightDef
    <2> QED
      BY <2>1, <2>2
  <1>2. Block \subseteq S
    <2> HIDE DEF S
    <2> QED
      BY <1>1, TreeInduction
  <1>3. \E a \in Chain[b] : Height[a] = h
    BY <1>2
  <1> QED
    BY <1>3 DEF AtHeight

\* Of two blocks of a chain the lower one is an ancestor of the other.
LEMMA ChainIsLine ==
    ASSUME NEW b \in Block, NEW a \in Chain[b], NEW c \in Chain[b], Height[a] <= Height[c]
    PROVE  a \in Chain[c]
  <1> DEFINE Ok(d) == \A x, y \in Chain[d] : Height[x] <= Height[y] => x \in Chain[y]
             S == {d \in Block : Ok(d)}
  <1>1. ASSUME NEW d \in Block, d \in DOMAIN Parent => Parent[d] \in S
        PROVE  d \in S
    <2>1. CASE d \in DOMAIN Parent
      <3>1. Ok(Parent[d]) /\ Parent[d] \in Block
        BY <1>1, <2>1
      <3>2. Chain[d] = {d} \cup Chain[Parent[d]]
        BY <2>1, <3>1, ChainDef
      <3>3. ASSUME NEW x \in Chain[d], NEW y \in Chain[d], Height[x] <= Height[y]
            PROVE  x \in Chain[y]
        <4>1. CASE y = d
          BY <4>1
        <4>2. CASE y # d
          <5>1. Height[y] < Height[d] /\ y \in Block /\ x \in Block
            BY <4>2, ChainMembers
          <5>2. x # d
            BY <3>3, <5>1, HeightDef
          <5>3. x \in Chain[Parent[d]] /\ y \in Chain[Parent[d]]
            BY <3>2, <4>2, <5>2
          <5> QED
            BY <3>1, <3>3, <5>3
        <4> QED
          BY <4>1, <4>2
      <3> QED
        BY <3>3
    <2>2. CASE d \notin DOMAIN Parent
      BY <2>2, ChainDef
    <2> QED
      BY <2>1, <2>2
  <1>2. Block \subseteq S
    <2> HIDE DEF S
    <2> QED
      BY <1>1, TreeInduction
  <1> QED
    BY <1>2

\* A chain is as long as its tip is high.
LEMMA ChainSize ==
    ASSUME NEW b \in Block
    PROVE  IsFiniteSet(Chain[b]) /\ Cardinality(Chain[b]) = Height[b] + 1
  <1> DEFINE Ok(c) == IsFiniteSet(Chain[c]) /\ Cardinality(Chain[c]) = Height[c] + 1
             S == {c \in Block : Ok(c)}
  <1>1. ASSUME NEW c \in Block, c \in DOMAIN Parent => Parent[c] \in S
        PROVE  c \in S
    <2>1. CASE c \in DOMAIN Parent
      <3>1. Ok(Parent[c]) /\ Parent[c] \in Block
        BY <1>1, <2>1
      <3>2. Chain[c] = Chain[Parent[c]] \cup {c} /\ Height[c] = Height[Parent[c]] + 1
            /\ Height[Parent[c]] \in Nat
        BY <2>1, <3>1, ChainDef, HeightDef
      <3>3. c \notin Chain[Parent[c]]
        <4> SUFFICES ASSUME c \in Chain[Parent[c]] PROVE FALSE
          OBVIOUS
        <4>1. c = Parent[c] \/ Height[c] < Height[Parent[c]]
          BY <3>1, ChainMembers
        <4> QED
          BY <3>2, <4>1
      <3>4. /\ IsFiniteSet(Chain[Parent[c]] \cup {c})
            /\ Cardinality(Chain[Parent[c]] \cup {c}) = Cardinality(Chain[Parent[c]]) + 1
        <4>1. IsFiniteSet(Chain[Parent[c]])
          BY <3>1
        <4> QED
          BY <3>3, <4>1, FS_AddElement, Zenon
      <3> QED
        BY <3>1, <3>2, <3>4
    <2>2. CASE c \notin DOMAIN Parent
      <3>1. Chain[c] = {c} /\ Height[c] = 0
        BY <2>2, ChainDef, HeightDef
      <3>2. IsFiniteSet({c}) /\ Cardinality({c}) = 1
        BY FS_Singleton, Zenon
      <3> QED
        BY <3>1, <3>2
    <2> QED
      BY <2>1, <2>2
  <1>2. Block \subseteq S
    <2> HIDE DEF S
    <2> QED
      BY <1>1, TreeInduction
  <1> QED
    BY <1>2

-----------------------------------------------------------------------------
(* Messages and requests.                                                  *)

LEMMA PageType ==
    ASSUME NEW from \in Block \ {Setup}, NEW to \in Block, from \in Chain[to]
    PROVE  Page(from, to) \in Message
  <1>1. Page(from, to) \in [kind : {"blocks"}, after : Block \ {Setup}, last : Block]
    BY DEF Page
  <1>2. Page(from, to).after = from /\ Page(from, to).last = to
    BY DEF Page
  <1> QED
    BY <1>1, <1>2 DEF Message

\* An answer starts at an ancestor of its last block.
LEMMA BlocksFromType ==
    ASSUME NEW b \in Block \ {Setup}, NEW h \in Nat \ {0}
    PROVE  BlocksFrom(b, h) \in Message
  <1>1. Genesis \in Block \ {Setup} /\ Genesis \in Chain[Genesis]
    BY TreeAssumption, ChainDef DEF Block
  <1>2. CASE h > Height[b]
    BY <1>1, <1>2, PageType DEF BlocksFrom, EmptyPage
  <1>3. CASE ~(h > Height[b])
    <2> DEFINE top == IF h + PageLimit - 1 < Height[b] THEN h + PageLimit - 1 ELSE Height[b]
               from == AtHeight(b, h - 1)
               to == AtHeight(b, top)
    <2>1. h - 1 \in 0 .. Height[b] /\ top \in 0 .. Height[b] /\ h - 1 <= top
      BY <1>3, HeightDef, TreeAssumption
    <2>2. from \in Chain[b] /\ Height[from] = h - 1 /\ to \in Chain[b] /\ Height[to] = top
      <3> HIDE DEF top
      <3> QED
        BY <2>1, AncestorAt
    <2>3. from \in Chain[to]
      <3> HIDE DEF top, from, to
      <3> QED
        BY <2>1, <2>2, ChainIsLine
    <2>4. from \in Block \ {Setup} /\ to \in Block
      <3> HIDE DEF top, from, to
      <3> QED
        BY <2>2, ChainMembers
    <2>5. Page(from, to) \in Message
      <3> HIDE DEF top, from, to
      <3> QED
        BY <2>3, <2>4, PageType
    <2> QED
      BY <1>3, <2>5 DEF BlocksFrom
  <1> QED
    BY <1>2, <1>3

LEMMA LocatorAnswerType ==
    ASSUME NEW b \in Block \ {Setup}, NEW locator \in Block
    PROVE  BlocksAfterLocator(b, locator) \in Message
  <1> DEFINE common == Chain[b] \cap Chain[locator]
  <1>1. Genesis \in Block \ {Setup} /\ Genesis \in Chain[Genesis]
    BY TreeAssumption, ChainDef DEF Block
  <1>2. CASE common = {}
    BY <1>1, <1>2, PageType DEF BlocksAfterLocator, EmptyPage
  <1>3. CASE common # {}
    <2>1. IsFiniteSet(Chain[b])
      BY ChainSize
    <2>2. IsFiniteSet(common)
      BY <2>1, FS_Intersection, Zenon
    <2>3. Cardinality(common) \in Nat /\ Cardinality(common) # 0
      <3> HIDE DEF common
      <3>1. Cardinality(common) \in Nat
        BY <2>2, FS_CardinalityType, Zenon
      <3>2. Cardinality(common) # 0
        BY <1>3, <2>2, FS_EmptySet, Zenon
      <3> QED
        BY <3>1, <3>2
    <2>4. BlocksFrom(b, Cardinality(common)) \in Message
      <3> HIDE DEF common
      <3> QED
        BY <2>3, BlocksFromType
    <2> QED
      BY <1>3, <2>4 DEF BlocksAfterLocator
  <1> QED
    BY <1>2, <1>3

LEMMA AnswerType ==
    ASSUME NEW b \in Block \ {Setup}, NEW request \in Request
    PROVE  Answer(b, request) \in Seq(Message)
  <1>1. CASE request \in [kind : {"boot"}]
    <2>1. Answer(b, request) = <<[kind |-> "bootstrap"]>>
      BY <1>1 DEF Answer
    <2>2. [kind |-> "bootstrap"] \in Message
      BY DEF Message
    <2> QED
      BY <2>1, <2>2
  <1>2. CASE request \in [kind : {"range"}, from : Nat \ {0}]
    <2>1. Answer(b, request) = <<BlocksFrom(b, request.from)>>
      BY <1>2 DEF Answer
    <2>2. BlocksFrom(b, request.from) \in Message
      BY <1>2, BlocksFromType
    <2> QED
      BY <2>1, <2>2
  <1>3. CASE request \in [kind : {"locator"}, tip : Block]
    <2>1. Answer(b, request) = <<BlocksAfterLocator(b, request.tip)>>
      BY <1>3 DEF Answer
    <2>2. BlocksAfterLocator(b, request.tip) \in Message
      BY <1>3, LocatorAnswerType
    <2> QED
      BY <2>1, <2>2
  <1>4. CASE request \in [kind : {"get"}, block : DOMAIN Parent]
    <2>1. Answer(b, request) = IF request.block \in Chain[b]
                               THEN <<Page(Parent[request.block], request.block)>> ELSE << >>
      BY <1>4 DEF Answer
    <2>2. request.block \in DOMAIN Parent /\ request.block \in Block
      BY <1>4 DEF Block
    <2>3. Parent[request.block] \in Block \ {Setup}
      BY <2>2, TreeAssumption
    <2>4. Parent[request.block] \in Chain[request.block]
      BY <2>2, <2>3, ChainDef
    <2>5. Page(Parent[request.block], request.block) \in Message
      BY <2>2, <2>3, <2>4, PageType
    <2> QED
      BY <2>1, <2>5
  <1> QED
    BY <1>1, <1>2, <1>3, <1>4 DEF Request

LEMMA WantedType ==
    ASSUME NEW status \in [tip : Block \ {Setup}, boot : BOOLEAN], NEW mine \in Block
    PROVE  Wanted(status, mine) \in Seq(Request)
  <1>1. /\ [kind |-> "boot"] \in Request
        /\ [kind |-> "range", from |-> Height[mine] + 1] \in Request
        /\ [kind |-> "locator", tip |-> mine] \in Request
    BY HeightDef DEF Request
  <1> QED
    BY <1>1 DEF Wanted

LEMMA MissingInventoryType ==
    ASSUME NEW b \in DOMAIN Parent, NEW mine \in Block
    PROVE  MissingInventory(b, mine) \in Seq(Request)
  <1>1. /\ [kind |-> "range", from |-> Height[mine] + 1] \in Request
        /\ [kind |-> "get", block |-> b] \in Request
    BY HeightDef DEF Request
  <1> QED
    BY <1>1 DEF MissingInventory

-----------------------------------------------------------------------------
(* Sessions.                                                               *)

\* Asking touches the wire and the mark of the request alone.
LEMMA SendType ==
    ASSUME NEW s \in Connected, NEW request \in Seq(Request)
    PROVE  /\ Send(s, request) \in Connected
           /\ Send(s, request).work = s.work
  <1>1. s.wire \in Seq(Request)
    BY DEF Connected
  <1>2. s.wire \o request \in Seq(Request)
    BY <1>1
  <1> QED
    BY <1>2 DEF Send, Connected

LEMMA AskType ==
    ASSUME NEW s \in Connected, NEW request \in Seq(Request)
    PROVE  /\ Ask(s, request) \in Connected
           /\ Ask(s, request).work = s.work
  <1> DEFINE t == Send(s, request)
  <1>1. t \in Connected /\ t.work = s.work
    BY SendType
  <1>2. [t EXCEPT !.asked = "yes"] \in Connected /\ [t EXCEPT !.asked = "yes"].work = s.work
    <2> HIDE DEF t
    <2> QED
      BY <1>1 DEF Connected
  <1> QED
    BY <1>2 DEF Ask

LEMMA StartCatchupType ==
    ASSUME NEW s \in Connected, NEW mine \in Block
    PROVE  /\ StartCatchup(s, mine) \in Connected
           /\ StartCatchup(s, mine).work = s.work
  <1>1. Wanted(s.status, mine) \in Seq(Request)
    BY WantedType DEF Connected
  <1> QED
    BY <1>1, AskType DEF StartCatchup

HoldsClaim(s) == s.up /\ s.work.stage \in {"held", "validate", "apply"}
IsSound(s) == s.up /\ s.work.stage # "idle" => WorkIsSound(s.work)

LEMMA UpSession ==
    ASSUME CatchUpTypeInv, NEW p \in Peers, session[p].up
    PROVE  session[p] \in Connected /\ peerTip[p] \in Block \ {Setup}
  BY DEF CatchUpTypeInv, Down

LEMMA HoldersDef ==
    ASSUME NEW p
    PROVE  p \in Holders <=> p \in Peers /\ HoldsClaim(session[p])
  BY DEF Holders, Working, HoldsClaim

\* Every claim is counted once.
LEMMA HoldersCounted ==
    ASSUME ClaimInv
    PROVE  /\ IsFiniteSet(active)
           /\ Cardinality(active) = Cardinality(Holders)
  <1> DEFINE f == [p \in Holders |-> ValidationKey(session[p].work)]
  <1>1. IsFiniteSet(Holders)
    <2>1. Holders \in SUBSET Peers
      BY DEF Holders
    <2> QED
      BY <2>1, StartsAssumption, FS_Subset, Zenon
  <1>2. f \in Surjection(Holders, active)
    BY DEF ClaimInv, Surjection
  <1>3. f \in Injection(Holders, active)
    BY DEF ClaimInv, Injection, IsInjective
  <1> HIDE DEF f
  <1> QED
    BY <1>1, <1>2, <1>3, FS_Surjection, Zenon

\* The step of a session that neither takes nor gives back a claim.
LEMMA ClaimsKept ==
    ASSUME CatchUpTypeInv, ClaimInv, NEW p \in Peers, NEW s,
           session' = [session EXCEPT ![p] = s], active' = active,
           HoldsClaim(s) <=> HoldsClaim(session[p]),
           HoldsClaim(s) => ValidationKey(s.work) = ValidationKey(session[p].work)
    PROVE  ClaimInv'
  <1>1. session'[p] = s /\ \A q \in Peers \ {p} : session'[q] = session[q]
    BY DEF CatchUpTypeInv
  <1>2. Holders' = Holders
    BY <1>1 DEF Holders, Working, HoldsClaim
  <1>3. \A q \in Holders : ValidationKey(session'[q].work) = ValidationKey(session[q].work)
    BY <1>1, HoldersDef DEF Holders
  <1>4. ClaimInv' = (/\ active = {ValidationKey(session'[q].work) : q \in Holders}
                     /\ \A q, r \in Holders :
                           ValidationKey(session'[q].work) = ValidationKey(session'[r].work)
                              => q = r
                     /\ Cardinality(active) <= MaxValidations)
    BY <1>2 DEF ClaimInv, ValidationKey
  <1> QED
    BY <1>3, <1>4 DEF ClaimInv

\* The step that gives a claim back.
LEMMA ClaimReleased ==
    ASSUME CatchUpTypeInv, ClaimInv, NEW p \in Peers, NEW s,
           session' = [session EXCEPT ![p] = s],
           HoldsClaim(session[p]), ~HoldsClaim(s),
           active' = active \ {ValidationKey(session[p].work)}
    PROVE  ClaimInv'
  <1>1. session'[p] = s /\ \A q \in Peers \ {p} : session'[q] = session[q]
    BY DEF CatchUpTypeInv
  <1>2. p \in Holders /\ Holders' = Holders \ {p}
    BY <1>1 DEF Holders, Working, HoldsClaim
  <1>3. \A q \in Holders' : session'[q] = session[q]
    BY <1>1, <1>2 DEF Holders
  <1>4. active' = {ValidationKey(session[q].work) : q \in Holders \ {p}}
    BY <1>2 DEF ClaimInv
  <1>5. Cardinality(active') <= MaxValidations
    <2>1. IsFiniteSet(active)
      BY HoldersCounted
    <2>2. active' \in SUBSET active
      OBVIOUS
    <2>3. Cardinality(active') <= Cardinality(active) /\ Cardinality(active) \in Nat
          /\ Cardinality(active') \in Nat
      BY <2>1, <2>2, FS_Subset, FS_CardinalityType, Zenon
    <2> QED
      BY <2>3, TreeAssumption DEF ClaimInv
  <1>6. ClaimInv' = (/\ active' = {ValidationKey(session'[q].work) : q \in Holders'}
                     /\ \A q, r \in Holders' :
                           ValidationKey(session'[q].work) = ValidationKey(session'[r].work)
                              => q = r
                     /\ Cardinality(active') <= MaxValidations)
    BY DEF ClaimInv, ValidationKey
  <1>7. active' = {ValidationKey(session'[q].work) : q \in Holders'}
    BY <1>2, <1>3, <1>4
  <1>8. \A q, r \in Holders' :
           ValidationKey(session'[q].work) = ValidationKey(session'[r].work) => q = r
    BY <1>2, <1>3 DEF ClaimInv
  <1> QED
    BY <1>5, <1>6, <1>7, <1>8

\* Nothing about claims changes when no session and no claim does.
LEMMA ClaimsUntouched ==
    ASSUME ClaimInv, active' = active,
           \A p \in Peers : session'[p].up = session[p].up
                            /\ (session[p].up => session'[p].work = session[p].work)
    PROVE  ClaimInv'
  <1>1. Holders' = Holders
    BY DEF Holders, Working
  <1>2. \A q \in Holders : session'[q].work = session[q].work
    BY DEF Holders, Working
  <1>3. ClaimInv' = (/\ active = {ValidationKey(session'[q].work) : q \in Holders}
                     /\ \A q, r \in Holders :
                           ValidationKey(session'[q].work) = ValidationKey(session'[r].work)
                              => q = r
                     /\ Cardinality(active) <= MaxValidations)
    BY <1>1 DEF ClaimInv, ValidationKey
  <1> QED
    BY <1>2, <1>3 DEF ClaimInv

\* The step of one session.
LEMMA SessionStepKeeps ==
    ASSUME CatchUpInv, NEW p \in Peers, NEW s \in {Down} \cup Connected,
           session' = [session EXCEPT ![p] = s], IsSound(s), ClaimInv',
           tip' \in Block, gen' = gen, incidents' \in Nat,
           resetting' = resetting, pruned' = pruned, hydrated' \in BOOLEAN,
           peerTip' \in [Peers -> Block],
           \A q \in Peers : peerTip'[q] # Setup \/ peerTip'[q] = peerTip[q],
           s.up => peerTip'[p] # Setup
    PROVE  CatchUpInv'
  <1>1. session \in [Peers -> {Down} \cup Connected]
    BY DEF CatchUpInv, CatchUpTypeInv
  <1>2. session' \in [Peers -> {Down} \cup Connected]
        /\ session'[p] = s /\ \A q \in Peers \ {p} : session'[q] = session[q]
    BY <1>1
  <1>3. CatchUpTypeInv'
    BY <1>2 DEF CatchUpInv, CatchUpTypeInv
  <1>4. WorkInv'
    <2> SUFFICES ASSUME NEW q \in Peers, Working(q)'
                 PROVE  WorkIsSound(session'[q].work)
      BY DEF WorkInv, WorkIsSound, Extends, Blocks, NotWorse, Better
    <2>1. CASE q = p
      BY <1>2, <2>1 DEF IsSound, Working
    <2>2. CASE q # p
      BY <1>2, <2>2 DEF CatchUpInv, WorkInv, Working
    <2> QED
      BY <2>1, <2>2
  <1> QED
    BY <1>3, <1>4 DEF CatchUpInv

-----------------------------------------------------------------------------
(* The steps of a session.                                                 *)

LEMMA InvariantInitially == CatchUpInit => CatchUpInv
  <1> SUFFICES ASSUME CatchUpInit PROVE CatchUpInv
    OBVIOUS
  <1>1. PICK start \in Starts : /\ tip = start.tip /\ peerTip = start.peers
                                /\ pruned = start.pruned /\ incidents = start.incidents
    BY DEF CatchUpInit
  <1>2. \A p \in Peers : session[p] = Down /\ ~session[p].up
    BY DEF CatchUpInit, Down
  <1>3. CatchUpTypeInv
    BY <1>1, <1>2, StartsAssumption DEF CatchUpInit, CatchUpTypeInv
  <1>4. WorkInv
    BY <1>2 DEF WorkInv, Working
  <1>5. Holders = {}
    BY <1>2 DEF Holders, Working
  <1>6. ClaimInv
    <2>1. Cardinality({}) = 0
      BY FS_EmptySet, Zenon
    <2>2. active = {} /\ Cardinality(active) <= MaxValidations
      BY <2>1, TreeAssumption DEF CatchUpInit
    <2> QED
      BY <1>5, <2>2 DEF ClaimInv
  <1> QED
    BY <1>3, <1>4, <1>6 DEF CatchUpInv

\* A session step after which the same work is under way.
LEMMA SameWork ==
    ASSUME CatchUpInv, NEW p \in Peers, NEW s \in Connected,
           session' = [session EXCEPT ![p] = s],
           session[p].up, s.work = session[p].work, active' = active,
           tip' = tip, gen' = gen, incidents' \in Nat,
           resetting' = resetting, pruned' = pruned, hydrated' = hydrated,
           peerTip' \in [Peers -> Block],
           \A q \in Peers : peerTip'[q] # Setup \/ peerTip'[q] = peerTip[q]
    PROVE  CatchUpInv'
  <1>1. session[p] \in Connected /\ s.up /\ peerTip'[p] # Setup
    BY UpSession DEF CatchUpInv, Connected
  <1>2. IsSound(s)
    BY <1>1 DEF CatchUpInv, WorkInv, Working, IsSound
  <1>3. HoldsClaim(s) <=> HoldsClaim(session[p])
    BY <1>1 DEF HoldsClaim
  <1>4. ClaimInv'
    BY <1>3, ClaimsKept DEF CatchUpInv
  <1>5. tip' \in Block /\ hydrated' \in BOOLEAN
    BY DEF CatchUpInv, CatchUpTypeInv
  <1> QED
    BY <1>1, <1>2, <1>4, <1>5, SessionStepKeeps

LEMMA GreetKeeps ==
    ASSUME CatchUpInv, NEW p \in Peers, Greet(p)
    PROVE  CatchUpInv'
  <1> DEFINE new == [up |-> TRUE, asked |-> "no", inbox |-> << >>, wire |-> << >>,
                     work |-> Idle, status |-> [tip |-> peerTip[p], boot |-> tip = Setup]]
             s == StartCatchup(new, tip)
  <1>1. peerTip[p] \in Block \ {Setup} /\ tip \in Block
    BY DEF Greet, CatchUpInv, CatchUpTypeInv
  <1>2. new \in Connected /\ new.work = Idle
    BY <1>1 DEF Connected
  <1>3. s \in Connected /\ s.work = Idle
    <2> HIDE DEF new
    <2> QED
      BY <1>1, <1>2, StartCatchupType
  <1> HIDE DEF s
  <1>4. session' = [session EXCEPT ![p] = s]
    BY DEF Greet, Update, s
  <1>5. s.work.stage = "idle"
    BY <1>3 DEF Idle
  <1>6. IsSound(s) /\ ~HoldsClaim(s)
    BY <1>5 DEF IsSound, HoldsClaim
  <1>7. ~HoldsClaim(session[p])
    BY DEF Greet, HoldsClaim
  <1>8. ClaimInv'
    BY <1>4, <1>6, <1>7, ClaimsKept DEF CatchUpInv, Greet
  <1>9. /\ tip' \in Block /\ gen' = gen /\ incidents' \in Nat
        /\ resetting' = resetting /\ pruned' = pruned /\ hydrated' \in BOOLEAN
        /\ peerTip' \in [Peers -> Block] /\ peerTip' = peerTip
    BY DEF Greet, CatchUpInv, CatchUpTypeInv
  <1> QED
    BY <1>1, <1>3, <1>4, <1>6, <1>8, <1>9, SessionStepKeeps

LEMMA TickKeeps ==
    ASSUME CatchUpInv, NEW p \in Peers, Tick(p)
    PROVE  CatchUpInv'
  <1> DEFINE rested == [session[p] EXCEPT !.asked = "no"]
             s == StartCatchup(rested, tip)
  <1>1. session[p] \in Connected /\ tip \in Block
    BY UpSession DEF Tick, CatchUpInv, CatchUpTypeInv
  <1>2. rested \in Connected /\ rested.work = session[p].work
    BY <1>1 DEF Connected
  <1>3. s \in Connected /\ s.work = session[p].work
    <2> HIDE DEF rested
    <2> QED
      BY <1>1, <1>2, StartCatchupType
  <1>4. session' = [session EXCEPT ![p] = s]
    BY DEF Tick, Update
  <1> HIDE DEF s
  <1>5. /\ tip' = tip /\ gen' = gen /\ incidents' \in Nat /\ active' = active
        /\ resetting' = resetting /\ pruned' = pruned /\ hydrated' = hydrated
        /\ peerTip' \in [Peers -> Block] /\ peerTip' = peerTip
    BY DEF Tick, CatchUpInv, CatchUpTypeInv
  <1>6. session[p].up
    BY DEF Tick
  <1> QED
    BY <1>3, <1>4, <1>5, <1>6, SameWork

LEMMA OverdueKeeps ==
    ASSUME CatchUpInv, NEW p \in Peers, Overdue(p)
    PROVE  CatchUpInv'
  <1> DEFINE s == [session[p] EXCEPT !.asked = "overdue"]
  <1>1. session[p] \in Connected
    BY UpSession DEF Overdue, CatchUpInv
  <1>2. s \in Connected /\ s.work = session[p].work
    BY <1>1 DEF Connected
  <1>3. session' = [session EXCEPT ![p] = s]
    BY DEF Overdue, Update
  <1> HIDE DEF s
  <1>4. /\ tip' = tip /\ gen' = gen /\ active' = active
        /\ resetting' = resetting /\ pruned' = pruned /\ hydrated' = hydrated
        /\ peerTip' \in [Peers -> Block] /\ peerTip' = peerTip
    BY DEF Overdue, CatchUpInv, CatchUpTypeInv
  <1>5. incidents' \in Nat
    BY DEF Overdue, CatchUpInv, CatchUpTypeInv
  <1>6. session[p].up
    BY DEF Overdue
  <1> QED
    BY <1>2, <1>3, <1>4, <1>5, <1>6, SameWork

LEMMA PeerAnswersKeeps ==
    ASSUME CatchUpInv, NEW p \in Peers, PeerAnswers(p)
    PROVE  CatchUpInv'
  <1> DEFINE answer == Answer(peerTip[p], Head(session[p].wire))
             s == [session[p] EXCEPT !.wire = Tail(@), !.inbox = @ \o answer]
  <1>1. session[p] \in Connected /\ peerTip[p] \in Block \ {Setup}
    BY UpSession DEF PeerAnswers, CatchUpInv
  <1>2. session[p].wire \in Seq(Request) /\ session[p].inbox \in Seq(Message)
        /\ session[p].wire # << >>
    BY <1>1 DEF PeerAnswers, Connected
  <1>3. answer \in Seq(Message)
    <2>1. Head(session[p].wire) \in Request
      BY <1>2
    <2> QED
      BY <1>1, <2>1, AnswerType
  <1>4. session' = [session EXCEPT ![p] = s]
    BY DEF PeerAnswers, Update
  <1>5. s \in Connected /\ s.work = session[p].work
    <2> HIDE DEF answer
    <2>1. Tail(session[p].wire) \in Seq(Request) /\ session[p].inbox \o answer \in Seq(Message)
      BY <1>2, <1>3
    <2> QED
      BY <1>1, <2>1 DEF Connected
  <1> HIDE DEF s
  <1>6. /\ tip' = tip /\ gen' = gen /\ incidents' \in Nat /\ active' = active
        /\ resetting' = resetting /\ pruned' = pruned /\ hydrated' = hydrated
        /\ peerTip' \in [Peers -> Block] /\ peerTip' = peerTip
    BY DEF PeerAnswers, CatchUpInv, CatchUpTypeInv
  <1>7. session[p].up
    BY DEF PeerAnswers
  <1> QED
    BY <1>4, <1>5, <1>6, <1>7, SameWork

LEMMA PeerStatusKeeps ==
    ASSUME CatchUpInv, NEW p \in Peers, PeerStatus(p)
    PROVE  CatchUpInv'
  <1> DEFINE m == [kind |-> "status", tip |-> peerTip[p]]
             s == [session[p] EXCEPT !.inbox = Append(@, m)]
  <1>1. session[p] \in Connected /\ peerTip[p] \in Block \ {Setup}
    BY UpSession DEF PeerStatus, Quiet, CatchUpInv
  <1>2. m \in Message
    BY <1>1 DEF Message
  <1>3. s \in Connected /\ s.work = session[p].work
    <2> HIDE DEF m
    <2>1. session[p].inbox \in Seq(Message)
      BY <1>1 DEF Connected
    <2>2. Append(session[p].inbox, m) \in Seq(Message)
      BY <1>2, <2>1
    <2> QED
      BY <1>1, <2>2 DEF Connected
  <1>4. session' = [session EXCEPT ![p] = s]
    BY DEF PeerStatus, Update
  <1> HIDE DEF s
  <1>5. /\ tip' = tip /\ gen' = gen /\ incidents' \in Nat /\ active' = active
        /\ resetting' = resetting /\ pruned' = pruned /\ hydrated' = hydrated
        /\ peerTip' \in [Peers -> Block] /\ peerTip' = peerTip
    BY DEF PeerStatus, CatchUpInv, CatchUpTypeInv
  <1>6. session[p].up
    BY DEF PeerStatus, Quiet
  <1> QED
    BY <1>3, <1>4, <1>5, <1>6, SameWork

LEMMA PeerGrowsKeeps ==
    ASSUME CatchUpInv, NEW p \in Peers, PeerGrows(p)
    PROVE  CatchUpInv'
  <1>1. PICK b \in DOMAIN Parent, kind \in {"block", "inventory"} :
           /\ Parent[b] = peerTip[p]
           /\ peerTip' = [peerTip EXCEPT ![p] = b]
           /\ Update(p, [session[p] EXCEPT !.inbox = Append(@, [kind |-> kind, block |-> b])])
    BY DEF PeerGrows
  <1> DEFINE m == [kind |-> kind, block |-> b]
             s == [session[p] EXCEPT !.inbox = Append(@, m)]
  <1>2. session[p] \in Connected /\ peerTip \in [Peers -> Block]
    BY UpSession DEF PeerGrows, CatchUpInv, CatchUpTypeInv
  <1>3. m \in Message
    BY DEF Message
  <1>4. s \in Connected /\ s.work = session[p].work
    <2> HIDE DEF m
    <2>1. session[p].inbox \in Seq(Message)
      BY <1>2 DEF Connected
    <2>2. Append(session[p].inbox, m) \in Seq(Message)
      BY <1>3, <2>1
    <2> QED
      BY <1>2, <2>2 DEF Connected
  <1>5. session' = [session EXCEPT ![p] = s]
    BY <1>1 DEF Update
  <1> HIDE DEF s
  <1>6. b \in Block \ {Setup}
    BY TreeAssumption DEF Block
  <1>7. peerTip' \in [Peers -> Block]
        /\ \A q \in Peers : peerTip'[q] # Setup \/ peerTip'[q] = peerTip[q]
    BY <1>1, <1>2, <1>6
  <1>8. /\ tip' = tip /\ gen' = gen /\ incidents' \in Nat /\ active' = active
        /\ resetting' = resetting /\ pruned' = pruned /\ hydrated' = hydrated
    BY DEF PeerGrows, CatchUpInv, CatchUpTypeInv
  <1>9. session[p].up
    BY DEF PeerGrows
  <1> QED
    BY <1>4, <1>5, <1>7, <1>8, <1>9, SameWork

LEMMA DisconnectKeeps ==
    ASSUME CatchUpInv, NEW p \in Peers, Disconnect(p)
    PROVE  CatchUpInv'
  <1>1. session' = [session EXCEPT ![p] = Down]
    BY DEF Disconnect, Update
  <1>2. IsSound(Down) /\ ~HoldsClaim(Down) /\ ~Down.up
    BY DEF IsSound, HoldsClaim, Down
  <1>3. ~HoldsClaim(session[p])
    BY DEF Disconnect, Working, HoldsClaim
  <1>4. ClaimInv'
    BY <1>1, <1>2, <1>3, ClaimsKept DEF CatchUpInv, Disconnect
  <1>5. /\ tip' \in Block /\ gen' = gen /\ incidents' \in Nat
        /\ resetting' = resetting /\ pruned' = pruned /\ hydrated' \in BOOLEAN
        /\ peerTip' \in [Peers -> Block] /\ peerTip' = peerTip
    BY DEF Disconnect, CatchUpInv, CatchUpTypeInv
  <1> QED
    BY <1>1, <1>2, <1>4, <1>5, SessionStepKeeps

\* A page whose known blocks were dropped starts at the tip only when it
\* builds on the tip.
LEMMA DropKnownType ==
    ASSUME tip \in Block, NEW page \in Message, page.kind = "blocks"
    PROVE  /\ DropKnown(page) \in PageSet
           /\ DropKnown(page).after = tip => tip \in Chain[DropKnown(page).last]
  <1>1. /\ page \in [kind : {"blocks"}, after : Block \ {Setup}, last : Block]
        /\ page.after \in Chain[page.last]
    BY DEF Message
  <1>2. CASE page.after \notin Chain[tip]
    BY <1>1, <1>2, ChainDef DEF DropKnown, PageSet
  <1>3. CASE page.after \in Chain[tip]
    <2> DEFINE common == Chain[tip] \cap Chain[page.last]
               n == Cardinality(common)
               a == AtHeight(tip, n - 1)
    <2>1. DropKnown(page) = [page EXCEPT !.after = a]
      BY <1>3 DEF DropKnown
    <2>2. tip # Setup
      BY <1>1, <1>3, ChainDef, TreeAssumption
    <2>3. IsFiniteSet(Chain[tip]) /\ Cardinality(Chain[tip]) = Height[tip] + 1
          /\ Height[tip] \in Nat
      BY ChainSize, HeightDef
    <2>4. /\ n \in Nat /\ n # 0 /\ n <= Cardinality(Chain[tip])
          /\ n = Cardinality(Chain[tip]) => common = Chain[tip]
      <3>1. common \in SUBSET Chain[tip] /\ common # {}
        BY <1>1, <1>3
      <3> HIDE DEF common
      <3>2. IsFiniteSet(common) /\ n <= Cardinality(Chain[tip])
        BY <2>3, <3>1, FS_Subset, Zenon
      <3>3. n = Cardinality(Chain[tip]) => common = Chain[tip]
        BY <2>3, <3>1, FS_Subset, Zenon
      <3>4. n \in Nat
        BY <3>2, FS_CardinalityType, Zenon
      <3>5. n # 0
        BY <3>1, <3>2, FS_EmptySet, Zenon
      <3> QED
        BY <3>2, <3>3, <3>4, <3>5
    <2>5. n - 1 \in 0 .. Height[tip]
      <3> HIDE DEF n
      <3> QED
        BY <2>3, <2>4
    <2>6. a \in Chain[tip] /\ Height[a] = n - 1
      <3> HIDE DEF n
      <3> QED
        BY <2>5, AncestorAt
    <2>7. a \in Block \ {Setup}
      <3> HIDE DEF a
      <3> QED
        BY <2>2, <2>6, ChainMembers
    <2>8. a = tip => tip \in Chain[page.last]
      <3> HAVE a = tip
      <3>1. n = Cardinality(Chain[tip])
        <4> HIDE DEF n, a
        <4> QED
          BY <2>3, <2>4, <2>6
      <3> QED
        BY <2>4, <3>1, ChainDef
    <2>9. /\ [page EXCEPT !.after = a] \in PageSet
          /\ [page EXCEPT !.after = a].after = a
          /\ [page EXCEPT !.after = a].last = page.last
      <3> HIDE DEF a
      <3> QED
        BY <1>1, <2>7 DEF PageSet
    <2> QED
      BY <2>1, <2>8, <2>9
  <1> QED
    BY <1>2, <1>3

LEMMA WorkType ==
    ASSUME tip \in Block, gen \in Nat, NEW kind \in {"bootstrap", "blocks", "block"},
           NEW page \in PageSet, NEW held \in BOOLEAN
    PROVE  /\ Work(kind, page, held) \in ActiveWork
           /\ Work(kind, page, held).stage = "claim" /\ Work(kind, page, held).kind = kind
           /\ Work(kind, page, held).page = page /\ Work(kind, page, held).base = tip
  BY DEF Work, ActiveWork

LEMMA DoneType ==
    ASSUME NEW work \in ActiveWork, NEW fork \in BOOLEAN
    PROVE  /\ Done(work, fork) \in ActiveWork
           /\ Done(work, fork).stage = "done" /\ Done(work, fork).kind = work.kind
           /\ Done(work, fork).page = work.page /\ Done(work, fork).base = work.base
  BY DEF Done, ActiveWork

LEMMA PutWork ==
    ASSUME NEW s \in Connected, NEW work \in ActiveWork
    PROVE  /\ [s EXCEPT !.work = work] \in Connected
           /\ [s EXCEPT !.work = work].work = work
  BY DEF Connected

LEMMA IdleIsSound ==
    ASSUME NEW s, s.work = Idle
    PROVE  IsSound(s) /\ ~HoldsClaim(s)
  BY DEF IsSound, HoldsClaim, Idle

\* Reading a message leaves sound work that claims nothing yet.
LEMMA ReadSound ==
    ASSUME tip \in Block, gen \in Nat, NEW s \in Connected, s.work = Idle, NEW m \in Message
    PROVE  /\ Read(s, m) \in Connected
           /\ IsSound(Read(s, m))
           /\ ~HoldsClaim(Read(s, m))
  <1>1. CASE m.kind = "status"
    <2> DEFINE t == [s EXCEPT !.status = [tip |-> m.tip, boot |-> FALSE]]
    <2>1. m.tip \in Block \ {Setup}
      BY <1>1 DEF Message
    <2>2. t \in Connected /\ t.work = Idle
      BY <2>1 DEF Connected
    <2>3. StartCatchup(t, tip) \in Connected /\ StartCatchup(t, tip).work = Idle
      <3> HIDE DEF t
      <3> QED
        BY <2>2, StartCatchupType
    <2>4. Read(s, m) = StartCatchup(t, tip)
      BY <1>1 DEF Read
    <2> HIDE DEF t
    <2> QED
      BY <2>3, <2>4, IdleIsSound
  <1>2. CASE m.kind = "inventory"
    <2>1. m.block \in DOMAIN Parent
      BY <1>2 DEF Message
    <2>2. MissingInventory(m.block, tip) \in Seq(Request)
      BY <2>1, MissingInventoryType
    <2>3. /\ Ask(s, MissingInventory(m.block, tip)) \in Connected
          /\ Ask(s, MissingInventory(m.block, tip)).work = Idle
      BY <2>2, AskType
    <2>4. Read(s, m) \in Connected /\ Read(s, m).work = Idle
      BY <1>2, <2>3 DEF Read
    <2> QED
      BY <2>4, IdleIsSound
  <1>3. CASE m.kind = "bootstrap"
    <2> DEFINE work == Work("bootstrap", Page(Genesis, Genesis), FALSE)
    <2>1. Page(Genesis, Genesis) \in PageSet
      BY TreeAssumption DEF Page, PageSet, Block
    <2>2. work \in ActiveWork /\ work.stage = "claim" /\ work.kind = "bootstrap"
      BY <2>1, WorkType
    <2>3. Read(s, m) = [s EXCEPT !.work = work]
      BY <1>3 DEF Read
    <2> HIDE DEF work
    <2>4. Read(s, m) \in Connected /\ Read(s, m).work = work
      BY <2>2, <2>3, PutWork
    <2>5. WorkIsSound(work)
      BY <2>2 DEF WorkIsSound
    <2> QED
      BY <2>2, <2>4, <2>5 DEF IsSound, HoldsClaim
  <1>4. CASE m.kind = "block"
    <2> DEFINE page == Page(Parent[m.block], m.block)
               work == Work("block", page, FALSE)
    <2>1. m.block \in DOMAIN Parent /\ m.block \in Block /\ Parent[m.block] \in Block \ {Setup}
      BY <1>4, TreeAssumption DEF Message, Block
    <2>2. page \in PageSet /\ page.after = Parent[m.block] /\ page.last = m.block
      BY <2>1 DEF Page, PageSet
    <2>3. /\ work \in ActiveWork /\ work.stage = "claim" /\ work.kind = "block"
          /\ work.page = page /\ work.base = tip
      BY <2>2, WorkType
    <2> HIDE DEF page, work
    <2>4. ASSUME NEW fork \in BOOLEAN, NEW t \in Connected, t.work = Done(work, fork)
          PROVE  IsSound(t) /\ ~HoldsClaim(t)
      <3>1. t.work.stage = "done" /\ t.work.kind = "block"
        BY <2>3, <2>4, DoneType
      <3> QED
        BY <3>1 DEF IsSound, HoldsClaim, WorkIsSound
    <2>5. CASE m.block \in Chain[tip]
      <3>1. Read(s, m) = [s EXCEPT !.work = Done(work, FALSE)]
        BY <1>4, <2>5 DEF Read, page, work
      <3>2. Done(work, FALSE) \in ActiveWork
        BY <2>3, DoneType
      <3>3. Read(s, m) \in Connected /\ Read(s, m).work = Done(work, FALSE)
        BY <3>1, <3>2, PutWork
      <3> QED
        BY <2>4, <3>3
    <2>6. CASE m.block \notin Chain[tip] /\ Parent[m.block] # tip
      <3> DEFINE request == <<[kind |-> "locator", tip |-> tip]>>
                 t == Send(s, request)
      <3>1. Read(s, m) = [t EXCEPT !.work = Done(work, TRUE)]
        BY <1>4, <2>6 DEF Read, page, work
      <3>2. Done(work, TRUE) \in ActiveWork
        BY <2>3, DoneType
      <3>3. request \in Seq(Request)
        BY DEF Request
      <3>4. t \in Connected
        <4> HIDE DEF request
        <4> QED
          BY <3>3, SendType
      <3> HIDE DEF t
      <3>5. Read(s, m) \in Connected /\ Read(s, m).work = Done(work, TRUE)
        BY <3>1, <3>2, <3>4, PutWork
      <3> QED
        BY <2>4, <3>5
    <2>7. CASE m.block \notin Chain[tip] /\ Parent[m.block] = tip
      <3>1. Read(s, m) = [s EXCEPT !.work = work]
        BY <1>4, <2>7 DEF Read, page, work
      <3>2. Read(s, m) \in Connected /\ Read(s, m).work = work
        BY <2>3, <3>1, PutWork
      <3>3. WorkIsSound(work)
        BY <2>1, <2>2, <2>3, <2>7 DEF WorkIsSound
      <3> QED
        BY <2>3, <3>2, <3>3 DEF IsSound, HoldsClaim
    <2> QED
      BY <2>5, <2>6, <2>7
  <1>5. CASE m.kind = "blocks"
    <2>1. m \in PageSet /\ m.after \in Chain[m.last]
      BY <1>5 DEF Message, PageSet
    <2>2. CASE Contained(m)
      <3> DEFINE work == Work("blocks", m, m # EmptyPage)
      <3>1. /\ work \in ActiveWork /\ work.kind = "blocks" /\ work.page = m /\ work.base = tip
        <4>1. (m # EmptyPage) \in BOOLEAN
          OBVIOUS
        <4> QED
          BY <2>1, <4>1, WorkType
      <3>2. Read(s, m) = [s EXCEPT !.work = Done(work, FALSE)]
        BY <1>5, <2>2 DEF Read
      <3> HIDE DEF work
      <3>3. /\ Done(work, FALSE) \in ActiveWork /\ Done(work, FALSE).stage = "done"
            /\ Done(work, FALSE).page = m /\ Done(work, FALSE).base = tip
        BY <3>1, DoneType
      <3>4. Read(s, m) \in Connected /\ Read(s, m).work = Done(work, FALSE)
        BY <3>2, <3>3, PutWork
      <3>5. WorkIsSound(Done(work, FALSE))
        BY <2>1, <3>3 DEF WorkIsSound, Extends
      <3> QED
        BY <3>3, <3>4, <3>5 DEF IsSound, HoldsClaim
    <2>3. CASE ~Contained(m)
      <3> DEFINE work == Work("blocks", DropKnown(m), FALSE)
      <3>1. /\ DropKnown(m) \in PageSet
            /\ DropKnown(m).after = tip => tip \in Chain[DropKnown(m).last]
        BY <1>5, DropKnownType
      <3>2. /\ work \in ActiveWork /\ work.stage = "claim" /\ work.kind = "blocks"
            /\ work.page = DropKnown(m) /\ work.base = tip
        BY <3>1, WorkType
      <3>3. Read(s, m) = [s EXCEPT !.work = work]
        BY <1>5, <2>3 DEF Read
      <3> HIDE DEF work
      <3>4. Read(s, m) \in Connected /\ Read(s, m).work = work
        BY <3>2, <3>3, PutWork
      <3>5. WorkIsSound(work)
        BY <3>1, <3>2 DEF WorkIsSound, Extends
      <3> QED
        BY <3>2, <3>4, <3>5 DEF IsSound, HoldsClaim
    <2> QED
      BY <2>2, <2>3
  <1>6. m.kind \in {"blocks", "bootstrap", "status", "block", "inventory"}
    BY DEF Message
  <1> QED
    BY <1>1, <1>2, <1>3, <1>4, <1>5, <1>6

LEMMA ReceiveKeeps ==
    ASSUME CatchUpInv, NEW p \in Peers, Receive(p)
    PROVE  CatchUpInv'
  <1> DEFINE t == [session[p] EXCEPT !.inbox = Tail(@)]
             m == Head(session[p].inbox)
             s == Read(t, m)
  <1>1. session[p] \in Connected /\ peerTip[p] # Setup /\ tip \in Block /\ gen \in Nat
    BY UpSession DEF Receive, CatchUpInv, CatchUpTypeInv
  <1>2. session[p].inbox \in Seq(Message) /\ session[p].inbox # << >>
    BY <1>1 DEF Receive, Connected
  <1>3. m \in Message /\ Tail(session[p].inbox) \in Seq(Message)
    BY <1>2
  <1>4. session[p].work = Idle
    BY <1>1 DEF Receive, Working, Connected, ActiveWork
  <1>5. t \in Connected /\ t.work = Idle
    BY <1>1, <1>3, <1>4 DEF Connected
  <1>6. s \in Connected /\ IsSound(s) /\ ~HoldsClaim(s)
    <2> HIDE DEF t, m
    <2> QED
      BY <1>1, <1>3, <1>5, ReadSound
  <1>7. session' = [session EXCEPT ![p] = s]
    BY DEF Receive, Update
  <1> HIDE DEF s
  <1>8. ~HoldsClaim(session[p])
    BY <1>4, IdleIsSound
  <1>9. ClaimInv'
    BY <1>6, <1>7, <1>8, ClaimsKept DEF CatchUpInv, Receive
  <1>10. /\ tip' \in Block /\ gen' = gen /\ incidents' \in Nat
         /\ resetting' = resetting /\ pruned' = pruned /\ hydrated' \in BOOLEAN
         /\ peerTip' \in [Peers -> Block] /\ peerTip' = peerTip
    BY DEF Receive, CatchUpInv, CatchUpTypeInv
  <1> QED
    BY <1>1, <1>6, <1>7, <1>9, <1>10, SessionStepKeeps

\* The step that takes a claim.
LEMMA ClaimTaken ==
    ASSUME CatchUpTypeInv, ClaimInv, NEW p \in Peers, NEW s,
           session' = [session EXCEPT ![p] = s],
           ~HoldsClaim(session[p]), HoldsClaim(s),
           ValidationKey(s.work) \notin active, Cardinality(active) < MaxValidations,
           active' = active \cup {ValidationKey(s.work)}
    PROVE  ClaimInv'
  <1>1. session'[p] = s /\ \A q \in Peers \ {p} : session'[q] = session[q]
    BY DEF CatchUpTypeInv
  <1>2. p \notin Holders /\ Holders' = Holders \cup {p}
    BY <1>1 DEF Holders, Working, HoldsClaim
  <1>3. \A q \in Holders : session'[q] = session[q]
    BY <1>1, <1>2 DEF Holders
  <1>4. active' = {ValidationKey(session'[q].work) : q \in Holders'}
    BY <1>1, <1>2, <1>3 DEF ClaimInv
  <1>5. ASSUME NEW q \in Holders', NEW r \in Holders',
               ValidationKey(session'[q].work) = ValidationKey(session'[r].work)
        PROVE  q = r
    <2>1. \A h \in Holders : ValidationKey(session'[h].work) \in active
      BY <1>3 DEF ClaimInv
    <2> QED
      BY <1>1, <1>2, <1>3, <1>5, <2>1 DEF ClaimInv
  <1>6. Cardinality(active') <= MaxValidations
    <2>1. IsFiniteSet(active)
      BY HoldersCounted
    <2>2. Cardinality(active') = Cardinality(active) + 1
      BY <2>1, FS_AddElement, Zenon
    <2>3. Cardinality(active) \in Nat
      BY <2>1, FS_CardinalityType, Zenon
    <2> QED
      BY <2>2, <2>3, TreeAssumption
  <1>7. ClaimInv' = (/\ active' = {ValidationKey(session'[q].work) : q \in Holders'}
                     /\ \A q, r \in Holders' :
                           ValidationKey(session'[q].work) = ValidationKey(session'[r].work)
                              => q = r
                     /\ Cardinality(active') <= MaxValidations)
    BY DEF ClaimInv, ValidationKey
  <1> QED
    BY <1>4, <1>5, <1>6, <1>7

\* Only work is under way that the session is not idle about.
LEMMA WorkUnderWay ==
    ASSUME CatchUpInv, NEW p \in Peers, session[p].up, session[p].work.stage # "idle"
    PROVE  /\ session[p] \in Connected /\ session[p].work \in ActiveWork
           /\ WorkIsSound(session[p].work) /\ peerTip[p] # Setup
  <1>1. session[p] \in Connected /\ peerTip[p] # Setup
    BY UpSession DEF CatchUpInv
  <1>2. session[p].work \in ActiveWork
    <2>1. session[p].work \in {Idle} \cup ActiveWork
      BY <1>1 DEF Connected
    <2>2. Idle.stage = "idle"
      BY DEF Idle
    <2> QED
      BY <2>1, <2>2
  <1>3. WorkIsSound(session[p].work)
    BY DEF CatchUpInv, WorkInv, Working
  <1> QED
    BY <1>1, <1>2, <1>3

\* Finished work is sound whatever it was.
LEMMA DoneIsSound ==
    ASSUME NEW work \in ActiveWork, WorkIsSound(work), NEW fork \in BOOLEAN,
           NEW s, s.work = Done(work, fork)
    PROVE  IsSound(s) /\ ~HoldsClaim(s)
  <1>1. /\ s.work.stage = "done" /\ s.work.kind = work.kind
        /\ s.work.page = work.page /\ s.work.base = work.base
    BY DoneType
  <1> QED
    BY <1>1 DEF IsSound, HoldsClaim, WorkIsSound, Extends

LEMMA ClaimKeeps ==
    ASSUME CatchUpInv, NEW p \in Peers, Claim(p)
    PROVE  CatchUpInv'
  <1> DEFINE held == [session[p].work EXCEPT !.stage = "held"]
             s == [session[p] EXCEPT !.work = held]
  <1>1. session[p].up /\ session[p].work.stage = "claim"
    BY DEF Claim
  <1>2. /\ session[p] \in Connected /\ session[p].work \in ActiveWork
        /\ WorkIsSound(session[p].work) /\ peerTip[p] # Setup
    BY <1>1, WorkUnderWay
  <1>3. /\ held \in ActiveWork /\ held.stage = "held" /\ held.kind = session[p].work.kind
        /\ held.page = session[p].work.page /\ held.base = session[p].work.base
    BY <1>2 DEF ActiveWork
  <1>4. session' = [session EXCEPT ![p] = s]
    BY DEF Claim
  <1> HIDE DEF held
  <1>5. s \in Connected /\ s.work = held
    BY <1>2, <1>3, PutWork
  <1> HIDE DEF s
  <1>6. WorkIsSound(held)
    BY <1>1, <1>2, <1>3 DEF WorkIsSound, Extends
  <1>7. IsSound(s)
    BY <1>5, <1>6 DEF IsSound
  <1>8. HoldsClaim(s) /\ ~HoldsClaim(session[p])
    BY <1>1, <1>3, <1>5 DEF HoldsClaim, Connected
  <1>9. ValidationKey(s.work) = ValidationKey(session[p].work)
    BY <1>3, <1>5 DEF ValidationKey
  <1>10. ClaimInv'
    BY <1>4, <1>8, <1>9, ClaimTaken DEF CatchUpInv, Claim
  <1>11. /\ tip' \in Block /\ gen' = gen /\ incidents' \in Nat
         /\ resetting' = resetting /\ pruned' = pruned /\ hydrated' \in BOOLEAN
         /\ peerTip' \in [Peers -> Block] /\ peerTip' = peerTip
    BY DEF Claim, CatchUpInv, CatchUpTypeInv
  <1> QED
    BY <1>2, <1>4, <1>5, <1>7, <1>10, <1>11, SessionStepKeeps

LEMMA BeginKeeps ==
    ASSUME CatchUpInv, NEW p \in Peers, Begin(p)
    PROVE  CatchUpInv'
  <1> DEFINE work == session[p].work
             goOn == BaseIsCurrent(work) /\ (work.kind = "blocks" => ~Contained(work.page))
             next == IF goOn THEN [work EXCEPT !.stage = "validate"] ELSE Done(work, FALSE)
             s == [session[p] EXCEPT !.work = next]
  <1>1. session[p].up /\ work.stage = "held"
    BY DEF Begin
  <1>2. /\ session[p] \in Connected /\ work \in ActiveWork
        /\ WorkIsSound(work) /\ peerTip[p] # Setup
    BY <1>1, WorkUnderWay
  <1>3. session' = [session EXCEPT ![p] = s]
    BY DEF Begin
  <1>4. /\ tip' \in Block /\ gen' = gen /\ incidents' \in Nat
        /\ resetting' = resetting /\ pruned' = pruned /\ hydrated' \in BOOLEAN
        /\ peerTip' \in [Peers -> Block] /\ peerTip' = peerTip
    BY DEF Begin, CatchUpInv, CatchUpTypeInv
  <1>5. HoldsClaim(session[p])
    BY <1>1 DEF HoldsClaim
  <1>6. CASE goOn
    <2>1. /\ next \in ActiveWork /\ next.stage = "validate" /\ next.kind = work.kind
          /\ next.page = work.page /\ next.base = work.base
      BY <1>2, <1>6 DEF ActiveWork
    <2>2. active' = active
      BY <1>6 DEF Begin
    <2>3. work.kind = "blocks" => ~(Blocks(work.page) \subseteq Chain[work.base])
      BY <1>6 DEF Contained, BaseIsCurrent
    <2> HIDE DEF next
    <2>4. s \in Connected /\ s.work = next
      BY <1>2, <2>1, PutWork
    <2> HIDE DEF s
    <2>5. WorkIsSound(next)
      BY <1>1, <1>2, <2>1, <2>3 DEF WorkIsSound, Extends
    <2>6. IsSound(s) /\ HoldsClaim(s) /\ ValidationKey(s.work) = ValidationKey(work)
      BY <2>1, <2>4, <2>5 DEF IsSound, HoldsClaim, ValidationKey, Connected
    <2>7. ClaimInv'
      BY <1>3, <1>5, <2>2, <2>6, ClaimsKept DEF CatchUpInv
    <2> QED
      BY <1>2, <1>3, <1>4, <2>4, <2>6, <2>7, SessionStepKeeps
  <1>7. CASE ~goOn
    <2>1. next = Done(work, FALSE) /\ active' = active \ {ValidationKey(work)}
      BY <1>7 DEF Begin
    <2>2. next \in ActiveWork
      <3> HIDE DEF next
      <3> QED
        BY <1>2, <2>1, DoneType
    <2> HIDE DEF next, goOn
    <2>3. s \in Connected /\ s.work = next
      BY <1>2, <2>2, PutWork
    <2> HIDE DEF s
    <2>4. IsSound(s) /\ ~HoldsClaim(s)
      BY <1>2, <2>1, <2>3, DoneIsSound
    <2>5. ClaimInv'
      BY <1>3, <1>5, <2>1, <2>4, ClaimReleased DEF CatchUpInv
    <2> QED
      BY <1>2, <1>3, <1>4, <2>3, <2>4, <2>5, SessionStepKeeps
  <1> QED
    BY <1>6, <1>7

\* What a validation returns is the chain it started from or a better one.
LEMMA ValidatedIsNotWorse ==
    ASSUME NEW work \in ActiveWork, WorkIsSound(work), work.stage = "validate",
           work.kind = "blocks" /\ ~Extends(work) => SharesHistory(work)
    PROVE  Validated(work) \in Block /\ NotWorse(Validated(work), work.base)
  <1>1. /\ work.kind \in {"bootstrap", "blocks", "block"} /\ work.base \in Block
        /\ work.page.after \in Block \ {Setup} /\ work.page.last \in Block
    BY DEF ActiveWork, PageSet
  <1>2. CASE work.kind = "bootstrap"
    BY <1>2 DEF Validated, NotWorse, Block
  <1>3. CASE work.kind = "block"
    <2>1. /\ work.page.last \in DOMAIN Parent /\ work.page.after = Parent[work.page.last]
          /\ work.page.after = work.base
      BY <1>3 DEF WorkIsSound
    <2>2. Height[work.page.last] > Height[work.base] /\ work.base # Setup
      <3>1. Height[work.page.last] = Height[work.base] + 1 /\ Height[work.base] \in Nat
        BY <1>1, <2>1, HeightDef
      <3> QED
        BY <1>1, <2>1, <3>1
    <2> QED
      BY <1>1, <1>3, <2>1, <2>2 DEF Validated, NotWorse, Better, Extends
  <1>4. CASE work.kind = "blocks" /\ Extends(work)
    <2>1. work.base \in Chain[work.page.last] /\ work.base # Setup
      BY <1>1, <1>4 DEF WorkIsSound, Extends
    <2>2. work.page.last # work.base
      <3> SUFFICES ASSUME work.page.last = work.base PROVE FALSE
        OBVIOUS
      <3>1. Blocks(work.page) \subseteq Chain[work.base]
        BY DEF Blocks
      <3> QED
        BY <1>4, <3>1 DEF WorkIsSound
    <2>3. Height[work.base] < Height[work.page.last]
      BY <1>1, <2>1, <2>2, ChainMembers
    <2>4. Height[work.page.last] > Height[work.base]
      BY <1>1, <2>3, HeightDef
    <2> QED
      BY <1>1, <1>4, <2>1, <2>4 DEF Validated, NotWorse, Better
  <1>5. CASE work.kind = "blocks" /\ ~Extends(work)
    <2>1. work.page.after \in Chain[work.base]
      BY <1>5 DEF SharesHistory
    <2>2. work.base # Setup
      BY <1>1, <2>1, ChainDef, TreeAssumption
    <2> QED
      BY <1>1, <1>5, <2>2 DEF Validated, NotWorse
  <1> QED
    BY <1>1, <1>2, <1>3, <1>4, <1>5

LEMMA ValidateKeeps ==
    ASSUME CatchUpInv, NEW p \in Peers, Validate(p)
    PROVE  CatchUpInv'
  <1> DEFINE work == session[p].work
             asFork == work.kind = "blocks" /\ ~Extends(work)
             noAncestor == asFork /\ ~SharesHistory(work)
             throttled == asFork /\ SharesHistory(work) /\ pruned /\ hydrated
             failed == noAncestor \/ throttled
             result == IF failed THEN work.base ELSE Validated(work)
             next == [work EXCEPT !.stage = "apply", !.fork = noAncestor, !.result = result]
             s == [session[p] EXCEPT !.work = next]
  <1>1. session[p].up /\ work.stage = "validate"
    BY DEF Validate
  <1>2. /\ session[p] \in Connected /\ work \in ActiveWork
        /\ WorkIsSound(work) /\ peerTip[p] # Setup
    BY <1>1, WorkUnderWay
  <1>3. session' = [session EXCEPT ![p] = s] /\ active' = active
    BY DEF Validate
  <1>4. result \in Block /\ NotWorse(result, work.base)
    <2>1. CASE failed
      BY <1>2, <2>1 DEF ActiveWork, NotWorse
    <2>2. CASE ~failed
      <3>1. work.kind = "blocks" /\ ~Extends(work) => SharesHistory(work)
        BY <2>2
      <3> QED
        BY <1>1, <1>2, <2>2, <3>1, ValidatedIsNotWorse
    <2> QED
      BY <2>1, <2>2
  <1>5. noAncestor \in BOOLEAN
    BY DEF Extends, SharesHistory
  <1>6. tip' \in Block /\ gen' = gen /\ incidents' \in Nat
        /\ resetting' = resetting /\ pruned' = pruned
        /\ peerTip' \in [Peers -> Block] /\ peerTip' = peerTip
    BY DEF Validate, CatchUpInv, CatchUpTypeInv
  <1>7. hydrated' \in BOOLEAN
    BY DEF Validate, CatchUpInv, CatchUpTypeInv, Extends, SharesHistory
  <1> HIDE DEF noAncestor, result
  <1>8. /\ next \in ActiveWork /\ next.stage = "apply" /\ next.kind = work.kind
        /\ next.page = work.page /\ next.base = work.base /\ next.result = result
    BY <1>2, <1>4, <1>5 DEF ActiveWork
  <1> HIDE DEF next
  <1>9. s \in Connected /\ s.work = next
    BY <1>2, <1>8, PutWork
  <1> HIDE DEF s
  <1>10. WorkIsSound(next)
    BY <1>1, <1>2, <1>4, <1>8 DEF WorkIsSound, Extends
  <1>11. IsSound(s) /\ HoldsClaim(s) /\ ValidationKey(s.work) = ValidationKey(work)
    BY <1>8, <1>9, <1>10 DEF IsSound, HoldsClaim, ValidationKey, Connected
  <1>12. HoldsClaim(session[p])
    BY <1>1 DEF HoldsClaim
  <1>13. ClaimInv'
    BY <1>3, <1>11, <1>12, ClaimsKept DEF CatchUpInv
  <1> QED
    BY <1>2, <1>3, <1>6, <1>7, <1>9, <1>11, <1>13, SessionStepKeeps

\* What the import makes of a result that is not worse than the tip.
LEMMA ApplyImproves ==
    ASSUME tip \in Block, NEW work \in ActiveWork, NotWorse(work.result, work.base)
    PROVE  /\ ApplyResult(work) \in Block
           /\ \/ ApplyResult(work) = tip
              \/ tip = Setup /\ ApplyResult(work) = Genesis
              \/ tip # Setup /\ Better(ApplyResult(work), tip)
  <1> DEFINE new == work.result
  <1>1. new \in Block /\ Height[new] \in Nat /\ Height[tip] \in Nat
    BY HeightDef DEF ActiveWork
  <1>2. CASE ~BaseIsCurrent(work)
    BY <1>2 DEF ApplyResult
  <1>3. CASE BaseIsCurrent(work) /\ new = work.base
    BY <1>1, <1>3 DEF ApplyResult, BaseIsCurrent, Imported
  <1>4. CASE BaseIsCurrent(work) /\ new = Genesis
    <2>1. CASE tip = Setup
      BY <1>1, <1>4, <2>1, TreeAssumption DEF ApplyResult, Imported
    <2>2. CASE tip # Setup /\ tip \in DOMAIN Parent
      <3>1. Height[Genesis] = 0 /\ Height[Parent[tip]] \in Nat
            /\ Height[tip] = Height[Parent[tip]] + 1
        BY <1>1, <1>4, <2>2, HeightDef, TreeAssumption
      <3>2. Height[new] < Height[tip]
        BY <1>4, <3>1
      <3> QED
        BY <1>4, <2>2, <3>2 DEF ApplyResult, Imported
    <2>3. CASE tip = Genesis
      BY <1>1, <1>4, <2>3 DEF ApplyResult, Imported
    <2> QED
      BY <2>1, <2>2, <2>3 DEF Block
  <1>5. CASE BaseIsCurrent(work) /\ work.base # Setup /\ Better(new, work.base)
    <2>1. tip # Setup /\ Better(new, tip)
      BY <1>5 DEF BaseIsCurrent
    <2>2. ~(Height[new] < Height[tip])
      BY <1>1, <2>1 DEF Better
    <2>3. ApplyResult(work) = new
      BY <1>5, <2>1, <2>2 DEF ApplyResult, Imported
    <2> QED
      BY <1>1, <2>1, <2>3
  <1> QED
    BY <1>2, <1>3, <1>4, <1>5 DEF NotWorse

LEMMA ApplyKeeps ==
    ASSUME CatchUpInv, NEW p \in Peers, Apply(p)
    PROVE  CatchUpInv'
  <1> DEFINE work == session[p].work
             request == IF work.fork THEN <<[kind |-> "locator", tip |-> tip']>> ELSE << >>
             t == Send(session[p], request)
             s == [t EXCEPT !.work = Done(work, work.fork)]
  <1>1. session[p].up /\ work.stage = "apply"
    BY DEF Apply
  <1>2. /\ session[p] \in Connected /\ work \in ActiveWork
        /\ WorkIsSound(work) /\ peerTip[p] # Setup
    BY <1>1, WorkUnderWay
  <1>3. tip \in Block
    BY DEF CatchUpInv, CatchUpTypeInv
  <1>4. tip' \in Block
    <2>1. NotWorse(work.result, work.base)
      BY <1>1, <1>2 DEF WorkIsSound
    <2>2. ApplyResult(work) \in Block
      <3> HIDE DEF work
      <3> QED
        BY <1>2, <1>3, <2>1, ApplyImproves
    <2> QED
      BY <2>2 DEF Apply
  <1>5. request \in Seq(Request)
    <2>1. [kind |-> "locator", tip |-> tip'] \in Request
      BY <1>4 DEF Request
    <2> QED
      BY <2>1
  <1>6. session' = [session EXCEPT ![p] = s] /\ active' = active \ {ValidationKey(work)}
    BY DEF Apply, Update
  <1>7. work.fork \in BOOLEAN /\ Done(work, work.fork) \in ActiveWork
    <2>1. work.fork \in BOOLEAN
      BY <1>2 DEF ActiveWork
    <2> QED
      BY <1>2, <2>1, DoneType
  <1> HIDE DEF request
  <1>8. t \in Connected
    BY <1>2, <1>5, SendType
  <1> HIDE DEF t
  <1>9. s \in Connected /\ s.work = Done(work, work.fork)
    BY <1>7, <1>8, PutWork
  <1> HIDE DEF s
  <1>10. IsSound(s) /\ ~HoldsClaim(s)
    BY <1>2, <1>7, <1>9, DoneIsSound
  <1>11. HoldsClaim(session[p])
    BY <1>1 DEF HoldsClaim
  <1>12. ClaimInv'
    BY <1>6, <1>10, <1>11, ClaimReleased DEF CatchUpInv
  <1>13. /\ gen' = gen /\ incidents' \in Nat
         /\ resetting' = resetting /\ pruned' = pruned /\ hydrated' \in BOOLEAN
         /\ peerTip' \in [Peers -> Block] /\ peerTip' = peerTip
    BY DEF Apply, CatchUpInv, CatchUpTypeInv
  <1> QED
    BY <1>2, <1>4, <1>6, <1>9, <1>10, <1>12, <1>13, SessionStepKeeps

LEMMA LocatorWriteFailsKeeps ==
    ASSUME CatchUpInv, NEW p \in Peers, LocatorWriteFails(p)
    PROVE  CatchUpInv'
  <1>1. HoldsClaim(session[p])
    BY DEF LocatorWriteFails, HoldsClaim
  <1>2. IsSound(Down) /\ ~HoldsClaim(Down) /\ ~Down.up
    BY DEF IsSound, HoldsClaim, Down
  <1>3. /\ session' = [session EXCEPT ![p] = Down]
        /\ active' = active \ {ValidationKey(session[p].work)}
    BY DEF LocatorWriteFails, Update
  <1>4. ClaimInv'
    BY <1>1, <1>2, <1>3, ClaimReleased DEF CatchUpInv
  <1>5. /\ tip' \in Block /\ gen' = gen /\ incidents' \in Nat
        /\ resetting' = resetting /\ pruned' = pruned /\ hydrated' \in BOOLEAN
        /\ peerTip' \in [Peers -> Block] /\ peerTip' = peerTip
    BY DEF LocatorWriteFails, CatchUpInv, CatchUpTypeInv
  <1> QED
    BY <1>2, <1>3, <1>4, <1>5, SessionStepKeeps

LEMMA FinishKeeps ==
    ASSUME CatchUpInv, NEW p \in Peers, Finish(p)
    PROVE  CatchUpInv'
  <1> DEFINE work == session[p].work
             satisfied == tip # work.before \/ work.already
             after == AskedAfter(session[p].asked, work, satisfied)
             rested == [session[p] EXCEPT !.work = Idle, !.asked = after]
             s == IF satisfied /\ ~work.fork THEN StartCatchup(rested, tip) ELSE rested
  <1>1. session[p].up /\ work.stage = "done"
    BY DEF Finish
  <1>2. session[p] \in Connected /\ peerTip[p] # Setup
    BY <1>1, WorkUnderWay
  <1>3. session' = [session EXCEPT ![p] = s] /\ active' = active
    BY DEF Finish, Update
  <1>4. /\ tip \in Block /\ tip' = tip /\ gen' = gen /\ incidents' \in Nat
        /\ resetting' = resetting /\ pruned' = pruned /\ hydrated' \in BOOLEAN
        /\ peerTip' \in [Peers -> Block] /\ peerTip' = peerTip
    BY DEF Finish, CatchUpInv, CatchUpTypeInv
  <1>5. after \in {"no", "yes", "overdue"}
    BY <1>2 DEF AskedAfter, Connected
  <1> HIDE DEF satisfied, after
  <1>6. rested \in Connected /\ rested.work = Idle
    BY <1>2, <1>5 DEF Connected
  <1> HIDE DEF rested
  <1>7. s \in Connected /\ s.work = Idle
    BY <1>4, <1>6, StartCatchupType
  <1> HIDE DEF s
  <1>8. IsSound(s) /\ ~HoldsClaim(s)
    BY <1>7, IdleIsSound
  <1>9. ~HoldsClaim(session[p])
    BY <1>1 DEF HoldsClaim
  <1>10. ClaimInv'
    BY <1>3, <1>8, <1>9, ClaimsKept DEF CatchUpInv
  <1> QED
    BY <1>2, <1>3, <1>4, <1>7, <1>8, <1>10, SessionStepKeeps

-----------------------------------------------------------------------------
(* The steps of the node.                                                  *)

\* A step that leaves every session where it is.
LEMMA SessionsUntouched ==
    ASSUME CatchUpInv, session' = session, active' = active, peerTip' = peerTip,
           tip' \in Block, gen' \in Nat, incidents' \in Nat,
           resetting' \in BOOLEAN, pruned' = pruned, hydrated' \in BOOLEAN
    PROVE  CatchUpInv'
  <1>1. CatchUpTypeInv'
    BY DEF CatchUpInv, CatchUpTypeInv
  <1>2. WorkInv'
    BY DEF CatchUpInv, WorkInv, WorkIsSound, Working, Extends, Blocks, NotWorse, Better
  <1>3. ClaimInv'
    BY ClaimsUntouched DEF CatchUpInv
  <1> QED
    BY <1>1, <1>2, <1>3 DEF CatchUpInv

LEMMA ResetAsksPeersKeeps ==
    ASSUME CatchUpInv, ResetAsksPeers
    PROVE  CatchUpInv'
  <1> DEFINE boot == <<[kind |-> "boot"]>>
  <1>1. boot \in Seq(Request)
    BY DEF Request
  <1>2. session' = [p \in Peers |-> IF session[p].up THEN Send(session[p], boot)
                                    ELSE session[p]]
    BY DEF ResetAsksPeers
  <1> HIDE DEF boot
  <1>3. ASSUME NEW p \in Peers, session[p].up
        PROVE  /\ session'[p] \in Connected /\ session'[p].up
               /\ session'[p].work = session[p].work
    <2>1. session[p] \in Connected
      BY <1>3, UpSession DEF CatchUpInv
    <2>2. Send(session[p], boot) \in Connected /\ Send(session[p], boot).work = session[p].work
      BY <1>1, <2>1, SendType
    <2>3. session'[p] = Send(session[p], boot)
      BY <1>2, <1>3
    <2> QED
      BY <2>2, <2>3 DEF Connected
  <1>4. ASSUME NEW p \in Peers, ~session[p].up
        PROVE  session'[p] = Down /\ ~session'[p].up
    BY <1>2, <1>4 DEF CatchUpInv, CatchUpTypeInv, Connected, Down
  <1>5. \A p \in Peers : /\ session'[p].up <=> session[p].up
                         /\ session[p].up => session'[p].work = session[p].work
    BY <1>3, <1>4
  <1>6. CatchUpTypeInv'
    <2>1. session' \in [Peers -> {Down} \cup Connected]
      BY <1>2, <1>3, <1>4
    <2>2. \A p \in Peers : session'[p].up => peerTip'[p] # Setup
      BY <1>5 DEF ResetAsksPeers, CatchUpInv, CatchUpTypeInv
    <2> QED
      BY <2>1, <2>2 DEF ResetAsksPeers, CatchUpInv, CatchUpTypeInv
  <1>7. WorkInv'
    BY <1>5 DEF CatchUpInv, WorkInv, WorkIsSound, Working, Extends, Blocks, NotWorse, Better
  <1>8. ClaimInv'
    <2>1. \A p \in Peers : session'[p].up = session[p].up
      BY <1>3, <1>4 DEF CatchUpInv, CatchUpTypeInv, Connected, Down
    <2> QED
      BY <1>5, <2>1, ClaimsUntouched DEF CatchUpInv, ResetAsksPeers
  <1> QED
    BY <1>6, <1>7, <1>8 DEF CatchUpInv

LEMMA StepKeeps ==
    ASSUME CatchUpInv, [CatchUpNext]_catchUpVars
    PROVE  CatchUpInv'
  <1>1. ASSUME NEW p \in Peers, SessionStep(p)
        PROVE  CatchUpInv'
    BY <1>1, GreetKeeps, TickKeeps, OverdueKeeps, PeerAnswersKeeps, PeerStatusKeeps,
       PeerGrowsKeeps, DisconnectKeeps, ReceiveKeeps, ClaimKeeps, BeginKeeps, ValidateKeeps,
       ApplyKeeps, LocatorWriteFailsKeeps, FinishKeeps DEF SessionStep
  <1>2. CASE HydrationIntervalPasses
    BY <1>2, SessionsUntouched DEF HydrationIntervalPasses, CatchUpInv, CatchUpTypeInv
  <1>3. CASE ResetChain
    <2>1. /\ tip' \in Block /\ gen' \in Nat /\ incidents' \in Nat
          /\ resetting' \in BOOLEAN /\ hydrated' \in BOOLEAN
      BY <1>3 DEF ResetChain, CatchUpInv, CatchUpTypeInv, Block
    <2> QED
      BY <1>3, <2>1, SessionsUntouched DEF ResetChain
  <1>4. CASE ResetAsksPeers
    BY <1>4, ResetAsksPeersKeeps
  <1>5. CASE MinesOwnBlock
    <2>1. /\ tip' \in Block /\ gen' \in Nat /\ incidents' \in Nat
          /\ resetting' \in BOOLEAN /\ hydrated' \in BOOLEAN
      BY <1>5 DEF MinesOwnBlock, CatchUpInv, CatchUpTypeInv, Block
    <2> QED
      BY <1>5, <2>1, SessionsUntouched DEF MinesOwnBlock
  <1>6. CASE UNCHANGED catchUpVars
    BY <1>6, SessionsUntouched DEF catchUpVars, CatchUpInv, CatchUpTypeInv
  <1> QED
    BY <1>1, <1>2, <1>3, <1>4, <1>5, <1>6 DEF CatchUpNext

-----------------------------------------------------------------------------
(* The theorems.                                                           *)

\* process_envelope, claim_chain_validation and their guards: sessions,
\* messages and answers under validation stay sound, whatever is lost, reset,
\* mined or answered late in between.
THEOREM CatchUpInvHolds == CatchUpSpec => []CatchUpInv
  <1>1. CatchUpInit => CatchUpInv
    BY InvariantInitially
  <1>2. CatchUpInv /\ [CatchUpNext]_catchUpVars => CatchUpInv'
    BY StepKeeps
  <1> QED
    BY <1>1, <1>2, PTL DEF CatchUpSpec

\* claim_chain_validation and the guards of a session: every claimed key and
\* every permit belongs to exactly one session that still works under it.
THEOREM ClaimsAreHeldHolds == CatchUpSpec => []ClaimsAreHeld
  <1>1. CatchUpInv => ClaimsAreHeld
    BY HoldersCounted DEF CatchUpInv, ClaimInv, ClaimsAreHeld
  <1> QED
    BY <1>1, CatchUpInvHolds, PTL

\* import_verified_ledger after an unlocked validation: every step that moves
\* the tip improves the chain, unless the operator deletes it.
THEOREM NeverWorseChainHolds == CatchUpSpec => NeverWorseChain
  <1> DEFINE Improves == tip' # tip => \/ tip = Setup /\ tip' = Genesis
                                       \/ tip # Setup /\ Better(tip', tip)
                                       \/ tip' = Setup /\ gen' = gen + 1
  <1>1. CatchUpInv /\ [CatchUpNext]_catchUpVars => [Improves]_catchUpVars
    <2> SUFFICES ASSUME CatchUpInv, CatchUpNext, tip' # tip
                 PROVE  Improves
      BY DEF catchUpVars
    <2>1. ASSUME NEW p \in Peers, Apply(p)
          PROVE  Improves
      <3>1. session[p].up /\ session[p].work.stage = "apply"
        BY <2>1 DEF Apply
      <3>2. session[p].work \in ActiveWork /\ WorkIsSound(session[p].work)
        BY <3>1, WorkUnderWay
      <3>3. NotWorse(session[p].work.result, session[p].work.base)
        BY <3>1, <3>2 DEF WorkIsSound
      <3>4. tip \in Block /\ tip' = ApplyResult(session[p].work)
        BY <2>1 DEF Apply, CatchUpInv, CatchUpTypeInv
      <3> QED
        BY <3>2, <3>3, <3>4, ApplyImproves
    <2>2. CASE ResetChain
      BY <2>2 DEF ResetChain
    <2>3. CASE MinesOwnBlock
      <3>1. PICK b \in DOMAIN Parent : Parent[b] = tip /\ tip' = b
        BY <2>3 DEF MinesOwnBlock
      <3>2. b \in Block /\ tip # Setup /\ Height[tip] \in Nat /\ Height[b] = Height[tip] + 1
        BY <3>1, HeightDef, TreeAssumption DEF Block
      <3> QED
        BY <3>1, <3>2 DEF Better
    <2> QED
      BY <2>1, <2>2, <2>3
         DEF CatchUpNext, SessionStep, Greet, Tick, Overdue, PeerAnswers, PeerStatus, PeerGrows,
             Disconnect, Receive, Claim, Begin, Validate, LocatorWriteFails, Finish,
             HydrationIntervalPasses, ResetAsksPeers
  <1>2. CatchUpSpec => [][Improves]_catchUpVars
    BY <1>1, CatchUpInvHolds, PTL DEF CatchUpSpec
  <1> QED
    BY <1>2 DEF NeverWorseChain
=============================================================================
