---------------------------- MODULE LineageProofs ----------------------------
(* That the lineage of a ledger is sound: its two indexes say what its       *)
(* outputs and their roots say, its retargets stay within their bounds, and  *)
(* nobody and no root sits on a burn committee twice. The invariant is       *)
(* LineageInv, at the end.                                                   *)
EXTENDS LedgerProofs

-----------------------------------------------------------------------------
(* Lineage.                                                                  *)

\* The outputs of a root, and what they are worth.
Rooted(lineage, r) == {o \in DOMAIN lineage : lineage[o] = r}
Roots(lineage) == {lineage[o] : o \in DOMAIN lineage}
Worth(lineage, u, r) == Sum([o \in Rooted(lineage, r) |-> u[o].amount], Rooted(lineage, r))

\* The outputs that an owner holds of a root.
Holders(lineage, u) == {<<lineage[o], u[o].owner>> : o \in DOMAIN lineage}
HeldBy(lineage, u, k) == {p \in Rooted(lineage, k[1]) : u[p].owner = k[2]}

\* Both indexes are what the outputs and their roots say.
ValuesExact(lineage, values, u) == values = [r \in Roots(lineage) |-> Worth(lineage, u, r)]
OwnersExact(lineage, owners, u) ==
    owners = [k \in Holders(lineage, u) |-> [o \in HeldBy(lineage, u, k) |-> u[o].amount]]

\* Only outputs that are worth something have a root.
Tracked(lineage, u) ==
    /\ lineage = [o \in DOMAIN lineage |-> lineage[o]]
    /\ DOMAIN lineage \subseteq DOMAIN u
    /\ \A o \in DOMAIN lineage : u[o].amount > 0

\* The worth of a root is an unsigned sum of amounts, and of none only without outputs.
LEMMA WorthIs ==
    ASSUME NEW u, Coins(u), NEW l, Tracked(l, u), NEW r
    PROVE  /\ IsFiniteSet(Rooted(l, r)) /\ Rooted(l, r) \subseteq DOMAIN u
           /\ Worth(l, u, r) = Sum(Amount(u), Rooted(l, r))
           /\ Worth(l, u, r) \in Nat
           /\ Worth(l, u, r) # 0 <=> r \in Roots(l)
PROOF
<1> DEFINE S == Rooted(l, r)
           f == Amount(u)
           g == [o \in S |-> u[o].amount]
<1>1. S \subseteq DOMAIN u /\ IsFiniteSet(S)
    <2>1. S \subseteq DOMAIN u
        BY DEF Tracked, Rooted
    <2> HIDE DEF S
    <2> QED BY <2>1, FS_Subset DEF Coins
<1>2. \A o \in S : g[o] = f[o] /\ f[o] \in Nat /\ f[o] > 0
    <2>1. \A o \in S : o \in DOMAIN l /\ o \in DOMAIN u
        BY <1>1 DEF Rooted
    <2> HIDE DEF S
    <2> QED BY <2>1 DEF Amount, Coins, Tracked
<1>3. Worth(l, u, r) = Sum(g, S)
    BY DEF Worth
<1> HIDE DEF f, g
<1>4. Sum(g, S) = Sum(f, S)
    <2> HIDE DEF S
    <2> QED BY <1>1, <1>2, SumAgree
<1>5. Sum(f, S) \in Nat
    <2> HIDE DEF S
    <2> QED BY <1>1, <1>2, SumNatSet
<1>6. CASE S = {}
    <2>1. Sum(f, {}) = 0
        BY SumEmpty
    <2>2. r \notin Roots(l)
        BY <1>6 DEF Roots, Rooted
    <2> HIDE DEF S
    <2> QED BY <1>1, <1>3, <1>4, <1>5, <1>6, <2>1, <2>2 DEF S, f
<1>7. CASE S # {}
    <2>1. PICK k \in S : TRUE
        BY <1>7
    <2>2. r \in Roots(l)
        BY <2>1 DEF Roots, Rooted
    <2>3. Sum(f, S) > 0
        <3> HIDE DEF S
        <3> QED BY <1>1, <1>2, <2>1, SumPositiveSet
    <2> HIDE DEF S
    <2> QED BY <1>1, <1>3, <1>4, <1>5, <2>2, <2>3 DEF S, f
<1> QED BY <1>6, <1>7

\* The outputs of a root that are spent.
Gone(l, spent, r) == {o \in spent \cap DOMAIN l : l[o] = r}

\* What a root is worth falls by what leaves.
LEMMA WorthLeft ==
    ASSUME NEW u, Coins(u), NEW l, Tracked(l, u), NEW spent, NEW r
    PROVE  /\ Tracked(LineageLess(l, spent), Drop(u, spent))
           /\ Rooted(LineageLess(l, spent), r) = Rooted(l, r) \ Gone(l, spent, r)
           /\ Worth(LineageLess(l, spent), Drop(u, spent), r)
                = Worth(l, u, r) - Sum([o \in Gone(l, spent, r) |-> u[o].amount], Gone(l, spent, r))
PROOF
<1> DEFINE l2 == LineageLess(l, spent)
           u2 == Drop(u, spent)
           gone == {o \in spent \cap DOMAIN l : l[o] = r}
           S == Rooted(l, r)
           S2 == Rooted(l2, r)
           f == Amount(u)
           g == [o \in gone |-> u[o].amount]
           h == [o \in S2 |-> u2[o].amount]
<1>1. /\ DOMAIN l2 = DOMAIN l \ spent /\ \A o \in DOMAIN l2 : l2[o] = l[o]
      /\ l2 = [o \in DOMAIN l2 |-> l2[o]]
    BY DEF LineageLess, Drop
<1>2. DOMAIN u2 = DOMAIN u \ spent /\ \A o \in DOMAIN u2 : u2[o] = u[o]
    BY DEF Drop
<1>3. Tracked(l2, u2)
    <2> HIDE DEF l2, u2
    <2> QED BY <1>1, <1>2 DEF Tracked
<1>4. S2 = S \ gone /\ gone \subseteq S
    <2> HIDE DEF l2
    <2> QED BY <1>1 DEF Rooted
<1>5. IsFiniteSet(S) /\ S \subseteq DOMAIN u /\ Worth(l, u, r) = Sum(f, S)
    <2> HIDE DEF f
    <2> QED BY WorthIs DEF f
<1>6. IsFiniteSet(S2) /\ IsFiniteSet(gone)
    <2> HIDE DEF S, S2, gone
    <2> QED BY <1>4, <1>5, FS_Subset
<1>7. \A o \in S : f[o] \in Int
    <2> HIDE DEF S
    <2> QED BY <1>5 DEF Amount, Coins
<1>8. \A o \in gone : g[o] = f[o]
    <2>1. gone \subseteq DOMAIN u
        BY <1>4, <1>5
    <2> HIDE DEF gone
    <2> QED BY <2>1 DEF Amount
<1>9. \A o \in S2 : h[o] = f[o]
    <2>1. \A o \in S2 : o \in DOMAIN u2 /\ o \in DOMAIN u
        <3> HIDE DEF l2, u2
        <3> QED BY <1>3, <1>4, <1>5 DEF Rooted, Tracked
    <2> HIDE DEF S2, u2
    <2> QED BY <1>2, <2>1 DEF Amount
<1>10. Worth(l2, u2, r) = Sum(h, S2)
    <2> HIDE DEF l2, u2
    <2> QED BY DEF Worth
<1> HIDE DEF f, g, h, l2, u2, S, S2
<1>11. Sum(h, S2) = Sum(f, S2)
    BY <1>6, <1>9, SumAgree
<1>12. Sum(g, gone) = Sum(f, gone)
    <2> HIDE DEF gone
    <2> QED BY <1>6, <1>8, SumAgree
<1>13. Sum(f, S) = Sum(f, S2) + Sum(f, gone) /\ Sum(f, S2) \in Int /\ Sum(f, gone) \in Int
    <2>1. S = S2 \cup gone /\ S2 \cap gone = {}
        BY <1>4
    <2> HIDE DEF gone
    <2>2. Sum(f, S2 \cup gone) = Sum(f, S2) + Sum(f, gone)
        BY <1>6, <1>7, <2>1, SumUnion
    <2>3. Sum(f, S2) \in Int
        BY <1>6, <1>7, <2>1, SumInt
    <2>4. Sum(f, gone) \in Int
        BY <1>6, <1>7, <2>1, SumInt
    <2> QED BY <2>1, <2>2, <2>3, <2>4
<1>14. Worth(l2, u2, r) = Worth(l, u, r) - Sum(g, gone)
    <2> HIDE DEF gone
    <2> QED BY <1>5, <1>10, <1>11, <1>12, <1>13
<1> QED BY <1>3, <1>4, <1>14 DEF l2, u2, S, S2, g, Gone

\* Spending keeps both indexes exact.
LEMMA SpendIndexed ==
    ASSUME NEW u, Coins(u), NEW l, Tracked(l, u), NEW spent,
           NEW v, ValuesExact(l, v, u), NEW w, OwnersExact(l, w, u)
    PROVE  /\ Coins(Drop(u, spent)) /\ Tracked(LineageLess(l, spent), Drop(u, spent))
           /\ ValuesExact(LineageLess(l, spent), ValuesLess(l, v, u, spent), Drop(u, spent))
           /\ OwnersExact(LineageLess(l, spent), OwnersLess(l, w, u, spent), Drop(u, spent))
PROOF
<1> DEFINE l2 == LineageLess(l, spent)
           u2 == Drop(u, spent)
           gone(r) == Gone(l, spent, r)
           value(r) == v[r] - Sum([o \in gone(r) |-> u[o].amount], gone(r))
           held(k) == Drop(w[k], {o \in gone(k[1]) : u[o].owner = k[2]})
           now(k) == [o \in HeldBy(l2, u2, k) |-> u2[o].amount]
<1>1. /\ DOMAIN l2 = DOMAIN l \ spent /\ \A o \in DOMAIN l2 : l2[o] = l[o]
      /\ l2 = [o \in DOMAIN l2 |-> l2[o]]
    BY DEF LineageLess, Drop
<1>2. DOMAIN u2 = DOMAIN u \ spent /\ \A o \in DOMAIN u2 : u2[o] = u[o]
    BY DEF Drop
<1>3. \A r : /\ Rooted(l2, r) = Rooted(l, r) \ gone(r)
             /\ Worth(l2, u2, r) = Worth(l, u, r) - Sum([o \in gone(r) |-> u[o].amount], gone(r))
    <2> HIDE DEF l2, u2
    <2>1. \A r : /\ Rooted(l2, r) = Rooted(l, r) \ Gone(l, spent, r)
                 /\ Worth(l2, u2, r) = Worth(l, u, r)
                      - Sum([o \in Gone(l, spent, r) |-> u[o].amount], Gone(l, spent, r))
        BY WorthLeft DEF l2, u2
    <2> QED BY <2>1
<1>4. Tracked(l2, u2) /\ Coins(u2)
    <2>1. Tracked(l2, u2)
        BY WorthLeft
    <2>2. IsFiniteSet(DOMAIN u2)
        <3> HIDE DEF u2
        <3> QED BY <1>2, FS_Subset DEF Coins
    <2>3. u2 = [o \in DOMAIN u2 |-> u2[o]]
        BY DEF Drop
    <2> HIDE DEF u2, l2
    <2> QED BY <1>2, <2>1, <2>2, <2>3 DEF Coins
<1>5. \A r \in Roots(l) : value(r) = Worth(l2, u2, r)
    <2> SUFFICES ASSUME NEW r \in Roots(l) PROVE value(r) = Worth(l2, u2, r)
        OBVIOUS
    <2>1. v[r] = Worth(l, u, r)
        BY DEF ValuesExact
    <2> HIDE DEF u2, l2
    <2> QED BY <1>3, <2>1
<1>6. \A r : Worth(l2, u2, r) # 0 <=> r \in Roots(l2)
    <2> HIDE DEF u2, l2
    <2> QED BY <1>4, WorthIs
<1>7. Roots(l2) \subseteq Roots(l)
    <2> HIDE DEF l2
    <2> QED BY <1>1 DEF Roots
<1>8. DOMAIN v = Roots(l)
    BY DEF ValuesExact
<1>9. ValuesLess(l, v, u, spent) = [r \in {r \in DOMAIN v : value(r) # 0} |-> value(r)]
    BY Zenon DEF ValuesLess, Gone
<1>10. ValuesExact(l2, ValuesLess(l, v, u, spent), u2)
    <2> HIDE DEF value, u2, l2
    <2>1. {r \in DOMAIN v : value(r) # 0} = Roots(l2)
        BY <1>5, <1>6, <1>7, <1>8
    <2>2. ValuesLess(l, v, u, spent) = [r \in Roots(l2) |-> value(r)]
        BY <1>9, <2>1
    <2>3. [r \in Roots(l2) |-> value(r)] = [r \in Roots(l2) |-> Worth(l2, u2, r)]
        BY <1>5, <1>7
    <2> QED BY <2>2, <2>3 DEF ValuesExact
<1>11. DOMAIN w = Holders(l, u) /\ \A k \in Holders(l, u) : w[k] = [o \in HeldBy(l, u, k) |-> u[o].amount]
    BY DEF OwnersExact
<1>12. \A k : HeldBy(l2, u2, k) = HeldBy(l, u, k) \ {o \in gone(k[1]) : u[o].owner = k[2]}
    <2> SUFFICES ASSUME NEW k
                 PROVE  HeldBy(l2, u2, k) = HeldBy(l, u, k) \ {o \in gone(k[1]) : u[o].owner = k[2]}
        OBVIOUS
    <2>1. Rooted(l2, k[1]) = Rooted(l, k[1]) \ gone(k[1])
        BY <1>3
    <2>2. \A o \in Rooted(l2, k[1]) : u2[o] = u[o]
        <3>1. \A o \in Rooted(l2, k[1]) : o \in DOMAIN u2
            <4> HIDE DEF u2, l2
            <4> QED BY <1>4 DEF Rooted, Tracked
        <3> HIDE DEF u2, l2
        <3> QED BY <1>2, <3>1
    <2> HIDE DEF u2, l2, gone
    <2> QED BY <2>1, <2>2 DEF HeldBy
<1>13. \A k \in Holders(l, u) : held(k) = now(k)
    <2> SUFFICES ASSUME NEW k \in Holders(l, u) PROVE held(k) = now(k)
        OBVIOUS
    <2> DEFINE out == {o \in gone(k[1]) : u[o].owner = k[2]}
               H == HeldBy(l, u, k)
               H2 == HeldBy(l2, u2, k)
    <2>1. w[k] = [o \in H |-> u[o].amount]
        BY <1>11
    <2>2. H2 = H \ out
        BY <1>12
    <2>3. \A o \in H2 : u2[o] = u[o]
        <3>1. \A o \in H2 : o \in DOMAIN u2
            <4> HIDE DEF u2, l2
            <4> QED BY <1>4 DEF HeldBy, Rooted, Tracked
        <3> HIDE DEF u2, l2, H2
        <3> QED BY <1>2, <3>1
    <2>4. held(k) = Drop(w[k], out) /\ now(k) = [o \in H2 |-> u2[o].amount]
        OBVIOUS
    <2> HIDE DEF out, H, H2, u2, l2, held, now
    <2>5. Drop(w[k], out) = [o \in H2 |-> u2[o].amount]
        BY <2>1, <2>2, <2>3 DEF Drop
    <2> QED BY <2>4, <2>5
<1>14. \A k : DOMAIN now(k) = HeldBy(l2, u2, k)
    OBVIOUS
<1>15. \A k \in Holders(l, u) : DOMAIN held(k) # {} <=> k \in Holders(l2, u2)
    <2> SUFFICES ASSUME NEW k \in Holders(l, u)
                 PROVE  HeldBy(l2, u2, k) # {} <=> k \in Holders(l2, u2)
        <3> HIDE DEF held, now
        <3> QED BY <1>13, <1>14
    <2>1. PICK o \in DOMAIN l : k = <<l[o], u[o].owner>>
        BY DEF Holders
    <2> HIDE DEF u2, l2
    <2>2. ASSUME NEW p \in HeldBy(l2, u2, k) PROVE k \in Holders(l2, u2)
        <3>1. p \in DOMAIN l2 /\ l2[p] = k[1] /\ u2[p].owner = k[2]
            BY DEF HeldBy, Rooted
        <3>2. k = <<l2[p], u2[p].owner>>
            BY <2>1, <3>1
        <3> QED BY <3>1, <3>2 DEF Holders
    <2>3. ASSUME k \in Holders(l2, u2) PROVE HeldBy(l2, u2, k) # {}
        <3>1. PICK p \in DOMAIN l2 : k = <<l2[p], u2[p].owner>>
            BY <2>3 DEF Holders
        <3>2. p \in HeldBy(l2, u2, k)
            BY <3>1 DEF HeldBy, Rooted
        <3> QED BY <3>2
    <2> QED BY <2>2, <2>3
<1>16. Holders(l2, u2) \subseteq Holders(l, u)
    <2> SUFFICES ASSUME NEW o \in DOMAIN l2 PROVE <<l2[o], u2[o].owner>> \in Holders(l, u)
        BY DEF Holders
    <2>1. o \in DOMAIN u2
        <3> HIDE DEF u2, l2
        <3> QED BY <1>4 DEF Tracked
    <2> HIDE DEF u2, l2
    <2> QED BY <1>1, <1>2, <2>1 DEF Holders
<1>17. OwnersLess(l, w, u, spent) = [k \in {k \in DOMAIN w : DOMAIN held(k) # {}} |-> held(k)]
    BY Zenon DEF OwnersLess, Gone
<1>18. OwnersExact(l2, OwnersLess(l, w, u, spent), u2)
    <2>0. \A k : now(k) = [o \in HeldBy(l2, u2, k) |-> u2[o].amount]
        OBVIOUS
    <2> HIDE DEF held, now, u2, l2
    <2>1. {k \in DOMAIN w : DOMAIN held(k) # {}} = Holders(l2, u2)
        BY <1>11, <1>15, <1>16
    <2>2. OwnersLess(l, w, u, spent) = [k \in Holders(l2, u2) |-> held(k)]
        BY <1>17, <2>1
    <2>3. [k \in Holders(l2, u2) |-> held(k)] = [k \in Holders(l2, u2) |-> now(k)]
        BY <1>13, <1>16
    <2>4. OwnersLess(l, w, u, spent) = [k \in Holders(l2, u2) |-> now(k)]
        BY <2>2, <2>3
    <2> QED BY <2>4 DEF OwnersExact, now
<1> QED BY <1>4, <1>10, <1>18

\* Outputs that no root has leave both indexes exact.
LEMMA OutsideIndexed ==
    ASSUME NEW u, Coins(u), NEW l, Tracked(l, u),
           NEW v, ValuesExact(l, v, u), NEW w, OwnersExact(l, w, u),
           NEW c, DOMAIN c \cap DOMAIN u = {}
    PROVE  Tracked(l, Merge(u, c)) /\ ValuesExact(l, v, Merge(u, c)) /\ OwnersExact(l, w, Merge(u, c))
PROOF
<1> DEFINE u2 == Merge(u, c)
<1>1. DOMAIN u2 = DOMAIN u \cup DOMAIN c
    BY DEF Merge
<1>2. DOMAIN l \subseteq DOMAIN u
    BY DEF Tracked
<1>3. \A o \in DOMAIN l : u2[o] = u[o]
    <2>1. \A o \in DOMAIN l : o \in DOMAIN u /\ o \notin DOMAIN c
        BY <1>2
    <2> QED BY <2>1 DEF Merge
<1> HIDE DEF u2
<1>4. Tracked(l, u2)
    BY <1>1, <1>2, <1>3 DEF Tracked
<1>5. \A r : Rooted(l, r) \subseteq DOMAIN l
    BY DEF Rooted
<1>6. \A r : Worth(l, u2, r) = Worth(l, u, r)
    <2> SUFFICES ASSUME NEW r PROVE Worth(l, u2, r) = Worth(l, u, r)
        OBVIOUS
    <2>1. [o \in Rooted(l, r) |-> u2[o].amount] = [o \in Rooted(l, r) |-> u[o].amount]
        BY <1>3, <1>5
    <2> QED BY <2>1 DEF Worth
<1>7. ValuesExact(l, v, u2)
    <2>1. [r \in Roots(l) |-> Worth(l, u2, r)] = [r \in Roots(l) |-> Worth(l, u, r)]
        BY <1>6
    <2> QED BY <2>1 DEF ValuesExact
<1>8. Holders(l, u2) = Holders(l, u)
    BY <1>3 DEF Holders
<1>9. \A k : HeldBy(l, u2, k) = HeldBy(l, u, k) /\ HeldBy(l, u, k) \subseteq DOMAIN l
    BY <1>3, <1>5 DEF HeldBy
<1>10. OwnersExact(l, w, u2)
    <2>1. \A k : [o \in HeldBy(l, u2, k) |-> u2[o].amount] = [o \in HeldBy(l, u, k) |-> u[o].amount]
        BY <1>3, <1>9
    <2> QED BY <1>8, <2>1 DEF OwnersExact
<1> QED BY <1>4, <1>7, <1>10 DEF u2

\* The indexes with some outputs under a root.
Under(l, c, root) == Merge(l, [o \in DOMAIN c |-> root])

\* What joins a root joins its outputs, and no other.
Joins(u, l, c, root, l2, u2) ==
    /\ Tracked(l2, u2)
    /\ DOMAIN l2 = DOMAIN l \cup DOMAIN c
    /\ \A o \in DOMAIN l : o \notin DOMAIN c /\ l2[o] = l[o] /\ u2[o] = u[o]
    /\ \A o \in DOMAIN c : l2[o] = root /\ u2[o] = c[o]
    /\ \A r : r # root => Rooted(l2, r) = Rooted(l, r)
    /\ Rooted(l2, root) = Rooted(l, root) \cup DOMAIN c

\* The outputs of a root once more of them come.
LEMMA RootedWith ==
    ASSUME NEW u, NEW l, Tracked(l, u), NEW c, DOMAIN c \cap DOMAIN u = {}, AllWorth(c), NEW root,
           NEW l2, l2 = Under(l, c, root), NEW u2, u2 = Merge(u, c)
    PROVE  Joins(u, l, c, root, l2, u2)
PROOF
<1>1. DOMAIN l2 = DOMAIN l \cup DOMAIN c /\ DOMAIN u2 = DOMAIN u \cup DOMAIN c
    BY DEF Under, Merge
<1>2. \A o \in DOMAIN l : o \in DOMAIN u /\ o \notin DOMAIN c
    BY DEF Tracked
<1>3. \A o \in DOMAIN l : l2[o] = l[o] /\ u2[o] = u[o]
    BY <1>1, <1>2 DEF Under, Merge
<1>4. \A o \in DOMAIN c : l2[o] = root /\ u2[o] = c[o]
    BY <1>1 DEF Under, Merge
<1>5. l2 = [o \in DOMAIN l2 |-> l2[o]]
    BY DEF Under, Merge
<1>6. Tracked(l2, u2)
    BY <1>1, <1>2, <1>3, <1>4, <1>5 DEF Tracked, AllWorth
<1>7. \A r : r # root => Rooted(l2, r) = Rooted(l, r)
    BY <1>1, <1>2, <1>3, <1>4 DEF Rooted
<1>8. Rooted(l2, root) = Rooted(l, root) \cup DOMAIN c
    BY <1>1, <1>2, <1>3, <1>4 DEF Rooted
<1> QED BY <1>1, <1>2, <1>3, <1>4, <1>6, <1>7, <1>8 DEF Joins

\* The value of a root grows by what joins it.
ValuesUnder(v, c, root) ==
    Merge(v, [r \in {root} |->
        (IF root \in DOMAIN v THEN v[root] ELSE 0) + Sum(Amount(c), DOMAIN c)])

\* And stays exact.
LEMMA ValuesUnderExact ==
    ASSUME NEW u, Coins(u), NEW l, Tracked(l, u), NEW v, ValuesExact(l, v, u),
           NEW c, Coins(c), DOMAIN c \cap DOMAIN u = {}, AllWorth(c), DOMAIN c # {}, NEW root
    PROVE  ValuesExact(Under(l, c, root), ValuesUnder(v, c, root), Merge(u, c))
PROOF
<1> DEFINE l2 == Under(l, c, root)
           u2 == Merge(u, c)
           S == Rooted(l, root)
           C == DOMAIN c
           f == Amount(u2)
           more == Sum(Amount(c), C)
<1>0. DOMAIN u2 = DOMAIN u \cup C
    BY DEF Merge
<1>00. l2 = Under(l, c, root) /\ u2 = Merge(u, c)
    OBVIOUS
<1> HIDE DEF l2, u2
<1>1. /\ Tracked(l2, u2)
      /\ DOMAIN l2 = DOMAIN l \cup C
      /\ \A o \in DOMAIN l : o \notin C /\ l2[o] = l[o] /\ u2[o] = u[o]
      /\ \A o \in C : l2[o] = root /\ u2[o] = c[o]
      /\ \A r : r # root => Rooted(l2, r) = Rooted(l, r)
      /\ Rooted(l2, root) = S \cup C
    <2>1. Joins(u, l, c, root, l2, u2)
        BY <1>00, RootedWith
    <2> QED BY <2>1 DEF Joins
<1>2. Roots(l2) = Roots(l) \cup {root}
    <2>1. PICK o \in C : TRUE
        OBVIOUS
    <2> QED BY <1>1, <2>1 DEF Roots
<1>3. DOMAIN v = Roots(l) /\ \A r \in Roots(l) : v[r] = Worth(l, u, r)
    BY DEF ValuesExact
<1>4. Coins(u2)
    BY TotalMerge DEF u2
<1>5. ASSUME NEW r \in Roots(l), r # root PROVE Worth(l2, u2, r) = Worth(l, u, r)
    <2>1. Rooted(l2, r) = Rooted(l, r) /\ Rooted(l, r) \subseteq DOMAIN l
        BY <1>1, <1>5 DEF Rooted
    <2>2. [o \in Rooted(l2, r) |-> u2[o].amount] = [o \in Rooted(l, r) |-> u[o].amount]
        BY <1>1, <2>1
    <2> QED BY <2>1, <2>2 DEF Worth
<1>6. Worth(l2, u2, root) = Worth(l, u, root) + more
    <2>1. /\ IsFiniteSet(S) /\ S \subseteq DOMAIN u /\ Worth(l, u, root) = Sum(Amount(u), S)
          /\ Worth(l2, u2, root) = Sum(f, S \cup C) /\ S \subseteq DOMAIN l
        <3>1. IsFiniteSet(S) /\ S \subseteq DOMAIN u /\ Worth(l, u, root) = Sum(Amount(u), S)
            BY WorthIs
        <3>2. Worth(l2, u2, root) = Sum(f, Rooted(l2, root))
            <4>1. Tracked(l2, u2)
                BY <1>1
            <4> QED BY <1>4, <4>1, WorthIs
        <3>3. S \subseteq DOMAIN l
            BY DEF Rooted
        <3> QED BY <1>1, <3>1, <3>2, <3>3
    <2>2. IsFiniteSet(C) /\ S \cap C = {}
        BY <1>1, <2>1 DEF Coins
    <2>3. \A o \in S \cup C : f[o] \in Int
        BY <1>0, <1>4, <2>1 DEF Amount, Coins
    <2>4. \A o \in S : f[o] = Amount(u)[o]
        <3> HIDE DEF S
        <3> QED BY <1>0, <1>1, <2>1 DEF Amount
    <2>5. \A o \in C : f[o] = Amount(c)[o]
        BY <1>0, <1>1 DEF Amount
    <2> HIDE DEF S, C, f
    <2>6. Sum(f, S \cup C) = Sum(f, S) + Sum(f, C)
        BY <2>1, <2>2, <2>3, SumUnion
    <2>7. Sum(f, S) = Sum(Amount(u), S)
        BY <2>1, <2>4, SumAgree
    <2>8. Sum(f, C) = more
        BY <2>2, <2>5, SumAgree DEF more
    <2> QED BY <2>1, <2>6, <2>7, <2>8
<1>7. (IF root \in DOMAIN v THEN v[root] ELSE 0) = Worth(l, u, root)
    <2>1. Worth(l, u, root) # 0 <=> root \in Roots(l)
        BY WorthIs
    <2> QED BY <1>3, <2>1
<1> DEFINE grown == [r \in {root} |-> (IF root \in DOMAIN v THEN v[root] ELSE 0) + more]
<1>8. DOMAIN grown = {root} /\ grown[root] = Worth(l2, u2, root)
    BY <1>6, <1>7
<1>9. ValuesUnder(v, c, root) = Merge(v, grown)
    BY DEF ValuesUnder
<1> HIDE DEF grown, more
<1>10. Merge(v, grown) = [r \in Roots(l2) |-> Worth(l2, u2, r)]
    <2>1. DOMAIN v \cup DOMAIN grown = Roots(l2)
        BY <1>2, <1>3, <1>8
    <2>2. \A r \in Roots(l2) : (IF r \in DOMAIN grown THEN grown[r] ELSE v[r]) = Worth(l2, u2, r)
        BY <1>2, <1>3, <1>5, <1>8
    <2> QED BY <2>1, <2>2 DEF Merge
<1> QED BY <1>9, <1>10 DEF ValuesExact, l2, u2

\* What an owner holds of a root grows by what joins it.
OfOwner(c, k) == {o \in DOMAIN c : c[o].owner = k[2]}
OwnerKeys(c, root) == {<<root, c[o].owner>> : o \in DOMAIN c}
OwnersUnder(w, c, root) ==
    Merge(w, [k \in OwnerKeys(c, root) |->
        Merge(IF k \in DOMAIN w THEN w[k] ELSE << >>, [o \in OfOwner(c, k) |-> Amount(c)[o]])])

\* And stays exact.
LEMMA OwnersUnderExact ==
    ASSUME NEW u, NEW l, Tracked(l, u), NEW w, OwnersExact(l, w, u),
           NEW c, DOMAIN c \cap DOMAIN u = {}, AllWorth(c), NEW root
    PROVE  OwnersExact(Under(l, c, root), OwnersUnder(w, c, root), Merge(u, c))
PROOF
<1> DEFINE l2 == Under(l, c, root)
           u2 == Merge(u, c)
           keys == OwnerKeys(c, root)
           H(k) == HeldBy(l, u, k)
           H2(k) == HeldBy(l2, u2, k)
           now(k) == [o \in H2(k) |-> u2[o].amount]
           grown == [k \in keys |->
                Merge(IF k \in DOMAIN w THEN w[k] ELSE << >>, [o \in OfOwner(c, k) |-> Amount(c)[o]])]
<1>0. l2 = Under(l, c, root) /\ u2 = Merge(u, c)
    OBVIOUS
<1> HIDE DEF l2, u2
<1>1. /\ DOMAIN l2 = DOMAIN l \cup DOMAIN c
      /\ \A o \in DOMAIN l : o \notin DOMAIN c /\ l2[o] = l[o] /\ u2[o] = u[o]
      /\ \A o \in DOMAIN c : l2[o] = root /\ u2[o] = c[o]
      /\ \A r : r # root => Rooted(l2, r) = Rooted(l, r)
      /\ Rooted(l2, root) = Rooted(l, root) \cup DOMAIN c
    <2>1. Joins(u, l, c, root, l2, u2)
        BY <1>0, RootedWith
    <2> QED BY <2>1 DEF Joins
<1>2. DOMAIN w = Holders(l, u) /\ \A k \in Holders(l, u) : w[k] = [o \in H(k) |-> u[o].amount]
    BY DEF OwnersExact
<1>3. Holders(l2, u2) = Holders(l, u) \cup keys
    BY <1>1 DEF Holders, OwnerKeys
<1>4. ASSUME NEW k, k[1] = root PROVE H2(k) = H(k) \cup OfOwner(c, k)
    <2>1. H2(k) = {p \in Rooted(l, root) \cup DOMAIN c : u2[p].owner = k[2]}
        BY <1>1, <1>4 DEF HeldBy
    <2>2. \A p \in Rooted(l, root) : u2[p] = u[p]
        BY <1>1 DEF Rooted
    <2>3. H(k) = {p \in Rooted(l, root) : u[p].owner = k[2]}
        BY <1>4 DEF HeldBy
    <2>4. OfOwner(c, k) = {p \in DOMAIN c : u2[p].owner = k[2]}
        BY <1>1 DEF OfOwner
    <2> HIDE DEF H, H2
    <2> QED BY <2>1, <2>2, <2>3, <2>4
<1>5. ASSUME NEW k, k[1] # root PROVE H2(k) = H(k)
    <2>1. Rooted(l2, k[1]) = Rooted(l, k[1])
        BY <1>1, <1>5
    <2>2. \A p \in Rooted(l, k[1]) : u2[p] = u[p]
        BY <1>1 DEF Rooted
    <2> QED BY <2>1, <2>2 DEF HeldBy
<1>6. ASSUME NEW k \in Holders(l, u), k \notin keys PROVE w[k] = now(k)
    <2>1. H2(k) = H(k)
        <3>1. CASE k[1] = root
            <4>1. PICK o \in DOMAIN l : k = <<l[o], u[o].owner>>
                BY DEF Holders
            <4>2. OfOwner(c, k) = {}
                <5> SUFFICES ASSUME NEW p \in OfOwner(c, k) PROVE FALSE
                    OBVIOUS
                <5>1. p \in DOMAIN c /\ c[p].owner = k[2]
                    BY DEF OfOwner
                <5>2. k = <<root, c[p].owner>>
                    BY <3>1, <4>1, <5>1
                <5> QED BY <1>6, <5>1, <5>2 DEF OwnerKeys
            <4> HIDE DEF H, H2
            <4> QED BY <1>4, <3>1, <4>2
        <3>2. CASE k[1] # root
            <4> HIDE DEF H, H2
            <4> QED BY <1>5, <3>2
        <3> QED BY <3>1, <3>2
    <2>2. \A o \in H(k) : u2[o] = u[o]
        BY <1>1 DEF HeldBy, Rooted
    <2>3. w[k] = [o \in H(k) |-> u[o].amount]
        BY <1>2
    <2>4. now(k) = [o \in H2(k) |-> u2[o].amount]
        OBVIOUS
    <2> HIDE DEF H, H2, now
    <2> QED BY <2>1, <2>2, <2>3, <2>4
<1>7. ASSUME NEW k \in keys PROVE grown[k] = now(k)
    <2>1. k[1] = root
        BY DEF OwnerKeys
    <2>2. H2(k) = H(k) \cup OfOwner(c, k)
        <3> HIDE DEF H, H2
        <3> QED BY <1>4, <2>1
    <2> DEFINE old == IF k \in DOMAIN w THEN w[k] ELSE << >>
    <2>3. DOMAIN old = H(k) /\ \A o \in H(k) : old[o] = u[o].amount
        <3>1. CASE k \in DOMAIN w
            BY <1>2, <3>1
        <3>2. CASE k \notin DOMAIN w
            <4>1. H(k) = {}
                <5> SUFFICES ASSUME NEW o \in H(k) PROVE FALSE
                    OBVIOUS
                <5>1. o \in DOMAIN l /\ l[o] = k[1] /\ u[o].owner = k[2]
                    BY DEF HeldBy, Rooted
                <5>2. k = <<k[1], k[2]>>
                    BY DEF OwnerKeys
                <5>3. k \in Holders(l, u)
                    BY <5>1, <5>2 DEF Holders
                <5> QED BY <1>2, <3>2, <5>3
            <4> QED BY <3>2, <4>1
        <3> QED BY <3>1, <3>2
    <2>4. \A o \in H(k) : u2[o] = u[o] /\ o \notin DOMAIN c
        BY <1>1 DEF HeldBy, Rooted
    <2>5. \A o \in OfOwner(c, k) : u2[o] = c[o] /\ o \in DOMAIN c /\ Amount(c)[o] = c[o].amount
        BY <1>1 DEF OfOwner, Amount
    <2> DEFINE new == [o \in OfOwner(c, k) |-> Amount(c)[o]]
    <2>6. grown[k] = Merge(old, new)
        OBVIOUS
    <2>7. DOMAIN new = OfOwner(c, k) /\ \A o \in OfOwner(c, k) : new[o] = Amount(c)[o]
        OBVIOUS
    <2>8. now(k) = [o \in H2(k) |-> u2[o].amount]
        OBVIOUS
    <2>9. \A o \in H(k) : o \notin OfOwner(c, k)
        BY <2>4 DEF OfOwner
    <2> HIDE DEF H, H2, now, grown, old, new
    <2>10. Merge(old, new) = [o \in H2(k) |-> u2[o].amount]
        BY <2>2, <2>3, <2>4, <2>5, <2>7, <2>9 DEF Merge
    <2> QED BY <2>6, <2>8, <2>10
<1>8. DOMAIN grown = keys
    OBVIOUS
<1>9. OwnersUnder(w, c, root) = Merge(w, grown)
    BY DEF OwnersUnder
<1>10. \A k : now(k) = [o \in H2(k) |-> u2[o].amount]
    OBVIOUS
<1> HIDE DEF grown, keys, H, now
<1>11. Merge(w, grown) = [k \in Holders(l2, u2) |-> now(k)]
    <2> HIDE DEF H2
    <2> QED BY <1>2, <1>3, <1>6, <1>7, <1>8 DEF Merge
<1>12. [k \in Holders(l2, u2) |-> now(k)] = [k \in Holders(l2, u2) |-> [o \in H2(k) |-> u2[o].amount]]
    <2> HIDE DEF H2
    <2> QED BY <1>10
<1>13. OwnersUnder(w, c, root) = [k \in Holders(l2, u2) |-> [o \in HeldBy(l2, u2, k) |-> u2[o].amount]]
    BY <1>9, <1>11, <1>12
<1>14. OwnersExact(l2, OwnersUnder(w, c, root), u2)
    BY <1>13 DEF OwnersExact
<1> QED BY <1>14 DEF l2, u2

\* Both indexes describe the outputs and their roots.
Indexed(u, l, v, w) == Coins(u) /\ Tracked(l, u) /\ ValuesExact(l, v, u) /\ OwnersExact(l, w, u)

LedgerIndexed(L) == IsLedger(L) /\ Indexed(L.utxos, L.lineage, L.values, L.owners)

\* Creating the outputs of a transaction keeps both indexes exact.
LEMMA InsertIndexed ==
    ASSUME PositiveOutputs, NEW L, LedgerIndexed(L), NEW t \in TxIds,
           DOMAIN CreatedOutputs(t) \cap DOMAIN L.utxos = {}, NEW root
    PROVE  LedgerIndexed(InsertOutputsWithLineage(L, t, root))
PROOF
<1> DEFINE M == InsertOutputsWithLineage(L, t, root)
           c == CreatedOutputs(t)
           u == L.utxos
           l == L.lineage
           v == L.values
           w == L.owners
<1>1. IsLedger(M) /\ M.utxos = Merge(u, c)
    BY InsertFields DEF LedgerIndexed
<1>2. /\ M.lineage = (IF Rootless(t, root) THEN l ELSE LineageWith(l, t, root))
      /\ M.values = (IF Rootless(t, root) THEN v ELSE ValuesWith(v, t, root))
      /\ M.owners = (IF Rootless(t, root) THEN w ELSE OwnersWith(w, t, root))
    BY InsertReads DEF LedgerIndexed
<1>3. LineageWith(l, t, root) = Under(l, c, root)
    BY DEF LineageWith, Under
<1>4. ValuesWith(v, t, root) = ValuesUnder(v, c, root)
    BY Zenon DEF ValuesWith, ValuesUnder, Amount
<1>5. OwnersWith(w, t, root) = OwnersUnder(w, c, root)
    BY Zenon DEF OwnersWith, OwnersUnder, OfOwner, OwnerKeys, Amount
<1>6. Coins(c)
    BY CreatedTotal
<1>7. Coins(u) /\ Tracked(l, u) /\ ValuesExact(l, v, u) /\ OwnersExact(l, w, u) /\ AllWorth(c)
    BY DEF LedgerIndexed, Indexed, PositiveOutputs, AllWorth
<1>8. DOMAIN c \cap DOMAIN u = {}
    OBVIOUS
<1> HIDE DEF M, c, u, l, v, w
<1>10. Coins(Merge(u, c))
    BY <1>6, <1>7, <1>8, TotalMerge
<1>11. CASE Rootless(t, root)
    <2>1. Tracked(l, Merge(u, c)) /\ ValuesExact(l, v, Merge(u, c)) /\ OwnersExact(l, w, Merge(u, c))
        BY <1>7, <1>8, OutsideIndexed
    <2> QED BY <1>1, <1>2, <1>10, <1>11, <2>1 DEF LedgerIndexed, Indexed, M
<1>12. CASE ~Rootless(t, root)
    <2>1. DOMAIN c # {}
        BY <1>12 DEF Rootless, c
    <2>2. ValuesExact(Under(l, c, root), ValuesUnder(v, c, root), Merge(u, c))
        BY <1>6, <1>7, <1>8, <2>1, ValuesUnderExact
    <2>3. OwnersExact(Under(l, c, root), OwnersUnder(w, c, root), Merge(u, c))
        BY <1>7, <1>8, OwnersUnderExact
    <2>4. Tracked(Under(l, c, root), Merge(u, c))
        <3>1. Joins(u, l, c, root, Under(l, c, root), Merge(u, c))
            BY <1>7, <1>8, RootedWith
        <3> QED BY <3>1 DEF Joins
    <2> QED BY <1>1, <1>2, <1>3, <1>4, <1>5, <1>10, <1>12, <2>2, <2>3, <2>4 DEF LedgerIndexed, Indexed, M
<1> QED BY <1>11, <1>12

\* Roots are first outputs of mines of a set, at a height, and no mine has two.
RootsFit(l, S) ==
    /\ \A r \in Roots(l) : \E h \in Nat, t \in S : r = <<h, <<t, 1>>>>
    /\ \A r, s \in Roots(l) : r[2] = s[2] => r = s

\* Among some roots there is a newest.
LEMMA NewestIsOne ==
    ASSUME NEW roots, IsFiniteSet(roots), roots # {},
           \A r \in roots : \E h \in Nat, t \in Nat : r = <<h, <<t, 1>>>>
    PROVE  NewestLineageRoot(roots) \in roots
PROOF
<1> DEFINE heights == {r[1] : r \in roots}
           height(r) == r[1]
<1>1. heights \subseteq Nat /\ heights # {}
    OBVIOUS
<1>2. IsFiniteSet(heights)
    <2> DEFINE f == [r \in roots |-> r[1]]
    <2>1. roots \subseteq DOMAIN f /\ heights = {f[r] : r \in roots}
        OBVIOUS
    <2> HIDE DEF f, heights
    <2> QED BY <2>1, FiniteImage
<1>3. PICK H \in heights : \A x \in heights : x <= H
    <2>1. heights \subseteq Int
        BY <1>1
    <2> HIDE DEF heights
    <2> QED BY <1>1, <1>2, <2>1, LargestExists
<1> DEFINE top == {r \in roots : r[1] = H}
           mines == {r[2][1] : r \in top}
<1>4. mines \subseteq Nat /\ mines # {}
    <2>1. PICK r \in roots : r[1] = H
        BY <1>3
    <2> QED BY <2>1
<1>5. IsFiniteSet(mines)
    <2> DEFINE f == [r \in top |-> r[2][1]]
    <2>1. top \subseteq DOMAIN f /\ mines = {f[r] : r \in top}
        OBVIOUS
    <2>2. top \subseteq roots
        OBVIOUS
    <2> HIDE DEF f, mines, top
    <2>3. IsFiniteSet(top)
        BY <2>2, FS_Subset
    <2> QED BY <2>1, <2>3, FiniteImage
<1>6. PICK T \in mines : \A x \in mines : x <= T
    <2>1. mines \subseteq Int
        BY <1>4
    <2> HIDE DEF mines
    <2> QED BY <1>4, <1>5, <2>1, LargestExists
<1>7. PICK m \in roots : m[1] = H /\ m[2][1] = T
    BY <1>6
<1>8. ASSUME NEW s \in roots PROVE ~RootLess(m, s)
    <2>1. PICK h \in Nat, t \in Nat : s = <<h, <<t, 1>>>>
        OBVIOUS
    <2>2. PICK g \in Nat, u \in Nat : m = <<g, <<u, 1>>>>
        OBVIOUS
    <2>3. g = H /\ u = T
        BY <1>7, <2>2
    <2>4. h \in heights
        BY <2>1
    <2>5. h <= g
        BY <1>3, <2>3, <2>4
    <2>6. h = g => t <= u
        <3> SUFFICES ASSUME h = g PROVE t <= u
            OBVIOUS
        <3>1. s \in top
            BY <2>1, <2>3
        <3>2. s[2][1] = t
            BY <2>1
        <3>3. t \in mines
            BY <3>1, <3>2
        <3> QED BY <1>6, <2>3, <3>3
    <2>7. m[1] = g /\ m[2] = <<u, 1>> /\ s[1] = h /\ s[2] = <<t, 1>>
        BY <2>1, <2>2
    <2> QED BY <2>5, <2>6, <2>7 DEF RootLess, OutpointLess
<1>9. \E r \in roots : \A s \in roots : ~RootLess(r, s)
    BY <1>8
<1> QED BY <1>9 DEF NewestLineageRoot

\* Creating outputs adds at most their root.
LEMMA InsertRoots ==
    ASSUME NEW L, LedgerIndexed(L), NEW t, NEW root
    PROVE  Roots(InsertOutputsWithLineage(L, t, root).lineage)
              \subseteq Roots(L.lineage) \cup (IF root = NoRoot THEN {} ELSE {root})
PROOF
<1> DEFINE l == L.lineage
           l2 == InsertOutputsWithLineage(L, t, root).lineage
<1>1. l2 = IF Rootless(t, root) THEN l ELSE LineageWith(l, t, root)
    BY InsertReads DEF LedgerIndexed
<1>2. Roots(LineageWith(l, t, root)) \subseteq Roots(l) \cup {root}
    BY DEF Roots, LineageWith, Merge
<1> HIDE DEF l, l2
<1>3. CASE Rootless(t, root)
    BY <1>1, <1>3 DEF l, l2
<1>4. CASE ~Rootless(t, root)
    <2>1. root # NoRoot
        BY <1>4 DEF Rootless
    <2> QED BY <1>1, <1>2, <1>4, <2>1 DEF l, l2
<1> QED BY <1>3, <1>4

\* What a transaction does to the outputs and their lineage.
LEMMA TransactionIndexed ==
    ASSUME PositiveOutputs, NEW L, LedgerIndexed(L), NEW t \in TxIds, NEW height \in Nat,
           DOMAIN CreatedOutputs(t) \cap DOMAIN L.utxos = {},
           NEW S, S \subseteq TxIds, t \notin S, RootsFit(L.lineage, S)
    PROVE  /\ LedgerIndexed(ApplyTransactionWithLineage(L, t, height))
           /\ RootsFit(ApplyTransactionWithLineage(L, t, height).lineage, S \cup {t})
PROOF
<1> DEFINE M == ApplyTransactionWithLineage(L, t, height)
           l == L.lineage
<1>0. \A s \in TxIds : s \in Nat
    BY TransactionAssumption
<1>1. CASE IsMine(t)
    <2> DEFINE root == <<height, <<t, 1>>>>
    <2>1. M = InsertOutputsWithLineage(L, t, root)
        BY <1>1 DEF ApplyTransactionWithLineage
    <2>2. LedgerIndexed(M)
        BY <2>1, InsertIndexed
    <2>3. Roots(M.lineage) \subseteq Roots(l) \cup {root}
        <3> HIDE DEF root
        <3> QED BY <2>1, InsertRoots
    <2>4. \A r \in Roots(l) : r[2] # root[2]
        BY DEF RootsFit
    <2>5. RootsFit(M.lineage, S \cup {t})
        <3> HIDE DEF M
        <3>1. ASSUME NEW r \in Roots(M.lineage) PROVE \E h \in Nat, s \in S \cup {t} : r = <<h, <<s, 1>>>>
            BY <2>3 DEF RootsFit
        <3>2. ASSUME NEW r \in Roots(M.lineage), NEW s \in Roots(M.lineage), r[2] = s[2] PROVE r = s
            BY <2>3, <2>4, <3>2 DEF RootsFit
        <3> QED BY <3>1, <3>2 DEF RootsFit
    <2> QED BY <2>2, <2>5
<1>2. CASE ~IsMine(t)
    <2> DEFINE K == SpendInputsWithLineage(L, Inputs(t))
               spent == RootsSpent(l, t)
               root == NewestLineageRoot(spent)
    <2>1. M = InsertOutputsWithLineage(K, t, root)
        BY <1>2 DEF ApplyTransactionWithLineage, RootsSpent
    <2>2. /\ IsLedger(K) /\ K.utxos = Drop(L.utxos, Inputs(t))
          /\ K.lineage = LineageLess(l, Inputs(t))
          /\ K.values = ValuesLess(l, L.values, L.utxos, Inputs(t))
          /\ K.owners = OwnersLess(l, L.owners, L.utxos, Inputs(t))
        BY SpendFields, SpendReads DEF LedgerIndexed
    <2> HIDE DEF K
    <2>3. LedgerIndexed(K)
        BY <2>2, SpendIndexed DEF LedgerIndexed, Indexed
    <2>4. DOMAIN CreatedOutputs(t) \cap DOMAIN K.utxos = {}
        BY <2>2 DEF Drop
    <2>5. LedgerIndexed(M)
        <3> HIDE DEF root
        <3> QED BY <2>1, <2>3, <2>4, InsertIndexed
    <2>6. spent \subseteq Roots(l) /\ IsFiniteSet(spent)
        <3>1. spent \subseteq Roots(l)
            BY DEF Roots, RootsSpent
        <3> DEFINE P == Inputs(t) \cap DOMAIN l
        <3>2. IsFiniteSet(P)
            BY TableTypes, FS_Subset
        <3>3. spent = {l[o] : o \in P} /\ P \subseteq DOMAIN l
            BY DEF RootsSpent
        <3> HIDE DEF P, spent, l
        <3>4. IsFiniteSet(spent)
            BY <3>2, <3>3, FiniteImage
        <3> QED BY <3>1, <3>4
    <2>7. root # NoRoot => root \in Roots(l)
        <3>1. CASE spent = {}
            BY <3>1 DEF NewestLineageRoot
        <3>2. CASE spent # {}
            <4>1. \A r \in spent : \E h \in Nat, s \in Nat : r = <<h, <<s, 1>>>>
                <5> HIDE DEF spent
                <5> QED BY <1>0, <2>6 DEF RootsFit
            <4> HIDE DEF spent
            <4>2. root \in spent
                BY <2>6, <3>2, <4>1, NewestIsOne
            <4> QED BY <2>6, <4>2
        <3> QED BY <3>1, <3>2
    <2> HIDE DEF root
    <2>8. Roots(K.lineage) \subseteq Roots(l)
        BY <2>2 DEF Roots, LineageLess, Drop
    <2>9. Roots(M.lineage) \subseteq Roots(l)
        BY <2>1, <2>3, <2>7, <2>8, InsertRoots
    <2>10. RootsFit(M.lineage, S \cup {t})
        <3> HIDE DEF M
        <3> QED BY <2>9 DEF RootsFit
    <2> QED BY <2>5, <2>10
<1> QED BY <1>1, <1>2

\* Every amount fits, and is worth something.
AmountsWithin(u) == \A o \in DOMAIN u : u[o].amount \in 1..MaxAmount

\* A part of a sum of unsigned numbers is not above it.
LEMMA PartOfSum ==
    ASSUME NEW f, NEW S, IsFiniteSet(S), \A x \in S : f[x] \in Nat, NEW k \in S
    PROVE  f[k] <= Sum(f, S)
PROOF
<1> DEFINE R == S \ {k}
<1>1. R \subseteq S /\ \A x \in R : f[x] \in Nat
    OBVIOUS
<1>2. Sum(f, R) \in Nat
    <2> HIDE DEF R
    <2>1. IsFiniteSet(R)
        BY <1>1, FS_Subset
    <2> QED BY <1>1, <2>1, SumNatSet
<1>3. Sum(f, S) = f[k] + Sum(f, R)
    <2>1. \A x \in S : f[x] \in Int
        OBVIOUS
    <2> QED BY <2>1, SumRemove
<1>4. f[k] \in Nat
    OBVIOUS
<1> HIDE DEF R
<1> QED BY <1>2, <1>3, <1>4

\* A transaction that applies creates no output above what an amount can hold.
LEMMA AppliedWithin ==
    ASSUME PositiveOutputs, NEW t \in TxIds, NEW u, CanApply(t, u)
    PROVE  AmountsWithin(CreatedOutputs(t))
PROOF
<1> DEFINE n == Len(Outputs(t))
           c == CreatedOutputs(t)
           f == Amounts(Outputs(t))
<1>1. n \in Nat /\ DOMAIN Outputs(t) = 1..n /\ \A i \in 1..n : Outputs(t)[i].amount \in Nat
    BY TransactionAssumption
<1>2. ASSUME NEW o \in DOMAIN c
      PROVE  \E i \in 1..n : c[o] = Outputs(t)[i]
    BY <1>1, <1>2 DEF CreatedOutputs
<1>3. \A o \in DOMAIN c : c[o].amount > 0
    BY DEF PositiveOutputs, AllWorth
<1>4. \A i \in 1..n : Outputs(t)[i].amount <= MaxAmount
    <2>1. CASE IsMine(t)
        <3>1. Outputs(t) = <<[owner |-> Owner(t), amount |-> MineReward]>>
            BY <2>1 DEF Outputs
        <3>2. n = 1 /\ Outputs(t)[1].amount = MineReward
            BY <3>1
        <3>3. MineReward <= MaxAmount
            BY TransactionAssumption
        <3> HIDE DEF n
        <3> QED BY <3>2, <3>3
    <2>2. CASE ~IsMine(t)
        <3>1. Required(t) <= MaxAmount
            BY <2>2 DEF CanApply, SpendsOwnOutputs
        <3>2. DOMAIN f = 1..n /\ \A i \in 1..n : f[i] = Outputs(t)[i].amount
            BY <1>1 DEF Amounts
        <3>3. Fee(t) \in Nat /\ Burned(t) \in Nat
            BY TableTypes
        <3>4. Required(t) = SumSeq(f) + Fee(t) + Burned(t)
            BY DEF Required
        <3> HIDE DEF n, f
        <3>5. \A i \in 1..n : f[i] \in Nat /\ f[i] \in Int
            BY <1>1, <3>2
        <3>6. SumSeq(f) = Sum(f, 1..n)
            BY <1>1, <3>2, <3>5, SumSeqOver
        <3>7. IsFiniteSet(1..n)
            BY <1>1, FS_Interval
        <3> DEFINE S == 1..n
                   all == Sum(f, S)
        <3>8. IsFiniteSet(S) /\ \A i \in S : f[i] \in Nat
            BY <3>5, <3>7
        <3> HIDE DEF S
        <3>9. all \in Nat
            BY <3>8, SumNatSet
        <3>10. \A i \in S : f[i] <= all
            BY <3>8, PartOfSum
        <3>11. SumSeq(f) = all
            BY <3>6 DEF S
        <3>12. MaxAmount \in Nat
            BY TransactionAssumption
        <3> HIDE DEF all
        <3>13. all <= MaxAmount
            BY <3>1, <3>3, <3>4, <3>9, <3>11, <3>12
        <3>14. ASSUME NEW i \in S PROVE f[i] <= MaxAmount
            <4>1. f[i] <= all /\ f[i] \in Nat
                BY <3>8, <3>10
            <4> QED BY <3>9, <3>12, <3>13, <4>1
        <3> QED BY <3>2, <3>14 DEF S
    <2> QED BY <2>1, <2>2
<1> SUFFICES ASSUME NEW o \in DOMAIN c PROVE c[o].amount \in 1..MaxAmount
    BY DEF AmountsWithin
<1>5. PICK i \in 1..n : c[o] = Outputs(t)[i]
    BY <1>2
<1>6. c[o].amount \in Nat /\ c[o].amount > 0 /\ c[o].amount <= MaxAmount
    <2> HIDE DEF c, n
    <2>1. c[o].amount \in Nat /\ c[o].amount <= MaxAmount
        BY <1>1, <1>4, <1>5
    <2> QED BY <1>3, <2>1
<1> HIDE DEF c
<1> QED BY <1>6, TransactionAssumption

\* What the next transaction of a body creates is new.
LEMMA CreatesNew ==
    ASSUME NEW txs \in Seq(TxIds), NoRepeats(txs), NEW i \in Nat, i + 1 \in 1..Len(txs),
           NEW D, OutpointsOf(txs, 1..Len(txs)) \cap D = {},
           NEW E, E \subseteq D \cup OutpointsOf(txs, 1..i)
    PROVE  DOMAIN CreatedOutputs(txs[i + 1]) \cap E = {}
PROOF
<1> DEFINE n == Len(txs)
           t == txs[i + 1]
<1>1. n \in Nat /\ \A j \in 1..n : txs[j] \in TxIds
    OBVIOUS
<1>2. DOMAIN CreatedOutputs(t) = {<<t, k>> : k \in 1..Len(Outputs(t))}
    BY <1>1, CreatedTotal
<1>3. DOMAIN CreatedOutputs(t) \subseteq OutpointsOf(txs, 1..n)
    BY DEF OutpointsOf
<1>4. ASSUME NEW o \in DOMAIN CreatedOutputs(t), o \in OutpointsOf(txs, 1..i) PROVE FALSE
    <2>1. PICK j \in 1..i : o \in DOMAIN CreatedOutputs(txs[j])
        BY <1>4 DEF OutpointsOf
    <2>2. j \in 1..n /\ txs[j] \in TxIds /\ j # i + 1
        BY <1>1, <2>1
    <2>3. DOMAIN CreatedOutputs(txs[j]) = {<<txs[j], k>> : k \in 1..Len(Outputs(txs[j]))}
        BY <2>2, CreatedTotal
    <2>4. o[1] = txs[j]
        BY <2>1, <2>3
    <2>5. o[1] = t
        BY <1>2, <1>4
    <2> QED BY <2>2, <2>4, <2>5 DEF NoRepeats
<1> HIDE DEF t
<1> QED BY <1>3, <1>4 DEF t

\* The ledger before the first transaction of a block.
LEMMA LedgerStarts ==
    ASSUME NEW L, NEW txs, Len(txs) \in Nat, NEW height
    PROVE  LedgerAfter(L, txs, height)[0] = L
PROOF
<1> QED BY LedgerAfterSteps

\* The ledger after one more transaction of a block.
LEMMA LedgerSteps ==
    ASSUME NEW L, NEW txs, Len(txs) \in Nat, NEW height, NEW i \in 1..Len(txs)
    PROVE  LedgerAfter(L, txs, height)[i]
           = ApplyTransactionWithLineage(LedgerAfter(L, txs, height)[i - 1], txs[i], height)
PROOF
<1> QED BY LedgerAfterSteps

\* The transactions of a block keep the indexes exact, one after the other.
LEMMA BodyIndexed ==
    ASSUME PositiveOutputs, NEW L, LedgerIndexed(L), AmountsWithin(L.utxos),
           NEW S, S \subseteq TxIds, RootsFit(L.lineage, S), NEW height, height \in Nat,
           NEW txs \in Seq(TxIds), AllApply(txs, L.utxos), NoRepeats(txs),
           OutpointsOf(txs, 1..Len(txs)) \cap DOMAIN L.utxos = {},
           \A i \in 1..Len(txs) : txs[i] \notin S,
           NEW M, M = LedgerAfter(L, txs, height)[Len(txs)]
    PROVE  /\ LedgerIndexed(M) /\ AmountsWithin(M.utxos)
           /\ RootsFit(M.lineage, S \cup Range(txs))
PROOF
<1> DEFINE n == Len(txs)
           u == L.utxos
           after == LedgerAfter(L, txs, height)
           utxos == UtxosAfter(txs, u)
           Upto(i) == S \cup {txs[j] : j \in 1..i}
           Holds(i) ==
               /\ LedgerIndexed(after[i]) /\ AmountsWithin(after[i].utxos)
               /\ after[i].utxos = utxos[i]
               /\ RootsFit(after[i].lineage, Upto(i))
               /\ DOMAIN utxos[i] \subseteq DOMAIN u \cup OutpointsOf(txs, 1..i)
           N == {i \in Nat : i <= n => Holds(i)}
<1>1. n \in Nat /\ DOMAIN txs = 1..n /\ \A i \in 1..n : txs[i] \in TxIds
    OBVIOUS
<1>2. after[0] = L /\ \A i \in 1..n : after[i] = ApplyTransactionWithLineage(after[i - 1], txs[i], height)
    BY <1>1, LedgerStarts, LedgerSteps
<1>3. utxos[0] = u /\ \A i \in 1..n : utxos[i] = AfterSpending(txs[i], utxos[i - 1])
    BY <1>1, UtxosAfterSteps
<1>4. \A i \in 1..n : CanApply(txs[i], utxos[i - 1])
    BY <1>1 DEF AllApply
<1>5. 0 \in N
    <2>1. Upto(0) = S
        OBVIOUS
    <2> HIDE DEF after, utxos, Upto
    <2> QED BY <1>2, <1>3, <2>1
<1>6. ASSUME NEW i \in Nat, i \in N PROVE i + 1 \in N
    <2> SUFFICES ASSUME i + 1 <= n PROVE Holds(i + 1)
        OBVIOUS
    <2> DEFINE k == i + 1
               t == txs[k]
               A == after[i]
               B == after[k]
               T == Upto(i)
    <2>1. k \in 1..n /\ k - 1 = i
        BY <1>1
    <2>2. Holds(i)
        BY <1>1, <1>6
    <2>3. t \in TxIds /\ CanApply(t, utxos[i]) /\ B = ApplyTransactionWithLineage(A, t, height)
          /\ utxos[k] = AfterSpending(t, utxos[i])
        <3> HIDE DEF k, after, utxos
        <3> QED BY <1>1, <1>2, <1>3, <1>4, <2>1
    <2>4. DOMAIN CreatedOutputs(t) \cap DOMAIN A.utxos = {}
        <3> DEFINE D == DOMAIN u
                   E == DOMAIN A.utxos
        <3>1. E \subseteq D \cup OutpointsOf(txs, 1..i) /\ OutpointsOf(txs, 1..Len(txs)) \cap D = {}
            BY <2>2
        <3>2. i + 1 \in 1..Len(txs)
            BY <2>1
        <3> HIDE DEF D, E
        <3> QED BY <3>1, <3>2, CreatesNew DEF E
    <2>5. T \subseteq TxIds /\ t \notin T
        <3>1. \A j \in 1..i : j \in 1..n /\ j # k
            BY <1>1, <2>1
        <3>2. \A j \in 1..i : txs[j] # t
            BY <2>1, <3>1 DEF NoRepeats
        <3> QED BY <1>1, <2>1, <3>1, <3>2
    <2>6. Upto(k) = T \cup {t}
        <3>1. 1..k = (1..i) \cup {k}
            BY <2>1
        <3> QED BY <3>1
    <2>7. LedgerIndexed(A) /\ RootsFit(A.lineage, T) /\ AmountsWithin(A.utxos) /\ A.utxos = utxos[i]
        BY <2>2
    <2> HIDE DEF A, B, T, Upto, t, utxos, k, after
    <2>8. LedgerIndexed(B) /\ RootsFit(B.lineage, T \cup {t})
        BY <2>3, <2>4, <2>5, <2>7, TransactionIndexed
    <2>9. B.utxos = AfterSpending(t, A.utxos)
        <3>1. IsLedger(A) /\ A.utxos = [o \in DOMAIN A.utxos |-> A.utxos[o]]
            BY <2>7 DEF LedgerIndexed, Indexed, Coins
        <3> QED BY <2>3, <3>1, ApplyTransactionFields
    <2>10. AmountsWithin(B.utxos)
        <3>1. AmountsWithin(CreatedOutputs(t))
            BY <2>3, AppliedWithin
        <3> QED BY <2>7, <2>9, <3>1 DEF AmountsWithin, AfterSpending, Merge, Drop
    <2>11. DOMAIN utxos[k] \subseteq DOMAIN u \cup OutpointsOf(txs, 1..k)
        <3>1. OutpointsOf(txs, 1..k) = OutpointsOf(txs, 1..i) \cup DOMAIN CreatedOutputs(t)
            <4>1. 1..k = (1..i) \cup {k}
                BY <2>1
            <4> QED BY <4>1 DEF OutpointsOf, t
        <3>2. DOMAIN utxos[k] \subseteq DOMAIN utxos[i] \cup DOMAIN CreatedOutputs(t)
            BY <2>3 DEF AfterSpending, Merge, Drop
        <3> QED BY <2>2, <3>1, <3>2
    <2>12. B.utxos = utxos[k]
        BY <2>3, <2>7, <2>9
    <2>13. Holds(k)
        BY <2>6, <2>8, <2>10, <2>11, <2>12 DEF B
    <2> QED BY <2>13 DEF k
<1>7. n \in N
    <2> HIDE DEF N
    <2> QED BY <1>1, <1>5, <1>6, NatSetInduction
<1>8. Upto(n) = S \cup Range(txs)
    BY <1>1 DEF Range
<1>9. Holds(n)
    BY <1>1, <1>7
<1> HIDE DEF Upto, after, utxos
<1> QED BY <1>8, <1>9 DEF after

\* What retargeting keeps, and who it is for: the state that it reads and writes.
Retargeted(L) ==
    /\ L.rounds \in 1..MaxRounds
    /\ L.observations \in Seq(Int)
    /\ L.windows \in Seq(Int) /\ L.windows # << >>
    /\ \A i \in DOMAIN L.windows : L.windows[i] >= MinBits
    /\ Tip(L).time \in Int

\* What a block does to the fields that TrustedBlockFields leaves out.
LEMMA TrustedBlockReads ==
    ASSUME NEW L, IsLedger(L), NEW b, Body(b) \in Seq(TxIds),
           L.utxos = [o \in DOMAIN L.utxos |-> L.utxos[o]],
           NEW S, L.chain \in Seq(S)
    PROVE  /\ ApplyTrustedBlock(L, b).lineage = ApplyTransactions(L, b).lineage
           /\ ApplyTrustedBlock(L, b).values = ApplyTransactions(L, b).values
           /\ ApplyTrustedBlock(L, b).owners = ApplyTransactions(L, b).owners
           /\ ApplyTrustedBlock(L, b).observations = RecordVdfRetargetObservation(L, b)
           /\ ApplyTrustedBlock(L, b).windows
                = WindowsWith(L.windows, b.height, ActionsOf(Append(L.chain, b)))
           /\ ApplyTrustedBlock(L, b).rounds
                = RoundsWith(L.rounds, RecordVdfRetargetObservation(L, b), b)
           /\ Tip(ApplyTrustedBlock(L, b)) = b
PROOF
<1> DEFINE M == ApplyTransactions(L, b)
           A == WithBlockEffects(L, b, M)
           B == WithWindows(A)
           C == WithNextRounds(B)
           reward == RewardOutputs(b, b.reward, OwnersBySlot(BurnCommitteeForBlock(L, b)))
<1>1. IsLedger(M) /\ \A f \in LedgerFields \ SpentFields : M[f] = L[f]
    BY ApplyTransactionsFields DEF ApplyTransactions
<1>2. M.chain = L.chain /\ M.windows = L.windows /\ M.rounds = L.rounds
    <2> HIDE DEF M
    <2> QED BY <1>1 DEF LedgerFields, SpentFields
<1> DEFINE binds == Merge(HybridBindings(b), M.binds)
           tickets == ApplyFinalizerTicketEffects(L, b) \o TicketsCreatedByBlock(b)
           utxos == Merge(M.utxos, reward)
           mined == M.mined \cup Range(Body(b))
           draws == RecordTicketDraw(L, b)
           observed == RecordVdfRetargetObservation(L, b)
           chain == Append(M.chain, b)
<1>3. A = [M EXCEPT !.binds = binds, !.tickets = tickets, !.utxos = utxos, !.mined = mined,
                    !.draws = draws, !.observations = observed, !.chain = chain]
    BY DEF WithBlockEffects, CreditRewardOutputs
<1> HIDE DEF M, binds, tickets, utxos, mined, draws, observed, chain, reward
<1>4. DOMAIN M = LedgerFields
    BY <1>1 DEF IsLedger
<1> HIDE DEF A
<1>5. /\ IsLedger(A) /\ A.chain = chain /\ A.observations = observed
      /\ A.lineage = M.lineage /\ A.values = M.values /\ A.owners = M.owners
      /\ A.windows = M.windows /\ A.rounds = M.rounds
    BY <1>3, <1>4 DEF IsLedger, LedgerFields
<1>6. Tip(A) = b /\ chain = Append(L.chain, b)
    <2>1. chain = Append(L.chain, b)
        BY <1>2 DEF chain
    <2>2. L.chain \in Seq(S \cup {b})
        BY SeqMonotonic
    <2>3. Append(L.chain, b)[Len(Append(L.chain, b))] = b
        BY <2>2
    <2> QED BY <1>5, <2>1, <2>3 DEF Tip
<1>7. B = [A EXCEPT !.windows = UpdateMineDifficultyCache(A)]
    BY DEF WithWindows
<1> HIDE DEF B
<1> DEFINE windows == UpdateMineDifficultyCache(A)
<1>8. windows = WindowsWith(L.windows, b.height, ActionsOf(chain))
    <2>1. windows = WindowsWith(A.windows, Tip(A).height, ActionsOf(A.chain))
        BY Zenon DEF UpdateMineDifficultyCache, WindowsWith, ActionsOf
    <2> QED BY <1>2, <1>5, <1>6, <2>1
<1>9. B = [A EXCEPT !.windows = windows]
    BY <1>7
<1> HIDE DEF windows
<1>10. DOMAIN A = LedgerFields
    BY <1>5 DEF IsLedger
<1>11. /\ IsLedger(B) /\ B.chain = A.chain /\ B.observations = A.observations
       /\ B.lineage = A.lineage /\ B.values = A.values /\ B.owners = A.owners
       /\ B.windows = windows /\ B.rounds = A.rounds
    BY <1>9, <1>10 DEF IsLedger, LedgerFields
<1> DEFINE rounds == NextVdfRoundsAfterTip(B)
<1>12. rounds = RoundsWith(L.rounds, observed, b)
    <2>1. rounds = RoundsWith(B.rounds, B.observations, Tip(B))
        BY Zenon DEF NextVdfRoundsAfterTip, RoundsWith
    <2>2. Tip(B) = b
        BY <1>6, <1>11 DEF Tip
    <2> QED BY <1>2, <1>5, <1>11, <2>1, <2>2
<1>13. C = [B EXCEPT !.rounds = rounds]
    BY DEF WithNextRounds
<1> HIDE DEF C, rounds
<1>14. DOMAIN B = LedgerFields
    BY <1>11 DEF IsLedger
<1>15. /\ C.chain = B.chain /\ C.observations = B.observations
       /\ C.lineage = B.lineage /\ C.values = B.values /\ C.owners = B.owners
       /\ C.windows = B.windows /\ C.rounds = rounds
    BY <1>13, <1>14 DEF LedgerFields
<1>16. ApplyTrustedBlock(L, b) = C
    BY DEF ApplyTrustedBlock, A, B, C, M
<1>17. Tip(C) = b
    BY <1>6, <1>11, <1>15 DEF Tip
<1> QED BY <1>5, <1>6, <1>8, <1>11, <1>12, <1>15, <1>16, <1>17 DEF M, observed

\* A number between two others.
LEMMA ClampIn ==
    ASSUME NEW x \in Int, NEW low \in Int, NEW high \in Int, low <= high
    PROVE  Clamp(x, low, high) \in low..high
PROOF
<1> QED BY DEF Clamp

\* The largest of some integers is one of them, and none is above it.
LEMMA MaxIs ==
    ASSUME NEW S, IsFiniteSet(S), S \subseteq Int, S # {}
    PROVE  Max(S) \in S /\ \A x \in S : x <= Max(S)
PROOF
<1>1. \E m \in S : \A x \in S : x <= m
    BY LargestExists
<1>2. \E m \in S : \A x \in S : m >= x
    BY <1>1
<1>3. Max(S) = CHOOSE x \in S : \A y \in S : x >= y
    BY Zenon DEF Max
<1>4. Max(S) \in S /\ \A x \in S : Max(S) >= x
    BY <1>2, <1>3, Zenon
<1> QED BY <1>4

\* The larger of two integers.
LEMMA MaxOfTwo ==
    ASSUME NEW x \in Int, NEW y \in Int
    PROVE  Max({x, y}) = (IF x >= y THEN x ELSE y)
PROOF
<1> DEFINE m == IF x >= y THEN x ELSE y
<1>1. m \in {x, y} /\ \A z \in {x, y} : m >= z
    OBVIOUS
<1>2. \A n \in {x, y} : (\A z \in {x, y} : n >= z) => n = m
    OBVIOUS
<1> HIDE DEF m
<1> QED BY <1>1, <1>2 DEF Max, m

\* The smaller of two integers.
LEMMA MinOfTwo ==
    ASSUME NEW x \in Int, NEW y \in Int
    PROVE  Min({x, y}) = (IF x <= y THEN x ELSE y)
PROOF
<1> DEFINE m == IF x <= y THEN x ELSE y
<1>1. m \in {x, y} /\ \A z \in {x, y} : m <= z
    OBVIOUS
<1>2. \A n \in {x, y} : (\A z \in {x, y} : n <= z) => n = m
    OBVIOUS
<1> HIDE DEF m
<1> QED BY <1>1, <1>2 DEF Min, m

\* Rounds stay in their range when they are set anew.
LEMMA RoundsIn ==
    ASSUME NEW rounds \in 1..MaxRounds, NEW observations \in Seq(Int),
           NEW tip, tip.rank \in Nat, tip.rounds = rounds * (tip.rank + 1)
    PROVE  RoundsWith(rounds, observations, tip) \in 1..MaxRounds
PROOF
<1>1. MaxRounds \in Nat /\ TargetTime \in Nat
    BY ChainAssumption
<1> SUFFICES ASSUME observations # << >>
             PROVE  RetargetVdfRounds(tip.rounds \div (tip.rank + 1), SumSeq(observations) \div Len(observations))
                    \in 1..MaxRounds
    BY <1>1 DEF RoundsWith
<1>2. tip.rounds \div (tip.rank + 1) = rounds
    <2> DEFINE c == tip.rank + 1
               m == rounds + 1
    <2>1. c \in Nat \ {0} /\ rounds \in Nat /\ m \in Nat /\ rounds < m /\ tip.rounds = rounds * c
        BY <1>1
    <2> HIDE DEF c, m
    <2>2. ((rounds * c + 1) - 1) \div c = rounds
        BY <2>1, Position
    <2>3. rounds * c \in Int
        BY <2>1
    <2>4. (rounds * c + 1) - 1 = rounds * c
        BY <2>3
    <2> QED BY <2>1, <2>2, <2>4 DEF c
<1>3. SumSeq(observations) \div Len(observations) \in Int
    <2> DEFINE n == Len(observations)
               total == SumSeq(observations)
    <2>1. n \in Nat \ {0} /\ DOMAIN observations = 1..n /\ \A i \in 1..n : observations[i] \in Int
        OBVIOUS
    <2> HIDE DEF n
    <2>2. total \in Int
        BY <2>1, SumSeqOver
    <2> HIDE DEF total
    <2> QED BY <2>1, <2>2 DEF n, total
<1> DEFINE observed == SumSeq(observations) \div Len(observations)
           deadband == (TargetTime * 10) \div 100
           step == Max({(rounds * 2) \div 100, 1})
           x == (rounds * TargetTime) \div Max({observed, 1})
           low == Max({rounds - step, 1})
           high == Min({rounds + step, MaxRounds})
<1>4. RetargetVdfRounds(rounds, observed)
      = IF observed \in (TargetTime - deadband)..(TargetTime + deadband) THEN rounds ELSE Clamp(x, low, high)
    BY DEF RetargetVdfRounds
<1>5. step \in Int /\ step >= 1
    <2> DEFINE y == (rounds * 2) \div 100
    <2>1. y \in Int
        BY <1>1
    <2> HIDE DEF y
    <2>2. Max({y, 1}) = IF y >= 1 THEN y ELSE 1
        BY <2>1, MaxOfTwo
    <2>3. step = Max({y, 1})
        BY DEF y
    <2> HIDE DEF step
    <2> QED BY <2>1, <2>2, <2>3
<1>6. x \in Int
    <2> DEFINE p == rounds * TargetTime
               d == Max({observed, 1})
    <2>1. p \in Int
        BY <1>1
    <2>2. d = IF observed >= 1 THEN observed ELSE 1
        <3> HIDE DEF observed
        <3> QED BY <1>3, MaxOfTwo DEF observed
    <2>3. x = p \div d
        OBVIOUS
    <2> HIDE DEF observed, p, d, x
    <2>4. d \in Int /\ d >= 1
        BY <1>3, <2>2 DEF observed
    <2> QED BY <2>1, <2>3, <2>4
<1> HIDE DEF step, x, observed
<1>7. low \in 1..rounds
    <2>1. rounds - step \in Int /\ rounds \in Int
        BY <1>1, <1>5
    <2>2. low = IF rounds - step >= 1 THEN rounds - step ELSE 1
        BY <2>1, MaxOfTwo
    <2> HIDE DEF low
    <2> QED BY <1>1, <1>5, <2>1, <2>2
<1>8. high \in rounds..MaxRounds
    <2>1. rounds + step \in Int /\ rounds \in Int /\ MaxRounds \in Int /\ rounds <= MaxRounds
        BY <1>1, <1>5
    <2>2. high = IF rounds + step <= MaxRounds THEN rounds + step ELSE MaxRounds
        BY <2>1, MinOfTwo
    <2> HIDE DEF high
    <2> QED BY <1>1, <1>5, <2>1, <2>2
<1> HIDE DEF low, high
<1>9. Clamp(x, low, high) \in low..high
    <2>1. low \in Int /\ high \in Int /\ low <= high
        BY <1>1, <1>7, <1>8
    <2> QED BY <1>6, <2>1, ClampIn
<1>10. low..high \subseteq 1..MaxRounds
    BY <1>1, <1>7, <1>8
<1> HIDE DEF deadband
<1> QED BY <1>2, <1>4, <1>9, <1>10 DEF observed

\* What is observed is a number.
LEMMA ObservationsIn ==
    ASSUME NEW L, L.observations \in Seq(Int), Tip(L).time \in Int, NEW b, b.time \in Int
    PROVE  RecordVdfRetargetObservation(L, b) \in Seq(Int)
PROOF
<1> DEFINE observed == Clamp(b.time - Tip(L).time, TargetTime \div 4, TargetTime * 4)
           all == Append(L.observations, observed)
<1>1. observed \in Int
    <2> DEFINE low == TargetTime \div 4
               high == TargetTime * 4
               x == b.time - Tip(L).time
    <2>1. TargetTime \in Nat /\ 4 \in Nat \ {0}
        BY ChainAssumption
    <2>2. low \in Nat /\ low <= TargetTime
        BY <2>1, DivBound
    <2>3. high \in Int /\ TargetTime <= high /\ x \in Int
        BY <2>1
    <2> HIDE DEF low, high, x
    <2>4. low \in Int /\ low <= high
        BY <2>1, <2>2, <2>3
    <2>5. Clamp(x, low, high) \in low..high
        BY <2>3, <2>4, ClampIn
    <2> QED BY <2>3, <2>4, <2>5 DEF low, high, x
<1>2. RecordVdfRetargetObservation(L, b) =
        IF Tip(L).height = 0 \/ b.mode # "ticket" \/ b.rank # 0 THEN L.observations
        ELSE IF Len(all) > RoundsWindow THEN Tail(all) ELSE all
    BY Zenon DEF RecordVdfRetargetObservation
<1> HIDE DEF observed
<1>3. all \in Seq(Int) /\ all # << >>
    <2> DEFINE before == L.observations
    <2>1. before \in Seq(Int) /\ all = Append(before, observed)
        OBVIOUS
    <2> HIDE DEF all, before
    <2> QED BY <1>1, <2>1
<1>4. Tail(all) \in Seq(Int)
    <2> HIDE DEF all
    <2> QED BY <1>3
<1> HIDE DEF all
<1> QED BY <1>2, <1>3, <1>4

\* A logarithm is a number.
LEMMA FloorLog2In ==
    ASSUME NEW n \in Nat, NEW d \in Nat
    PROVE  FloorLog2Ratio(n, d) \in Nat
PROOF
<1>1. CASE d = 0 \/ n <= d
    BY <1>1 DEF FloorLog2Ratio
<1>2. CASE ~(d = 0 \/ n <= d)
    <2> DEFINE S == {k \in 0..n : d * 2 ^ k <= n}
    <2>1. FloorLog2Ratio(n, d) = Max(S)
        BY <1>2 DEF FloorLog2Ratio
    <2>2. 0 \in S
        <3>1. 2 ^ 0 = 1
            OBVIOUS
        <3>2. d * 1 = d /\ d <= n /\ 0 \in 0..n
            BY <1>2
        <3>3. d * 2 ^ 0 <= n
            BY <3>1, <3>2
        <3> QED BY <3>2, <3>3
    <2>3. S \subseteq 0..n /\ S \subseteq Int /\ S \subseteq Nat
        OBVIOUS
    <2> HIDE DEF S
    <2>4. IsFiniteSet(S)
        <3>1. 0 \in Int /\ n \in Int
            OBVIOUS
        <3>2. IsFiniteSet(0..n)
            BY <3>1, FS_Interval
        <3> QED BY <2>3, <3>2, FS_Subset
    <2> QED BY <2>1, <2>2, <2>3, <2>4, MaxIs
<1> QED BY <1>1, <1>2

\* A weight is a number.
LEMMA WeightIn ==
    ASSUME NEW value \in Nat
    PROVE  Weight(value) \in Nat
PROOF
<1> DEFINE S == {n \in 0..value : 2 ^ n <= value + 1}
<1>1. 0 \in S
    <2>1. 2 ^ 0 = 1 /\ 0 \in 0..value /\ 1 <= value + 1
        OBVIOUS
    <2> QED BY <2>1
<1>2. S \subseteq 0..value /\ S \subseteq Int /\ S \subseteq Nat
    OBVIOUS
<1>3. Weight(value) = Max(S)
    BY DEF Weight
<1> HIDE DEF S
<1>4. IsFiniteSet(S)
    <2>1. 0 \in Int /\ value \in Int
        OBVIOUS
    <2>2. IsFiniteSet(0..value)
        BY <2>1, FS_Interval
    <2> QED BY <1>2, <2>2, FS_Subset
<1> QED BY <1>1, <1>2, <1>3, <1>4, MaxIs

\* A difficulty is not below the smallest.
LEMMA DifficultyIn ==
    ASSUME NEW current \in Int, NEW actions \in Nat
    PROVE  /\ RetargetMineDifficultyBits(current, actions) \in Int
           /\ RetargetMineDifficultyBits(current, actions) >= MinBits
PROOF
<1> DEFINE up == FloorLog2Ratio(actions, MineWindow)
           down == IF actions = 0 THEN 2 ELSE FloorLog2Ratio(MineWindow, actions)
           less == IF actions < MineWindow THEN Min({down, 2}) ELSE 0
           x == current + Min({up, 2}) - less
<1>1. MineWindow \in Nat /\ MinBits \in Int
    BY ChainAssumption
<1>2. up \in Nat /\ down \in Nat
    BY <1>1, FloorLog2In
<1>3. RetargetMineDifficultyBits(current, actions) = Max({x, MinBits})
    BY Zenon DEF RetargetMineDifficultyBits
<1> HIDE DEF up, down
<1>4. Min({up, 2}) \in Int /\ Min({down, 2}) \in Int
    <2>1. up \in Int /\ down \in Int /\ 2 \in Int
        BY <1>2
    <2> QED BY <2>1, MinOfTwo
<1>5. x \in Int
    <2> DEFINE a == Min({up, 2})
    <2>1. less \in Int
        BY <1>4
    <2>2. a \in Int
        BY <1>4
    <2> HIDE DEF a, less
    <2>3. current + a - less \in Int
        BY <2>1, <2>2
    <2> QED BY <2>3 DEF a
<1> HIDE DEF x
<1>6. Max({x, MinBits}) = IF x >= MinBits THEN x ELSE MinBits
    BY <1>1, <1>5, MaxOfTwo
<1> QED BY <1>1, <1>3, <1>5, <1>6

\* The difficulties of all windows are not below the smallest.
LEMMA WindowsIn ==
    ASSUME NEW windows \in Seq(Int), windows # << >>, \A i \in DOMAIN windows : windows[i] >= MinBits,
           NEW height, NEW actions \in Nat,
           NEW after, after = WindowsWith(windows, height, actions)
    PROVE  /\ after \in Seq(Int) /\ after # << >>
           /\ \A i \in DOMAIN after : after[i] >= MinBits
PROOF
<1> DEFINE bits == RetargetMineDifficultyBits(Last(windows), actions)
           n == Len(windows)
<1>1. n \in Nat \ {0} /\ DOMAIN windows = 1..n
    OBVIOUS
<1>2. Last(windows) \in Int
    <2>1. Last(windows) = windows[n]
        BY DEF Last
    <2> HIDE DEF n
    <2>2. n \in DOMAIN windows
        BY <1>1
    <2> QED BY <2>1, <2>2
<1>3. bits \in Int /\ bits >= MinBits
    BY <1>2, DifficultyIn
<1>4. after = windows \/ after = Append(windows, bits)
    BY DEF WindowsWith
<1>5. CASE after = windows
    BY <1>5
<1>6. CASE after = Append(windows, bits)
    <2> HIDE DEF bits, n
    <2>1. after \in Seq(Int) /\ after # << >>
        BY <1>3, <1>6
    <2>2. DOMAIN after = 1..(n + 1) /\ after[n + 1] = bits /\ \A i \in 1..n : after[i] = windows[i]
        BY <1>3, <1>6 DEF n
    <2>3. ASSUME NEW i \in 1..(n + 1) PROVE after[i] >= MinBits
        <3>1. i \in 1..n \/ i = n + 1
            BY <1>1
        <3>2. CASE i \in 1..n
            BY <1>1, <2>2, <3>2
        <3>3. CASE i = n + 1
            BY <1>3, <2>2, <3>3
        <3> QED BY <3>1, <3>2, <3>3
    <2> QED BY <2>1, <2>2, <2>3
<1> QED BY <1>4, <1>5, <1>6

\* The mines of some resident blocks are counted.
LEMMA ActionsIn ==
    ASSUME NEW blocks, Chained(blocks), NEW L, Resident(L, blocks)
    PROVE  ActionsOf(L.chain) \in Nat
PROOF
<1> DEFINE c == L.chain
           k == Len(c)
           recent == {i \in DOMAIN c : i > Len(c) - MineWindow}
           f == [i \in recent |-> MineActionCount(c[i])]
<1>1. PICK m \in 2..(Len(blocks) + 1) : Suffix(c, blocks, m)
    BY DEF Resident
<1>2. Len(blocks) \in Nat \ {0} /\ k \in Nat \ {0} /\ k = Len(blocks) - m + 2
    BY <1>1, SuffixLen
<1>3. DOMAIN c = 1..k
    <2>1. PICK S : c \in Seq(S)
        BY <1>1 DEF Suffix
    <2> QED BY <2>1
<1>4. \A i \in 1..k : \E j \in 1..Len(blocks) : c[i] = blocks[j]
    <2> SUFFICES ASSUME NEW i \in 1..k PROVE \E j \in 1..Len(blocks) : c[i] = blocks[j]
        OBVIOUS
    <2>1. CASE i = 1
        <3>1. c[1] = blocks[1]
            BY <1>1 DEF Suffix
        <3> QED BY <1>2, <2>1, <3>1
    <2>2. CASE i # 1
        <3>1. c[i] = blocks[m + i - 2]
            BY <1>2, <2>2, <1>1 DEF Suffix
        <3>2. m + i - 2 \in 1..Len(blocks)
            <4> HIDE DEF k
            <4> QED BY <1>2, <2>2
        <3> QED BY <3>1, <3>2
    <2> QED BY <2>1, <2>2
<1>5. ASSUME NEW i \in 1..k PROVE MineActionCount(c[i]) \in Nat
    <2>1. PICK j \in 1..Len(blocks) : c[i] = blocks[j]
        BY <1>4
    <2> DEFINE v == blocks[j].v1
               P == {x \in DOMAIN v : IsMine(v[x])}
    <2>2. v \in Seq(TxIds)
        BY DEF Chained
    <2>3. MineActionCount(c[i]) = Cardinality(P)
        BY <2>1 DEF MineActionCount
    <2>4. P \subseteq 1..Len(v) /\ Len(v) \in Nat
        BY <2>2
    <2>5. IsFiniteSet(P)
        <3> HIDE DEF P, v
        <3>1. 1 \in Int /\ Len(v) \in Int
            BY <2>4
        <3>2. IsFiniteSet(1..Len(v))
            BY <3>1, FS_Interval
        <3> QED BY <2>4, <3>2, FS_Subset
    <2> HIDE DEF P
    <2> QED BY <2>3, <2>5, FS_CardinalityType
<1>6. recent \subseteq 1..k
    BY <1>3
<1>7. IsFiniteSet(recent)
    <2> HIDE DEF recent, k
    <2>1. 1 \in Int /\ k \in Int
        BY <1>2
    <2>2. IsFiniteSet(1..k)
        BY <2>1, FS_Interval
    <2> QED BY <1>6, <2>2, FS_Subset
<1>8. \A i \in recent : f[i] \in Nat
    BY <1>5, <1>6
<1>9. ActionsOf(c) = Sum(f, recent)
    BY DEF ActionsOf
<1> HIDE DEF f, recent
<1> QED BY <1>7, <1>8, <1>9, SumNatSet

\* What a block pays fits in an amount, each output by itself.
LEMMA PaidWithin ==
    ASSUME NEW r, Coins(r), AllWorth(r), Total(r) <= MaxAmount
    PROVE  AmountsWithin(r)
PROOF
<1> DEFINE f == Amount(r)
           D == DOMAIN r
<1>1. IsFiniteSet(D) /\ \A o \in D : f[o] = r[o].amount /\ f[o] \in Nat /\ f[o] > 0
    BY DEF Coins, Amount, AllWorth
<1>2. Total(r) = Sum(f, D)
    BY DEF Total, Amount
<1> HIDE DEF f, D
<1>3. Sum(f, D) \in Nat
    BY <1>1, SumNatSet
<1>4. \A o \in D : f[o] <= Sum(f, D)
    BY <1>1, PartOfSum
<1> DEFINE all == Sum(f, D)
<1>5. all \in Nat /\ all <= MaxAmount /\ \A o \in D : f[o] <= all
    BY <1>2, <1>3, <1>4
<1> HIDE DEF all
<1>6. MaxAmount \in Nat
    BY TransactionAssumption
<1>7. ASSUME NEW o \in D PROVE r[o].amount \in 1..MaxAmount
    <2>1. r[o].amount = f[o] /\ f[o] \in Nat /\ f[o] > 0 /\ f[o] <= all
        BY <1>1, <1>5
    <2> QED BY <1>5, <1>6, <2>1
<1> QED BY <1>7 DEF AmountsWithin, D

\* What a block leaves of the indexes is exact, and its rewards have no root.
LEMMA BlockIndexes ==
    ASSUME PositiveOutputs, NEW L, LedgerIndexed(L), AmountsWithin(L.utxos),
           L.mined \subseteq TxIds, RootsFit(L.lineage, L.mined),
           NEW b, Body(b) \in Seq(TxIds), b.height \in Nat, Fresh(L, b), b.reward <= MaxAmount,
           NEW S, L.chain \in Seq(S),
           NEW M, M = ApplyTrustedBlock(L, b)
    PROVE  /\ LedgerIndexed(M) /\ AmountsWithin(M.utxos)
           /\ RootsFit(M.lineage, M.mined)
PROOF
<1> DEFINE T == ApplyTransactions(L, b)
           r == PaidBy(L, b)
           txs == Body(b)
<1>1. IsLedger(L) /\ Coins(L.utxos) /\ L.utxos = [o \in DOMAIN L.utxos |-> L.utxos[o]]
    BY DEF LedgerIndexed, Indexed, Coins
<1>2. /\ AllApply(txs, L.utxos) /\ NoRepeats(txs)
      /\ OutpointsOf(txs, 1..Len(txs)) \cap DOMAIN L.utxos = {}
      /\ \A i \in 1..Len(txs) : txs[i] \notin L.mined
      /\ Coins(r) /\ AllWorth(r) /\ Total(r) <= MaxAmount
      /\ DOMAIN LeftBy(L, b) \cap DOMAIN r = {}
    BY DEF Fresh
<1>3. T = LedgerAfter(L, txs, b.height)[Len(txs)]
    BY DEF ApplyTransactions
<1>4. T.utxos = LeftBy(L, b)
    <2>1. T.utxos = UtxosAfter(txs, L.utxos)[Len(txs)]
        BY <1>1, <1>3, ApplyTransactionsFields
    <2> QED BY <2>1 DEF LeftBy
<1> DEFINE height == b.height
<1>5. height \in Nat /\ T = LedgerAfter(L, txs, height)[Len(txs)] /\ txs \in Seq(TxIds)
    BY <1>3
<1> HIDE DEF T, r, txs, height
<1>6. LedgerIndexed(T) /\ AmountsWithin(T.utxos) /\ RootsFit(T.lineage, L.mined \cup Range(txs))
    BY <1>2, <1>5, BodyIndexed
<1>7. AmountsWithin(r)
    BY <1>2, PaidWithin
<1>8. /\ IsLedger(M) /\ M.mined = L.mined \cup Range(txs)
      /\ M.utxos = Merge(T.utxos, r)
    BY <1>1, <1>4, TrustedBlockFields DEF txs, r, PaidBy, LeftBy
<1>9. M.lineage = T.lineage /\ M.values = T.values /\ M.owners = T.owners
    BY <1>1, TrustedBlockReads DEF T
<1> DEFINE u == T.utxos
           l == T.lineage
           v == T.values
           w == T.owners
<1>10. Coins(u) /\ Tracked(l, u) /\ ValuesExact(l, v, u) /\ OwnersExact(l, w, u)
    BY <1>6 DEF LedgerIndexed, Indexed
<1>11. DOMAIN r \cap DOMAIN u = {}
    BY <1>2, <1>4
<1> HIDE DEF u, l, v, w
<1>12. Tracked(l, Merge(u, r)) /\ ValuesExact(l, v, Merge(u, r)) /\ OwnersExact(l, w, Merge(u, r))
    BY <1>10, <1>11, OutsideIndexed
<1>13. Coins(Merge(u, r))
    BY <1>2, <1>10, <1>11, TotalMerge
<1>14. LedgerIndexed(M)
    <2>1. M.utxos = Merge(u, r) /\ M.lineage = l /\ M.values = v /\ M.owners = w
        BY <1>8, <1>9 DEF u, l, v, w
    <2> QED BY <1>8, <1>12, <1>13, <2>1 DEF LedgerIndexed, Indexed
<1>15. AmountsWithin(M.utxos)
    BY <1>6, <1>7, <1>8 DEF AmountsWithin, Merge
<1> QED BY <1>6, <1>8, <1>9, <1>14, <1>15

\* A block retargets within bounds.
LEMMA BlockRetargets ==
    ASSUME NEW blocks, Chained(blocks), NEW L, Retargeted(L), IsLedger(L), Resident(L, blocks),
           L.utxos = [o \in DOMAIN L.utxos |-> L.utxos[o]],
           NEW b, b.hash = Len(blocks), b.height = Len(blocks),
           Body(b) \in Seq(TxIds), b.v1 \in Seq(TxIds),
           b.time \in Int, b.rank \in Nat, b.rounds = L.rounds * (b.rank + 1),
           NEW M, M = ApplyTrustedBlock(L, b)
    PROVE  Retargeted(M)
PROOF
<1> DEFINE observed == RecordVdfRetargetObservation(L, b)
           actions == ActionsOf(Append(L.chain, b))
           more == Append(blocks, b)
<1>1. PICK S : L.chain \in Seq(S)
    BY DEF Resident, Suffix
<1>2. /\ M.observations = observed /\ M.windows = WindowsWith(L.windows, b.height, actions)
      /\ M.rounds = RoundsWith(L.rounds, observed, b) /\ Tip(M) = b
    BY <1>1, TrustedBlockReads
<1>3. IsLedger(M) /\ M.chain = Append(L.chain, b) /\ M.pruned = L.pruned
    BY TrustedBlockFields
<1>4. observed \in Seq(Int)
    BY ObservationsIn DEF Retargeted
<1>5. actions \in Nat
    <2>1. Chained(more)
        BY ChainedAppend
    <2>2. Resident(M, more)
        BY <1>3, ResidentAppend
    <2>3. ActionsOf(M.chain) \in Nat
        BY <2>1, <2>2, ActionsIn
    <2> QED BY <1>3, <2>3
<1> HIDE DEF observed, actions
<1>6. M.windows \in Seq(Int) /\ M.windows # << >> /\ \A i \in DOMAIN M.windows : M.windows[i] >= MinBits
    <2> DEFINE before == L.windows
               h == b.height
               after == M.windows
    <2>1. before \in Seq(Int) /\ before # << >> /\ \A i \in DOMAIN before : before[i] >= MinBits
        BY DEF Retargeted
    <2>2. after = WindowsWith(before, h, actions)
        BY <1>2
    <2> HIDE DEF before, h, after
    <2>3. after \in Seq(Int) /\ after # << >> /\ \A i \in DOMAIN after : after[i] >= MinBits
        BY <1>5, <2>1, <2>2, WindowsIn
    <2> QED BY <2>3 DEF after
<1>7. M.rounds \in 1..MaxRounds
    <2> DEFINE before == L.rounds
    <2>1. before \in 1..MaxRounds /\ b.rank \in Nat /\ b.rounds = before * (b.rank + 1)
        BY DEF Retargeted
    <2> HIDE DEF before
    <2>2. RoundsWith(before, observed, b) \in 1..MaxRounds
        BY <1>4, <2>1, RoundsIn
    <2> QED BY <1>2, <2>2 DEF before
<1> QED BY <1>2, <1>4, <1>6, <1>7 DEF Retargeted

-----------------------------------------------------------------------------
(* Committees: nobody and no root twice.                                     *)

\* Every root of a sequence has an outpoint of its own.
Apart(s) == \A i, j \in DOMAIN s : i # j => s[i][2] # s[j][2]

\* One more root keeps its outpoint apart.
LEMMA ApartAppend ==
    ASSUME NEW T, NEW r \in Seq(T), Apart(r), NEW x \in T,
           \A k \in 1..Len(r) : r[k][2] # x[2]
    PROVE  Apart(Append(r, x))
PROOF
<1> DEFINE q == Append(r, x)
           l == Len(r)
           e == l + 1
<1>1. /\ q \in Seq(T) /\ Len(q) = e /\ l \in Nat
      /\ \A k \in 1..l : q[k] = r[k]
      /\ q[e] = x
    BY AppendPicked
<1>2. DOMAIN q = 1..e /\ DOMAIN r = 1..l
    <2> HIDE DEF q
    <2> QED BY <1>1
<1>3. \A k \in 1..e : k \in 1..l \/ k = e
    BY <1>1
<1> HIDE DEF q, e, l
<1>4. ASSUME NEW i \in 1..e, NEW j \in 1..e, i # j PROVE q[i][2] # q[j][2]
    <2>1. CASE i \in 1..l /\ j \in 1..l
        <3>1. r[i][2] # r[j][2]
            BY <1>2, <1>4, <2>1 DEF Apart
        <3> QED BY <1>1, <2>1, <3>1
    <2>2. CASE i \in 1..l /\ j = e
        <3>1. r[i][2] # x[2]
            BY <2>2 DEF l
        <3> QED BY <1>1, <2>2, <3>1
    <2>3. CASE i = e /\ j \in 1..l
        <3>1. r[j][2] # x[2]
            BY <2>3 DEF l
        <3> QED BY <1>1, <2>3, <3>1
    <2> QED BY <1>3, <1>4, <2>1, <2>2, <2>3
<1> QED BY <1>2, <1>4 DEF Apart, q

\* What is picked of roots that are apart is apart.
LEMMA ApartPicked ==
    ASSUME NEW T, NEW s \in Seq(T), Apart(s), NEW P
    PROVE  Apart(Picked(s, P))
PROOF
<1> DEFINE n == Len(s)
           f == PickedUpTo(s, P)
           From(i) == \A k \in 1..Len(f[i]) : \E j \in 1..i : f[i][k] = s[j]
           Holds(i) == f[i] \in Seq(T) /\ From(i) /\ Apart(f[i])
           N == {i \in Nat : i <= n => Holds(i)}
<1>1. n \in Nat /\ DOMAIN s = 1..n /\ \A i \in 1..n : s[i] \in T
    OBVIOUS
<1>2. /\ f[0] = << >>
      /\ \A i \in 1..n : f[i] = IF i \in P THEN Append(f[i - 1], s[i]) ELSE f[i - 1]
    BY <1>1, PickedSteps DEF PickNext
<1> HIDE DEF f, n
<1>3. 0 \in N
    <2>1. f[0] \in Seq(T) /\ Len(f[0]) = 0 /\ DOMAIN f[0] = {}
        BY <1>2
    <2>2. From(0)
        BY <2>1
    <2>3. Apart(f[0])
        BY <2>1 DEF Apart
    <2> QED BY <2>1, <2>2, <2>3
<1>4. ASSUME NEW i \in Nat, i \in N PROVE i + 1 \in N
    <2> SUFFICES ASSUME i + 1 <= n PROVE Holds(i + 1)
        <3> HIDE DEF Holds
        <3> QED OBVIOUS
    <2> DEFINE m == i + 1
               r == f[i]
               q == f[m]
               l == Len(r)
    <2>1. m \in 1..n /\ m - 1 = i /\ m \in Nat
        BY <1>1
    <2>2. r \in Seq(T) /\ From(i) /\ Apart(r)
        <3>1. Holds(i)
            <4> HIDE DEF Holds
            <4> QED BY <1>4, <1>1
        <3> HIDE DEF From
        <3> QED BY <3>1
    <2>3. q = IF m \in P THEN Append(r, s[m]) ELSE r
        <3> HIDE DEF m
        <3> QED BY <1>2, <2>1
    <2>4. s[m] \in T /\ l \in Nat
        <3> HIDE DEF m
        <3> QED BY <1>1, <2>1, <2>2
    <2>5. /\ \A j \in 1..i : j \in 1..m /\ j \in 1..n /\ j # m
          /\ m \in 1..m
        BY <1>1, <2>1
    <2> HIDE DEF m, r, q
    <2>6. CASE m \notin P
        <3>1. q = r
            BY <2>3, <2>6
        <3>2. From(m)
            BY <2>2, <2>5, <3>1 DEF r, q
        <3> QED BY <2>2, <3>1, <3>2 DEF q, r, m
    <2>7. CASE m \in P
        <3>1. q = Append(r, s[m])
            BY <2>3, <2>7
        <3> DEFINE e == l + 1
        <3>2. /\ q \in Seq(T) /\ Len(q) = e
              /\ \A k \in 1..l : q[k] = r[k]
              /\ q[e] = s[m]
            BY <2>2, <2>4, <3>1, AppendPicked
        <3>3. \A k \in 1..e : k \in 1..l \/ k = e
            BY <2>4
        <3> HIDE DEF e
        <3>4. From(m)
            <4> SUFFICES ASSUME NEW k \in 1..Len(f[m]) PROVE \E j \in 1..m : f[m][k] = s[j]
                OBVIOUS
            <4>1. CASE k = e
                BY <2>5, <3>2, <4>1 DEF q
            <4>2. CASE k \in 1..l
                <5>1. PICK j \in 1..i : r[k] = s[j]
                    BY <2>2, <4>2 DEF r, l
                <5> QED BY <2>5, <3>2, <4>2, <5>1 DEF q
            <4> QED BY <3>2, <3>3, <4>1, <4>2 DEF q
        <3>5. \A k \in 1..Len(r) : r[k][2] # s[m][2]
            <4> SUFFICES ASSUME NEW k \in 1..Len(r) PROVE r[k][2] # s[m][2]
                OBVIOUS
            <4>1. PICK j \in 1..i : r[k] = s[j]
                BY <2>2 DEF r
            <4> QED BY <1>1, <2>1, <2>5, <4>1 DEF Apart
        <3>6. Apart(q)
            BY <2>2, <2>4, <3>1, <3>5, ApartAppend
        <3> QED BY <3>2, <3>4, <3>6 DEF q, m
    <2> QED BY <2>6, <2>7
<1>5. n \in N
    <2> HIDE DEF N
    <2> QED BY <1>1, <1>3, <1>4, NatSetInduction
<1>6. Holds(n)
    <2> HIDE DEF Holds
    <2> QED BY <1>1, <1>5
<1> QED BY <1>6 DEF Picked, n, f

\* Taking a root out of those that are apart leaves no other with its outpoint.
LEMMA ApartRemoved ==
    ASSUME NEW T, NEW s \in Seq(T), Apart(s), NEW i \in 1..Len(s),
           NEW r, r = RemoveAt(s, i)
    PROVE  /\ r \in Seq(T) /\ Apart(r)
           /\ \A k \in 1..Len(r) : \E j \in 1..Len(s) : r[k] = s[j] /\ s[j][2] # s[i][2]
PROOF
<1> DEFINE n == Len(s)
           a == i - 1
           b == i + 1
           c == n - i
           v == SubSeq(s, 1, a)
           w == SubSeq(s, b, n)
           At(k) == IF k < i THEN k ELSE k + 1
<1>1. n \in Nat /\ DOMAIN s = 1..n /\ \A k \in 1..n : s[k] \in T
    OBVIOUS
<1>2. /\ a \in Nat /\ b \in Nat /\ c \in Nat /\ n \in Int /\ 1 \in Int /\ i \in Int
      /\ (\A k \in 1..a : k \in 1..n) /\ (\A k \in b..n : k \in 1..n)
      /\ a + c = n - 1
    BY <1>1
<1>3. r = v \o w
    BY DEF RemoveAt
<1>4. /\ v \in Seq(T) /\ Len(v) = a /\ \A k \in 1..a : v[k] = s[k]
    <2> HIDE DEF n, b
    <2>0. a \in Int /\ 1 <= a + 1
        BY <1>2
    <2>1. \A k \in 1..a : s[k] \in T
        BY <1>1, <1>2
    <2> HIDE DEF a
    <2>2. /\ v \in Seq(T) /\ Len(v) = IF 1 <= a THEN a - 1 + 1 ELSE 0
          /\ \A k \in 1..(a - 1 + 1) : v[k] = s[1 + k - 1]
        BY <1>2, <2>0, <2>1, SubSeqProperties
    <2> HIDE DEF v
    <2>3. a - 1 + 1 = a /\ \A k \in 1..a : 1 + k - 1 = k
        BY <1>2
    <2>4. Len(v) = a
        BY <1>2, <2>2
    <2> QED BY <2>2, <2>3, <2>4
<1>5. /\ w \in Seq(T) /\ Len(w) = c /\ \A k \in 1..c : w[k] = s[i + k]
    <2>1. \A k \in b..n : s[k] \in T
        BY <1>1, <1>2
    <2> HIDE DEF b, n
    <2>2. /\ w \in Seq(T) /\ Len(w) = IF b <= n THEN n - b + 1 ELSE 0
          /\ \A k \in 1..(n - b + 1) : w[k] = s[b + k - 1]
        BY <1>2, <2>1, SubSeqProperties
    <2> HIDE DEF w
    <2>3. n - b + 1 = c /\ \A k \in 1..c : b + k - 1 = i + k
        BY <1>1, <1>2 DEF b
    <2>4. Len(w) = c
        BY <1>1, <1>2, <2>2, <2>3 DEF b
    <2> QED BY <2>2, <2>3, <2>4
<1> HIDE DEF v, w
<1> DEFINE m == n - 1
<1>6. /\ r \in Seq(T) /\ Len(r) = m
      /\ \A k \in 1..m : r[k] = IF k <= a THEN v[k] ELSE w[k - a]
    <2>1. a + c = m
        BY <1>2
    <2> HIDE DEF a, c, m
    <2>2. /\ v \o w \in Seq(T) /\ Len(v \o w) = Len(v) + Len(w)
          /\ \A k \in 1..(Len(v) + Len(w)) : (v \o w)[k] = IF k <= Len(v) THEN v[k] ELSE w[k - Len(v)]
        BY <1>4, <1>5, ConcatProperties
    <2> QED BY <1>3, <1>4, <1>5, <2>1, <2>2
<1>7. ASSUME NEW k \in 1..m PROVE r[k] = s[At(k)] /\ At(k) \in 1..n /\ At(k) # i
    <2>1. CASE k < i
        <3>1. k \in 1..a /\ k <= a /\ At(k) = k /\ k \in 1..n /\ k # i
            BY <1>1, <2>1
        <3>2. r[k] = v[k] /\ v[k] = s[k]
            <4> HIDE DEF a, m
            <4> QED BY <1>4, <1>6, <3>1
        <3> HIDE DEF At
        <3> QED BY <3>1, <3>2
    <2>2. CASE ~(k < i)
        <3> DEFINE d == k - a
        <3>1. /\ ~(k <= a) /\ d \in 1..c /\ At(k) = k + 1 /\ i + d = k + 1
              /\ k + 1 \in 1..n /\ k + 1 # i
            BY <1>1, <2>2
        <3>2. r[k] = w[d] /\ w[d] = s[i + d]
            <4>1. r[k] = w[d]
                <5> HIDE DEF a, m
                <5> QED BY <1>6, <3>1
            <4>2. w[d] = s[i + d]
                <5> HIDE DEF d, c
                <5> QED BY <1>5, <3>1
            <4> QED BY <4>1, <4>2
        <3> HIDE DEF At, d
        <3> QED BY <3>1, <3>2
    <2> QED BY <2>1, <2>2
<1>8. \A k, l \in 1..m : k # l => At(k) # At(l)
    BY <1>1
<1> HIDE DEF At, m, n
<1>9. Apart(r)
    <2>1. DOMAIN r = 1..m
        BY <1>6
    <2>2. ASSUME NEW k \in 1..m, NEW l \in 1..m, k # l PROVE r[k][2] # r[l][2]
        <3>1. /\ At(k) # At(l) /\ At(k) \in 1..n /\ At(l) \in 1..n
              /\ r[k] = s[At(k)] /\ r[l] = s[At(l)]
            BY <1>7, <1>8, <2>2
        <3> QED BY <1>1, <3>1 DEF Apart
    <2> QED BY <2>1, <2>2 DEF Apart
<1>10. ASSUME NEW k \in 1..Len(r)
       PROVE  \E j \in 1..n : r[k] = s[j] /\ s[j][2] # s[i][2]
    <2>1. k \in 1..m
        BY <1>6
    <2>2. At(k) \in 1..n /\ r[k] = s[At(k)] /\ At(k) # i
        BY <1>7, <2>1
    <2>3. i \in 1..n
        BY DEF n
    <2> QED BY <1>1, <2>2, <2>3 DEF Apart
<1> QED BY <1>6, <1>9, <1>10 DEF n

\* Roots in the order of their outpoints are a sequence of them that are apart.
LEMMA RootOrder ==
    ASSUME NEW roots, IsFiniteSet(roots),
           \A r \in roots : \E h \in Nat, t \in Nat : r = <<h, <<t, 1>>>>,
           \A r, s \in roots : r[2] = s[2] => r = s
    PROVE  InRootOrder(roots) \in Seq(roots) /\ Apart(InRootOrder(roots))
PROOF
<1> DEFINE n == Cardinality(roots)
           f == [r \in roots |-> r[2][1]]
           K == {r[2][1] : r \in roots}
           Ordered(s) == \A i, j \in DOMAIN s : i < j => OutpointLess(s[i][2], s[j][2])
<1>1. \A r \in roots : r[2] = <<r[2][1], 1>> /\ r[2][1] \in Nat /\ r[2][2] = 1
    <2> SUFFICES ASSUME NEW r \in roots PROVE r[2] = <<r[2][1], 1>> /\ r[2][1] \in Nat /\ r[2][2] = 1
        OBVIOUS
    <2>1. PICK h \in Nat, t \in Nat : r = <<h, <<t, 1>>>>
        OBVIOUS
    <2> QED BY <2>1
<1>2. f \in Bijection(roots, K)
    <2>1. f \in [roots -> K] /\ \A y \in K : \E r \in roots : f[r] = y
        OBVIOUS
    <2>2. ASSUME NEW r \in roots, NEW s \in roots, f[r] = f[s] PROVE r = s
        <3>1. r[2] = s[2]
            BY <1>1, <2>2
        <3> QED BY <3>1
    <2> HIDE DEF f, K
    <2> QED BY <2>1, <2>2 DEF Bijection, Injection, Surjection, IsInjective
<1>3. IsFiniteSet(K) /\ Cardinality(K) = n /\ n \in Nat
    <2> HIDE DEF f, K
    <2>1. Cardinality(roots) = Cardinality(K) /\ IsFiniteSet(K)
        BY <1>2, FS_Bijection DEF ExistsBijection
    <2> QED BY <2>1, FS_CardinalityType
<1>4. K \subseteq Int
    BY <1>1
<1>5. PICK q : Sorted(q, K)
    <2> HIDE DEF K
    <2> QED BY <1>3, <1>4, SortedExists
<1> DEFINE At(i) == CHOOSE r \in roots : r[2][1] = q[i]
           s == [i \in 1..n |-> At(i)]
<1>6. /\ DOMAIN q = 1..n /\ \A i \in 1..n : q[i] \in K
      /\ \A i, j \in 1..n : i < j => q[i] < q[j]
    <2> HIDE DEF K
    <2>1. q \in [1..n -> K] /\ \A i, j \in DOMAIN q : i < j => q[i] < q[j]
        BY <1>3, <1>5 DEF Sorted
    <2> HIDE DEF n
    <2> QED BY <2>1
<1>7. \A i \in 1..n : At(i) \in roots /\ At(i)[2][1] = q[i]
    <2> SUFFICES ASSUME NEW i \in 1..n PROVE At(i) \in roots /\ At(i)[2][1] = q[i]
        OBVIOUS
    <2>1. \E r \in roots : r[2][1] = q[i]
        BY <1>6
    <2> QED BY <2>1
<1> HIDE DEF At, K, f
<1>8. s \in [1..n -> roots]
    BY <1>7
<1>9. Ordered(s)
    <2>1. DOMAIN s = 1..n /\ \A i \in 1..n : s[i] = At(i)
        OBVIOUS
    <2> HIDE DEF s, n
    <2>2. ASSUME NEW i \in 1..n, NEW j \in 1..n, i < j PROVE OutpointLess(s[i][2], s[j][2])
        <3>1. s[i][2][1] = q[i] /\ s[j][2][1] = q[j] /\ q[i] < q[j]
            BY <1>6, <1>7, <2>1, <2>2
        <3> QED BY <3>1 DEF OutpointLess
    <2> QED BY <2>1, <2>2
<1> DEFINE r == InRootOrder(roots)
<1>10. r = CHOOSE z \in [1..n -> roots] : Ordered(z)
    BY DEF InRootOrder
<1> HIDE DEF s, Ordered, r
<1>11. r \in [1..n -> roots] /\ Ordered(r)
    <2> HIDE DEF n
    <2> QED BY <1>8, <1>9, <1>10
<1>12. r \in Seq(roots) /\ DOMAIN r = 1..n
    <2> HIDE DEF n
    <2> QED BY <1>3, <1>11
<1>13. Apart(r)
    <2>1. ASSUME NEW i \in 1..n, NEW j \in 1..n, i < j PROVE r[i][2] # r[j][2]
        <3>1. OutpointLess(r[i][2], r[j][2])
            BY <1>11, <1>12, <2>1 DEF Ordered
        <3>2. r[i] \in roots /\ r[j] \in roots
            BY <1>11
        <3>3. r[i][2][1] \in Nat /\ r[j][2][1] \in Nat /\ r[i][2][2] = 1 /\ r[j][2][2] = 1
            BY <1>1, <3>2
        <3> QED BY <3>1, <3>3 DEF OutpointLess
    <2>2. ASSUME NEW i \in 1..n, NEW j \in 1..n, i # j PROVE r[i][2] # r[j][2]
        <3>1. i < j \/ j < i
            <4>1. i \in Int /\ j \in Int
                BY <1>3
            <4> QED BY <2>2, <4>1
        <3> QED BY <2>1, <3>1
    <2> QED BY <1>12, <2>2 DEF Apart
<1> QED BY <1>12, <1>13 DEF r

\* Some outpoints have a first one.
LEMMA FirstOutpoint ==
    ASSUME NEW S, IsFiniteSet(S), S # {}, \A o \in S : o[1] \in Int /\ o[2] \in Int
    PROVE  \E o \in S : \A p \in S : ~OutpointLess(p, o)
PROOF
<1> DEFINE f == [o \in S |-> -o[1]]
           F == {f[o] : o \in S}
<1>1. S \subseteq DOMAIN f /\ F \subseteq Int /\ F # {}
    OBVIOUS
<1>2. IsFiniteSet(F)
    <2> HIDE DEF f
    <2> QED BY <1>1, FiniteImage
<1>3. PICK a \in F : \A x \in F : x <= a
    <2> HIDE DEF F
    <2> QED BY <1>1, <1>2, LargestExists
<1> DEFINE T == {o \in S : -o[1] = a}
           g == [o \in T |-> -o[2]]
           G == {g[o] : o \in T}
<1>4. T # {} /\ IsFiniteSet(T)
    <2>1. T # {}
        BY <1>3
    <2>2. T \subseteq S
        OBVIOUS
    <2> HIDE DEF T
    <2> QED BY <2>1, <2>2, FS_Subset
<1>5. T \subseteq DOMAIN g /\ G \subseteq Int /\ G # {}
    <2>1. \A o \in T : o[2] \in Int
        OBVIOUS
    <2> HIDE DEF T
    <2> QED BY <1>4, <2>1
<1>6. IsFiniteSet(G)
    <2> HIDE DEF g, T
    <2> QED BY <1>4, <1>5, FiniteImage
<1>7. PICK b \in G : \A x \in G : x <= b
    <2> HIDE DEF G
    <2> QED BY <1>5, <1>6, LargestExists
<1>8. PICK o \in T : g[o] = b
    <2> HIDE DEF g, T
    <2> QED BY <1>7
<1>9. o \in S /\ -o[1] = a /\ -o[2] = b
    BY <1>8
<1>10. ASSUME NEW p \in S PROVE ~OutpointLess(p, o)
    <2>1. f[p] = -p[1] /\ f[p] \in F
        OBVIOUS
    <2>2. -p[1] <= a
        <3> HIDE DEF F, f
        <3> QED BY <1>3, <2>1
    <2>3. p[1] = o[1] => -p[2] <= b
        <3> SUFFICES ASSUME p[1] = o[1] PROVE -p[2] <= b
            OBVIOUS
        <3>1. p \in T
            BY <1>9
        <3>2. g[p] = -p[2] /\ g[p] \in G
            <4> HIDE DEF T
            <4> QED BY <3>1
        <3> HIDE DEF G, g
        <3> QED BY <1>7, <3>2
    <2>4. o[1] \in Int /\ o[2] \in Int /\ p[1] \in Int /\ p[2] \in Int
        BY <1>9
    <2> HIDE DEF F, G, f, g, T
    <2> QED BY <1>9, <2>2, <2>3, <2>4 DEF OutpointLess
<1> QED BY <1>9, <1>10

\* Outpoints are pairs of numbers.
NumberedOutpoints(u) == \A o \in DOMAIN u : o[1] \in Int /\ o[2] \in Int

\* Among outputs there is one of the largest amount, and of the first outpoint among equals.
LEMMA LargestOutput ==
    ASSUME NEW S, IsFiniteSet(S), S # {}, NEW f, \A o \in S : f[o] \in Int,
           \A o \in S : o[1] \in Int /\ o[2] \in Int
    PROVE  \E o \in S : \A p \in S : f[p] < f[o] \/ (f[p] = f[o] /\ ~OutpointLess(p, o))
PROOF
<1> DEFINE g == [o \in S |-> f[o]]
           F == {g[o] : o \in S}
<1>1. S \subseteq DOMAIN g /\ F \subseteq Int /\ F # {}
    OBVIOUS
<1>2. IsFiniteSet(F)
    <2> HIDE DEF g
    <2> QED BY <1>1, FiniteImage
<1>3. PICK a \in F : \A x \in F : x <= a
    <2> HIDE DEF F
    <2> QED BY <1>1, <1>2, LargestExists
<1> DEFINE T == {o \in S : f[o] = a}
<1>4. T # {} /\ IsFiniteSet(T) /\ \A o \in T : o[1] \in Int /\ o[2] \in Int
    <2>1. T # {}
        BY <1>3
    <2>2. T \subseteq S
        OBVIOUS
    <2> HIDE DEF T
    <2> QED BY <2>1, <2>2, FS_Subset
<1>5. PICK o \in T : \A p \in T : ~OutpointLess(p, o)
    <2> HIDE DEF T
    <2> QED BY <1>4, FirstOutpoint
<1>6. o \in S /\ f[o] = a
    BY <1>5
<1>7. ASSUME NEW p \in S PROVE f[p] < f[o] \/ (f[p] = f[o] /\ ~OutpointLess(p, o))
    <2>1. g[p] = f[p] /\ g[p] \in F
        OBVIOUS
    <2>2. f[p] <= a
        <3> HIDE DEF F, g
        <3> QED BY <1>3, <2>1
    <2>3. f[p] = a => ~OutpointLess(p, o)
        <3> SUFFICES ASSUME f[p] = a PROVE ~OutpointLess(p, o)
            OBVIOUS
        <3>1. p \in T
            OBVIOUS
        <3> HIDE DEF T
        <3> QED BY <1>5, <3>1
    <2>4. f[p] \in Int /\ f[o] \in Int
        BY <1>6
    <2> HIDE DEF F, g, T
    <2> QED BY <1>6, <2>2, <2>3, <2>4
<1> QED BY <1>6, <1>7

\* The representative of a root is an eligible identity that is not skipped.
LEMMA RepresentativeIs ==
    ASSUME NEW L, LedgerIndexed(L), NumberedOutpoints(L.utxos),
           NEW root, NEW skipped, NEW eligible,
           Representative(L, root, skipped, eligible) # NoOwner
    PROVE  Representative(L, root, skipped, eligible) \in eligible \ skipped
PROOF
<1> DEFINE u == L.utxos
           l == L.lineage
           keys == {k \in DOMAIN L.owners :
                       /\ k[1] = root
                       /\ Identity(L, k[2]) \in eligible \ skipped}
           held == UNION {{<<k, o>> : o \in DOMAIN L.owners[k]} : k \in keys}
           amount(h) == L.owners[h[1]][h[2]]
           Best(h) == \A g \in held :
                          \/ amount(g) < amount(h)
                          \/ amount(g) = amount(h) /\ ~OutpointLess(g[2], h[2])
           best == CHOOSE h \in held : Best(h)
<1>1. Representative(L, root, skipped, eligible)
        = IF held = {} THEN NoOwner ELSE Identity(L, best[1][2])
    BY Zenon DEF Representative
<1>2. held # {}
    BY <1>1
<1>3. Coins(u) /\ Tracked(l, u) /\ OwnersExact(l, L.owners, u)
    BY DEF LedgerIndexed, Indexed
<1>4. /\ DOMAIN L.owners = Holders(l, u)
      /\ \A k \in DOMAIN L.owners : L.owners[k] = [o \in HeldBy(l, u, k) |-> u[o].amount]
    <2> DEFINE w == L.owners
    <2> HIDE DEF w, u, l
    <2>1. w = [k \in Holders(l, u) |-> [o \in HeldBy(l, u, k) |-> u[o].amount]]
        BY <1>3 DEF OwnersExact, w
    <2>2. DOMAIN w = Holders(l, u) /\ \A k \in DOMAIN w : w[k] = [o \in HeldBy(l, u, k) |-> u[o].amount]
        BY <2>1
    <2> QED BY <2>2 DEF w
<1> HIDE DEF u, l
<1>5. ASSUME NEW h \in held
      PROVE  /\ h[1] \in keys /\ h[1] = <<l[h[2]], u[h[2]].owner>> /\ h[2] \in DOMAIN l
             /\ h[2] \in DOMAIN u /\ amount(h) = u[h[2]].amount /\ h = <<h[1], h[2]>>
    <2>1. PICK k \in keys : \E o \in DOMAIN L.owners[k] : h = <<k, o>>
        BY <1>5
    <2>2. PICK o \in DOMAIN L.owners[k] : h = <<k, o>>
        BY <2>1
    <2>3. k \in DOMAIN L.owners /\ h[1] = k /\ h[2] = o
        BY <2>1, <2>2
    <2>4. L.owners[k] = [p \in HeldBy(l, u, k) |-> u[p].amount] /\ o \in HeldBy(l, u, k)
        BY <1>4, <2>2, <2>3
    <2>5. L.owners[k][o] = u[o].amount
        <3> DEFINE S == HeldBy(l, u, k)
        <3> HIDE DEF S
        <3>1. L.owners[k] = [p \in S |-> u[p].amount] /\ o \in S
            BY <2>4 DEF S
        <3> QED BY <3>1
    <2>6. o \in DOMAIN l /\ l[o] = k[1] /\ u[o].owner = k[2]
        BY <2>4 DEF HeldBy, Rooted
    <2>7. \E p \in DOMAIN l : k = <<l[p], u[p].owner>>
        BY <1>4, <2>3 DEF Holders
    <2>8. k = <<k[1], k[2]>>
        BY <2>7
    <2>9. o \in DOMAIN u
        BY <1>3, <2>6 DEF Tracked
    <2> QED BY <2>1, <2>2, <2>3, <2>5, <2>6, <2>8, <2>9
<1> DEFINE O == {h[2] : h \in held}
           f == Amount(u)
<1>6. O \subseteq DOMAIN u /\ O # {}
    <2> HIDE DEF held
    <2> QED BY <1>2, <1>5
<1>7. IsFiniteSet(O)
    <2> HIDE DEF O
    <2> QED BY <1>3, <1>6, FS_Subset DEF Coins
<1>8. \A o \in O : f[o] \in Int /\ o[1] \in Int /\ o[2] \in Int /\ f[o] = u[o].amount
    <2> HIDE DEF O
    <2> QED BY <1>3, <1>6 DEF Amount, Coins, NumberedOutpoints, u
<1>9. PICK o \in O : \A p \in O : f[p] < f[o] \/ (f[p] = f[o] /\ ~OutpointLess(p, o))
    <2> HIDE DEF O, f
    <2> QED BY <1>6, <1>7, <1>8, LargestOutput
<1>10. PICK h \in held : h[2] = o
    <2> HIDE DEF held
    <2> QED BY <1>9
<1>11. Best(h)
    <2> SUFFICES ASSUME NEW g \in held
                 PROVE  \/ amount(g) < amount(h)
                        \/ amount(g) = amount(h) /\ ~OutpointLess(g[2], h[2])
        OBVIOUS
    <2>1. g[2] \in O /\ h[2] \in O
        BY <1>9, <1>10
    <2>2. amount(g) = f[g[2]] /\ amount(h) = f[h[2]]
        <3>1. amount(g) = u[g[2]].amount /\ amount(h) = u[h[2]].amount
            <4> HIDE DEF held, amount
            <4> QED BY <1>5
        <3> HIDE DEF O, f, amount
        <3> QED BY <1>8, <2>1, <3>1
    <2> HIDE DEF O, f, amount, held
    <2> QED BY <1>9, <1>10, <2>1, <2>2
<1>12. best \in held
    <2> HIDE DEF held, Best
    <2> QED BY <1>10, <1>11
<1> DEFINE b == best
<1> HIDE DEF b
<1>13. b[1] \in keys
    <2>1. b \in held
        BY <1>12 DEF b
    <2> HIDE DEF held, keys
    <2> QED BY <1>5, <2>1
<1>14. Identity(L, b[1][2]) \in eligible \ skipped
    BY <1>13
<1>15. Representative(L, root, skipped, eligible) = Identity(L, b[1][2])
    <2> HIDE DEF held, Best
    <2> QED BY <1>1, <1>2 DEF b
<1> QED BY <1>14, <1>15

\* One more member keeps a committee distinct, if neither its owner nor its root is there.
LEMMA JoinsOnce ==
    ASSUME NEW T, NEW m \in Seq(T), NoneTwice(m), NEW e \in T,
           \A k \in 1..Len(m) : m[k].owner # e.owner /\ m[k].root # e.root
    PROVE  NoneTwice(Append(m, e))
PROOF
<1> DEFINE q == Append(m, e)
           l == Len(m)
           x == l + 1
<1>1. /\ q \in Seq(T) /\ Len(q) = x /\ l \in Nat
      /\ \A k \in 1..l : q[k] = m[k]
      /\ q[x] = e
    BY AppendPicked
<1>2. DOMAIN q = 1..x /\ DOMAIN m = 1..l
    <2> HIDE DEF q
    <2> QED BY <1>1
<1>3. \A k \in 1..x : k \in 1..l \/ k = x
    BY <1>1
<1> HIDE DEF q, x, l
<1>4. ASSUME NEW i \in 1..x, NEW j \in 1..x, i # j
      PROVE  q[i].owner # q[j].owner /\ q[i].root # q[j].root
    <2>1. CASE i \in 1..l /\ j \in 1..l
        <3>1. m[i].owner # m[j].owner /\ m[i].root # m[j].root
            BY <1>2, <1>4, <2>1 DEF NoneTwice
        <3> QED BY <1>1, <2>1, <3>1
    <2>2. CASE i \in 1..l /\ j = x
        <3>1. m[i].owner # e.owner /\ m[i].root # e.root
            BY <2>2 DEF l
        <3> QED BY <1>1, <2>2, <3>1
    <2>3. CASE i = x /\ j \in 1..l
        <3>1. m[j].owner # e.owner /\ m[j].root # e.root
            BY <2>3 DEF l
        <3> QED BY <1>1, <2>3, <3>1
    <2> QED BY <1>3, <1>4, <2>1, <2>2, <2>3
<1> QED BY <1>2, <1>4 DEF NoneTwice, q

\* A ledger whose indexes are exact, with outpoints and roots as transactions create them.
Drawable(L) ==
    /\ LedgerIndexed(L) /\ NumberedOutpoints(L.utxos) /\ RootsFit(L.lineage, TxIds)
    /\ Tip(L).seed \in Nat

\* Roots to draw from: they are apart, and each is represented by somebody not skipped.
Represents(L, left, skip, eligible) ==
    /\ left \in Seq(Roots(L.lineage)) /\ Apart(left)
    /\ \A k \in 1..Len(left) : Representative(L, left[k], skip, eligible) \in eligible \ skip

\* The represented ones among roots that are apart.
LEMMA RepresentedIs ==
    ASSUME NEW L, Drawable(L), NEW s \in Seq(Roots(L.lineage)), Apart(s),
           NEW skip, NEW eligible,
           NEW r, r = Represented(L, s, skip, eligible)
    PROVE  /\ Represents(L, r, skip, eligible)
           /\ \A k \in 1..Len(r) : \E j \in 1..Len(s) : r[k] = s[j]
PROOF
<1> DEFINE T == Roots(L.lineage)
           P == {i \in DOMAIN s : Representative(L, s[i], skip, eligible) # NoOwner}
<1>1. r = Picked(s, P)
    BY Zenon DEF Represented
<1>2. s \in Seq(T)
    OBVIOUS
<1> DEFINE n == Len(r)
<1>3. /\ r \in Seq(T)
      /\ \A k \in 1..n : \E j \in 1..Len(s) : j \in P /\ r[k] = s[j]
    <2> HIDE DEF P, T
    <2> QED BY <1>1, <1>2, PickedIs DEF IsPick
<1>4. Apart(r)
    <2> HIDE DEF P, T
    <2> QED BY <1>1, <1>2, ApartPicked
<1>5. ASSUME NEW k \in 1..n PROVE Representative(L, r[k], skip, eligible) \in eligible \ skip
    <2>1. PICK j \in 1..Len(s) : j \in P /\ r[k] = s[j]
        BY <1>3
    <2> DEFINE root == r[k]
    <2>2. Representative(L, root, skip, eligible) # NoOwner
        BY <2>1
    <2>3. LedgerIndexed(L) /\ NumberedOutpoints(L.utxos)
        BY DEF Drawable
    <2> HIDE DEF root
    <2>4. Representative(L, root, skip, eligible) \in eligible \ skip
        BY <2>2, <2>3, RepresentativeIs
    <2> QED BY <2>4 DEF root
<1> HIDE DEF P
<1> QED BY <1>3, <1>4, <1>5 DEF Represents

\* The roots that a committee may be drawn from.
LEMMA CandidatesAre ==
    ASSUME NEW L, Drawable(L), NEW skipped,
           NEW r, r = EligibleLineageCandidates(L, skipped)
    PROVE  r \in Seq(Roots(L.lineage)) /\ Apart(r)
PROOF
<1> DEFINE l == L.lineage
           u == L.utxos
           C == {x \in DOMAIN L.values :
                    /\ Weight(L.values[x]) > 0
                    /\ x[1] + LineageMaturity <= Tip(L).height
                    /\ \A owner \in skipped : ~HasOwner(L, x, owner)}
<1>1. r = InRootOrder(C)
    BY Zenon DEF EligibleLineageCandidates
<1>2. C \subseteq Roots(l)
    <2>1. ValuesExact(l, L.values, u)
        BY DEF Drawable, LedgerIndexed, Indexed
    <2>2. DOMAIN L.values = Roots(l)
        BY <2>1 DEF ValuesExact
    <2> QED BY <2>2
<1>3. IsFiniteSet(Roots(l))
    <2>1. Coins(u) /\ Tracked(l, u)
        BY DEF Drawable, LedgerIndexed, Indexed
    <2> HIDE DEF l, u
    <2>2. IsFiniteSet(DOMAIN l)
        BY <2>1, FS_Subset DEF Coins, Tracked
    <2> DEFINE D == DOMAIN l
    <2>3. IsFiniteSet(D) /\ D \subseteq DOMAIN l /\ Roots(l) = {l[x] : x \in D}
        BY <2>2 DEF Roots
    <2> HIDE DEF D
    <2> QED BY <2>3, FiniteImage
<1>4. /\ \A x \in Roots(l) : \E h \in Nat, t \in Nat : x = <<h, <<t, 1>>>>
      /\ \A x, y \in Roots(l) : x[2] = y[2] => x = y
    <2>1. \A t \in TxIds : t \in Nat
        BY TransactionAssumption
    <2> QED BY <2>1 DEF Drawable, RootsFit
<1> DEFINE R == Roots(l)
<1> HIDE DEF C, R
<1>5. C \subseteq R /\ IsFiniteSet(C)
    BY <1>2, <1>3, FS_Subset DEF R
<1>6. InRootOrder(C) \in Seq(C) /\ Apart(InRootOrder(C))
    <2>1. /\ \A x \in C : \E h \in Nat, t \in Nat : x = <<h, <<t, 1>>>>
          /\ \A x, y \in C : x[2] = y[2] => x = y
        BY <1>4, <1>5 DEF R
    <2> QED BY <1>5, <2>1, RootOrder
<1> QED BY <1>1, <1>5, <1>6, SeqMonotonic DEF R

\* A committee in the making: nobody and no root twice, every member skipped from now on,
\* and no member's root left to draw.
Drawing(L, s, eligible) ==
    /\ Represents(L, s.left, s.skip, eligible)
    /\ \E T : s.members \in Seq(T)
    /\ NoneTwice(s.members)
    /\ \A j \in 1..Len(s.members) :
          /\ s.members[j].owner \in s.skip
          /\ \A k \in 1..Len(s.left) : s.members[j].root # s.left[k][2]

\* The owner of a drawn root joins the committee.
LEMMA MemberJoins ==
    ASSUME NEW L, Drawable(L), NEW s, NEW eligible, Drawing(L, s, eligible),
           NEW slot, NEW i \in 1..Len(s.left),
           NEW r, r = WithMember(L, s, slot, i, Representative(L, s.left[i], s.skip, eligible), eligible)
    PROVE  Drawing(L, r, eligible)
PROOF
<1> DEFINE R == Roots(L.lineage)
           who == Representative(L, s.left[i], s.skip, eligible)
           e == [slot |-> slot, root |-> s.left[i][2], owner |-> who]
           m == s.members
           skip == s.skip \cup {who}
           roots == s.left
           rest == RemoveAt(roots, i)
           left == Represented(L, rest, skip, eligible)
<1>1. /\ r.members = Append(m, e) /\ r.skip = skip /\ r.left = left
    BY DEF WithMember
<1>2. who \in eligible \ s.skip
    BY DEF Drawing, Represents
<1>3. roots \in Seq(R) /\ Apart(roots)
    BY DEF Drawing, Represents
<1>4. PICK T : m \in Seq(T)
    BY DEF Drawing
<1>5. /\ rest \in Seq(R) /\ Apart(rest)
      /\ \A k \in 1..Len(rest) : \E j \in 1..Len(roots) : rest[k] = roots[j] /\ roots[j][2] # roots[i][2]
    <2> HIDE DEF R, roots
    <2>1. i \in 1..Len(roots)
        BY DEF roots
    <2> HIDE DEF rest
    <2> QED BY <1>3, <2>1, ApartRemoved DEF rest
<1>6. /\ Represents(L, left, skip, eligible)
      /\ \A k \in 1..Len(left) : \E j \in 1..Len(rest) : left[k] = rest[j]
    <2> HIDE DEF skip, rest
    <2> HIDE DEF left
    <2> QED BY <1>5, RepresentedIs DEF left, R
<1>7. /\ e.owner = who /\ e.root = roots[i][2]
    OBVIOUS
<1> HIDE DEF e
<1>8. \A k \in 1..Len(m) : m[k].owner # e.owner /\ m[k].root # e.root /\ m[k].owner \in s.skip
    BY <1>2, <1>7 DEF Drawing
<1> DEFINE U == T \cup {e}
<1>9. m \in Seq(U) /\ e \in U
    BY <1>4, SeqMonotonic
<1> DEFINE q == Append(m, e)
<1> HIDE DEF U, m, q
<1>10. NoneTwice(q)
    <2>1. NoneTwice(m)
        BY DEF Drawing, m
    <2> QED BY <1>8, <1>9, <2>1, JoinsOnce DEF q
<1>11. /\ q \in Seq(U) /\ Len(q) = Len(m) + 1 /\ Len(m) \in Nat
       /\ \A k \in 1..Len(m) : q[k] = m[k]
       /\ q[Len(m) + 1] = e
    BY <1>9, AppendPicked DEF q
<1> DEFINE l == Len(m)
           x == l + 1
<1>12. \A k \in 1..x : k \in 1..l \/ k = x
    BY <1>11
<1>13. ASSUME NEW k \in 1..Len(left)
       PROVE  /\ left[k][2] # roots[i][2]
              /\ \A j \in 1..l : m[j].root # left[k][2]
    <2>1. PICK y \in 1..Len(rest) : left[k] = rest[y]
        BY <1>6
    <2>2. PICK z \in 1..Len(roots) : rest[y] = roots[z] /\ roots[z][2] # roots[i][2]
        BY <1>5
    <2>3. left[k] = roots[z]
        BY <2>1, <2>2
    <2>4. \A j \in 1..Len(m) : m[j].root # roots[z][2]
        BY DEF Drawing, m
    <2> QED BY <2>2, <2>3, <2>4
<1> HIDE DEF l, x, left, skip
<1>14. ASSUME NEW j \in 1..Len(q)
       PROVE  /\ q[j].owner \in skip
              /\ \A k \in 1..Len(left) : q[j].root # left[k][2]
    <2>1. j \in 1..l \/ j = x
        BY <1>11, <1>12 DEF l, x
    <2>2. CASE j \in 1..l
        <3>1. q[j] = m[j] /\ m[j].owner \in s.skip
            BY <1>8, <1>11, <2>2 DEF l
        <3> QED BY <1>13, <2>2, <3>1 DEF skip
    <2>3. CASE j = x
        <3>1. q[j] = e
            BY <1>11, <2>3 DEF l, x
        <3> QED BY <1>7, <1>13, <3>1 DEF skip
    <2> QED BY <2>1, <2>2, <2>3
<1>15. r.members = q
    BY <1>1 DEF q, m
<1> QED BY <1>1, <1>6, <1>10, <1>11, <1>14, <1>15 DEF Drawing

\* The finalizer takes the first slot.
LEMMA DrawingStarts ==
    ASSUME NEW L, Drawable(L), NEW finalizer, NEW skipped, NEW eligible,
           finalizer.owner \in skipped, \A t \in TxIds : finalizer.id # <<t, 1>>,
           NEW s, s = FinalizerSeated(L, finalizer, skipped, eligible)
    PROVE  Drawing(L, s, eligible)
PROOF
<1> DEFINE e == [slot |-> 0, root |-> finalizer.id, owner |-> finalizer.owner]
           m == <<e>>
           all == EligibleLineageCandidates(L, skipped)
           left == Represented(L, all, skipped, eligible)
<1>1. s.members = m /\ s.skip = skipped /\ s.left = left
    BY DEF FinalizerSeated
<1>2. e.root = finalizer.id /\ e.owner = finalizer.owner
    OBVIOUS
<1>3. m \in Seq({e}) /\ Len(m) = 1 /\ m[1] = e /\ DOMAIN m = 1..1
    <2> HIDE DEF e
    <2> QED OBVIOUS
<1> HIDE DEF e, m
<1>4. \A j \in 1..1 : j = 1
    OBVIOUS
<1>5. NoneTwice(m)
    BY <1>3, <1>4 DEF NoneTwice
<1>6. all \in Seq(Roots(L.lineage)) /\ Apart(all)
    <2> HIDE DEF all
    <2> QED BY CandidatesAre DEF all
<1>7. Represents(L, left, skipped, eligible)
    <2> HIDE DEF all, left
    <2> QED BY <1>6, RepresentedIs DEF left
<1> HIDE DEF left
<1>8. \A k \in 1..Len(left) : left[k][2] # finalizer.id
    <2> SUFFICES ASSUME NEW k \in 1..Len(left) PROVE left[k][2] # finalizer.id
        OBVIOUS
    <2>1. left[k] \in Roots(L.lineage)
        BY <1>7 DEF Represents
    <2>2. PICK h \in Nat, t \in TxIds : left[k] = <<h, <<t, 1>>>>
        BY <2>1 DEF Drawable, RootsFit
    <2>3. left[k][2] = <<t, 1>>
        BY <2>2
    <2> QED BY <2>3
<1>9. \A j \in 1..Len(m) : m[j] = e
    BY <1>3, <1>4
<1> QED BY <1>1, <1>2, <1>3, <1>5, <1>7, <1>8, <1>9 DEF Drawing

\* One draw keeps the committee distinct.
LEMMA DrawingNext ==
    ASSUME NEW L, Drawable(L), NEW s, NEW eligible, Drawing(L, s, eligible), NEW slot \in Nat,
           NEW r, r = DrawNext(L, s, slot, eligible)
    PROVE  Drawing(L, r, eligible)
PROOF
<1> DEFINE l == L.lineage
           n == Len(s.left)
           w == [j \in DOMAIN s.left |-> Weight(L.values[s.left[j]])]
           digest == Tip(L).seed + slot
           i == SelectWeighted(w, digest)
<1>1. r = DrawSlot(L, s, slot, i, eligible)
    BY DEF DrawNext
<1>2. s.left \in Seq(Roots(l)) /\ n \in Nat /\ DOMAIN s.left = 1..n
    BY DEF Drawing, Represents
<1>3. digest \in Nat
    BY DEF Drawable
<1>4. ASSUME NEW j \in 1..n PROVE Weight(L.values[s.left[j]]) \in Nat
    <2> DEFINE root == s.left[j]
               u == L.utxos
    <2>1. root \in Roots(l)
        BY <1>2
    <2>2. Coins(u) /\ Tracked(l, u) /\ ValuesExact(l, L.values, u)
        BY DEF Drawable, LedgerIndexed, Indexed
    <2> HIDE DEF root, u, l
    <2>3. L.values[root] = Worth(l, u, root)
        BY <2>1, <2>2 DEF ValuesExact
    <2>4. L.values[root] \in Nat
        BY <2>2, <2>3, WorthIs
    <2> QED BY <2>4, WeightIn DEF root
<1>5. w \in Seq(Nat) /\ Len(w) = n
    <2>1. w \in [1..n -> Nat]
        <3> HIDE DEF n
        <3> QED BY <1>2, <1>4
    <2> HIDE DEF w, n
    <2> QED BY <1>2, <2>1
<1> HIDE DEF w, digest, n
<1>6. i \in 0..n
    BY <1>2, <1>3, <1>5, DrawFalls
<1> HIDE DEF i
<1>7. CASE i = 0
    BY <1>1, <1>7 DEF DrawSlot
<1>8. CASE i # 0
    <2>1. i \in 1..Len(s.left)
        BY <1>2, <1>6, <1>8 DEF n
    <2>2. r = WithMember(L, s, slot, i, Representative(L, s.left[i], s.skip, eligible), eligible)
        BY <1>1, <1>8 DEF DrawSlot
    <2> QED BY <2>1, <2>2, MemberJoins
<1> QED BY <1>7, <1>8

\* Nobody and no root sits on a drawn committee twice.
LEMMA CommitteeIsDistinct ==
    ASSUME NEW L, Drawable(L), NEW finalizer, NEW skipped, NEW eligible,
           finalizer.owner \in skipped, \A t \in TxIds : finalizer.id # <<t, 1>>
    PROVE  NoneTwice(CommitteeDrawn(L, finalizer, skipped, eligible))
PROOF
<1> DEFINE n == CommitteeSize - 1
           drawn == SlotsDrawn(L, finalizer, skipped, eligible)
           N == {i \in Nat : i <= n => Drawing(L, drawn[i], eligible)}
<1>1. n \in Nat
    BY ChainAssumption
<1>2. /\ drawn[0] = FinalizerSeated(L, finalizer, skipped, eligible)
      /\ \A i \in 1..n : drawn[i] = DrawNext(L, drawn[i - 1], i, eligible)
    <2>1. CommitteeSize - 1 \in Nat
        BY <1>1
    <2> QED BY <2>1, SlotsDrawnSteps
<1> HIDE DEF drawn, n
<1>3. 0 \in N
    <2>1. Drawing(L, drawn[0], eligible)
        BY <1>2, DrawingStarts
    <2> QED BY <2>1
<1>4. ASSUME NEW i \in Nat, i \in N PROVE i + 1 \in N
    <2> SUFFICES ASSUME i + 1 <= n PROVE Drawing(L, drawn[i + 1], eligible)
        OBVIOUS
    <2> DEFINE k == i + 1
               s == drawn[i]
               r == drawn[k]
    <2>1. k \in 1..n /\ k - 1 = i /\ k \in Nat
        BY <1>1
    <2>2. Drawing(L, s, eligible)
        BY <1>1, <1>4
    <2> HIDE DEF k
    <2>3. r = DrawNext(L, s, k, eligible)
        BY <1>2, <2>1
    <2> HIDE DEF s, r
    <2>4. Drawing(L, r, eligible)
        BY <2>1, <2>2, <2>3, DrawingNext
    <2> QED BY <2>4 DEF r, k
<1>5. n \in N
    <2> HIDE DEF N
    <2> QED BY <1>1, <1>3, <1>4, NatSetInduction
<1>6. Drawing(L, drawn[n], eligible)
    BY <1>1, <1>5
<1> QED BY <1>6 DEF CommitteeDrawn, drawn, n, Drawing

\* The draws read a ledger at its tip as they read the ledger.
LEMMA TipDrawable ==
    ASSUME NEW L, Drawable(L)
    PROVE  Drawable(AtTip(L))
PROOF
<1> DEFINE M == AtTip(L)
           c == <<Tip(L)>>
           no == FALSE
<1>1. M = [L EXCEPT !.chain = c, !.pruned = no]
    BY DEF AtTip
<1>2. IsLedger(L) /\ DOMAIN L = LedgerFields
    BY DEF Drawable, LedgerIndexed, IsLedger
<1>3. Len(c) = 1 /\ c[1] = Tip(L)
    OBVIOUS
<1> HIDE DEF M, c, no
<1>4. /\ M.chain = c /\ M.utxos = L.utxos /\ M.lineage = L.lineage /\ M.values = L.values
      /\ M.owners = L.owners
    BY <1>1, <1>2 DEF LedgerFields
<1>5. IsLedger(M)
    BY <1>1, <1>2 DEF IsLedger, LedgerFields
<1>6. Tip(M) = Tip(L)
    BY <1>3, <1>4 DEF Tip
<1> QED BY <1>4, <1>5, <1>6 DEF Drawable, LedgerIndexed, M

\* No owner and no root sits twice on a committee that a ledger draws.
LEMMA CommitteesAreDistinct ==
    ASSUME Drawable(ledger), ledger.mined \subseteq TxIds,
           TicketsFit(ledger.tickets, ledger.mined)
    PROVE  CommitteeDistinct
PROOF
<1> DEFINE L == ledger
           ranked == NextRanks(L)
<1> SUFFICES ASSUME NEW rank \in 0..(Len(ranked) - 1)
             PROVE  NoneTwice(LineageBurnCommittee(L, rank))
    BY DEF CommitteeDistinct
<1> DEFINE T == {t \in Range(L.tickets) : Eligible(t, NextHeight(L))}
           k == rank + 1
           finalizer == ranked[k]
           skipped == {ranked[i].owner : i \in 1..k}
           eligible == {ranked[i].owner : i \in DOMAIN ranked}
           M == AtTip(L)
<1>1. ranked \in Seq(T)
    <2>1. Tip(L).seed \in Nat
        BY DEF Drawable
    <2> QED BY <2>1, RanksAre DEF NextRanks
<1>2. k \in 1..Len(ranked) /\ k \in 1..k /\ ~(rank >= Len(ranked))
    <2>1. Len(ranked) \in Nat
        BY <1>1
    <2> HIDE DEF ranked
    <2> QED BY <2>1
<1>3. LineageBurnCommittee(L, rank) = CommitteeOfRanked(M, rank, ranked)
    BY DEF LineageBurnCommittee
<1> HIDE DEF ranked, M
<1>4. CommitteeOfRanked(M, rank, ranked) = CommitteeDrawn(M, finalizer, skipped, eligible)
    BY <1>2 DEF CommitteeOfRanked
<1>5. finalizer \in T
    BY <1>1, <1>2
<1>6. finalizer.owner \in skipped
    BY <1>2
<1>7. \A t \in TxIds : finalizer.id # <<t, 1>>
    <2> SUFFICES ASSUME NEW t \in TxIds, finalizer.id = <<t, 1>> PROVE FALSE
        OBVIOUS
    <2>1. IsTicketId(finalizer.id, L.mined)
        BY <1>5 DEF TicketsFit
    <2>2. t \in Nat
        BY TransactionAssumption
    <2> HIDE DEF finalizer
    <2>3. CASE \E s \in L.mined : finalizer.id = <<s, 0>>
        BY <2>3
    <2>4. CASE \E s \in Nat \ {0}, h \in Int : finalizer.id = <<-s, h>>
        <3>1. PICK s \in Nat \ {0}, h \in Int : finalizer.id = <<-s, h>>
            BY <2>4
        <3>2. -s = t
            BY <3>1
        <3> QED BY <2>2, <3>2
    <2> QED BY <2>1, <2>3, <2>4 DEF IsTicketId
<1>8. Drawable(M)
    BY TipDrawable DEF M
<1> HIDE DEF finalizer, skipped, eligible
<1>9. NoneTwice(CommitteeDrawn(M, finalizer, skipped, eligible))
    BY <1>6, <1>7, <1>8, CommitteeIsDistinct
<1> QED BY <1>3, <1>4, <1>9

-----------------------------------------------------------------------------
(* Sound lineage.                                                            *)

\* Exact indexes over amounts that fit, roots of mines, and bounded retargets.
Traced(L) ==
    /\ LedgerIndexed(L) /\ AmountsWithin(L.utxos)
    /\ RootsFit(L.lineage, L.mined)
    /\ Retargeted(L)

\* The invariant: a traced ledger whose outputs are accounted for and whose tickets are sound.
LineageInv == SupplyInv /\ TicketInv /\ Traced(ledger)

\* The genesis burns of an address are no negative sum.
LEMMA BurnsNat ==
    ASSUME NEW a
    PROVE  GenesisBurnOf(a) \in Nat
PROOF
<1> DEFINE n == Len(GenesisBurns)
           s == [i \in 1..n |-> IF GenesisBurns[i].owner = a THEN GenesisBurns[i].amount ELSE 0]
<1>1. n \in Nat /\ DOMAIN GenesisBurns = 1..n /\ \A i \in 1..n : GenesisBurns[i].amount \in Nat
    BY BurnsShape
<1>2. GenesisBurnOf(a) = SumSeq(s)
    BY <1>1 DEF GenesisBurnOf
<1>3. DOMAIN s = 1..n /\ \A i \in 1..n : s[i] \in Nat /\ s[i] \in Int
    BY <1>1
<1> HIDE DEF s, n
<1>4. SumSeq(s) = Sum(s, 1..n)
    BY <1>1, <1>3, SumSeqOver
<1>5. Sum(s, 1..n) \in Nat
    BY <1>1, <1>3, SumNat
<1> QED BY <1>2, <1>4, <1>5

\* The outputs of the genesis fit in amounts.
LEMMA GenesisWithin == AmountsWithin(UtxosAfterGenesis)
PROOF
<1> DEFINE left == [a \in DOMAIN Allocation |-> Allocation[a] - GenesisBurnOf(a)]
           P == {a \in DOMAIN left : left[a] > 0}
           D == {<<0, a>> : a \in P}
           u == [o \in D |-> [owner |-> o[2], amount |-> left[o[2]]]]
           none == << >>
           r == RewardOutputs(Genesis, Genesis.reward, none)
<1>1. UtxosAfterGenesis = Merge(u, r)
    BY DEF UtxosAfterGenesis, CreditRewardOutputs
<1>2. MaxAmount \in Nat
    BY TransactionAssumption
<1>3. ASSUME NEW a \in P PROVE left[a] \in 1..MaxAmount
    <2>1. a \in DOMAIN Allocation /\ left[a] = Allocation[a] - GenesisBurnOf(a) /\ left[a] > 0
        OBVIOUS
    <2>2. Allocation[a] \in 0..MaxAmount
        BY <2>1, ChainAssumption
    <2>3. GenesisBurnOf(a) \in Nat
        BY BurnsNat
    <2> HIDE DEF left
    <2> QED BY <1>2, <2>1, <2>2, <2>3
<1> HIDE DEF P, left
<1>4. ASSUME NEW o \in D PROVE u[o].amount \in 1..MaxAmount
    <2>1. PICK a \in P : o = <<0, a>>
        OBVIOUS
    <2>2. o[2] = a
        BY <2>1
    <2>3. u[o].amount = left[o[2]]
        OBVIOUS
    <2> HIDE DEF u
    <2> QED BY <1>3, <2>2, <2>3
<1>5. DOMAIN u = D
    OBVIOUS
<1>6. AmountsWithin(r)
    <2> DEFINE g == Genesis
    <2>1. g.reward \in 0..MaxAmount
        BY <1>2, ChainAssumption DEF Genesis
    <2>2. DOMAIN none = {}
        OBVIOUS
    <2> HIDE DEF g, none
    <2>3. IsCommittee(none, g.miner)
        BY <2>2, FS_EmptySet DEF IsCommittee
    <2> DEFINE x == RewardOutputs(g, g.reward, none)
    <2>4. g.reward \in Nat /\ g.reward <= MaxAmount
        BY <1>2, <2>1
    <2>5. Coins(x) /\ AllWorth(x) /\ Total(x) = g.reward
        BY <2>3, <2>4, RewardPaidInFull
    <2> HIDE DEF x
    <2>6. AmountsWithin(x)
        BY <2>4, <2>5, PaidWithin
    <2> QED BY <2>6 DEF x, g
<1> HIDE DEF u, r, D
<1> QED BY <1>1, <1>4, <1>5, <1>6 DEF AmountsWithin, Merge

\* The genesis is traced.
LEMMA GenesisTraced == Traced(GenesisLedger)
PROOF
<1> DEFINE L == GenesisLedger
           u == L.utxos
<1>1. /\ IsLedger(L) /\ L.chain = <<Genesis>>
      /\ u = UtxosAfterGenesis /\ L.mined = {}
    BY GenesisShaped DEF Shaped
<1>2. /\ L.lineage = << >> /\ L.values = << >> /\ L.owners = << >>
      /\ L.windows = <<InitialBits>> /\ L.observations = << >> /\ L.rounds = InitialRounds
    BY DEF GenesisLedger
<1> HIDE DEF L, u
<1> DEFINE l == << >>
<1>3. DOMAIN l = {} /\ l = [o \in {} |-> l[o]]
    OBVIOUS
<1>4. LedgerIndexed(L)
    <2>1. Coins(u)
        BY <1>1, GenesisCoins
    <2>2. Tracked(l, u)
        BY <1>3 DEF Tracked
    <2>3. Roots(l) = {} /\ Holders(l, u) = {}
        BY <1>3 DEF Roots, Holders
    <2>4. l = [r \in {} |-> Worth(l, u, r)]
        OBVIOUS
    <2>5. l = [k \in {} |-> [o \in HeldBy(l, u, k) |-> u[o].amount]]
        OBVIOUS
    <2>6. ValuesExact(l, l, u)
        BY <2>3, <2>4 DEF ValuesExact
    <2>7. OwnersExact(l, l, u)
        BY <2>3, <2>5 DEF OwnersExact
    <2> QED BY <1>1, <1>2, <2>1, <2>2, <2>6, <2>7 DEF LedgerIndexed, Indexed, u
<1>5. AmountsWithin(L.utxos)
    BY <1>1, GenesisWithin DEF u
<1>6. RootsFit(L.lineage, L.mined)
    <2>1. Roots(l) = {}
        BY <1>3 DEF Roots
    <2> QED BY <1>2, <2>1 DEF RootsFit
<1>7. Retargeted(L)
    <2>1. L.rounds \in 1..MaxRounds
        BY <1>2, ChainAssumption
    <2>2. L.observations \in Seq(Int)
        BY <1>2
    <2> DEFINE w == <<InitialBits>>
    <2>3. /\ w \in Seq(Int) /\ w # << >>
          /\ DOMAIN w = 1..1 /\ \A i \in 1..1 : w[i] = InitialBits
        BY ChainAssumption
    <2> HIDE DEF w
    <2>4. \A i \in DOMAIN w : w[i] >= MinBits
        BY <2>3, ChainAssumption
    <2>5. Tip(L).time \in Int
        <3> DEFINE g == Genesis
                   c == <<g>>
        <3>1. Len(c) = 1 /\ c[1] = g
            OBVIOUS
        <3>2. g.time = 0
            BY DEF Genesis
        <3> HIDE DEF g
        <3>3. L.chain = c
            BY <1>1 DEF g
        <3> HIDE DEF c
        <3>4. Tip(L) = c[1]
            BY <3>1, <3>3 DEF Tip
        <3>5. Tip(L) = g
            BY <3>1, <3>4
        <3> QED BY <3>2, <3>5
    <2> QED BY <1>2, <2>1, <2>2, <2>3, <2>4, <2>5 DEF Retargeted, w
<1> QED BY <1>4, <1>5, <1>6, <1>7 DEF Traced, L

\* A block keeps the ledger traced.
LEMMA TracedAtBlock ==
    ASSUME PositiveOutputs, SupplyInv, Traced(ledger), NEW b, Extends(b)
    PROVE  Traced(ledger')
PROOF
<1> DEFINE L == ledger
           M == ApplyTrustedBlock(L, b)
           n == Len(full)
<1>1. /\ Chained(full) /\ IsLedger(L) /\ Resident(L, full)
      /\ Coins(L.utxos) /\ L.mined \subseteq TxIds
      /\ Accounted(L.utxos, L.mined, n)
    BY DEF SupplyInv
<1>2. /\ b.hash = n /\ b.height = n /\ Body(b) \in Seq(TxIds) /\ b.v1 \in Seq(TxIds)
      /\ b.rank \in Nat
      /\ Tip(L).time \in Int => b.time \in Int
      /\ BlockValid(L, b, b.time) /\ ledger' = M
    BY DEF Extends, ApplyBlock
<1>3. LedgerIndexed(L) /\ AmountsWithin(L.utxos) /\ RootsFit(L.lineage, L.mined) /\ Retargeted(L)
    BY DEF Traced
<1>4. /\ b.mode = "ticket" => FinalizesByRank(b, NextRanks(L))
      /\ b.reward <= MaxAmount
      /\ b.rounds = L.rounds * (IF b.mode = "ticket" THEN b.rank + 1 ELSE 1)
      /\ b.mode = "ticket" \/ b.rank = 0
    BY <1>2 DEF BlockValid, PrecheckBlock
<1>5. n \in Nat
    BY <1>1 DEF Chained
<1>6. PICK S : L.chain \in Seq(S)
    BY <1>1 DEF Resident, Suffix
<1>7. b.rounds = L.rounds * (b.rank + 1)
    <2>1. CASE b.mode = "ticket"
        BY <1>4, <2>1
    <2>2. CASE b.mode # "ticket"
        <3>1. b.rank + 1 = 1
            BY <1>4, <2>2
        <3> QED BY <1>4, <2>2, <3>1
    <2> QED BY <2>1, <2>2
<1>8. b.time \in Int
    BY <1>2, <1>3 DEF Retargeted
<1> HIDE DEF L, M, n
<1>9. Fresh(L, b)
    BY <1>1, <1>2, <1>4, BlockIssues DEF n, M
<1>10. LedgerIndexed(M) /\ AmountsWithin(M.utxos) /\ RootsFit(M.lineage, M.mined)
    <2>1. b.height \in Nat
        BY <1>2, <1>5
    <2> QED BY <1>1, <1>2, <1>3, <1>4, <1>6, <1>9, <2>1, BlockIndexes DEF M
<1>11. Retargeted(M)
    <2>1. L.utxos = [o \in DOMAIN L.utxos |-> L.utxos[o]]
        BY <1>1 DEF Coins
    <2> QED BY <1>1, <1>2, <1>3, <1>7, <1>8, <2>1, BlockRetargets DEF M, n
<1> QED BY <1>2, <1>10, <1>11 DEF Traced

\* Pruning and restoring keep the ledger traced.
LEMMA TracedAtPruning ==
    ASSUME Chained(full), Resident(ledger, full), Traced(ledger), NEW M, PrunedTo(M)
    PROVE  Traced(ledger')
PROOF
<1> DEFINE L == ledger
<1>1. /\ M.utxos = L.utxos /\ M.lineage = L.lineage /\ M.values = L.values
      /\ M.owners = L.owners /\ M.mined = L.mined /\ M.rounds = L.rounds
      /\ M.observations = L.observations /\ M.windows = L.windows
    BY DEF PrunedTo, LedgerFields
<1>2. ledger' = M /\ IsLedger(M) /\ Resident(M, full)
    BY DEF PrunedTo
<1>3. Tip(M) = Tip(L)
    <2>1. Tip(M) = full[Len(full)]
        BY <1>2, TipResident
    <2>2. Tip(L) = full[Len(full)]
        BY TipResident
    <2> QED BY <2>1, <2>2
<1>4. LedgerIndexed(L) /\ AmountsWithin(L.utxos) /\ RootsFit(L.lineage, L.mined) /\ Retargeted(L)
    BY DEF Traced
<1> HIDE DEF L
<1>5. LedgerIndexed(M)
    BY <1>1, <1>2, <1>4 DEF LedgerIndexed
<1>6. Retargeted(M)
    BY <1>1, <1>3, <1>4 DEF Retargeted
<1>7. AmountsWithin(M.utxos) /\ RootsFit(M.lineage, M.mined)
    BY <1>1, <1>4
<1> QED BY <1>2, <1>5, <1>6, <1>7 DEF Traced

\* Outpoints that are accounted for are pairs of numbers.
LEMMA AccountedNumbered ==
    ASSUME NEW u, NEW mined, mined \subseteq TxIds, NEW n, Accounted(u, mined, n), n \in Nat
    PROVE  NumberedOutpoints(u)
PROOF
<1> SUFFICES ASSUME NEW o \in DOMAIN u PROVE o[1] \in Int /\ o[2] \in Int
    BY DEF NumberedOutpoints
<1>1. \/ \E t \in mined, k \in Nat \ {0} : o = <<t, k>>
      \/ \E a \in Nat \ {0} : o = <<0, a>>
      \/ \E h \in 0..(n - 1), k \in Nat : o = <<h, -k>>
    BY DEF Accounted
<1>2. CASE \E t \in mined, k \in Nat \ {0} : o = <<t, k>>
    <2>1. PICK t \in mined, k \in Nat \ {0} : o = <<t, k>>
        BY <1>2
    <2>2. t \in Nat
        BY TransactionAssumption
    <2> QED BY <2>1, <2>2
<1>3. CASE \E a \in Nat \ {0} : o = <<0, a>>
    BY <1>3
<1>4. CASE \E h \in 0..(n - 1), k \in Nat : o = <<h, -k>>
    BY <1>4
<1> QED BY <1>1, <1>2, <1>3, <1>4

\* What the invariant says of the indexes and of the committees.
LEMMA TracedIsSound == LineageInv => LineageSound
PROOF
<1> SUFFICES ASSUME LineageInv PROVE LineageSound
    OBVIOUS
<1> DEFINE L == ledger
           u == L.utxos
           l == L.lineage
<1>1. /\ Chained(full) /\ Resident(L, full) /\ L.mined \subseteq TxIds
      /\ Accounted(u, L.mined, Len(full))
    BY DEF LineageInv, SupplyInv
<1>2. TicketsFit(L.tickets, L.mined) /\ \A i \in 1..Len(full) : full[i].seed \in Nat
    BY DEF LineageInv, TicketInv
<1>3. LedgerIndexed(L) /\ AmountsWithin(u) /\ RootsFit(l, L.mined) /\ Retargeted(L)
    BY DEF LineageInv, Traced
<1>4. Coins(u) /\ Tracked(l, u) /\ ValuesExact(l, L.values, u) /\ OwnersExact(l, L.owners, u)
    BY <1>3 DEF LedgerIndexed, Indexed
<1>5. Len(full) \in Nat \ {0}
    BY <1>1 DEF Chained
<1>6. LedgerTypeOK
    <2>1. Head(L.chain) = Genesis
        <3>1. PICK m \in 2..(Len(full) + 1) : Suffix(L.chain, full, m)
            BY <1>1 DEF Resident
        <3>2. PICK S : L.chain \in Seq(S)
            BY <3>1 DEF Suffix
        <3>3. Len(L.chain) \in Nat \ {0}
            BY <1>1, <3>1, SuffixLen
        <3>4. L.chain[1] = Genesis
            BY <1>1, <3>1 DEF Suffix, Chained
        <3> DEFINE c == L.chain
        <3> HIDE DEF c
        <3>5. Head(c) = c[1]
            BY <3>2, <3>3 DEF c
        <3> QED BY <3>4, <3>5 DEF c
    <2>2. \A o \in DOMAIN u : u[o].amount \in 1..MaxAmount
        BY <1>3 DEF AmountsWithin
    <2>3. DOMAIN l \subseteq DOMAIN u
        BY <1>4 DEF Tracked
    <2>4. L.rounds \in 1..MaxRounds /\ \A i \in DOMAIN L.windows : L.windows[i] >= MinBits
        BY <1>3 DEF Retargeted
    <2> QED BY <2>1, <2>2, <2>3, <2>4 DEF LedgerTypeOK
<1>7. LineageIndexesExact
    BY <1>4, Zenon DEF LineageIndexesExact, ValuesExact, OwnersExact, Roots, Rooted, Worth,
                       Holders, HeldBy
<1>8. CommitteeDistinct
    <2>1. NumberedOutpoints(u)
        <3> DEFINE n == Len(full)
        <3> HIDE DEF n, u
        <3>1. n \in Nat /\ Accounted(u, L.mined, n)
            BY <1>1, <1>5 DEF n
        <3> QED BY <1>1, <3>1, AccountedNumbered
    <2>2. Tip(L).seed \in Nat
        <3>1. Tip(L) = full[Len(full)]
            BY <1>1, TipResident
        <3> QED BY <1>2, <1>5, <3>1
    <2>3. RootsFit(l, TxIds)
        BY <1>1, <1>3 DEF RootsFit
    <2>4. Drawable(L)
        BY <1>3, <2>1, <2>2, <2>3 DEF Drawable
    <2> QED BY <1>1, <1>2, <2>4, CommitteesAreDistinct
<1> QED BY <1>6, <1>7, <1>8 DEF LineageSound

(* Theorem: while no transaction creates an output of nothing, every amount fits, both
   lineage indexes are what the outputs and their roots say, retargets stay within their
   bounds, and no owner and no root sits on a committee twice, whatever blocks come and
   however the history is pruned and restored (spend_inputs_with_lineage,
   insert_outputs_with_lineage, lineage_burn_committee_for_height). *)
THEOREM LineageIsSound ==
    ASSUME PositiveOutputs
    PROVE  LedgerSpec => []LineageSound
PROOF
<1>1. LedgerInit => LineageInv
    <2> SUFFICES ASSUME LedgerInit PROVE LineageInv
        OBVIOUS
    <2>1. ledger = GenesisLedger
        BY DEF LedgerInit
    <2>2. Traced(ledger)
        BY <2>1, GenesisTraced
    <2> QED BY <2>2, SupplyAtInit, TicketsAtInit DEF LineageInv
<1>2. LineageInv /\ [LedgerNext]_ledgerVars => LineageInv'
    <2> SUFFICES ASSUME LineageInv, [LedgerNext]_ledgerVars PROVE LineageInv'
        OBVIOUS
    <2>1. SupplyInv /\ TicketInv /\ Traced(ledger)
        BY DEF LineageInv
    <2>2. Chained(full) /\ IsLedger(ledger) /\ Resident(ledger, full)
        BY <2>1 DEF SupplyInv
    <2>3. TicketInv'
        BY <2>1, TicketStep
    <2>4. CASE FinalizeTicketBlock \/ FinalizeRecoveryBlock
        <3>1. PICK b : Extends(b)
            BY <2>2, <2>4, StepsExtend
        <3>2. SupplyInv'
            BY <2>1, <3>1, SupplyAtBlock
        <3>3. Traced(ledger')
            BY <2>1, <3>1, TracedAtBlock
        <3> QED BY <2>3, <3>2, <3>3 DEF LineageInv
    <2>5. CASE Prune \/ Restore
        <3>1. PICK M : PrunedTo(M)
            BY <2>2, <2>5, PruningKeeps
        <3>2. SupplyInv'
            BY <2>1, <3>1, SupplyAtPruning
        <3>3. Traced(ledger')
            BY <2>1, <2>2, <3>1, TracedAtPruning
        <3> QED BY <2>3, <3>2, <3>3 DEF LineageInv
    <2>6. CASE UNCHANGED ledgerVars
        <3>1. ledger' = ledger /\ full' = full
            BY <2>6 DEF ledgerVars
        <3>2. SupplyInv'
            BY <2>1, <3>1 DEF SupplyInv, SupplyConserved
        <3>3. Traced(ledger')
            BY <2>1, <3>1
        <3> QED BY <2>3, <3>2, <3>3 DEF LineageInv
    <2> QED BY <2>4, <2>5, <2>6 DEF LedgerNext
<1>3. LineageInv => LineageSound
    BY TracedIsSound
<1> QED BY <1>1, <1>2, <1>3, PTL DEF LedgerSpec

=============================================================================
