---------------------------- MODULE LedgerProofs ----------------------------
(***************************************************************************)
(* What a ledger holds is accounted for, whatever blocks it takes: no unit *)
(* is lost or made beside mines and burns, no ticket finalizes twice and   *)
(* there always is one, and a node that prunes and restores its history    *)
(* keeps what a restart rebuilds from all of it.                           *)
(***************************************************************************)
EXTENDS LedgerChain, FiniteSetTheorems, SequenceTheorems, WellFoundedInduction, TLAPS

-----------------------------------------------------------------------------
(* Induction over numbers and finite sets, and sums.                         *)

\* A set of numbers that holds 0 and the successor of each of its numbers holds all of
\* them.
LEMMA NatSetInduction ==
    ASSUME NEW S, 0 \in S, \A n \in Nat : n \in S => n + 1 \in S
    PROVE  \A n \in Nat : n \in S
PROOF
<1> DEFINE R == OpToRel(<, Nat)
           T == Nat \ S
<1> SUFFICES ASSUME T # {} PROVE FALSE
    OBVIOUS
<1>1. IsWellFoundedOn(R, Nat)
    BY NatLessThanWellFounded
<1>2. PICK x \in T : \A y \in T : ~(<<y, x>> \in R)
    <2>1. T \subseteq Nat /\ T # {}
        OBVIOUS
    <2> HIDE DEF R, T
    <2> QED BY <1>1, <2>1, WFMin
<1>3. x # 0 /\ x - 1 \in Nat
    <2>1. x \in Nat /\ x \notin S
        BY <1>2
    <2>2. x # 0
        BY <2>1
    <2> HIDE DEF R, T
    <2> QED BY <2>1, <2>2
<1>4. <<x - 1, x>> \in R
    <2>1. x \in Nat /\ x - 1 < x
        BY <1>3
    <2> QED BY <1>3, <2>1 DEF OpToRel
<1>5. x - 1 \in S
    BY <1>2, <1>3, <1>4
<1>6. x \in S
    <2>1. x - 1 + 1 = x
        BY <1>3
    <2> QED BY <1>3, <1>5, <2>1
<1> QED BY <1>6

\* A property that a set keeps when one more element joins holds of every finite set.
LEMMA FiniteSetInduction ==
    ASSUME NEW K, {} \in K, 
           NEW U, IsFiniteSet(U),
           \A S \in SUBSET U, x \in U : S \in K /\ x \notin S => S \cup {x} \in K
    PROVE  U \in K
PROOF
<1> DEFINE N == {n \in Nat : \A S \in SUBSET U : Cardinality(S) = n => S \in K}
<1>1. 0 \in N
    <2> SUFFICES ASSUME NEW S \in SUBSET U, Cardinality(S) = 0 PROVE S \in K
        OBVIOUS
    <2>1. IsFiniteSet(S)
        BY FS_Subset
    <2>2. S = {}
        BY <2>1, FS_EmptySet
    <2> QED BY <2>2
<1>2. ASSUME NEW n \in Nat, n \in N PROVE n + 1 \in N
    <2> SUFFICES ASSUME NEW S \in SUBSET U, Cardinality(S) = n + 1 PROVE S \in K
        OBVIOUS
    <2>1. IsFiniteSet(S) /\ S # {}
        BY FS_EmptySet, FS_Subset
    <2>2. PICK x \in S : TRUE
        BY <2>1
    <2>3. Cardinality(S \ {x}) = n
        <3>1. Cardinality(S \ {x}) = Cardinality(S) - 1
            BY <2>1, FS_RemoveElement
        <3> QED BY <3>1
    <2>4. S \ {x} \in K
        BY <1>2, <2>3
    <2>5. (S \ {x}) \cup {x} = S
        OBVIOUS
    <2> QED BY <2>4, <2>5
<1>3. \A n \in Nat : n \in N
    <2> HIDE DEF N
    <2> QED BY <1>1, <1>2, NatSetInduction
<1> QED BY <1>3, FS_CardinalityType

\* How the folds take a set apart: the sums of its subsets, one chosen element after the
\* other.
Chosen(s) == CHOOSE x \in s : TRUE
Part(S, f, g) == g = [s \in SUBSET S |->
       IF s = {} THEN 0 ELSE f[Chosen(s)] + g[s \ {Chosen(s)}]]

\* A sum is the value of a function of partial sums.
LEMMA SumIs ==
    ASSUME NEW S, NEW f 
    PROVE  Sum(f, S) = (CHOOSE g : Part(S, f, g))[S]
PROOF BY DEF Sum, FoldSet, MapThenFoldSet, Part, Chosen

\* A set that is not empty has the element that the folds choose.
LEMMA ChosenIn == ASSUME NEW s, s # {} PROVE Chosen(s) \in s
PROOF BY DEF Chosen

\* A sequence is summed as a function of its positions.
LEMMA SumSeqIs ==
    ASSUME NEW s
    PROVE  SumSeq(s) = Sum(s, DOMAIN s)
PROOF BY DEF Sum, SumSeq, FoldSet, MapThenFoldSet, FoldSeq, FoldFunction, FoldFunctionOnSet
\* A function of partial sums takes out one chosen element after the other.
LEMMA PartOf ==
    ASSUME NEW S, NEW f, NEW g, Part(S, f, g)
    PROVE  /\ g[{}] = 0
           /\ \A s \in SUBSET S : s # {} => g[s] = f[Chosen(s)] + g[s \ {Chosen(s)}]
PROOF BY DEF Part

(* There is a function of partial sums on every finite set ... *)
LEMMA PartExists ==
    ASSUME NEW U, IsFiniteSet(U), NEW f
    PROVE  \E g : Part(U, f, g)
PROOF
<1> DEFINE D(n) == {s \in SUBSET U : Cardinality(s) <= n}
           Next(g, s) == IF s = {} THEN 0 ELSE f[Chosen(s)] + g[s \ {Chosen(s)}]
           N == {n \in Nat : \E g : g = [s \in D(n) |-> Next(g, s)]}
<1>1. \A s \in SUBSET U : s # {} =>
        /\ IsFiniteSet(s) /\ Cardinality(s) \in Nat /\ s \ {Chosen(s)} \in SUBSET U
        /\ Cardinality(s \ {Chosen(s)}) = Cardinality(s) - 1
    BY ChosenIn, FS_Subset, FS_RemoveElement, FS_CardinalityType
<1>2. 0 \in N
    <2>1. D(0) = {{}}
        <3>1. ASSUME NEW s \in D(0) PROVE s = {}
            <4>1. IsFiniteSet(s) /\ Cardinality(s) \in Nat
                BY FS_Subset, FS_CardinalityType
            <4> QED BY <4>1, FS_EmptySet
        <3> QED BY <3>1, FS_EmptySet
    <2> DEFINE g == [s \in {{}} |-> 0]
    <2>2. g = [s \in D(0) |-> Next(g, s)]
        BY <2>1
    <2> QED BY <2>2
<1>3. ASSUME NEW n \in Nat, n \in N PROVE n + 1 \in N
    <2>1. PICK g : g = [s \in D(n) |-> Next(g, s)]
        BY <1>3
    <2> DEFINE h == [s \in D(n + 1) |-> Next(g, s)]
    <2>2. ASSUME NEW s \in D(n + 1) PROVE h[s] = Next(h, s)
        <3>1. CASE s = {}
            BY <3>1
        <3>2. CASE s # {}
            <4> DEFINE t == s \ {Chosen(s)}
            <4>1. t \in D(n) /\ t \in D(n + 1)
                <5>1. s \in SUBSET U /\ Cardinality(s) <= n + 1
                    OBVIOUS
                <5>2. /\ t \in SUBSET U /\ Cardinality(t) = Cardinality(s) - 1
                      /\ Cardinality(s) \in Nat
                    BY <1>1, <3>2, <5>1
                <5> HIDE DEF t
                <5>3. Cardinality(t) <= n /\ Cardinality(t) <= n + 1
                    BY <5>1, <5>2
                <5> QED BY <5>2, <5>3
            <4>2. h[t] = g[t]
                <5>1. h[t] = Next(g, t) /\ g[t] = Next(g, t)
                    BY <2>1, <4>1
                <5> QED BY <5>1
            <4>3. h[s] = f[Chosen(s)] + g[t]
                BY <2>2, <3>2
            <4> HIDE DEF h, t
            <4> QED BY <3>2, <4>2, <4>3 DEF t
        <3> QED BY <3>1, <3>2
    <2>3. h = [s \in D(n + 1) |-> Next(h, s)]
        <3>1. h = [s \in D(n + 1) |-> h[s]]
            OBVIOUS
        <3> HIDE DEF h, Next, D
        <3> QED BY <2>2, <3>1
    <2> HIDE DEF h, D, Next
    <2> QED BY <2>3
<1>4. Cardinality(U) \in Nat /\ D(Cardinality(U)) = SUBSET U
    BY FS_CardinalityType, FS_Subset
<1>5. Cardinality(U) \in N
    <2> HIDE DEF N
    <2> QED BY <1>2, <1>3, <1>4, NatSetInduction
<1>6. PICK g : g = [s \in D(Cardinality(U)) |-> Next(g, s)]
    BY <1>5
<1> QED BY <1>4, <1>6 DEF Part

(* ... and only one. *)
LEMMA PartUnique ==
    ASSUME NEW U, IsFiniteSet(U), NEW f, NEW g, NEW h, NEW V,
           U \subseteq V, Part(U, f, g), Part(V, f, h)
    PROVE  g[U] = h[U]
PROOF
<1> DEFINE N == {n \in Nat : \A s \in SUBSET U : Cardinality(s) = n => g[s] = h[s]}
<1>1. \A s \in SUBSET U : s # {} =>
        /\ IsFiniteSet(s) /\ Cardinality(s) \in Nat /\ s \ {Chosen(s)} \in SUBSET U
        /\ Cardinality(s \ {Chosen(s)}) = Cardinality(s) - 1
    BY ChosenIn, FS_Subset, FS_RemoveElement, FS_CardinalityType
<1>2. 0 \in N
    <2> SUFFICES ASSUME NEW s \in SUBSET U, Cardinality(s) = 0 PROVE g[s] = h[s]
        OBVIOUS
    <2>1. IsFiniteSet(s)
        BY FS_Subset
    <2>2. s = {}
        BY <2>1, FS_EmptySet
    <2> QED BY <2>2, PartOf
<1>3. ASSUME NEW n \in Nat, n \in N PROVE n + 1 \in N
    <2> SUFFICES ASSUME NEW s \in SUBSET U, Cardinality(s) = n + 1 PROVE g[s] = h[s]
        OBVIOUS
    <2>1. s # {}
        BY FS_EmptySet
    <2> DEFINE t == s \ {Chosen(s)}
    <2>2. t \in SUBSET U /\ Cardinality(t) = n
        <3>1. t \in SUBSET U /\ Cardinality(t) = Cardinality(s) - 1
            BY <1>1, <2>1
        <3> HIDE DEF t
        <3> QED BY <3>1
    <2>3. g[t] = h[t]
        BY <1>3, <2>2
    <2>4. g[s] = f[Chosen(s)] + g[t]
        BY <2>1, PartOf
    <2>5. h[s] = f[Chosen(s)] + h[t]
        BY <2>1, PartOf
    <2> QED BY <2>3, <2>4, <2>5
<1>4. Cardinality(U) \in N
    <2> HIDE DEF N
    <2> QED BY <1>2, <1>3, NatSetInduction, FS_CardinalityType
<1> QED BY <1>4

\* Any function of partial sums gives the sum, over every subset.
LEMMA SumIsPart ==
    ASSUME NEW U, IsFiniteSet(U), NEW f, NEW V, U \subseteq V, NEW h, Part(V, f, h)
    PROVE  Sum(f, U) = h[U]
PROOF
<1> DEFINE g == CHOOSE g : Part(U, f, g)
<1>1. Part(U, f, g)
    BY PartExists
<1>2. Sum(f, U) = g[U]
    BY SumIs
<1> HIDE DEF g
<1> QED BY <1>1, <1>2, PartUnique

\* The empty sum.
LEMMA SumEmpty ==
    ASSUME NEW f
    PROVE  Sum(f, {}) = 0
PROOF
<1>1. PICK g : Part({}, f, g)
    BY PartExists, FS_EmptySet
<1> QED BY <1>1, SumIsPart, PartOf, FS_EmptySet

\* A sum is its chosen element and the rest.
LEMMA SumChosen ==
    ASSUME NEW f, NEW S, IsFiniteSet(S), S # {}
    PROVE  Sum(f, S) = f[Chosen(S)] + Sum(f, S \ {Chosen(S)})
PROOF
<1>1. PICK g : Part(S, f, g)
    BY PartExists
<1>2. Sum(f, S) = g[S]
    BY <1>1, SumIsPart
<1>3. IsFiniteSet(S \ {Chosen(S)})
    BY FS_RemoveElement
<1>4. Sum(f, S \ {Chosen(S)}) = g[S \ {Chosen(S)}]
    <2>1. S \ {Chosen(S)} \subseteq S
        OBVIOUS
    <2> QED BY <1>1, <1>3, <2>1, SumIsPart
<1> QED BY <1>1, <1>2, <1>4, PartOf

\* A sum of integers is an integer, over every subset.
LEMMA SumInt ==
    ASSUME NEW f, NEW U, IsFiniteSet(U), \A x \in U : f[x] \in Int
    PROVE  \A S \in SUBSET U : Sum(f, S) \in Int
PROOF
<1> DEFINE N == {n \in Nat : \A S \in SUBSET U : Cardinality(S) = n => Sum(f, S) \in Int}
<1>1. 0 \in N
    <2> SUFFICES ASSUME NEW S \in SUBSET U, Cardinality(S) = 0 PROVE Sum(f, S) \in Int
        OBVIOUS
    <2>1. S = {}
        BY FS_Subset, FS_EmptySet
    <2> QED BY <2>1, SumEmpty
<1>2. ASSUME NEW n \in Nat, n \in N PROVE n + 1 \in N
    <2> SUFFICES ASSUME NEW S \in SUBSET U, Cardinality(S) = n + 1 PROVE Sum(f, S) \in Int
        OBVIOUS
    <2>1. IsFiniteSet(S) /\ S # {}
        BY FS_EmptySet, FS_Subset
    <2> DEFINE c == Chosen(S)
    <2>2. c \in S
        BY <2>1, ChosenIn
    <2>3. Sum(f, S) = f[c] + Sum(f, S \ {c})
        BY <2>1, SumChosen
    <2>4. Cardinality(S \ {c}) = Cardinality(S) - 1
        BY <2>1, <2>2, FS_RemoveElement
    <2> HIDE DEF c
    <2>5. Cardinality(S \ {c}) = n
        BY <2>4
    <2>6. Sum(f, S \ {c}) \in Int /\ f[c] \in Int
        BY <1>2, <2>2, <2>5
    <2> QED BY <2>3, <2>6
<1>3. \A n \in Nat : n \in N
    <2> HIDE DEF N
    <2> QED BY <1>1, <1>2, NatSetInduction
<1>4. ASSUME NEW S \in SUBSET U PROVE Cardinality(S) \in Nat
    BY FS_Subset, FS_CardinalityType
<1> QED BY <1>3, <1>4

(* Any element may be taken out first. *)
LEMMA SumRemove ==
    ASSUME NEW f, NEW U, IsFiniteSet(U), \A x \in U : f[x] \in Int,
           NEW y \in U
    PROVE  Sum(f, U) = f[y] + Sum(f, U \ {y})
PROOF
<1> DEFINE Splits(S) == \A x \in S : Sum(f, S) = f[x] + Sum(f, S \ {x})
           N == {n \in Nat : \A S \in SUBSET U : Cardinality(S) = n => Splits(S)}
<1>0. \A S \in SUBSET U : IsFiniteSet(S) /\ Cardinality(S) \in Nat /\ Sum(f, S) \in Int
    BY FS_Subset, FS_CardinalityType, SumInt
<1>1. 0 \in N
    <2> SUFFICES ASSUME NEW S \in SUBSET U, Cardinality(S) = 0 PROVE S = {}
        OBVIOUS
    <2> QED BY <1>0, FS_EmptySet
<1>2. ASSUME NEW n \in Nat, n \in N PROVE n + 1 \in N
    <2> SUFFICES ASSUME NEW S \in SUBSET U, Cardinality(S) = n + 1, NEW x \in S
                 PROVE  Sum(f, S) = f[x] + Sum(f, S \ {x})
        OBVIOUS
    <2>1. IsFiniteSet(S) /\ S # {}
        BY <1>0
    <2> DEFINE c == Chosen(S)
    <2>2. c \in S
        BY <2>1, ChosenIn
    <2>3. Sum(f, S) = f[c] + Sum(f, S \ {c})
        BY <2>1, SumChosen
    <2> HIDE DEF c
    <2>4. CASE x = c
        BY <2>3, <2>4
    <2>5. CASE x # c
        <3>1. \A z \in S : Cardinality(S \ {z}) = n
            <4> SUFFICES ASSUME NEW z \in S PROVE Cardinality(S \ {z}) = n
                OBVIOUS
            <4>1. Cardinality(S \ {z}) = Cardinality(S) - 1
                BY <2>1, FS_RemoveElement
            <4> QED BY <4>1
        <3>2. Splits(S \ {c}) /\ Splits(S \ {x})
            BY <1>2, <2>2, <3>1
        <3>3. Sum(f, S \ {c}) = f[x] + Sum(f, (S \ {c}) \ {x})
            BY <2>5, <3>2
        <3>4. Sum(f, S \ {x}) = f[c] + Sum(f, (S \ {x}) \ {c})
            BY <2>2, <2>5, <3>2
        <3>5. (S \ {c}) \ {x} = (S \ {x}) \ {c}
            OBVIOUS
        <3> DEFINE rest == Sum(f, (S \ {x}) \ {c})
        <3>6. rest \in Int /\ f[x] \in Int /\ f[c] \in Int
            BY <1>0, <2>2
        <3>7. Sum(f, S) = f[c] + (f[x] + rest) /\ Sum(f, S \ {x}) = f[c] + rest
            BY <2>3, <3>3, <3>4, <3>5
        <3> HIDE DEF rest
        <3> QED BY <3>6, <3>7
    <2> QED BY <2>4, <2>5
<1>3. \A n \in Nat : n \in N
    <2> HIDE DEF N
    <2> QED BY <1>1, <1>2, NatSetInduction
<1>4. Splits(U)
    BY <1>0, <1>3
<1> QED BY <1>4

\* One element more.
LEMMA SumAdd ==
    ASSUME NEW f, NEW S, IsFiniteSet(S), \A x \in S : f[x] \in Int,
           NEW y, y \notin S, f[y] \in Int
    PROVE  Sum(f, S \cup {y}) = f[y] + Sum(f, S)
PROOF
<1> DEFINE U == S \cup {y}
<1>1. IsFiniteSet(U) /\ (\A x \in U : f[x] \in Int) /\ y \in U
    BY FS_AddElement
<1>2. U \ {y} = S
    OBVIOUS
<1> HIDE DEF U
<1>3. Sum(f, U) = f[y] + Sum(f, U \ {y})
    BY <1>1, SumRemove
<1> QED BY <1>2, <1>3 DEF U

(* Sums of functions that agree are the same. *)
LEMMA SumAgree ==
    ASSUME NEW f, NEW g, NEW U, IsFiniteSet(U), \A x \in U : f[x] = g[x]
    PROVE  Sum(f, U) = Sum(g, U)
PROOF
<1> DEFINE N == {n \in Nat : \A S \in SUBSET U : Cardinality(S) = n => Sum(f, S) = Sum(g, S)}
<1>1. 0 \in N
    <2> SUFFICES ASSUME NEW S \in SUBSET U, Cardinality(S) = 0 PROVE Sum(f, S) = Sum(g, S)
        OBVIOUS
    <2>1. S = {}
        BY FS_Subset, FS_EmptySet
    <2> QED BY <2>1, SumEmpty
<1>2. ASSUME NEW n \in Nat, n \in N PROVE n + 1 \in N
    <2> SUFFICES ASSUME NEW S \in SUBSET U, Cardinality(S) = n + 1 PROVE Sum(f, S) = Sum(g, S)
        OBVIOUS
    <2>1. IsFiniteSet(S) /\ S # {}
        BY FS_EmptySet, FS_Subset
    <2> DEFINE c == Chosen(S)
    <2>2. c \in S
        BY <2>1, ChosenIn
    <2>3. Sum(f, S) = f[c] + Sum(f, S \ {c}) /\ Sum(g, S) = g[c] + Sum(g, S \ {c})
        BY <2>1, SumChosen
    <2>4. Cardinality(S \ {c}) = Cardinality(S) - 1
        BY <2>1, <2>2, FS_RemoveElement
    <2> HIDE DEF c
    <2>5. Cardinality(S \ {c}) = n
        BY <2>4
    <2>6. Sum(f, S \ {c}) = Sum(g, S \ {c}) /\ f[c] = g[c]
        BY <1>2, <2>2, <2>5
    <2> QED BY <2>3, <2>6
<1>3. \A n \in Nat : n \in N
    <2> HIDE DEF N
    <2> QED BY <1>1, <1>2, NatSetInduction
<1> QED BY <1>3, FS_CardinalityType

(* A set falls into two parts. *)
LEMMA SumUnion ==
    ASSUME NEW f, NEW S, IsFiniteSet(S), NEW U, IsFiniteSet(U), S \cap U = {},
           \A x \in S \cup U : f[x] \in Int
    PROVE  Sum(f, S \cup U) = Sum(f, S) + Sum(f, U)
PROOF
<1> DEFINE K == {V \in SUBSET U : Sum(f, S \cup V) = Sum(f, S) + Sum(f, V)}
<1>1. {} \in K
    <2>1. Sum(f, S) \in Int /\ S \cup {} = S
        BY SumInt
    <2> QED BY <2>1, SumEmpty
<1>2. ASSUME NEW V \in SUBSET U, NEW x \in U, V \in K, x \notin V PROVE V \cup {x} \in K
    <2>1. IsFiniteSet(V) /\ IsFiniteSet(S \cup V) /\ x \notin S \cup V
        <3>1. IsFiniteSet(V)
            BY FS_Subset
        <3> QED BY <1>2, <3>1, FS_Union
    <2>2. Sum(f, V \cup {x}) = f[x] + Sum(f, V)
        BY <1>2, <2>1, SumAdd
    <2>3. Sum(f, (S \cup V) \cup {x}) = f[x] + Sum(f, S \cup V)
        BY <2>1, SumAdd
    <2>4. (S \cup V) \cup {x} = S \cup (V \cup {x})
        OBVIOUS
    <2>5. f[x] \in Int /\ Sum(f, V) \in Int /\ Sum(f, S) \in Int
        BY SumInt
    <2>6. Sum(f, S \cup V) = Sum(f, S) + Sum(f, V)
        BY <1>2
    <2>7. Sum(f, S \cup (V \cup {x})) = f[x] + (Sum(f, S) + Sum(f, V))
        BY <2>3, <2>4, <2>6
    <2>8. f[x] + (Sum(f, S) + Sum(f, V)) = Sum(f, S) + (f[x] + Sum(f, V))
        BY <2>5
    <2>9. Sum(f, S \cup (V \cup {x})) = Sum(f, S) + Sum(f, V \cup {x})
        BY <2>2, <2>7, <2>8
    <2> QED BY <2>9
<1>3. U \in K
    <2> HIDE DEF K
    <2> QED BY <1>1, <1>2, FiniteSetInduction
<1> QED BY <1>3

(* Summing over a set is summing over what names its elements. *)
LEMMA SumImage ==
    ASSUME NEW f, NEW g, NEW S, IsFiniteSet(S), NEW V, NEW b \in [S -> V],
           \A x, y \in S : b[x] = b[y] => x = y,
           V = {b[x] : x \in S},
           \A x \in S : f[x] \in Int /\ g[b[x]] = f[x]
    PROVE  Sum(g, V) = Sum(f, S) /\ IsFiniteSet(V)
PROOF
<1> DEFINE I(P) == {b[x] : x \in P}
           K == {P \in SUBSET S : IsFiniteSet(I(P)) /\ Sum(g, I(P)) = Sum(f, P)}
<1>1. {} \in K
    <2>1. I({}) = {}
        OBVIOUS
    <2> HIDE DEF I
    <2> QED BY <2>1, SumEmpty, FS_EmptySet
<1>2. ASSUME NEW P \in SUBSET S, NEW x \in S, P \in K, x \notin P PROVE P \cup {x} \in K
    <2>1. I(P \cup {x}) = I(P) \cup {b[x]} /\ b[x] \notin I(P)
        BY <1>2
    <2>2. \A z \in I(P) : g[z] \in Int
        OBVIOUS
    <2>3. IsFiniteSet(P) /\ IsFiniteSet(I(P)) /\ IsFiniteSet(I(P) \cup {b[x]}) 
        BY <1>2, FS_Subset, FS_AddElement
    <2>4. g[b[x]] \in Int /\ g[b[x]] = f[x] /\ f[x] \in Int
        OBVIOUS
    <2>5. Sum(g, I(P) \cup {b[x]}) = g[b[x]] + Sum(g, I(P))
        <3> HIDE DEF I
        <3> QED BY <2>1, <2>2, <2>3, <2>4, SumAdd
    <2>6. Sum(f, P \cup {x}) = f[x] + Sum(f, P)
        BY <1>2, <2>3, SumAdd
    <2>7. Sum(g, I(P)) = Sum(f, P)
        BY <1>2
    <2> HIDE DEF I
    <2> QED BY <2>1, <2>3, <2>4, <2>5, <2>6, <2>7
<1>3. S \in K
    <2> HIDE DEF K
    <2> QED BY <1>1, <1>2, FiniteSetInduction
<1> QED BY <1>3

(* UtxosAfter starts from the given outputs and applies one transaction a step. *)
LEMMA UtxosAfterSteps ==
    ASSUME NEW txs, Len(txs) \in Nat, NEW utxos
    PROVE  /\ UtxosAfter(txs, utxos)[0] = utxos
           /\ \A i \in 1..Len(txs) : UtxosAfter(txs, utxos)[i] = AfterSpending(txs[i], UtxosAfter(txs, utxos)[i - 1])
           /\ UtxosAfter(txs, utxos) = [i \in 0..Len(txs) |-> UtxosAfter(txs, utxos)[i]]
PROOF
<1> DEFINE Step(g, i) == IF i = 0 THEN utxos ELSE AfterSpending(txs[i], g[i - 1])
           N == {m \in Nat : \E g : g = [i \in 0..m |-> Step(g, i)]}
<1>1. 0 \in N
    <2> DEFINE g == [i \in 0..0 |-> utxos]
    <2>1. \A i \in 0..0 : Step(g, i) = utxos
        OBVIOUS
    <2> HIDE DEF Step
    <2>2. g = [i \in 0..0 |-> Step(g, i)]
        BY <2>1
    <2> HIDE DEF g
    <2> QED BY <2>2
<1>2. ASSUME NEW m \in Nat, m \in N PROVE m + 1 \in N
    <2>1. PICK g : g = [i \in 0..m |-> Step(g, i)]
        BY <1>2
    <2> DEFINE h == [i \in 0..(m + 1) |-> Step(g, i)]
    <2>2. ASSUME NEW i \in 0..(m + 1) PROVE h[i] = Step(h, i)
        <3>1. CASE i = 0
            BY <3>1
        <3>2. CASE i # 0
            <4>1. i - 1 \in 0..m /\ i - 1 \in 0..(m + 1)
                BY <3>2
            <4>2. g[i - 1] = Step(g, i - 1) /\ h[i - 1] = Step(g, i - 1)
                <5> HIDE DEF Step
                <5> QED BY <2>1, <4>1
            <4>3. h[i] = Step(g, i)
                <5> HIDE DEF Step
                <5> QED OBVIOUS
            <4>4. g[i - 1] = h[i - 1]
                <5> HIDE DEF Step, h
                <5> QED BY <4>2
            <4> HIDE DEF h
            <4> QED BY <3>2, <4>3, <4>4
        <3> QED BY <3>1, <3>2
    <2>3. h = [i \in 0..(m + 1) |-> h[i]]
        OBVIOUS
    <2> HIDE DEF Step, h
    <2>4. h = [i \in 0..(m + 1) |-> Step(h, i)]
        BY <2>2, <2>3
    <2> QED BY <2>4
<1>3. Len(txs) \in N
    <2> HIDE DEF N
    <2> QED BY <1>1, <1>2, NatSetInduction
<1>4. PICK g : g = [i \in 0..Len(txs) |-> Step(g, i)]
    <2> HIDE DEF Step
    <2> QED BY <1>3
<1>5. UtxosAfter(txs, utxos) = CHOOSE f : f = [i \in 0..Len(txs) |-> Step(f, i)]
    BY DEF UtxosAfter
<1>6. UtxosAfter(txs, utxos) = [i \in 0..Len(txs) |-> Step(UtxosAfter(txs, utxos), i)]
    <2> HIDE DEF Step
    <2> QED BY <1>4, <1>5
<1>7. \A i \in 0..Len(txs) : UtxosAfter(txs, utxos)[i] = Step(UtxosAfter(txs, utxos), i)
    <2> HIDE DEF Step
    <2> DEFINE u == UtxosAfter(txs, utxos)
    <2>1. u = [i \in 0..Len(txs) |-> Step(u, i)]
        BY <1>6
    <2> HIDE DEF u
    <2>2. \A i \in 0..Len(txs) : u[i] = Step(u, i)
        BY <2>1
    <2> QED BY <2>2 DEF u
<1> QED BY <1>6, <1>7

-----------------------------------------------------------------------------
(* Outputs and their total.                                                  *)

(* A sequence is summed over its positions. *)
LEMMA SumSeqOver ==
    ASSUME NEW s, NEW n \in Nat, DOMAIN s = 1..n, \A i \in 1..n : s[i] \in Int
    PROVE  SumSeq(s) = Sum(s, 1..n) /\ SumSeq(s) \in Int
PROOF
<1>1. SumSeq(s) = Sum(s, 1..n)
    BY SumSeqIs
<1>2. IsFiniteSet(1..n)
    BY FS_Interval
<1> QED BY <1>1, <1>2, SumInt

\* A finite set of outputs with unsigned amounts.
Coins(u) ==
    /\ u = [o \in DOMAIN u |-> u[o]]
    /\ IsFiniteSet(DOMAIN u)
    /\ \A o \in DOMAIN u : u[o].amount \in Nat

\* The amounts of some outputs.
Amount(u) == [o \in DOMAIN u |-> u[o].amount]

\* Every output of a set is worth something.
AllWorth(c) == \A o \in DOMAIN c : c[o].amount > 0

\* The total of some coins is an integer.
LEMMA TotalInt ==
    ASSUME NEW u, Coins(u)
    PROVE  Total(u) \in Int
PROOF
<1>1. \A o \in DOMAIN u : Amount(u)[o] \in Int
    BY DEF Coins, Amount
<1>2. Total(u) = Sum(Amount(u), DOMAIN u)
    BY DEF Total, Amount
<1> QED BY <1>1, <1>2, SumInt DEF Coins

(* The total is summed with any function that gives the amounts. *)
LEMMA TotalIs ==
    ASSUME NEW u, Coins(u), NEW f, \A o \in DOMAIN u : f[o] = u[o].amount
    PROVE  Total(u) = Sum(f, DOMAIN u)
PROOF
<1>1. Total(u) = Sum(Amount(u), DOMAIN u)
    BY DEF Total, Amount
<1>2. \A o \in DOMAIN u : Amount(u)[o] = f[o]
    BY DEF Amount
<1> QED BY <1>1, <1>2, SumAgree DEF Coins

(* Outputs that are merged with others add up, if no outpoint is taken twice. *)
LEMMA TotalMerge ==
    ASSUME NEW u, NEW v, Coins(u), Coins(v), DOMAIN u \cap DOMAIN v = {}
    PROVE  Coins(Merge(u, v)) /\ Total(Merge(u, v)) = Total(u) + Total(v)
PROOF
<1> DEFINE w == Merge(u, v)
<1>1. DOMAIN w = DOMAIN u \cup DOMAIN v /\ w = [o \in DOMAIN w |-> w[o]]
    BY DEF Merge
<1>2. \A o \in DOMAIN u : w[o] = u[o]
    BY DEF Merge
<1>3. \A o \in DOMAIN v : w[o] = v[o]
    BY DEF Merge
<1> HIDE DEF w
<1>4. Coins(w)
    <2>1. IsFiniteSet(DOMAIN w)
        <3>1. IsFiniteSet(DOMAIN u) /\ IsFiniteSet(DOMAIN v)
            BY DEF Coins
        <3>2. IsFiniteSet(DOMAIN u \cup DOMAIN v)
            BY <3>1, FS_Union
        <3> QED BY <1>1, <3>2
    <2>2. \A o \in DOMAIN w : w[o].amount \in Nat
        BY <1>1, <1>2, <1>3 DEF Coins
    <2> QED BY <1>1, <2>1, <2>2 DEF Coins
<1> DEFINE f == Amount(w)
<1>5. \A o \in DOMAIN w : f[o] = w[o].amount /\ f[o] \in Int
    BY <1>4 DEF Amount, Coins
<1>6. (\A o \in DOMAIN u : f[o] = u[o].amount) /\ (\A o \in DOMAIN v : f[o] = v[o].amount)
    BY <1>1, <1>2, <1>3, <1>5
<1> HIDE DEF f
<1>7. Total(w) = Sum(f, DOMAIN w) /\ Total(u) = Sum(f, DOMAIN u) /\ Total(v) = Sum(f, DOMAIN v)
    BY <1>4, <1>5, <1>6, TotalIs
<1>8. Sum(f, DOMAIN u \cup DOMAIN v) = Sum(f, DOMAIN u) + Sum(f, DOMAIN v)
    BY <1>1, <1>5, SumUnion DEF Coins
<1>9. Total(w) = Total(u) + Total(v)
    BY <1>1, <1>7, <1>8
<1> QED BY <1>4, <1>9 DEF w

(* Outputs that are dropped leave the rest. *)
LEMMA TotalDrop ==
    ASSUME NEW u, Coins(u), NEW S, S \subseteq DOMAIN u
    PROVE  /\ Coins(Drop(u, S))
           /\ Total(u) = Total(Drop(u, S)) + Sum([o \in S |-> u[o].amount], S)
PROOF
<1> DEFINE w == Drop(u, S)
           f == Amount(u)
           spent == [o \in S |-> u[o].amount]
<1>1. DOMAIN w = DOMAIN u \ S /\ w = [o \in DOMAIN w |-> w[o]]
    BY DEF Drop
<1>2. \A o \in DOMAIN w : w[o] = u[o]
    BY DEF Drop
<1>3. IsFiniteSet(DOMAIN w) /\ IsFiniteSet(S)
    BY <1>1, FS_Subset DEF Coins
<1>4. \A o \in DOMAIN u : f[o] = u[o].amount /\ f[o] \in Int
    BY DEF Amount, Coins
<1>5. \A o \in S : spent[o] = f[o]
    BY <1>4
<1> HIDE DEF w, f, spent
<1>6. Coins(w)
    BY <1>1, <1>2, <1>3 DEF Coins
<1>7. Total(u) = Sum(f, DOMAIN u)
    BY <1>4, TotalIs
<1>8. Total(w) = Sum(f, DOMAIN w)
    BY <1>1, <1>2, <1>4, <1>6, TotalIs
<1>9. Sum(spent, S) = Sum(f, S)
    BY <1>3, <1>5, SumAgree
<1>10. Sum(f, DOMAIN w \cup S) = Sum(f, DOMAIN w) + Sum(f, S)
    BY <1>1, <1>3, <1>4, SumUnion
<1>11. DOMAIN w \cup S = DOMAIN u
    BY <1>1
<1>12. Total(u) = Total(w) + Sum(spent, S)
    BY <1>7, <1>8, <1>9, <1>10, <1>11
<1> QED BY <1>6, <1>12 DEF w, spent

(* What a transaction creates: one output at each position. *)
LEMMA CreatedTotal ==
    ASSUME NEW t \in TxIds
    PROVE  /\ Coins(CreatedOutputs(t))
           /\ DOMAIN CreatedOutputs(t) = {<<t, i>> : i \in 1..Len(Outputs(t))}
           /\ Total(CreatedOutputs(t)) = SumSeq(Amounts(Outputs(t)))
           /\ SumSeq(Amounts(Outputs(t))) \in Int
PROOF
<1> DEFINE n == Len(Outputs(t))
           P == {<<t, i>> : i \in 1..n}
           u == CreatedOutputs(t)
           a == Amounts(Outputs(t))
           b == [i \in 1..n |-> <<t, i>>]
<1>1. n \in Nat /\ DOMAIN Outputs(t) = 1..n /\ \A i \in 1..n : Outputs(t)[i].amount \in Nat
    BY TransactionAssumption
<1>2. DOMAIN u = P /\ u = [o \in DOMAIN u |-> u[o]]
    BY <1>1 DEF CreatedOutputs
<1>3. \A i \in 1..n : u[<<t, i>>] = Outputs(t)[i]
    <2> SUFFICES ASSUME NEW i \in 1..n PROVE u[<<t, i>>] = Outputs(t)[i]
        OBVIOUS
    <2>1. <<t, i>> \in P /\ <<t, i>>[2] = i
        OBVIOUS
    <2> QED BY <1>1, <2>1 DEF CreatedOutputs
<1>4. DOMAIN a = 1..n /\ \A i \in 1..n : a[i] = Outputs(t)[i].amount /\ a[i] \in Int
    BY <1>1 DEF Amounts
<1>5. IsFiniteSet(1..n)
    BY <1>1, FS_Interval
<1>6. b \in [1..n -> P] /\ (\A i, j \in 1..n : b[i] = b[j] => i = j) /\ P = {b[i] : i \in 1..n}
    OBVIOUS
<1> DEFINE g == Amount(u)
<1>7. \A i \in 1..n : a[i] \in Int /\ g[b[i]] = a[i]
    <2> SUFFICES ASSUME NEW i \in 1..n PROVE g[b[i]] = a[i]
        BY <1>4
    <2>1. b[i] = <<t, i>> /\ b[i] \in P
        OBVIOUS
    <2> HIDE DEF b, P, u, a
    <2>2. g[b[i]] = u[b[i]].amount
        BY <1>2, <2>1 DEF Amount
    <2> QED BY <1>3, <1>4, <2>1, <2>2
<1> HIDE DEF b, g, a, u, P
<1>8. Sum(g, P) = Sum(a, 1..n) /\ IsFiniteSet(P)
    <2> DEFINE S == 1..n
    <2>1. IsFiniteSet(S) /\ b \in [S -> P] /\ (\A i, j \in S : b[i] = b[j] => i = j)
        BY <1>5, <1>6
    <2>2. P = {b[i] : i \in S} /\ \A i \in S : a[i] \in Int /\ g[b[i]] = a[i]
        BY <1>6, <1>7
    <2> HIDE DEF S
    <2>3. Sum(g, P) = Sum(a, S) /\ IsFiniteSet(P)
        BY <2>1, <2>2, SumImage
    <2> QED BY <2>3 DEF S
<1>9. Coins(u)
    <2>1. \A o \in P : u[o].amount \in Nat
        <3> SUFFICES ASSUME NEW o \in P PROVE u[o].amount \in Nat
            OBVIOUS
        <3>1. PICK i \in 1..n : o = <<t, i>>
            BY DEF P
        <3> QED BY <1>1, <1>3, <3>1
    <2> QED BY <1>2, <1>8, <2>1 DEF Coins
<1>10. Total(u) = Sum(g, P)
    BY <1>2 DEF Total, Amount, g
<1>11. SumSeq(a) = Sum(a, 1..n) /\ SumSeq(a) \in Int
    BY <1>1, <1>4, SumSeqOver
<1> QED BY <1>2, <1>8, <1>9, <1>10, <1>11 DEF u, a, P

-----------------------------------------------------------------------------
(* Spending.                                                                 *)

\* What a transaction adds to the outputs, beside its fee, which goes to the block.
Gain(t) == Minted(t) - Burned(t)

\* What the table says of a transaction, as numbers.
LEMMA TableTypes ==
    ASSUME NEW t \in TxIds
    PROVE  /\ Fee(t) \in Nat /\ Burned(t) \in Nat /\ Gain(t) \in Int
           /\ IsFiniteSet(Inputs(t))
PROOF
<1>1. Minted(t) \in Int
    BY TransactionAssumption DEF Minted
<1> QED BY <1>1, TransactionAssumption DEF Gain

(* A transaction that applies leaves the outputs richer by its gain less its fee. *)
LEMMA SpendingConserves ==
    ASSUME NEW t \in TxIds, NEW u, Coins(u), CanApply(t, u),
           DOMAIN CreatedOutputs(t) \cap DOMAIN u = {}
    PROVE  /\ Coins(AfterSpending(t, u))
           /\ Total(AfterSpending(t, u)) + Fee(t) = Total(u) + Gain(t)
           /\ DOMAIN AfterSpending(t, u) \subseteq DOMAIN u \cup DOMAIN CreatedOutputs(t)
PROOF
<1> DEFINE c == CreatedOutputs(t)
           w == Drop(u, Inputs(t))
           spent == Sum([o \in Inputs(t) |-> u[o].amount], Inputs(t))
<1>1. Inputs(t) \subseteq DOMAIN u
    <2>1. CASE IsMine(t)
        BY <2>1, TransactionAssumption
    <2>2. CASE ~IsMine(t)
        BY <2>2 DEF CanApply, SpendsOwnOutputs, HasMissingInputs
    <2> QED BY <2>1, <2>2
<1>2. DOMAIN w = DOMAIN u \ Inputs(t)
    BY DEF Drop
<1>3. Coins(w) /\ Total(u) = Total(w) + spent
    BY <1>1, TotalDrop
<1>4. Coins(c) /\ Total(c) = SumSeq(Amounts(Outputs(t))) /\ Total(c) \in Int
    BY CreatedTotal
<1>5. AfterSpending(t, u) = Merge(w, c)
    BY DEF AfterSpending
<1>6. DOMAIN Merge(w, c) = DOMAIN w \cup DOMAIN c
    BY DEF Merge
<1>7. Total(w) \in Int /\ Total(u) \in Int /\ spent \in Int
    <2>1. \A o \in Inputs(t) : [o_1 \in Inputs(t) |-> u[o_1].amount][o] \in Int
        BY <1>1 DEF Coins
    <2>2. IsFiniteSet(Inputs(t))
        BY TableTypes
    <2>3. spent \in Int
        BY <2>1, <2>2, SumInt
    <2> QED BY <1>3, <2>3, TotalInt
<1>8. Fee(t) \in Nat /\ Burned(t) \in Nat
    BY TableTypes
<1>9. Total(c) + Fee(t) = spent + Gain(t)
    <2>1. CASE IsMine(t)
        <3>1. Inputs(t) = {} /\ Burned(t) = 0 /\ MineReward \in Nat
            BY <2>1, TransactionAssumption DEF Burned, IsMine, IsBurn
        <3>2. spent = 0
            BY <3>1, SumEmpty
        <3>3. Total(c) = MineReward
            <4>1. Amounts(Outputs(t)) = [i \in 1..1 |-> MineReward]
                BY <2>1 DEF Outputs, Amounts
            <4> DEFINE a == [i \in 1..1 |-> MineReward]
            <4>2. DOMAIN a = 1..1 /\ 1..1 = {1} /\ a[1] = MineReward /\ \A i \in 1..1 : a[i] \in Int
                BY <3>1
            <4> HIDE DEF a
            <4>3. SumSeq(a) = Sum(a, {1})
                BY <4>2, SumSeqOver
            <4>4. Sum(a, {1}) = a[1] + Sum(a, {1} \ {1})
                <5>1. IsFiniteSet({1}) /\ \A i \in {1} : a[i] \in Int
                    BY <4>2, FS_Singleton
                <5> QED BY <5>1, SumRemove
            <4>5. {1} \ {1} = {}
                OBVIOUS
            <4>6. SumSeq(a) = MineReward
                BY <3>1, <4>2, <4>3, <4>4, <4>5, SumEmpty
            <4> QED BY <1>4, <4>1, <4>6 DEF a
        <3>4. Gain(t) = MineReward + Fee(t)
            BY <1>8, <2>1, <3>1 DEF Gain, Minted
        <3> HIDE DEF c, spent
        <3> QED BY <1>8, <3>1, <3>2, <3>3, <3>4
    <2>2. CASE ~IsMine(t)
        <3>1. InputTotal(t, u) = Required(t)
            BY <2>2 DEF CanApply, SpendsOwnOutputs
        <3>2. spent = Total(c) + Fee(t) + Burned(t)
            BY <1>4, <3>1 DEF InputTotal, Required
        <3>3. Gain(t) = 0 - Burned(t)
            BY <1>8, <2>2 DEF Gain, Minted
        <3> HIDE DEF c, spent
        <3> QED BY <1>4, <1>7, <1>8, <3>2, <3>3
    <2> QED BY <2>1, <2>2
<1> HIDE DEF c, w, spent
<1>10. DOMAIN w \cap DOMAIN c = {}
    BY <1>2 DEF c
<1>11. Coins(Merge(w, c)) /\ Total(Merge(w, c)) = Total(w) + Total(c)
    BY <1>3, <1>4, <1>10, TotalMerge
<1>12. Total(w) + Total(c) + Fee(t) = Total(u) + Gain(t)
    <2>1. Gain(t) \in Int
        BY TableTypes
    <2> QED BY <1>3, <1>4, <1>7, <1>8, <1>9, <2>1
<1> QED BY <1>2, <1>5, <1>6, <1>11, <1>12 DEF c

(* The sums over the first i positions of a sequence. *)
LEMMA SumStep ==
    ASSUME NEW f, NEW n \in Nat, \A j \in 1..n : f[j] \in Int, NEW i \in 1..n
    PROVE  Sum(f, 1..i) = f[i] + Sum(f, 1..(i - 1)) /\ Sum(f, 1..(i - 1)) \in Int
PROOF
<1> DEFINE S == 1..(i - 1)
<1>1. IsFiniteSet(S) /\ (\A j \in S : f[j] \in Int) /\ i \notin S /\ f[i] \in Int
    BY FS_Interval
<1>2. 1..i = S \cup {i}
    OBVIOUS
<1> HIDE DEF S
<1>3. Sum(f, S \cup {i}) = f[i] + Sum(f, S) /\ Sum(f, S) \in Int
    BY <1>1, SumAdd, SumInt
<1> QED BY <1>2, <1>3 DEF S

(* Unsigned numbers have an unsigned sum. *)
LEMMA SumNatSet ==
    ASSUME NEW f, NEW S, IsFiniteSet(S), \A x \in S : f[x] \in Nat
    PROVE  Sum(f, S) \in Nat
PROOF
<1> DEFINE K == {P \in SUBSET S : Sum(f, P) \in Nat}
<1>1. {} \in K
    BY SumEmpty
<1>2. ASSUME NEW P \in SUBSET S, NEW x \in S, P \in K, x \notin P PROVE P \cup {x} \in K
    <2>1. IsFiniteSet(P)
        BY FS_Subset
    <2>2. (\A y \in P : f[y] \in Int) /\ f[x] \in Int /\ f[x] \in Nat
        OBVIOUS
    <2>3. Sum(f, P \cup {x}) = f[x] + Sum(f, P)
        BY <1>2, <2>1, <2>2, SumAdd
    <2>4. Sum(f, P) \in Nat
        BY <1>2
    <2>5. Sum(f, P \cup {x}) \in Nat
        BY <2>2, <2>3, <2>4
    <2> QED BY <2>5
<1>3. S \in K
    <2> HIDE DEF K
    <2> QED BY <1>1, <1>2, FiniteSetInduction
<1> QED BY <1>3

\* Unsigned numbers of a sequence have an unsigned sum.
LEMMA SumNat ==
    ASSUME NEW f, NEW n \in Nat, \A i \in 1..n : f[i] \in Nat
    PROVE  Sum(f, 1..n) \in Nat
PROOF
<1> DEFINE S == 1..n
<1>1. IsFiniteSet(S) /\ \A x \in S : f[x] \in Nat
    BY FS_Interval
<1> HIDE DEF S
<1>2. Sum(f, S) \in Nat
    BY <1>1, SumNatSet
<1> QED BY <1>2 DEF S

\* One of them that is not zero makes it positive.
LEMMA SumPositiveSet ==
    ASSUME NEW f, NEW S, IsFiniteSet(S), \A x \in S : f[x] \in Nat, NEW k \in S, f[k] > 0
    PROVE  Sum(f, S) > 0
PROOF
<1> DEFINE R == S \ {k}
<1>1. R \subseteq S /\ \A x \in R : f[x] \in Nat
    OBVIOUS
<1>2. Sum(f, R) \in Nat
    <2> HIDE DEF R
    <2>1. IsFiniteSet(R)
        BY <1>1, FS_Subset
    <2> QED BY <1>1, <2>1, SumNatSet
<1>3. Sum(f, S) = f[k] + Sum(f, R)
    <2>1. \A x \in S : f[x] \in Int
        OBVIOUS
    <2> QED BY <2>1, SumRemove
<1>4. f[k] \in Nat
    OBVIOUS
<1> HIDE DEF R
<1> QED BY <1>2, <1>3, <1>4

\* And of a sequence.
LEMMA SumPositive ==
    ASSUME NEW f, NEW n \in Nat, \A i \in 1..n : f[i] \in Nat, NEW k \in 1..n, f[k] > 0
    PROVE  Sum(f, 1..n) > 0
PROOF
<1> DEFINE S == 1..n
<1>1. IsFiniteSet(S)
    BY FS_Interval
<1>2. k \in S /\ \A x \in S : f[x] \in Nat
    OBVIOUS
<1> HIDE DEF S
<1>3. Sum(f, S) > 0
    BY <1>1, <1>2, SumPositiveSet
<1> QED BY <1>3 DEF S

\* The outpoints of the transactions at some positions.
OutpointsOf(txs, S) == UNION {DOMAIN CreatedOutputs(txs[j]) : j \in S}

\* No transaction is in the sequence twice.
NoRepeats(txs) == \A i, j \in 1..Len(txs) : txs[i] = txs[j] => i = j

(* A body that applies, whose transactions are new and all different: the outputs change *)
(* by the gains less the fees.                                                           *)
LEMMA BodyConserves ==
    ASSUME NEW txs \in Seq(TxIds), NEW u, Coins(u), AllApply(txs, u),
           NoRepeats(txs),
           OutpointsOf(txs, 1..Len(txs)) \cap DOMAIN u = {},
           NEW w, w = UtxosAfter(txs, u)[Len(txs)]
    PROVE  /\ Coins(w)
           /\ DOMAIN w \subseteq DOMAIN u \cup OutpointsOf(txs, 1..Len(txs))
           /\ Total(w) + SumSeq([i \in 1..Len(txs) |-> Fee(txs[i])])
                = Total(u) + SumSeq([i \in 1..Len(txs) |-> Gain(txs[i])])
PROOF
<1> DEFINE n == Len(txs)
           after == UtxosAfter(txs, u)
           fee == [i \in 1..n |-> Fee(txs[i])]
           gain == [i \in 1..n |-> Gain(txs[i])]
           Holds(i) ==
               /\ Coins(after[i])
               /\ DOMAIN after[i] \subseteq DOMAIN u \cup OutpointsOf(txs, 1..i)
               /\ Total(after[i]) + Sum(fee, 1..i) = Total(u) + Sum(gain, 1..i)
           N == {i \in Nat : i <= n => Holds(i)}
<1>1. n \in Nat /\ DOMAIN txs = 1..n /\ \A i \in 1..n : txs[i] \in TxIds
    OBVIOUS
<1>2. \A i \in 1..n : fee[i] = Fee(txs[i]) /\ gain[i] = Gain(txs[i]) /\ fee[i] \in Int /\ gain[i] \in Int
    BY <1>1, TableTypes
<1>3. after[0] = u /\ \A i \in 1..n : after[i] = AfterSpending(txs[i], after[i - 1])
    BY <1>1, UtxosAfterSteps
<1>4. \A i \in 1..n : CanApply(txs[i], after[i - 1])
    BY <1>1 DEF AllApply
<1>5. 0 \in N
    <2>1. 1..0 = {}
        OBVIOUS
    <2>2. Sum(fee, 1..0) = 0 /\ Sum(gain, 1..0) = 0
        BY <2>1, SumEmpty
    <2> HIDE DEF after, fee, gain, n
    <2>3. Holds(0)
        BY <1>3, <2>2, TotalInt
    <2> QED BY <2>3
<1>6. ASSUME NEW i \in Nat, i \in N PROVE i + 1 \in N
    <2> SUFFICES ASSUME i + 1 <= n PROVE Holds(i + 1)
        OBVIOUS
    <2> DEFINE t == txs[i + 1]
               v == after[i]
    <2>1. i + 1 \in 1..n /\ i + 1 - 1 = i /\ i <= n
        BY <1>1
    <2>2. Holds(i)
        BY <1>6, <2>1
    <2>3. t \in TxIds /\ CanApply(t, v) /\ after[i + 1] = AfterSpending(t, v)
        BY <1>1, <1>3, <1>4, <2>1
    <2>4. DOMAIN CreatedOutputs(t) = {<<t, k>> : k \in 1..Len(Outputs(t))}
        BY <2>3, CreatedTotal
    <2>5. DOMAIN CreatedOutputs(t) \cap DOMAIN v = {}
        <3>1. DOMAIN CreatedOutputs(t) \subseteq OutpointsOf(txs, 1..n)
            BY <2>1 DEF OutpointsOf
        <3>2. ASSUME NEW o \in DOMAIN CreatedOutputs(t), o \in OutpointsOf(txs, 1..i) PROVE FALSE
            <4>1. PICK j \in 1..i : o \in DOMAIN CreatedOutputs(txs[j])
                BY <3>2 DEF OutpointsOf
            <4>2. j \in 1..n /\ txs[j] \in TxIds /\ j # i + 1
                BY <1>1, <2>1, <4>1
            <4>3. DOMAIN CreatedOutputs(txs[j]) = {<<txs[j], k>> : k \in 1..Len(Outputs(txs[j]))}
                BY <4>2, CreatedTotal
            <4>4. o[1] = txs[j]
                BY <4>1, <4>3
            <4>5. o[1] = t
                BY <2>4, <3>2
            <4> QED BY <2>1, <4>2, <4>4, <4>5 DEF NoRepeats
        <3> HIDE DEF t, v, after
        <3> QED BY <2>2, <3>1, <3>2 DEF v
    <2>6. /\ Coins(AfterSpending(t, v))
          /\ Total(AfterSpending(t, v)) + Fee(t) = Total(v) + Gain(t)
          /\ DOMAIN AfterSpending(t, v) \subseteq DOMAIN v \cup DOMAIN CreatedOutputs(t)
        BY <2>2, <2>3, <2>5, SpendingConserves
    <2>7. OutpointsOf(txs, 1..(i + 1)) = OutpointsOf(txs, 1..i) \cup DOMAIN CreatedOutputs(t)
        <3>1. 1..(i + 1) = (1..i) \cup {i + 1}
            OBVIOUS
        <3> QED BY <3>1 DEF OutpointsOf
    <2>8. /\ Sum(fee, 1..(i + 1)) = Fee(t) + Sum(fee, 1..i) /\ Sum(fee, 1..i) \in Int
          /\ Sum(gain, 1..(i + 1)) = Gain(t) + Sum(gain, 1..i) /\ Sum(gain, 1..i) \in Int
        <3> HIDE DEF fee, gain, n
        <3>0. /\ (\A j \in 1..n : fee[j] \in Int) /\ (\A j \in 1..n : gain[j] \in Int)
              /\ n \in Nat /\ i + 1 \in 1..n
            BY <1>1, <1>2, <2>1
        <3>1. /\ Sum(fee, 1..(i + 1)) = fee[i + 1] + Sum(fee, 1..(i + 1 - 1))
              /\ Sum(fee, 1..(i + 1 - 1)) \in Int
            <4> DEFINE k == i + 1
            <4>1. n \in Nat /\ k \in 1..n /\ \A j \in 1..n : fee[j] \in Int
                BY <3>0
            <4> HIDE DEF k
            <4>2. Sum(fee, 1..k) = fee[k] + Sum(fee, 1..(k - 1)) /\ Sum(fee, 1..(k - 1)) \in Int
                BY <4>1, SumStep
            <4> QED BY <4>2 DEF k
        <3>2. /\ Sum(gain, 1..(i + 1)) = gain[i + 1] + Sum(gain, 1..(i + 1 - 1))
              /\ Sum(gain, 1..(i + 1 - 1)) \in Int
            BY <3>0, SumStep
        <3> QED BY <1>2, <2>1, <3>1, <3>2
    <2>9. Fee(t) \in Int /\ Gain(t) \in Int /\ Total(v) \in Int /\ Total(u) \in Int
        BY <2>2, <2>3, TableTypes, TotalInt
    <2>10. Total(AfterSpending(t, v)) \in Int
        BY <2>6, TotalInt
    <2> DEFINE x == AfterSpending(t, v)
    <2>11. Total(x) + Sum(fee, 1..(i + 1)) = Total(u) + Sum(gain, 1..(i + 1))
        <3>1. Total(v) + Sum(fee, 1..i) = Total(u) + Sum(gain, 1..i)
            BY <2>2
        <3>2. Total(x) + Fee(t) = Total(v) + Gain(t)
            BY <2>6
        <3> DEFINE paid == Sum(fee, 1..i)
                   won == Sum(gain, 1..i)
        <3>3. /\ paid \in Int /\ won \in Int /\ Total(x) \in Int
              /\ Total(v) + paid = Total(u) + won
            BY <2>8, <2>10, <3>1
        <3>4. Sum(fee, 1..(i + 1)) = Fee(t) + paid /\ Sum(gain, 1..(i + 1)) = Gain(t) + won
            BY <2>8
        <3> HIDE DEF fee, gain, t, v, x, paid, won
        <3>5. Total(x) + (Fee(t) + paid) = Total(u) + (Gain(t) + won)
            <4>1. paid \in Int
                BY <3>3
            <4>2. won \in Int
                BY <3>3
            <4>3. Total(v) \in Int
                BY <2>9
            <4>4. Total(u) \in Int
                BY <2>9
            <4>5. Fee(t) \in Int
                BY <2>9
            <4>6. Gain(t) \in Int
                BY <2>9
            <4>7. Total(x) \in Int
                BY <3>3
            <4>0. Total(v) + paid = Total(u) + won
                BY <3>3
            <4>8. Total(v) = Total(u) + won - paid
                BY <4>0, <4>1, <4>2, <4>3, <4>4
            <4>9. Total(x) = Total(v) + Gain(t) - Fee(t)
                BY <3>2, <4>3, <4>5, <4>6, <4>7
            <4> QED BY <4>1, <4>2, <4>3, <4>4, <4>5, <4>6, <4>7, <4>8, <4>9
        <3> QED BY <3>4, <3>5
    <2>12. DOMAIN x \subseteq DOMAIN u \cup OutpointsOf(txs, 1..(i + 1))
        BY <2>2, <2>6, <2>7
    <2> HIDE DEF x, t, v, after, fee, gain
    <2> QED BY <2>3, <2>6, <2>11, <2>12 DEF x
<1>7. n \in N
    <2> HIDE DEF N
    <2> QED BY <1>1, <1>5, <1>6, NatSetInduction
<1>8. SumSeq(fee) = Sum(fee, 1..n) /\ SumSeq(gain) = Sum(gain, 1..n)
    <2>1. DOMAIN fee = 1..n /\ DOMAIN gain = 1..n
        OBVIOUS
    <2> HIDE DEF fee, gain, n
    <2> QED BY <1>1, <1>2, <2>1, SumSeqOver
<1> HIDE DEF fee, gain, after
<1> QED BY <1>1, <1>7, <1>8 DEF fee, gain, after

(* The burns of the genesis are a sequence of amounts. *)
LEMMA BurnsShape ==
    /\ Len(GenesisBurns) \in Nat /\ DOMAIN GenesisBurns = 1..Len(GenesisBurns)
    /\ \A i \in DOMAIN GenesisBurns : GenesisBurns[i].amount \in Nat
PROOF
<1> DEFINE R == Range(GenesisBurns)
<1>1. GenesisBurns \in Seq(R) /\ \A i \in DOMAIN GenesisBurns : GenesisBurns[i].amount \in Nat
    BY ChainAssumption
<1> HIDE DEF R
<1> QED BY <1>1

-----------------------------------------------------------------------------
(* Rewards.                                                                  *)

(* Member after member takes its part of what is left of the pool. *)
LEMMA SharesTakenSteps ==
    ASSUME NEW pool, NEW count \in Nat
    PROVE  /\ SharesTaken(pool, count)[0] = 0
           /\ \A i \in 1..count : SharesTaken(pool, count)[i] = SharesTaken(pool, count)[i - 1] + (IF i = count THEN pool - SharesTaken(pool, count)[i - 1] ELSE (pool - SharesTaken(pool, count)[i - 1]) \div (count - i + 1))
           /\ SharesTaken(pool, count) = [i \in 0..count |-> SharesTaken(pool, count)[i]]
PROOF
<1> DEFINE Step(g, i) == IF i = 0 THEN 0 ELSE g[i - 1] + (IF i = count THEN pool - g[i - 1] ELSE (pool - g[i - 1]) \div (count - i + 1))
           N == {m \in Nat : \E g : g = [i \in 0..m |-> Step(g, i)]}
<1>1. 0 \in N
    <2> DEFINE g == [i \in 0..0 |-> 0]
    <2>1. \A i \in 0..0 : Step(g, i) = 0
        OBVIOUS
    <2> HIDE DEF Step
    <2>2. g = [i \in 0..0 |-> Step(g, i)]
        BY <2>1
    <2> HIDE DEF g
    <2> QED BY <2>2
<1>2. ASSUME NEW m \in Nat, m \in N PROVE m + 1 \in N
    <2>1. PICK g : g = [i \in 0..m |-> Step(g, i)]
        BY <1>2
    <2> DEFINE h == [i \in 0..(m + 1) |-> Step(g, i)]
    <2>2. ASSUME NEW i \in 0..(m + 1) PROVE h[i] = Step(h, i)
        <3>1. CASE i = 0
            BY <3>1
        <3>2. CASE i # 0
            <4>1. i - 1 \in 0..m /\ i - 1 \in 0..(m + 1)
                BY <3>2
            <4>2. g[i - 1] = Step(g, i - 1) /\ h[i - 1] = Step(g, i - 1)
                <5> HIDE DEF Step
                <5> QED BY <2>1, <4>1
            <4>3. h[i] = Step(g, i)
                <5> HIDE DEF Step
                <5> QED OBVIOUS
            <4>4. g[i - 1] = h[i - 1]
                <5> HIDE DEF Step, h
                <5> QED BY <4>2
            <4> HIDE DEF h
            <4> QED BY <3>2, <4>3, <4>4
        <3> QED BY <3>1, <3>2
    <2>3. h = [i \in 0..(m + 1) |-> h[i]]
        OBVIOUS
    <2> HIDE DEF Step, h
    <2>4. h = [i \in 0..(m + 1) |-> Step(h, i)]
        BY <2>2, <2>3
    <2> QED BY <2>4
<1>3. count \in N
    <2> HIDE DEF N
    <2> QED BY <1>1, <1>2, NatSetInduction
<1>4. PICK g : g = [i \in 0..count |-> Step(g, i)]
    <2> HIDE DEF Step
    <2> QED BY <1>3
<1>5. SharesTaken(pool, count) = CHOOSE f : f = [i \in 0..count |-> Step(f, i)]
    BY DEF SharesTaken
<1>6. SharesTaken(pool, count) = [i \in 0..count |-> Step(SharesTaken(pool, count), i)]
    <2> HIDE DEF Step
    <2> QED BY <1>4, <1>5
<1>7. \A i \in 0..count : SharesTaken(pool, count)[i] = Step(SharesTaken(pool, count), i)
    <2> HIDE DEF Step
    <2> DEFINE u == SharesTaken(pool, count)
    <2>1. u = [i \in 0..count |-> Step(u, i)]
        BY <1>6
    <2> HIDE DEF u
    <2>2. \A i \in 0..count : u[i] = Step(u, i)
        BY <2>1
    <2> QED BY <2>2 DEF u
<1> QED BY <1>6, <1>7

(* An unsigned number divided by a positive one does not grow. *)
LEMMA DivBound ==
    ASSUME NEW a \in Nat, NEW k \in Nat \ {0}
    PROVE  a \div k \in Nat /\ a \div k <= a
PROOF
<1> DEFINE q == a \div k
           m == a % k
<1>1. q \in Int /\ m \in Int /\ 0 <= m /\ m < k /\ a = k * q + m
    OBVIOUS
<1>2. k >= 1 /\ a >= 0 /\ k \in Int /\ a \in Int
    OBVIOUS
<1> HIDE DEF q, m
<1>3. q >= 0
    <2> SUFFICES ASSUME q <= -1 PROVE FALSE
        BY <1>1
    <2>1. k * q <= k * (-1)
        BY <1>1, <1>2
    <2> QED BY <1>1, <1>2, <2>1
<1>4. q <= a
    <2>1. q <= k * q
        BY <1>1, <1>2, <1>3
    <2> QED BY <1>1, <2>1
<1> QED BY <1>1, <1>3, <1>4 DEF q

(* A part of a sum that adds nothing. *)
LEMMA SumZero ==
    ASSUME NEW f, NEW S, IsFiniteSet(S), \A x \in S : f[x] = 0
    PROVE  Sum(f, S) = 0
PROOF
<1> DEFINE K == {P \in SUBSET S : Sum(f, P) = 0}
<1>1. {} \in K
    BY SumEmpty
<1>2. ASSUME NEW P \in SUBSET S, NEW x \in S, P \in K, x \notin P PROVE P \cup {x} \in K
    <2>1. IsFiniteSet(P)
        BY FS_Subset
    <2>2. \A y \in P : f[y] \in Int
        OBVIOUS
    <2>3. f[x] \in Int /\ f[x] = 0
        OBVIOUS
    <2>4. Sum(f, P \cup {x}) = f[x] + Sum(f, P)
        BY <1>2, <2>1, <2>2, <2>3, SumAdd
    <2>5. Sum(f, P) = 0
        BY <1>2
    <2>6. Sum(f, P \cup {x}) = 0
        BY <2>3, <2>4, <2>5
    <2> QED BY <2>6
<1>3. S \in K
    <2> HIDE DEF K
    <2> QED BY <1>1, <1>2, FiniteSetInduction
<1> QED BY <1>3

(* The members take unsigned parts that make up the pool. *)
LEMMA SharesMakeThePool ==
    ASSUME NEW pool \in Nat, NEW count \in Nat \ {0}
    PROVE  /\ \A i \in 1..count : MemberShares(pool, count)[i] \in Nat
           /\ Sum(MemberShares(pool, count), 1..count) = pool
PROOF
<1> DEFINE taken == SharesTaken(pool, count)
           f == MemberShares(pool, count)
           N == {i \in Nat : i <= count => taken[i] \in 0..pool /\ (i = count => taken[i] = pool)}
           M == {i \in Nat : i <= count => Sum(f, 1..i) = taken[i]}
<1>1. /\ taken[0] = 0
      /\ \A i \in 1..count : taken[i] = taken[i - 1] +
            (IF i = count THEN pool - taken[i - 1] ELSE (pool - taken[i - 1]) \div (count - i + 1))
    BY SharesTakenSteps
<1>2. \A i \in 1..count : f[i] = taken[i] - taken[i - 1]
    BY DEF MemberShares
<1> HIDE DEF taken, f
<1>3. ASSUME NEW i \in 1..count, taken[i - 1] \in 0..pool
      PROVE  /\ taken[i] \in 0..pool /\ (i = count => taken[i] = pool)
             /\ f[i] \in Nat
    <2> DEFINE left == pool - taken[i - 1]
               d == count - i + 1
               part == left \div d
    <2>1. left \in Nat /\ left <= pool /\ taken[i - 1] \in Int /\ pool = left + taken[i - 1]
        BY <1>3
    <2>2. d \in Nat \ {0}
        OBVIOUS
    <2>3. taken[i] = taken[i - 1] + (IF i = count THEN left ELSE part)
        BY <1>1
    <2>4. f[i] = taken[i] - taken[i - 1]
        BY <1>2
    <2> HIDE DEF left, d
    <2>5. part \in Nat /\ part <= left
        BY <2>1, <2>2, DivBound
    <2> HIDE DEF part
    <2> QED BY <1>3, <2>1, <2>3, <2>4, <2>5
<1>4. 0 \in N
    BY <1>1
<1>5. ASSUME NEW i \in Nat, i \in N PROVE i + 1 \in N
    <2> SUFFICES ASSUME i + 1 <= count
                 PROVE  taken[i + 1] \in 0..pool /\ (i + 1 = count => taken[i + 1] = pool)
        OBVIOUS
    <2>1. taken[i] \in 0..pool /\ i + 1 \in 1..count /\ i + 1 - 1 = i
        BY <1>5
    <2> DEFINE k == i + 1
    <2>2. k \in 1..count /\ taken[k - 1] \in 0..pool
        BY <2>1
    <2> HIDE DEF k
    <2>3. taken[k] \in 0..pool /\ (k = count => taken[k] = pool)
        BY <1>3, <2>2
    <2> QED BY <2>3 DEF k
<1>6. \A i \in Nat : i \in N
    <2> HIDE DEF N
    <2> QED BY <1>4, <1>5, NatSetInduction
<1>7. \A i \in 1..count : taken[i - 1] \in 0..pool /\ taken[i] \in 0..pool /\ f[i] \in Nat
    <2> SUFFICES ASSUME NEW i \in 1..count
                 PROVE  taken[i - 1] \in 0..pool /\ taken[i] \in 0..pool /\ f[i] \in Nat
        OBVIOUS
    <2>1. i - 1 \in Nat /\ i - 1 <= count
        OBVIOUS
    <2>2. i - 1 \in N
        BY <1>6, <2>1
    <2>3. taken[i - 1] \in 0..pool
        BY <2>1, <2>2
    <2> QED BY <1>3, <2>3
<1>8. 0 \in M
    <2>1. 1..0 = {}
        OBVIOUS
    <2> QED BY <1>1, <2>1, SumEmpty
<1>9. ASSUME NEW i \in Nat, i \in M PROVE i + 1 \in M
    <2> SUFFICES ASSUME i + 1 <= count PROVE Sum(f, 1..(i + 1)) = taken[i + 1]
        OBVIOUS
    <2>1. Sum(f, 1..i) = taken[i]
        BY <1>9
    <2> DEFINE k == i + 1
    <2>2. k \in 1..count /\ k - 1 = i
        OBVIOUS
    <2> HIDE DEF k
    <2>3. \A j \in 1..count : f[j] \in Int
        BY <1>7
    <2>4. Sum(f, 1..k) = f[k] + Sum(f, 1..(k - 1))
        BY <2>2, <2>3, SumStep
    <2>5. f[k] = taken[k] - taken[k - 1] /\ taken[k] \in Int /\ taken[k - 1] \in Int
        BY <1>2, <1>7, <2>2
    <2>6. Sum(f, 1..(k - 1)) = taken[k - 1]
        BY <2>1, <2>2
    <2>7. Sum(f, 1..k) = taken[k]
        BY <2>4, <2>5, <2>6
    <2> QED BY <2>7 DEF k
<1>10. \A i \in Nat : i \in M
    <2> HIDE DEF M
    <2> QED BY <1>8, <1>9, NatSetInduction
<1>11. count \in N /\ count \in M
    <2> HIDE DEF N, M
    <2> QED BY <1>6, <1>10
<1>12. Sum(f, 1..count) = pool
    BY <1>11
<1> QED BY <1>7, <1>12 DEF f

(* A finite set of numbers that is not empty has a largest one. *)
LEMMA LargestExists ==
    ASSUME NEW S, IsFiniteSet(S), S \subseteq Int, S # {}
    PROVE  \E m \in S : \A x \in S : x <= m
PROOF
<1> DEFINE K == {P \in SUBSET S : P = {} \/ \E m \in P : \A x \in P : x <= m}
<1>1. {} \in K
    OBVIOUS
<1>2. ASSUME NEW P \in SUBSET S, NEW x \in S, P \in K, x \notin P PROVE P \cup {x} \in K
    <2>1. CASE P = {}
        BY <2>1
    <2>2. CASE P # {}
        <3>1. PICK m \in P : \A y \in P : y <= m
            BY <1>2, <2>2
        <3>2. x \in Int /\ m \in Int /\ P \subseteq Int
            OBVIOUS
        <3>3. CASE x <= m
            <4>1. \A y \in P \cup {x} : y <= m
                BY <3>1, <3>3
            <4>2. m \in P \cup {x}
                OBVIOUS
            <4> QED BY <4>1, <4>2
        <3>4. CASE ~(x <= m)
            <4>1. \A y \in P \cup {x} : y <= x
                BY <3>1, <3>2, <3>4
            <4> QED BY <4>1
        <3> QED BY <3>3, <3>4
    <2> QED BY <2>1, <2>2
<1>3. S \in K
    <2> HIDE DEF K
    <2> QED BY <1>1, <1>2, FiniteSetInduction
<1> QED BY <1>3

\* A sequence without repetition, the smaller elements first.
Sorted(s, S) ==
    /\ s \in [1..Cardinality(S) -> S]
    /\ \A i, j \in DOMAIN s : i < j => s[i] < s[j]

(* Every finite set of numbers has an ascending sequence. *)
LEMMA SortedExists ==
    ASSUME NEW S, IsFiniteSet(S), S \subseteq Int
    PROVE  \E s : Sorted(s, S)
PROOF
<1> DEFINE N == {n \in Nat : \A P \in SUBSET S : Cardinality(P) = n => \E s : Sorted(s, P)}
<1>1. 0 \in N
    <2> SUFFICES ASSUME NEW P \in SUBSET S, Cardinality(P) = 0 PROVE \E s : Sorted(s, P)
        OBVIOUS
    <2> DEFINE s == [i \in 1..0 |-> CHOOSE x \in P : TRUE]
    <2>1. Sorted(s, P)
        BY DEF Sorted
    <2> QED BY <2>1
<1>2. ASSUME NEW n \in Nat, n \in N PROVE n + 1 \in N
    <2> SUFFICES ASSUME NEW P \in SUBSET S, Cardinality(P) = n + 1 PROVE \E s : Sorted(s, P)
        OBVIOUS
    <2>1. IsFiniteSet(P) /\ P # {}
        <3>1. IsFiniteSet(P)
            BY FS_Subset
        <3>2. P # {}
            <4>1. Cardinality({}) = 0 /\ n + 1 # 0
                BY FS_EmptySet
            <4> QED BY <4>1
        <3> QED BY <3>1, <3>2
    <2>2. PICK m \in P : \A x \in P : x <= m
        BY <2>1, LargestExists
    <2> DEFINE Q == P \ {m}
    <2>3. Q \in SUBSET S /\ Cardinality(Q) = n
        <3>1. Cardinality(Q) = Cardinality(P) - 1
            BY <2>1, FS_RemoveElement
        <3> HIDE DEF Q
        <3>2. Cardinality(Q) = n
            BY <3>1
        <3> QED BY <3>2 DEF Q
    <2>4. PICK s : Sorted(s, Q)
        <3> HIDE DEF Q
        <3> QED BY <1>2, <2>3
    <2>5. /\ s \in [1..n -> Q] /\ DOMAIN s = 1..n
          /\ \A i, j \in 1..n : i < j => s[i] < s[j]
        BY <2>3, <2>4 DEF Sorted
    <2>6. \A x \in Q : x < m /\ x \in Int /\ m \in Int /\ x \in P
        BY <2>2
    <2> DEFINE r == [i \in 1..(n + 1) |-> IF i = n + 1 THEN m ELSE s[i]]
    <2> HIDE DEF Q
    <2>7. \A i \in 1..n : s[i] \in Q /\ r[i] = s[i]
        BY <2>5
    <2>8. r[n + 1] = m /\ DOMAIN r = 1..(n + 1)
        OBVIOUS
    <2>9. r \in [1..(n + 1) -> P]
        <3> SUFFICES ASSUME NEW i \in 1..(n + 1) PROVE r[i] \in P
            OBVIOUS
        <3>1. i = n + 1 \/ i \in 1..n
            OBVIOUS
        <3> HIDE DEF r
        <3> QED BY <2>6, <2>7, <2>8, <3>1
    <2>10. ASSUME NEW i \in 1..(n + 1), NEW j \in 1..(n + 1), i < j PROVE r[i] < r[j]
        <3>1. i \in 1..n /\ (j = n + 1 \/ j \in 1..n)
            BY <2>10
        <3> HIDE DEF r
        <3>2. CASE j = n + 1
            BY <2>6, <2>7, <2>8, <3>1, <3>2
        <3>3. CASE j \in 1..n
            BY <2>5, <2>7, <2>10, <3>1, <3>3
        <3> QED BY <3>1, <3>2, <3>3
    <2> HIDE DEF r
    <2>11. Sorted(r, P)
        BY <2>8, <2>9, <2>10 DEF Sorted
    <2> QED BY <2>11
<1>3. \A n \in Nat : n \in N
    <2> HIDE DEF N
    <2> QED BY <1>1, <1>2, NatSetInduction
<1> QED BY <1>3, FS_CardinalityType

(* The sequence that Ascending chooses. *)
LEMMA AscendingSorted ==
    ASSUME NEW S, IsFiniteSet(S), S \subseteq Int
    PROVE  /\ Cardinality(S) \in Nat
           /\ Ascending(S) \in [1..Cardinality(S) -> S]
           /\ \A i, j \in 1..Cardinality(S) : Ascending(S)[i] = Ascending(S)[j] => i = j
PROOF
<1> DEFINE s == Ascending(S)
           n == Cardinality(S)
<1>1. n \in Nat
    BY FS_CardinalityType
<1>2. Sorted(s, S)
    <2>1. \E r \in [1..n -> S] : \A i, j \in DOMAIN r : i < j => r[i] < r[j]
        BY SortedExists DEF Sorted
    <2> QED BY <2>1 DEF Ascending, Sorted
<1> HIDE DEF s
<1>3. s \in [1..n -> S] /\ DOMAIN s = 1..n /\ \A i, j \in 1..n : i < j => s[i] < s[j]
    BY <1>2 DEF Sorted
<1>4. \A i \in 1..n : s[i] \in Int
    BY <1>3
<1>5. \A i, j \in 1..n : s[i] = s[j] => i = j
    <2> SUFFICES ASSUME NEW i \in 1..n, NEW j \in 1..n, s[i] = s[j] PROVE i = j
        OBVIOUS
    <2>1. ~(i < j) /\ ~(j < i)
        BY <1>3, <1>4
    <2> HIDE DEF n
    <2>2. i \in Int /\ j \in Int
        BY <1>1
    <2> QED BY <2>1, <2>2
<1> QED BY <1>1, <1>3, <1>5 DEF s

\* A committee's owners by slot, the finalizer in slot 0 if there is one.
IsCommittee(committee, miner) ==
    /\ IsFiniteSet(DOMAIN committee) /\ DOMAIN committee \subseteq Nat
    /\ 0 \in DOMAIN committee => committee[0] = miner

(* The slots that are paid are different, and the finalizer's is not among them. *)
LEMMA RewardSlotsPaid ==
    ASSUME NEW b, NEW committee, IsCommittee(committee, b.miner)
    PROVE  \E n \in Nat :
              /\ RewardSlots(b, committee) = [i \in 1..n |-> RewardSlots(b, committee)[i]]
              /\ Len(RewardSlots(b, committee)) = n
              /\ n = 0 <=> RewardSlots(b, committee) = << >>
              /\ \A i \in 1..n : RewardSlots(b, committee)[i] \in Nat \ {0}
              /\ \A i, j \in 1..n : RewardSlots(b, committee)[i] = RewardSlots(b, committee)[j] => i = j
PROOF
<1> DEFINE S == {s \in b.signed : s \in DOMAIN committee /\ committee[s] # b.miner}
           r == RewardSlots(b, committee)
<1>1. CASE b.mode = "ticket" /\ b.rank <= 1
    <2>1. r = Ascending(S)
        BY <1>1 DEF RewardSlots
    <2>2. IsFiniteSet(S) /\ S \subseteq Nat \ {0} /\ S \subseteq Int
        <3>1. S \subseteq DOMAIN committee /\ 0 \notin S
            BY DEF IsCommittee
        <3>2. IsFiniteSet(S)
            BY <3>1, FS_Subset DEF IsCommittee
        <3> QED BY <3>1, <3>2 DEF IsCommittee
    <2> DEFINE n == Cardinality(S)
               a == Ascending(S)
    <2> HIDE DEF S
    <2>3. n \in Nat /\ a \in [1..n -> S] /\ \A i, j \in 1..n : a[i] = a[j] => i = j
        BY <2>2, AscendingSorted
    <2> HIDE DEF n, a
    <2>4. a = [i \in 1..n |-> a[i]] /\ a \in Seq(S) /\ Len(a) = n
        BY <2>3
    <2>5. n = 0 <=> a = << >>
        <3>1. n = 0 => a = << >>
            BY <2>4
        <3>2. a = << >> => n = 0
            BY <2>4
        <3> QED BY <3>1, <3>2
    <2>6. \A i \in 1..n : a[i] \in Nat \ {0}
        BY <2>2, <2>3
    <2>7. r = a
        BY <2>1 DEF a
    <2> HIDE DEF r
    <2> QED BY <2>3, <2>4, <2>5, <2>6, <2>7 DEF r
<1>2. CASE ~(b.mode = "ticket" /\ b.rank <= 1)
    <2>1. r = << >>
        BY <1>2 DEF RewardSlots
    <2> HIDE DEF r
    <2>2. r = [i \in 1..0 |-> r[i]] /\ Len(r) = 0
        BY <2>1
    <2> QED BY <2>1, <2>2 DEF r
<1> QED BY <1>1, <1>2

(* The members' outputs are worth their shares. *)
LEMMA MembersPaid ==
    ASSUME NEW b, NEW committee, NEW slots, NEW shares, NEW n \in Nat,
           slots = [i \in 1..n |-> slots[i]],
           \A i \in 1..n : slots[i] \in Nat \ {0},
           \A i, j \in 1..n : slots[i] = slots[j] => i = j,
           \A i \in 1..n : shares[i] \in Nat
    PROVE  /\ Coins(MemberOutputs(b, committee, slots, shares))
           /\ Total(MemberOutputs(b, committee, slots, shares)) = Sum(shares, 1..n)
           /\ \A o \in DOMAIN MemberOutputs(b, committee, slots, shares) :
                  \E k \in Nat \ {0} : o = <<b.hash, -k>>
           /\ AllWorth(MemberOutputs(b, committee, slots, shares))
PROOF
<1> DEFINE S == 1..n
           P == {j \in S : shares[j] > 0}
           Z == S \ P
           bij == [i \in P |-> <<b.hash, -slots[i]>>]
           V == {bij[i] : i \in P}
           u == MemberOutputs(b, committee, slots, shares)
           g == Amount(u)
<1>1. DOMAIN slots = S
    OBVIOUS
<1>2. IsFiniteSet(S) /\ IsFiniteSet(P) /\ IsFiniteSet(Z)
    <2>1. IsFiniteSet(S)
        <3>1. 1 \in Int /\ n \in Int
            OBVIOUS
        <3>2. IsFiniteSet(1..n)
            BY <3>1, FS_Interval
        <3> QED BY <3>2
    <2>2. P \subseteq S /\ Z \subseteq S
        OBVIOUS
    <2> HIDE DEF S, P, Z
    <2>3. IsFiniteSet(P)
        BY <2>1, <2>2, FS_Subset
    <2>4. IsFiniteSet(Z)
        BY <2>1, <2>2, FS_Subset
    <2> QED BY <2>1, <2>3, <2>4
<1>3. V = {<<b.hash, -slots[i]>> : i \in P}
    OBVIOUS
<1>4. P = {j \in DOMAIN slots : shares[j] > 0}
    BY <1>1
<1>5. /\ DOMAIN u = V /\ u = [o \in DOMAIN u |-> u[o]]
      /\ \A o \in V : u[o].amount = shares[CHOOSE j \in DOMAIN slots : -slots[j] = o[2]]
    BY <1>3, <1>4 DEF MemberOutputs
<1>6. ASSUME NEW i \in P PROVE (CHOOSE j \in DOMAIN slots : -slots[j] = bij[i][2]) = i
    <2>1. bij[i][2] = -slots[i]
        OBVIOUS
    <2>2. ASSUME NEW j \in S, -slots[j] = -slots[i] PROVE j = i
        <3>1. slots[j] \in Int /\ slots[i] \in Int /\ i \in S
            OBVIOUS
        <3>2. slots[j] = slots[i]
            BY <2>2, <3>1
        <3> QED BY <3>1, <3>2
    <2>3. i \in S
        OBVIOUS
    <2> HIDE DEF S, P, bij
    <2> QED BY <1>1, <2>1, <2>2, <2>3
<1>7. \A i \in P : bij[i] \in V
    OBVIOUS
<1>8. \A i \in P : u[bij[i]].amount = shares[i]
    <2> HIDE DEF u, bij, V, P, S
    <2> QED BY <1>5, <1>6, <1>7
<1>9. \A x, y \in P : bij[x] = bij[y] => x = y
    <2> SUFFICES ASSUME NEW x \in P, NEW y \in P, bij[x] = bij[y] PROVE x = y
        OBVIOUS
    <2>1. bij[x][2] = -slots[x] /\ bij[y][2] = -slots[y]
        OBVIOUS
    <2>2. x \in S /\ y \in S /\ slots[x] \in Int /\ slots[y] \in Int
        OBVIOUS
    <2>3. slots[x] = slots[y]
        <3> HIDE DEF bij
        <3> QED BY <2>1, <2>2
    <2> QED BY <2>2, <2>3
<1>10. bij \in [P -> V]
    OBVIOUS
<1>11. \A i \in P : shares[i] \in Int /\ shares[i] \in Nat
    OBVIOUS
<1>12. \A i \in P : g[bij[i]] = shares[i]
    <2> HIDE DEF u, bij, V, P
    <2> QED BY <1>5, <1>7, <1>8 DEF Amount
<1>13. Sum(g, V) = Sum(shares, P) /\ IsFiniteSet(V)
    <2>1. V = {bij[x] : x \in P}
        OBVIOUS
    <2> HIDE DEF g, bij, P, V
    <2> QED BY <1>2, <1>9, <1>10, <1>11, <1>12, <2>1, SumImage
<1>14. Coins(u)
    <2>1. \A o \in V : u[o].amount \in Nat
        <3> SUFFICES ASSUME NEW o \in V PROVE u[o].amount \in Nat
            OBVIOUS
        <3>1. PICK i \in P : o = bij[i]
            OBVIOUS
        <3> HIDE DEF u, bij, V, P
        <3> QED BY <1>8, <1>11, <3>1
    <2> HIDE DEF u, V
    <2> QED BY <1>5, <1>13, <2>1 DEF Coins
<1>15. Total(u) = Sum(g, V)
    <2>1. Total(u) = Sum(Amount(u), DOMAIN u)
        BY DEF Total, Amount
    <2> QED BY <1>5, <2>1
<1>16. Sum(shares, S) = Sum(shares, P)
    <2>1. P \cup Z = S /\ P \cap Z = {} /\ \A i \in Z : shares[i] = 0
        OBVIOUS
    <2>2. \A i \in P \cup Z : shares[i] \in Int
        OBVIOUS
    <2>3. Sum(shares, P) \in Int
        <3> HIDE DEF P
        <3> QED BY <1>2, <1>11, SumInt
    <2> HIDE DEF P, Z, S
    <2>4. Sum(shares, Z) = 0
        BY <1>2, <2>1, SumZero
    <2>5. Sum(shares, P \cup Z) = Sum(shares, P) + Sum(shares, Z)
        BY <1>2, <2>1, <2>2, SumUnion
    <2>6. P \cup Z = S
        BY <2>1
    <2>7. Sum(shares, S) = Sum(shares, P) + 0
        BY <2>4, <2>5, <2>6
    <2> QED BY <2>3, <2>7
<1>17. \A o \in V : \E k \in Nat \ {0} : o = <<b.hash, -k>>
    OBVIOUS
<1>18. AllWorth(u)
    <2> SUFFICES ASSUME NEW o \in V PROVE u[o].amount > 0
        <3> HIDE DEF u, V
        <3> QED BY <1>5 DEF AllWorth
    <2>1. PICK i \in P : o = bij[i]
        OBVIOUS
    <2>2. shares[i] > 0
        OBVIOUS
    <2> HIDE DEF u, bij, V, P
    <2> QED BY <1>8, <2>1, <2>2
<1> HIDE DEF u, V, g, P
<1> QED BY <1>5, <1>13, <1>14, <1>15, <1>16, <1>17, <1>18 DEF u

(* The finalizer's output is worth its amount. *)
LEMMA FinalizerPaid ==
    ASSUME NEW b, NEW amount \in Nat
    PROVE  /\ Coins(FinalizerOutput(b, amount))
           /\ Total(FinalizerOutput(b, amount)) = amount
           /\ DOMAIN FinalizerOutput(b, amount) \subseteq {<<b.hash, 0>>}
           /\ AllWorth(FinalizerOutput(b, amount))
PROOF
<1> DEFINE u == FinalizerOutput(b, amount)
           g == Amount(u)
           p == <<b.hash, 0>>
<1>1. DOMAIN u = (IF amount > 0 THEN {p} ELSE {}) /\ u = [o \in DOMAIN u |-> u[o]]
    BY DEF FinalizerOutput
<1>2. \A o \in DOMAIN u : u[o].amount = amount
    BY DEF FinalizerOutput
<1>3. Total(u) = Sum(g, DOMAIN u) /\ \A o \in DOMAIN u : g[o] = amount
    <2> HIDE DEF u
    <2> QED BY <1>2 DEF Total, Amount
<1> HIDE DEF u, g, p
<1>4. IsFiniteSet(DOMAIN u)
    <2>1. IsFiniteSet({p}) /\ IsFiniteSet({})
        BY FS_Singleton, FS_EmptySet
    <2> QED BY <1>1, <2>1
<1>5. Coins(u)
    BY <1>1, <1>2, <1>4 DEF Coins
<1>6. Total(u) = amount
    <2>1. CASE amount > 0
        <3>1. DOMAIN u = {p} /\ g[p] = amount /\ {p} \ {p} = {}
            BY <1>1, <1>3, <2>1
        <3>2. IsFiniteSet({p}) /\ (\A x \in {p} : g[x] \in Int) /\ p \in {p}
            <4>1. IsFiniteSet({p})
                BY FS_Singleton
            <4>2. \A x \in {p} : g[x] \in Int
                BY <3>1
            <4> QED BY <4>1, <4>2
        <3>3. Sum(g, {p}) = g[p] + Sum(g, {p} \ {p})
            BY <3>2, SumRemove
        <3>4. Sum(g, {p}) = amount + 0
            BY <3>1, <3>3, SumEmpty
        <3> QED BY <1>3, <3>1, <3>4
    <2>2. CASE amount = 0
        <3>1. DOMAIN u = {}
            BY <1>1, <2>2
        <3> QED BY <1>3, <2>2, <3>1, SumEmpty
    <2> QED BY <2>1, <2>2
<1>7. AllWorth(u)
    <2> SUFFICES ASSUME NEW o \in DOMAIN u PROVE u[o].amount > 0
        BY DEF AllWorth
    <2>1. amount > 0
        BY <1>1
    <2> QED BY <1>2, <2>1
<1> QED BY <1>1, <1>5, <1>6, <1>7 DEF u, p

(* A block pays out its reward, to the unit. *)
LEMMA RewardPaidInFull ==
    ASSUME NEW b, NEW reward \in Nat, NEW committee, IsCommittee(committee, b.miner)
    PROVE  /\ Coins(RewardOutputs(b, reward, committee))
           /\ Total(RewardOutputs(b, reward, committee)) = reward
           /\ \A o \in DOMAIN RewardOutputs(b, reward, committee) :
                  \E k \in Nat : o = <<b.hash, -k>>
           /\ AllWorth(RewardOutputs(b, reward, committee))
PROOF
<1> DEFINE slots == RewardSlots(b, committee)
           u == RewardOutputs(b, reward, committee)
<1>1. PICK n \in Nat :
        /\ slots = [i \in 1..n |-> slots[i]]
        /\ Len(slots) = n
        /\ n = 0 <=> slots = << >>
        /\ \A i \in 1..n : slots[i] \in Nat \ {0}
        /\ \A i, j \in 1..n : slots[i] = slots[j] => i = j
    BY RewardSlotsPaid
<1> HIDE DEF slots
<1>2. CASE reward = 0
    <2>1. u = << >> /\ DOMAIN u = {}
        BY <1>2 DEF RewardOutputs
    <2>2. u = [o \in DOMAIN u |-> u[o]]
        BY <2>1
    <2>3. Total(u) = 0
        <3>1. Total(u) = Sum(Amount(u), DOMAIN u)
            BY DEF Total, Amount
        <3> QED BY <2>1, <3>1, SumEmpty
    <2>4. Coins(u)
        BY <2>1, <2>2, FS_EmptySet DEF Coins
    <2>5. AllWorth(u)
        BY <2>1 DEF AllWorth
    <2> HIDE DEF u
    <2> QED BY <1>2, <2>1, <2>3, <2>4, <2>5 DEF u
<1>3. CASE reward # 0
    <2> DEFINE pool == IF slots = << >> THEN 0 ELSE reward \div 2
               shares == MemberShares(pool, n)
               fin == FinalizerOutput(b, reward - pool)
               mem == MemberOutputs(b, committee, slots, shares)
    <2>1. u = Merge(fin, mem)
        BY <1>1, <1>3 DEF RewardOutputs, PaidSlots, SplitReward, slots
    <2>2. pool \in Nat /\ pool <= reward /\ reward - pool \in Nat
        <3>1. reward \div 2 \in Nat /\ reward \div 2 <= reward
            BY DivBound
        <3>2. pool \in Nat /\ pool <= reward
            BY <3>1
        <3> HIDE DEF pool
        <3> QED BY <3>2
    <2>3. (\A i \in 1..n : shares[i] \in Nat) /\ Sum(shares, 1..n) = pool
        <3>1. CASE n = 0
            <4>1. 1..n = {} /\ pool = 0
                BY <1>1, <3>1
            <4> HIDE DEF pool, shares
            <4> QED BY <4>1, SumEmpty
        <3>2. CASE n # 0
            <4>1. n \in Nat \ {0}
                BY <3>2
            <4> HIDE DEF pool
            <4> QED BY <2>2, <4>1, SharesMakeThePool
        <3> QED BY <3>1, <3>2
    <2> HIDE DEF pool, shares
    <2>4. /\ Coins(mem) /\ Total(mem) = pool
          /\ \A o \in DOMAIN mem : \E k \in Nat \ {0} : o = <<b.hash, -k>>
          /\ AllWorth(mem)
        BY <1>1, <2>3, MembersPaid
    <2>5. /\ Coins(fin) /\ Total(fin) = reward - pool /\ DOMAIN fin \subseteq {<<b.hash, 0>>}
          /\ AllWorth(fin)
        BY <2>2, FinalizerPaid
    <2> HIDE DEF fin, mem, u
    <2>6. DOMAIN fin \cap DOMAIN mem = {}
        <3> SUFFICES ASSUME NEW o, o \in DOMAIN fin, o \in DOMAIN mem PROVE FALSE
            OBVIOUS
        <3>1. PICK k \in Nat \ {0} : o = <<b.hash, -k>>
            BY <2>4
        <3>2. o = <<b.hash, 0>>
            BY <2>5
        <3>3. -k = 0
            BY <3>1, <3>2
        <3> QED BY <3>3
    <2>7. Coins(u) /\ Total(u) = Total(fin) + Total(mem)
        BY <2>1, <2>4, <2>5, <2>6, TotalMerge
    <2>8. Total(u) = reward
        BY <2>2, <2>4, <2>5, <2>7
    <2>9. DOMAIN u = DOMAIN fin \cup DOMAIN mem
        BY <2>1 DEF Merge
    <2>10. \A o \in DOMAIN u : \E k \in Nat : o = <<b.hash, -k>>
        <3>1. \A o \in DOMAIN fin : o = <<b.hash, -0>>
            BY <2>5
        <3> QED BY <2>4, <2>9, <3>1
    <2>11. AllWorth(u)
        BY <2>1, <2>4, <2>5 DEF AllWorth, Merge
    <2> QED BY <2>7, <2>8, <2>10, <2>11 DEF u
<1> QED BY <1>2, <1>3

(* A committee is drawn slot after slot, the finalizer in the first. *)
LEMMA SlotsDrawnSteps ==
    ASSUME NEW L, NEW finalizer, NEW skipped, NEW eligible, CommitteeSize - 1 \in Nat
    PROVE  /\ SlotsDrawn(L, finalizer, skipped, eligible)[0] = FinalizerSeated(L, finalizer, skipped, eligible)
           /\ \A i \in 1..(CommitteeSize - 1) : SlotsDrawn(L, finalizer, skipped, eligible)[i] = DrawNext(L, SlotsDrawn(L, finalizer, skipped, eligible)[i - 1], i, eligible)
           /\ SlotsDrawn(L, finalizer, skipped, eligible) = [i \in 0..(CommitteeSize - 1) |-> SlotsDrawn(L, finalizer, skipped, eligible)[i]]
PROOF
<1> DEFINE Step(g, i) == IF i = 0 THEN FinalizerSeated(L, finalizer, skipped, eligible) ELSE DrawNext(L, g[i - 1], i, eligible)
           N == {m \in Nat : \E g : g = [i \in 0..m |-> Step(g, i)]}
<1>1. 0 \in N
    <2> DEFINE g == [i \in 0..0 |-> FinalizerSeated(L, finalizer, skipped, eligible)]
    <2>1. \A i \in 0..0 : Step(g, i) = FinalizerSeated(L, finalizer, skipped, eligible)
        OBVIOUS
    <2> HIDE DEF Step
    <2>2. g = [i \in 0..0 |-> Step(g, i)]
        BY <2>1
    <2> HIDE DEF g
    <2> QED BY <2>2
<1>2. ASSUME NEW m \in Nat, m \in N PROVE m + 1 \in N
    <2>1. PICK g : g = [i \in 0..m |-> Step(g, i)]
        BY <1>2
    <2> DEFINE h == [i \in 0..(m + 1) |-> Step(g, i)]
    <2>2. ASSUME NEW i \in 0..(m + 1) PROVE h[i] = Step(h, i)
        <3>1. CASE i = 0
            BY <3>1
        <3>2. CASE i # 0
            <4>1. i - 1 \in 0..m /\ i - 1 \in 0..(m + 1)
                BY <3>2
            <4>2. g[i - 1] = Step(g, i - 1) /\ h[i - 1] = Step(g, i - 1)
                <5> HIDE DEF Step
                <5> QED BY <2>1, <4>1
            <4>3. h[i] = Step(g, i)
                <5> HIDE DEF Step
                <5> QED OBVIOUS
            <4>4. g[i - 1] = h[i - 1]
                <5> HIDE DEF Step, h
                <5> QED BY <4>2
            <4> HIDE DEF h
            <4> QED BY <3>2, <4>3, <4>4
        <3> QED BY <3>1, <3>2
    <2>3. h = [i \in 0..(m + 1) |-> h[i]]
        OBVIOUS
    <2> HIDE DEF Step, h
    <2>4. h = [i \in 0..(m + 1) |-> Step(h, i)]
        BY <2>2, <2>3
    <2> QED BY <2>4
<1>3. (CommitteeSize - 1) \in N
    <2> HIDE DEF N
    <2> QED BY <1>1, <1>2, NatSetInduction
<1>4. PICK g : g = [i \in 0..(CommitteeSize - 1) |-> Step(g, i)]
    <2> HIDE DEF Step
    <2> QED BY <1>3
<1>5. SlotsDrawn(L, finalizer, skipped, eligible) = CHOOSE f : f = [i \in 0..(CommitteeSize - 1) |-> Step(f, i)]
    BY DEF SlotsDrawn
<1>6. SlotsDrawn(L, finalizer, skipped, eligible) = [i \in 0..(CommitteeSize - 1) |-> Step(SlotsDrawn(L, finalizer, skipped, eligible), i)]
    <2> HIDE DEF Step
    <2> QED BY <1>4, <1>5
<1>7. \A i \in 0..(CommitteeSize - 1) : SlotsDrawn(L, finalizer, skipped, eligible)[i] = Step(SlotsDrawn(L, finalizer, skipped, eligible), i)
    <2> HIDE DEF Step
    <2> DEFINE u == SlotsDrawn(L, finalizer, skipped, eligible)
    <2>1. u = [i \in 0..(CommitteeSize - 1) |-> Step(u, i)]
        BY <1>6
    <2> HIDE DEF u
    <2>2. \A i \in 0..(CommitteeSize - 1) : u[i] = Step(u, i)
        BY <2>1
    <2> QED BY <2>2 DEF u
<1> QED BY <1>6, <1>7

(* The values of a finite function are finitely many. *)
LEMMA FiniteImage ==
    ASSUME NEW S, IsFiniteSet(S), NEW f, S \subseteq DOMAIN f
    PROVE  IsFiniteSet({f[x] : x \in S})
PROOF
<1> DEFINE V == {f[x] : x \in S}
           g == [x \in S |-> f[x]]
<1>1. g \in Surjection(S, V)
    BY DEF Surjection
<1> HIDE DEF V, g
<1>2. IsFiniteSet(V)
    BY <1>1, FS_Surjection
<1> QED BY <1>2 DEF V

\* A sequence of members whose first is the owner.
Seated(m, owner) ==
    /\ \E S : m \in Seq(S)
    /\ Len(m) \in Nat \ {0}
    /\ \A i \in 1..Len(m) : m[i].slot \in Nat
    /\ m[1].owner = owner

(* The committee of one member. *)
LEMMA SeatedAlone ==
    ASSUME NEW e, e.slot = 0
    PROVE  Seated(<<e>>, e.owner)
PROOF
<1> DEFINE m == <<e>>
<1>1. m \in Seq({e}) /\ Len(m) = 1 /\ m[1] = e
    OBVIOUS
<1> HIDE DEF m
<1>2. \A i \in 1..1 : m[i].slot \in Nat
    <2>1. \A i \in 1..1 : i = 1
        OBVIOUS
    <2>2. m[1].slot = 0
        BY <1>1
    <2> QED BY <2>1, <2>2
<1>3. m[1].owner = e.owner
    BY <1>1
<1>4. Len(m) \in Nat \ {0}
    BY <1>1
<1> QED BY <1>1, <1>2, <1>3, <1>4 DEF Seated, m

\* A committee that is joined keeps its first member.
LEMMA SeatedAppend ==
    ASSUME NEW m, NEW owner, Seated(m, owner), NEW e, e.slot \in Nat
    PROVE  Seated(Append(m, e), owner)
PROOF
<1>1. PICK S : m \in Seq(S)
    BY DEF Seated
<1> DEFINE T == S \cup {e}
           r == Append(m, e)
           n == Len(m)
<1>2. m \in Seq(T) /\ e \in T
    BY <1>1, SeqMonotonic
<1> HIDE DEF T
<1>3. r \in Seq(T) /\ Len(r) = n + 1 /\ (\A i \in 1..n : r[i] = m[i]) /\ r[n + 1] = e
    BY <1>2
<1>4. n \in Nat \ {0} /\ 1 \in 1..n /\ \A i \in 1..n : m[i].slot \in Nat
    BY DEF Seated
<1> HIDE DEF r, n
<1>5. \A i \in 1..(n + 1) : r[i].slot \in Nat
    <2> SUFFICES ASSUME NEW i \in 1..(n + 1) PROVE r[i].slot \in Nat
        OBVIOUS
    <2>1. i = n + 1 \/ i \in 1..n
        BY <1>4
    <2> QED BY <1>3, <1>4, <2>1
<1>6. r[1].owner = owner
    <2>1. m[1].owner = owner
        BY DEF Seated
    <2> QED BY <1>3, <1>4, <2>1
<1>7. Len(r) \in Nat \ {0}
    BY <1>3, <1>4
<1> QED BY <1>3, <1>5, <1>6, <1>7 DEF Seated, r

(* The finalizer is the first member of its committee, and slots are numbers. *)
LEMMA CommitteeSeated ==
    ASSUME NEW L, NEW finalizer, NEW skipped, NEW eligible
    PROVE  Seated(CommitteeDrawn(L, finalizer, skipped, eligible), finalizer.owner)
PROOF
<1> DEFINE n == CommitteeSize - 1
           drawn == SlotsDrawn(L, finalizer, skipped, eligible)
           owner == finalizer.owner
           N == {i \in Nat : i <= n => Seated(drawn[i].members, owner)}
<1>1. n \in Nat
    BY ChainAssumption
<1>2. /\ drawn[0] = FinalizerSeated(L, finalizer, skipped, eligible)
      /\ \A i \in 1..n : drawn[i] = DrawNext(L, drawn[i - 1], i, eligible)
    <2>1. CommitteeSize - 1 \in Nat
        BY <1>1
    <2> QED BY <2>1, SlotsDrawnSteps
<1> HIDE DEF drawn, n
<1>3. 0 \in N
    <2> DEFINE e == [slot |-> 0, root |-> finalizer.id, owner |-> owner]
    <2>1. e.slot = 0 /\ e.owner = owner
        OBVIOUS
    <2>2. drawn[0].members = <<e>>
        BY <1>2 DEF FinalizerSeated
    <2> HIDE DEF e
    <2>3. Seated(<<e>>, e.owner)
        BY <2>1, SeatedAlone
    <2> HIDE DEF owner
    <2> QED BY <2>1, <2>2, <2>3
<1>4. ASSUME NEW i \in Nat, i \in N PROVE i + 1 \in N
    <2> SUFFICES ASSUME i + 1 <= n PROVE Seated(drawn[i + 1].members, owner)
        OBVIOUS
    <2> DEFINE s == drawn[i]
               k == i + 1
               x == SelectWeighted([j \in DOMAIN s.left |-> Weight(L.values[s.left[j]])],
                                   Tip(L).seed + k)
    <2>1. k \in 1..n /\ k - 1 = i /\ k \in Nat
        BY <1>1
    <2>2. Seated(s.members, owner)
        BY <1>4, <1>1
    <2> HIDE DEF k, owner
    <2>3. drawn[k] = DrawSlot(L, s, k, x, eligible)
        BY <1>2, <2>1 DEF DrawNext
    <2> HIDE DEF s, x
    <2>4. CASE x = 0
        BY <2>2, <2>3, <2>4 DEF DrawSlot, k
    <2>5. CASE x # 0
        <3> DEFINE root == s.left[x]
                   who == Representative(L, s.left[x], s.skip, eligible)
                   e == [slot |-> k, root |-> root[2], owner |-> who]
        <3>1. drawn[k].members = Append(s.members, e)
            BY <2>3, <2>5 DEF DrawSlot, WithMember
        <3>2. e.slot = k
            OBVIOUS
        <3> HIDE DEF e
        <3>3. Seated(Append(s.members, e), owner)
            BY <2>1, <2>2, <3>2, SeatedAppend
        <3> QED BY <3>1, <3>3 DEF k
    <2> QED BY <2>4, <2>5
<1>5. n \in N
    <2> HIDE DEF N
    <2> QED BY <1>1, <1>3, <1>4, NatSetInduction
<1>6. Seated(drawn[n].members, owner)
    BY <1>1, <1>5
<1> QED BY <1>6 DEF CommitteeDrawn, drawn, n

\* Owners by slot of members whose first is the finalizer.
LEMMA SeatedIsCommittee ==
    ASSUME NEW m, NEW owner, Seated(m, owner)
    PROVE  IsCommittee(OwnersBySlot(m), owner)
PROOF
<1> DEFINE n == Len(m)
           f == [i \in 1..n |-> m[i].slot]
           V == {f[i] : i \in 1..n}
<1>1. DOMAIN m = 1..n /\ n \in Nat \ {0}
    BY DEF Seated
<1>2. \A i \in 1..n : f[i] = m[i].slot /\ f[i] \in Nat
    BY DEF Seated
<1>3. DOMAIN OwnersBySlot(m) = {m[i].slot : i \in 1..n}
    BY <1>1 DEF OwnersBySlot
<1>4. {m[i].slot : i \in 1..n} = V
    OBVIOUS
<1>5. IsFiniteSet(V)
    <2>1. IsFiniteSet(1..n) /\ 1..n \subseteq DOMAIN f
        BY <1>1, FS_Interval
    <2> HIDE DEF f
    <2> QED BY <2>1, FiniteImage
<1>6. 0 \in DOMAIN OwnersBySlot(m) => OwnersBySlot(m)[0] = owner
    <2> SUFFICES ASSUME 0 \in DOMAIN OwnersBySlot(m) PROVE OwnersBySlot(m)[0] = owner
        OBVIOUS
    <2>1. OwnersBySlot(m)[0] = m[0 + 1].owner
        BY DEF OwnersBySlot
    <2>2. 0 + 1 = 1
        OBVIOUS
    <2>3. m[1].owner = owner
        BY DEF Seated
    <2> QED BY <2>1, <2>2, <2>3
<1>7. V \subseteq Nat
    BY <1>2
<1> HIDE DEF V
<1> QED BY <1>3, <1>4, <1>5, <1>6, <1>7 DEF IsCommittee

(* The committee that a valid block is rewarded by has the block's miner in its first slot. *)
LEMMA RewardedCommittee ==
    ASSUME NEW L, NEW b,
           b.mode = "ticket" => FinalizesByRank(b, NextRanks(L))
    PROVE  IsCommittee(OwnersBySlot(BurnCommitteeForBlock(L, b)), b.miner)
PROOF
<1>1. CASE b.mode = "ticket"
    <2> DEFINE ranked == NextRanks(L)
               M == AtTip(L)
               skipped == {ranked[i].owner : i \in 1..(b.rank + 1)}
               eligible == {ranked[i].owner : i \in DOMAIN ranked}
               m == CommitteeDrawn(M, ranked[b.rank + 1], skipped, eligible)
    <2> HIDE DEF ranked
    <2>1. BurnCommitteeForBlock(L, b) = CommitteeOfRanked(M, b.rank, ranked)
        BY <1>1 DEF BurnCommitteeForBlock, LineageBurnCommittee, ranked
    <2>2. CASE b.rank >= Len(ranked)
        <3>1. BurnCommitteeForBlock(L, b) = << >>
            BY <2>1, <2>2 DEF CommitteeOfRanked
        <3> DEFINE e == << >>
        <3>2. DOMAIN OwnersBySlot(e) = {}
            BY DEF OwnersBySlot
        <3> HIDE DEF e
        <3>3. IsCommittee(OwnersBySlot(e), b.miner)
            BY <3>2, FS_EmptySet DEF IsCommittee
        <3> QED BY <3>1, <3>3 DEF e
    <2>3. CASE ~(b.rank >= Len(ranked))
        <3>1. BurnCommitteeForBlock(L, b) = m
            BY <2>1, <2>3 DEF CommitteeOfRanked
        <3>2. ranked[b.rank + 1].owner = b.miner
            BY <1>1 DEF FinalizesByRank, ranked
        <3>3. Seated(m, ranked[b.rank + 1].owner)
            BY CommitteeSeated
        <3>4. Seated(m, b.miner)
            BY <3>2, <3>3
        <3> HIDE DEF m
        <3> QED BY <3>1, <3>4, SeatedIsCommittee
    <2> QED BY <2>2, <2>3
<1>2. CASE b.mode # "ticket"
    <2> DEFINE e == [slot |-> 0, root |-> <<b.hash, 0>>, owner |-> b.miner]
    <2>1. BurnCommitteeForBlock(L, b) = <<e>>
        BY <1>2 DEF BurnCommitteeForBlock
    <2>2. e.slot = 0 /\ e.owner = b.miner
        OBVIOUS
    <2> HIDE DEF e
    <2>3. Seated(<<e>>, e.owner)
        BY <2>2, SeatedAlone
    <2>4. Seated(<<e>>, b.miner)
        BY <2>2, <2>3
    <2> QED BY <2>1, <2>4, SeatedIsCommittee
<1> QED BY <1>1, <1>2

-----------------------------------------------------------------------------
(* The ledger as a record.                                                   *)

\* A ledger is a record of these fields.
LedgerFields ==
    {"chain", "utxos", "lineage", "values", "owners", "binds", "tickets", "mined", "windows",
     "observations", "rounds", "draws", "pruned"}

IsLedger(L) == L = [f \in LedgerFields |-> L[f]]

\* The fields that the transactions of a block change.
SpentFields == {"utxos", "lineage", "values", "owners"}

\* Spending changes the outputs and the lineage indexes, nothing else.
LEMMA SpendFields ==
    ASSUME NEW L, IsLedger(L), NEW spent
    PROVE  /\ IsLedger(SpendInputsWithLineage(L, spent))
           /\ SpendInputsWithLineage(L, spent).utxos = Drop(L.utxos, spent)
           /\ \A f \in LedgerFields \ SpentFields : SpendInputsWithLineage(L, spent)[f] = L[f]
PROOF
<1> DEFINE M == SpendInputsWithLineage(L, spent)
<1>1. PICK l, v, w : M = [L EXCEPT !.utxos = Drop(L.utxos, spent), !.lineage = l, !.values = v, !.owners = w]
    BY DEF SpendInputsWithLineage
<1> HIDE DEF M
<1>2. DOMAIN L = LedgerFields
    BY DEF IsLedger
<1> DEFINE u == Drop(L.utxos, spent)
<1>3. M = [L EXCEPT !.utxos = u, !.lineage = l, !.values = v, !.owners = w]
    BY <1>1
<1> HIDE DEF u
<1>4. IsLedger(M) /\ M.utxos = u /\ \A f \in LedgerFields \ SpentFields : M[f] = L[f]
    BY <1>2, <1>3 DEF IsLedger, LedgerFields, SpentFields
<1> QED BY <1>4 DEF M, u

\* Creating outputs changes them and the lineage indexes, nothing else.
LEMMA InsertFields ==
    ASSUME NEW L, IsLedger(L), NEW t, NEW root
    PROVE  /\ IsLedger(InsertOutputsWithLineage(L, t, root))
           /\ InsertOutputsWithLineage(L, t, root).utxos = Merge(L.utxos, CreatedOutputs(t))
           /\ \A f \in LedgerFields \ SpentFields : InsertOutputsWithLineage(L, t, root)[f] = L[f]
PROOF
<1> DEFINE M == InsertOutputsWithLineage(L, t, root)
           u == Merge(L.utxos, CreatedOutputs(t))
           K == [L EXCEPT !.utxos = u]
           Q == root = NoRoot \/ DOMAIN CreatedOutputs(t) = {}
           created == CreatedOutputs(t)
           amount == [o \in DOMAIN created |-> created[o].amount]
           before(f, k, none) == IF k \in DOMAIN f THEN f[k] ELSE none
           l == Merge(K.lineage, [o \in DOMAIN created |-> root])
           v == Merge(K.values, [r \in {root} |->
                    before(K.values, root, 0) + Sum(amount, DOMAIN created)])
           w == Merge(K.owners, [k \in {<<root, created[o].owner>> : o \in DOMAIN created} |->
                    Merge(before(K.owners, k, << >>),
                          [o \in {p \in DOMAIN created : created[p].owner = k[2]} |-> amount[o]])])
<1>1. M = IF Q THEN K ELSE [K EXCEPT !.lineage = l, !.values = v, !.owners = w]
    BY Zenon DEF InsertOutputsWithLineage
<1> HIDE DEF l, v, w
<1>2. DOMAIN L = LedgerFields
    BY DEF IsLedger
<1> HIDE DEF M, u, Q
<1>3. IsLedger(K) /\ K.utxos = u /\ \A f \in LedgerFields \ SpentFields : K[f] = L[f]
    BY <1>2 DEF IsLedger, LedgerFields, SpentFields
<1> HIDE DEF K
<1>4. CASE Q
    <2>1. M = K
        BY <1>1, <1>4
    <2> QED BY <1>3, <2>1 DEF M, u
<1>5. CASE ~Q
    <2>1. M = [K EXCEPT !.lineage = l, !.values = v, !.owners = w]
        BY <1>1, <1>5
    <2>2. DOMAIN K = LedgerFields
        BY <1>3 DEF IsLedger
    <2>3. IsLedger(M) /\ M.utxos = K.utxos /\ \A f \in LedgerFields \ SpentFields : M[f] = K[f]
        BY <2>1, <2>2 DEF IsLedger, LedgerFields, SpentFields
    <2> QED BY <1>3, <2>3 DEF M, u
<1> QED BY <1>4, <1>5

(* With its lineage, a transaction changes the outputs as it does without. *)
LEMMA ApplyTransactionFields ==
    ASSUME NEW L, IsLedger(L), NEW t \in TxIds, L.utxos = [o \in DOMAIN L.utxos |-> L.utxos[o]],
           NEW height
    PROVE  /\ IsLedger(ApplyTransactionWithLineage(L, t, height))
           /\ ApplyTransactionWithLineage(L, t, height).utxos = AfterSpending(t, L.utxos)
           /\ \A f \in LedgerFields \ SpentFields : ApplyTransactionWithLineage(L, t, height)[f] = L[f]
PROOF
<1>1. CASE IsMine(t)
    <2> DEFINE root == <<height, <<t, 1>>>>
    <2>1. ApplyTransactionWithLineage(L, t, height) = InsertOutputsWithLineage(L, t, root)
        BY <1>1 DEF ApplyTransactionWithLineage
    <2>2. Inputs(t) = {}
        BY <1>1, TransactionAssumption
    <2>3. Drop(L.utxos, {}) = L.utxos
        BY DEF Drop
    <2>4. AfterSpending(t, L.utxos) = Merge(L.utxos, CreatedOutputs(t))
        BY <2>2, <2>3 DEF AfterSpending
    <2> HIDE DEF root
    <2> QED BY <2>1, <2>4, InsertFields
<1>2. CASE ~IsMine(t)
    <2> DEFINE root == NewestLineageRoot({L.lineage[o] : o \in Inputs(t) \cap DOMAIN L.lineage})
               M == SpendInputsWithLineage(L, Inputs(t))
    <2>1. ApplyTransactionWithLineage(L, t, height) = InsertOutputsWithLineage(M, t, root)
        BY <1>2 DEF ApplyTransactionWithLineage
    <2>2. /\ IsLedger(M) /\ M.utxos = Drop(L.utxos, Inputs(t))
          /\ \A f \in LedgerFields \ SpentFields : M[f] = L[f]
        BY SpendFields
    <2> HIDE DEF root, M
    <2> DEFINE K == InsertOutputsWithLineage(M, t, root)
    <2>3. /\ IsLedger(K) /\ K.utxos = Merge(M.utxos, CreatedOutputs(t))
          /\ \A f \in LedgerFields \ SpentFields : K[f] = M[f]
        BY <2>2, InsertFields
    <2> HIDE DEF K
    <2>4. K.utxos = AfterSpending(t, L.utxos)
        BY <2>2, <2>3 DEF AfterSpending
    <2>5. ApplyTransactionWithLineage(L, t, height) = K
        BY <2>1 DEF K
    <2> QED BY <2>2, <2>3, <2>4, <2>5
<1> QED BY <1>1, <1>2

(* A ledger takes the transactions of a block one after the other. *)
LEMMA LedgerAfterSteps ==
    ASSUME NEW L, NEW txs, Len(txs) \in Nat, NEW height
    PROVE  /\ LedgerAfter(L, txs, height)[0] = L
           /\ \A i \in 1..Len(txs) : LedgerAfter(L, txs, height)[i] = ApplyTransactionWithLineage(LedgerAfter(L, txs, height)[i - 1], txs[i], height)
           /\ LedgerAfter(L, txs, height) = [i \in 0..Len(txs) |-> LedgerAfter(L, txs, height)[i]]
PROOF
<1> DEFINE Step(g, i) == IF i = 0 THEN L ELSE ApplyTransactionWithLineage(g[i - 1], txs[i], height)
           N == {m \in Nat : \E g : g = [i \in 0..m |-> Step(g, i)]}
<1>1. 0 \in N
    <2> DEFINE g == [i \in 0..0 |-> L]
    <2>1. \A i \in 0..0 : Step(g, i) = L
        OBVIOUS
    <2> HIDE DEF Step
    <2>2. g = [i \in 0..0 |-> Step(g, i)]
        BY <2>1
    <2> HIDE DEF g
    <2> QED BY <2>2
<1>2. ASSUME NEW m \in Nat, m \in N PROVE m + 1 \in N
    <2>1. PICK g : g = [i \in 0..m |-> Step(g, i)]
        BY <1>2
    <2> DEFINE h == [i \in 0..(m + 1) |-> Step(g, i)]
    <2>2. ASSUME NEW i \in 0..(m + 1) PROVE h[i] = Step(h, i)
        <3>1. CASE i = 0
            BY <3>1
        <3>2. CASE i # 0
            <4>1. i - 1 \in 0..m /\ i - 1 \in 0..(m + 1)
                BY <3>2
            <4>2. g[i - 1] = Step(g, i - 1) /\ h[i - 1] = Step(g, i - 1)
                <5> HIDE DEF Step
                <5> QED BY <2>1, <4>1
            <4>3. h[i] = Step(g, i)
                <5> HIDE DEF Step
                <5> QED OBVIOUS
            <4>4. g[i - 1] = h[i - 1]
                <5> HIDE DEF Step, h
                <5> QED BY <4>2
            <4> HIDE DEF h
            <4> QED BY <3>2, <4>3, <4>4
        <3> QED BY <3>1, <3>2
    <2>3. h = [i \in 0..(m + 1) |-> h[i]]
        OBVIOUS
    <2> HIDE DEF Step, h
    <2>4. h = [i \in 0..(m + 1) |-> Step(h, i)]
        BY <2>2, <2>3
    <2> QED BY <2>4
<1>3. Len(txs) \in N
    <2> HIDE DEF N
    <2> QED BY <1>1, <1>2, NatSetInduction
<1>4. PICK g : g = [i \in 0..Len(txs) |-> Step(g, i)]
    <2> HIDE DEF Step
    <2> QED BY <1>3
<1>5. LedgerAfter(L, txs, height) = CHOOSE f : f = [i \in 0..Len(txs) |-> Step(f, i)]
    BY DEF LedgerAfter
<1>6. LedgerAfter(L, txs, height) = [i \in 0..Len(txs) |-> Step(LedgerAfter(L, txs, height), i)]
    <2> HIDE DEF Step
    <2> QED BY <1>4, <1>5
<1>7. \A i \in 0..Len(txs) : LedgerAfter(L, txs, height)[i] = Step(LedgerAfter(L, txs, height), i)
    <2> HIDE DEF Step
    <2> DEFINE u == LedgerAfter(L, txs, height)
    <2>1. u = [i \in 0..Len(txs) |-> Step(u, i)]
        BY <1>6
    <2> HIDE DEF u
    <2>2. \A i \in 0..Len(txs) : u[i] = Step(u, i)
        BY <2>1
    <2> QED BY <2>2 DEF u
<1> QED BY <1>6, <1>7

(* The transactions of a block change its outputs as UtxosAfter says, and its indexes. *)
LEMMA ApplyTransactionsFields ==
    ASSUME NEW L, IsLedger(L), NEW txs \in Seq(TxIds),
           L.utxos = [o \in DOMAIN L.utxos |-> L.utxos[o]],
           NEW height, NEW M, M = LedgerAfter(L, txs, height)[Len(txs)]
    PROVE  /\ IsLedger(M)
           /\ M.utxos = UtxosAfter(txs, L.utxos)[Len(txs)]
           /\ \A f \in LedgerFields \ SpentFields : M[f] = L[f]
PROOF
<1> DEFINE n == Len(txs)
           after == LedgerAfter(L, txs, height)
           utxos == UtxosAfter(txs, L.utxos)
           Holds(i) ==
               /\ IsLedger(after[i]) /\ after[i].utxos = utxos[i]
               /\ \A f \in LedgerFields \ SpentFields : after[i][f] = L[f]
               /\ utxos[i] = [o \in DOMAIN utxos[i] |-> utxos[i][o]]
           N == {i \in Nat : i <= n => Holds(i)}
<1>1. n \in Nat /\ \A i \in 1..n : txs[i] \in TxIds
    OBVIOUS
<1>2. after[0] = L /\ \A i \in 1..n : after[i] = ApplyTransactionWithLineage(after[i - 1], txs[i], height)
    BY <1>1, LedgerAfterSteps
<1>3. utxos[0] = L.utxos /\ \A i \in 1..n : utxos[i] = AfterSpending(txs[i], utxos[i - 1])
    BY <1>1, UtxosAfterSteps
<1> HIDE DEF n, after, utxos
<1>4. 0 \in N
    BY <1>2, <1>3
<1>5. ASSUME NEW i \in Nat, i \in N PROVE i + 1 \in N
    <2> SUFFICES ASSUME i + 1 <= n PROVE Holds(i + 1)
        OBVIOUS
    <2> DEFINE k == i + 1
               t == txs[k]
               A == after[i]
               B == after[k]
    <2>1. k \in 1..n /\ k - 1 = i
        BY <1>1
    <2>2. Holds(i)
        BY <1>5, <1>1
    <2> HIDE DEF k
    <2>3. t \in TxIds /\ B = ApplyTransactionWithLineage(A, t, height) /\ utxos[k] = AfterSpending(t, utxos[i])
        BY <1>1, <1>2, <1>3, <2>1
    <2>4. A.utxos = utxos[i] /\ IsLedger(A) /\ \A f \in LedgerFields \ SpentFields : A[f] = L[f]
        BY <2>2
    <2>5. utxos[i] = [o \in DOMAIN utxos[i] |-> utxos[i][o]]
        BY <2>2
    <2>6. A.utxos = [o \in DOMAIN A.utxos |-> A.utxos[o]]
        BY <2>4, <2>5
    <2> HIDE DEF t, A, B
    <2>7. /\ IsLedger(B) /\ B.utxos = AfterSpending(t, A.utxos)
          /\ \A f \in LedgerFields \ SpentFields : B[f] = A[f]
        BY <2>3, <2>4, <2>6, ApplyTransactionFields
    <2>8. utxos[k] = [o \in DOMAIN utxos[k] |-> utxos[k][o]]
        BY <2>3 DEF AfterSpending, Merge
    <2>9. Holds(k)
        BY <2>3, <2>4, <2>7, <2>8 DEF B
    <2> QED BY <2>9 DEF k
<1>6. n \in N
    <2> HIDE DEF N
    <2> QED BY <1>1, <1>4, <1>5, NatSetInduction
<1>7. Holds(n)
    BY <1>1, <1>6
<1> QED BY <1>7 DEF n, after, utxos

(* What a block does to the fields of a ledger. *)
LEMMA TrustedBlockFields ==
    ASSUME NEW L, IsLedger(L), NEW b, Body(b) \in Seq(TxIds),
           L.utxos = [o \in DOMAIN L.utxos |-> L.utxos[o]]
    PROVE  /\ IsLedger(ApplyTrustedBlock(L, b))
           /\ ApplyTrustedBlock(L, b).chain = Append(L.chain, b)
           /\ ApplyTrustedBlock(L, b).pruned = L.pruned
           /\ ApplyTrustedBlock(L, b).mined = L.mined \cup Range(Body(b))
           /\ ApplyTrustedBlock(L, b).tickets =
                ApplyFinalizerTicketEffects(L, b) \o TicketsCreatedByBlock(b)
           /\ ApplyTrustedBlock(L, b).draws = RecordTicketDraw(L, b)
           /\ ApplyTrustedBlock(L, b).utxos =
                Merge(UtxosAfter(Body(b), L.utxos)[Len(Body(b))],
                      RewardOutputs(b, b.reward, OwnersBySlot(BurnCommitteeForBlock(L, b))))
PROOF
<1> DEFINE M == ApplyTransactions(L, b)
           paid == OwnersBySlot(BurnCommitteeForBlock(L, b))
           reward == RewardOutputs(b, b.reward, paid)
           before == UtxosAfter(Body(b), L.utxos)[Len(Body(b))]
           A == WithBlockEffects(L, b, M)
           B == WithWindows(A)
           C == WithNextRounds(B)
<1>1. /\ IsLedger(M) /\ M.utxos = before
      /\ \A f \in LedgerFields \ SpentFields : M[f] = L[f]
    BY ApplyTransactionsFields DEF ApplyTransactions
<1>2. M.chain = L.chain /\ M.pruned = L.pruned /\ M.mined = L.mined
    <2> HIDE DEF M
    <2> QED BY <1>1 DEF LedgerFields, SpentFields
<1> DEFINE binds == Merge(HybridBindings(b), M.binds)
           tickets == ApplyFinalizerTicketEffects(L, b) \o TicketsCreatedByBlock(b)
           utxos == Merge(M.utxos, reward)
           mined == M.mined \cup Range(Body(b))
           draws == RecordTicketDraw(L, b)
           observed == RecordVdfRetargetObservation(L, b)
           chain == Append(M.chain, b)
<1>3. A = [M EXCEPT !.binds = binds, !.tickets = tickets, !.utxos = utxos, !.mined = mined,
                    !.draws = draws, !.observations = observed, !.chain = chain]
    BY DEF WithBlockEffects, CreditRewardOutputs
<1> HIDE DEF M, binds, tickets, utxos, mined, draws, observed, chain, reward
<1>4. DOMAIN M = LedgerFields
    BY <1>1 DEF IsLedger
<1> HIDE DEF A
<1>5. /\ IsLedger(A) /\ A.chain = chain /\ A.pruned = M.pruned /\ A.mined = mined /\ A.utxos = utxos
      /\ A.tickets = tickets /\ A.draws = draws
    BY <1>3, <1>4 DEF IsLedger, LedgerFields
<1>6. B = [A EXCEPT !.windows = UpdateMineDifficultyCache(A)]
    BY DEF WithWindows
<1> HIDE DEF B
<1> DEFINE windows == UpdateMineDifficultyCache(A)
<1>7. B = [A EXCEPT !.windows = windows]
    BY <1>6
<1> HIDE DEF windows
<1>8. DOMAIN A = LedgerFields
    BY <1>5 DEF IsLedger
<1>9. /\ IsLedger(B) /\ B.chain = A.chain /\ B.pruned = A.pruned /\ B.mined = A.mined /\ B.utxos = A.utxos
      /\ B.tickets = A.tickets /\ B.draws = A.draws
    BY <1>7, <1>8 DEF IsLedger, LedgerFields
<1> DEFINE rounds == NextVdfRoundsAfterTip(B)
<1>10. C = [B EXCEPT !.rounds = rounds]
    BY DEF WithNextRounds
<1> HIDE DEF C, rounds
<1>11. DOMAIN B = LedgerFields
    BY <1>9 DEF IsLedger
<1>12. /\ IsLedger(C) /\ C.chain = B.chain /\ C.pruned = B.pruned /\ C.mined = B.mined /\ C.utxos = B.utxos
       /\ C.tickets = B.tickets /\ C.draws = B.draws
    BY <1>10, <1>11 DEF IsLedger, LedgerFields
<1>13. ApplyTrustedBlock(L, b) = C
    BY DEF ApplyTrustedBlock, A, B, C, M
<1> HIDE DEF before
<1> QED BY <1>1, <1>2, <1>5, <1>9, <1>12, <1>13 DEF chain, mined, utxos, reward, before, tickets, draws

-----------------------------------------------------------------------------
(* The chain and its resident part.                                          *)

\* Blocks that follow each other from genesis on.
Chained(blocks) ==
    /\ \E S : blocks \in Seq(S)
    /\ Len(blocks) \in Nat \ {0}
    /\ blocks[1] = Genesis
    /\ \A i \in 1..Len(blocks) :
          /\ blocks[i].hash = i - 1 /\ blocks[i].height = i - 1
          /\ Body(blocks[i]) \in Seq(TxIds) /\ blocks[i].v1 \in Seq(TxIds)

\* A chain that holds the first block and those from position m on.
Suffix(c, blocks, m) ==
    /\ \E S : c \in Seq(S)
    /\ Len(c) = Len(blocks) - m + 2
    /\ c[1] = blocks[1]
    /\ \A j \in 2..Len(c) : c[j] = blocks[m + j - 2]

\* What a ledger holds of the blocks: all, or after pruning the first and at least the
\* last ResidentBlocks of them.
Resident(L, blocks) ==
    /\ L.pruned \in BOOLEAN
    /\ \E m \in 2..(Len(blocks) + 1) :
          /\ Suffix(L.chain, blocks, m)
          /\ IF L.pruned THEN m <= Len(blocks) - ResidentBlocks + 1 ELSE m = 2

\* How long the resident part of a chain is.
LEMMA SuffixLen ==
    ASSUME NEW blocks, Chained(blocks), NEW m \in 2..(Len(blocks) + 1), NEW c, Suffix(c, blocks, m)
    PROVE  /\ Len(blocks) \in Nat \ {0} /\ Len(c) \in Nat \ {0}
           /\ Len(c) = Len(blocks) - m + 2 /\ Len(c) <= Len(blocks)
           /\ m \in Nat
PROOF
<1>1. Len(blocks) \in Nat \ {0} /\ Len(c) = Len(blocks) - m + 2
    BY DEF Chained, Suffix
<1>2. m \in Nat /\ 2 <= m /\ m <= Len(blocks) + 1
    BY <1>1
<1> QED BY <1>1, <1>2

(* The last blocks of a resident chain are those of the whole one. *)
LEMMA LastBlocks ==
    ASSUME NEW blocks, Chained(blocks), NEW L, Resident(L, blocks),
           NEW j \in Nat, j < Len(blocks), L.pruned => j < ResidentBlocks
    PROVE  /\ j < Len(L.chain)
           /\ L.chain[Len(L.chain) - j] = blocks[Len(blocks) - j]
PROOF
<1>1. PICK m \in 2..(Len(blocks) + 1) :
          /\ Suffix(L.chain, blocks, m)
          /\ IF L.pruned THEN m <= Len(blocks) - ResidentBlocks + 1 ELSE m = 2
    BY DEF Resident
<1> DEFINE c == L.chain
           n == Len(blocks)
           k == Len(c)
           i == k - j
<1>2. n \in Nat \ {0} /\ k \in Nat \ {0} /\ k = n - m + 2 /\ k <= n /\ m \in Nat
    BY <1>1, SuffixLen
<1>3. ResidentBlocks \in Nat /\ L.pruned \in BOOLEAN
    BY ChainAssumption DEF Resident
<1>4. c[1] = blocks[1] /\ \A x \in 2..k : c[x] = blocks[m + x - 2]
    BY <1>1 DEF Suffix
<1>5. j < n /\ (L.pruned => j < ResidentBlocks)
    OBVIOUS
<1> HIDE DEF c, n, k
<1>6. CASE L.pruned
    <2>1. m <= n - ResidentBlocks + 1 /\ j < ResidentBlocks
        BY <1>1, <1>5, <1>6 DEF n
    <2>2. j < k /\ i \in 2..k /\ m + i - 2 = n - j
        BY <1>2, <1>3, <2>1
    <2> HIDE DEF i
    <2>3. c[i] = blocks[n - j]
        BY <1>4, <2>2
    <2> QED BY <2>2, <2>3 DEF i, c, k, n
<1>7. CASE ~L.pruned
    <2>1. m = 2
        BY <1>1, <1>7
    <2>2. j < k /\ i \in 1..k /\ m + i - 2 = n - j /\ i = n - j /\ (i = 1 \/ i \in 2..k)
        BY <1>2, <1>5, <2>1
    <2> HIDE DEF i
    <2>3. c[i] = blocks[n - j]
        BY <1>4, <2>2
    <2> QED BY <2>2, <2>3 DEF i, c, k, n
<1> QED BY <1>3, <1>6, <1>7

\* The tip is resident.
LEMMA TipResident ==
    ASSUME NEW blocks, Chained(blocks), NEW L, Resident(L, blocks)
    PROVE  Tip(L) = blocks[Len(blocks)]
PROOF
<1>1. ResidentBlocks \in Nat /\ 0 < ResidentBlocks
    BY ChainAssumption
<1>2. 0 < Len(blocks) /\ Len(blocks) \in Nat
    BY DEF Chained
<1>3. 0 < Len(L.chain) /\ L.chain[Len(L.chain) - 0] = blocks[Len(blocks) - 0]
    BY <1>1, <1>2, LastBlocks
<1>4. PICK m \in 2..(Len(blocks) + 1) : Suffix(L.chain, blocks, m)
    BY DEF Resident
<1>5. Len(L.chain) \in Nat
    BY <1>4, SuffixLen
<1>6. Len(L.chain) - 0 = Len(L.chain) /\ Len(blocks) - 0 = Len(blocks)
    BY <1>2, <1>5
<1> QED BY <1>3, <1>6 DEF Tip

(* An unpruned chain is the whole one. *)
LEMMA WholeChain ==
    ASSUME NEW blocks, Chained(blocks), NEW L, Resident(L, blocks), ~L.pruned
    PROVE  L.chain = blocks
PROOF
<1> DEFINE c == L.chain
           n == Len(blocks)
<1>1. PICK m \in 2..(Len(blocks) + 1) : Suffix(c, blocks, m) /\ m = 2
    BY DEF Resident
<1>2. Len(c) = n /\ n \in Nat \ {0}
    BY <1>1, SuffixLen
<1>3. c[1] = blocks[1] /\ \A x \in 2..n : c[x] = blocks[m + x - 2]
    BY <1>1, <1>2 DEF Suffix
<1>4. \A x \in 1..n : c[x] = blocks[x]
    <2> SUFFICES ASSUME NEW x \in 1..n PROVE c[x] = blocks[x]
        OBVIOUS
    <2>1. x = 1 \/ (x \in 2..n /\ m + x - 2 = x)
        BY <1>1, <1>2
    <2> QED BY <1>3, <2>1
<1>5. PICK S : c \in Seq(S)
    BY <1>1 DEF Suffix
<1>6. PICK T : blocks \in Seq(T)
    BY DEF Chained
<1> DEFINE U == S \cup T
<1>7. c \in Seq(U) /\ blocks \in Seq(U)
    BY <1>5, <1>6, SeqMonotonic
<1> HIDE DEF U, c, n
<1>8. c = blocks
    BY <1>2, <1>4, <1>7, SeqEqual DEF n
<1> QED BY <1>8 DEF c

(* A block on the tip is resident. *)
LEMMA ResidentAppend ==
    ASSUME NEW blocks, Chained(blocks), NEW L, Resident(L, blocks), NEW b, NEW M,
           M.chain = Append(L.chain, b), M.pruned = L.pruned
    PROVE  Resident(M, Append(blocks, b))
PROOF
<1>1. PICK m \in 2..(Len(blocks) + 1) :
          /\ Suffix(L.chain, blocks, m)
          /\ IF L.pruned THEN m <= Len(blocks) - ResidentBlocks + 1 ELSE m = 2
    BY DEF Resident
<1> DEFINE c == L.chain
           d == Append(c, b)
           n == Len(blocks)
           k == Len(c)
           more == Append(blocks, b)
<1>2. n \in Nat \ {0} /\ k \in Nat \ {0} /\ k = n - m + 2 /\ k <= n /\ m \in Nat
    BY <1>1, SuffixLen
<1>3. c[1] = blocks[1] /\ \A x \in 2..k : c[x] = blocks[m + x - 2]
    BY <1>1 DEF Suffix
<1>4. PICK S : c \in Seq(S)
    BY <1>1 DEF Suffix
<1>5. PICK T : blocks \in Seq(T)
    BY DEF Chained
<1> DEFINE U == (S \cup T) \cup {b}
<1>6. c \in Seq(U) /\ blocks \in Seq(U) /\ b \in U
    BY <1>4, <1>5, SeqMonotonic
<1> HIDE DEF U
<1>7. d \in Seq(U) /\ Len(d) = k + 1 /\ (\A x \in 1..k : d[x] = c[x]) /\ d[k + 1] = b
    BY <1>6
<1>8. more \in Seq(U) /\ Len(more) = n + 1 /\ (\A x \in 1..n : more[x] = blocks[x]) /\ more[n + 1] = b
    BY <1>6
<1> HIDE DEF c, d, n, k, more
<1>9. \A x \in 2..(k + 1) : d[x] = more[m + x - 2]
    <2> SUFFICES ASSUME NEW x \in 2..(k + 1) PROVE d[x] = more[m + x - 2]
        OBVIOUS
    <2>1. CASE x = k + 1
        <3>1. m + x - 2 = n + 1
            BY <1>2, <2>1
        <3> QED BY <1>7, <1>8, <2>1, <3>1
    <2>2. CASE x # k + 1
        <3>1. x \in 2..k /\ x \in 1..k /\ m + x - 2 \in 1..n
            BY <1>2, <2>2
        <3> QED BY <1>3, <1>7, <1>8, <3>1
    <2> QED BY <2>1, <2>2
<1>10. d[1] = more[1]
    BY <1>2, <1>3, <1>7, <1>8
<1>11. Len(d) = Len(more) - m + 2
    BY <1>2, <1>7, <1>8
<1>12. Suffix(d, more, m)
    BY <1>7, <1>9, <1>10, <1>11 DEF Suffix
<1>13. ResidentBlocks \in Nat /\ L.pruned \in BOOLEAN
    BY ChainAssumption DEF Resident
<1>14. m \in 2..(Len(more) + 1) /\ IF L.pruned THEN m <= Len(more) - ResidentBlocks + 1 ELSE m = 2
    BY <1>1, <1>2, <1>8, <1>13 DEF n
<1>15. M.chain = d /\ M.pruned = L.pruned
    BY DEF d, c
<1>16. Resident(M, more)
    BY <1>12, <1>13, <1>14, <1>15 DEF Resident
<1> QED BY <1>16 DEF more

(* Pruning keeps enough blocks. *)
LEMMA ResidentPrune ==
    ASSUME NEW blocks, Chained(blocks), NEW L, IsLedger(L), Resident(L, blocks),
           NEW M, M = RetainRecentChainBlocks(L, ResidentBlocks)
    PROVE  /\ Resident(M, blocks) /\ IsLedger(M)
           /\ \A f \in LedgerFields \ {"chain", "pruned"} : M[f] = L[f]
PROOF
<1> DEFINE c == L.chain
           n == Len(blocks)
           k == Len(c)
           r == ResidentBlocks
<1>1. PICK m \in 2..(Len(blocks) + 1) :
          /\ Suffix(c, blocks, m)
          /\ IF L.pruned THEN m <= Len(blocks) - ResidentBlocks + 1 ELSE m = 2
    BY DEF Resident
<1>2. n \in Nat \ {0} /\ k \in Nat \ {0} /\ k = n - m + 2 /\ k <= n /\ m \in Nat
    BY <1>1, SuffixLen
<1>3. r \in Nat \ {0}
    BY ChainAssumption
<1>4. CASE k <= r + 1
    <2>1. M = L
        BY <1>4 DEF RetainRecentChainBlocks
    <2> QED BY <2>1
<1>5. CASE ~(k <= r + 1)
    <2> DEFINE d == <<Head(c)>> \o SubSeq(c, k - r + 1, k)
               p == n - r + 1
               t == TRUE
    <2>1. M = [L EXCEPT !.chain = d, !.pruned = t]
        BY <1>5 DEF RetainRecentChainBlocks
    <2>2. c[1] = blocks[1] /\ \A x \in 2..k : c[x] = blocks[m + x - 2]
        BY <1>1 DEF Suffix
    <2>3. PICK S : c \in Seq(S)
        BY <1>1 DEF Suffix
    <2> HIDE DEF c, n, k, r
    <2>4. k - r + 1 \in 1..k /\ k \in Nat /\ k - r >= 2
        BY <1>2, <1>3, <1>5
    <2> DEFINE s == SubSeq(c, k - r + 1, k)
               h == <<Head(c)>>
    <2>5. s \in Seq(S) /\ Len(s) = r /\ \A x \in 1..r : s[x] = c[k - r + x]
        <3>1. \A x \in (k - r + 1)..k : c[x] \in S
            BY <1>2, <2>3, <2>4 DEF k
        <3>2. k - r + 1 \in Int /\ k \in Int
            BY <1>2, <2>4
        <3> DEFINE from == k - r + 1
        <3>3. from \in Int /\ \A x \in from..k : c[x] \in S
            BY <3>1, <3>2
        <3>4. from <= k /\ k - from + 1 = r /\ \A x \in 1..r : from + x - 1 = k - r + x
            BY <1>2, <1>3, <2>4
        <3> HIDE DEF from
        <3>5. /\ SubSeq(c, from, k) \in Seq(S)
              /\ Len(SubSeq(c, from, k)) = IF from <= k THEN k - from + 1 ELSE 0
              /\ \A i \in 1..(k - from + 1) : SubSeq(c, from, k)[i] = c[from + i - 1]
            BY <3>2, <3>3, SubSeqProperties
        <3> QED BY <3>4, <3>5 DEF from
    <2>6. h \in Seq(S) /\ Len(h) = 1 /\ h[1] = c[1]
        BY <1>2, <2>3 DEF k
    <2> HIDE DEF s, h
    <2>7. /\ h \o s \in Seq(S) /\ Len(h \o s) = r + 1
          /\ \A i \in 1..(r + 1) : (h \o s)[i] = IF i <= 1 THEN h[i] ELSE s[i - 1]
        <3>1. /\ h \o s \in Seq(S) /\ Len(h \o s) = Len(h) + Len(s)
              /\ \A i \in 1..(Len(h) + Len(s)) : (h \o s)[i] = IF i <= Len(h) THEN h[i] ELSE s[i - Len(h)]
            BY <2>5, <2>6, ConcatProperties
        <3>2. Len(h) + Len(s) = r + 1
            BY <1>3, <2>5, <2>6
        <3> QED BY <2>5, <2>6, <3>1, <3>2
    <2>8. d = h \o s
        BY DEF h, s
    <2> HIDE DEF d, p
    <2>9. d[1] = blocks[1]
        <3>1. 1 \in 1..(r + 1) /\ 1 <= 1
            BY <1>3
        <3> QED BY <2>2, <2>6, <2>7, <2>8, <3>1
    <2>10. \A x \in 2..(r + 1) : d[x] = blocks[p + x - 2]
        <3> SUFFICES ASSUME NEW x \in 2..(r + 1) PROVE d[x] = blocks[p + x - 2]
            OBVIOUS
        <3>1. x \in 1..(r + 1) /\ ~(x <= 1) /\ x - 1 \in 1..r
            BY <1>3
        <3> DEFINE y == k - r + (x - 1)
        <3>2. d[x] = c[y]
            BY <2>5, <2>7, <2>8, <3>1
        <3>3. y \in 2..k /\ m + y - 2 = p + x - 2
            BY <1>2, <1>3, <2>4, <3>1 DEF p
        <3> HIDE DEF y
        <3> QED BY <2>2, <3>2, <3>3
    <2>11. p \in 2..(n + 1) /\ Len(d) = n - p + 2 /\ p <= n - r + 1
        BY <1>2, <1>3, <2>4, <2>7, <2>8 DEF p
    <2>12. Suffix(d, blocks, p)
        <3>1. Len(d) = r + 1
            BY <2>7, <2>8
        <3> QED BY <2>7, <2>8, <2>9, <2>10, <2>11, <3>1 DEF Suffix, n
    <2>13. DOMAIN L = LedgerFields
        BY DEF IsLedger
    <2>14. t = TRUE
        OBVIOUS
    <2> HIDE DEF t
    <2>15. /\ IsLedger(M) /\ M.chain = d /\ M.pruned = t
           /\ \A f \in LedgerFields \ {"chain", "pruned"} : M[f] = L[f]
        BY <2>1, <2>13 DEF IsLedger, LedgerFields
    <2>16. Resident(M, blocks)
        <3>1. M.pruned = TRUE /\ M.chain = d
            BY <2>14, <2>15
        <3> QED BY <2>11, <2>12, <3>1 DEF Resident, n, r
    <2> QED BY <2>15, <2>16
<1> QED BY <1>4, <1>5

-----------------------------------------------------------------------------
(* Replaying blocks.                                                         *)

(* Blocks are applied one after the other. *)
LEMMA LedgersFromSteps ==
    ASSUME NEW L, NEW blocks, Len(blocks) \in Nat
    PROVE  /\ LedgersFrom(L, blocks)[0] = L
           /\ \A i \in 1..Len(blocks) : LedgersFrom(L, blocks)[i] = ApplyTrustedBlock(LedgersFrom(L, blocks)[i - 1], blocks[i])
           /\ LedgersFrom(L, blocks) = [i \in 0..Len(blocks) |-> LedgersFrom(L, blocks)[i]]
PROOF
<1> DEFINE Step(g, i) == IF i = 0 THEN L ELSE ApplyTrustedBlock(g[i - 1], blocks[i])
           N == {m \in Nat : \E g : g = [i \in 0..m |-> Step(g, i)]}
<1>1. 0 \in N
    <2> DEFINE g == [i \in 0..0 |-> L]
    <2>1. \A i \in 0..0 : Step(g, i) = L
        OBVIOUS
    <2> HIDE DEF Step
    <2>2. g = [i \in 0..0 |-> Step(g, i)]
        BY <2>1
    <2> HIDE DEF g
    <2> QED BY <2>2
<1>2. ASSUME NEW m \in Nat, m \in N PROVE m + 1 \in N
    <2>1. PICK g : g = [i \in 0..m |-> Step(g, i)]
        BY <1>2
    <2> DEFINE h == [i \in 0..(m + 1) |-> Step(g, i)]
    <2>2. ASSUME NEW i \in 0..(m + 1) PROVE h[i] = Step(h, i)
        <3>1. CASE i = 0
            BY <3>1
        <3>2. CASE i # 0
            <4>1. i - 1 \in 0..m /\ i - 1 \in 0..(m + 1)
                BY <3>2
            <4>2. g[i - 1] = Step(g, i - 1) /\ h[i - 1] = Step(g, i - 1)
                <5> HIDE DEF Step
                <5> QED BY <2>1, <4>1
            <4>3. h[i] = Step(g, i)
                <5> HIDE DEF Step
                <5> QED OBVIOUS
            <4>4. g[i - 1] = h[i - 1]
                <5> HIDE DEF Step, h
                <5> QED BY <4>2
            <4> HIDE DEF h
            <4> QED BY <3>2, <4>3, <4>4
        <3> QED BY <3>1, <3>2
    <2>3. h = [i \in 0..(m + 1) |-> h[i]]
        OBVIOUS
    <2> HIDE DEF Step, h
    <2>4. h = [i \in 0..(m + 1) |-> Step(h, i)]
        BY <2>2, <2>3
    <2> QED BY <2>4
<1>3. Len(blocks) \in N
    <2> HIDE DEF N
    <2> QED BY <1>1, <1>2, NatSetInduction
<1>4. PICK g : g = [i \in 0..Len(blocks) |-> Step(g, i)]
    <2> HIDE DEF Step
    <2> QED BY <1>3
<1>5. LedgersFrom(L, blocks) = CHOOSE f : f = [i \in 0..Len(blocks) |-> Step(f, i)]
    BY DEF LedgersFrom
<1>6. LedgersFrom(L, blocks) = [i \in 0..Len(blocks) |-> Step(LedgersFrom(L, blocks), i)]
    <2> HIDE DEF Step
    <2> QED BY <1>4, <1>5
<1>7. \A i \in 0..Len(blocks) : LedgersFrom(L, blocks)[i] = Step(LedgersFrom(L, blocks), i)
    <2> HIDE DEF Step
    <2> DEFINE u == LedgersFrom(L, blocks)
    <2>1. u = [i \in 0..Len(blocks) |-> Step(u, i)]
        BY <1>6
    <2> HIDE DEF u
    <2>2. \A i \in 0..Len(blocks) : u[i] = Step(u, i)
        BY <2>1
    <2> QED BY <2>2 DEF u
<1> QED BY <1>6, <1>7

\* The shape of a ledger that blocks are applied to.
Shaped(L) == IsLedger(L) /\ L.utxos = [o \in DOMAIN L.utxos |-> L.utxos[o]]

\* A block keeps the shape of the ledger and joins its chain.
LEMMA ShapedBlock ==
    ASSUME NEW L, Shaped(L), NEW b, Body(b) \in Seq(TxIds)
    PROVE  /\ Shaped(ApplyTrustedBlock(L, b))
           /\ ApplyTrustedBlock(L, b).chain = Append(L.chain, b)
           /\ ApplyTrustedBlock(L, b).pruned = L.pruned
PROOF
<1> DEFINE M == ApplyTrustedBlock(L, b)
           u == UtxosAfter(Body(b), L.utxos)[Len(Body(b))]
           r == RewardOutputs(b, b.reward, OwnersBySlot(BurnCommitteeForBlock(L, b)))
<1>1. /\ IsLedger(M) /\ M.chain = Append(L.chain, b) /\ M.pruned = L.pruned
      /\ M.utxos = Merge(u, r)
    BY TrustedBlockFields DEF Shaped
<1> HIDE DEF M, u, r
<1>2. Merge(u, r) = [o \in DOMAIN Merge(u, r) |-> Merge(u, r)[o]]
    BY DEF Merge
<1> DEFINE w == Merge(u, r)
<1>3. w = [o \in DOMAIN w |-> w[o]] /\ M.utxos = w
    BY <1>1, <1>2
<1> HIDE DEF w
<1>4. Shaped(M)
    BY <1>1, <1>3 DEF Shaped
<1> QED BY <1>1, <1>4 DEF M

\* The blocks hold known transactions.
BodiesFit(blocks) == \A i \in 1..Len(blocks) : Body(blocks[i]) \in Seq(TxIds)

\* The ledger M is L with the blocks at the end of its chain.
Joined(M, L, blocks, S) ==
    /\ Shaped(M) /\ M.pruned = L.pruned
    /\ M.chain \in Seq(S)
    /\ Len(M.chain) = Len(L.chain) + Len(blocks)
    /\ \A j \in 1..Len(L.chain) : M.chain[j] = L.chain[j]
    /\ \A j \in 1..Len(blocks) : M.chain[Len(L.chain) + j] = blocks[j]

(* Replayed blocks join the chain in order. *)
LEMMA ReplayChain ==
    ASSUME NEW L, Shaped(L), NEW S, L.chain \in Seq(S), NEW blocks \in Seq(S), BodiesFit(blocks)
    PROVE  Joined(ReplayOnto(L, blocks), L, blocks, S)
PROOF
<1> DEFINE n == Len(blocks)
           k == Len(L.chain)
           after == LedgersFrom(L, blocks)
           Holds(i) ==
               /\ Shaped(after[i]) /\ after[i].pruned = L.pruned
               /\ after[i].chain \in Seq(S) /\ Len(after[i].chain) = k + i
               /\ \A j \in 1..k : after[i].chain[j] = L.chain[j]
               /\ \A j \in 1..i : after[i].chain[k + j] = blocks[j]
           N == {i \in Nat : i <= n => Holds(i)}
<1>1. n \in Nat /\ k \in Nat /\ \A i \in 1..n : blocks[i] \in S /\ Body(blocks[i]) \in Seq(TxIds)
    BY DEF BodiesFit
<1>2. after[0] = L /\ \A i \in 1..n : after[i] = ApplyTrustedBlock(after[i - 1], blocks[i])
    BY <1>1, LedgersFromSteps
<1> HIDE DEF n, after
<1>3. 0 \in N
    <2>1. Holds(0)
        BY <1>1, <1>2
    <2> QED BY <2>1
<1> HIDE DEF k
<1>4. ASSUME NEW i \in Nat, i \in N PROVE i + 1 \in N
    <2> SUFFICES ASSUME i + 1 <= n PROVE Holds(i + 1)
        OBVIOUS
    <2> DEFINE x == i + 1
               A == after[i]
               B == after[x]
               b == blocks[x]
    <2>1. x \in 1..n /\ x - 1 = i /\ i <= n
        BY <1>1
    <2>2. Holds(i)
        BY <1>4, <2>1
    <2>3. /\ Shaped(A) /\ A.pruned = L.pruned
          /\ A.chain \in Seq(S) /\ Len(A.chain) = k + i
          /\ \A j \in 1..k : A.chain[j] = L.chain[j]
          /\ \A j \in 1..i : A.chain[k + j] = blocks[j]
        BY <2>2
    <2> HIDE DEF x
    <2>4. B = ApplyTrustedBlock(A, b) /\ b \in S /\ Body(b) \in Seq(TxIds)
        BY <1>1, <1>2, <2>1
    <2> HIDE DEF A, B, b
    <2>5. Shaped(B) /\ B.chain = Append(A.chain, b) /\ B.pruned = A.pruned
        BY <2>3, <2>4, ShapedBlock
    <2> DEFINE a == A.chain
               c == B.chain
    <2>6. a \in Seq(S) /\ Len(a) = k + i /\ c = Append(a, b)
        BY <2>3, <2>5
    <2> HIDE DEF a, c
    <2>7. c \in Seq(S) /\ Len(c) = k + i + 1 /\ (\A j \in 1..(k + i) : c[j] = a[j]) /\ c[k + i + 1] = b
        BY <1>1, <2>4, <2>6
    <2>8. \A j \in 1..k : c[j] = L.chain[j]
        <3> SUFFICES ASSUME NEW j \in 1..k PROVE c[j] = L.chain[j]
            OBVIOUS
        <3>1. j \in 1..(k + i)
            BY <1>1
        <3> QED BY <2>3, <2>7, <3>1 DEF a
    <2>9. \A j \in 1..x : c[k + j] = blocks[j]
        <3> SUFFICES ASSUME NEW j \in 1..x PROVE c[k + j] = blocks[j]
            OBVIOUS
        <3>1. CASE j = x
            <4>1. k + j = k + i + 1
                BY <1>1, <2>1, <3>1
            <4> QED BY <2>7, <3>1, <4>1 DEF b
        <3>2. CASE j # x
            <4>1. j \in 1..i /\ k + j \in 1..(k + i)
                BY <1>1, <2>1, <3>2 DEF x
            <4>2. a[k + j] = blocks[j]
                BY <2>3, <4>1 DEF a
            <4> QED BY <2>7, <4>1, <4>2
        <3> QED BY <3>1, <3>2
    <2>10. Len(c) = k + x
        BY <1>1, <2>7 DEF x
    <2>11. Holds(x)
        BY <2>3, <2>5, <2>7, <2>8, <2>9, <2>10 DEF B, c
    <2> QED BY <2>11 DEF x
<1>5. n \in N
    <2> HIDE DEF N
    <2> QED BY <1>1, <1>3, <1>4, NatSetInduction
<1>6. Holds(n)
    BY <1>1, <1>5
<1> QED BY <1>6 DEF Joined, ReplayOnto, n, k, after

(* One block more is one step more. *)
LEMMA ReplayOntoAppend ==
    ASSUME NEW L, NEW S, NEW blocks \in Seq(S), NEW b \in S
    PROVE  ReplayOnto(L, Append(blocks, b)) = ApplyTrustedBlock(ReplayOnto(L, blocks), b)
PROOF
<1> DEFINE more == Append(blocks, b)
           n == Len(blocks)
           f == LedgersFrom(L, blocks)
           g == LedgersFrom(L, more)
           N == {i \in Nat : i <= n => g[i] = f[i]}
<1>1. n \in Nat /\ Len(more) = n + 1 /\ (\A i \in 1..n : more[i] = blocks[i]) /\ more[n + 1] = b
    OBVIOUS
<1>2. f[0] = L /\ \A i \in 1..n : f[i] = ApplyTrustedBlock(f[i - 1], blocks[i])
    BY <1>1, LedgersFromSteps
<1>3. g[0] = L /\ \A i \in 1..(n + 1) : g[i] = ApplyTrustedBlock(g[i - 1], more[i])
    <2> HIDE DEF more
    <2>1. Len(more) \in Nat
        BY <1>1
    <2> QED BY <1>1, <2>1, LedgersFromSteps
<1> HIDE DEF more, f, g, n
<1>4. 0 \in N
    BY <1>2, <1>3
<1>5. ASSUME NEW i \in Nat, i \in N PROVE i + 1 \in N
    <2> SUFFICES ASSUME i + 1 <= n PROVE g[i + 1] = f[i + 1]
        OBVIOUS
    <2> DEFINE x == i + 1
    <2>1. x \in 1..n /\ x \in 1..(n + 1) /\ x - 1 = i /\ i <= n
        BY <1>1
    <2>2. g[i] = f[i]
        BY <1>5, <2>1
    <2> HIDE DEF x
    <2>3. g[x] = f[x]
        BY <1>1, <1>2, <1>3, <2>1, <2>2
    <2> QED BY <2>3 DEF x
<1>6. n \in N
    <2> HIDE DEF N
    <2> QED BY <1>1, <1>4, <1>5, NatSetInduction
<1>7. g[n] = f[n]
    BY <1>1, <1>6
<1>8. g[n + 1] = ApplyTrustedBlock(g[n], b)
    <2>1. n + 1 \in 1..(n + 1) /\ n + 1 - 1 = n
        BY <1>1
    <2> QED BY <1>1, <1>3, <2>1
<1>9. ReplayOnto(L, more) = g[n + 1] /\ ReplayOnto(L, blocks) = f[n]
    BY <1>1 DEF ReplayOnto, g, f, n
<1> QED BY <1>7, <1>8, <1>9 DEF more

(* The blocks after the genesis. *)
LEMMA ChainedTail ==
    ASSUME NEW blocks, Chained(blocks), NEW S, blocks \in Seq(S)
    PROVE  /\ Tail(blocks) \in Seq(S)
           /\ Len(Tail(blocks)) = Len(blocks) - 1
           /\ \A i \in 1..(Len(blocks) - 1) : Tail(blocks)[i] = blocks[i + 1]
PROOF
<1>1. blocks # << >> /\ Len(blocks) \in Nat \ {0}
    BY DEF Chained
<1> QED BY <1>1, HeadTailProperties

\* A block on the last one.
LEMMA ChainedAppend ==
    ASSUME NEW blocks, Chained(blocks), NEW b, b.hash = Len(blocks), b.height = Len(blocks),
           Body(b) \in Seq(TxIds), b.v1 \in Seq(TxIds)
    PROVE  Chained(Append(blocks, b))
PROOF
<1>1. PICK T : blocks \in Seq(T)
    BY DEF Chained
<1> DEFINE U == T \cup {b}
           n == Len(blocks)
           more == Append(blocks, b)
<1>2. blocks \in Seq(U) /\ b \in U
    BY <1>1, SeqMonotonic
<1> HIDE DEF U
<1>3. more \in Seq(U) /\ Len(more) = n + 1 /\ (\A x \in 1..n : more[x] = blocks[x]) /\ more[n + 1] = b
    BY <1>2
<1>4. n \in Nat \ {0} /\ blocks[1] = Genesis
    BY DEF Chained
<1>5. \A i \in 1..n :
          /\ blocks[i].hash = i - 1 /\ blocks[i].height = i - 1
          /\ Body(blocks[i]) \in Seq(TxIds) /\ blocks[i].v1 \in Seq(TxIds)
    BY DEF Chained
<1>6. b.hash = n /\ b.height = n
    OBVIOUS
<1> HIDE DEF n, more
<1>7. ASSUME NEW i \in 1..(n + 1)
      PROVE  /\ more[i].hash = i - 1 /\ more[i].height = i - 1
             /\ Body(more[i]) \in Seq(TxIds) /\ more[i].v1 \in Seq(TxIds)
    <2>1. CASE i = n + 1
        <3>1. i - 1 = n /\ more[i] = b
            BY <1>3, <1>4, <2>1
        <3> QED BY <1>6, <3>1
    <2>2. CASE i # n + 1
        <3>1. i \in 1..n
            BY <1>4, <2>2
        <3>2. more[i] = blocks[i]
            BY <1>3, <3>1
        <3> QED BY <1>5, <3>1, <3>2
    <2> QED BY <2>1, <2>2
<1>8. more[1] = Genesis /\ Len(more) \in Nat \ {0}
    <2>1. 1 \in 1..n
        BY <1>4
    <2> QED BY <1>3, <1>4, <2>1
<1>9. Chained(more)
    BY <1>3, <1>7, <1>8 DEF Chained
<1> QED BY <1>9 DEF more

\* The first blocks of a chain.
LEMMA ChainedPrefix ==
    ASSUME NEW blocks, Chained(blocks), NEW k \in 1..Len(blocks)
    PROVE  /\ Chained(SubSeq(blocks, 1, k)) /\ Len(SubSeq(blocks, 1, k)) = k
           /\ \A i \in 1..k : SubSeq(blocks, 1, k)[i] = blocks[i]
PROOF
<1>1. PICK T : blocks \in Seq(T)
    BY DEF Chained
<1> DEFINE p == SubSeq(blocks, 1, k)
           n == Len(blocks)
<1>2. n \in Nat \ {0} /\ blocks[1] = Genesis
    BY DEF Chained
<1>3. k \in Nat /\ 1 <= k /\ k <= n
    BY <1>2
<1>4. \A i \in 1..k : blocks[i] \in T
    BY <1>1, <1>3
<1>5. p \in Seq(T) /\ Len(p) = k /\ \A i \in 1..k : p[i] = blocks[i]
    <2>1. 1 \in Int /\ k \in Int
        BY <1>3
    <2>2. /\ p \in Seq(T) /\ Len(p) = (IF 1 <= k THEN k - 1 + 1 ELSE 0)
          /\ \A i \in 1..(k - 1 + 1) : p[i] = blocks[1 + i - 1]
        BY <1>4, <2>1, SubSeqProperties
    <2>3. k - 1 + 1 = k /\ \A i \in 1..k : 1 + i - 1 = i
        BY <1>3
    <2> HIDE DEF p
    <2> QED BY <1>3, <2>2, <2>3
<1>6. \A i \in 1..n :
          /\ blocks[i].hash = i - 1 /\ blocks[i].height = i - 1
          /\ Body(blocks[i]) \in Seq(TxIds) /\ blocks[i].v1 \in Seq(TxIds)
    BY DEF Chained
<1> HIDE DEF p, n
<1>7. \A i \in 1..k : i \in 1..n
    BY <1>2, <1>3
<1>8. Chained(p)
    <2>1. 1 \in 1..k
        BY <1>3
    <2>2. \A i \in 1..k :
          /\ p[i].hash = i - 1 /\ p[i].height = i - 1
          /\ Body(p[i]) \in Seq(TxIds) /\ p[i].v1 \in Seq(TxIds)
        BY <1>5, <1>6, <1>7
    <2>3. p[1] = Genesis /\ Len(p) = k /\ k \in Nat \ {0}
        BY <1>2, <1>3, <1>5, <2>1
    <2> QED BY <1>5, <2>2, <2>3 DEF Chained
<1> QED BY <1>5, <1>8 DEF p

\* The ledger of the genesis has the shape of a ledger.
LEMMA GenesisShaped ==
    /\ Shaped(GenesisLedger)
    /\ GenesisLedger.chain = <<Genesis>> /\ GenesisLedger.pruned = FALSE
    /\ GenesisLedger.utxos = UtxosAfterGenesis /\ GenesisLedger.mined = {}
PROOF
<1> DEFINE chain == <<Genesis>>
           utxos == UtxosAfterGenesis
           none == << >>
           tickets == GenesisTickets
           mined == {}
           windows == <<InitialBits>>
           pruned == FALSE
<1>1. GenesisLedger =
        [chain |-> chain, utxos |-> utxos, lineage |-> none, values |-> none,
         owners |-> none, binds |-> none, tickets |-> tickets, mined |-> mined,
         windows |-> windows, observations |-> none, rounds |-> InitialRounds,
         draws |-> none, pruned |-> pruned]
    BY DEF GenesisLedger
<1>2. utxos = [o \in DOMAIN utxos |-> utxos[o]]
    BY DEF UtxosAfterGenesis, CreditRewardOutputs, Merge
<1> DEFINE L == GenesisLedger
<1> HIDE DEF chain, utxos, none, tickets, mined, windows, pruned, L
<1>3. L = [chain |-> chain, utxos |-> utxos, lineage |-> none, values |-> none,
         owners |-> none, binds |-> none, tickets |-> tickets, mined |-> mined,
         windows |-> windows, observations |-> none, rounds |-> InitialRounds,
         draws |-> none, pruned |-> pruned]
    BY <1>1 DEF L
<1>4. L.chain = chain /\ L.utxos = utxos /\ L.mined = mined /\ L.pruned = pruned
    BY <1>3
<1>5. IsLedger(L)
    <2>1. DOMAIN L = LedgerFields
        BY <1>3 DEF LedgerFields
    <2>2. L = [f \in DOMAIN L |-> L[f]]
        BY <1>3
    <2> QED BY <2>1, <2>2 DEF IsLedger
<1>6. Shaped(L)
    BY <1>2, <1>4, <1>5 DEF Shaped
<1> QED BY <1>4, <1>6 DEF L, chain, utxos, mined, pruned

\* The chain of the genesis.
LEMMA GenesisChained == Chained(<<Genesis>>)
PROOF
<1> DEFINE g == Genesis
           c == <<g>>
<1>1. g.hash = 0 /\ g.height = 0 /\ Body(g) = << >> \o << >> /\ g.v1 = << >>
    BY DEF Genesis, Body
<1>2. << >> \o << >> \in Seq(TxIds) /\ << >> \in Seq(TxIds)
    OBVIOUS
<1> HIDE DEF g
<1>3. c \in Seq({g}) /\ Len(c) = 1 /\ c[1] = g
    OBVIOUS
<1> HIDE DEF c
<1>4. \A i \in 1..1 :
          /\ c[i].hash = i - 1 /\ c[i].height = i - 1
          /\ Body(c[i]) \in Seq(TxIds) /\ c[i].v1 \in Seq(TxIds)
    <2>1. \A i \in 1..1 : i = 1
        OBVIOUS
    <2>2. /\ c[1].hash = 1 - 1 /\ c[1].height = 1 - 1
          /\ Body(c[1]) \in Seq(TxIds) /\ c[1].v1 \in Seq(TxIds)
        <3>1. c[1].hash = 0 /\ c[1].height = 0 /\ 1 - 1 = 0
            BY <1>1, <1>3
        <3>2. Body(c[1]) \in Seq(TxIds) /\ c[1].v1 \in Seq(TxIds)
            BY <1>1, <1>2, <1>3
        <3> QED BY <3>1, <3>2
    <2> QED BY <2>1, <2>2
<1>5. Chained(c)
    BY <1>3, <1>4 DEF Chained, g
<1> QED BY <1>5 DEF c, g

(* A restart rebuilds a ledger that holds every block. *)
LEMMA ReplayWhole ==
    ASSUME NEW blocks, Chained(blocks)
    PROVE  /\ Shaped(Replay(blocks))
           /\ Replay(blocks).chain = blocks /\ Replay(blocks).pruned = FALSE
PROOF
<1>1. PICK S : blocks \in Seq(S)
    BY DEF Chained
<1> DEFINE tail == Tail(blocks)
           n == Len(blocks)
           L == GenesisLedger
           R == ReplayOnto(L, tail)
           c == R.chain
<1>2. tail \in Seq(S) /\ Len(tail) = n - 1 /\ \A i \in 1..(n - 1) : tail[i] = blocks[i + 1]
    BY <1>1, ChainedTail
<1>3. n \in Nat \ {0} /\ blocks[1] = Genesis
    BY DEF Chained
<1>4. Shaped(L) /\ L.chain = <<Genesis>> /\ L.pruned = FALSE
    BY GenesisShaped
<1>5. Genesis \in S
    <2>1. 1 \in 1..n /\ blocks[1] \in S
        BY <1>1, <1>3
    <2> QED BY <1>3, <2>1
<1>6. L.chain \in Seq(S) /\ Len(L.chain) = 1 /\ L.chain[1] = Genesis
    BY <1>4, <1>5
<1>7. \A i \in 1..n : Body(blocks[i]) \in Seq(TxIds)
    BY DEF Chained
<1> HIDE DEF L, tail, n
<1>8. BodiesFit(tail)
    <2> SUFFICES ASSUME NEW i \in 1..Len(tail) PROVE Body(tail[i]) \in Seq(TxIds)
        BY DEF BodiesFit
    <2>1. i + 1 \in 1..n /\ tail[i] = blocks[i + 1]
        BY <1>2, <1>3
    <2> QED BY <1>7, <2>1
<1>9. /\ Shaped(R) /\ R.pruned = L.pruned /\ R.chain \in Seq(S)
      /\ Len(R.chain) = Len(L.chain) + Len(tail)
      /\ \A j \in 1..Len(L.chain) : R.chain[j] = L.chain[j]
      /\ \A j \in 1..Len(tail) : R.chain[Len(L.chain) + j] = tail[j]
    <2>1. L.chain \in Seq(S)
        BY <1>6
    <2>2. Joined(R, L, tail, S)
        BY <1>2, <1>4, <1>8, <2>1, ReplayChain
    <2> HIDE DEF R
    <2> QED BY <2>2 DEF Joined
<1> HIDE DEF R
<1>10. c \in Seq(S) /\ Len(c) = n
    BY <1>2, <1>3, <1>6, <1>9
<1>11. \A j \in 1..n : c[j] = blocks[j]
    <2> SUFFICES ASSUME NEW j \in 1..n PROVE c[j] = blocks[j]
        OBVIOUS
    <2>1. CASE j = 1
        <3>1. 1 \in 1..Len(L.chain)
            BY <1>6
        <3> QED BY <1>3, <1>6, <1>9, <2>1, <3>1
    <2>2. CASE j # 1
        <3> DEFINE i == j - 1
        <3>1. i \in 1..(n - 1) /\ 1 + i = j /\ i + 1 = j
            BY <1>3, <2>2
        <3> HIDE DEF i
        <3>2. c[1 + i] = tail[i]
            BY <1>2, <1>6, <1>9, <3>1
        <3> QED BY <1>2, <3>1, <3>2
    <2> QED BY <2>1, <2>2
<1> HIDE DEF c
<1>12. c = blocks
    BY <1>1, <1>10, <1>11, SeqEqual DEF n
<1>13. Replay(blocks) = R
    BY DEF Replay, R, L, tail
<1> QED BY <1>4, <1>9, <1>12, <1>13 DEF c

(* A replay with one block more is the replay and that block. *)
LEMMA ReplayAppend ==
    ASSUME NEW blocks, Chained(blocks), NEW b
    PROVE  Replay(Append(blocks, b)) = ApplyTrustedBlock(Replay(blocks), b)
PROOF
<1>1. PICK T : blocks \in Seq(T)
    BY DEF Chained
<1> DEFINE U == T \cup {b}
<1>2. blocks \in Seq(U) /\ b \in U
    BY <1>1, SeqMonotonic
<1> HIDE DEF U
<1>3. Tail(blocks) \in Seq(U) /\ Len(blocks) \in Nat \ {0}
    BY <1>2, ChainedTail DEF Chained
<1>4. Tail(Append(blocks, b)) = Append(Tail(blocks), b)
    <2> DEFINE x == Append(blocks, b)
               s == Tail(x)
               t == Append(Tail(blocks), b)
               n == Len(blocks)
    <2>1. x \in Seq(U) /\ Len(x) = n + 1 /\ (\A i \in 1..n : x[i] = blocks[i]) /\ x[n + 1] = b
        BY <1>2
    <2>2. x # << >>
        <3>1. Len(x) # 0
            BY <1>3, <2>1
        <3>2. Len(<< >>) = 0
            BY EmptySeq
        <3> QED BY <3>1, <3>2
    <2> HIDE DEF x
    <2>3. s \in Seq(U) /\ Len(s) = n /\ \A i \in 1..n : s[i] = x[i + 1]
        <3>1. s \in Seq(U) /\ Len(s) = Len(x) - 1 /\ \A i \in 1..Len(s) : s[i] = x[i + 1]
            BY <2>1, <2>2, HeadTailProperties
        <3> HIDE DEF s
        <3>2. Len(s) = n
            BY <1>3, <2>1, <3>1
        <3> QED BY <3>1, <3>2
    <2> HIDE DEF s
    <2> DEFINE u == Tail(blocks)
    <2>4. u \in Seq(U) /\ Len(u) = n - 1 /\ \A i \in 1..(n - 1) : u[i] = blocks[i + 1]
        BY <1>2, ChainedTail
    <2> HIDE DEF u
    <2>5. t \in Seq(U) /\ Len(t) = Len(u) + 1 /\ (\A i \in 1..Len(u) : t[i] = u[i]) /\ t[Len(u) + 1] = b
        BY <1>2, <2>4 DEF u
    <2> HIDE DEF t, n
    <2>6. Len(t) = n /\ (\A i \in 1..(n - 1) : t[i] = u[i]) /\ t[n] = b
        <3>1. Len(u) + 1 = n
            BY <1>3, <2>4 DEF n
        <3> QED BY <2>4, <2>5, <3>1
    <2>7. \A i \in 1..n : s[i] = t[i]
        <3> SUFFICES ASSUME NEW i \in 1..n PROVE s[i] = t[i]
            OBVIOUS
        <3>0. n \in Nat \ {0}
            BY <1>3 DEF n
        <3>1. CASE i = n
            BY <2>1, <2>3, <2>6, <3>1
        <3>2. CASE i # n
            <4>1. i \in 1..(n - 1) /\ i + 1 \in 1..n
                BY <3>0, <3>2
            <4> QED BY <2>1, <2>3, <2>4, <2>6, <4>1
        <3> QED BY <3>1, <3>2
    <2>8. s = t
        BY <2>3, <2>5, <2>6, <2>7, SeqEqual
    <2> QED BY <2>8 DEF s, t, x, u
<1>5. ReplayOnto(GenesisLedger, Append(Tail(blocks), b)) = ApplyTrustedBlock(ReplayOnto(GenesisLedger, Tail(blocks)), b)
    BY <1>2, <1>3, ReplayOntoAppend
<1> QED BY <1>4, <1>5 DEF Replay

(* The resident blocks above a height of the resident window are the blocks above it. *)
LEMMA NewerAre ==
    ASSUME NEW blocks, Chained(blocks), NEW L, NEW m \in 2..(Len(blocks) + 1),
           Suffix(L.chain, blocks, m), NEW k \in 1..Len(blocks), k >= m - 1,
           NEW S, L.chain \in Seq(S)
    PROVE  /\ NewerBlocks(L, k - 1) \in Seq(S)
           /\ Len(NewerBlocks(L, k - 1)) = Len(blocks) - k
           /\ \A i \in 1..(Len(blocks) - k) : NewerBlocks(L, k - 1)[i] = blocks[k + i]
PROOF
<1> DEFINE c == L.chain
           n == Len(blocks)
           l == Len(c)
           above == {i \in DOMAIN c : c[i].height > k - 1}
           from == k - m + 3
           new == SubSeq(c, from, l)
<1>1. n \in Nat \ {0} /\ l \in Nat \ {0} /\ l = n - m + 2 /\ l <= n /\ m \in Nat /\ DOMAIN c = 1..l
    BY SuffixLen
<1>2. c[1] = blocks[1] /\ \A x \in 2..l : c[x] = blocks[m + x - 2]
    BY DEF Suffix
<1>3. \A i \in 1..n : blocks[i].height = i - 1
    BY DEF Chained
<1>4. k \in Nat /\ 1 <= k /\ k <= n /\ k >= m - 1
    BY <1>1
<1> HIDE DEF n, l, c
<1>5. above = from..l
    <2>1. ASSUME NEW i \in 1..l PROVE c[i].height > k - 1 <=> i \in from..l
        <3>1. CASE i = 1
            <4>1. 1 \in 1..n
                BY <1>1
            <4>2. c[1].height = 0
                BY <1>2, <1>3, <4>1
            <4> QED BY <1>1, <1>4, <3>1, <4>2
        <3>2. CASE i # 1
            <4>1. i \in 2..l /\ m + i - 2 \in 1..n
                BY <1>1, <3>2
            <4> DEFINE j == m + i - 2
            <4>2. c[i].height = j - 1
                <5>1. i \in 2..l /\ j \in 1..n
                    BY <4>1
                <5>2. c[i] = blocks[j]
                    BY <1>2, <4>1
                <5> HIDE DEF j
                <5> QED BY <1>3, <5>1, <5>2
            <4> QED BY <1>1, <1>4, <4>1, <4>2
        <3> QED BY <3>1, <3>2
    <2>2. from..l \subseteq 1..l
        BY <1>1, <1>4
    <2> HIDE DEF from
    <2> QED BY <1>1, <2>1, <2>2
<1>6. Cardinality(above) = n - k
    <2>1. from \in Int /\ l \in Int
        BY <1>1, <1>4
    <2> DEFINE e == from
    <2>2. e \in Int /\ e = k - m + 3
        BY <2>1
    <2> HIDE DEF e
    <2>3. Cardinality(e..l) = IF e > l THEN 0 ELSE l - e + 1
        BY <2>1, <2>2, FS_Interval
    <2>4. Cardinality(e..l) = n - k
        BY <1>1, <1>4, <2>2, <2>3
    <2>5. above = e..l
        BY <1>5 DEF e
    <2> QED BY <2>4, <2>5
<1>7. NewerBlocks(L, k - 1) = new
    <2>1. NewerBlocks(L, k - 1) = SubSeq(c, l - Cardinality(above) + 1, l)
        BY DEF NewerBlocks, c, l
    <2> HIDE DEF above
    <2>2. l - Cardinality(above) + 1 = from
        BY <1>1, <1>4, <1>6
    <2> QED BY <2>1, <2>2
<1>8. new \in Seq(S) /\ Len(new) = n - k /\ \A i \in 1..(n - k) : new[i] = c[from + i - 1]
    <2>1. \A x \in from..l : c[x] \in S
        <3>1. from..l \subseteq 1..l
            BY <1>1, <1>4
        <3>2. \A x \in 1..l : c[x] \in S
            BY DEF c, l
        <3> HIDE DEF from
        <3> QED BY <3>1, <3>2
    <2>2. from \in Int /\ l \in Int
        BY <1>1, <1>4
    <2> DEFINE e == from
    <2>3. e \in Int /\ e = k - m + 3 /\ \A x \in e..l : c[x] \in S
        BY <2>1, <2>2
    <2> HIDE DEF e
    <2>4. /\ SubSeq(c, e, l) \in Seq(S)
          /\ Len(SubSeq(c, e, l)) = IF e <= l THEN l - e + 1 ELSE 0
          /\ \A i \in 1..(l - e + 1) : SubSeq(c, e, l)[i] = c[e + i - 1]
        BY <2>2, <2>3, SubSeqProperties
    <2>5. (IF e <= l THEN l - e + 1 ELSE 0) = n - k /\ l - e + 1 = n - k
        BY <1>1, <1>4, <2>3
    <2> QED BY <2>4, <2>5 DEF e
<1> HIDE DEF new
<1>9. \A i \in 1..(n - k) : new[i] = blocks[k + i]
    <2> SUFFICES ASSUME NEW i \in 1..(n - k) PROVE new[i] = blocks[k + i]
        OBVIOUS
    <2> DEFINE x == from + i - 1
    <2>1. x \in 2..l /\ m + x - 2 = k + i
        BY <1>1, <1>4
    <2>2. new[i] = c[x]
        BY <1>8
    <2> HIDE DEF x
    <2> QED BY <1>2, <2>1, <2>2
<1> QED BY <1>7, <1>8, <1>9 DEF n

(* Restoring gives back the whole chain or leaves the ledger alone. *)
LEMMA ResidentRestore ==
    ASSUME NEW blocks, Chained(blocks), NEW L, IsLedger(L), Resident(L, blocks), L.pruned,
           NEW k \in 1..Len(blocks), blocks[k].height + 1 >= L.chain[2].height,
           NEW M, M = RestorePrunedHistory(L, Replay(SubSeq(blocks, 1, k)))
    PROVE  /\ Resident(M, blocks) /\ IsLedger(M)
           /\ \A f \in LedgerFields \ {"chain", "pruned"} : M[f] = L[f]
PROOF
<1> DEFINE p == SubSeq(blocks, 1, k)
           C == Replay(p)
           c == L.chain
           n == Len(blocks)
           new == NewerBlocks(L, Tip(C).height)
           R == ReplayOnto(C, new)
<1>1. Chained(p) /\ Len(p) = k /\ \A i \in 1..k : p[i] = blocks[i]
    BY ChainedPrefix
<1> HIDE DEF p
<1>2. Shaped(C) /\ C.chain = p /\ C.pruned = FALSE
    BY <1>1, ReplayWhole
<1> HIDE DEF C
<1>3. PICK m \in 2..(n + 1) : Suffix(c, blocks, m) /\ m <= n - ResidentBlocks + 1
    BY DEF Resident
<1>4. n \in Nat \ {0} /\ Len(c) \in Nat \ {0} /\ Len(c) = n - m + 2 /\ m \in Nat
    BY <1>3, SuffixLen
<1>5. ResidentBlocks \in Nat \ {0}
    BY ChainAssumption
<1>6. \A i \in 1..n : blocks[i].height = i - 1 /\ Body(blocks[i]) \in Seq(TxIds)
    BY DEF Chained
<1>7. k \in Nat /\ 1 <= k /\ k <= n
    BY <1>4
<1>8. k >= m - 1
    <2>1. 2 \in 2..Len(c) /\ m + 2 - 2 = m /\ m \in 1..n
        BY <1>3, <1>4, <1>5
    <2>2. c[2] = blocks[m + 2 - 2]
        BY <1>3, <2>1 DEF Suffix
    <2>3. c[2].height = m - 1
        BY <1>6, <2>1, <2>2
    <2>4. blocks[k].height = k - 1
        BY <1>6
    <2>5. k - 1 + 1 >= m - 1
        BY <2>3, <2>4
    <2> QED BY <1>4, <1>7, <2>5
<1>9. Tip(C).height = k - 1
    <2>1. Tip(C) = p[k]
        BY <1>1, <1>2 DEF Tip
    <2>2. k \in 1..k /\ k \in 1..n
        BY <1>7
    <2> QED BY <1>1, <1>6, <2>1, <2>2
<1>10. PICK T : blocks \in Seq(T)
    BY DEF Chained
<1>11. PICK Q : c \in Seq(Q)
    BY <1>3 DEF Suffix
<1>12. PICK V : p \in Seq(V)
    BY <1>1 DEF Chained
<1> DEFINE S == (T \cup Q) \cup V
<1>13. blocks \in Seq(S) /\ c \in Seq(S) /\ p \in Seq(S)
    BY <1>10, <1>11, <1>12, SeqMonotonic
<1> HIDE DEF S
<1>14. new \in Seq(S) /\ Len(new) = n - k /\ \A i \in 1..(n - k) : new[i] = blocks[k + i]
    <2>1. new = NewerBlocks(L, k - 1)
        BY <1>9
    <2>2. /\ NewerBlocks(L, k - 1) \in Seq(S)
          /\ Len(NewerBlocks(L, k - 1)) = Len(blocks) - k
          /\ \A i \in 1..(Len(blocks) - k) : NewerBlocks(L, k - 1)[i] = blocks[k + i]
        BY <1>3, <1>8, <1>13, NewerAre
    <2> QED BY <2>1, <2>2
<1> HIDE DEF new, n
<1>15. BodiesFit(new)
    <2> SUFFICES ASSUME NEW i \in 1..Len(new) PROVE Body(new[i]) \in Seq(TxIds)
        BY DEF BodiesFit
    <2>1. i \in 1..(n - k) /\ k + i \in 1..n
        BY <1>4, <1>7, <1>14
    <2> QED BY <1>6, <1>14, <2>1
<1>16. /\ R.chain \in Seq(S) /\ Len(R.chain) = k + (n - k)
       /\ \A j \in 1..k : R.chain[j] = p[j]
       /\ \A j \in 1..(n - k) : R.chain[k + j] = new[j]
    <2>1. C.chain \in Seq(S) /\ Len(C.chain) = k
        BY <1>1, <1>2, <1>13
    <2>2. Joined(R, C, new, S)
        BY <1>2, <1>14, <1>15, <2>1, ReplayChain
    <2> HIDE DEF R
    <2> QED BY <1>2, <1>14, <2>1, <2>2 DEF Joined
<1> HIDE DEF R
<1>17. R.chain = blocks
    <2>1. Len(R.chain) = n
        BY <1>4, <1>7, <1>16
    <2>2. ASSUME NEW j \in 1..n PROVE R.chain[j] = blocks[j]
        <3>1. CASE j <= k
            <4>1. j \in 1..k
                BY <1>7, <3>1
            <4> QED BY <1>1, <1>16, <4>1
        <3>2. CASE ~(j <= k)
            <4> DEFINE i == j - k
            <4>1. i \in 1..(n - k) /\ k + i = j
                BY <1>4, <1>7, <3>2
            <4> HIDE DEF i
            <4> QED BY <1>14, <1>16, <4>1
        <3> QED BY <3>1, <3>2
    <2> DEFINE r == R.chain
    <2>3. r \in Seq(S) /\ Len(r) = Len(blocks) /\ \A j \in 1..Len(r) : r[j] = blocks[j]
        BY <1>16, <2>1, <2>2 DEF n
    <2> HIDE DEF r
    <2>4. r = blocks
        BY <1>13, <2>3, SeqEqual
    <2> QED BY <2>4 DEF r
<1>18. CASE M = L
    BY <1>18
<1>19. CASE M # L
    <2> DEFINE pruned == FALSE
    <2>1. M = [L EXCEPT !.chain = R.chain, !.pruned = pruned]
        <3>1. M = RestorePrunedHistory(L, C)
            BY DEF C, p
        <3> QED BY <1>19, <3>1 DEF RestorePrunedHistory, WithHistory, R, new
    <2>2. pruned = FALSE
        OBVIOUS
    <2>3. DOMAIN L = LedgerFields
        BY DEF IsLedger
    <2> HIDE DEF pruned
    <2>4. /\ IsLedger(M) /\ M.chain = R.chain /\ M.pruned = pruned
          /\ \A f \in LedgerFields \ {"chain", "pruned"} : M[f] = L[f]
        BY <2>1, <2>3 DEF IsLedger, LedgerFields
    <2>5. M.chain = blocks /\ M.pruned = FALSE
        BY <1>17, <2>2, <2>4
    <2>6. Suffix(blocks, blocks, 2)
        <3>1. Len(blocks) = Len(blocks) - 2 + 2
            BY <1>4 DEF n
        <3>2. \A j \in 2..Len(blocks) : 2 + j - 2 = j
            BY <1>4 DEF n
        <3> QED BY <1>10, <3>1, <3>2 DEF Suffix
    <2>7. Resident(M, blocks)
        <3>1. 2 \in 2..(Len(blocks) + 1)
            BY <1>4 DEF n
        <3> QED BY <2>5, <2>6, <3>1 DEF Resident
    <2> QED BY <2>4, <2>7
<1> QED BY <1>18, <1>19

-----------------------------------------------------------------------------
(* The supply.                                                               *)

\* What the transactions of some blocks create less what they destroy.
IssuedBy(blocks) == SumSeq([i \in DOMAIN blocks |-> Issued(blocks[i])])

\* What a block issues is summed over its transactions.
LEMMA BodyIssued ==
    ASSUME NEW b, Body(b) \in Seq(TxIds)
    PROVE  /\ Issued(b) = SumSeq([i \in 1..Len(Body(b)) |-> Gain(Body(b)[i])])
           /\ Issued(b) \in Int
PROOF
<1> DEFINE txs == Body(b)
           n == Len(txs)
           s == [i \in 1..n |-> Gain(txs[i])]
<1>1. n \in Nat /\ DOMAIN txs = 1..n /\ \A i \in 1..n : txs[i] \in TxIds
    OBVIOUS
<1>2. Issued(b) = SumSeq(s)
    <2>1. s = [i \in DOMAIN Body(b) |-> Minted(Body(b)[i]) - Burned(Body(b)[i])]
        BY <1>1 DEF Gain
    <2> QED BY <2>1 DEF Issued
<1>3. DOMAIN s = 1..n /\ \A i \in 1..n : s[i] \in Int
    BY <1>1, TableTypes
<1> HIDE DEF s
<1>4. SumSeq(s) \in Int
    BY <1>1, <1>3, SumSeqOver
<1> QED BY <1>2, <1>4 DEF s

\* What one block more issues.
LEMMA IssuedAppend ==
    ASSUME NEW blocks, Chained(blocks), NEW b, Body(b) \in Seq(TxIds)
    PROVE  /\ IssuedBy(blocks) \in Int
           /\ IssuedBy(Append(blocks, b)) = IssuedBy(blocks) + Issued(b)
PROOF
<1>1. PICK T : blocks \in Seq(T)
    BY DEF Chained
<1> DEFINE U == T \cup {b}
           n == Len(blocks)
           more == Append(blocks, b)
           f == [i \in 1..n |-> Issued(blocks[i])]
           g == [i \in 1..(n + 1) |-> Issued(more[i])]
<1>2. blocks \in Seq(U) /\ b \in U
    BY <1>1, SeqMonotonic
<1> HIDE DEF U
<1>3. /\ Len(more) = n + 1 /\ (\A x \in 1..n : more[x] = blocks[x]) /\ more[n + 1] = b
      /\ DOMAIN more = 1..(n + 1) /\ DOMAIN blocks = 1..n
    BY <1>2
<1>4. n \in Nat \ {0} /\ \A i \in 1..n : Body(blocks[i]) \in Seq(TxIds)
    BY DEF Chained
<1>5. \A i \in 1..n : Issued(blocks[i]) \in Int
    BY <1>4, BodyIssued
<1>6. Issued(b) \in Int
    BY BodyIssued
<1>7. IssuedBy(blocks) = SumSeq(f) /\ IssuedBy(more) = SumSeq(g)
    BY <1>3 DEF IssuedBy
<1> HIDE DEF n, more
<1>8. DOMAIN f = 1..n /\ \A i \in 1..n : f[i] = Issued(blocks[i]) /\ f[i] \in Int
    BY <1>5
<1>9. /\ DOMAIN g = 1..(n + 1) /\ g[n + 1] = Issued(b)
      /\ \A i \in 1..n : g[i] = f[i]
    <2>1. n + 1 \in 1..(n + 1) /\ \A i \in 1..n : i \in 1..(n + 1)
        BY <1>4
    <2> QED BY <1>3, <2>1
<1> HIDE DEF f, g
<1>10. \A i \in 1..(n + 1) : g[i] \in Int
    <2> SUFFICES ASSUME NEW i \in 1..(n + 1) PROVE g[i] \in Int
        OBVIOUS
    <2>1. i = n + 1 \/ i \in 1..n
        BY <1>4
    <2> QED BY <1>6, <1>8, <1>9, <2>1
<1>11. SumSeq(f) = Sum(f, 1..n) /\ SumSeq(f) \in Int
    BY <1>4, <1>8, SumSeqOver
<1> DEFINE k == n + 1
<1>12. k \in Nat /\ k \in 1..k /\ k - 1 = n /\ k = n + 1
    BY <1>4
<1> HIDE DEF k
<1>13. DOMAIN g = 1..k /\ \A i \in 1..k : g[i] \in Int
    BY <1>9, <1>10 DEF k
<1>14. SumSeq(g) = Sum(g, 1..k)
    BY <1>12, <1>13, SumSeqOver
<1>15. Sum(g, 1..k) = g[k] + Sum(g, 1..(k - 1))
    BY <1>12, <1>13, SumStep
<1>16. Sum(g, 1..n) = Sum(f, 1..n)
    <2>1. IsFiniteSet(1..n)
        BY <1>4, FS_Interval
    <2> QED BY <1>9, <2>1, SumAgree
<1>17. SumSeq(g) = Issued(b) + SumSeq(f)
    BY <1>9, <1>11, <1>12, <1>14, <1>15, <1>16
<1>18. SumSeq(g) = SumSeq(f) + Issued(b)
    BY <1>6, <1>11, <1>17
<1> QED BY <1>7, <1>11, <1>18 DEF more

\* Every output was created by a transaction of the chain, by the genesis, or as a reward.
Accounted(u, mined, n) ==
    \A o \in DOMAIN u :
        \/ \E t \in mined, k \in Nat \ {0} : o = <<t, k>>
        \/ \E a \in Nat \ {0} : o = <<0, a>>
        \/ \E h \in 0..(n - 1), k \in Nat : o = <<h, -k>>

\* The genesis burns of an address add up.
LEMMA BurnsInt ==
    ASSUME NEW a
    PROVE  GenesisBurnOf(a) \in Int
PROOF
<1> DEFINE n == Len(GenesisBurns)
           s == [i \in 1..n |-> IF GenesisBurns[i].owner = a THEN GenesisBurns[i].amount ELSE 0]
<1>1. n \in Nat /\ DOMAIN GenesisBurns = 1..n /\ \A i \in 1..n : GenesisBurns[i].amount \in Nat
    BY BurnsShape
<1>2. GenesisBurnOf(a) = SumSeq(s)
    BY <1>1 DEF GenesisBurnOf
<1>3. DOMAIN s = 1..n /\ \A i \in 1..n : s[i] \in Int
    BY <1>1
<1> HIDE DEF s, n
<1> QED BY <1>1, <1>2, <1>3, SumSeqOver

(* The outputs of the genesis. *)
LEMMA GenesisCoins ==
    /\ Coins(UtxosAfterGenesis)
    /\ Accounted(UtxosAfterGenesis, {}, 1)
PROOF
<1> DEFINE left == [a \in DOMAIN Allocation |-> Allocation[a] - GenesisBurnOf(a)]
           P == {a \in DOMAIN left : left[a] > 0}
           D == {<<0, a>> : a \in P}
           u == [o \in D |-> [owner |-> o[2], amount |-> left[o[2]]]]
           none == << >>
           r == RewardOutputs(Genesis, Genesis.reward, none)
<1>1. UtxosAfterGenesis = Merge(u, r)
    BY DEF UtxosAfterGenesis, CreditRewardOutputs
<1>2. IsFiniteSet(P) /\ \A a \in P : a \in Nat \ {0} /\ left[a] \in Nat
    <2>1. P \subseteq DOMAIN Allocation
        OBVIOUS
    <2>2. IsFiniteSet(P)
        <3> HIDE DEF P
        <3> QED BY <2>1, ChainAssumption, FS_Subset
    <2>3. ASSUME NEW a \in P PROVE a \in Nat \ {0} /\ left[a] \in Nat
        <3>1. a \in DOMAIN Allocation /\ left[a] = Allocation[a] - GenesisBurnOf(a) /\ left[a] > 0
            OBVIOUS
        <3>2. a \in Nat \ {0} /\ Allocation[a] \in Nat
            BY <3>1, ChainAssumption
        <3>3. GenesisBurnOf(a) \in Int
            BY BurnsInt
        <3> HIDE DEF left
        <3>4. left[a] \in Int
            BY <3>1, <3>2, <3>3
        <3> QED BY <3>1, <3>2, <3>4
    <2> QED BY <2>2, <2>3
<1> HIDE DEF P, left
<1>3. IsFiniteSet(D)
    <2> DEFINE f == [a \in P |-> <<0, a>>]
    <2>1. P \subseteq DOMAIN f /\ D = {f[a] : a \in P}
        OBVIOUS
    <2> HIDE DEF f, D
    <2>2. IsFiniteSet({f[a] : a \in P})
        BY <1>2, <2>1, FiniteImage
    <2> QED BY <2>1, <2>2
<1>4. DOMAIN u = D /\ u = [o \in DOMAIN u |-> u[o]]
    OBVIOUS
<1>5. \A o \in D : u[o].amount \in Nat
    <2> SUFFICES ASSUME NEW o \in D PROVE u[o].amount \in Nat
        OBVIOUS
    <2>1. PICK a \in P : o = <<0, a>>
        OBVIOUS
    <2>2. o[2] = a
        BY <2>1
    <2>3. u[o].amount = left[o[2]]
        OBVIOUS
    <2> HIDE DEF u
    <2> QED BY <1>2, <2>2, <2>3
<1>6. Coins(u)
    <2> HIDE DEF u, D
    <2> QED BY <1>3, <1>4, <1>5 DEF Coins
<1>7. DOMAIN none = {}
    OBVIOUS
<1>8. Genesis.reward \in Nat /\ Genesis.hash = 0
    BY ChainAssumption DEF Genesis
<1>9. Coins(r) /\ \A o \in DOMAIN r : \E k \in Nat : o = <<0, -k>>
    <2> DEFINE g == Genesis
    <2>1. g.reward \in Nat /\ g.hash = 0
        BY <1>8
    <2> HIDE DEF g, none
    <2>2. IsCommittee(none, g.miner)
        BY <1>7, FS_EmptySet DEF IsCommittee
    <2> DEFINE x == RewardOutputs(g, g.reward, none)
    <2>3. Coins(x) /\ \A o \in DOMAIN x : \E k \in Nat : o = <<g.hash, -k>>
        BY <2>1, <2>2, RewardPaidInFull
    <2> HIDE DEF x
    <2>4. Coins(x) /\ \A o \in DOMAIN x : \E k \in Nat : o = <<0, -k>>
        BY <2>1, <2>3
    <2> QED BY <2>4 DEF x, g
<1> HIDE DEF r
<1>10. D \cap DOMAIN r = {}
    <2> SUFFICES ASSUME NEW o, o \in D, o \in DOMAIN r PROVE FALSE
        OBVIOUS
    <2>1. PICK a \in P : o = <<0, a>>
        OBVIOUS
    <2>2. PICK k \in Nat : o = <<0, -k>>
        BY <1>9
    <2>3. a = -k /\ a \in Nat \ {0}
        BY <1>2, <2>1, <2>2
    <2> QED BY <2>3
<1> HIDE DEF u
<1>11. Coins(Merge(u, r))
    BY <1>4, <1>6, <1>9, <1>10, TotalMerge
<1>12. DOMAIN Merge(u, r) = D \cup DOMAIN r
    BY <1>4 DEF Merge
<1>13. Accounted(Merge(u, r), {}, 1)
    <2> SUFFICES ASSUME NEW o \in DOMAIN Merge(u, r)
                 PROVE  \/ \E a \in Nat \ {0} : o = <<0, a>>
                        \/ \E h \in 0..(1 - 1), k \in Nat : o = <<h, -k>>
        BY DEF Accounted
    <2>1. CASE o \in D
        BY <1>2, <2>1
    <2>2. CASE o \in DOMAIN r
        <3>1. PICK k \in Nat : o = <<0, -k>>
            BY <1>9, <2>2
        <3>2. 0 \in 0..(1 - 1)
            OBVIOUS
        <3> QED BY <3>1, <3>2
    <2> QED BY <1>12, <2>1, <2>2
<1> QED BY <1>1, <1>11, <1>13

(* A sequence with as many values as positions has no value twice. *)
LEMMA AllDifferent ==
    ASSUME NEW txs \in Seq(TxIds), Cardinality(Range(txs)) = Len(txs)
    PROVE  NoRepeats(txs)
PROOF
<1> DEFINE n == Len(txs)
           V == Range(txs)
           S == 1..n
<1>1. n \in Nat /\ DOMAIN txs = S
    OBVIOUS
<1>2. txs \in Surjection(S, V)
    <2>1. txs = [i \in S |-> txs[i]]
        BY <1>1
    <2>2. \A i \in S : txs[i] \in V
        BY <1>1 DEF Range
    <2>3. \A v \in V : \E i \in S : txs[i] = v
        BY <1>1 DEF Range
    <2> HIDE DEF S, V
    <2>4. txs \in [S -> V]
        BY <2>1, <2>2, Zenon
    <2> QED BY <2>3, <2>4, Zenon DEF Surjection
<1>3. IsFiniteSet(S) /\ Cardinality(S) = n
    <2>0. 1 \in Int /\ n \in Int
        BY <1>1
    <2> HIDE DEF n
    <2>1. IsFiniteSet(1..n) /\ Cardinality(1..n) = IF 1 > n THEN 0 ELSE n - 1 + 1
        BY <2>0, FS_Interval
    <2>2. (IF 1 > n THEN 0 ELSE n - 1 + 1) = n
        BY <1>1
    <2> QED BY <2>1, <2>2
<1> HIDE DEF S, V, n
<1>4. txs \in Injection(S, V)
    <2>1. Cardinality(V) = Cardinality(S)
        BY <1>3 DEF V, n
    <2> QED BY <1>2, <1>3, <2>1, FS_Surjection
<1>5. \A i, j \in S : txs[i] = txs[j] => i = j
    BY <1>4 DEF Injection, IsInjective
<1> QED BY <1>5 DEF NoRepeats, S, n

\* What the transactions of a block leave, what the block pays, and that both are new.
LeftBy(L, b) == UtxosAfter(Body(b), L.utxos)[Len(Body(b))]
PaidBy(L, b) == RewardOutputs(b, b.reward, OwnersBySlot(BurnCommitteeForBlock(L, b)))
Fresh(L, b) ==
    /\ OutpointsOf(Body(b), 1..Len(Body(b))) \cap DOMAIN L.utxos = {}
    /\ DOMAIN LeftBy(L, b) \cap DOMAIN PaidBy(L, b) = {}
    /\ AllApply(Body(b), L.utxos) /\ NoRepeats(Body(b))
    /\ \A i \in 1..Len(Body(b)) : Body(b)[i] \notin L.mined
    /\ Coins(PaidBy(L, b)) /\ Total(PaidBy(L, b)) = b.reward /\ AllWorth(PaidBy(L, b))

(* A valid block changes the outputs by what it issues. *)
LEMMA BlockIssues ==
    ASSUME NEW blocks, Chained(blocks), NEW L, IsLedger(L), Resident(L, blocks),
           Coins(L.utxos), L.mined \subseteq TxIds, Accounted(L.utxos, L.mined, Len(blocks)),
           NEW b, NEW now, BlockValid(L, b, now), Body(b) \in Seq(TxIds), b.hash = Len(blocks),
           b.mode = "ticket" => FinalizesByRank(b, NextRanks(L)),
           NEW M, M = ApplyTrustedBlock(L, b)
    PROVE  /\ Coins(M.utxos) /\ M.mined \subseteq TxIds
           /\ Accounted(M.utxos, M.mined, Len(blocks) + 1)
           /\ Total(M.utxos) = Total(L.utxos) + Issued(b)
           /\ Fresh(L, b)
PROOF
<1> DEFINE txs == Body(b)
           n == Len(blocks)
           u == L.utxos
           w == UtxosAfter(txs, u)[Len(txs)]
           paid == OwnersBySlot(BurnCommitteeForBlock(L, b))
           r == RewardOutputs(b, b.reward, paid)
           fees == SumSeq([i \in 1..Len(txs) |-> Fee(txs[i])])
           gains == SumSeq([i \in 1..Len(txs) |-> Gain(txs[i])])
<1>1. n \in Nat \ {0}
    BY DEF Chained
<1>2. /\ M.mined = L.mined \cup Range(txs)
      /\ M.utxos = Merge(w, r)
    BY TrustedBlockFields DEF Coins
<1>3. Len(txs) \in Nat /\ DOMAIN txs = 1..Len(txs) /\ \A i \in 1..Len(txs) : txs[i] \in TxIds
    OBVIOUS
<1>4. AllApply(txs, u) /\ NoRepeats(txs)
    <2>1. AllApply(txs, u) /\ Cardinality(Range(txs)) = Len(txs)
        BY DEF BlockValid, BodyApplies
    <2> QED BY <2>1, AllDifferent
<1>5. \A i \in 1..Len(txs) : txs[i] \notin L.mined
    BY <1>3 DEF BlockValid, PrecheckBlock, NotReplays
<1>6. b.reward = fees
    <2>1. b.reward = SumSeq([i \in DOMAIN txs |-> Fee(txs[i])])
        BY DEF BlockValid, PrecheckBlock, FeeReward
    <2> QED BY <1>3, <2>1
<1>7. ASSUME NEW o \in OutpointsOf(txs, 1..Len(txs))
      PROVE  \E t \in Range(txs) : t \in TxIds /\ t \notin L.mined /\ \E k \in Nat \ {0} : o = <<t, k>>
    <2>1. PICK j \in 1..Len(txs) : o \in DOMAIN CreatedOutputs(txs[j])
        BY DEF OutpointsOf
    <2> DEFINE t == txs[j]
    <2>2. t \in TxIds /\ t \notin L.mined /\ t \in Range(txs)
        BY <1>3, <1>5, <2>1 DEF Range
    <2> HIDE DEF t
    <2>3. DOMAIN CreatedOutputs(t) = {<<t, k>> : k \in 1..Len(Outputs(t))} /\ Len(Outputs(t)) \in Nat
        BY <2>2, CreatedTotal, TransactionAssumption
    <2>4. PICK k \in 1..Len(Outputs(t)) : o = <<t, k>>
        BY <2>1, <2>3 DEF t
    <2>5. k \in Nat \ {0}
        BY <2>3
    <2> QED BY <2>2, <2>4, <2>5
<1> HIDE DEF txs, u, r, w, n
<1>8. OutpointsOf(txs, 1..Len(txs)) \cap DOMAIN u = {}
    <2> SUFFICES ASSUME NEW o \in OutpointsOf(txs, 1..Len(txs)), o \in DOMAIN u PROVE FALSE
        OBVIOUS
    <2>1. PICK t \in Range(txs) : t \in TxIds /\ t \notin L.mined /\ \E k \in Nat \ {0} : o = <<t, k>>
        BY <1>7
    <2>2. PICK k \in Nat \ {0} : o = <<t, k>>
        BY <2>1
    <2>3. t \in Nat \ {0}
        BY <2>1, TransactionAssumption
    <2>4. \/ \E s \in L.mined, i \in Nat \ {0} : o = <<s, i>>
          \/ \E a \in Nat \ {0} : o = <<0, a>>
          \/ \E h \in 0..(Len(blocks) - 1), i \in Nat : o = <<h, -i>>
        BY DEF Accounted, u
    <2>5. CASE \E s \in L.mined, i \in Nat \ {0} : o = <<s, i>>
        BY <2>1, <2>2, <2>5
    <2>6. CASE \E a \in Nat \ {0} : o = <<0, a>>
        BY <2>2, <2>3, <2>6
    <2>7. CASE \E h \in 0..(Len(blocks) - 1), i \in Nat : o = <<h, -i>>
        <3>1. PICK h \in 0..(Len(blocks) - 1), i \in Nat : o = <<h, -i>>
            BY <2>7
        <3>2. k = -i
            BY <2>2, <3>1
        <3> QED BY <3>2
    <2> QED BY <2>4, <2>5, <2>6, <2>7
<1>9. Coins(u) /\ txs \in Seq(TxIds)
    BY DEF u, txs
<1>10. /\ Coins(w) /\ DOMAIN w \subseteq DOMAIN u \cup OutpointsOf(txs, 1..Len(txs))
       /\ Total(w) + fees = Total(u) + gains
    BY <1>4, <1>8, <1>9, BodyConserves DEF w
<1>11. fees \in Nat
    <2> DEFINE f == [i \in 1..Len(txs) |-> Fee(txs[i])]
    <2>1. DOMAIN f = 1..Len(txs) /\ \A i \in 1..Len(txs) : f[i] \in Nat
        BY <1>3, TableTypes
    <2> HIDE DEF f
    <2>2. SumSeq(f) = Sum(f, 1..Len(txs))
        BY <1>3, <2>1, SumSeqOver
    <2>3. Sum(f, 1..Len(txs)) \in Nat
        BY <1>3, <2>1, SumNat
    <2> QED BY <2>2, <2>3 DEF f
<1>12. Issued(b) = gains /\ gains \in Int
    BY BodyIssued DEF txs
<1> HIDE DEF fees, gains
<1>13. /\ Coins(r) /\ Total(r) = fees /\ AllWorth(r)
       /\ \A o \in DOMAIN r : \E k \in Nat : o = <<n, -k>>
    <2> HIDE DEF paid
    <2>1. IsCommittee(paid, b.miner)
        BY RewardedCommittee DEF paid
    <2>2. b.reward \in Nat /\ b.hash = n
        BY <1>6, <1>11 DEF n
    <2>3. /\ Coins(r) /\ Total(r) = b.reward /\ AllWorth(r)
          /\ \A o \in DOMAIN r : \E k \in Nat : o = <<b.hash, -k>>
        BY <2>1, <2>2, RewardPaidInFull DEF r
    <2> QED BY <1>6, <2>2, <2>3
<1>14. DOMAIN w \cap DOMAIN r = {}
    <2> SUFFICES ASSUME NEW o \in DOMAIN w, o \in DOMAIN r PROVE FALSE
        OBVIOUS
    <2>1. PICK k \in Nat : o = <<n, -k>>
        BY <1>13
    <2>2. CASE o \in OutpointsOf(txs, 1..Len(txs))
        <3>1. PICK t \in Range(txs) : \E i \in Nat \ {0} : o = <<t, i>>
            BY <1>7, <2>2
        <3>2. PICK i \in Nat \ {0} : o = <<t, i>>
            BY <3>1
        <3>3. i = -k
            BY <2>1, <3>2
        <3> QED BY <3>3
    <2>3. CASE o \in DOMAIN u
        <3>1. \/ \E s \in L.mined, i \in Nat \ {0} : o = <<s, i>>
              \/ \E a \in Nat \ {0} : o = <<0, a>>
              \/ \E h \in 0..(n - 1), i \in Nat : o = <<h, -i>>
            BY <2>3 DEF Accounted, u, n
        <3>2. CASE \E s \in L.mined, i \in Nat \ {0} : o = <<s, i>>
            <4>1. PICK s \in L.mined : \E i \in Nat \ {0} : o = <<s, i>>
                BY <3>2
            <4>2. PICK i \in Nat \ {0} : o = <<s, i>>
                BY <4>1
            <4>3. i = -k
                BY <2>1, <4>2
            <4> QED BY <4>3
        <3>3. CASE \E a \in Nat \ {0} : o = <<0, a>>
            BY <1>1, <2>1, <3>3
        <3>4. CASE \E h \in 0..(n - 1), i \in Nat : o = <<h, -i>>
            <4>1. PICK h \in 0..(n - 1) : \E i \in Nat : o = <<h, -i>>
                BY <3>4
            <4>2. h = n
                BY <2>1, <4>1
            <4> QED BY <1>1, <4>2
        <3> QED BY <3>1, <3>2, <3>3, <3>4
    <2> QED BY <1>10, <2>2, <2>3
<1>15. Coins(Merge(w, r)) /\ Total(Merge(w, r)) = Total(w) + Total(r)
    BY <1>10, <1>13, <1>14, TotalMerge
<1>16. Total(Merge(w, r)) = Total(u) + gains
    <2>1. Total(w) \in Int /\ Total(u) \in Int
        BY <1>9, <1>10, TotalInt
    <2>2. Total(w) + fees = Total(u) + gains
        BY <1>10
    <2>3. Total(Merge(w, r)) = Total(w) + fees
        BY <1>13, <1>15
    <2> QED BY <2>2, <2>3
<1> DEFINE all == L.mined \cup Range(txs)
           out == Merge(w, r)
           k1 == n + 1
<1>17. Accounted(out, all, k1)
    <2> HIDE DEF k1
    <2> SUFFICES ASSUME NEW o \in DOMAIN out
                 PROVE  \/ \E t \in all, k \in Nat \ {0} : o = <<t, k>>
                        \/ \E a \in Nat \ {0} : o = <<0, a>>
                        \/ \E h \in 0..(k1 - 1), k \in Nat : o = <<h, -k>>
        <3> HIDE DEF out, all
        <3> QED BY DEF Accounted
    <2>0. k1 - 1 = n
        BY <1>1 DEF k1
    <2>1. o \in DOMAIN u \/ o \in OutpointsOf(txs, 1..Len(txs)) \/ o \in DOMAIN r
        BY <1>10 DEF Merge
    <2>2. CASE o \in DOMAIN u
        <3>1. \/ \E s \in L.mined, i \in Nat \ {0} : o = <<s, i>>
              \/ \E a \in Nat \ {0} : o = <<0, a>>
              \/ \E h \in 0..(n - 1), i \in Nat : o = <<h, -i>>
            BY <2>2 DEF Accounted, u, n
        <3>2. CASE \E h \in 0..(n - 1), i \in Nat : o = <<h, -i>>
            <4>1. PICK h \in 0..(n - 1) : \E i \in Nat : o = <<h, -i>>
                BY <3>2
            <4>2. h \in 0..(k1 - 1)
                BY <1>1, <2>0
            <4> QED BY <4>1, <4>2
        <3>3. CASE \E s \in L.mined, i \in Nat \ {0} : o = <<s, i>>
            BY <3>3
        <3>4. CASE \E a \in Nat \ {0} : o = <<0, a>>
            BY <3>4
        <3> QED BY <3>1, <3>2, <3>3, <3>4
    <2>3. CASE o \in OutpointsOf(txs, 1..Len(txs))
        BY <1>7, <2>3
    <2>4. CASE o \in DOMAIN r
        <3>1. PICK k \in Nat : o = <<n, -k>>
            BY <1>13, <2>4
        <3>2. n \in 0..(k1 - 1)
            BY <1>1, <2>0
        <3> QED BY <3>1, <3>2
    <2> QED BY <2>1, <2>2, <2>3, <2>4
<1>18. Range(txs) \subseteq TxIds
    BY <1>3 DEF Range
<1>19. Fresh(L, b)
    <2>1. LeftBy(L, b) = w /\ PaidBy(L, b) = r
        BY DEF LeftBy, PaidBy, w, r, txs, u
    <2>2. Body(b) = txs /\ L.utxos = u
        BY DEF txs, u
    <2> QED BY <1>4, <1>5, <1>6, <1>8, <1>13, <1>14, <2>1, <2>2 DEF Fresh
<1> QED BY <1>2, <1>12, <1>15, <1>16, <1>17, <1>18, <1>19 DEF u, txs, n

(* The blocks that the ledger makes fit its chain. *)
LEMMA NewBlockFits ==
    ASSUME Chained(full), Resident(ledger, full),
           NEW mode, NEW rank, NEW miner, NEW ticket, NEW body \in Bodies, NEW delay,
           NEW signed, NEW seed, NEW b, b = NewBlock(mode, rank, miner, ticket, body, delay, signed, seed)
    PROVE  /\ b.hash = Len(full) /\ b.height = Len(full)
           /\ Body(b) \in Seq(TxIds) /\ b.v1 \in Seq(TxIds)
PROOF
<1> DEFINE n == Len(full)
<1>1. n \in Nat \ {0} /\ full[n].height = n - 1
    BY DEF Chained
<1>2. Tip(ledger) = full[n]
    BY TipResident
<1>3. NextHeight(ledger) = n
    <2> HIDE DEF n
    <2> QED BY <1>1, <1>2 DEF NextHeight
<1>4. body.v1 \in Seq(TxIds) /\ body.v2 \in Seq(TxIds)
    BY ChainAssumption
<1>5. b.hash = NextHeight(ledger) /\ b.height = NextHeight(ledger) /\ b.v1 = body.v1 /\ b.v2 = body.v2
    BY DEF NewBlock
<1>6. Body(b) \in Seq(TxIds)
    BY <1>4, <1>5 DEF Body
<1> QED BY <1>3, <1>4, <1>5, <1>6

\* A block of the chain's height joins it.
Extends(b) ==
    /\ b.hash = Len(full) /\ b.height = Len(full)
    /\ Body(b) \in Seq(TxIds) /\ b.v1 \in Seq(TxIds)
    /\ b.seed \in Nat /\ b.rank \in Nat
    /\ Tip(ledger).time \in Int => b.time \in Int
    /\ b.mode = "ticket" \/ (b.mode = "recovery" /\ b.ticket = << >>)
    /\ ApplyBlock(b)

\* Both kinds of blocks extend the chain.
LEMMA StepsExtend ==
    ASSUME Chained(full), Resident(ledger, full), FinalizeTicketBlock \/ FinalizeRecoveryBlock
    PROVE  \E b : Extends(b)
PROOF
<1>1. CASE FinalizeTicketBlock
    <2>1. PICK ranked \in {NextRanks(ledger)}, body \in Bodies, delay \in Delays, seed \in Seeds :
              \E rank \in 0..(Len(ranked) - 1) : TicketBlock(rank, ranked[rank + 1], body, delay, seed)
        BY <1>1 DEF FinalizeTicketBlock
    <2>2. PICK rank \in 0..(Len(ranked) - 1) : TicketBlock(rank, ranked[rank + 1], body, delay, seed)
        BY <2>1
    <2> DEFINE ticket == ranked[rank + 1]
    <2>3. PICK signed : ApplyBlock(NewBlock("ticket", rank, ticket.owner, ticket.id, body, delay, signed, seed))
        BY <2>2 DEF TicketBlock
    <2> DEFINE b == NewBlock("ticket", rank, ticket.owner, ticket.id, body, delay, signed, seed)
    <2>4. /\ b.hash = Len(full) /\ b.height = Len(full)
          /\ Body(b) \in Seq(TxIds) /\ b.v1 \in Seq(TxIds)
        BY NewBlockFits
    <2>5. b.seed = seed /\ b.rank = rank /\ b.mode = "ticket"
        BY DEF NewBlock
    <2>6. seed \in Nat /\ rank \in Nat
        BY <2>1, <2>2, ChainAssumption
    <2>7. Tip(ledger).time \in Int => b.time \in Int
        <3> DEFINE after == IF rank = 0 THEN 1 ELSE 2 * TargetTime * rank
                   before == Tip(ledger).time
        <3>1. delay \in Int /\ TargetTime \in Int /\ rank \in Int
            BY <2>1, <2>6, ChainAssumption
        <3>2. after \in Int
            BY <3>1
        <3>3. b.time = delay + (before + after)
            BY DEF NewBlock, TicketBlockMinTimestamp
        <3> HIDE DEF after, before, b
        <3> QED BY <3>1, <3>2, <3>3 DEF before
    <2> HIDE DEF b
    <2> QED BY <2>3, <2>4, <2>5, <2>6, <2>7 DEF Extends, b
<1>2. CASE FinalizeRecoveryBlock
    <2>1. PICK miner \in DOMAIN Allocation, body \in Bodies, seed \in Seeds :
              ApplyBlock(NewBlock("recovery", 0, miner, << >>, body, 0, {}, seed))
        BY <1>2 DEF FinalizeRecoveryBlock
    <2> DEFINE b == NewBlock("recovery", 0, miner, << >>, body, 0, {}, seed)
    <2>2. /\ b.hash = Len(full) /\ b.height = Len(full)
          /\ Body(b) \in Seq(TxIds) /\ b.v1 \in Seq(TxIds)
        BY NewBlockFits
    <2>3. b.seed = seed /\ b.rank = 0 /\ b.mode = "recovery" /\ b.ticket = << >>
        BY DEF NewBlock
    <2>4. seed \in Nat
        BY <2>1, ChainAssumption
    <2>5. Tip(ledger).time \in Int => b.time \in Int
        <3> DEFINE before == Tip(ledger).time
        <3>1. b.time = 0 + (before + RecoveryDelay)
            BY DEF NewBlock
        <3>2. RecoveryDelay \in Nat
            BY ChainAssumption
        <3> HIDE DEF before, b
        <3> QED BY <3>1, <3>2 DEF before
    <2> HIDE DEF b
    <2> QED BY <2>1, <2>2, <2>3, <2>4, <2>5 DEF Extends, b
<1> QED BY <1>1, <1>2

\* What carries the supply from one step to the next.
SupplyInv ==
    /\ Chained(full) /\ IsLedger(ledger) /\ Resident(ledger, full)
    /\ Coins(ledger.utxos) /\ ledger.mined \subseteq TxIds
    /\ Accounted(ledger.utxos, ledger.mined, Len(full))
    /\ SupplyConserved

\* The supply of the genesis.
LEMMA SupplyAtInit == LedgerInit => SupplyInv
PROOF
<1> SUFFICES ASSUME LedgerInit PROVE SupplyInv
    OBVIOUS
<1> DEFINE g == Genesis
           G == GenesisLedger
<1>1. ledger = G /\ full = <<g>>
    BY DEF LedgerInit
<1>2. /\ IsLedger(G) /\ G.chain = <<g>> /\ G.pruned = FALSE
      /\ G.utxos = UtxosAfterGenesis /\ G.mined = {}
    BY GenesisShaped DEF Shaped
<1>3. Chained(<<g>>)
    BY GenesisChained
<1>4. Coins(UtxosAfterGenesis) /\ Accounted(UtxosAfterGenesis, {}, 1)
    BY GenesisCoins
<1>5. IssuedBy(<<g>>) = 0
    <2> DEFINE c == <<g>>
               f == [i \in 1..1 |-> Issued(g)]
    <2>1. DOMAIN c = 1..1 /\ \A i \in 1..1 : c[i] = g
        OBVIOUS
    <2>2. Body(g) = << >>
        BY DEF Body, Genesis
    <2>3. Issued(g) = SumSeq([i \in 1..0 |-> Gain(Body(g)[i])])
        <3>1. Body(g) \in Seq(TxIds) /\ Len(Body(g)) = 0
            BY <2>2
        <3> HIDE DEF g
        <3> QED BY <3>1, BodyIssued
    <2> DEFINE e == [i \in 1..0 |-> Gain(Body(g)[i])]
    <2>4. Issued(g) = 0
        <3>1. 0 \in Nat /\ DOMAIN e = 1..0 /\ 1..0 = {} /\ \A i \in 1..0 : e[i] \in Int
            OBVIOUS
        <3> HIDE DEF e
        <3>2. SumSeq(e) = Sum(e, 1..0)
            BY <3>1, SumSeqOver
        <3>3. Sum(e, {}) = 0
            BY SumEmpty
        <3> QED BY <2>3, <3>1, <3>2, <3>3 DEF e
    <2> HIDE DEF g
    <2>5. IssuedBy(c) = SumSeq(f)
        <3>1. [i \in DOMAIN c |-> Issued(c[i])] = f
            BY <2>1
        <3> HIDE DEF c, f
        <3> QED BY <3>1 DEF IssuedBy
    <2>6. DOMAIN f = 1..1 /\ \A i \in 1..1 : f[i] = 0
        BY <2>4
    <2> HIDE DEF f, c
    <2> DEFINE one == 1
    <2>7. SumSeq(f) = Sum(f, 1..one)
        <3>1. one \in Nat /\ DOMAIN f = 1..one /\ \A i \in 1..one : f[i] \in Int
            BY <2>6
        <3> HIDE DEF one
        <3> QED BY <3>1, SumSeqOver
    <2>8. Sum(f, 1..1) = 0
        <3>1. one \in Int /\ 1 \in Int
            OBVIOUS
        <3>2. IsFiniteSet(1..one)
            <4> HIDE DEF one
            <4> QED BY <3>1, FS_Interval
        <3> QED BY <2>6, <3>2, SumZero
    <2> QED BY <2>5, <2>7, <2>8 DEF c
<1>6. Total(UtxosAfterGenesis) \in Int
    BY <1>4, TotalInt
<1>7. Len(<<g>>) = 1
    OBVIOUS
<1> DEFINE c == <<g>>
<1> HIDE DEF g, G, c
<1>8. Resident(ledger, full)
    <2>1. Len(c) = 1 /\ c[1] = g /\ c \in Seq({g})
        BY DEF c
    <2>2. ledger.chain = c /\ full = c /\ ledger.pruned = FALSE
        BY <1>1, <1>2 DEF c
    <2>3. 2 \in 2..(Len(c) + 1)
        BY <2>1
    <2>4. Suffix(c, c, 2)
        BY <2>1 DEF Suffix
    <2> QED BY <2>2, <2>3, <2>4 DEF Resident
<1>9. SupplyConserved
    <2>1. Total(ledger.utxos) = Total(UtxosAfterGenesis)
        BY <1>1, <1>2
    <2>2. IssuedBy(full) = 0
        BY <1>1, <1>5
    <2> QED BY <1>6, <2>1, <2>2 DEF SupplyConserved, IssuedBy
<1> QED BY <1>1, <1>2, <1>3, <1>4, <1>7, <1>8, <1>9 DEF SupplyInv

(* A block adds to the outputs what it issues. *)
LEMMA SupplyAtBlock ==
    ASSUME SupplyInv, NEW b, Extends(b)
    PROVE  SupplyInv'
PROOF
<1> DEFINE n == Len(full)
           L == ledger
           M == ApplyTrustedBlock(L, b)
           more == Append(full, b)
<1>1. /\ Chained(full) /\ IsLedger(L) /\ Resident(L, full)
      /\ Coins(L.utxos) /\ L.mined \subseteq TxIds
      /\ Accounted(L.utxos, L.mined, n)
      /\ Total(L.utxos) = Total(UtxosAfterGenesis) + IssuedBy(full)
    BY DEF SupplyInv, SupplyConserved, IssuedBy
<1>2. /\ b.hash = n /\ b.height = n /\ Body(b) \in Seq(TxIds) /\ b.v1 \in Seq(TxIds)
      /\ BlockValid(L, b, b.time) /\ ledger' = M /\ full' = more
    BY DEF Extends, ApplyBlock
<1>3. b.mode = "ticket" => FinalizesByRank(b, NextRanks(L))
    BY <1>2 DEF BlockValid, PrecheckBlock
<1>4. Len(more) = n + 1
    <2>1. PICK S : full \in Seq(S)
        BY <1>1 DEF Chained
    <2>2. full \in Seq(S \cup {b})
        BY <2>1, SeqMonotonic
    <2> QED BY <2>2
<1> HIDE DEF L, n, M, more
<1>5. /\ Coins(M.utxos) /\ M.mined \subseteq TxIds
      /\ Accounted(M.utxos, M.mined, n + 1)
      /\ Total(M.utxos) = Total(L.utxos) + Issued(b)
    BY <1>1, <1>2, <1>3, BlockIssues DEF n, M
<1>6. IsLedger(M) /\ M.chain = Append(L.chain, b) /\ M.pruned = L.pruned
    BY <1>1, <1>2, TrustedBlockFields DEF M, Coins
<1>7. Chained(more)
    BY <1>1, <1>2, ChainedAppend DEF n, more
<1>8. Resident(M, more)
    BY <1>1, <1>6, ResidentAppend DEF more
<1>9. IssuedBy(full) \in Int /\ IssuedBy(more) = IssuedBy(full) + Issued(b)
    BY <1>1, <1>2, IssuedAppend DEF more
<1>10. Issued(b) \in Int
    BY <1>2, BodyIssued
<1>11. Total(UtxosAfterGenesis) \in Int
    BY GenesisCoins, TotalInt
<1>12. Total(M.utxos) = Total(UtxosAfterGenesis) + IssuedBy(more)
    <2>1. Total(M.utxos) = (Total(UtxosAfterGenesis) + IssuedBy(full)) + Issued(b)
        BY <1>1, <1>5
    <2>2. (Total(UtxosAfterGenesis) + IssuedBy(full)) + Issued(b)
          = Total(UtxosAfterGenesis) + (IssuedBy(full) + Issued(b))
        BY <1>9, <1>10, <1>11
    <2> QED BY <1>9, <2>1, <2>2
<1>13. SupplyConserved'
    <2>1. Total(ledger'.utxos) = Total(UtxosAfterGenesis) + IssuedBy(full')
        BY <1>2, <1>12
    <2> QED BY <2>1 DEF SupplyConserved, IssuedBy, Total, UtxosAfterGenesis, Issued
<1>14. SupplyInv'
    <2>1. Chained(full') /\ Resident(ledger', full')
        BY <1>2, <1>7, <1>8
    <2>2. IsLedger(ledger') /\ Coins(ledger'.utxos) /\ ledger'.mined \subseteq TxIds
        BY <1>2, <1>5, <1>6
    <2>3. Accounted(ledger'.utxos, ledger'.mined, Len(full'))
        BY <1>2, <1>4, <1>5
    <2> QED BY <1>13, <2>1, <2>2, <2>3 DEF SupplyInv
<1> QED BY <1>14

\* Only the blocks that the ledger holds change.
PrunedTo(M) ==
    /\ ledger' = M /\ UNCHANGED full
    /\ Resident(M, full) /\ IsLedger(M)
    /\ \A f \in LedgerFields \ {"chain", "pruned"} : M[f] = ledger[f]

(* Pruning and restoring change nothing else. *)
LEMMA PruningKeeps ==
    ASSUME Chained(full), IsLedger(ledger), Resident(ledger, full), Prune \/ Restore
    PROVE  \E M : PrunedTo(M)
PROOF
<1>1. CASE Prune
    <2> DEFINE M == RetainRecentChainBlocks(ledger, ResidentBlocks)
    <2>1. ledger' = M /\ UNCHANGED full
        BY <1>1 DEF Prune
    <2>2. /\ Resident(M, full) /\ IsLedger(M)
          /\ \A f \in LedgerFields \ {"chain", "pruned"} : M[f] = ledger[f]
        BY ResidentPrune
    <2> HIDE DEF M
    <2> QED BY <2>1, <2>2 DEF PrunedTo
<1>2. CASE Restore
    <2>1. PICK k \in DOMAIN full :
              /\ full[k].height + 1 >= ledger.chain[2].height
              /\ ledger' = RestorePrunedHistory(ledger, Replay(SubSeq(full, 1, k)))
        BY <1>2 DEF Restore
    <2>2. ledger.pruned /\ UNCHANGED full
        BY <1>2 DEF Restore
    <2>3. k \in 1..Len(full)
        <3>1. PICK S : full \in Seq(S)
            BY DEF Chained
        <3> QED BY <3>1
    <2> DEFINE M == RestorePrunedHistory(ledger, Replay(SubSeq(full, 1, k)))
    <2>4. /\ Resident(M, full) /\ IsLedger(M)
          /\ \A f \in LedgerFields \ {"chain", "pruned"} : M[f] = ledger[f]
        BY <2>1, <2>2, <2>3, ResidentRestore
    <2>5. ledger' = M
        BY <2>1
    <2> HIDE DEF M
    <2> QED BY <2>2, <2>4, <2>5 DEF PrunedTo
<1> QED BY <1>1, <1>2

\* Pruning and restoring leave the supply alone.
LEMMA SupplyAtPruning ==
    ASSUME SupplyInv, NEW M, PrunedTo(M)
    PROVE  SupplyInv'
PROOF
<1>1. M.utxos = ledger.utxos /\ M.mined = ledger.mined
    BY DEF PrunedTo, LedgerFields
<1>2. SupplyConserved'
    BY <1>1 DEF PrunedTo, SupplyInv, SupplyConserved
<1> QED BY <1>1, <1>2 DEF PrunedTo, SupplyInv

(* Theorem: fees are paid out in full, only mines create value and only burns destroy it,
   whatever blocks come and however the history is pruned and restored
   (reward_outputs_for_block, apply_validated_block). *)
THEOREM SupplyIsConserved == LedgerSpec => []SupplyConserved
PROOF
<1>1. LedgerInit => SupplyInv
    BY SupplyAtInit
<1>2. SupplyInv /\ [LedgerNext]_ledgerVars => SupplyInv'
    <2> SUFFICES ASSUME SupplyInv, [LedgerNext]_ledgerVars PROVE SupplyInv'
        OBVIOUS
    <2>1. Chained(full) /\ IsLedger(ledger) /\ Resident(ledger, full)
        BY DEF SupplyInv
    <2>2. CASE FinalizeTicketBlock \/ FinalizeRecoveryBlock
        BY <2>1, <2>2, StepsExtend, SupplyAtBlock
    <2>3. CASE Prune \/ Restore
        BY <2>1, <2>3, PruningKeeps, SupplyAtPruning
    <2>4. CASE UNCHANGED ledgerVars
        BY <2>4 DEF ledgerVars, SupplyInv, SupplyConserved
    <2> QED BY <2>2, <2>3, <2>4 DEF LedgerNext
<1>3. SupplyInv => SupplyConserved
    BY DEF SupplyInv
<1> QED BY <1>1, <1>2, <1>3, PTL DEF LedgerSpec

-----------------------------------------------------------------------------
(* What a node keeps is what a restart rebuilds.                             *)

\* Two ledgers that differ at most in the blocks they hold.
Agree(L, W) == \A f \in LedgerFields \ {"chain", "pruned"} : L[f] = W[f]

\* What spending and creating outputs reads of a ledger, field by field.
LineageLess(lineage, spent) == Drop(lineage, spent \cap DOMAIN lineage)

ValuesLess(lineage, values, utxos, spent) ==
    LET tracked == spent \cap DOMAIN lineage
        of(r) == {o \in tracked : lineage[o] = r}
        value(r) == values[r] - Sum([o \in of(r) |-> utxos[o].amount], of(r))
    IN  [r \in {r \in DOMAIN values : value(r) # 0} |-> value(r)]

OwnersLess(lineage, owners, utxos, spent) ==
    LET tracked == spent \cap DOMAIN lineage
        of(r) == {o \in tracked : lineage[o] = r}
        held(k) == Drop(owners[k], {o \in of(k[1]) : utxos[o].owner = k[2]})
    IN  [k \in {k \in DOMAIN owners : DOMAIN held(k) # {}} |-> held(k)]

(* Spending reads the outputs and the lineage indexes, and nothing else. *)
LEMMA SpendReads ==
    ASSUME NEW L, IsLedger(L), NEW spent
    PROVE  /\ SpendInputsWithLineage(L, spent).lineage = LineageLess(L.lineage, spent)
           /\ SpendInputsWithLineage(L, spent).values = ValuesLess(L.lineage, L.values, L.utxos, spent)
           /\ SpendInputsWithLineage(L, spent).owners = OwnersLess(L.lineage, L.owners, L.utxos, spent)
PROOF
<1> DEFINE M == SpendInputsWithLineage(L, spent)
           u == Drop(L.utxos, spent)
           l == LineageLess(L.lineage, spent)
           v == ValuesLess(L.lineage, L.values, L.utxos, spent)
           w == OwnersLess(L.lineage, L.owners, L.utxos, spent)
<1>1. M = [L EXCEPT !.utxos = u, !.lineage = l, !.values = v, !.owners = w]
    BY Zenon DEF SpendInputsWithLineage, LineageLess, ValuesLess, OwnersLess
<1> HIDE DEF M, u, l, v, w
<1>2. DOMAIN L = LedgerFields
    BY DEF IsLedger
<1>3. M.lineage = l /\ M.values = v /\ M.owners = w
    BY <1>1, <1>2 DEF LedgerFields
<1> QED BY <1>3 DEF M, l, v, w

\* And creating them, under a root.
LineageWith(lineage, t, root) ==
    Merge(lineage, [o \in DOMAIN CreatedOutputs(t) |-> root])

ValuesWith(values, t, root) ==
    LET created == CreatedOutputs(t)
        amount == [o \in DOMAIN created |-> created[o].amount]
        before(f, k, none) == IF k \in DOMAIN f THEN f[k] ELSE none
    IN  Merge(values, [r \in {root} |-> before(values, root, 0) + Sum(amount, DOMAIN created)])

OwnersWith(owners, t, root) ==
    LET created == CreatedOutputs(t)
        amount == [o \in DOMAIN created |-> created[o].amount]
        ownerKeys == {<<root, created[o].owner>> : o \in DOMAIN created}
        of(k) == {o \in DOMAIN created : created[o].owner = k[2]}
        before(f, k, none) == IF k \in DOMAIN f THEN f[k] ELSE none
    IN  Merge(owners, [k \in ownerKeys |->
                    Merge(before(owners, k, << >>), [o \in of(k) |-> amount[o]])])

\* No lineage is recorded.
Rootless(t, root) == root = NoRoot \/ DOMAIN CreatedOutputs(t) = {}

(* So does creating. *)
LEMMA InsertReads ==
    ASSUME NEW L, IsLedger(L), NEW t, NEW root
    PROVE  /\ InsertOutputsWithLineage(L, t, root).lineage =
                IF Rootless(t, root) THEN L.lineage ELSE LineageWith(L.lineage, t, root)
           /\ InsertOutputsWithLineage(L, t, root).values =
                IF Rootless(t, root) THEN L.values ELSE ValuesWith(L.values, t, root)
           /\ InsertOutputsWithLineage(L, t, root).owners =
                IF Rootless(t, root) THEN L.owners ELSE OwnersWith(L.owners, t, root)
PROOF
<1> DEFINE M == InsertOutputsWithLineage(L, t, root)
           u == Merge(L.utxos, CreatedOutputs(t))
           K == [L EXCEPT !.utxos = u]
           Q == Rootless(t, root)
           l == LineageWith(K.lineage, t, root)
           v == ValuesWith(K.values, t, root)
           w == OwnersWith(K.owners, t, root)
<1>1. M = IF Q THEN K ELSE [K EXCEPT !.lineage = l, !.values = v, !.owners = w]
    BY Zenon DEF InsertOutputsWithLineage, LineageWith, ValuesWith, OwnersWith, Rootless
<1>2. DOMAIN L = LedgerFields
    BY DEF IsLedger
<1> HIDE DEF M, u, Q, l, v, w
<1>3. /\ DOMAIN K = LedgerFields
      /\ K.lineage = L.lineage /\ K.values = L.values /\ K.owners = L.owners
    BY <1>2 DEF LedgerFields
<1> HIDE DEF K
<1>4. CASE Q
    <2>1. M = K
        BY <1>1, <1>4
    <2> QED BY <1>3, <1>4, <2>1 DEF M, Q
<1>5. CASE ~Q
    <2>1. M = [K EXCEPT !.lineage = l, !.values = v, !.owners = w]
        BY <1>1, <1>5
    <2>2. M.lineage = l /\ M.values = v /\ M.owners = w
        BY <1>3, <2>1 DEF LedgerFields
    <2>3. /\ l = LineageWith(L.lineage, t, root) /\ v = ValuesWith(L.values, t, root)
          /\ w = OwnersWith(L.owners, t, root)
        BY <1>3 DEF l, v, w
    <2> QED BY <1>5, <2>2, <2>3 DEF M, Q
<1> QED BY <1>4, <1>5

\* Spending keeps two ledgers alike.
LEMMA SpendAgrees ==
    ASSUME NEW L, IsLedger(L), NEW W, IsLedger(W), Agree(L, W), NEW spent
    PROVE  Agree(SpendInputsWithLineage(L, spent), SpendInputsWithLineage(W, spent))
PROOF
<1> DEFINE M == SpendInputsWithLineage(L, spent)
           N == SpendInputsWithLineage(W, spent)
<1>1. L.utxos = W.utxos /\ L.lineage = W.lineage /\ L.values = W.values /\ L.owners = W.owners
    BY DEF Agree, LedgerFields
<1>2. /\ M.lineage = LineageLess(L.lineage, spent)
      /\ M.values = ValuesLess(L.lineage, L.values, L.utxos, spent)
      /\ M.owners = OwnersLess(L.lineage, L.owners, L.utxos, spent)
      /\ M.utxos = Drop(L.utxos, spent)
      /\ \A f \in LedgerFields \ SpentFields : M[f] = L[f]
    BY SpendReads, SpendFields
<1>3. /\ N.lineage = LineageLess(W.lineage, spent)
      /\ N.values = ValuesLess(W.lineage, W.values, W.utxos, spent)
      /\ N.owners = OwnersLess(W.lineage, W.owners, W.utxos, spent)
      /\ N.utxos = Drop(W.utxos, spent)
      /\ \A f \in LedgerFields \ SpentFields : N[f] = W[f]
    BY SpendReads, SpendFields
<1> HIDE DEF M, N
<1>4. M.lineage = N.lineage /\ M.values = N.values /\ M.owners = N.owners /\ M.utxos = N.utxos
    BY <1>1, <1>2, <1>3
<1>5. \A f \in LedgerFields \ SpentFields : f \notin {"chain", "pruned"} => M[f] = N[f]
    BY <1>2, <1>3 DEF Agree
<1>6. Agree(M, N)
    BY <1>4, <1>5 DEF Agree, SpentFields
<1> QED BY <1>6 DEF M, N

\* Creating outputs keeps two ledgers alike.
LEMMA InsertAgrees ==
    ASSUME NEW L, IsLedger(L), NEW W, IsLedger(W), Agree(L, W), NEW t, NEW root
    PROVE  Agree(InsertOutputsWithLineage(L, t, root), InsertOutputsWithLineage(W, t, root))
PROOF
<1> DEFINE M == InsertOutputsWithLineage(L, t, root)
           N == InsertOutputsWithLineage(W, t, root)
<1>1. L.utxos = W.utxos /\ L.lineage = W.lineage /\ L.values = W.values /\ L.owners = W.owners
    BY DEF Agree, LedgerFields
<1>2. /\ M.lineage = IF Rootless(t, root) THEN L.lineage ELSE LineageWith(L.lineage, t, root)
      /\ M.values = IF Rootless(t, root) THEN L.values ELSE ValuesWith(L.values, t, root)
      /\ M.owners = IF Rootless(t, root) THEN L.owners ELSE OwnersWith(L.owners, t, root)
      /\ M.utxos = Merge(L.utxos, CreatedOutputs(t))
      /\ \A f \in LedgerFields \ SpentFields : M[f] = L[f]
    BY InsertReads, InsertFields
<1>3. /\ N.lineage = IF Rootless(t, root) THEN W.lineage ELSE LineageWith(W.lineage, t, root)
      /\ N.values = IF Rootless(t, root) THEN W.values ELSE ValuesWith(W.values, t, root)
      /\ N.owners = IF Rootless(t, root) THEN W.owners ELSE OwnersWith(W.owners, t, root)
      /\ N.utxos = Merge(W.utxos, CreatedOutputs(t))
      /\ \A f \in LedgerFields \ SpentFields : N[f] = W[f]
    BY InsertReads, InsertFields
<1> HIDE DEF M, N
<1>4. M.lineage = N.lineage /\ M.values = N.values /\ M.owners = N.owners /\ M.utxos = N.utxos
    BY <1>1, <1>2, <1>3
<1>5. \A f \in LedgerFields \ SpentFields : f \notin {"chain", "pruned"} => M[f] = N[f]
    BY <1>2, <1>3 DEF Agree
<1>6. Agree(M, N)
    BY <1>4, <1>5 DEF Agree, SpentFields
<1> QED BY <1>6 DEF M, N

\* The roots that the inputs of a transaction descend from.
RootsSpent(lineage, t) == {lineage[o] : o \in Inputs(t) \cap DOMAIN lineage}

\* A transaction keeps two ledgers alike.
LEMMA TransactionAgrees ==
    ASSUME NEW L, IsLedger(L), NEW W, IsLedger(W), Agree(L, W), NEW t, NEW height
    PROVE  Agree(ApplyTransactionWithLineage(L, t, height), ApplyTransactionWithLineage(W, t, height))
PROOF
<1>1. CASE IsMine(t)
    BY <1>1, InsertAgrees DEF ApplyTransactionWithLineage
<1>2. CASE ~IsMine(t)
    <2> DEFINE S == SpendInputsWithLineage(L, Inputs(t))
               T == SpendInputsWithLineage(W, Inputs(t))
               r == NewestLineageRoot(RootsSpent(L.lineage, t))
               q == NewestLineageRoot(RootsSpent(W.lineage, t))
    <2>1. ApplyTransactionWithLineage(L, t, height) = InsertOutputsWithLineage(S, t, r)
        BY <1>2, Zenon DEF ApplyTransactionWithLineage, RootsSpent
    <2>2. ApplyTransactionWithLineage(W, t, height) = InsertOutputsWithLineage(T, t, q)
        BY <1>2, Zenon DEF ApplyTransactionWithLineage, RootsSpent
    <2>3. L.lineage = W.lineage
        BY DEF Agree, LedgerFields
    <2>4. r = q
        BY <2>3
    <2>5. IsLedger(S) /\ IsLedger(T) /\ Agree(S, T)
        BY SpendFields, SpendAgrees
    <2> HIDE DEF S, T, r, q
    <2>6. Agree(InsertOutputsWithLineage(S, t, r), InsertOutputsWithLineage(T, t, r))
        BY <2>5, InsertAgrees
    <2> QED BY <2>1, <2>2, <2>4, <2>6
<1> QED BY <1>1, <1>2

\* The transactions of a block keep two ledgers alike.
LEMMA TransactionsAgree ==
    ASSUME NEW L, Shaped(L), NEW W, Shaped(W), Agree(L, W), NEW b, Body(b) \in Seq(TxIds)
    PROVE  /\ Agree(ApplyTransactions(L, b), ApplyTransactions(W, b))
           /\ IsLedger(ApplyTransactions(L, b)) /\ IsLedger(ApplyTransactions(W, b))
           /\ ApplyTransactions(L, b).chain = L.chain
           /\ ApplyTransactions(W, b).chain = W.chain
PROOF
<1> DEFINE txs == Body(b)
           height == b.height
           n == Len(txs)
           f == LedgerAfter(L, txs, height)
           g == LedgerAfter(W, txs, height)
           Fit(M) == IsLedger(M) /\ M.utxos = [o \in DOMAIN M.utxos |-> M.utxos[o]]
           Holds(i) == Fit(f[i]) /\ Fit(g[i]) /\ Agree(f[i], g[i])
           N == {i \in Nat : i <= n => Holds(i)}
<1>1. n \in Nat /\ \A i \in 1..n : txs[i] \in TxIds
    OBVIOUS
<1>2. f[0] = L /\ \A i \in 1..n : f[i] = ApplyTransactionWithLineage(f[i - 1], txs[i], height)
    BY <1>1, LedgerAfterSteps
<1>3. g[0] = W /\ \A i \in 1..n : g[i] = ApplyTransactionWithLineage(g[i - 1], txs[i], height)
    BY <1>1, LedgerAfterSteps
<1>4. ApplyTransactions(L, b) = f[n] /\ ApplyTransactions(W, b) = g[n]
    BY DEF ApplyTransactions
<1>5. \A i \in LedgerFields \ SpentFields : f[n][i] = L[i] /\ g[n][i] = W[i]
    BY ApplyTransactionsFields DEF Shaped
<1>6. ASSUME NEW M, Fit(M), NEW t \in TxIds PROVE Fit(ApplyTransactionWithLineage(M, t, height))
    <2> DEFINE K == ApplyTransactionWithLineage(M, t, height)
    <2>1. IsLedger(K) /\ K.utxos = AfterSpending(t, M.utxos)
        BY <1>6, ApplyTransactionFields
    <2> HIDE DEF K
    <2>2. K.utxos = [o \in DOMAIN K.utxos |-> K.utxos[o]]
        BY <2>1 DEF AfterSpending, Merge
    <2> QED BY <2>1, <2>2 DEF K
<1> HIDE DEF n, f, g, txs, height
<1>7. 0 \in N
    BY <1>2, <1>3 DEF Shaped
<1>8. ASSUME NEW i \in Nat, i \in N PROVE i + 1 \in N
    <2> SUFFICES ASSUME i + 1 <= n PROVE Holds(i + 1)
        OBVIOUS
    <2> DEFINE k == i + 1
               t == txs[k]
    <2>1. k \in 1..n /\ k - 1 = i
        BY <1>1
    <2>2. Fit(f[i]) /\ Fit(g[i]) /\ Agree(f[i], g[i])
        BY <1>8, <1>1
    <2> HIDE DEF k
    <2>3. /\ t \in TxIds /\ f[k] = ApplyTransactionWithLineage(f[i], t, height)
          /\ g[k] = ApplyTransactionWithLineage(g[i], t, height)
        BY <1>1, <1>2, <1>3, <2>1
    <2> HIDE DEF t
    <2>4. Fit(f[k]) /\ Fit(g[k])
        <3> HIDE DEF Fit
        <3> QED BY <1>6, <2>2, <2>3
    <2>5. Agree(f[k], g[k])
        BY <2>2, <2>3, TransactionAgrees
    <2>6. Holds(k)
        BY <2>4, <2>5
    <2> QED BY <2>6 DEF k
<1>9. n \in N
    <2> HIDE DEF N
    <2> QED BY <1>1, <1>7, <1>8, NatSetInduction
<1>10. Holds(n)
    BY <1>1, <1>9
<1>11. "chain" \in LedgerFields \ SpentFields
    BY DEF LedgerFields, SpentFields
<1>12. f[n].chain = L.chain /\ g[n].chain = W.chain
    BY <1>5, <1>11
<1> QED BY <1>4, <1>10, <1>12

\* The positions of the last w blocks of a chain of n.
LastOnes(n, w) == (n - w + 1)..n

(* The mines of the last blocks are counted alike in the resident chain and in the whole. *)
LEMMA WindowsAgree ==
    ASSUME NEW blocks, Chained(blocks), NEW L, Resident(L, blocks), L.pruned
    PROVE  LET c == L.chain
               recent == {i \in DOMAIN c : i > Len(c) - MineWindow}
               past == {i \in DOMAIN blocks : i > Len(blocks) - MineWindow}
           IN  Sum([i \in recent |-> MineActionCount(c[i])], recent)
               = Sum([i \in past |-> MineActionCount(blocks[i])], past)
PROOF
<1> DEFINE c == L.chain
           k == Len(c)
           n == Len(blocks)
           w == MineWindow
           recent == {i \in DOMAIN c : i > k - w}
           past == {i \in DOMAIN blocks : i > n - w}
           f == [i \in recent |-> MineActionCount(c[i])]
           g == [i \in past |-> MineActionCount(blocks[i])]
<1>1. PICK m \in 2..(n + 1) :
          /\ Suffix(c, blocks, m)
          /\ IF L.pruned THEN m <= n - ResidentBlocks + 1 ELSE m = 2
    BY DEF Resident
<1>2. /\ n \in Nat \ {0} /\ k \in Nat \ {0} /\ k <= n
      /\ k = n - m + 2 /\ m \in Nat
    BY <1>1, SuffixLen
<1>3. ResidentBlocks \in Nat /\ w \in 1..ResidentBlocks
    BY ChainAssumption
<1>4. DOMAIN c = 1..k
    <2>1. PICK S : c \in Seq(S)
        BY <1>1 DEF Suffix
    <2> QED BY <2>1
<1>5. DOMAIN blocks = 1..n
    <2>1. PICK S : blocks \in Seq(S)
        BY DEF Chained
    <2> QED BY <2>1
<1>6. \A j \in 0..(w - 1) : j < k /\ c[k - j] = blocks[n - j]
    <2> SUFFICES ASSUME NEW j \in 0..(w - 1) PROVE j < k /\ c[k - j] = blocks[n - j]
        OBVIOUS
    <2>1. j \in Nat /\ j < ResidentBlocks
        BY <1>3
    <2>2. j < n
        <3>1. ResidentBlocks <= n - m + 1
            BY <1>1, <1>2, <1>3
        <3> QED BY <1>2, <1>3, <2>1, <3>1
    <2> QED BY <2>1, <2>2, LastBlocks
<1>7. \A i \in 1..k : MineActionCount(c[i]) \in Int
    <2> SUFFICES ASSUME NEW i \in 1..k PROVE MineActionCount(c[i]) \in Int
        OBVIOUS
    <2>1. \E j \in 1..n : c[i] = blocks[j]
        <3>1. CASE i = 1
            BY <1>1, <1>2, <3>1 DEF Suffix
        <3>2. CASE i # 1
            <4>1. i \in 2..k
                BY <3>2
            <4>2. c[i] = blocks[m + i - 2]
                BY <1>1, <4>1 DEF Suffix
            <4>3. m + i - 2 \in 1..n
                BY <1>2, <4>1
            <4> QED BY <4>2, <4>3
        <3> QED BY <3>1, <3>2
    <2>2. PICK j \in 1..n : c[i] = blocks[j]
        BY <2>1
    <2> DEFINE v == blocks[j].v1
               P == {x \in DOMAIN v : IsMine(v[x])}
    <2>3. v \in Seq(TxIds)
        BY DEF Chained
    <2>4. Len(v) \in Nat /\ DOMAIN v = 1..Len(v)
        BY <2>3
    <2> HIDE DEF v
    <2>5. IsFiniteSet(1..Len(v))
        <3> DEFINE z == Len(v)
        <3>1. 1 \in Int /\ z \in Int
            BY <2>4
        <3> HIDE DEF z
        <3>2. IsFiniteSet(1..z)
            BY <3>1, FS_Interval
        <3> QED BY <3>2 DEF z
    <2>6. P \subseteq 1..Len(v)
        BY <2>4
    <2>7. IsFiniteSet(P)
        <3> HIDE DEF P
        <3> QED BY <2>5, <2>6, FS_Subset
    <2>8. Cardinality(P) \in Nat
        <3> HIDE DEF P
        <3> QED BY <2>7, FS_CardinalityType
    <2>9. MineActionCount(c[i]) = Cardinality(P)
        BY <2>2 DEF MineActionCount, v
    <2> QED BY <2>8, <2>9
<1> HIDE DEF c, k, n, w
<1>8. w <= k /\ w <= n /\ w \in Nat
    <2>1. w - 1 \in 0..(w - 1)
        BY <1>3
    <2>2. w - 1 < k
        BY <1>6, <2>1
    <2> QED BY <1>2, <1>3, <2>2
<1>9. recent = {i \in 1..k : i > k - w} /\ past = {i \in 1..n : i > n - w}
    BY <1>4, <1>5
<1> DEFINE d == n - k
           h == [i \in recent |-> i + d]
<1>10. d \in Int /\ n = k + d
    BY <1>2
<1> HIDE DEF d
<1>11. past = {h[i] : i \in recent}
    <2>1. ASSUME NEW x \in past PROVE \E i \in recent : x = h[i]
        <3>1. x \in Int /\ x - d \in recent
            BY <1>2, <1>3, <1>8, <1>9, <1>10
        <3>2. h[x - d] = x
            BY <1>10, <3>1
        <3> QED BY <3>1, <3>2
    <2>2. ASSUME NEW i \in recent PROVE h[i] \in past
        BY <1>2, <1>3, <1>8, <1>9, <1>10
    <2> HIDE DEF h, recent, past
    <2> QED BY <2>1, <2>2
<1>12. \A i, j \in recent : h[i] = h[j] => i = j
    BY <1>2, <1>9, <1>10
<1>13. \A i \in recent : f[i] = g[h[i]] /\ f[i] \in Int
    <2> SUFFICES ASSUME NEW i \in recent PROVE f[i] = g[h[i]] /\ f[i] \in Int
        OBVIOUS
    <2>1. i \in 1..k /\ i > k - w
        BY <1>9
    <2> DEFINE j == k - i
    <2>2. j \in 0..(w - 1) /\ k - j = i /\ n - j = i + d
        BY <1>2, <1>3, <1>8, <1>10, <2>1
    <2>3. c[i] = blocks[i + d]
        BY <1>6, <2>2
    <2>4. h[i] = i + d /\ h[i] \in past
        BY <1>11
    <2>5. f[i] = MineActionCount(c[i]) /\ g[h[i]] = MineActionCount(blocks[i + d])
        BY <2>4
    <2>6. MineActionCount(c[i]) \in Int
        BY <1>7, <2>1
    <2> QED BY <2>3, <2>5, <2>6
<1>14. IsFiniteSet(recent)
    <2>1. IsFiniteSet(1..k)
        <3>1. 1 \in Int /\ k \in Int
            BY <1>2
        <3> QED BY <3>1, FS_Interval
    <2>2. recent \subseteq 1..k
        BY <1>9
    <2> HIDE DEF recent
    <2> QED BY <2>1, <2>2, FS_Subset
<1> HIDE DEF f, g, recent, past
<1>15. h \in [recent -> past]
    <2>1. \A i \in recent : h[i] \in past
        BY <1>11
    <2> QED BY <2>1
<1> HIDE DEF h
<1>16. Sum(f, recent) = Sum(g, past)
    BY <1>11, <1>12, <1>13, <1>14, <1>15, SumImage
<1> QED BY <1>16 DEF f, g, recent, past, c, k, n, w

\* What a block does to the indexes that read past blocks.
DrawsWith(draws, seed, tickets, b) ==
    LET kept == {h \in DOMAIN draws : h > b.height - DrawBlocks}
    IN  [h \in kept \cup {b.height} |->
            IF h # b.height THEN draws[h]
            ELSE [hash |-> b.hash, seed |-> seed, tickets |-> EligibleTickets(tickets, b.height)]]

ObservationsWith(observations, tip, b) ==
    LET observed == Clamp(b.time - tip.time, TargetTime \div 4, TargetTime * 4)
        all == Append(observations, observed)
    IN  IF tip.height = 0 \/ b.mode # "ticket" \/ b.rank # 0 THEN observations
        ELSE IF Len(all) > RoundsWindow THEN Tail(all) ELSE all

RoundsWith(rounds, observations, tip) ==
    IF tip.height < 2 \/ observations = << >> THEN rounds
    ELSE RetargetVdfRounds(tip.rounds \div (tip.rank + 1), SumSeq(observations) \div Len(observations))

WindowsWith(windows, height, actions) ==
    IF height = 0 \/ height % MineWindow # 0 \/ Len(windows) >= height \div MineWindow + 1
    THEN windows
    ELSE Append(windows, RetargetMineDifficultyBits(Last(windows), actions))

\* The mines of the last window.
ActionsOf(c) ==
    LET recent == {i \in DOMAIN c : i > Len(c) - MineWindow}
    IN  Sum([i \in recent |-> MineActionCount(c[i])], recent)

(* The draws read the tip and the tickets of a ledger, and no block below the tip. *)
LEMMA DrawsAgree ==
    ASSUME NEW L, IsLedger(L), NEW W, IsLedger(W), Agree(L, W), Tip(L) = Tip(W), NEW b
    PROVE  /\ ApplyFinalizerTicketEffects(L, b) = ApplyFinalizerTicketEffects(W, b)
           /\ BurnCommitteeForBlock(L, b) = BurnCommitteeForBlock(W, b)
           /\ RecordTicketDraw(L, b) = RecordTicketDraw(W, b)
           /\ RecordVdfRetargetObservation(L, b) = RecordVdfRetargetObservation(W, b)
PROOF
<1>1. /\ L.tickets = W.tickets /\ L.draws = W.draws /\ L.observations = W.observations
    BY DEF Agree, LedgerFields
<1>2. NextRanks(L) = NextRanks(W)
    BY <1>1 DEF NextRanks, NextHeight
<1>3. AtTip(L) = AtTip(W)
    <2> DEFINE c == <<Tip(L)>>
               no == FALSE
    <2>1. AtTip(L) = [L EXCEPT !.chain = c, !.pruned = no]
        BY DEF AtTip
    <2>2. AtTip(W) = [W EXCEPT !.chain = c, !.pruned = no]
        BY DEF AtTip
    <2> HIDE DEF c, no
    <2>3. DOMAIN L = LedgerFields /\ DOMAIN W = LedgerFields
        BY DEF IsLedger
    <2> DEFINE A == [L EXCEPT !.chain = c, !.pruned = no]
               B == [W EXCEPT !.chain = c, !.pruned = no]
    <2>4. /\ A = [f \in LedgerFields |-> A[f]] /\ B = [f \in LedgerFields |-> B[f]]
        BY <2>3
    <2>5. /\ A.chain = c /\ A.pruned = no /\ B.chain = c /\ B.pruned = no
        BY <2>3 DEF LedgerFields
    <2>6. ASSUME NEW f \in LedgerFields, f \notin {"chain", "pruned"} PROVE A[f] = L[f] /\ B[f] = W[f]
        BY <2>3, <2>6
    <2>7. \A f \in LedgerFields : A[f] = B[f]
        <3> HIDE DEF A, B
        <3> QED BY <2>5, <2>6 DEF Agree
    <2> HIDE DEF A, B
    <2>8. A = B
        BY <2>4, <2>7
    <2> QED BY <2>1, <2>2, <2>8 DEF A, B
<1>4. InvalidatedTicketIds(L, b) = InvalidatedTicketIds(W, b)
    BY <1>2, <1>3 DEF InvalidatedTicketIds
<1>5. ApplyFinalizerTicketEffects(L, b) = ApplyFinalizerTicketEffects(W, b)
    BY <1>1, <1>4 DEF ApplyFinalizerTicketEffects
<1>6. BurnCommitteeForBlock(L, b) = BurnCommitteeForBlock(W, b)
    BY <1>2, <1>3 DEF BurnCommitteeForBlock, LineageBurnCommittee
<1>7. RecordTicketDraw(L, b) = RecordTicketDraw(W, b)
    <2>1. RecordTicketDraw(L, b) = DrawsWith(L.draws, Tip(L).seed, L.tickets, b)
        BY Zenon DEF RecordTicketDraw, DrawsWith
    <2>2. RecordTicketDraw(W, b) = DrawsWith(W.draws, Tip(W).seed, W.tickets, b)
        BY Zenon DEF RecordTicketDraw, DrawsWith
    <2> QED BY <1>1, <2>1, <2>2
<1>8. RecordVdfRetargetObservation(L, b) = RecordVdfRetargetObservation(W, b)
    <2>1. RecordVdfRetargetObservation(L, b) = ObservationsWith(L.observations, Tip(L), b)
        BY Zenon DEF RecordVdfRetargetObservation, ObservationsWith
    <2>2. RecordVdfRetargetObservation(W, b) = ObservationsWith(W.observations, Tip(W), b)
        BY Zenon DEF RecordVdfRetargetObservation, ObservationsWith
    <2> QED BY <1>1, <2>1, <2>2
<1> QED BY <1>5, <1>6, <1>7, <1>8

(* A ledger that holds its last blocks retargets as one that holds them all. *)
LEMMA RetargetAgrees ==
    ASSUME NEW blocks, Chained(blocks), NEW L, Resident(L, blocks), NEW W, W.chain = blocks,
           L.windows = W.windows
    PROVE  UpdateMineDifficultyCache(L) = UpdateMineDifficultyCache(W)
PROOF
<1>1. UpdateMineDifficultyCache(L) = WindowsWith(L.windows, Tip(L).height, ActionsOf(L.chain))
    BY Zenon DEF UpdateMineDifficultyCache, WindowsWith, ActionsOf
<1>2. UpdateMineDifficultyCache(W) = WindowsWith(W.windows, Tip(W).height, ActionsOf(W.chain))
    BY Zenon DEF UpdateMineDifficultyCache, WindowsWith, ActionsOf
<1>3. Tip(L) = Tip(W)
    BY TipResident DEF Tip
<1>4. ActionsOf(L.chain) = ActionsOf(blocks)
    <2>1. CASE L.pruned
        BY <2>1, WindowsAgree DEF ActionsOf
    <2>2. CASE ~L.pruned
        <3>1. L.chain = blocks
            BY <2>2, WholeChain
        <3> QED BY <3>1
    <2> QED BY <2>1, <2>2
<1> QED BY <1>1, <1>2, <1>3, <1>4

(* A block changes what a pruned ledger keeps as it changes a whole ledger. *)
LEMMA BlockAgrees ==
    ASSUME NEW blocks, Chained(blocks), NEW L, Shaped(L), Resident(L, blocks),
           NEW W, Shaped(W), W.chain = blocks, Agree(L, W),
           NEW b, b.hash = Len(blocks), b.height = Len(blocks),
           Body(b) \in Seq(TxIds), b.v1 \in Seq(TxIds)
    PROVE  Agree(ApplyTrustedBlock(L, b), ApplyTrustedBlock(W, b))
PROOF
<1> DEFINE M == ApplyTransactions(L, b)
           N == ApplyTransactions(W, b)
           A == WithBlockEffects(L, b, M)
           B == WithBlockEffects(W, b, N)
           C == WithWindows(A)
           D == WithWindows(B)
           E == WithNextRounds(C)
           F == WithNextRounds(D)
           more == Append(blocks, b)
<1>1. ApplyTrustedBlock(L, b) = E /\ ApplyTrustedBlock(W, b) = F
    BY DEF ApplyTrustedBlock
<1>2. /\ Agree(M, N) /\ IsLedger(M) /\ IsLedger(N)
      /\ M.chain = L.chain /\ N.chain = blocks
    BY TransactionsAgree
<1>3. Tip(L) = Tip(W)
    BY TipResident DEF Tip
<1>4. IsLedger(L) /\ IsLedger(W)
    BY DEF Shaped
<1> DEFINE tickets == ApplyFinalizerTicketEffects(L, b) \o TicketsCreatedByBlock(b)
           reward == RewardOutputs(b, b.reward, OwnersBySlot(BurnCommitteeForBlock(L, b)))
           draws == RecordTicketDraw(L, b)
           observed == RecordVdfRetargetObservation(L, b)
           binds == Merge(HybridBindings(b), M.binds)
           mined == M.mined \cup Range(Body(b))
           utxos == Merge(M.utxos, reward)
           chain == Append(L.chain, b)
<1>5. A = [M EXCEPT !.binds = binds, !.tickets = tickets, !.utxos = utxos, !.mined = mined,
                    !.draws = draws, !.observations = observed, !.chain = chain]
    BY <1>2 DEF WithBlockEffects, CreditRewardOutputs
<1>6. B = [N EXCEPT !.binds = binds, !.tickets = tickets, !.utxos = utxos, !.mined = mined,
                    !.draws = draws, !.observations = observed, !.chain = more]
    <2>1. /\ ApplyFinalizerTicketEffects(L, b) = ApplyFinalizerTicketEffects(W, b)
          /\ BurnCommitteeForBlock(L, b) = BurnCommitteeForBlock(W, b)
          /\ RecordTicketDraw(L, b) = RecordTicketDraw(W, b)
          /\ RecordVdfRetargetObservation(L, b) = RecordVdfRetargetObservation(W, b)
        BY <1>3, <1>4, DrawsAgree
    <2>2. N.binds = M.binds /\ N.mined = M.mined /\ N.utxos = M.utxos
        BY <1>2 DEF Agree, LedgerFields
    <2>3. B = [N EXCEPT !.binds = Merge(HybridBindings(b), N.binds),
                        !.tickets = ApplyFinalizerTicketEffects(W, b) \o TicketsCreatedByBlock(b),
                        !.utxos = Merge(N.utxos, RewardOutputs(b, b.reward, OwnersBySlot(BurnCommitteeForBlock(W, b)))),
                        !.mined = N.mined \cup Range(Body(b)),
                        !.draws = RecordTicketDraw(W, b),
                        !.observations = RecordVdfRetargetObservation(W, b),
                        !.chain = Append(N.chain, b)]
        BY DEF WithBlockEffects, CreditRewardOutputs
    <2> HIDE DEF B, N, M
    <2> QED BY <1>2, <2>1, <2>2, <2>3
<1> HIDE DEF M, N, tickets, reward, draws, observed, binds, mined, utxos, chain, more
<1>7. DOMAIN M = LedgerFields /\ DOMAIN N = LedgerFields
    BY <1>2 DEF IsLedger
<1> HIDE DEF A, B
<1> DEFINE Set == {"binds", "tickets", "utxos", "mined", "draws", "observations", "chain"}
<1>8. /\ IsLedger(A) /\ A.chain = chain /\ A.binds = binds /\ A.tickets = tickets /\ A.utxos = utxos
      /\ A.mined = mined /\ A.draws = draws /\ A.observations = observed
      /\ \A f \in LedgerFields \ Set : A[f] = M[f]
    BY <1>5, <1>7 DEF IsLedger, LedgerFields
<1>9. /\ IsLedger(B) /\ B.chain = more /\ B.binds = binds /\ B.tickets = tickets /\ B.utxos = utxos
      /\ B.mined = mined /\ B.draws = draws /\ B.observations = observed
      /\ \A f \in LedgerFields \ Set : B[f] = N[f]
    BY <1>6, <1>7 DEF IsLedger, LedgerFields
<1>10. Agree(A, B)
    <2> SUFFICES ASSUME NEW f \in LedgerFields \ {"chain", "pruned"} PROVE A[f] = B[f]
        BY DEF Agree
    <2>1. CASE f \in Set
        BY <1>8, <1>9, <2>1
    <2>2. CASE f \notin Set
        <3>1. A[f] = M[f] /\ B[f] = N[f]
            BY <1>8, <1>9, <2>2
        <3> QED BY <1>2, <3>1 DEF Agree
    <2> QED BY <2>1, <2>2
<1>11. A.pruned = L.pruned
    <2>1. "pruned" \in LedgerFields \ Set /\ "pruned" \in LedgerFields \ SpentFields
        BY DEF LedgerFields, SpentFields
    <2>2. M.pruned = L.pruned
        BY <2>1, ApplyTransactionsFields DEF M, ApplyTransactions, Shaped
    <2> QED BY <1>8, <2>1, <2>2
<1>12. Chained(more) /\ Resident(A, more)
    BY <1>8, <1>11, ChainedAppend, ResidentAppend DEF chain, more
<1> DEFINE windows == UpdateMineDifficultyCache(A)
<1>13. windows = UpdateMineDifficultyCache(B)
    <2>1. A.windows = B.windows
        BY <1>10 DEF Agree, LedgerFields
    <2> QED BY <1>9, <1>12, <2>1, RetargetAgrees
<1>14. C = [A EXCEPT !.windows = windows] /\ D = [B EXCEPT !.windows = windows]
    BY <1>13 DEF WithWindows
<1> HIDE DEF C, D, windows
<1>15. DOMAIN A = LedgerFields /\ DOMAIN B = LedgerFields
    BY <1>8, <1>9 DEF IsLedger
<1>16. /\ IsLedger(C) /\ C.windows = windows /\ \A f \in LedgerFields \ {"windows"} : C[f] = A[f]
      /\ IsLedger(D) /\ D.windows = windows /\ \A f \in LedgerFields \ {"windows"} : D[f] = B[f]
    BY <1>14, <1>15 DEF IsLedger, LedgerFields
<1>17. Agree(C, D)
    BY <1>10, <1>16 DEF Agree
<1>18. Tip(C) = Tip(D)
    <2>1. C.chain = A.chain /\ D.chain = more
        BY <1>9, <1>16 DEF LedgerFields
    <2>2. Tip(A) = more[Len(more)]
        BY <1>12, TipResident
    <2> QED BY <2>1, <2>2 DEF Tip
<1> DEFINE rounds == NextVdfRoundsAfterTip(C)
<1>19. rounds = NextVdfRoundsAfterTip(D)
    <2>1. C.rounds = D.rounds /\ C.observations = D.observations
        BY <1>17 DEF Agree, LedgerFields
    <2>2. /\ NextVdfRoundsAfterTip(C) = RoundsWith(C.rounds, C.observations, Tip(C))
          /\ NextVdfRoundsAfterTip(D) = RoundsWith(D.rounds, D.observations, Tip(D))
        BY Zenon DEF NextVdfRoundsAfterTip, RoundsWith
    <2> QED BY <1>18, <2>1, <2>2
<1>20. E = [C EXCEPT !.rounds = rounds] /\ F = [D EXCEPT !.rounds = rounds]
    BY <1>19 DEF WithNextRounds
<1> HIDE DEF E, F, rounds
<1>21. DOMAIN C = LedgerFields /\ DOMAIN D = LedgerFields
    BY <1>16 DEF IsLedger
<1>22. /\ E.rounds = rounds /\ \A f \in LedgerFields \ {"rounds"} : E[f] = C[f]
      /\ F.rounds = rounds /\ \A f \in LedgerFields \ {"rounds"} : F[f] = D[f]
    BY <1>20, <1>21 DEF LedgerFields
<1>23. Agree(E, F)
    BY <1>17, <1>22 DEF Agree
<1> QED BY <1>1, <1>23

\* The larger of 1 and a number that is not below it.
LEMMA MaxAbove ==
    ASSUME NEW x \in Int, x >= 1
    PROVE  Max({1, x}) = x
PROOF
<1>1. x \in {1, x} /\ \A y \in {1, x} : x >= y
    OBVIOUS
<1>2. \A z \in {1, x} : (\A y \in {1, x} : z >= y) => z = x
    OBVIOUS
<1> QED BY <1>1, <1>2 DEF Max

\* The blocks whose times are looked at, and the median of some.
LastBlocksOf(c) == SubSeq(c, Max({1, Len(c) - MedianWindow + 1}), Len(c))
MedianOfBlocks(recent) == MedianOf([i \in DOMAIN recent |-> recent[i].time])

(* The times of the last blocks have the same median in the resident chain as in the whole. *)
LEMMA MedianAgrees ==
    ASSUME NEW blocks, Chained(blocks), NEW L, Resident(L, blocks), NEW W, W.chain = blocks
    PROVE  MedianTimePast(L) = MedianTimePast(W)
PROOF
<1>1. /\ MedianTimePast(L) = MedianOfBlocks(LastBlocksOf(L.chain))
      /\ MedianTimePast(W) = MedianOfBlocks(LastBlocksOf(W.chain))
    BY Zenon DEF MedianTimePast, MedianOfBlocks, LastBlocksOf
<1>2. CASE ~L.pruned
    BY <1>1, <1>2, WholeChain
<1>3. CASE L.pruned
    <2> DEFINE c == L.chain
               k == Len(c)
               n == Len(blocks)
               w == MedianWindow
               a == k - w + 1
               e == n - w + 1
    <2>1. PICK m \in 2..(n + 1) :
              /\ Suffix(c, blocks, m)
              /\ IF L.pruned THEN m <= n - ResidentBlocks + 1 ELSE m = 2
        BY DEF Resident
    <2>2. /\ n \in Nat \ {0} /\ k \in Nat \ {0} /\ k <= n /\ k = n - m + 2 /\ m \in Nat
        BY <2>1, SuffixLen
    <2>3. ResidentBlocks \in Nat /\ w \in 1..ResidentBlocks
        BY ChainAssumption
    <2>4. w \in Nat /\ 1 <= w /\ w < k /\ w < n
        <3>1. ResidentBlocks <= n - m + 1
            BY <1>3, <2>1, <2>2, <2>3
        <3> QED BY <2>2, <2>3, <3>1
    <2>5. \A j \in 0..(w - 1) : c[k - j] = blocks[n - j]
        <3> SUFFICES ASSUME NEW j \in 0..(w - 1) PROVE c[k - j] = blocks[n - j]
            OBVIOUS
        <3>1. j \in Nat /\ j < ResidentBlocks /\ j < n
            BY <2>2, <2>3, <2>4
        <3> QED BY <3>1, LastBlocks
    <2>6. PICK S : c \in Seq(S)
        BY <2>1 DEF Suffix
    <2>7. PICK T : blocks \in Seq(T)
        BY DEF Chained
    <2> DEFINE U == S \cup T
    <2>8. c \in Seq(U) /\ blocks \in Seq(U)
        BY <2>6, <2>7, SeqMonotonic
    <2> HIDE DEF U
    <2>9. (\A i \in 1..k : c[i] \in U) /\ (\A i \in 1..n : blocks[i] \in U)
        BY <2>8
    <2> HIDE DEF c, k, n, w
    <2>10. a \in Int /\ e \in Int /\ a >= 1 /\ e >= 1 /\ k - a + 1 = w /\ n - e + 1 = w /\ a <= k /\ e <= n
        BY <2>2, <2>4
    <2>11. (\A x \in a..k : c[x] \in U) /\ (\A x \in e..n : blocks[x] \in U)
        <3>1. a..k \subseteq 1..k /\ e..n \subseteq 1..n
            BY <2>2, <2>10
        <3> HIDE DEF a, e
        <3> QED BY <2>9, <3>1
    <2>12. \A i \in 1..w : c[a + i - 1] = blocks[e + i - 1]
        <3> SUFFICES ASSUME NEW i \in 1..w PROVE c[a + i - 1] = blocks[e + i - 1]
            OBVIOUS
        <3> DEFINE j == w - i
        <3>1. j \in 0..(w - 1) /\ k - j = a + i - 1 /\ n - j = e + i - 1
            BY <2>2, <2>4
        <3> QED BY <2>5, <3>1
    <2> HIDE DEF a, e
    <2>13. Max({1, a}) = a /\ Max({1, e}) = e
        BY <2>10, MaxAbove
    <2> DEFINE s == SubSeq(c, a, k)
               t == SubSeq(blocks, e, n)
    <2>14. /\ s \in Seq(U)
           /\ Len(s) = IF a <= k THEN k - a + 1 ELSE 0
           /\ \A i \in 1..(k - a + 1) : s[i] = c[a + i - 1]
        BY <2>2, <2>10, <2>11, SubSeqProperties
    <2>15. /\ t \in Seq(U)
           /\ Len(t) = IF e <= n THEN n - e + 1 ELSE 0
           /\ \A i \in 1..(n - e + 1) : t[i] = blocks[e + i - 1]
        BY <2>2, <2>10, <2>11, SubSeqProperties
    <2> HIDE DEF s, t
    <2>16. Len(s) = w /\ Len(t) = w /\ \A i \in 1..w : s[i] = t[i]
        BY <2>10, <2>12, <2>14, <2>15
    <2>17. s = t
        BY <2>14, <2>15, <2>16, SeqEqual
    <2>18. LastBlocksOf(c) = s /\ LastBlocksOf(blocks) = t
        <3>1. LastBlocksOf(c) = SubSeq(c, Max({1, a}), k)
            BY DEF LastBlocksOf, a, k, w
        <3>2. LastBlocksOf(blocks) = SubSeq(blocks, Max({1, e}), n)
            BY DEF LastBlocksOf, e, n, w
        <3> QED BY <2>13, <3>1, <3>2 DEF s, t
    <2> QED BY <1>1, <2>17, <2>18 DEF c
<1> QED BY <1>2, <1>3

\* What carries the kept state from one step to the next.
KeptInv ==
    /\ Chained(full) /\ Shaped(ledger) /\ Resident(ledger, full)
    /\ Agree(ledger, Replay(full))

\* The invariant says what a ledger that agrees with the replayed chain is.
LEMMA KeptIsReplayed == KeptInv => AgreesWith(Replay(full))
PROOF
<1> SUFFICES ASSUME KeptInv PROVE AgreesWith(Replay(full))
    OBVIOUS
<1> DEFINE L == ledger
           W == Replay(full)
           c == L.chain
           p == L.pruned
           M == [W EXCEPT !.chain = c, !.pruned = p]
<1>1. /\ Chained(full) /\ IsLedger(L) /\ Resident(L, full) /\ Agree(L, W)
    BY DEF KeptInv, Shaped
<1>2. IsLedger(W) /\ W.chain = full
    BY <1>1, ReplayWhole DEF Shaped
<1>3. MedianTimePast(L) = MedianTimePast(W)
    BY <1>1, <1>2, MedianAgrees
<1>4. ~L.pruned => L.chain = full
    BY <1>1, WholeChain
<1> HIDE DEF L, W, c, p
<1>5. DOMAIN W = LedgerFields
    BY <1>2 DEF IsLedger
<1>6. /\ M = [f \in LedgerFields |-> M[f]] /\ M.chain = c /\ M.pruned = p
      /\ \A f \in LedgerFields \ {"chain", "pruned"} : M[f] = W[f]
    BY <1>5 DEF LedgerFields
<1>7. L.chain = c /\ L.pruned = p /\ L = [f \in LedgerFields |-> L[f]]
    BY <1>1 DEF IsLedger, c, p
<1> HIDE DEF M
<1>8. \A f \in LedgerFields : L[f] = M[f]
    BY <1>1, <1>6, <1>7 DEF Agree
<1>9. L = M
    BY <1>6, <1>7, <1>8
<1> QED BY <1>3, <1>4, <1>9 DEF AgreesWith, L, W, M, c, p

\* The ledger of the genesis is the replay of its chain.
LEMMA KeptAtInit == LedgerInit => KeptInv
PROOF
<1> SUFFICES ASSUME LedgerInit PROVE KeptInv
    OBVIOUS
<1> DEFINE g == Genesis
           G == GenesisLedger
           c == <<g>>
           empty == << >>
<1>1. ledger = G /\ full = c
    BY DEF LedgerInit
<1>2. Shaped(G) /\ G.chain = c /\ G.pruned = FALSE
    BY GenesisShaped
<1>3. Chained(c)
    BY GenesisChained
<1>4. Tail(c) = empty
    BY DEF c
<1>5. Replay(c) = G
    <2>1. Len(empty) = 0 /\ Len(empty) \in Nat
        OBVIOUS
    <2>2. Replay(c) = LedgersFrom(G, empty)[Len(empty)]
        BY <1>4 DEF Replay, ReplayOnto
    <2> HIDE DEF empty, G, c
    <2>3. LedgersFrom(G, empty)[0] = G
        BY <2>1, LedgersFromSteps
    <2> QED BY <2>1, <2>2, <2>3
<1>6. Len(c) = 1 /\ c[1] = g /\ c \in Seq({g})
    OBVIOUS
<1> HIDE DEF g, G, c
<1>7. Resident(ledger, full)
    <2>1. ledger.chain = c /\ full = c /\ ledger.pruned = FALSE
        BY <1>1, <1>2
    <2>2. 2 \in 2..(Len(c) + 1)
        BY <1>6
    <2>3. Suffix(c, c, 2)
        BY <1>6 DEF Suffix
    <2> QED BY <2>1, <2>2, <2>3 DEF Resident
<1> QED BY <1>1, <1>2, <1>3, <1>5, <1>7 DEF KeptInv, Agree

\* A block keeps the ledger and the replayed chain alike.
LEMMA KeptAtBlock ==
    ASSUME KeptInv, NEW b, Extends(b)
    PROVE  KeptInv'
PROOF
<1> DEFINE L == ledger
           W == Replay(full)
           M == ApplyTrustedBlock(L, b)
           N == ApplyTrustedBlock(W, b)
           more == Append(full, b)
<1>1. Chained(full) /\ Shaped(L) /\ Resident(L, full) /\ Agree(L, W)
    BY DEF KeptInv
<1>2. /\ b.hash = Len(full) /\ b.height = Len(full) /\ Body(b) \in Seq(TxIds) /\ b.v1 \in Seq(TxIds)
      /\ ledger' = M /\ full' = more
    BY DEF Extends, ApplyBlock
<1>3. Shaped(W) /\ W.chain = full
    BY <1>1, ReplayWhole
<1>4. Replay(more) = N
    BY <1>1, ReplayAppend
<1> HIDE DEF W
<1>5. Agree(M, N)
    BY <1>1, <1>2, <1>3, BlockAgrees
<1>6. Shaped(M) /\ M.chain = Append(L.chain, b) /\ M.pruned = L.pruned
    BY <1>1, <1>2, ShapedBlock
<1> HIDE DEF L, M, N, more
<1>7. Chained(more) /\ Resident(M, more)
    BY <1>1, <1>2, <1>6, ChainedAppend, ResidentAppend DEF more
<1>8. Agree(ledger', Replay(full'))
    BY <1>2, <1>4, <1>5
<1>9. Chained(full') /\ Shaped(ledger') /\ Resident(ledger', full')
    BY <1>2, <1>6, <1>7
<1>10. Agree(ledger, Replay(full))'
    BY <1>8 DEF Agree, Replay
<1> QED BY <1>9, <1>10 DEF KeptInv

\* Pruning and restoring keep everything but the blocks.
LEMMA KeptAtPruning ==
    ASSUME KeptInv, NEW M, PrunedTo(M)
    PROVE  KeptInv'
PROOF
<1> DEFINE W == Replay(full)
<1>0. /\ ledger' = M /\ UNCHANGED full /\ Resident(M, full) /\ IsLedger(M)
      /\ \A f \in LedgerFields \ {"chain", "pruned"} : M[f] = ledger[f]
    BY DEF PrunedTo
<1>1. M.utxos = ledger.utxos
    BY <1>0 DEF LedgerFields
<1>2. Shaped(M)
    BY <1>0, <1>1 DEF KeptInv, Shaped
<1>3. Agree(M, W)
    <2>1. Agree(ledger, W)
        BY DEF KeptInv
    <2> HIDE DEF W
    <2> QED BY <1>0, <2>1 DEF Agree
<1>4. Replay(full)' = W
    BY <1>0 DEF Replay
<1>5. Agree(ledger, Replay(full))'
    BY <1>0, <1>3, <1>4 DEF Agree
<1> QED BY <1>0, <1>2, <1>5 DEF KeptInv

\* Every step keeps what pruned ledgers keep.
LEMMA KeptStep == KeptInv /\ [LedgerNext]_ledgerVars => KeptInv'
PROOF
<1> SUFFICES ASSUME KeptInv, [LedgerNext]_ledgerVars PROVE KeptInv'
    OBVIOUS
<1>1. Chained(full) /\ IsLedger(ledger) /\ Resident(ledger, full)
    BY DEF KeptInv, Shaped
<1>2. CASE FinalizeTicketBlock \/ FinalizeRecoveryBlock
    BY <1>1, <1>2, StepsExtend, KeptAtBlock
<1>3. CASE Prune \/ Restore
    BY <1>1, <1>3, PruningKeeps, KeptAtPruning
<1>4. CASE UNCHANGED ledgerVars
    BY <1>4 DEF ledgerVars, KeptInv, Agree, Replay
<1> QED BY <1>2, <1>3, <1>4 DEF LedgerNext

-----------------------------------------------------------------------------
(* Tickets.                                                                  *)

(* The elements at some positions are picked one after the other. *)
LEMMA PickedSteps ==
    ASSUME NEW s, NEW P, Len(s) \in Nat
    PROVE  /\ PickedUpTo(s, P)[0] = << >>
           /\ \A i \in 1..Len(s) : PickedUpTo(s, P)[i] = PickNext(PickedUpTo(s, P)[i - 1], s, P, i)
           /\ PickedUpTo(s, P) = [i \in 0..Len(s) |-> PickedUpTo(s, P)[i]]
PROOF
<1> DEFINE Step(g, i) == IF i = 0 THEN << >> ELSE PickNext(g[i - 1], s, P, i)
           N == {m \in Nat : \E g : g = [i \in 0..m |-> Step(g, i)]}
<1>1. 0 \in N
    <2> DEFINE g == [i \in 0..0 |-> << >>]
    <2>1. \A i \in 0..0 : Step(g, i) = << >>
        OBVIOUS
    <2> HIDE DEF Step
    <2>2. g = [i \in 0..0 |-> Step(g, i)]
        BY <2>1
    <2> HIDE DEF g
    <2> QED BY <2>2
<1>2. ASSUME NEW m \in Nat, m \in N PROVE m + 1 \in N
    <2>1. PICK g : g = [i \in 0..m |-> Step(g, i)]
        BY <1>2
    <2> DEFINE h == [i \in 0..(m + 1) |-> Step(g, i)]
    <2>2. ASSUME NEW i \in 0..(m + 1) PROVE h[i] = Step(h, i)
        <3>1. CASE i = 0
            BY <3>1
        <3>2. CASE i # 0
            <4>1. i - 1 \in 0..m /\ i - 1 \in 0..(m + 1)
                BY <3>2
            <4>2. g[i - 1] = Step(g, i - 1) /\ h[i - 1] = Step(g, i - 1)
                <5> HIDE DEF Step
                <5> QED BY <2>1, <4>1
            <4>3. h[i] = Step(g, i)
                <5> HIDE DEF Step
                <5> QED OBVIOUS
            <4>4. g[i - 1] = h[i - 1]
                <5> HIDE DEF Step, h
                <5> QED BY <4>2
            <4> HIDE DEF h
            <4> QED BY <3>2, <4>3, <4>4
        <3> QED BY <3>1, <3>2
    <2>3. h = [i \in 0..(m + 1) |-> h[i]]
        OBVIOUS
    <2> HIDE DEF Step, h
    <2>4. h = [i \in 0..(m + 1) |-> Step(h, i)]
        BY <2>2, <2>3
    <2> QED BY <2>4
<1>3. Len(s) \in N
    <2> HIDE DEF N
    <2> QED BY <1>1, <1>2, NatSetInduction
<1>4. PICK g : g = [i \in 0..Len(s) |-> Step(g, i)]
    <2> HIDE DEF Step
    <2> QED BY <1>3
<1>5. PickedUpTo(s, P) = CHOOSE f : f = [i \in 0..Len(s) |-> Step(f, i)]
    BY DEF PickedUpTo
<1>6. PickedUpTo(s, P) = [i \in 0..Len(s) |-> Step(PickedUpTo(s, P), i)]
    <2> HIDE DEF Step
    <2> QED BY <1>4, <1>5
<1>7. \A i \in 0..Len(s) : PickedUpTo(s, P)[i] = Step(PickedUpTo(s, P), i)
    <2> HIDE DEF Step
    <2> DEFINE u == PickedUpTo(s, P)
    <2>1. u = [i \in 0..Len(s) |-> Step(u, i)]
        BY <1>6
    <2> HIDE DEF u
    <2>2. \A i \in 0..Len(s) : u[i] = Step(u, i)
        BY <2>1
    <2> QED BY <2>2 DEF u
<1> QED BY <1>6, <1>7

\* A sequence of what another holds at some positions.
IsPick(r, s, P, T) ==
    /\ r \in Seq(T)
    /\ \A k \in 1..Len(r) : \E j \in 1..Len(s) : j \in P /\ r[k] = s[j]
    /\ \A j \in 1..Len(s) : j \in P => \E k \in 1..Len(r) : r[k] = s[j]
    /\ Len(r) <= Len(s)
    /\ 1..Len(s) \subseteq P => r = s

\* One more element is picked.
LEMMA AppendPicked ==
    ASSUME NEW T, NEW r \in Seq(T), NEW x \in T
    PROVE  /\ Append(r, x) \in Seq(T) /\ Len(Append(r, x)) = Len(r) + 1
           /\ \A k \in 1..Len(r) : Append(r, x)[k] = r[k]
           /\ Append(r, x)[Len(r) + 1] = x
           /\ Len(r) \in Nat
PROOF
    OBVIOUS

(* What is picked is what the positions hold, in order. *)
LEMMA PickedIs ==
    ASSUME NEW T, NEW s \in Seq(T), NEW P
    PROVE  IsPick(Picked(s, P), s, P, T)
PROOF
<1> DEFINE n == Len(s)
           f == PickedUpTo(s, P)
           From(i) == \A k \in 1..Len(f[i]) : \E j \in 1..i : j \in P /\ f[i][k] = s[j]
           Into(i) == \A j \in 1..i : j \in P => \E k \in 1..Len(f[i]) : f[i][k] = s[j]
           Whole(i) == 1..n \subseteq P => (Len(f[i]) = i /\ \A j \in 1..i : f[i][j] = s[j])
           Holds(i) == f[i] \in Seq(T) /\ From(i) /\ Into(i) /\ Whole(i) /\ Len(f[i]) <= i
           N == {i \in Nat : i <= n => Holds(i)}
<1>1. n \in Nat /\ \A i \in 1..n : s[i] \in T
    OBVIOUS
<1>2. /\ f[0] = << >>
      /\ \A i \in 1..n : f[i] = IF i \in P THEN Append(f[i - 1], s[i]) ELSE f[i - 1]
    BY <1>1, PickedSteps DEF PickNext
<1> HIDE DEF f, n
<1>3. 0 \in N
    <2>1. f[0] \in Seq(T) /\ Len(f[0]) = 0
        BY <1>2
    <2>2. From(0) /\ Into(0)
        BY <2>1
    <2>3. Whole(0) /\ Len(f[0]) <= 0
        BY <2>1
    <2> QED BY <2>1, <2>2, <2>3
<1>4. ASSUME NEW i \in Nat, i \in N PROVE i + 1 \in N
    <2> SUFFICES ASSUME i + 1 <= n PROVE Holds(i + 1)
        <3> HIDE DEF Holds
        <3> QED OBVIOUS
    <2> DEFINE m == i + 1
               r == f[i]
               q == f[m]
               l == Len(r)
    <2>1. m \in 1..n /\ m - 1 = i /\ m \in Nat
        BY <1>1
    <2>2. r \in Seq(T) /\ From(i) /\ Into(i) /\ Whole(i) /\ Len(r) <= i
        <3>1. Holds(i)
            <4> HIDE DEF Holds
            <4> QED BY <1>4, <1>1
        <3> HIDE DEF From, Into, Whole
        <3> QED BY <3>1
    <2>3. q = IF m \in P THEN Append(r, s[m]) ELSE r
        <3> HIDE DEF m
        <3> QED BY <1>2, <2>1
    <2>4. s[m] \in T /\ l \in Nat
        <3> HIDE DEF m
        <3> QED BY <1>1, <2>1, <2>2
    <2>5. /\ \A j \in 1..i : j \in 1..m
          /\ m \in 1..m
          /\ \A j \in 1..m : j \in 1..i \/ j = m
        BY <2>1
    <2> HIDE DEF m, r, q
    <2>6. CASE m \notin P
        <3>1. q = r
            BY <2>3, <2>6
        <3>2. From(m)
            BY <2>2, <2>5, <3>1 DEF r, q
        <3>3. Into(m)
            BY <2>2, <2>5, <2>6, <3>1 DEF r, q
        <3>4. Whole(m)
            BY <2>1, <2>6
        <3>5. Len(q) <= m
            BY <2>1, <2>2, <2>4, <3>1
        <3> QED BY <2>2, <3>1, <3>2, <3>3, <3>4, <3>5 DEF q, r, m
    <2>7. CASE m \in P
        <3>1. q = Append(r, s[m])
            BY <2>3, <2>7
        <3> DEFINE e == l + 1
        <3>2. /\ q \in Seq(T) /\ Len(q) = e
              /\ \A k \in 1..l : q[k] = r[k]
              /\ q[e] = s[m]
            BY <2>2, <2>4, <3>1, AppendPicked
        <3>3. /\ \A k \in 1..l : k \in 1..e
              /\ e \in 1..e
              /\ \A k \in 1..e : k \in 1..l \/ k = e
            BY <2>4
        <3> HIDE DEF e
        <3>4. From(m)
            <4> SUFFICES ASSUME NEW k \in 1..Len(f[m]) PROVE \E j \in 1..m : j \in P /\ f[m][k] = s[j]
                OBVIOUS
            <4>1. CASE k = e
                BY <2>5, <2>7, <3>2, <4>1 DEF q
            <4>2. CASE k \in 1..l
                <5>1. PICK j \in 1..i : j \in P /\ r[k] = s[j]
                    BY <2>2, <4>2 DEF r, l
                <5> QED BY <2>5, <3>2, <4>2, <5>1 DEF q
            <4> QED BY <3>2, <3>3, <4>1, <4>2 DEF q
        <3>5. Into(m)
            <4> SUFFICES ASSUME NEW j \in 1..m, j \in P PROVE \E k \in 1..Len(f[m]) : f[m][k] = s[j]
                OBVIOUS
            <4>1. CASE j = m
                BY <3>2, <3>3, <4>1 DEF q
            <4>2. CASE j \in 1..i
                <5>1. PICK k \in 1..l : r[k] = s[j]
                    BY <2>2, <4>2 DEF r, l
                <5> QED BY <3>2, <3>3, <5>1 DEF q
            <4> QED BY <2>5, <4>1, <4>2
        <3>6. Whole(m)
            <4> SUFFICES ASSUME 1..n \subseteq P PROVE Len(f[m]) = m /\ \A j \in 1..m : f[m][j] = s[j]
                OBVIOUS
            <4>1. l = i /\ \A j \in 1..i : r[j] = s[j]
                BY <2>2 DEF r, l
            <4>2. e = m
                BY <4>1 DEF e, m
            <4> QED BY <2>5, <3>2, <4>1, <4>2 DEF q
        <3>7. Len(q) <= m
            BY <2>1, <2>2, <2>4, <3>2 DEF e
        <3> QED BY <3>2, <3>4, <3>5, <3>6, <3>7 DEF q, m
    <2> QED BY <2>6, <2>7
<1>5. n \in N
    <2> HIDE DEF N
    <2> QED BY <1>1, <1>3, <1>4, NatSetInduction
<1>6. Holds(n)
    <2> HIDE DEF Holds
    <2> QED BY <1>1, <1>5
<1>7. 1..n \subseteq P => f[n] = s
    <2> SUFFICES ASSUME 1..n \subseteq P PROVE f[n] = s
        OBVIOUS
    <2>1. f[n] \in Seq(T) /\ Len(f[n]) = n /\ \A j \in 1..n : f[n][j] = s[j]
        BY <1>6
    <2> QED BY <2>1, SeqEqual DEF n
<1> QED BY <1>6, <1>7 DEF IsPick, Picked, n, f

(* Numbers that are not negative have a smallest one. *)
LEMMA SmallestExists ==
    ASSUME NEW S, S \subseteq Nat, S # {}
    PROVE  \E m \in S : \A x \in S : m <= x
PROOF
<1> DEFINE R == OpToRel(<, Nat)
<1>1. IsWellFoundedOn(R, Nat)
    BY NatLessThanWellFounded
<1>2. PICK m \in S : \A x \in S : ~(<<x, m>> \in R)
    <2> HIDE DEF R
    <2> QED BY <1>1, WFMin
<1>3. ASSUME NEW x \in S PROVE m <= x
    <2>1. x \in Nat /\ m \in Nat
        OBVIOUS
    <2>2. ~(x < m)
        BY <1>2, <2>1 DEF OpToRel
    <2> QED BY <2>1, <2>2
<1> QED BY <1>3

(* The least of some positions is one of them. *)
LEMMA MinIn ==
    ASSUME NEW S, S \subseteq Nat, S # {}
    PROVE  Min(S) \in S
PROOF
<1>1. \E m \in S : \A x \in S : m <= x
    BY SmallestExists
<1> QED BY <1>1 DEF Min

(* A weighted draw falls on a position, if there is any weight. *)
LEMMA DrawFalls ==
    ASSUME NEW w, NEW n \in Nat, w \in Seq(Nat), Len(w) = n, NEW digest \in Nat
    PROVE  /\ SelectWeighted(w, digest) \in 0..n
           /\ SumSeq(w) \in Nat
           /\ SumSeq(w) > 0 => SelectWeighted(w, digest) \in 1..n
PROOF
<1> DEFINE total == SumSeq(w)
           d == digest % total
           S == {i \in DOMAIN w : d < SumSeq(SubSeq(w, 1, i))}
<1>1. DOMAIN w = 1..n /\ \A i \in 1..n : w[i] \in Nat
    OBVIOUS
<1>2. total = Sum(w, 1..n) /\ total \in Nat
    <2>1. SumSeq(w) = Sum(w, 1..n)
        BY <1>1, SumSeqOver
    <2>2. Sum(w, 1..n) \in Nat
        BY <1>1, SumNat
    <2> QED BY <2>1, <2>2
<1>3. SelectWeighted(w, digest) = IF total = 0 THEN 0 ELSE Min(S)
    BY DEF SelectWeighted, DrawnOf, FirstReached
<1>4. ASSUME total > 0 PROVE Min(S) \in 1..n
    <2>1. n # 0
        <3> SUFFICES ASSUME n = 0 PROVE FALSE
            OBVIOUS
        <3>1. Sum(w, {}) = 0 /\ 1..0 = {}
            BY SumEmpty
        <3> HIDE DEF total
        <3>2. total = Sum(w, 1..0)
            BY <1>2
        <3> QED BY <1>4, <3>1, <3>2
    <2>2. SubSeq(w, 1, n) = w
        <3> DEFINE v == SubSeq(w, 1, n)
        <3>1. 1 \in Int /\ n \in Int
            OBVIOUS
        <3>2. /\ v \in Seq(Nat) /\ Len(v) = IF 1 <= n THEN n - 1 + 1 ELSE 0
              /\ \A i \in 1..(n - 1 + 1) : v[i] = w[1 + i - 1]
            BY <1>1, <3>1, SubSeqProperties
        <3> HIDE DEF v
        <3>3. n - 1 + 1 = n /\ 1 <= n /\ \A i \in 1..n : 1 + i - 1 = i
            BY <2>1
        <3>4. Len(v) = n /\ \A i \in 1..n : v[i] = w[i]
            BY <3>2, <3>3
        <3>5. v = w
            BY <3>2, <3>4, SeqEqual
        <3> QED BY <3>5 DEF v
    <2>3. d < total
        <3> HIDE DEF total
        <3> QED BY <1>2, <1>4
    <2>4. n \in S
        <3>1. n \in DOMAIN w
            BY <1>1, <2>1
        <3> HIDE DEF d
        <3> QED BY <2>2, <2>3, <3>1
    <2>5. S \subseteq 1..n /\ S \subseteq Nat
        BY <1>1
    <2> HIDE DEF S
    <2>6. Min(S) \in S
        BY <2>4, <2>5, MinIn
    <2> QED BY <2>5, <2>6
<1> HIDE DEF S, total
<1>5. CASE total = 0
    BY <1>2, <1>3, <1>5 DEF total
<1>6. CASE total # 0
    <2>1. total > 0
        BY <1>2, <1>6
    <2>2. Min(S) \in 1..n
        BY <1>4, <2>1
    <2> QED BY <1>2, <1>3, <1>6, <2>2 DEF total
<1> QED BY <1>5, <1>6

\* An element is taken out of a sequence.
LEMMA RemoveAtIn ==
    ASSUME NEW T, NEW s \in Seq(T), NEW i \in 1..Len(s)
    PROVE  RemoveAt(s, i) \in Seq(T)
PROOF
<1> DEFINE n == Len(s)
           a == i - 1
           b == i + 1
<1>1. n \in Nat /\ \A k \in 1..n : s[k] \in T
    OBVIOUS
<1>2. /\ a \in Int /\ b \in Int /\ n \in Int /\ 1 \in Int
      /\ (\A k \in 1..a : k \in 1..n) /\ (\A k \in b..n : k \in 1..n)
    BY <1>1
<1>3. RemoveAt(s, i) = SubSeq(s, 1, a) \o SubSeq(s, b, n)
    BY DEF RemoveAt
<1> HIDE DEF a, b, n
<1>4. SubSeq(s, 1, a) \in Seq(T) /\ SubSeq(s, b, n) \in Seq(T)
    <2>1. (\A k \in 1..a : s[k] \in T) /\ (\A k \in b..n : s[k] \in T)
        BY <1>1, <1>2
    <2> QED BY <1>2, <2>1, SubSeqProperties
<1> QED BY <1>3, <1>4, ConcatProperties

\* The weights of some tickets.
AmountsOf(left) == [j \in DOMAIN left |-> left[j].amount]

\* What the draws of some ranks leave.
IsDraw(s, T) == s.ranked \in Seq(T) /\ s.left \in Seq(T)

\* One draw moves a ticket to the ranked ones, if any has weight.
LEMMA DrawRankIs ==
    ASSUME NEW T, \A t \in T : t.amount \in Nat, NEW s, IsDraw(s, T), NEW digest \in Nat
    PROVE  /\ IsDraw(DrawRank(s, digest), T)
           /\ Len(DrawRank(s, digest).ranked) >= Len(s.ranked)
           /\ SumSeq(AmountsOf(s.left)) > 0 => Len(DrawRank(s, digest).ranked) >= 1
PROOF
<1> DEFINE w == AmountsOf(s.left)
           n == Len(s.left)
           i == SelectWeighted(w, digest)
<1>1. s.left \in Seq(T) /\ s.ranked \in Seq(T) /\ n \in Nat /\ DOMAIN s.left = 1..n
    BY DEF IsDraw
<1>2. w \in Seq(Nat) /\ Len(w) = n
    BY <1>1 DEF AmountsOf
<1>3. /\ i \in 0..n /\ SumSeq(w) \in Nat
      /\ SumSeq(w) > 0 => i \in 1..n
    <2> HIDE DEF w, n
    <2> QED BY <1>1, <1>2, DrawFalls
<1>4. DrawRank(s, digest) = MoveToRanked(s, i)
    BY DEF DrawRank, AmountsOf
<1> HIDE DEF i, w, n
<1>5. Len(s.ranked) \in Nat
    BY <1>1
<1>6. CASE i = 0
    <2>1. DrawRank(s, digest) = s
        BY <1>4, <1>6 DEF MoveToRanked
    <2> QED BY <1>3, <1>5, <1>6, <2>1 DEF w
<1>7. CASE i # 0
    <2> DEFINE r == Append(s.ranked, s.left[i])
               l == RemoveAt(s.left, i)
               q == [ranked |-> r, left |-> l]
    <2>1. DrawRank(s, digest) = q
        BY <1>4, <1>7 DEF MoveToRanked
    <2>2. i \in 1..n
        BY <1>1, <1>3, <1>7
    <2>3. s.left[i] \in T
        BY <1>1, <2>2 DEF n
    <2>4. r \in Seq(T) /\ Len(r) = Len(s.ranked) + 1
        BY <1>1, <2>3
    <2>5. l \in Seq(T)
        BY <1>1, <2>2, RemoveAtIn DEF n
    <2> HIDE DEF r, l
    <2>6. q.ranked = r /\ q.left = l
        OBVIOUS
    <2> HIDE DEF q
    <2>7. IsDraw(q, T)
        BY <2>4, <2>5, <2>6 DEF IsDraw
    <2>8. Len(q.ranked) >= Len(s.ranked) /\ Len(q.ranked) >= 1
        BY <1>5, <2>4, <2>6
    <2> QED BY <2>1, <2>7, <2>8
<1> QED BY <1>6, <1>7

(* Ranks are drawn one after the other. *)
LEMMA RanksDrawnSteps ==
    ASSUME NEW seed, NEW eligible, Len(eligible) \in Nat
    PROVE  /\ RanksDrawn(seed, eligible)[0] = [ranked |-> << >>, left |-> eligible]
           /\ \A i \in 1..Len(eligible) : RanksDrawn(seed, eligible)[i] = DrawRank(RanksDrawn(seed, eligible)[i - 1], seed + i - 1)
           /\ RanksDrawn(seed, eligible) = [i \in 0..Len(eligible) |-> RanksDrawn(seed, eligible)[i]]
PROOF
<1> DEFINE Step(g, i) == IF i = 0 THEN [ranked |-> << >>, left |-> eligible] ELSE DrawRank(g[i - 1], seed + i - 1)
           N == {m \in Nat : \E g : g = [i \in 0..m |-> Step(g, i)]}
<1>1. 0 \in N
    <2> DEFINE g == [i \in 0..0 |-> [ranked |-> << >>, left |-> eligible]]
    <2>1. \A i \in 0..0 : Step(g, i) = [ranked |-> << >>, left |-> eligible]
        OBVIOUS
    <2> HIDE DEF Step
    <2>2. g = [i \in 0..0 |-> Step(g, i)]
        BY <2>1
    <2> HIDE DEF g
    <2> QED BY <2>2
<1>2. ASSUME NEW m \in Nat, m \in N PROVE m + 1 \in N
    <2>1. PICK g : g = [i \in 0..m |-> Step(g, i)]
        BY <1>2
    <2> DEFINE h == [i \in 0..(m + 1) |-> Step(g, i)]
    <2>2. ASSUME NEW i \in 0..(m + 1) PROVE h[i] = Step(h, i)
        <3>1. CASE i = 0
            BY <3>1
        <3>2. CASE i # 0
            <4>1. i - 1 \in 0..m /\ i - 1 \in 0..(m + 1)
                BY <3>2
            <4>2. g[i - 1] = Step(g, i - 1) /\ h[i - 1] = Step(g, i - 1)
                <5> HIDE DEF Step
                <5> QED BY <2>1, <4>1
            <4>3. h[i] = Step(g, i)
                <5> HIDE DEF Step
                <5> QED OBVIOUS
            <4>4. g[i - 1] = h[i - 1]
                <5> HIDE DEF Step, h
                <5> QED BY <4>2
            <4> HIDE DEF h
            <4> QED BY <3>2, <4>3, <4>4
        <3> QED BY <3>1, <3>2
    <2>3. h = [i \in 0..(m + 1) |-> h[i]]
        OBVIOUS
    <2> HIDE DEF Step, h
    <2>4. h = [i \in 0..(m + 1) |-> Step(h, i)]
        BY <2>2, <2>3
    <2> QED BY <2>4
<1>3. Len(eligible) \in N
    <2> HIDE DEF N
    <2> QED BY <1>1, <1>2, NatSetInduction
<1>4. PICK g : g = [i \in 0..Len(eligible) |-> Step(g, i)]
    <2> HIDE DEF Step
    <2> QED BY <1>3
<1>5. RanksDrawn(seed, eligible) = CHOOSE f : f = [i \in 0..Len(eligible) |-> Step(f, i)]
    BY DEF RanksDrawn
<1>6. RanksDrawn(seed, eligible) = [i \in 0..Len(eligible) |-> Step(RanksDrawn(seed, eligible), i)]
    <2> HIDE DEF Step
    <2> QED BY <1>4, <1>5
<1>7. \A i \in 0..Len(eligible) : RanksDrawn(seed, eligible)[i] = Step(RanksDrawn(seed, eligible), i)
    <2> HIDE DEF Step
    <2> DEFINE u == RanksDrawn(seed, eligible)
    <2>1. u = [i \in 0..Len(eligible) |-> Step(u, i)]
        BY <1>6
    <2> HIDE DEF u
    <2>2. \A i \in 0..Len(eligible) : u[i] = Step(u, i)
        BY <2>1
    <2> QED BY <2>2 DEF u
<1> QED BY <1>6, <1>7

(* The ranked tickets are among the eligible ones, and there is one if any has weight. *)
LEMMA RankedIs ==
    ASSUME NEW T, \A t \in T : t.amount \in Nat, NEW eligible \in Seq(T), NEW seed \in Nat
    PROVE  /\ RankedOf(seed, eligible) \in Seq(T)
           /\ SumSeq(AmountsOf(eligible)) > 0 => Len(RankedOf(seed, eligible)) >= 1
PROOF
<1> DEFINE n == Len(eligible)
           f == RanksDrawn(seed, eligible)
           total == SumSeq(AmountsOf(eligible))
           Some(i) == (i >= 1 /\ total > 0) => Len(f[i].ranked) >= 1
           Holds(i) == IsDraw(f[i], T) /\ Some(i)
           N == {i \in Nat : i <= n => Holds(i)}
           none == << >>
<1>1. n \in Nat
    OBVIOUS
<1>2. /\ f[0] = [ranked |-> none, left |-> eligible]
      /\ \A i \in 1..n : f[i] = DrawRank(f[i - 1], seed + i - 1)
    BY <1>1, RanksDrawnSteps
<1>3. none \in Seq(T)
    OBVIOUS
<1> HIDE DEF f, n, total, none
<1>4. IsDraw(f[0], T) /\ f[0].left = eligible
    BY <1>2, <1>3 DEF IsDraw
<1>5. 0 \in N
    <2>1. Some(0)
        OBVIOUS
    <2> HIDE DEF Some
    <2> QED BY <1>4, <2>1
<1>6. ASSUME NEW i \in Nat, i \in N PROVE i + 1 \in N
    <2> SUFFICES ASSUME i + 1 <= n PROVE Holds(i + 1)
        <3> HIDE DEF Holds
        <3> QED OBVIOUS
    <2> DEFINE m == i + 1
               digest == seed + m - 1
    <2>1. m \in 1..n /\ m - 1 = i /\ digest \in Nat
        BY <1>1
    <2>2. IsDraw(f[i], T) /\ Some(i)
        <3> HIDE DEF Some
        <3> QED BY <1>1, <1>6
    <2>3. f[m] = DrawRank(f[i], digest)
        <3> HIDE DEF m
        <3> QED BY <1>2, <2>1
    <2> HIDE DEF digest
    <2>4. /\ IsDraw(f[m], T) /\ Len(f[m].ranked) >= Len(f[i].ranked)
          /\ SumSeq(AmountsOf(f[i].left)) > 0 => Len(f[m].ranked) >= 1
        <3> HIDE DEF m
        <3> QED BY <2>1, <2>2, <2>3, DrawRankIs
    <2>5. Some(m)
        <3> SUFFICES ASSUME total > 0 PROVE Len(f[m].ranked) >= 1
            OBVIOUS
        <3>1. CASE i = 0
            <4> HIDE DEF m
            <4> QED BY <1>4, <2>4, <3>1 DEF total
        <3>2. CASE i # 0
            <4>1. Len(f[i].ranked) >= 1
                BY <2>2, <3>2
            <4>2. Len(f[i].ranked) \in Nat /\ Len(f[m].ranked) \in Nat
                BY <2>2, <2>4 DEF IsDraw
            <4> HIDE DEF m
            <4> QED BY <2>4, <4>1, <4>2
        <3> QED BY <3>1, <3>2
    <2> HIDE DEF Some
    <2> QED BY <2>4, <2>5 DEF m
<1>7. n \in N
    <2> HIDE DEF N
    <2> QED BY <1>1, <1>5, <1>6, NatSetInduction
<1>8. IsDraw(f[n], T) /\ Some(n)
    <2> HIDE DEF Some
    <2> QED BY <1>1, <1>7
<1>9. total > 0 => n >= 1
    <2> SUFFICES ASSUME total > 0, n = 0 PROVE FALSE
        BY <1>1
    <2> DEFINE w == AmountsOf(eligible)
    <2>1. DOMAIN eligible = 1..0
        BY DEF n
    <2>2. DOMAIN w = 1..0 /\ 0 \in Nat /\ \A j \in 1..0 : w[j] \in Int
        BY <2>1 DEF AmountsOf
    <2> HIDE DEF w
    <2>3. SumSeq(w) = Sum(w, 1..0)
        BY <2>2, SumSeqOver
    <2>4. 1..0 = {} /\ Sum(w, {}) = 0
        BY SumEmpty
    <2> QED BY <2>3, <2>4 DEF total, w
<1>10. RankedOf(seed, eligible) = f[n].ranked
    BY DEF RankedOf, f, n
<1> QED BY <1>8, <1>9, <1>10 DEF IsDraw, total

-----------------------------------------------------------------------------
(* What the tickets of a ledger are.                                         *)

(* A sequence is one of its own values. *)
LEMMA SeqRange ==
    ASSUME NEW T, NEW s \in Seq(T)
    PROVE  s \in Seq(Range(s)) /\ Range(s) \subseteq T
PROOF
<1>1. Range(s) = {s[i] : i \in DOMAIN s}
    BY DEF Range
<1>2. Len(s) \in Nat /\ DOMAIN s = 1..Len(s) /\ s = [i \in 1..Len(s) |-> s[i]]
    OBVIOUS
<1>3. \A i \in 1..Len(s) : s[i] \in Range(s)
    BY <1>1, <1>2
<1>4. s \in Seq(Range(s))
    <2> DEFINE R == Range(s)
    <2> HIDE DEF R
    <2>1. \A i \in 1..Len(s) : s[i] \in R
        BY <1>3 DEF R
    <2>2. s \in Seq(R)
        BY <1>2, <2>1
    <2> QED BY <2>2 DEF R
<1> QED BY <1>1, <1>2, <1>4

\* Two sequences in a row have the values of both.
LEMMA RangeConcat ==
    ASSUME NEW a, a \in Seq(Range(a)), NEW b, b \in Seq(Range(b))
    PROVE  /\ a \o b \in Seq(Range(a \o b))
           /\ Range(a \o b) = Range(a) \cup Range(b)
PROOF
<1> DEFINE U == Range(a) \cup Range(b)
           c == a \o b
           m == Len(a)
           n == Len(b)
<1>1. a \in Seq(U) /\ b \in Seq(U)
    BY SeqMonotonic
<1>2. /\ m \in Nat /\ n \in Nat
      /\ Range(a) = {a[i] : i \in 1..m} /\ Range(b) = {b[i] : i \in 1..n}
    BY DEF Range
<1> HIDE DEF U
<1>3. /\ c \in Seq(U) /\ Len(c) = m + n
      /\ \A i \in 1..(m + n) : c[i] = IF i <= m THEN a[i] ELSE b[i - m]
    BY <1>1, ConcatProperties
<1> HIDE DEF c, m, n
<1>4. Range(c) = {c[i] : i \in 1..(m + n)}
    <2>1. DOMAIN c = 1..(m + n)
        BY <1>3
    <2> QED BY <2>1 DEF Range
<1>5. ASSUME NEW i \in 1..m PROVE c[i] = a[i] /\ i \in 1..(m + n)
    BY <1>2, <1>3
<1>6. ASSUME NEW i \in 1..n PROVE c[m + i] = b[i] /\ m + i \in 1..(m + n)
    <2> DEFINE k == m + i
    <2>1. k \in 1..(m + n) /\ ~(k <= m) /\ k - m = i
        BY <1>2
    <2> HIDE DEF k
    <2>2. c[k] = b[i]
        BY <1>3, <2>1
    <2> QED BY <2>1, <2>2 DEF k
<1>7. ASSUME NEW i \in 1..(m + n) PROVE c[i] \in Range(a) \cup Range(b)
    <2>1. CASE i <= m
        <3>1. i \in 1..m
            BY <1>2, <2>1
        <3> QED BY <1>2, <1>5, <3>1
    <2>2. CASE ~(i <= m)
        <3>1. i - m \in 1..n /\ c[i] = b[i - m]
            BY <1>2, <1>3, <2>2
        <3> QED BY <1>2, <3>1
    <2> QED BY <2>1, <2>2
<1>8. Range(c) = Range(a) \cup Range(b)
    <2>1. \A x \in Range(c) : x \in Range(a) \cup Range(b)
        BY <1>4, <1>7
    <2>2. \A x \in Range(a) : x \in Range(c)
        BY <1>2, <1>4, <1>5
    <2>3. \A x \in Range(b) : x \in Range(c)
        BY <1>2, <1>4, <1>6
    <2> QED BY <2>1, <2>2, <2>3
<1>9. c \in Seq(Range(c))
    BY <1>3, SeqRange
<1> QED BY <1>8, <1>9 DEF c

\* What is picked has the values at the positions, and everything is picked if every
\* position is.
LEMMA RangePicked ==
    ASSUME NEW s, s \in Seq(Range(s)), NEW P
    PROVE  /\ Picked(s, P) \in Seq(Range(Picked(s, P)))
           /\ Range(Picked(s, P)) = {s[j] : j \in P \cap (1..Len(s))}
           /\ 1..Len(s) \subseteq P => Picked(s, P) = s
PROOF
<1> DEFINE T == Range(s)
           r == Picked(s, P)
<1>1. IsPick(r, s, P, T)
    BY PickedIs
<1> HIDE DEF T, r
<1>2. r \in Seq(T)
    BY <1>1 DEF IsPick
<1>3. Range(r) = {r[k] : k \in 1..Len(r)}
    BY <1>2 DEF Range
<1> DEFINE D == 1..Len(s)
           E == 1..Len(r)
           J == P \cap D
<1>4. /\ \A k \in E : \E j \in D : j \in P /\ r[k] = s[j]
      /\ \A j \in D : j \in P => \E k \in E : r[k] = s[j]
    BY <1>1 DEF IsPick
<1>5. Range(r) = {r[k] : k \in E}
    BY <1>3
<1> HIDE DEF D, E
<1>6. Range(r) = {s[j] : j \in J}
    <2>1. \A x \in Range(r) : \E j \in J : x = s[j]
        BY <1>4, <1>5
    <2>2. \A j \in J : s[j] \in Range(r)
        BY <1>4, <1>5
    <2> HIDE DEF J
    <2> QED BY <2>1, <2>2
<1>7. r \in Seq(Range(r))
    BY <1>2, SeqRange
<1>8. 1..Len(s) \subseteq P => r = s
    BY <1>1 DEF IsPick
<1> QED BY <1>6, <1>7, <1>8 DEF r, D

(* The tickets that are eligible, kept, or not eligible. *)
LEMMA TicketsPicked ==
    ASSUME NEW tickets, tickets \in Seq(Range(tickets)), NEW height, NEW spent
    PROVE  /\ EligibleTickets(tickets, height) \in Seq(Range(EligibleTickets(tickets, height)))
           /\ Range(EligibleTickets(tickets, height)) = {t \in Range(tickets) : Eligible(t, height)}
           /\ TicketsKept(tickets, spent, height) \in Seq(Range(TicketsKept(tickets, spent, height)))
           /\ Range(TicketsKept(tickets, spent, height))
              = {t \in Range(tickets) : t.id \notin spent /\ t.until > height}
           /\ TicketsNotEligible(tickets, height) \in Seq(Range(TicketsNotEligible(tickets, height)))
           /\ Range(TicketsNotEligible(tickets, height))
              = {t \in Range(tickets) : ~Eligible(t, height) /\ t.until > height}
PROOF
<1>1. DOMAIN tickets = 1..Len(tickets)
    OBVIOUS
<1>2. Range(tickets) = {tickets[i] : i \in 1..Len(tickets)}
    BY <1>1 DEF Range
<1> DEFINE P == {i \in DOMAIN tickets : Eligible(tickets[i], height)}
           Q == {i \in DOMAIN tickets : tickets[i].id \notin spent /\ tickets[i].until > height}
           R == {i \in DOMAIN tickets : ~Eligible(tickets[i], height) /\ tickets[i].until > height}
<1>3. /\ EligibleTickets(tickets, height) = Picked(tickets, P)
      /\ TicketsKept(tickets, spent, height) = Picked(tickets, Q)
      /\ TicketsNotEligible(tickets, height) = Picked(tickets, R)
    BY DEF EligibleTickets, TicketsKept, TicketsNotEligible
<1>4. /\ {tickets[j] : j \in P \cap (1..Len(tickets))} = {t \in Range(tickets) : Eligible(t, height)}
      /\ {tickets[j] : j \in Q \cap (1..Len(tickets))}
         = {t \in Range(tickets) : t.id \notin spent /\ t.until > height}
      /\ {tickets[j] : j \in R \cap (1..Len(tickets))}
         = {t \in Range(tickets) : ~Eligible(t, height) /\ t.until > height}
    BY <1>1, <1>2
<1> DEFINE p == Picked(tickets, P)
           q == Picked(tickets, Q)
           r == Picked(tickets, R)
<1> HIDE DEF P, Q, R
<1>5. /\ p \in Seq(Range(p)) /\ Range(p) = {tickets[j] : j \in P \cap (1..Len(tickets))}
      /\ q \in Seq(Range(q)) /\ Range(q) = {tickets[j] : j \in Q \cap (1..Len(tickets))}
      /\ r \in Seq(Range(r)) /\ Range(r) = {tickets[j] : j \in R \cap (1..Len(tickets))}
    BY RangePicked
<1> HIDE DEF p, q, r
<1>6. /\ EligibleTickets(tickets, height) = p
      /\ TicketsKept(tickets, spent, height) = q
      /\ TicketsNotEligible(tickets, height) = r
    BY <1>3 DEF p, q, r
<1> QED BY <1>4, <1>5, <1>6

\* The tickets that may finalize a height.
LEMMA EligiblePicked ==
    ASSUME NEW tickets, tickets \in Seq(Range(tickets)), NEW height
    PROVE  /\ EligibleTickets(tickets, height) \in Seq(Range(EligibleTickets(tickets, height)))
           /\ Range(EligibleTickets(tickets, height)) = {t \in Range(tickets) : Eligible(t, height)}
PROOF
<1> DEFINE e == EligibleTickets(tickets, height)
           k == TicketsKept(tickets, {}, height)
           w == TicketsNotEligible(tickets, height)
           T == {t \in Range(tickets) : Eligible(t, height)}
<1>1. e \in Seq(Range(e)) /\ Range(e) = T
    BY TicketsPicked
<1> QED BY <1>1

\* The ids of tickets: a burn of the chain, or one of the genesis.
IsTicketId(id, mined) ==
    \/ \E t \in mined : id = <<t, 0>>
    \/ \E s \in Nat \ {0}, h \in Int : id = <<-s, h>>

\* Tickets with such ids and unsigned amounts.
TicketsFit(tickets, mined) ==
    /\ tickets \in Seq(Range(tickets))
    /\ \A t \in Range(tickets) :
          /\ t.amount \in Nat /\ t.from \in Int /\ t.until \in Int
          /\ IsTicketId(t.id, mined)

(* The ranked tickets are eligible tickets of the ledger. *)
LEMMA RanksAre ==
    ASSUME NEW tickets, NEW mined, TicketsFit(tickets, mined), NEW seed \in Nat, NEW height
    PROVE  /\ RankedTickets(seed, height, tickets)
                \in Seq({t \in Range(tickets) : Eligible(t, height)})
           /\ SumSeq(AmountsOf(EligibleTickets(tickets, height))) > 0
                => Len(RankedTickets(seed, height, tickets)) >= 1
PROOF
<1> DEFINE e == EligibleTickets(tickets, height)
           T == {t \in Range(tickets) : Eligible(t, height)}
<1>1. e \in Seq(T)
    <2>1. tickets \in Seq(Range(tickets))
        BY DEF TicketsFit
    <2>2. e \in Seq(Range(e)) /\ Range(e) = T
        BY <2>1, EligiblePicked
    <2> HIDE DEF e, T
    <2> QED BY <2>2
<1>2. \A t \in T : t.amount \in Nat
    BY DEF TicketsFit
<1>3. RankedTickets(seed, height, tickets) = RankedOf(seed, e)
    BY DEF RankedTickets
<1> HIDE DEF e, T
<1>4. /\ RankedOf(seed, e) \in Seq(T)
      /\ SumSeq(AmountsOf(e)) > 0 => Len(RankedOf(seed, e)) >= 1
    BY <1>1, <1>2, RankedIs
<1> QED BY <1>3, <1>4 DEF e, T

(* The tickets of a block are those of its burns. *)
LEMMA CreatedTickets ==
    ASSUME NEW b, Body(b) \in Seq(TxIds)
    PROVE  /\ TicketsCreatedByBlock(b) \in Seq(Range(TicketsCreatedByBlock(b)))
           /\ \A t \in Range(TicketsCreatedByBlock(b)) :
                 \E x \in Range(Body(b)) :
                    /\ t.id = <<x, 0>> /\ t.amount = Burned(x) /\ x \in TxIds
                    /\ t.from = b.height + TicketMaturity
                    /\ t.until = b.height + TicketMaturity + TicketExpiry - 1
           /\ \A x \in Range(Body(b)) : Burned(x) > 0 =>
                 \E t \in Range(TicketsCreatedByBlock(b)) : t.id = <<x, 0>> /\ t.amount = Burned(x)
PROOF
<1> DEFINE txs == Body(b)
           P == {i \in DOMAIN txs : IsBurn(txs[i]) /\ (IsV2(txs[i]) \/ Burned(txs[i]) > 0)}
           burns == Picked(txs, P)
           Ticket(x) == [id |-> <<x, 0>>, owner |-> TicketOwner(x),
                         amount |-> Burned(x), from |-> b.height + TicketMaturity,
                         until |-> b.height + TicketMaturity + TicketExpiry - 1]
           made == [i \in DOMAIN burns |-> Ticket(burns[i])]
<1>1. TicketsCreatedByBlock(b) = made
    BY DEF TicketsCreatedByBlock
<1>2. txs \in Seq(Range(txs)) /\ Range(txs) \subseteq TxIds
    BY SeqRange
<1>3. burns \in Seq(Range(burns)) /\ Range(burns) = {txs[j] : j \in P \cap (1..Len(txs))}
    <2> HIDE DEF P, txs
    <2> QED BY <1>2, RangePicked
<1>4. /\ \A x \in Range(burns) : x \in Range(txs)
      /\ \A x \in Range(txs) : Burned(x) > 0 => x \in Range(burns)
    <2>1. DOMAIN txs = 1..Len(txs) /\ Range(txs) = {txs[i] : i \in 1..Len(txs)}
        BY DEF Range
    <2>2. \A x \in Range(txs) : Burned(x) > 0 => IsBurn(x)
        BY DEF Burned
    <2> HIDE DEF txs, burns
    <2> QED BY <1>3, <2>1, <2>2
<1> HIDE DEF P, txs, burns
<1>5. DOMAIN burns = 1..Len(burns) /\ Len(burns) \in Nat /\ Range(burns) = {burns[i] : i \in 1..Len(burns)}
    BY <1>3 DEF Range
<1> DEFINE T == {Ticket(x) : x \in Range(burns)}
<1>6. made \in Seq(T)
    <2>1. \A i \in 1..Len(burns) : Ticket(burns[i]) \in T
        BY <1>5
    <2> HIDE DEF T, Ticket
    <2> QED BY <1>5, <2>1
<1>7. made \in Seq(Range(made)) /\ Range(made) = T
    <2>1. Range(made) = {made[i] : i \in 1..Len(burns)}
        BY <1>5 DEF Range
    <2>2. \A i \in 1..Len(burns) : made[i] = Ticket(burns[i])
        BY <1>5
    <2> HIDE DEF made, Ticket
    <2>3. Range(made) = T
        BY <1>5, <2>1, <2>2
    <2> HIDE DEF T
    <2> QED BY <1>6, <2>3, SeqRange
<1> HIDE DEF made
<1>8. ASSUME NEW t \in T
      PROVE \E x \in Range(txs) : t.id = <<x, 0>> /\ t.amount = Burned(x) /\ x \in TxIds
                    /\ t.from = b.height + TicketMaturity
                    /\ t.until = b.height + TicketMaturity + TicketExpiry - 1
    <2>1. PICK x \in Range(burns) : t = Ticket(x)
        OBVIOUS
    <2>2. x \in Range(txs) /\ x \in TxIds
        BY <1>2, <1>4
    <2> QED BY <2>1, <2>2
<1>9. ASSUME NEW x \in Range(txs), Burned(x) > 0
      PROVE  \E t \in T : t.id = <<x, 0>> /\ t.amount = Burned(x)
    <2>1. x \in Range(burns)
        BY <1>4, <1>9
    <2>2. Ticket(x) \in T
        BY <2>1
    <2>3. Ticket(x).id = <<x, 0>> /\ Ticket(x).amount = Burned(x)
        OBVIOUS
    <2> QED BY <2>2, <2>3
<1> HIDE DEF T
<1> QED BY <1>1, <1>7, <1>8, <1>9 DEF txs

\* What a block makes of the tickets: those it keeps were there and were not used for it,
\* and a ticket that matures later stays unless it shares the burn of an earlier one.
LeavesTickets(L, b) ==
    LET left == ApplyFinalizerTicketEffects(L, b)
        spent == InvalidatedTicketIds(L, b)
        tickets == Range(L.tickets)
    IN  /\ left \in Seq(Range(left))
        /\ \A t \in Range(left) : t \in tickets
        /\ b.mode = "ticket" =>
              /\ \E t \in tickets : t.id = b.ticket
              /\ \A t \in Range(left) : t.id # b.ticket
        /\ \A t \in tickets : t.from > b.height /\ t.until > b.height
              => t \in Range(left) \/ (b.mode = "ticket" /\ t.id \in spent)
        /\ \A t \in tickets : b.mode = "ticket" /\ t.from > b.height /\ t.id \in spent
              => \E u \in tickets : u.id = t.id /\ u.from <= b.height

(* The tickets that a block leaves: the ticket it was finished with is gone. *)
LEMMA TicketsLeft ==
    ASSUME NEW L, NEW mined, TicketsFit(L.tickets, mined), IsLedger(L),
           NEW b, Tip(L).seed \in Nat, b.height = NextHeight(L), b.rank \in Nat, b.height \in Nat,
           b.mode = "ticket" => FinalizesByRank(b, NextRanks(L))
    PROVE  LeavesTickets(L, b)
PROOF
<1> DEFINE tickets == L.tickets
           ranked == NextRanks(L)
           T == {t \in Range(tickets) : Eligible(t, b.height)}
           spent == InvalidatedTicketIds(L, b)
           left == ApplyFinalizerTicketEffects(L, b)
<1> SUFFICES
      /\ left \in Seq(Range(left))
      /\ \A t \in Range(left) : t \in Range(tickets)
      /\ b.mode = "ticket" =>
            /\ \E t \in Range(tickets) : t.id = b.ticket
            /\ \A t \in Range(left) : t.id # b.ticket
      /\ \A t \in Range(tickets) : t.from > b.height /\ t.until > b.height
            => t \in Range(left) \/ (b.mode = "ticket" /\ t.id \in spent)
      /\ \A t \in Range(tickets) : b.mode = "ticket" /\ t.from > b.height /\ t.id \in spent
            => \E u \in Range(tickets) : u.id = t.id /\ u.from <= b.height
    BY Zenon DEF LeavesTickets
<1>1. tickets \in Seq(Range(tickets))
    BY DEF TicketsFit
<1>2. ranked \in Seq(T)
    BY RanksAre DEF NextRanks
<1>3. CASE b.mode # "ticket"
    <2>1. left = TicketsNotEligible(tickets, b.height)
        BY <1>3 DEF ApplyFinalizerTicketEffects
    <2>2. /\ left \in Seq(Range(left))
          /\ Range(left) = {t \in Range(tickets) : ~Eligible(t, b.height) /\ t.until > b.height}
        <3> DEFINE h == b.height
                   kept == TicketsNotEligible(tickets, h)
        <3> HIDE DEF tickets, h
        <3>1. /\ kept \in Seq(Range(kept))
              /\ Range(kept) = {t \in Range(tickets) : ~Eligible(t, h) /\ t.until > h}
            BY <1>1, TicketsPicked
        <3>2. left = kept
            BY <2>1 DEF h
        <3> HIDE DEF left, kept
        <3> QED BY <3>1, <3>2 DEF h
    <2>3. \A t \in Range(tickets) : t.from > b.height => ~Eligible(t, b.height)
        BY DEF Eligible, TicketsFit
    <2> HIDE DEF tickets
    <2>4. /\ \A t \in Range(left) : t \in Range(tickets)
          /\ \A t \in Range(tickets) : t.from > b.height /\ t.until > b.height => t \in Range(left)
        BY <2>2, <2>3
    <2> HIDE DEF left, spent
    <2> QED BY <1>3, <2>2, <2>4
<1>4. CASE b.mode = "ticket"
    <2>1. left = TicketsKept(tickets, spent, b.height)
        BY <1>4 DEF ApplyFinalizerTicketEffects
    <2>2. /\ left \in Seq(Range(left))
          /\ Range(left) = {t \in Range(tickets) : t.id \notin spent /\ t.until > b.height}
        BY <1>1, <2>1, TicketsPicked
    <2>3. b.rank < Len(ranked) /\ ranked[b.rank + 1].id = b.ticket
        BY <1>4 DEF FinalizesByRank
    <2> DEFINE index == CHOOSE i \in DOMAIN ranked : ranked[i].id = b.ticket
    <2>4. DOMAIN ranked = 1..Len(ranked) /\ Len(ranked) \in Nat
        BY <1>2
    <2>5. b.rank + 1 \in DOMAIN ranked
        BY <2>3, <2>4
    <2>6. index \in DOMAIN ranked /\ ranked[index].id = b.ticket
        BY <2>3, <2>5
    <2>7. spent = InvalidatedAtIndex(AtTip(L), b, ranked, index)
        BY DEF InvalidatedTicketIds, InvalidatedOfRanked
    <2> HIDE DEF index
    <2>8. AtTip(L).tickets = tickets
        <3> DEFINE c == <<Tip(L)>>
                   no == FALSE
        <3>1. DOMAIN L = LedgerFields
            BY DEF IsLedger
        <3>2. AtTip(L) = [L EXCEPT !.chain = c, !.pruned = no]
            BY DEF AtTip
        <3> HIDE DEF c, no
        <3> QED BY <3>1, <3>2 DEF LedgerFields
    <2>9. ranked[index] \in T
        <3> HIDE DEF T, ranked
        <3> QED BY <1>2, <2>4, <2>6
    <2>10. DOMAIN tickets = 1..Len(tickets) /\ Range(tickets) = {tickets[j] : j \in DOMAIN tickets}
        BY <1>1 DEF Range
    <2> HIDE DEF spent, left, ranked
    <2>11. b.ticket \in spent
        <3>1. CASE b.height < InvalidationHeight \/ index = 1
            BY <2>7, <3>1 DEF InvalidatedAtIndex
        <3>2. CASE ~(b.height < InvalidationHeight \/ index = 1)
            <4> DEFINE missed == {ranked[i].owner : i \in 1..index}
            <4>1. spent = {tickets[i].id : i \in {j \in DOMAIN tickets :
                     Eligible(tickets[j], b.height) /\ tickets[j].owner \in missed}}
                BY <2>7, <2>8, <3>2 DEF InvalidatedAtIndex
            <4>2. index \in 1..index
                BY <2>4, <2>6
            <4>3. ranked[index].owner \in missed
                BY <4>2
            <4>4. PICK j \in DOMAIN tickets : tickets[j] = ranked[index]
                BY <2>9, <2>10
            <4>5. Eligible(tickets[j], b.height)
                BY <2>9, <4>4
            <4> HIDE DEF missed
            <4>6. tickets[j].id \in spent
                BY <4>1, <4>3, <4>4, <4>5
            <4> QED BY <2>6, <4>4, <4>6
        <3> QED BY <3>1, <3>2
    <2>12. \E t \in Range(tickets) : t.id = b.ticket
        BY <2>6, <2>9
    <2>13. \A t \in Range(left) : t \in Range(tickets) /\ t.id # b.ticket
        BY <2>2, <2>11
    <2>14. \A t \in Range(tickets) : t.from > b.height /\ t.until > b.height
              => t \in Range(left) \/ t.id \in spent
        BY <2>2
    <2>15. \A i \in spent : \E u \in Range(tickets) : u.id = i /\ Eligible(u, b.height)
        <3>1. CASE b.height < InvalidationHeight \/ index = 1
            <4>1. spent = {b.ticket}
                BY <2>7, <3>1 DEF InvalidatedAtIndex
            <4> QED BY <2>6, <2>9, <4>1
        <3>2. CASE ~(b.height < InvalidationHeight \/ index = 1)
            <4> DEFINE missed == {ranked[i].owner : i \in 1..index}
            <4>1. spent = {tickets[i].id : i \in {j \in DOMAIN tickets :
                     Eligible(tickets[j], b.height) /\ tickets[j].owner \in missed}}
                BY <2>7, <2>8, <3>2 DEF InvalidatedAtIndex
            <4> HIDE DEF missed
            <4> QED BY <2>10, <4>1
        <3> QED BY <3>1, <3>2
    <2>16. \A i \in spent : \E u \in Range(tickets) : u.id = i /\ u.from <= b.height
        BY <2>15 DEF Eligible
    <2> HIDE DEF tickets
    <2> QED BY <1>4, <2>2, <2>12, <2>13, <2>14, <2>16
<1> QED BY <1>3, <1>4

-----------------------------------------------------------------------------
(* No ticket is used twice, and there always is one.                         *)

(* A height of the genesis and a source have a position among its tickets. *)
LEMMA Position ==
    ASSUME NEW c \in Nat \ {0}, NEW y \in Nat, NEW m \in Nat, y < m
    PROVE  y * c + 1 \in 1..(m * c) /\ ((y * c + 1) - 1) \div c = y
PROOF
<1>1. y * c \in Nat /\ (y + 1) * c = y * c + c
    OBVIOUS
<1>2. (y + 1) * c <= m * c
    <2>1. y + 1 <= m /\ y + 1 \in Nat
        OBVIOUS
    <2> QED BY <2>1
<1>3. m * c \in Nat
    OBVIOUS
<1> DEFINE p == y * c
           q == m * c
<1>4. p + c <= q /\ p \in Nat /\ q \in Nat
    <2>1. (y + 1) * c = p + c
        BY <1>1
    <2> QED BY <1>1, <1>2, <1>3, <2>1
<1>5. p \div c = y
    OBVIOUS
<1> HIDE DEF p, q
<1>6. p + 1 \in 1..q /\ (p + 1) - 1 = p
    BY <1>4
<1> QED BY <1>5, <1>6 DEF p, q

\* Tickets of one burn mature at one height.
OneHeightEach(tickets) ==
    \A t, u \in Range(tickets) : t.id = u.id => t.from = u.from

\* There is a ticket for each of the next heights.
Covers(tickets, height) ==
    \A x \in height..(height + TicketMaturity - 1) :
        \E t \in Range(tickets) : t.from = x /\ t.until >= x /\ t.amount > 0

(* The tickets of the genesis. *)
LEMMA GenesisTicketsFit ==
    /\ TicketsFit(GenesisTickets, {})
    /\ OneHeightEach(GenesisTickets)
    /\ Covers(GenesisTickets, 1)
PROOF
<1> DEFINE funded == {a \in DOMAIN Allocation : Allocation[a] > 0}
           P == {i \in DOMAIN GenesisBurns : GenesisBurns[i].amount > 0}
           burns == Picked(GenesisBurns, P)
           sources == IF burns # << >> THEN burns
                      ELSE IF funded = {} THEN << >>
                      ELSE <<[owner |-> Max(funded), amount |-> 1]>>
           c == Len(sources)
           High(i) == (i - 1) \div c + 1
           Which(i) == ((i - 1) % c) + 1
           Ticket(i) == [id |-> <<-Which(i), High(i)>>, owner |-> sources[Which(i)].owner,
                         amount |-> sources[Which(i)].amount, from |-> High(i), until |-> High(i)]
           made == [i \in 1..(TicketMaturity * c) |-> Ticket(i)]
<1>1. GenesisTickets = made
    BY DEF GenesisTickets
<1>2. c \in Nat \ {0} /\ \A i \in 1..c : sources[i].amount \in Nat \ {0}
    <2> DEFINE T == {GenesisBurns[i] : i \in 1..Len(GenesisBurns)}
    <2>1. /\ Len(GenesisBurns) \in Nat /\ DOMAIN GenesisBurns = 1..Len(GenesisBurns)
          /\ \A i \in DOMAIN GenesisBurns : GenesisBurns[i].amount \in Nat
        BY BurnsShape
    <2>2. GenesisBurns \in Seq(T)
        <3>1. GenesisBurns \in Seq(Range(GenesisBurns)) /\ Range(GenesisBurns) = T
            BY <2>1, ChainAssumption DEF Range
        <3> HIDE DEF T
        <3> QED BY <3>1
    <2> HIDE DEF T
    <2>3. /\ burns \in Seq(T)
          /\ \A k \in 1..Len(burns) : \E j \in 1..Len(GenesisBurns) : j \in P /\ burns[k] = GenesisBurns[j]
        <3>1. IsPick(burns, GenesisBurns, P, T)
            <4> HIDE DEF P
            <4> QED BY <2>2, PickedIs
        <3> HIDE DEF burns, P
        <3> QED BY <3>1 DEF IsPick
    <2>4. CASE burns # << >>
        <3>1. sources = burns
            BY <2>4
        <3>2. \A k \in 1..Len(burns) : burns[k].amount \in Nat \ {0}
            <4> HIDE DEF burns
            <4> QED BY <2>1, <2>3
        <3>3. Len(burns) \in Nat /\ Len(burns) # 0
            <4> HIDE DEF burns
            <4> QED BY <2>3, <2>4
        <3> HIDE DEF sources, burns
        <3> QED BY <3>1, <3>2, <3>3
    <2>5. CASE burns = << >>
        <3>1. funded # {}
            BY ChainAssumption
        <3> DEFINE w == Max(funded)
        <3>2. sources = <<[owner |-> w, amount |-> 1]>>
            BY <2>5, <3>1
        <3> HIDE DEF w, sources
        <3> QED BY <3>2
    <2> QED BY <2>4, <2>5
<1> DEFINE m == TicketMaturity
           n == m * c
<1>3. m \in Nat \ {0} /\ n \in Nat
    <2>1. m \in Nat \ {0}
        BY ChainAssumption
    <2> HIDE DEF m, c
    <2> QED BY <1>2, <2>1
<1> HIDE DEF sources
<1>4. ASSUME NEW i \in 1..n
      PROVE  /\ Which(i) \in Nat \ {0} /\ High(i) \in Int
             /\ sources[Which(i)].amount \in Nat \ {0}
    <2> DEFINE k == i - 1
    <2>1. k \in Nat
        BY <1>3
    <2> HIDE DEF k, c, n
    <2>2. k % c \in 0..(c - 1) /\ k \div c \in Int
        BY <1>2, <2>1
    <2>3. (k % c) + 1 \in 1..c /\ (k % c) + 1 \in Nat \ {0} /\ (k \div c) + 1 \in Int
        BY <1>2, <2>2
    <2> QED BY <1>2, <2>3 DEF k
<1> HIDE DEF Which, n, c
<1>5. ASSUME NEW i \in 1..n
      PROVE  /\ Ticket(i).id = <<-Which(i), High(i)>> /\ Ticket(i).from = High(i)
             /\ Ticket(i).until = High(i) /\ Ticket(i).amount \in Nat \ {0}
             /\ High(i) \in Int /\ Which(i) \in Nat \ {0}
    <2>1. /\ Ticket(i).id = <<-Which(i), High(i)>> /\ Ticket(i).from = High(i)
          /\ Ticket(i).until = High(i) /\ Ticket(i).amount = sources[Which(i)].amount
        OBVIOUS
    <2> HIDE DEF Ticket, High
    <2> QED BY <1>4, <2>1
<1> DEFINE T == {Ticket(i) : i \in 1..n}
<1>6. made \in Seq(Range(made)) /\ Range(made) = T
    <2>1. \A i \in 1..n : Ticket(i) \in T /\ made[i] = Ticket(i)
        BY DEF n
    <2>2. made = [i \in 1..n |-> made[i]] /\ DOMAIN made = 1..n
        BY DEF n
    <2>3. Range(made) = {made[i] : i \in 1..n}
        BY <2>2 DEF Range
    <2> HIDE DEF made, Ticket
    <2>4. Range(made) = T
        BY <2>1, <2>3
    <2> HIDE DEF T
    <2>5. made \in Seq(T)
        BY <1>3, <2>1, <2>2
    <2> QED BY <2>4, <2>5
<1>7. ASSUME NEW t \in T
      PROVE  /\ t.amount \in Nat /\ t.from \in Int /\ t.until \in Int
             /\ IsTicketId(t.id, {})
             /\ \E s \in Nat \ {0} : t.id = <<-s, t.from>>
    <2>1. PICK i \in 1..n : t = Ticket(i)
        OBVIOUS
    <2> HIDE DEF Ticket, High, T
    <2>2. /\ t.id = <<-Which(i), High(i)>> /\ t.from = High(i)
          /\ t.until = High(i) /\ t.amount \in Nat \ {0}
          /\ High(i) \in Int /\ Which(i) \in Nat \ {0}
        BY <1>5, <2>1
    <2> QED BY <2>2 DEF IsTicketId
<1>8. ASSUME NEW x \in 1..(1 + m - 1) PROVE \E t \in T : t.from = x /\ t.until >= x /\ t.amount > 0
    <2> DEFINE y == x - 1
               i == y * c + 1
    <2>1. y \in Nat /\ y < m /\ y + 1 = x /\ x \in Int
        BY <1>3
    <2>2. i \in 1..n /\ (i - 1) \div c = y
        <3> HIDE DEF y
        <3> QED BY <1>2, <1>3, <2>1, Position DEF n
    <2> HIDE DEF i, y, m
    <2>3. High(i) = x
        BY <2>1, <2>2
    <2>4. Ticket(i) \in T
        BY <2>2
    <2> HIDE DEF Ticket, High, T
    <2>5. /\ Ticket(i).from = x /\ Ticket(i).until = x /\ Ticket(i).amount \in Nat \ {0}
        BY <1>5, <2>2, <2>3
    <2> QED BY <2>1, <2>4, <2>5
<1> HIDE DEF T, made
<1>9. OneHeightEach(made)
    <2> SUFFICES ASSUME NEW t \in T, NEW u \in T, t.id = u.id PROVE t.from = u.from
        BY <1>6 DEF OneHeightEach
    <2>1. PICK s \in Nat : t.id = <<-s, t.from>>
        BY <1>7
    <2>2. PICK s2 \in Nat : u.id = <<-s2, u.from>>
        BY <1>7
    <2> DEFINE f == t.from
               g == u.from
    <2>3. <<-s, f>> = <<-s2, g>>
        BY <2>1, <2>2
    <2> HIDE DEF f, g
    <2>4. f = g
        BY <2>3
    <2> QED BY <2>4 DEF f, g
<1>10. Covers(made, 1)
    BY <1>6, <1>8 DEF Covers, m
<1>11. TicketsFit(made, {})
    BY <1>6, <1>7 DEF TicketsFit
<1> QED BY <1>1, <1>9, <1>10, <1>11

\* The blocks after the first all burn something.
AllBurn(blocks) ==
    \A i \in 2..Len(blocks) : \E t \in Range(Body(blocks[i])) : Burned(t) > 0

\* The tickets that blocks were finished with.
UsedTickets(blocks, tickets, mined) ==
    \A i \in 1..Len(blocks) :
        /\ blocks[i].ticket = << >> \/ IsTicketId(blocks[i].ticket, mined)
        /\ i >= 2 /\ blocks[i].mode = "ticket" => IsTicketId(blocks[i].ticket, mined)
        /\ \A t \in Range(tickets) : t.id # blocks[i].ticket

\* What carries the tickets from one step to the next.
TicketInv ==
    /\ Chained(full) /\ Shaped(ledger) /\ Resident(ledger, full)
    /\ ledger.mined \subseteq TxIds
    /\ TicketsFit(ledger.tickets, ledger.mined)
    /\ OneHeightEach(ledger.tickets)
    /\ \A i \in 1..Len(full) : full[i].seed \in Nat
    /\ UsedTickets(full, ledger.tickets, ledger.mined)
    /\ TicketFinalizesOnce
    /\ AllBurn(full) => Covers(ledger.tickets, Len(full))

(* A burn that is new to the chain has a new ticket. *)
LEMMA NewTicketId ==
    ASSUME NEW mined, mined \subseteq TxIds, NEW x \in TxIds, x \notin mined,
           NEW id, IsTicketId(id, mined)
    PROVE  id # <<x, 0>> /\ id # << >> /\ IsTicketId(id, mined \cup {x})
PROOF
<1>1. x \in Nat \ {0}
    BY TransactionAssumption
<1>2. CASE \E t \in mined : id = <<t, 0>>
    BY <1>2 DEF IsTicketId
<1>3. CASE \E s \in Nat \ {0}, h \in Int : id = <<-s, h>>
    <2>1. PICK s \in Nat \ {0}, h \in Int : id = <<-s, h>>
        BY <1>3
    <2>2. -s # x
        BY <1>1
    <2>3. id # <<x, 0>>
        BY <2>1, <2>2
    <2> QED BY <1>3, <2>1, <2>3 DEF IsTicketId
<1> QED BY <1>2, <1>3 DEF IsTicketId

\* A ticket keeps its id when more is mined.
LEMMA TicketIdKept ==
    ASSUME NEW mined, NEW more, mined \subseteq more, NEW id, IsTicketId(id, mined)
    PROVE  IsTicketId(id, more) /\ id # << >>
PROOF
    BY DEF IsTicketId

\* The tickets and the mined transactions after a block: none of the tickets was used, each
\* matures at one height, and the burns of the block cover one more height.
TicketsFollow(L, b, n, after, mined) ==
    /\ mined \subseteq TxIds
    /\ TicketsFit(after, mined)
    /\ OneHeightEach(after)
    /\ \A id : IsTicketId(id, L.mined) /\ (\A t \in Range(L.tickets) : t.id # id)
          => \A t \in Range(after) : t.id # id
    /\ \A t \in Range(after) : t.id # << >>
    /\ b.mode = "ticket" =>
         /\ \E t \in Range(L.tickets) : t.id = b.ticket
         /\ \A t \in Range(after) : t.id # b.ticket
    /\ Covers(L.tickets, n) /\ (\E x \in Range(Body(b)) : Burned(x) > 0)
         => Covers(after, n + 1)

(* What a block makes of the tickets and of the mined transactions. *)
LEMMA TicketsAfterBlock ==
    ASSUME NEW L, NEW b, NEW n \in Nat, IsLedger(L), L.mined \subseteq TxIds,
           TicketsFit(L.tickets, L.mined), OneHeightEach(L.tickets), Tip(L).seed \in Nat,
           NextHeight(L) = n, b.height = n, b.rank \in Nat, Body(b) \in Seq(TxIds), NotReplays(L, b),
           b.mode = "ticket" => FinalizesByRank(b, NextRanks(L)),
           NEW after, after = ApplyFinalizerTicketEffects(L, b) \o TicketsCreatedByBlock(b),
           NEW mined, mined = L.mined \cup Range(Body(b))
    PROVE  TicketsFollow(L, b, n, after, mined)
PROOF
<1> DEFINE kept == ApplyFinalizerTicketEffects(L, b)
           made == TicketsCreatedByBlock(b)
           txs == Range(Body(b))
           old == Range(L.tickets)
<1>1. /\ kept \in Seq(Range(kept)) /\ \A t \in Range(kept) : t \in old
      /\ b.mode = "ticket" =>
            (\E t \in old : t.id = b.ticket) /\ (\A t \in Range(kept) : t.id # b.ticket)
      /\ \A t \in old : t.from > n /\ t.until > n
            => t \in Range(kept) \/ (b.mode = "ticket" /\ t.id \in InvalidatedTicketIds(L, b))
      /\ \A t \in old : b.mode = "ticket" /\ t.from > n /\ t.id \in InvalidatedTicketIds(L, b)
            => \E u \in old : u.id = t.id /\ u.from <= n
    <2>1. b.height = NextHeight(L) /\ b.height \in Nat /\ b.height = n
        OBVIOUS
    <2>2. LeavesTickets(L, b)
        BY <2>1, TicketsLeft
    <2> HIDE DEF kept, old
    <2> QED BY <2>1, <2>2 DEF LeavesTickets, kept, old
<1>2. /\ made \in Seq(Range(made))
      /\ \A t \in Range(made) : \E x \in txs :
            /\ t.id = <<x, 0>> /\ t.amount = Burned(x) /\ x \in TxIds
            /\ t.from = n + TicketMaturity
            /\ t.until = n + TicketMaturity + TicketExpiry - 1
      /\ \A x \in txs : Burned(x) > 0 =>
            \E t \in Range(made) : t.id = <<x, 0>> /\ t.amount = Burned(x)
    BY CreatedTickets
<1>3. after \in Seq(Range(after)) /\ Range(after) = Range(kept) \cup Range(made)
    <2> HIDE DEF kept, made
    <2> QED BY <1>1, <1>2, RangeConcat DEF kept, made
<1>4. txs \subseteq TxIds /\ mined \subseteq TxIds /\ L.mined \subseteq mined /\ txs \subseteq mined
    BY SeqRange
<1>5. \A x \in txs : x \notin L.mined
    BY DEF NotReplays, Range
<1>6. /\ \A t \in old : t.amount \in Nat /\ t.from \in Int /\ t.until \in Int /\ IsTicketId(t.id, L.mined)
      /\ \A t, u \in old : t.id = u.id => t.from = u.from
    BY DEF TicketsFit, OneHeightEach
<1>7. TicketMaturity \in Nat \ {0} /\ TicketExpiry \in Nat \ {0}
    BY ChainAssumption
<1>8. \A x \in TxIds : Burned(x) \in Nat
    BY TransactionAssumption
<1> HIDE DEF kept, made, txs, old
<1> DEFINE N == Range(made)
           K == Range(kept)
<1>9. ASSUME NEW t \in N
      PROVE  /\ t.amount \in Nat /\ t.from = n + TicketMaturity
             /\ t.until = n + TicketMaturity + TicketExpiry - 1
             /\ \E x \in txs : t.id = <<x, 0>> /\ x \in TxIds /\ x \notin L.mined
    BY <1>2, <1>5, <1>8
<1>10. ASSUME NEW t \in N, NEW id, IsTicketId(id, L.mined) PROVE t.id # id
    <2>1. PICK x \in TxIds : t.id = <<x, 0>> /\ x \notin L.mined
        BY <1>9
    <2> QED BY <1>10, <2>1, NewTicketId
<1>11. ASSUME NEW t \in N PROVE IsTicketId(t.id, mined)
    BY <1>4, <1>9 DEF IsTicketId
<1>12. ASSUME NEW t \in K
       PROVE  /\ t.amount \in Nat /\ t.from \in Int /\ t.until \in Int
              /\ IsTicketId(t.id, L.mined) /\ IsTicketId(t.id, mined) /\ t \in old
    <2>1. t \in old
        BY <1>1
    <2> QED BY <1>4, <1>6, <2>1, TicketIdKept
<1> DEFINE m == TicketMaturity
           e == TicketExpiry
<1> HIDE DEF N, K
<1>13. Range(after) = K \cup N
    BY <1>3 DEF K, N
<1>14. TicketsFit(after, mined)
    <2>1. \A t \in N : t.from \in Int /\ t.until \in Int
        <3>1. n + m \in Int /\ n + m + e - 1 \in Int
            BY <1>7
        <3> QED BY <1>9, <3>1
    <2> QED BY <1>3, <1>9, <1>11, <1>12, <1>13, <2>1 DEF TicketsFit
<1>15. OneHeightEach(after)
    <2> SUFFICES ASSUME NEW t \in K \cup N, NEW u \in K \cup N, t.id = u.id PROVE t.from = u.from
        BY <1>13 DEF OneHeightEach
    <2>1. CASE t \in K /\ u \in K
        BY <1>6, <1>12, <2>1
    <2>2. CASE t \in N /\ u \in N
        BY <1>9, <2>2
    <2>3. CASE t \in N /\ u \in K
        BY <1>10, <1>12, <2>3
    <2>4. CASE t \in K /\ u \in N
        BY <1>10, <1>12, <2>4
    <2> QED BY <2>1, <2>2, <2>3, <2>4
<1>16. ASSUME NEW id, IsTicketId(id, L.mined), \A t \in old : t.id # id
       PROVE  \A t \in Range(after) : t.id # id
    BY <1>10, <1>12, <1>13, <1>16
<1>17. \A t \in Range(after) : t.id # << >>
    <2>1. \A t \in Range(after) : IsTicketId(t.id, mined)
        BY <1>14 DEF TicketsFit
    <2> QED BY <2>1, TicketIdKept
<1>18. ASSUME b.mode = "ticket"
       PROVE  /\ \E t \in old : t.id = b.ticket
              /\ \A t \in Range(after) : t.id # b.ticket
    <2>1. PICK u \in old : u.id = b.ticket
        BY <1>1, <1>18
    <2>2. IsTicketId(b.ticket, L.mined)
        BY <1>6, <2>1
    <2>3. \A t \in K : t.id # b.ticket
        BY <1>1, <1>18 DEF K
    <2> QED BY <1>10, <1>13, <2>1, <2>2, <2>3
<1>19. ASSUME Covers(L.tickets, n), NEW x \in txs, Burned(x) > 0
       PROVE  Covers(after, n + 1)
    <2> SUFFICES ASSUME NEW y \in (n + 1)..(n + 1 + m - 1)
                 PROVE  \E t \in K \cup N : t.from = y /\ t.until >= y /\ t.amount > 0
        BY <1>13 DEF Covers
    <2>1. y \in Int /\ y > n /\ (y \in n..(n + m - 1) \/ y = n + m)
        BY <1>7
    <2>2. CASE y \in n..(n + m - 1)
        <3>1. PICK t \in old : t.from = y /\ t.until >= y /\ t.amount > 0
            BY <1>19, <2>2 DEF Covers, old
        <3>2. t.from > n /\ t.until > n
            BY <1>6, <2>1, <3>1
        <3>3. t \in K
            <4>1. ASSUME b.mode = "ticket", t.id \in InvalidatedTicketIds(L, b) PROVE FALSE
                <5>1. PICK u \in old : u.id = t.id /\ u.from <= n
                    BY <1>1, <3>2, <4>1
                <5>2. u.from = t.from
                    BY <1>6, <5>1
                <5> QED BY <1>6, <3>2, <5>1, <5>2
            <4> QED BY <1>1, <3>2, <4>1 DEF K
        <3> QED BY <3>1, <3>3
    <2>3. CASE y = n + m
        <3>1. PICK t \in N : t.id = <<x, 0>> /\ t.amount = Burned(x)
            BY <1>2, <1>19 DEF N
        <3>2. t.from = n + m /\ t.until = n + m + e - 1
            BY <1>9
        <3>3. n + m + e - 1 >= n + m
            BY <1>7
        <3>4. t.amount > 0
            BY <1>19, <3>1
        <3> QED BY <2>3, <3>2, <3>3, <3>4
    <2> QED BY <2>1, <2>2, <2>3
<1> QED BY <1>4, <1>14, <1>15, <1>16, <1>17, <1>18, <1>19 DEF TicketsFollow, txs, old

\* The tickets of the genesis.
LEMMA TicketsAtInit == LedgerInit => TicketInv
PROOF
<1> SUFFICES ASSUME LedgerInit PROVE TicketInv
    OBVIOUS
<1> DEFINE g == Genesis
           G == GenesisLedger
           c == <<g>>
<1>1. ledger = G /\ full = c
    BY DEF LedgerInit
<1>2. Shaped(G) /\ G.chain = c /\ G.pruned = FALSE /\ G.mined = {}
    BY GenesisShaped
<1>3. Chained(c)
    BY GenesisChained
<1>4. G.tickets = GenesisTickets
    BY DEF GenesisLedger
<1>5. g.seed = 0 /\ g.ticket = << >>
    BY DEF Genesis
<1>6. Len(c) = 1 /\ c[1] = g /\ c \in Seq({g})
    OBVIOUS
<1> HIDE DEF g, G, c
<1>7. Resident(ledger, full)
    <2>1. ledger.chain = c /\ full = c /\ ledger.pruned = FALSE
        BY <1>1, <1>2
    <2>2. 2 \in 2..(Len(c) + 1)
        BY <1>6
    <2>3. Suffix(c, c, 2)
        BY <1>6 DEF Suffix
    <2> QED BY <2>1, <2>2, <2>3 DEF Resident
<1>8. TicketsFit(ledger.tickets, ledger.mined) /\ OneHeightEach(ledger.tickets) /\ Covers(ledger.tickets, 1)
    BY <1>1, <1>2, <1>4, GenesisTicketsFit
<1>9. Len(full) = 1 /\ full[1] = g
    BY <1>1, <1>6
<1>10. \A t \in Range(ledger.tickets) : t.id # << >>
    <2>1. \A t \in Range(ledger.tickets) : IsTicketId(t.id, ledger.mined)
        BY <1>8 DEF TicketsFit
    <2> QED BY <2>1, TicketIdKept
<1>11. UsedTickets(full, ledger.tickets, ledger.mined)
    <2>1. \A i \in 1..Len(full) : i = 1
        BY <1>9
    <2> SUFFICES ASSUME NEW i \in 1..Len(full)
                 PROVE  /\ full[i].ticket = << >>
                        /\ ~(i >= 2)
                        /\ \A t \in Range(ledger.tickets) : t.id # full[i].ticket
        BY DEF UsedTickets
    <2> QED BY <1>5, <1>9, <1>10, <2>1
<1>12. TicketFinalizesOnce
    <2>1. \A i \in 2..Len(full) : FALSE
        BY <1>9
    <2> QED BY <2>1 DEF TicketFinalizesOnce
<1>13. \A i \in 1..Len(full) : full[i].seed \in Nat
    BY <1>5, <1>9
<1>14. ledger.mined \subseteq TxIds
    BY <1>1, <1>2
<1> QED BY <1>1, <1>2, <1>3, <1>7, <1>8, <1>9, <1>11, <1>12, <1>13, <1>14 DEF TicketInv

\* A block uses up its ticket and leaves one for the next height.
LEMMA TicketsAtBlock ==
    ASSUME TicketInv, NEW b, Extends(b)
    PROVE  TicketInv'
PROOF
<1> DEFINE n == Len(full)
           L == ledger
           M == ApplyTrustedBlock(L, b)
           more == Append(full, b)
<1>1. /\ Chained(full) /\ Shaped(L) /\ Resident(L, full) /\ L.mined \subseteq TxIds
      /\ TicketsFit(L.tickets, L.mined) /\ OneHeightEach(L.tickets)
      /\ \A i \in 1..n : full[i].seed \in Nat
      /\ UsedTickets(full, L.tickets, L.mined)
      /\ TicketFinalizesOnce
      /\ AllBurn(full) => Covers(L.tickets, n)
    BY DEF TicketInv
<1>2. /\ b.hash = n /\ b.height = n /\ Body(b) \in Seq(TxIds) /\ b.v1 \in Seq(TxIds)
      /\ b.seed \in Nat /\ b.rank \in Nat
      /\ b.mode = "ticket" \/ (b.mode = "recovery" /\ b.ticket = << >>)
      /\ BlockValid(L, b, b.time) /\ ledger' = M /\ full' = more
    BY DEF Extends, ApplyBlock
<1>3. /\ b.mode = "ticket" => FinalizesByRank(b, NextRanks(L))
      /\ NotReplays(L, b)
    BY <1>2 DEF BlockValid, PrecheckBlock
<1>4. /\ n \in Nat \ {0} /\ Len(more) = n + 1 /\ more[n + 1] = b
      /\ \A i \in 1..n : more[i] = full[i]
    <2>1. PICK S : full \in Seq(S)
        BY <1>1 DEF Chained
    <2> DEFINE U == S \cup {b}
    <2>2. full \in Seq(U) /\ b \in U
        BY <2>1, SeqMonotonic
    <2> HIDE DEF U
    <2>3. n \in Nat \ {0}
        BY <1>1 DEF Chained
    <2> QED BY <2>2, <2>3
<1>5. Tip(L).seed \in Nat /\ NextHeight(L) = n
    <2>1. Tip(L) = full[n]
        BY <1>1, TipResident
    <2>2. full[n].height = n - 1 /\ n \in 1..n
        BY <1>1, <1>4 DEF Chained
    <2> HIDE DEF n
    <2>3. full[n].height + 1 = n
        BY <1>4, <2>2
    <2> QED BY <1>1, <2>1, <2>2, <2>3 DEF NextHeight
<1> DEFINE after == ApplyFinalizerTicketEffects(L, b) \o TicketsCreatedByBlock(b)
           mined == L.mined \cup Range(Body(b))
<1>6. M.tickets = after /\ M.mined = mined
    BY <1>1, <1>2, TrustedBlockFields DEF Shaped
<1>7. Shaped(M) /\ M.chain = Append(L.chain, b) /\ M.pruned = L.pruned
    BY <1>1, <1>2, ShapedBlock
<1> HIDE DEF n, M, more
<1>8. Chained(more) /\ Resident(M, more)
    BY <1>1, <1>2, <1>7, ChainedAppend, ResidentAppend DEF more, n
<1>9. /\ mined \subseteq TxIds
      /\ TicketsFit(after, mined)
      /\ OneHeightEach(after)
      /\ \A id : IsTicketId(id, L.mined) /\ (\A t \in Range(L.tickets) : t.id # id)
            => \A t \in Range(after) : t.id # id
      /\ \A t \in Range(after) : t.id # << >>
      /\ b.mode = "ticket" =>
           /\ \E t \in Range(L.tickets) : t.id = b.ticket
           /\ \A t \in Range(after) : t.id # b.ticket
      /\ Covers(L.tickets, n) /\ (\E x \in Range(Body(b)) : Burned(x) > 0)
            => Covers(after, n + 1)
    <2>1. IsLedger(L)
        BY <1>1 DEF Shaped
    <2> HIDE DEF L, after, mined
    <2>2. TicketsFollow(L, b, n, after, mined)
        BY <1>1, <1>2, <1>3, <1>4, <1>5, <2>1, TicketsAfterBlock DEF after, mined
    <2> QED BY <2>2 DEF TicketsFollow
<1>10. L.mined \subseteq mined
    OBVIOUS
<1> HIDE DEF after, mined, L
<1>11. /\ \A i \in 1..n : full[i].ticket = << >> \/ IsTicketId(full[i].ticket, L.mined)
       /\ \A i \in 1..n : i >= 2 /\ full[i].mode = "ticket" => IsTicketId(full[i].ticket, L.mined)
       /\ \A i \in 1..n : \A t \in Range(L.tickets) : t.id # full[i].ticket
    BY <1>1 DEF UsedTickets, n
<1>12. b.mode = "ticket" => IsTicketId(b.ticket, L.mined) /\ \A i \in 1..n : full[i].ticket # b.ticket
    <2>1. \A t \in Range(L.tickets) : IsTicketId(t.id, L.mined)
        BY <1>1 DEF TicketsFit
    <2> QED BY <1>9, <1>11, <2>1
<1>13. \A i \in 1..(n + 1) : i \in 1..n \/ i = n + 1
    BY <1>4
<1>14. UsedTickets(more, after, mined)
    <2> SUFFICES ASSUME NEW i \in 1..(n + 1)
                 PROVE  /\ more[i].ticket = << >> \/ IsTicketId(more[i].ticket, mined)
                        /\ i >= 2 /\ more[i].mode = "ticket" => IsTicketId(more[i].ticket, mined)
                        /\ \A t \in Range(after) : t.id # more[i].ticket
        BY <1>4 DEF UsedTickets
    <2>1. CASE i \in 1..n
        <3>1. more[i] = full[i]
            BY <1>4, <2>1
        <3>2. /\ full[i].ticket = << >> \/ IsTicketId(full[i].ticket, mined)
              /\ i >= 2 /\ full[i].mode = "ticket" => IsTicketId(full[i].ticket, mined)
            BY <1>10, <1>11, <2>1, TicketIdKept
        <3>3. \A t \in Range(after) : t.id # full[i].ticket
            <4> DEFINE id == full[i].ticket
            <4>1. \A t \in Range(L.tickets) : t.id # id
                BY <1>11, <2>1
            <4>2. id = << >> \/ IsTicketId(id, L.mined)
                BY <1>11, <2>1
            <4> HIDE DEF id
            <4>3. \A t \in Range(after) : t.id # id
                BY <1>9, <4>1, <4>2
            <4> QED BY <4>3 DEF id
        <3> QED BY <3>1, <3>2, <3>3
    <2>2. CASE i = n + 1
        <3>1. more[i] = b
            BY <1>4, <2>2
        <3>2. CASE b.mode = "ticket"
            <4>1. IsTicketId(b.ticket, mined)
                BY <1>10, <1>12, <3>2, TicketIdKept
            <4> QED BY <1>9, <3>1, <3>2, <4>1
        <3>3. CASE b.mode # "ticket"
            BY <1>2, <1>9, <3>1, <3>3
        <3> QED BY <3>2, <3>3
    <2> QED BY <1>13, <2>1, <2>2
<1>15. ASSUME NEW i \in 2..(n + 1), NEW j \in 2..(n + 1), i # j, more[i].mode = "ticket"
       PROVE  more[i].ticket # more[j].ticket
    <2>0. i \in 1..(n + 1) /\ j \in 1..(n + 1) /\ i >= 2 /\ j >= 2
        OBVIOUS
    <2>1. CASE i \in 1..n /\ j \in 1..n
        <3>1. i \in 2..n /\ j \in 2..n
            BY <2>1
        <3>2. full[i].mode = "ticket" => full[i].ticket # full[j].ticket
            BY <1>1, <1>15, <3>1 DEF TicketFinalizesOnce, n
        <3> QED BY <1>4, <1>15, <2>1, <3>2
    <2>2. CASE i = n + 1 /\ j \in 1..n
        BY <1>4, <1>12, <1>15, <2>2
    <2>3. CASE i \in 1..n /\ j = n + 1
        <3>1. more[i] = full[i] /\ more[j] = b /\ IsTicketId(full[i].ticket, L.mined)
            BY <1>4, <1>11, <1>15, <2>0, <2>3
        <3>2. CASE b.mode = "ticket"
            BY <1>12, <2>3, <3>1, <3>2
        <3>3. CASE b.mode # "ticket"
            <4>1. full[i].ticket # << >>
                BY <3>1, TicketIdKept
            <4> QED BY <1>2, <3>1, <3>3, <4>1
        <3> QED BY <3>2, <3>3
    <2> QED BY <1>13, <1>15, <2>0, <2>1, <2>2, <2>3
<1>16. TicketFinalizesOnce'
    BY <1>2, <1>4, <1>15 DEF TicketFinalizesOnce
<1>17. \A i \in 1..Len(more) : more[i].seed \in Nat
    BY <1>1, <1>2, <1>4, <1>13
<1>18. AllBurn(more) => Covers(after, n + 1)
    <2> SUFFICES ASSUME AllBurn(more) PROVE Covers(after, n + 1)
        OBVIOUS
    <2>1. \A i \in 2..(n + 1) : \E t \in Range(Body(more[i])) : Burned(t) > 0
        BY <1>4 DEF AllBurn
    <2>2. n + 1 \in 2..(n + 1) /\ \A i \in 2..n : i \in 2..(n + 1) /\ i \in 1..n
        BY <1>4
    <2>3. \E t \in Range(Body(b)) : Burned(t) > 0
        BY <1>4, <2>1, <2>2
    <2>4. AllBurn(full)
        <3> SUFFICES ASSUME NEW i \in 2..n PROVE \E t \in Range(Body(full[i])) : Burned(t) > 0
            BY DEF AllBurn, n
        <3> QED BY <1>4, <2>1, <2>2
    <2> QED BY <1>1, <1>9, <2>3, <2>4
<1>19. /\ Chained(full') /\ Shaped(ledger') /\ Resident(ledger', full')
       /\ ledger'.mined \subseteq TxIds
       /\ TicketsFit(ledger'.tickets, ledger'.mined)
       /\ OneHeightEach(ledger'.tickets)
       /\ \A i \in 1..Len(full') : full'[i].seed \in Nat
       /\ UsedTickets(full', ledger'.tickets, ledger'.mined)
       /\ AllBurn(full') => Covers(ledger'.tickets, Len(full'))
    BY <1>2, <1>4, <1>6, <1>7, <1>8, <1>9, <1>14, <1>17, <1>18
<1> QED BY <1>16, <1>19 DEF TicketInv

\* Pruning and restoring leave the tickets alone.
LEMMA TicketsAtPruning ==
    ASSUME TicketInv, NEW M, PrunedTo(M)
    PROVE  TicketInv'
PROOF
<1>1. M.tickets = ledger.tickets /\ M.mined = ledger.mined /\ M.utxos = ledger.utxos
    BY DEF PrunedTo, LedgerFields
<1>2. Shaped(M)
    BY <1>1 DEF TicketInv, Shaped, PrunedTo
<1>3. TicketFinalizesOnce'
    BY DEF TicketInv, PrunedTo, TicketFinalizesOnce
<1> QED BY <1>1, <1>2, <1>3 DEF TicketInv, PrunedTo

(* The ticket that covers the next height is eligible, and drawn if no other is. *)
LEMMA TicketsFinalize == TicketInv => NextHeightHasFinalizer
PROOF
<1> SUFFICES ASSUME TicketInv, AllBurn(full) PROVE NextRanks(ledger) # << >>
    BY DEF NextHeightHasFinalizer, AllBurn
<1> DEFINE n == Len(full)
           L == ledger
           e == EligibleTickets(L.tickets, n)
           T == {t \in Range(L.tickets) : Eligible(t, n)}
<1>1. /\ Chained(full) /\ Resident(L, full) /\ TicketsFit(L.tickets, L.mined)
      /\ Covers(L.tickets, n) /\ n \in Nat \ {0}
    BY DEF TicketInv, Chained
<1>2. Tip(L).seed \in Nat /\ NextHeight(L) = n
    <2>1. Tip(L) = full[n]
        BY <1>1, TipResident
    <2>2. full[n].height = n - 1 /\ n \in 1..n /\ full[n].seed \in Nat
        BY <1>1 DEF Chained, TicketInv
    <2> HIDE DEF n
    <2>3. full[n].height + 1 = n
        BY <1>1, <2>2
    <2> QED BY <2>1, <2>2, <2>3 DEF NextHeight
<1>3. PICK t \in Range(L.tickets) : t.from = n /\ t.until >= n /\ t.amount > 0
    <2>0. n \in Nat /\ TicketMaturity \in Nat \ {0}
        BY <1>1, ChainAssumption
    <2>1. n \in n..(n + TicketMaturity - 1)
        <3> HIDE DEF n
        <3> QED BY <2>0
    <2> QED BY <1>1, <2>1 DEF Covers
<1>4. t \in T
    BY <1>1, <1>3 DEF Eligible
<1>5. e \in Seq(Range(e)) /\ Range(e) = T
    <2>1. L.tickets \in Seq(Range(L.tickets))
        BY <1>1 DEF TicketsFit
    <2> HIDE DEF L, n
    <2> QED BY <2>1, EligiblePicked
<1>6. \A u \in T : u.amount \in Nat
    BY <1>1 DEF TicketsFit
<1> HIDE DEF e, T
<1>7. SumSeq(AmountsOf(e)) > 0
    <2> DEFINE m == Len(e)
               w == AmountsOf(e)
    <2>1. m \in Nat /\ DOMAIN e = 1..m /\ Range(e) = {e[i] : i \in 1..m}
        BY <1>5 DEF Range
    <2>2. PICK k \in 1..m : e[k] = t
        BY <1>4, <1>5, <2>1
    <2>3. DOMAIN w = 1..m /\ \A i \in 1..m : w[i] = e[i].amount
        BY <2>1 DEF AmountsOf
    <2>4. \A i \in 1..m : w[i] \in Nat
        BY <1>5, <1>6, <2>1, <2>3
    <2> HIDE DEF w, m
    <2>5. w[k] > 0
        BY <1>3, <2>2, <2>3
    <2>6. SumSeq(w) = Sum(w, 1..m)
        BY <2>1, <2>3, <2>4, SumSeqOver
    <2>7. Sum(w, 1..m) > 0
        BY <2>1, <2>2, <2>4, <2>5, SumPositive
    <2> QED BY <2>6, <2>7 DEF w
<1>8. Len(NextRanks(L)) >= 1
    <2> HIDE DEF L, n
    <2>1. Len(RankedTickets(Tip(L).seed, n, L.tickets)) >= 1
        BY <1>1, <1>2, <1>7, RanksAre DEF e
    <2> QED BY <1>2, <2>1 DEF NextRanks
<1> QED BY <1>8

\* Every step keeps the tickets sound.
LEMMA TicketStep == TicketInv /\ [LedgerNext]_ledgerVars => TicketInv'
PROOF
<1> SUFFICES ASSUME TicketInv, [LedgerNext]_ledgerVars PROVE TicketInv'
    OBVIOUS
<1>1. Chained(full) /\ IsLedger(ledger) /\ Resident(ledger, full)
    BY DEF TicketInv, Shaped
<1>2. CASE FinalizeTicketBlock \/ FinalizeRecoveryBlock
    BY <1>1, <1>2, StepsExtend, TicketsAtBlock
<1>3. CASE Prune \/ Restore
    BY <1>1, <1>3, PruningKeeps, TicketsAtPruning
<1>4. CASE UNCHANGED ledgerVars
    BY <1>4 DEF ledgerVars, TicketInv, TicketFinalizesOnce
<1> QED BY <1>2, <1>3, <1>4 DEF LedgerNext

(* Theorem: no ticket finishes two blocks, whatever fallbacks and recoveries came between
   and however long the ticket would have stayed eligible; and as long as every block burns
   something, the next height has somebody to finish its block, whatever tickets fallbacks
   and recoveries took away (apply_finalizer_ticket_effects, ranked_tickets). *)
THEOREM FinalizersAreSound == LedgerSpec => []FinalizersSound
PROOF
<1>1. LedgerInit => TicketInv
    BY TicketsAtInit
<1>2. TicketInv /\ [LedgerNext]_ledgerVars => TicketInv'
    BY TicketStep
<1>3. TicketInv => FinalizersSound
    BY TicketsFinalize DEF TicketInv, FinalizersSound
<1> QED BY <1>1, <1>2, <1>3, PTL DEF LedgerSpec

-----------------------------------------------------------------------------
(* The ranks of past blocks.                                                 *)

(* The first elements of a sequence. *)
LEMMA FirstOnes ==
    ASSUME NEW T, NEW s \in Seq(T), NEW k \in 1..Len(s)
    PROVE  /\ SubSeq(s, 1, k) \in Seq(T) /\ Len(SubSeq(s, 1, k)) = k
           /\ \A i \in 1..k : SubSeq(s, 1, k)[i] = s[i]
PROOF
<1> DEFINE p == SubSeq(s, 1, k)
           n == Len(s)
<1>1. n \in Nat /\ (\A i \in 1..n : s[i] \in T) /\ k \in Nat /\ 1 <= k /\ k <= n
    OBVIOUS
<1>2. \A i \in 1..k : s[i] \in T
    BY <1>1
<1>3. 1 \in Int /\ k \in Int
    BY <1>1
<1> HIDE DEF n
<1>4. /\ p \in Seq(T) /\ Len(p) = (IF 1 <= k THEN k - 1 + 1 ELSE 0)
      /\ \A i \in 1..(k - 1 + 1) : p[i] = s[1 + i - 1]
    BY <1>2, <1>3, SubSeqProperties
<1>5. k - 1 + 1 = k /\ \A i \in 1..k : 1 + i - 1 = i
    BY <1>1
<1> HIDE DEF p
<1>6. Len(p) = k /\ \A i \in 1..k : p[i] = s[i]
    BY <1>1, <1>4, <1>5
<1> QED BY <1>4, <1>6 DEF p

(* Sequences that agree on the first elements have the same ones. *)
LEMMA SubSeqUpTo ==
    ASSUME NEW T, NEW s \in Seq(T), NEW u \in Seq(T), NEW k \in 1..Len(s), k \in 1..Len(u),
           \A i \in 1..k : s[i] = u[i]
    PROVE  SubSeq(s, 1, k) = SubSeq(u, 1, k)
PROOF
<1> DEFINE p == SubSeq(s, 1, k)
           q == SubSeq(u, 1, k)
<1>1. p \in Seq(T) /\ Len(p) = k /\ \A i \in 1..k : p[i] = s[i]
    BY FirstOnes
<1>2. q \in Seq(T) /\ Len(q) = k /\ \A i \in 1..k : q[i] = u[i]
    BY FirstOnes
<1> HIDE DEF p, q
<1>3. \A i \in 1..Len(p) : p[i] = q[i]
    BY <1>1, <1>2
<1>4. p = q
    BY <1>1, <1>2, <1>3, SeqEqual
<1> QED BY <1>4 DEF p, q

\* All elements of a sequence.
LEMMA SubSeqAll ==
    ASSUME NEW T, NEW s \in Seq(T), Len(s) # 0
    PROVE  SubSeq(s, 1, Len(s)) = s
PROOF
<1> DEFINE k == Len(s)
           p == SubSeq(s, 1, k)
<1>1. k \in 1..Len(s)
    OBVIOUS
<1>2. p \in Seq(T) /\ Len(p) = k /\ \A i \in 1..k : p[i] = s[i]
    BY <1>1, FirstOnes
<1> HIDE DEF p
<1>3. p = s
    BY <1>2, SeqEqual
<1> QED BY <1>3 DEF p

\* The draw of the block at position i is the one that the chain below it had.
IsHistorical(draw, before, height) ==
    /\ draw.seed = Tip(before).seed
    /\ draw.tickets = EligibleTickets(before.tickets, height)
    /\ before.tickets \in Seq(Range(before.tickets))

DrawsHistorical(draws, blocks) ==
    \A i \in 2..Len(blocks) : i - 1 \in DOMAIN draws =>
        IsHistorical(draws[i - 1], Replay(SubSeq(blocks, 1, i - 1)), i - 1)

\* What carries the draws from one step to the next.
RanksInv == KeptInv /\ TicketInv /\ DrawsHistorical(ledger.draws, full)

(* A retained draw gives the ranks that its block was finished under. *)
LEMMA RanksAreHistorical ==
    ASSUME Chained(full), DrawsHistorical(ledger.draws, full)
    PROVE  CachedRanksAreHistorical
PROOF
<1> SUFFICES ASSUME NEW i \in 2..Len(full), full[i].height \in DOMAIN ledger.draws
             PROVE  CachedBurnLeaderRanks(ledger, full[i]) = NextRanks(Replay(SubSeq(full, 1, i - 1)))
    BY DEF CachedRanksAreHistorical
<1> DEFINE h == i - 1
           past == SubSeq(full, 1, h)
           W == Replay(past)
           draw == ledger.draws[h]
           e == EligibleTickets(W.tickets, h)
<1>1. /\ Len(full) \in Nat /\ i \in 1..Len(full) /\ full[i].height = h
      /\ h \in 1..Len(full) /\ h \in Nat \ {0} /\ full[h].height = h - 1
    BY DEF Chained
<1>2. IsHistorical(draw, W, h)
    BY <1>1 DEF DrawsHistorical
<1>3. CachedBurnLeaderRanks(ledger, full[i]) = RankedTickets(draw.seed, h, draw.tickets)
    BY <1>1 DEF CachedBurnLeaderRanks
<1>4. Chained(past) /\ Len(past) = h /\ past[h] = full[h]
    <2> HIDE DEF h
    <2> QED BY <1>1, ChainedPrefix
<1>5. W.chain = past
    BY <1>4, ReplayWhole
<1> HIDE DEF W, past, draw, h
<1>6. Tip(W) = full[h]
    BY <1>4, <1>5 DEF Tip
<1>7. NextHeight(W) = h
    BY <1>1, <1>6 DEF NextHeight
<1>8. EligibleTickets(e, h) = e
    <2>1. /\ e \in Seq(Range(e)) /\ Range(e) = {t \in Range(W.tickets) : Eligible(t, h)}
        BY <1>2, EligiblePicked DEF IsHistorical
    <2> HIDE DEF e
    <2> DEFINE P == {j \in DOMAIN e : Eligible(e[j], h)}
    <2>2. 1..Len(e) \subseteq P
        <3>1. DOMAIN e = 1..Len(e) /\ \A j \in 1..Len(e) : e[j] \in Range(e)
            BY <2>1 DEF Range
        <3> QED BY <2>1, <3>1
    <2>3. EligibleTickets(e, h) = Picked(e, P)
        BY DEF EligibleTickets
    <2> HIDE DEF P
    <2> QED BY <2>1, <2>2, <2>3, RangePicked
<1>9. RankedTickets(draw.seed, h, draw.tickets) = RankedOf(Tip(W).seed, EligibleTickets(e, h))
    BY <1>2 DEF IsHistorical, RankedTickets
<1>10. NextRanks(W) = RankedOf(Tip(W).seed, e)
    BY <1>7 DEF NextRanks, RankedTickets
<1> QED BY <1>3, <1>8, <1>9, <1>10 DEF W, past, h

\* A block records the draw it was made under, and keeps the ones of the retained blocks.
LEMMA RanksAtBlock ==
    ASSUME RanksInv, NEW b, Extends(b)
    PROVE  DrawsHistorical(ledger.draws, full)'
PROOF
<1> DEFINE n == Len(full)
           L == ledger
           M == ApplyTrustedBlock(L, b)
           more == Append(full, b)
           draws == RecordTicketDraw(L, b)
           W == Replay(full)
<1>1. /\ Chained(full) /\ Shaped(L) /\ Resident(L, full) /\ Agree(L, W)
      /\ TicketsFit(L.tickets, L.mined) /\ DrawsHistorical(L.draws, full)
    BY DEF RanksInv, KeptInv, TicketInv
<1>2. b.height = n /\ Body(b) \in Seq(TxIds) /\ ledger' = M /\ full' = more
    BY DEF Extends, ApplyBlock
<1>3. M.draws = draws
    BY <1>1, <1>2, TrustedBlockFields DEF Shaped
<1>4. /\ DOMAIN draws \subseteq DOMAIN L.draws \cup {n}
      /\ \A h \in DOMAIN draws : h # n => h \in DOMAIN L.draws /\ draws[h] = L.draws[h]
      /\ n \in DOMAIN draws
      /\ draws[n].seed = Tip(L).seed /\ draws[n].tickets = EligibleTickets(L.tickets, n)
    BY <1>2 DEF RecordTicketDraw
<1>5. /\ n \in Nat \ {0} /\ Len(more) = n + 1
      /\ \A j \in 1..n : SubSeq(more, 1, j) = SubSeq(full, 1, j)
      /\ SubSeq(full, 1, n) = full
    <2>1. PICK S : full \in Seq(S)
        BY <1>1 DEF Chained
    <2> DEFINE U == S \cup {b}
    <2>2. full \in Seq(U) /\ b \in U
        BY <2>1, SeqMonotonic
    <2>3. n \in Nat \ {0}
        BY <1>1 DEF Chained
    <2> HIDE DEF U
    <2>4. Len(more) = n + 1 /\ more \in Seq(U) /\ (\A j \in 1..n : more[j] = full[j])
        BY <2>2, <2>3
    <2>5. \A j \in 1..n : full[j] \in U
        BY <2>2
    <2> HIDE DEF n, more
    <2>6. ASSUME NEW j \in 1..n PROVE SubSeq(more, 1, j) = SubSeq(full, 1, j)
        <3>1. j \in 1..Len(more) /\ j \in 1..Len(full) /\ \A i \in 1..j : more[i] = full[i]
            BY <2>3, <2>4 DEF n
        <3> QED BY <2>2, <2>4, <3>1, SubSeqUpTo
    <2>7. SubSeq(full, 1, n) = full
        BY <2>2, <2>3, SubSeqAll DEF n
    <2> QED BY <2>3, <2>4, <2>6, <2>7
<1>6. /\ Tip(L) = full[n] /\ W.chain = full /\ L.tickets = W.tickets
      /\ L.tickets \in Seq(Range(L.tickets))
    <2>1. Tip(L) = full[n]
        BY <1>1, TipResident
    <2>2. W.chain = full
        BY <1>1, ReplayWhole
    <2> HIDE DEF W, L
    <2> QED BY <1>1, <2>1, <2>2 DEF Agree, LedgerFields, TicketsFit
<1>7. Tip(W) = full[n]
    <2> HIDE DEF W
    <2> QED BY <1>6 DEF Tip
<1> HIDE DEF L, M, more, draws, n
<1>8. IsHistorical(draws[n], W, n)
    <2> HIDE DEF W
    <2> QED BY <1>4, <1>6, <1>7 DEF IsHistorical
<1>9. DrawsHistorical(draws, more)
    <2> SUFFICES ASSUME NEW i \in 2..(n + 1), i - 1 \in DOMAIN draws
                 PROVE  IsHistorical(draws[i - 1], Replay(SubSeq(more, 1, i - 1)), i - 1)
        BY <1>5 DEF DrawsHistorical
    <2> DEFINE h == i - 1
    <2>1. h \in 1..n /\ h \in DOMAIN draws /\ (h # n => i \in 2..n)
        BY <1>5
    <2>2. CASE h = n
        <3>1. SubSeq(more, 1, h) = full
            BY <1>5, <2>1, <2>2
        <3> HIDE DEF h
        <3> QED BY <1>8, <2>2, <3>1 DEF W, h
    <2>3. CASE h # n
        <3>1. SubSeq(more, 1, h) = SubSeq(full, 1, h) /\ draws[h] = L.draws[h] /\ h \in DOMAIN L.draws
            BY <1>4, <1>5, <2>1, <2>3
        <3>2. i \in 2..Len(full)
            BY <2>1, <2>3 DEF n
        <3>3. IsHistorical(L.draws[h], Replay(SubSeq(full, 1, h)), h)
            BY <1>1, <3>1, <3>2 DEF DrawsHistorical
        <3> QED BY <3>1, <3>3
    <2> QED BY <2>2, <2>3
<1>10. DrawsHistorical(ledger'.draws, full')
    BY <1>2, <1>3, <1>9
<1> QED BY <1>10 DEF DrawsHistorical, IsHistorical, Replay

\* Every step keeps the retained draws historical.
LEMMA RanksStep == RanksInv /\ [LedgerNext]_ledgerVars => RanksInv'
PROOF
<1> SUFFICES ASSUME RanksInv, [LedgerNext]_ledgerVars PROVE RanksInv'
    OBVIOUS
<1>1. Chained(full) /\ IsLedger(ledger) /\ Resident(ledger, full)
    BY DEF RanksInv, TicketInv, Shaped
<1>2. KeptInv' /\ TicketInv'
    BY KeptStep, TicketStep DEF RanksInv
<1>3. CASE FinalizeTicketBlock \/ FinalizeRecoveryBlock
    <2>1. PICK b : Extends(b)
        BY <1>1, <1>3, StepsExtend
    <2> QED BY <1>2, <2>1, RanksAtBlock DEF RanksInv
<1>4. CASE Prune \/ Restore
    <2>1. PICK M : PrunedTo(M)
        BY <1>1, <1>4, PruningKeeps
    <2>2. M.draws = ledger.draws
        BY <2>1 DEF PrunedTo, LedgerFields
    <2>3. DrawsHistorical(ledger'.draws, full')
        BY <2>1, <2>2 DEF PrunedTo, RanksInv
    <2>4. DrawsHistorical(ledger.draws, full)'
        BY <2>3 DEF DrawsHistorical, IsHistorical, Replay
    <2> QED BY <1>2, <2>4 DEF RanksInv
<1>5. CASE UNCHANGED ledgerVars
    <2>1. DrawsHistorical(ledger'.draws, full')
        BY <1>5 DEF ledgerVars, RanksInv
    <2>2. DrawsHistorical(ledger.draws, full)'
        BY <2>1 DEF DrawsHistorical, IsHistorical, Replay
    <2> QED BY <1>2, <2>2 DEF RanksInv
<1> QED BY <1>3, <1>4, <1>5 DEF LedgerNext

(* Theorem: what a node keeps after pruning and restoring its history, block by block, is
   what a restart rebuilds from the whole chain, and so is the time the next block has to
   exceed: no block that was dropped is read again (retain_recent_chain_blocks,
   restore_pruned_history). The ranks of a past block come out of its retained draw as the
   replayed chain below that block has them (cached_burn_leader_ranks). *)
THEOREM KeptStateReplays == LedgerSpec => []KeptStateIsReplayed
PROOF
<1>1. LedgerInit => RanksInv
    <2> SUFFICES ASSUME LedgerInit PROVE DrawsHistorical(ledger.draws, full)
        BY KeptAtInit, TicketsAtInit DEF RanksInv
    <2>1. Len(full) = 1
        BY DEF LedgerInit
    <2>2. \A i \in 2..1 : FALSE
        OBVIOUS
    <2> QED BY <2>1, <2>2 DEF DrawsHistorical
<1>2. RanksInv /\ [LedgerNext]_ledgerVars => RanksInv'
    BY RanksStep
<1>3. RanksInv => KeptStateIsReplayed
    BY KeptIsReplayed, RanksAreHistorical DEF RanksInv, KeptInv, KeptStateIsReplayed
<1> QED BY <1>1, <1>2, <1>3, PTL DEF LedgerSpec
=============================================================================
