------------------------------- MODULE LimbGcd -------------------------------
(* The greatest common divisor loops of the VDF arithmetic, one action per   *)
(* turn of the loop.  A turn either swaps, or advances both remainders by a  *)
(* batch of quotients found on the leading word alone (Lehmer), or falls     *)
(* back to one division.  The same loop serves                               *)
(*    full     extended_gcd                     (both cofactors)             *)
(*    left     left_extended_gcd                (one cofactor)               *)
(*    positive left_extended_gcd_positive       (one, operands >= 0)         *)
(*    partial  xgcd_partial                     (stops below a threshold)    *)
(* oldS, oldT, s, t are the cofactors; in a partial run oldS and s are co2   *)
(* and co1, and oldT and t are not used.                                     *)
EXTENDS LimbArithmetic

CONSTANTS Operands,           \* integers the loops are started from
          Thresholds          \* where a partial run stops

VARIABLES variant, left, right, threshold, oldR, r, oldS, s, oldT, t, phase

gcdVars == <<variant, left, right, threshold, oldR, r, oldS, s, oldT, t, phase>>

-----------------------------------------------------------------------------
(* The quotients both leading words agree on. *)

StartWindow(r2, r1) ==
    LET bits == Max({0, BitLen(r2) - (W - 1)})
    IN [rr2 |-> ShiftedLowWord(r2, bits), rr1 |-> ShiftedLowWord(r1, bits), bits |-> bits,
        aa2 |-> 0, aa1 |-> 1, bb2 |-> 1, bb1 |-> 0, steps |-> 0]

AfterQuotient(w) ==
    LET q == w.rr2 \div w.rr1
    IN [w EXCEPT !.rr2 = w.rr1, !.rr1 = w.rr2 - (q * w.rr1),
                 !.aa2 = w.aa1, !.aa1 = w.aa2 - (q * w.aa1),
                 !.bb2 = w.bb1, !.bb1 = w.bb2 - (q * w.bb1), !.steps = w.steps + 1]

\* The quotient of the words may differ from the quotient of the numbers.
QuotientUncertain(w, next) ==
    IF w.steps % 2 = 1
    THEN next.rr1 < -next.bb1 \/ w.rr1 - next.rr1 < next.aa1 - w.aa1
    ELSE next.rr1 < -next.aa1 \/ w.rr1 - next.rr1 < next.bb1 - w.bb1

RECURSIVE AdvanceWindow(_, _)
AdvanceWindow(w, stopWord) ==
    IF w.rr1 = 0 \/ w.rr1 <= stopWord THEN w
    ELSE IF w.rr2 \div w.rr1 = 0 \/ QuotientUncertain(w, AfterQuotient(w)) THEN w
    ELSE AdvanceWindow(AfterQuotient(w), stopWord)

-----------------------------------------------------------------------------
(* Starting. *)

\* The order in which left_extended_gcd_positive takes its operands.
Starts(x, y) ==
    IF variant = "positive" /\ AbsCmp(x, y) = Less
    THEN oldR = y /\ r = x /\ oldS = Zero /\ s = One
    ELSE oldR = x /\ r = y /\ oldS = One /\ s = Zero

Init ==
    /\ variant \in {"full", "left", "positive", "partial"}
    /\ left \in {FromInt(n) : n \in Operands}
    /\ right \in {FromInt(n) : n \in Operands}
    /\ variant \in {"positive", "partial"} => ~IsNegative(left) /\ ~IsNegative(right)
    \* nudupl and nucomp pass k < a1, and a1 at or above the threshold.
    /\ variant = "partial" => Cmp(right, left) = Less
    /\ threshold \in IF variant = "partial" THEN {FromInt(n) : n \in Thresholds} ELSE {Zero}
    /\ variant = "partial" => Cmp(left, threshold) # Less
    /\ IF variant = "partial"
       THEN oldR = left /\ r = right /\ oldS = Zero /\ s = FromInt(-1)
       ELSE Starts(left, right)
    /\ oldT = Zero
    /\ t = One
    /\ phase = "loop"

-----------------------------------------------------------------------------
(* One turn of the loop. *)

Looping ==
    /\ phase = "loop"
    /\ ~IsZero(r)
    /\ IF variant = "partial" THEN Cmp(r, threshold) = Greater
       ELSE ~IsOne(oldR) /\ ~IsOne(r)

BothNonNegative == ~IsNegative(oldR) /\ ~IsNegative(r)

MustSwap ==
    variant \in {"full", "left"} /\ BothNonNegative /\ AbsCmp(oldR, r) = Less

Swap ==
    /\ Looping
    /\ MustSwap
    /\ oldR' = r /\ r' = oldR
    /\ oldS' = s /\ s' = oldS
    /\ oldT' = t /\ t' = oldT
    /\ UNCHANGED <<variant, left, right, threshold, phase>>

\* A partial run also stops its batch at the leading word of the threshold.
Batch ==
    LET w == StartWindow(oldR, r)
    IN AdvanceWindow(w, IF variant = "partial" THEN ShiftedLowWord(threshold, w.bits) ELSE 0)

Signed(x, y) == IF IsNegative(x) THEN Negated(y) ELSE y

\* The remainders of a batch, and their cofactors with the signs that make the
\* remainders positive.
OldAfter(w, x, y) == LinearCombinationI128(x, w.bb2, y, w.aa2)
NewAfter(w, x, y) == LinearCombinationI128(y, w.aa1, x, w.bb1)

AdvanceOld(w, nextOldR) ==
    /\ oldR' = Signed(nextOldR, nextOldR)
    /\ oldS' = Signed(nextOldR, OldAfter(w, oldS, s))
    /\ oldT' = Signed(nextOldR, OldAfter(w, oldT, t))

AdvanceNew(w, nextR) ==
    /\ r' = Signed(nextR, nextR)
    /\ s' = Signed(nextR, NewAfter(w, oldS, s))
    /\ t' = Signed(nextR, NewAfter(w, oldT, t))

LehmerStep ==
    /\ Looping
    /\ ~MustSwap
    /\ BothNonNegative
    /\ \E w \in {Batch} :
        /\ w.steps # 0
        /\ AdvanceOld(w, OldAfter(w, oldR, r))
        /\ AdvanceNew(w, NewAfter(w, oldR, r))
    /\ UNCHANGED <<variant, left, right, threshold, phase>>

DivisionStep ==
    /\ Looping
    /\ ~MustSwap
    /\ BothNonNegative => Batch.steps = 0
    /\ \E division \in {DivRem(oldR, r)} :
        /\ phase' = IF division.panicked THEN "panicked" ELSE "loop"
        /\ oldR' = r /\ r' = division.remainder
        /\ oldS' = s /\ s' = Sub(oldS, Mul(division.quotient, s))
        /\ oldT' = t /\ t' = Sub(oldT, Mul(division.quotient, t))
    /\ UNCHANGED <<variant, left, right, threshold>>

\* The loop is left: at a zero remainder, at a remainder of one (which is then
\* the divisor), or below the threshold; the sign of the divisor is positive.
Finish ==
    /\ phase = "loop"
    /\ ~Looping
    /\ phase' = "done"
    /\ LET takesR == variant # "partial" /\ ~IsZero(r) /\ ~IsOne(oldR)
           divisor == IF takesR THEN r ELSE oldR
       IN /\ oldR' = Signed(divisor, divisor)
          /\ oldS' = Signed(divisor, IF takesR THEN s ELSE oldS)
          /\ oldT' = Signed(divisor, IF takesR THEN t ELSE oldT)
          /\ s' = IF variant = "partial" THEN Signed(divisor, s) ELSE s
    /\ UNCHANGED <<variant, left, right, threshold, r, t>>

Next == Swap \/ LehmerStep \/ DivisionStep \/ Finish

GcdSpec == Init /\ [][Next]_gcdVars

-----------------------------------------------------------------------------
(* Reference arithmetic on the integers of TLA+. *)

Abs(n) == IF n < 0 THEN -n ELSE n

Quotient(a, b) == Order(a, 0) * Order(b, 0) * (Abs(a) \div Abs(b))

Remainder(a, b) == a - (b * Quotient(a, b))

Floor(a, b) ==
    IF Remainder(a, b) # 0 /\ (a < 0) # (b < 0) THEN Quotient(a, b) - 1 ELSE Quotient(a, b)

Divides(d, n) == IF d = 0 THEN n = 0 ELSE Remainder(n, d) = 0

RECURSIVE Gcd(_, _)
Gcd(a, b) == IF b = 0 THEN Abs(a) ELSE Gcd(b, Remainder(a, b))

-----------------------------------------------------------------------------
(* Properties. *)

\* Every value the loops compute has the one representation comparisons rely
\* on: limbs within a limb's width, no leading zero limb, and the zero sign for
\* zero alone (from_parts, trim_leading_zero_limbs, the in-place variants).
Canonical(x) ==
    /\ \A i \in 1 .. Len(x.limbs) : x.limbs[i] \in 0 .. LimbBase - 1
    /\ x.limbs # <<>> => Last(x.limbs) # 0
    /\ x.sign \in {-1, 0, 1} /\ (x.sign = 0) = (x.limbs = <<>>)

LimbsCanonical == \A x \in {oldR, r, oldS, s, oldT, t} : Canonical(x)

\* The operations on limbs compute what the integers they stand for compute:
\* carries, borrows, estimated quotient digits and the comparisons that replace
\* a division by a constant (limbs/mod.rs).  A division that stops with an
\* out-of-bounds index computes nothing.
ArithmeticMatchesIntegers ==
    LET a == ToInt(left)
        b == ToInt(right)
        divides == ~IsZero(right) /\ ~DivRem(left, right).panicked
    IN /\ ToInt(Add(left, right)) = a + b
       /\ ToInt(Sub(left, right)) = a - b
       /\ Cmp(left, right) = Order(a, b)
       /\ Abs(a) * Abs(b) < 2 ^ 29 => ToInt(Mul(left, right)) = a * b
       /\ ToInt(AbsValue(left)) = Abs(a)
       /\ a % 2 = 0 => ToInt(Div2Exact(left)) = a \div 2
       /\ \A n \in {-LimbBase - 1, -1, 0, LimbBase} : ToInt(MulI128(left, n)) = a * n
       /\ Abs(a) < 2 ^ 14 => ToInt(Square(left)) = a * a
       /\ \A n \in 0 .. W + 1 :
             /\ ToInt(ShlBits(left, n)) = a * 2 ^ n
             /\ ToInt(ShrAbsBits(left, n)) = Abs(a) \div 2 ^ n
       /\ Abs(b) < LimbBase ^ 2 =>
             LinearCombinationI128(left, b, right, 3) = FromInt((a * b) + (3 * b))
       /\ divides =>
             /\ ToInt(DivRem(left, right).quotient) = Quotient(a, b)
             /\ ToInt(DivRem(left, right).remainder) = Remainder(a, b)
             /\ ToInt(Div(left, right)) = Quotient(a, b)
             /\ ToInt(DivFloor(left, right)) = Floor(a, b)
             /\ b > 0 => ToInt(ModPositive(left, right)) = a % b

\* At every turn each remainder is still the combination of the operands that
\* its cofactors say, although the turns advance by quotients of leading words:
\* exactly with both cofactors, modulo the other operand with one; and the
\* cofactors of a partial run keep the determinant composition divides by.
CofactorsExact ==
    LET a == ToInt(left)
        b == ToInt(right)
    IN CASE phase = "panicked" -> TRUE
         [] phase # "panicked" /\ variant = "full" ->
                /\ ToInt(oldR) = (a * ToInt(oldS)) + (b * ToInt(oldT))
                /\ phase = "loop" => ToInt(r) = (a * ToInt(s)) + (b * ToInt(t))
         [] phase # "panicked" /\ variant \in {"left", "positive"} ->
                Divides(b, ToInt(oldR) - (a * ToInt(oldS)))
         [] OTHER ->
                /\ Divides(a, ToInt(oldR) + (b * ToInt(oldS)))
                /\ Divides(a, ToInt(r) + (b * ToInt(s)))
                /\ Abs((ToInt(oldR) * ToInt(s)) - (ToInt(r) * ToInt(oldS))) = a

\* No turn changes the greatest common divisor, and a loop that ran to its end
\* returns it.
DivisorKept ==
    (variant # "partial" /\ phase # "panicked") =>
        IF phase = "done" THEN ToInt(oldR) = Gcd(ToInt(left), ToInt(right))
        ELSE Gcd(ToInt(oldR), ToInt(r)) = Gcd(ToInt(left), ToInt(right))

\* A partial run stops at the first remainder that is not above the threshold:
\* composition uses r1 and the cofactors of exactly that step.
PartialStopsFirst ==
    (variant = "partial" /\ phase = "done") =>
        /\ Cmp(r, threshold) # Greater
        /\ r = right \/ Cmp(oldR, threshold) = Greater

\* limbs/mod.rs:2295-2308 compares div_rem with num-bigint for arbitrary operands.
DivRemMatchesBigint ==
    ~IsZero(right) =>
        LET division == DivRem(left, right)
        IN /\ ~division.panicked
           /\ ToInt(division.quotient) = Quotient(ToInt(left), ToInt(right))
           /\ ToInt(division.remainder) = Remainder(ToInt(left), ToInt(right))
=============================================================================
