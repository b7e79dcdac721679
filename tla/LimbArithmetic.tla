--------------------------- MODULE LimbArithmetic ---------------------------
(* The signed big integers of the VDF: a sign and the limbs of the absolute  *)
(* value, least significant first, without leading zero limbs.  A limb has W *)
(* bits (64 in the code); an intermediate product has two limbs (u128), and  *)
(* what overflows a limb is carried or borrowed explicitly, as in the code.  *)
EXTENDS Integers, Sequences, SequencesExt

CONSTANT W                                  \* bits of a limb

ASSUME LimbWidthAssumption == W \in Nat /\ W >= 2

LimbBase == 2 ^ W

Less == -1
Equal == 0
Greater == 1

Order(a, b) == IF a < b THEN Less ELSE IF a = b THEN Equal ELSE Greater

Indices(n) == [i \in 1 .. n |-> i]

\* A limb past the end reads as zero.
LimbAt(limbs, i) == IF i \in 1 .. Len(limbs) THEN limbs[i] ELSE 0

ZeroLimbs(n) == <<>> \o [i \in 1 .. n |-> 0]

EnsureLen(limbs, n) == limbs \o ZeroLimbs(Max({0, n - Len(limbs)}))

LowLimbs(limbs, n) == SubSeq(limbs, 1, n)

TrimLeadingZeroLimbs(limbs) ==
    LowLimbs(limbs, Max({0} \cup {i \in 1 .. Len(limbs) : limbs[i] # 0}))

\* Bits of one limb up to its highest set bit (64 - leading_zeros).
LimbBits(limb) == CHOOSE n \in 0 .. W : limb < 2 ^ n /\ (n = 0 \/ limb >= 2 ^ (n - 1))

-----------------------------------------------------------------------------
(* Construction and reading. *)

FromParts(sign, limbs) ==
    LET trimmed == TrimLeadingZeroLimbs(limbs)
    IN [sign |-> IF trimmed = <<>> THEN 0 ELSE sign, limbs |-> trimmed]

Zero == [sign |-> 0, limbs |-> <<>>]
One == [sign |-> 1, limbs |-> <<1>>]

RECURSIVE MagnitudeLimbs(_)
MagnitudeLimbs(n) ==
    IF n = 0 THEN <<>> ELSE <<n % LimbBase>> \o MagnitudeLimbs(n \div LimbBase)

FromInt(n) == FromParts(Order(n, 0), MagnitudeLimbs(IF n < 0 THEN -n ELSE n))

Magnitude(limbs) == FoldRight(LAMBDA limb, high : limb + (LimbBase * high), limbs, 0)

ToInt(x) == x.sign * Magnitude(x.limbs)

IsZero(x) == x.sign = 0
IsNegative(x) == x.sign = -1
IsOne(x) == x = One

BitLen(x) ==
    IF x.limbs = <<>> THEN 0 ELSE ((Len(x.limbs) - 1) * W) + LimbBits(Last(x.limbs))

Negated(x) == [x EXCEPT !.sign = -x.sign]

AbsValue(x) == FromParts(1, x.limbs)

-----------------------------------------------------------------------------
(* Comparison. *)

CmpAbsLimbs(left, right) ==
    IF Len(left) # Len(right) THEN Order(Len(left), Len(right))
    ELSE LET differing == {i \in 1 .. Len(left) : left[i] # right[i]}
         IN IF differing = {} THEN Equal
            ELSE Order(left[Max(differing)], right[Max(differing)])

AbsCmp(x, y) == CmpAbsLimbs(x.limbs, y.limbs)

Cmp(x, y) ==
    IF x.sign # y.sign THEN Order(x.sign, y.sign)
    ELSE IF x.sign = -1 THEN CmpAbsLimbs(y.limbs, x.limbs) ELSE CmpAbsLimbs(x.limbs, y.limbs)

TopBit(limb) == limb \div (LimbBase \div 2)

ShiftedLeftOneLimb(limbs, i) ==
    ((2 * LimbAt(limbs, i)) % LimbBase) + TopBit(LimbAt(limbs, i - 1))

CmpAbsToDouble(left, right) ==
    CmpAbsLimbs(left, [i \in 1 .. Len(right) + TopBit(Last(right)) |->
                          ShiftedLeftOneLimb(right, i)])

-----------------------------------------------------------------------------
(* Addition and subtraction of absolute values, with carry and borrow. *)

\* A carry moved up until it is absorbed.
RECURSIVE PropagateCarry(_, _, _)
PropagateCarry(limbs, at, carry) ==
    IF carry = 0 THEN limbs
    ELSE LET sum == LimbAt(limbs, at) + carry
         IN PropagateCarry([EnsureLen(limbs, at) EXCEPT ![at] = sum % LimbBase],
                           at + 1, sum \div LimbBase)

WithCarry(done) == IF done.carry = 0 THEN done.out ELSE Append(done.out, done.carry)

AddAbsLimbs(left, right) ==
    LET Step(acc, i) ==
            LET sum == LimbAt(left, i) + LimbAt(right, i) + acc.carry
            IN [out |-> Append(acc.out, sum % LimbBase), carry |-> sum \div LimbBase]
    IN WithCarry(FoldLeft(Step, [out |-> <<>>, carry |-> 0],
                          Indices(Max({Len(left), Len(right)}))))

SubAbsLimbs(left, right) ==
    LET Step(acc, i) ==
            LET difference == left[i] - LimbAt(right, i) - acc.borrow
            IN [out |-> Append(acc.out, difference % LimbBase),
                borrow |-> IF difference < 0 THEN 1 ELSE 0]
    IN TrimLeadingZeroLimbs(FoldLeft(Step, [out |-> <<>>, borrow |-> 0],
                                     Indices(Len(left))).out)

CombineSignedAbsLimbs(leftSign, left, rightSign, right) ==
    CASE leftSign = 0 /\ rightSign = 0 -> Zero
      [] leftSign = 0 /\ rightSign # 0 -> FromParts(rightSign, right)
      [] leftSign # 0 /\ rightSign = 0 -> FromParts(leftSign, left)
      [] leftSign # 0 /\ rightSign = leftSign -> FromParts(leftSign, AddAbsLimbs(left, right))
      [] OTHER -> CASE CmpAbsLimbs(left, right) = Greater ->
                           FromParts(leftSign, SubAbsLimbs(left, right))
                    [] CmpAbsLimbs(left, right) = Less ->
                           FromParts(rightSign, SubAbsLimbs(right, left))
                    [] OTHER -> Zero

Add(x, y) == CombineSignedAbsLimbs(x.sign, x.limbs, y.sign, y.limbs)
Sub(x, y) == CombineSignedAbsLimbs(x.sign, x.limbs, -y.sign, y.limbs)

-----------------------------------------------------------------------------
(* Multiplication. *)

MulOrdered(outer, inner) ==
    LET Row(limbs, i) ==
            LET Step(acc, j) ==
                    LET product == (outer[i] * inner[j]) + acc.out[i + j - 1] + acc.carry
                    IN [out |-> [acc.out EXCEPT ![i + j - 1] = product % LimbBase],
                        carry |-> product \div LimbBase]
                Carried(done) == PropagateCarry(done.out, i + Len(inner), done.carry)
            IN Carried(FoldLeft(Step, [out |-> limbs, carry |-> 0], Indices(Len(inner))))
    IN TrimLeadingZeroLimbs(FoldLeft(Row, ZeroLimbs(Len(outer) + Len(inner)),
                                     Indices(Len(outer))))

MulAbsLimbs(left, right) ==
    IF Len(left) <= Len(right) THEN MulOrdered(left, right) ELSE MulOrdered(right, left)

MulAbsOneLimb(value, scalar) ==
    LET Step(acc, limb) ==
            [out |-> Append(acc.out, ((limb * scalar) + acc.carry) % LimbBase),
             carry |-> ((limb * scalar) + acc.carry) \div LimbBase]
    IN IF scalar = 0 THEN <<>>
       ELSE WithCarry(FoldLeft(Step, [out |-> <<>>, carry |-> 0], value))

\* A two-limb value added at a position.
AddU128At(limbs, at, value) ==
    LET wide == EnsureLen(limbs, at + 1)
        low == wide[at] + (value % LimbBase)
        high == wide[at + 1] + (value \div LimbBase) + (low \div LimbBase)
    IN PropagateCarry([wide EXCEPT ![at] = low % LimbBase, ![at + 1] = high % LimbBase],
                      at + 2, high \div LimbBase)

\* limbs + value * part, offset limbs up.
AddScaled(limbs, value, part, offset) ==
    FoldLeft(LAMBDA acc, i : AddU128At(acc, i + offset, value[i] * part),
             limbs, Indices(Len(value)))

\* A scalar of up to two limbs.
MulAbsSmall(value, scalar) ==
    LET low == scalar % LimbBase
        high == scalar \div LimbBase
    IN IF high = 0 THEN MulAbsOneLimb(value, low)
       ELSE TrimLeadingZeroLimbs(
                AddScaled(AddScaled(ZeroLimbs(Len(value) + 2), value, low, 0), value, high, 1))

Mul(x, y) ==
    FromParts(x.sign * y.sign,
        CASE Len(x.limbs) = 1 -> MulAbsOneLimb(y.limbs, x.limbs[1])
          [] Len(x.limbs) # 1 /\ Len(y.limbs) = 1 -> MulAbsOneLimb(x.limbs, y.limbs[1])
          [] OTHER -> MulAbsLimbs(x.limbs, y.limbs))

Square(x) == FromParts(1, MulAbsLimbs(x.limbs, x.limbs))

Magnitude128(scalar) == IF scalar < 0 THEN -scalar ELSE scalar

SignedScalarSign(sign, scalar) == sign * Order(scalar, 0)

MulI128(x, scalar) ==
    FromParts(SignedScalarSign(x.sign, scalar), MulAbsSmall(x.limbs, Magnitude128(scalar)))

\* left * leftScalar + right * rightScalar
LinearCombinationI128(left, leftScalar, right, rightScalar) ==
    CombineSignedAbsLimbs(
        SignedScalarSign(left.sign, leftScalar),
        MulAbsSmall(left.limbs, Magnitude128(leftScalar)),
        SignedScalarSign(right.sign, rightScalar),
        MulAbsSmall(right.limbs, Magnitude128(rightScalar)))

-----------------------------------------------------------------------------
(* Shifts. *)

ShlAbsLimbs(value, bits) ==
    LET limbShift == bits \div W
        bitShift == bits % W
    IN IF value = <<>> THEN <<>>
       ELSE TrimLeadingZeroLimbs(
                [i \in 1 .. limbShift + Len(value) + 1 |->
                    ((LimbAt(value, i - limbShift) * 2 ^ bitShift) % LimbBase)
                        + (LimbAt(value, i - limbShift - 1) \div 2 ^ (W - bitShift))])

ShrAbsLimbs(value, bits) ==
    LET limbShift == bits \div W
        bitShift == bits % W
    IN IF limbShift >= Len(value) THEN <<>>
       ELSE TrimLeadingZeroLimbs(
                [i \in 1 .. Len(value) - limbShift |->
                    (value[i + limbShift] \div 2 ^ bitShift)
                        + ((LimbAt(value, i + limbShift + 1) * 2 ^ (W - bitShift)) % LimbBase)])

ShlBits(x, bits) == FromParts(x.sign, ShlAbsLimbs(x.limbs, bits))
ShrAbsBits(x, bits) == FromParts(1, ShrAbsLimbs(x.limbs, bits))
Div2Exact(x) == FromParts(x.sign, ShrAbsLimbs(x.limbs, 1))

\* The limb-wide window of a non-negative value, shiftBits up.
ShiftedLowWord(x, shiftBits) ==
    LET digit == (shiftBits \div W) + 1
        offset == shiftBits % W
    IN (LimbAt(x.limbs, digit) \div 2 ^ offset)
           + ((LimbAt(x.limbs, digit + 1) * 2 ^ (W - offset)) % LimbBase)

-----------------------------------------------------------------------------
(* Division: schoolbook long division of absolute values (Knuth's D). *)

DivRemAbsOneLimb(numerator, denominator) ==
    LET Step(limb, acc) ==
            LET value == (acc.rem * LimbBase) + limb
            IN [out |-> <<value \div denominator>> \o acc.out, rem |-> value % denominator]
        done == FoldRight(Step, numerator, [out |-> <<>>, rem |-> 0])
    IN [quotient |-> TrimLeadingZeroLimbs(done.out),
        remainder |-> TrimLeadingZeroLimbs(<<done.rem>>), panicked |-> FALSE]

\* The trial digit from the two highest limbs, its remainder, and whether that
\* remainder overflowed a limb.
EstimateQuotient(high, low, denominatorHigh) ==
    IF high = denominatorHigh
    THEN [qhat |-> LimbBase - 1, rhat |-> (low + denominatorHigh) % LimbBase,
          overflowed |-> low + denominatorHigh >= LimbBase]
    ELSE [qhat |-> ((high * LimbBase) + low) \div denominatorHigh,
          rhat |-> ((high * LimbBase) + low) % denominatorHigh, overflowed |-> FALSE]

QuotientTooLarge(qhat, rhat, denominatorNext, numeratorNext) ==
    qhat * denominatorNext > (rhat * LimbBase) + numeratorNext

RECURSIVE CorrectEstimate(_, _, _, _)
CorrectEstimate(estimate, denominatorHigh, denominatorNext, numeratorNext) ==
    IF estimate.overflowed
           \/ ~QuotientTooLarge(estimate.qhat, estimate.rhat, denominatorNext, numeratorNext)
    THEN estimate.qhat
    ELSE CorrectEstimate([qhat |-> estimate.qhat - 1,
                          rhat |-> (estimate.rhat + denominatorHigh) % LimbBase,
                          overflowed |-> estimate.rhat + denominatorHigh >= LimbBase],
                         denominatorHigh, denominatorNext, numeratorNext)

\* The carry leaves from the limb above the product.
SubCarryAt(acc, top) ==
    LET difference == acc.out[top] - (acc.carry % LimbBase)
    IN [limbs |-> [acc.out EXCEPT ![top] = difference % LimbBase],
        borrowed |-> difference < 0 \/ acc.carry \div LimbBase # 0]

\* target - multiplier * value, offset limbs up, and whether it went negative.
SubMulAt(target, value, multiplier, offset) ==
    LET Step(acc, i) ==
            LET product == (multiplier * value[i]) + acc.carry
                difference == acc.out[offset + i] - (product % LimbBase)
            IN [out |-> [acc.out EXCEPT ![offset + i] = difference % LimbBase],
                carry |-> (product \div LimbBase) + (IF difference < 0 THEN 1 ELSE 0)]
    IN SubCarryAt(FoldLeft(Step, [out |-> target, carry |-> 0], Indices(Len(value))),
                  offset + Len(value) + 1)

\* The divisor added back.  The carry goes on past the limb that was borrowed
\* from; a write past the last limb of target is an out-of-bounds panic.
AddAt(target, value, offset) ==
    LET Step(acc, i) ==
            LET sum == acc.out[offset + i] + value[i] + acc.carry
            IN [out |-> [acc.out EXCEPT ![offset + i] = sum % LimbBase],
                carry |-> sum \div LimbBase]
        done == FoldLeft(Step, [out |-> target, carry |-> 0], Indices(Len(value)))
    IN PropagateCarry(done.out, offset + Len(value) + 1, done.carry)

TrialDigit(numerator, denominator, index, n) ==
    CorrectEstimate(EstimateQuotient(numerator[index + n + 1], numerator[index + n],
                                     denominator[n]),
                    denominator[n], denominator[n - 1], numerator[index + n - 1])

AddedBack(acc, restored, qhat) ==
    [numerator |-> restored, quotient |-> <<qhat - 1>> \o acc.quotient,
     panicked |-> acc.panicked \/ Len(restored) > Len(acc.numerator)]

\* Mutant: the digit is trusted once corrected, and nothing is added back.
DigitTrusted(acc, denominator, index, qhat, subtracted) ==
    [acc EXCEPT !.numerator = subtracted.limbs, !.quotient = <<qhat>> \o @]

DigitSettled(acc, denominator, index, qhat, subtracted) ==
    IF subtracted.borrowed
    THEN AddedBack(acc, AddAt(subtracted.limbs, denominator, index), qhat)
    ELSE [acc EXCEPT !.numerator = subtracted.limbs, !.quotient = <<qhat>> \o @]

DigitSubtracted(acc, denominator, index, qhat) ==
    DigitSettled(acc, denominator, index, qhat,
                 SubMulAt(acc.numerator, denominator, qhat, index))

\* One digit of the quotient, most significant first.
QuotientDigit(acc, denominator, index) ==
    DigitSubtracted(acc, denominator, index,
                    TrialDigit(acc.numerator, denominator, index, Len(denominator)))

Denormalized(done, divisor, shift) ==
    [quotient |-> TrimLeadingZeroLimbs(done.quotient),
     remainder |-> ShrAbsLimbs(LowLimbs(done.numerator, Len(divisor)), shift),
     panicked |-> done.panicked]

\* The divisor's highest bit is set, and the numerator has a limb more.
NormalizedDivision(normalized, divisor, shift) ==
    LET Digit(i, acc) == QuotientDigit(acc, divisor, i - 1)
    IN Denormalized(FoldRight(Digit, Indices(Len(normalized) - Len(divisor)),
                              [numerator |-> normalized, quotient |-> <<>>, panicked |-> FALSE]),
                    divisor, shift)

ShiftedDivision(numerator, denominator, shift) ==
    NormalizedDivision(Append(ShlAbsLimbs(numerator, shift), 0),
                       ShlAbsLimbs(denominator, shift), shift)

LongDivision(numerator, denominator) ==
    ShiftedDivision(numerator, denominator, W - LimbBits(Last(denominator)))

DivRemAbsLimbs(numerator, denominator) ==
    CASE CmpAbsLimbs(numerator, denominator) = Less ->
             [quotient |-> <<>>, remainder |-> numerator, panicked |-> FALSE]
      [] CmpAbsLimbs(numerator, denominator) # Less /\ denominator = <<1>> ->
             [quotient |-> numerator, remainder |-> <<>>, panicked |-> FALSE]
      [] CmpAbsLimbs(numerator, denominator) # Less /\ Len(denominator) = 1
             /\ denominator # <<1>> -> DivRemAbsOneLimb(numerator, denominator[1])
      [] OTHER -> LongDivision(numerator, denominator)

\* Truncating division: the remainder has the sign of the dividend.
DivRem(x, y) ==
    LET Signed(abs) ==
            [quotient |-> FromParts(x.sign * y.sign, abs.quotient),
             remainder |-> FromParts(x.sign, abs.remainder), panicked |-> abs.panicked]
    IN Signed(DivRemAbsLimbs(x.limbs, y.limbs))

Rem(x, y) == DivRem(x, y).remainder

\* Quotients below two are found by comparison alone.
Div(x, y) ==
    CASE AbsCmp(x, y) = Less -> Zero
      [] AbsCmp(x, y) = Equal
         \/ (AbsCmp(x, y) = Greater /\ CmpAbsToDouble(x.limbs, y.limbs) = Less) ->
             FromParts(x.sign * y.sign, <<1>>)
      [] OTHER -> DivRem(x, y).quotient

FinishDivFloor(x, y, division) ==
    IF IsZero(division.remainder) \/ x.sign = y.sign
    THEN division.quotient ELSE Sub(division.quotient, One)

DivFloor(x, y) ==
    CASE IsZero(x) -> Zero
      [] ~IsZero(x) /\ AbsCmp(x, y) = Less -> IF x.sign = y.sign THEN Zero ELSE FromInt(-1)
      [] ~IsZero(x) /\ AbsCmp(x, y) = Equal -> IF x.sign = y.sign THEN One ELSE FromInt(-1)
      [] AbsCmp(x, y) = Greater /\ CmpAbsToDouble(x.limbs, y.limbs) = Less ->
             IF x.sign = y.sign THEN One ELSE FromInt(-2)
      [] OTHER -> FinishDivFloor(x, y, DivRem(x, y))

LiftNegative(remainder, y) == IF IsNegative(remainder) THEN Add(remainder, y) ELSE remainder

ModPositive(x, y) == LiftNegative(IF AbsCmp(x, y) = Less THEN x ELSE Rem(x, y), y)
=============================================================================
