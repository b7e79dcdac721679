----------------------------- MODULE ClassGroup -----------------------------
(* The class group of binary quadratic forms (a, b, c) of one discriminant,  *)
(* as limb_arithmetic.rs composes, squares and reduces them.  The integers   *)
(* are those of TLA+; LimbGcd checks that the limb operations compute them.  *)
EXTENDS Integers, Sequences, SequencesExt

Sgn(n) == IF n > 0 THEN 1 ELSE IF n = 0 THEN 0 ELSE -1
Abs(n) == IF n < 0 THEN -n ELSE n

\* Division truncates towards zero, as div_with_scratch and rem do.
Quot(a, b) == Sgn(a) * Sgn(b) * (Abs(a) \div Abs(b))
Rem(a, b) == a - (b * Quot(a, b))

LiftNegative(rem, modulus) == IF rem < 0 THEN rem + modulus ELSE rem

ModPositive(value, modulus) ==
    LiftNegative(Rem(value, modulus), modulus)

Form(a, b, c) == [a |-> a, b |-> b, c |-> c]

Discriminant(f) == (f.b * f.b) - (4 * f.a * f.c)

Identity(disc) == Form(1, 1, Quot(1 - disc, 4))

IsIdentity(f) == f.a = 1 /\ f.b = 1

\* Form::generator of the external kyn_vdf.
Generator(disc) == Form(2, 1, Quot(1 - disc, 8))

-----------------------------------------------------------------------------
(* Euclid's algorithm with the cofactor of the first operand, and the partial *)
(* one that stops at the first remainder not above the threshold.             *)

RECURSIVE EuclidFrom(_, _, _, _, _, _)
EuclidFrom(oldR, r, oldS, s, oldT, t) ==
    IF r = 0 THEN [gcd |-> Abs(oldR), x |-> Sgn(oldR) * oldS, y |-> Sgn(oldR) * oldT]
    ELSE LET q == Quot(oldR, r)
         IN EuclidFrom(r, oldR - (q * r), s, oldS - (q * s), t, oldT - (q * t))

ExtendedGcd(a, b) == EuclidFrom(a, b, 1, 0, 0, 1)

RECURSIVE XgcdPartialFrom(_, _, _, _, _)
XgcdPartialFrom(r2, r1, co2, co1, threshold) ==
    IF r1 = 0 \/ r1 <= threshold THEN [co2 |-> co2, co1 |-> co1, r1 |-> r1]
    ELSE LET q == Quot(r2, r1)
         IN XgcdPartialFrom(r1, r2 - (q * r1), co1, co2 - (q * co1), threshold)

XgcdPartial(r2, r1, threshold) == XgcdPartialFrom(r2, r1, 0, -1, threshold)

-----------------------------------------------------------------------------
(* Reduction. *)

Reduced(f) == Abs(f.b) <= f.a /\ Abs(f.b) <= f.c

\* What is left to do for a form with small b: order a and c, fix the sign of b.
Finished(f) ==
    IF f.a > f.c THEN Form(f.c, -f.b, f.a)
    ELSE IF f.a = f.c /\ f.b < 0 THEN Form(f.a, -f.b, f.c) ELSE f

\* One step by s = floor((b + c) / 2c), with the quotients 0, -1 and 1 found by
\* comparison alone.
ReduceOnce(f) ==
    LET sum == f.b + f.c
        modulus == 2 * f.c
        s == IF sum >= 0 THEN sum \div modulus ELSE -((modulus - 1 - sum) \div modulus)
        rest == (f.c * s) - f.b
    IN CASE sum >= 0 /\ sum < modulus -> Form(f.c, -f.b, f.a)
         [] sum < 0 /\ -sum <= modulus ->
                Form(f.c, -((2 * f.c) + f.b), f.a + f.c + f.b)
         [] sum >= modulus /\ sum < 2 * modulus ->
                Form(f.c, (2 * f.c) - f.b, f.a + f.c - f.b)
         [] OTHER -> Form(f.c, (f.c * s) + rest, f.a + (s * rest))

RECURSIVE Reduce(_)
Reduce(f) == IF Reduced(f) THEN Finished(f) ELSE Reduce(ReduceOnce(f))

-----------------------------------------------------------------------------
(* Squaring and composition (NUDUPL and NUCOMP): below the threshold the      *)
(* textbook formula, above it the partial remainders keep the result small.   *)

FromLeading(disc, a, b) ==
    Form(Abs(a), b, Sgn(a) * Quot((b * b) - disc, 4 * a))

\* What both end with when the partial remainders were used.
FromPartial(disc, resultA, doubledB, co1, b) ==
    FromLeading(disc, resultA, ModPositive(Quot(doubledB, co1) - b, 2 * resultA))

\* The partial remainders give the leading coefficient and twice the new b.
Shortened(disc, a, ra, p, b) ==
    FromPartial(disc, ra, 2 * ((a * p.r1) - (ra * p.co2)), p.co1, b)

LeadingFrom(p, m1, m2) == (IF p.co1 < 0 THEN 1 ELSE -1) * ((p.r1 * m1) - (p.co1 * m2))

ShortenedSquare(f, disc, a1, c1, p) ==
    Shortened(disc, a1,
              LeadingFrom(p, p.r1, Quot((f.b * p.r1) - (c1 * p.co1), a1)), p, f.b)

SquaredBy(f, disc, threshold, a1, c1, k) ==
    IF a1 < threshold
    THEN Form(a1 * a1, (2 * a1 * k) + f.b, Quot(((f.b + (a1 * k)) * k) + c1, a1))
    ELSE ShortenedSquare(f, disc, a1, c1, XgcdPartial(a1, k, threshold))

SquaredWith(f, disc, threshold, g, a1) ==
    SquaredBy(f, disc, threshold, a1, f.c * g.gcd,
              ModPositive(-((IF f.b < 0 THEN -g.x ELSE g.x) * f.c), a1))

NuduplAfter(f, disc, threshold, g) == SquaredWith(f, disc, threshold, g, Quot(f.a, g.gcd))

Nudupl(f, disc, threshold) ==
    NuduplAfter(f, disc, threshold, ExtendedGcd(Abs(f.b), f.a))

SecondCofactors(k, second, c) == (k * second.y) - (second.x * c)

\* n = [a1, a2, c2, k]: the operands once their common factor is divided out;
\* ss and m are half the sum and half the difference of the middle coefficients.
ShortenedProduct(g, disc, n, ss, m, p) ==
    Shortened(disc, n.a2,
              LeadingFrom(p, Quot((m * p.co1) + (n.a2 * p.r1), n.a1),
                          Quot((ss * p.r1) - (n.c2 * p.co1), n.a1)), p, g.b)

ProductOf(g, disc, threshold, n, ss, m) ==
    IF n.a1 < threshold
    THEN Form(n.a2 * n.a1, (2 * n.a2 * n.k) + g.b,
              Quot(((g.b + (n.a2 * n.k)) * n.k) + n.c2, n.a1))
    ELSE ShortenedProduct(g, disc, n, ss, m, XgcdPartial(n.a1, n.k, threshold))

\* Coprime leading coefficients need no second gcd.
Coprime(f, g, k1) == [a1 |-> f.a, a2 |-> g.a, c2 |-> g.c, k |-> k1]

Divided(f, g, k1, second) ==
    [a1 |-> Quot(f.a, second.gcd), a2 |-> Quot(g.a, second.gcd), c2 |-> g.c * second.gcd,
     k |-> ModPositive(SecondCofactors(k1, second, g.c), Quot(f.a, second.gcd))]

Normalized(f, g, ss, first, k1) ==
    IF first.gcd = 1 THEN Coprime(f, g, k1) ELSE Divided(f, g, k1, ExtendedGcd(ss, first.gcd))

ProductAfter(f, g, disc, threshold, ss, m, first) ==
    ProductOf(g, disc, threshold,
              Normalized(f, g, ss, first, ModPositive(m * first.x, f.a)), ss, m)

FirstGcd(residue, a) ==
    IF residue = 0 THEN [x |-> 0, gcd |-> a] ELSE ExtendedGcd(residue, a)

\* f has the smaller leading coefficient.
NucompOrdered(f, g, disc, threshold) ==
    ProductAfter(f, g, disc, threshold, Quot(f.b + g.b, 2), Quot(f.b - g.b, 2),
                 FirstGcd(Rem(g.a, f.a), f.a))

Nucomp(left, right, disc, threshold) ==
    NucompOrdered(IF left.a > right.a THEN right ELSE left,
                  IF left.a > right.a THEN left ELSE right, disc, threshold)

NuduplReduce(f, disc, threshold) ==
    IF IsIdentity(f) THEN f ELSE Reduce(Nudupl(f, disc, threshold))

\* The buckets of the prover are composed without reducing in between.
ComposeUnreduced(f, g, disc, threshold) ==
    CASE IsIdentity(f) -> g
      [] ~IsIdentity(f) /\ IsIdentity(g) -> f
      [] OTHER -> Nucomp(f, g, disc, threshold)

NucompReduce(f, g, disc, threshold) ==
    IF IsIdentity(f) \/ IsIdentity(g) THEN ComposeUnreduced(f, g, disc, threshold)
    ELSE Reduce(Nucomp(f, g, disc, threshold))

BitsOf(n) == CHOOSE m \in 0 .. 31 : n < 2 ^ m /\ (m = 0 \/ n >= 2 ^ (m - 1))

Bounded(f, maxBits) == IF BitsOf(f.a) > maxBits THEN Reduce(f) ELSE f

TimesIf(bit, result, f, disc, threshold) ==
    IF bit = 1 THEN Nucomp(result, f, disc, threshold) ELSE result

\* Square and multiply from the second highest bit; an intermediate form is
\* reduced only once its leading coefficient has outgrown half the discriminant.
FastPow(f, exponent, disc, threshold) ==
    LET Step(i, result) ==
            TimesIf((exponent \div 2 ^ (i - 1)) % 2,
                    Bounded(Nudupl(result, disc, threshold), BitsOf(Abs(disc)) \div 2),
                    f, disc, threshold)
    IN CASE exponent = 0 -> Identity(disc)
         [] exponent # 0 /\ IsIdentity(f) -> f
         [] OTHER -> Reduce(FoldRight(Step, [i \in 1 .. BitsOf(exponent) - 1 |-> i], f))

-----------------------------------------------------------------------------
(* The group law itself, for comparison: Gauss's composition by definition.   *)

ReducedForms(disc) ==
    LET bound == Max({n \in 1 .. Abs(disc) : 3 * n * n <= Abs(disc)})
    IN {f \in {Form(a, b, ((b * b) - disc) \div (4 * a)) :
                  a \in 1 .. bound, b \in -bound .. bound} :
            /\ Discriminant(f) = disc
            /\ Abs(f.b) <= f.a /\ f.a <= f.c
            /\ (Abs(f.b) = f.a \/ f.a = f.c) => f.b >= 0}

United(f, g, disc, e, a) ==
    CHOOSE b \in 0 .. (2 * a) - 1 :
        /\ (b - f.b) % (2 * (f.a \div e)) = 0
        /\ (b - g.b) % (2 * (g.a \div e)) = 0
        /\ ((((f.b + g.b) \div (2 * e)) * b) - (((f.b * g.b) + disc) \div (2 * e)))
               % (2 * a) = 0

OfDiscriminant(a, b, disc) == Form(a, b, ((b * b) - disc) \div (4 * a))

ComposedBy(f, g, disc, e, a) == Reduce(OfDiscriminant(a, United(f, g, disc, e, a), disc))

ComposedOver(f, g, disc, e) == ComposedBy(f, g, disc, e, (f.a * g.a) \div (e * e))

GaussCompose(f, g, disc) ==
    ComposedOver(f, g, disc,
                 ExtendedGcd(ExtendedGcd(f.a, g.a).gcd, (f.b + g.b) \div 2).gcd)

GaussSquare(f, disc) == GaussCompose(f, f, disc)

GaussTimesIf(bit, f, g, disc) == IF bit = 1 THEN GaussCompose(f, g, disc) ELSE f

RECURSIVE GaussPow(_, _, _)
GaussPow(f, exponent, disc) ==
    IF exponent = 0 THEN Identity(disc)
    ELSE GaussTimesIf(exponent % 2, GaussSquare(GaussPow(f, exponent \div 2, disc), disc),
                      f, disc)
=============================================================================
