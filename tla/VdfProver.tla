------------------------------ MODULE VdfProver ------------------------------
(* The Wesolowski prover: rounds sequential squarings of the generator, then *)
(* the proof generator^floor(2^rounds / challenge), from checkpoints when    *)
(* memory allows (windows of k bits, l passes over every l-th window) and in *)
(* a second sequential pass otherwise.  Another thread may cancel; the       *)
(* prover looks at the flag at the start of every step modelled here.        *)
EXTENDS ClassGroup

CONSTANTS
    Discriminants,      \* negative primes = 1 mod 8
    MaxRounds,          \* bound on the rounds asked for
    Challenges,         \* primes the external get_b may hash to
    WindowBits,         \* k that for_rounds may choose
    Strides,            \* l that for_rounds may choose
    Budgets,            \* checkpoints the memory budget has room for
    MaxCheckpoints, MaxBuckets,
    MayCancel           \* whether the cancelling thread is modelled

VARIABLES disc, rounds, challenge, params, phase, output, done, checkpoints,
          pass, at, buckets, proof, residue, work, cancelled, progress

job == <<disc, rounds, challenge, params>>
proverVars == <<job, phase, output, done, checkpoints, pass, at, buckets, proof, residue,
                work, cancelled, progress>>

\* isqrt_fourth of the external kyn_vdf.
Threshold == Max({n \in 1 .. Abs(disc) : n * n * n * n <= Abs(disc)})

NoForm == Form(0, 0, 0)                     \* an empty bucket

DivCeil(a, b) == (a + b - 1) \div b

FitCheckpointBudget(p, n, limit) ==
    IF limit = 0 \/ p.count <= limit THEN p
    ELSE LET stride == Max({p.l, DivCeil(n, p.k * limit)})
         IN [p EXCEPT !.l = stride, !.count = DivCeil(n, p.k * stride)]

Parameters(n, k, l) ==
    FitCheckpointBudget([k |-> k, l |-> l, count |-> DivCeil(n, k * l)], n, MaxCheckpoints)

Checkpointed == params.k # 0

-----------------------------------------------------------------------------
Init ==
    /\ disc \in Discriminants
    /\ rounds = 0 /\ challenge = 0
    /\ params = [k |-> 0, l |-> 0, count |-> 0]
    /\ phase = "idle"
    /\ output = Generator(disc) /\ proof = Identity(disc)
    /\ done = 0 /\ checkpoints = <<>> /\ pass = 0 /\ at = 0 /\ buckets = <<>>
    /\ residue = 1 /\ work = 0 /\ cancelled = FALSE /\ progress = 0

\* A memory budget without room for checkpoints, and parameters over either
\* limit, take the constant-memory prover (params.k = 0).
StartProof ==
    /\ phase = "idle"
    /\ \E n \in 1 .. MaxRounds, prime \in Challenges, k \in WindowBits, l \in Strides,
          budget \in Budgets :
        LET limit == Min({budget, MaxCheckpoints})
            fitted == FitCheckpointBudget(Parameters(n, k, l), n, limit)
        IN /\ rounds' = n
           /\ challenge' = prime
           /\ params' = IF limit = 0 \/ fitted.count > MaxCheckpoints \/ 2 ^ k > MaxBuckets
                        THEN [k |-> 0, l |-> 0, count |-> 0] ELSE fitted
           /\ residue' = 1 % prime
    /\ phase' = "output"
    /\ UNCHANGED <<disc, output, done, checkpoints, pass, at, buckets, proof, work, cancelled,
                   progress>>

\* The thread that wants the prover stopped (a block arrived meanwhile).
Cancel ==
    /\ MayCancel
    /\ phase \notin {"idle", "proved", "stopped"}
    /\ ~cancelled
    /\ cancelled' = TRUE
    /\ UNCHANGED <<job, phase, output, done, checkpoints, pass, at, buckets, proof, residue,
                   work, progress>>

Stop ==
    /\ cancelled
    /\ phase \notin {"proved", "stopped"}
    /\ phase' = "stopped"
    /\ UNCHANGED <<job, output, done, checkpoints, pass, at, buckets, proof, residue, work,
                   cancelled, progress>>

-----------------------------------------------------------------------------
(* The output: one squaring per round, keeping every (k * l)-th value. *)

Square ==
    /\ phase = "output" /\ done < rounds /\ ~cancelled
    /\ done' = done + 1
    /\ checkpoints' = IF Checkpointed /\ done % (params.k * params.l) = 0
                      THEN Append(checkpoints, output) ELSE checkpoints
    /\ output' = NuduplReduce(output, disc, Threshold)
    /\ progress' = done + 1
    /\ UNCHANGED <<job, phase, pass, at, buckets, proof, residue, work, cancelled>>

OutputComplete ==
    /\ phase = "output" /\ done = rounds
    /\ phase' = IF Checkpointed THEN "pass" ELSE "second"
    /\ pass' = params.l
    /\ done' = 0
    /\ UNCHANGED <<job, output, checkpoints, at, buckets, proof, residue, work, cancelled,
                   progress>>

-----------------------------------------------------------------------------
(* The proof from checkpoints. *)

ModPow2(exponent) == 2 ^ exponent % challenge

BlockEnd(position) == params.k * (position + 1)

\* The window of the quotient each checkpoint stands for in pass j, or -1 for a
\* window that ends past the rounds (windows are computed from the last one
\* down, each residue from the one above).
BlocksForPass(j) ==
    LET Position(i) == ((i - 1) * params.l) + j
        inRange == {i \in 1 .. params.count : rounds >= BlockEnd(Position(i))}
        last == Max(inRange)
        step == ModPow2(params.k * params.l)
        residues == FoldRight(LAMBDA i, acc : <<(acc[1] * step) % challenge>> \o acc,
                              [i \in 1 .. last - 1 |-> i],
                              <<ModPow2(rounds - BlockEnd(Position(last)))>>)
    IN [i \in 1 .. params.count |->
           IF inRange # {} /\ i <= last THEN (residues[i] * 2 ^ params.k) \div challenge
           ELSE -1]

Composed(f, g) == IF f = NoForm THEN g ELSE ComposeUnreduced(f, g, disc, Threshold)

TotalWork == params.l * (params.count + 2 ^ (params.k \div 2) + 2 ^ (params.k - (params.k \div 2)))

Report(n) == rounds + ((n * rounds) \div TotalWork)

BeginPass ==
    /\ phase = "pass" /\ pass > 0 /\ ~cancelled
    /\ pass' = pass - 1
    /\ proof' = FastPow(proof, 2 ^ params.k, disc, Threshold)
    /\ buckets' = [b \in 0 .. 2 ^ params.k - 1 |-> NoForm]
    /\ phase' = "buckets" /\ at' = 0
    /\ UNCHANGED <<job, output, done, checkpoints, residue, work, cancelled, progress>>

FillBucket ==
    /\ phase = "buckets" /\ at < params.count /\ ~cancelled
    /\ \E block \in {BlocksForPass(pass)[at + 1]} :
        buckets' = IF block = -1 THEN buckets
                   ELSE [buckets EXCEPT ![block] = Composed(buckets[block], checkpoints[at + 1])]
    /\ at' = at + 1
    /\ work' = work + 1
    /\ progress' = Report(work')
    /\ UNCHANGED <<job, phase, output, done, checkpoints, pass, proof, residue, cancelled>>

\* Rows of the bucket table carry the high half of the window, columns the low.
ColumnBits == params.k - (params.k \div 2)
RowCount == 2 ^ (params.k \div 2)
ColumnCount == 2 ^ ColumnBits

Aggregate(members) ==
    FoldLeft(LAMBDA acc, b : IF buckets[b] = NoForm THEN acc ELSE Composed(acc, buckets[b]),
             NoForm, members)

WithPower(aggregate, exponent) ==
    IF exponent = 0 \/ aggregate = NoForm THEN proof
    ELSE ComposeUnreduced(proof, FastPow(aggregate, exponent, disc, Threshold), disc, Threshold)

WithAggregate(members, exponent) ==
    WithPower(Aggregate(members), exponent)

NextPart(from, to, count, members, exponent) ==
    /\ phase = from /\ at < count /\ ~cancelled
    /\ proof' = WithAggregate(members, exponent)
    /\ at' = IF at + 1 = count THEN 0 ELSE at + 1
    /\ phase' = IF at + 1 = count THEN to ELSE from
    /\ work' = work + 1
    /\ progress' = Report(work')
    /\ UNCHANGED <<job, output, done, checkpoints, pass, buckets, residue, cancelled>>

BucketsFilled ==
    /\ phase = "buckets" /\ at = params.count
    /\ phase' = "rows" /\ at' = 0
    /\ UNCHANGED <<job, output, done, checkpoints, pass, buckets, proof, residue, work,
                   cancelled, progress>>

RowOf(b1) == [i \in 1 .. ColumnCount |-> (b1 * ColumnCount) + i - 1]
ColumnOf(b0) == [i \in 1 .. RowCount |-> ((i - 1) * ColumnCount) + b0]

\* Mutant: a row is raised to its number, not to where it starts.
AddRowByNumber == NextPart("rows", "columns", RowCount, RowOf(at), at)

AddRow == NextPart("rows", "columns", RowCount, RowOf(at), at * ColumnCount)

AddColumn == NextPart("columns", "pass", ColumnCount, ColumnOf(at), at)

FinishProof ==
    /\ phase = "pass" /\ pass = 0
    /\ proof' = Reduce(proof)
    /\ progress' = 2 * rounds
    /\ phase' = "proved"
    /\ UNCHANGED <<job, output, done, checkpoints, pass, at, buckets, residue, work, cancelled>>

-----------------------------------------------------------------------------
(* The proof in a second sequential pass: long division of 2^rounds by the   *)
(* challenge, bit by bit, in the exponent.                                   *)

TimesGeneratorIf(bit, f) ==
    IF bit THEN NucompReduce(f, Generator(disc), disc, Threshold) ELSE f

SecondPass ==
    /\ phase = "second" /\ done < rounds /\ ~cancelled
    /\ done' = done + 1
    /\ proof' = TimesGeneratorIf(2 * residue >= challenge, NuduplReduce(proof, disc, Threshold))
    /\ residue' = (2 * residue) % challenge
    /\ progress' = rounds + done + 1
    /\ UNCHANGED <<job, phase, output, checkpoints, pass, at, buckets, work, cancelled>>

SecondPassComplete ==
    /\ phase = "second" /\ done = rounds
    /\ phase' = "proved"
    /\ UNCHANGED <<job, output, done, checkpoints, pass, at, buckets, proof, residue, work,
                   cancelled, progress>>

Next ==
    \/ StartProof \/ Cancel \/ Stop
    \/ Square \/ OutputComplete
    \/ BeginPass \/ FillBucket \/ BucketsFilled \/ AddRow \/ AddColumn \/ FinishProof
    \/ SecondPass \/ SecondPassComplete

ProverSpec == Init /\ [][Next]_proverVars

-----------------------------------------------------------------------------
(* The verifier: verify_wesolowski of the external kyn_vdf. *)

VerifyWesolowski(out, pi) ==
    LET g == Generator(disc)
    IN GaussCompose(GaussPow(pi, challenge, disc), GaussPow(g, ModPow2(rounds), disc), disc)
           = GaussCompose(out, Identity(disc), disc)

\* Reduction leaves the forms (a, -a, c) beside (a, a, c): the same class.
Class(f) == IF f.b = -f.a THEN Form(f.a, f.a, f.c) ELSE f

-----------------------------------------------------------------------------
(* Properties. *)

\* Composition and squaring of limb_arithmetic.rs are the group law on every
\* pair of classes, in both branches of the threshold and with operands that
\* are not reduced.
CompositionIsGroupLaw ==
    phase = "idle" =>
        \A f, g \in ReducedForms(disc) :
            LET product == GaussCompose(f, g, disc)
            IN /\ Class(NucompReduce(f, g, disc, Threshold)) = Class(product)
               /\ f = g => Class(NuduplReduce(f, disc, Threshold)) = Class(product)
               /\ Class(Reduce(ComposeUnreduced(
                            ComposeUnreduced(f, g, disc, Threshold), f, disc, Threshold)))
                      = Class(GaussCompose(product, f, disc))

\* No step leaves the discriminant, although buckets and proof are composed
\* without reducing them.
DiscriminantKept ==
    \A f \in {output, proof} \cup {checkpoints[i] : i \in 1 .. Len(checkpoints)}
                 \cup ({buckets[b] : b \in DOMAIN buckets} \ {NoForm}) :
        Discriminant(f) = disc /\ f.a > 0

\* prover.rs:548-551: k and l only select the time-memory tradeoff.  Whatever the
\* windows, the passes and the memory, the same output and proof are returned.
ProofIndependentOfTradeoff ==
    phase = "proved" =>
        /\ Class(output) = Class(GaussPow(Generator(disc), 2 ^ rounds, disc))
        /\ Class(proof) = Class(GaussPow(Generator(disc), 2 ^ rounds \div challenge, disc))

\* What the prover returns is what the verifier of every other node accepts.
SolutionVerifies == phase = "proved" => VerifyWesolowski(output, proof)

\* Checkpoints are taken exactly as often as the budget was sized for.
CheckpointsWithinBudget ==
    /\ Len(checkpoints) <= params.count
    /\ phase \in {"pass", "buckets", "rows", "columns"} => Len(checkpoints) = params.count

\* Reported progress stays within the total of both phases and ends there.
ProgressWithinTotal ==
    progress <= 2 * rounds /\ (phase = "proved" => progress = 2 * rounds)
=============================================================================
