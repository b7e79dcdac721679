------------------------------ MODULE MCLimbGcd ------------------------------
EXTENDS LimbGcd

\* One to four limbs of four bits: limb boundaries, consecutive Fibonacci
\* numbers (the longest loops), equal leading words, and a dividend whose
\* leading limbs equal the divisor's.
MCOperands ==
    {-2145, -257, -37, -16, -1, 0, 1, 2, 6, 15, 16, 17, 34, 55, 128, 240, 255, 256, 377, 610,
     1000, 1597, 2048, 2145, 2584, 3055, 4095, 34304}

MCThresholds == {2, 15, 64}
==============================================================================
