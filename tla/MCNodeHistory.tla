--------------------------- MODULE MCNodeHistory ----------------------------
EXTENDS NodeHistory

\* A block has two competing children, or one.
TwoBranches == {1, 2}
OneBranch == {1}
=============================================================================
