------------------------------ MODULE MCCatchUp ------------------------------
EXTENDS CatchUp

Tree == [a1 |-> "g", a2 |-> "a1", a3 |-> "a2", b1 |-> "g", c2 |-> "a1"]
TieBreak == {<<"a1", "b1">>, <<"c2", "a2">>, <<"g", "setup">>}
Start(mine, p, q, isPruned, n) ==
    [tip |-> mine, peers |-> [p |-> p, q |-> q], pruned |-> isPruned, incidents |-> n]

\* Two better peers on another branch; a deep fork on a pruned chain; joining
\* with two peers; a chain that grows on its own as well.
Situations ==
    {Start("b1", "a3", "a1", FALSE, 0), Start("b1", "a2", "setup", TRUE, 2),
     Start("setup", "a2", "b1", FALSE, 0), Start("a1", "a2", "setup", FALSE, 2)}
=============================================================================
