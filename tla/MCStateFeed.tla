----------------------------- MODULE MCStateFeed -----------------------------
EXTENDS StateFeed, TLC

CONSTANTS e1, e2, on, off, o1, o2

Opt(share, control) == [share |-> share, control |-> control]

\* Both shared; one of them in the controlled list instead; in no list.
MCOptions == {Opt(<<e1, e2>>, <<>>), Opt(<<e1>>, <<e2>>), Opt(<<e1>>, <<>>)}
MCWatchLists == {<<e1, e2>>, <<e2>>}
MCEntity == {e1, e2}
MCValue == {on, off}
MCOne == {o1}
MCLong == {e2}

\* The values are told apart by nothing but being different.
MCSymmetry == Permutations(MCValue)
==============================================================================
