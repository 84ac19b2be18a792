------------------------------ MODULE MCDcache ------------------------------
EXTENDS Dcache

\* Two sets: A, B and D meet in set 0, C and the device line E lie in set 1.
A == <<0, 0>>
B == <<1, 0>>
C == <<0, 1>>
D == <<2, 0>>
E == <<2, 1>>
MCIndex == {0, 1}
MCOneWay == {0}
MCTwoWays == {0, 1}
MCTwoTags == {0, 1}
MCThreeTags == {0, 1, 2}
MCNone == {}
MCDevice == {E}
Request(kind, line, half, val) == [kind |-> kind, line |-> line, half |-> half, val |-> val]

MCOpFew == {Request("store", A, 1, 1), Request("load", C, 1, 0), Request("sc", A, 2, 1)}
MCOp == {Request("store", A, 1, 1), Request("store", D, 1, 1), Request("load", D, 1, 0),
         Request("load", E, 1, 0)}
MCWalk == {<<B, 2>>}
MCWalkTwo == {<<B, 2>>, <<C, 1>>}
=============================================================================
