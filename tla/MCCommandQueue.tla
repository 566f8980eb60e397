--------------------------- MODULE MCCommandQueue ---------------------------
EXTENDS CommandQueue, TLC
CONSTANTS r1, a1, w1, w2, c1, c2, c3

MCRunOf == (a1 :> r1)
MCServes == [w \in Workers |-> Subjects]
=============================================================================
