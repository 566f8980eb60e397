----------------------------- MODULE MCTaskRun -----------------------------
EXTENDS TaskRun, TLC
CONSTANTS r1, n1, k1, a1, a2, w1, w2, c1, c2, c3

MCRunOf == [a \in Attempts |-> r1]
MCNodeOf == (k1 :> n1)
MCRunOfNode == (n1 :> r1)
MCChildOf == [a \in Attempts |-> k1]
MCKindOf == (r1 :> "task")
MCParentOf == (r1 :> None)
MCRetryAttempts == (k1 :> 2)
MCServes == [w \in Workers |-> Attempts]
MCFirstAttempt == (r1 :> a1)
MCTaskNode == (r1 :> n1)
MCTaskChild == (r1 :> k1)
MCSymmetry == Permutations(Workers)
=============================================================================
