------------------------------- MODULE MCLive -------------------------------
(***************************************************************************)
(* What must eventually happen: a started task run settles, and the worker *)
(* pool takes up its work and ends when told to.  A behaviour chooses one  *)
(* of the two at the start, and its fairness is that one's.                *)
(***************************************************************************)
EXTENDS TaskRun, WorkerPool, TLC
CONSTANTS r1, n1, k1, a1, a2, w1, c1, c2, c3

VARIABLE part

MCRunOf == [a \in Attempts |-> r1]
MCNodeOf == (k1 :> n1)
MCRunOfNode == (n1 :> r1)
MCChildOf == [a \in Attempts |-> k1]
MCKindOf == (r1 :> "task")
MCParentOf == (r1 :> None)
MCRetryAttempts == (k1 :> 2)
MCServes == [w \in Workers |-> Attempts]
MCFirstAttempt == (r1 :> a1)
MCTaskNode == (r1 :> n1)
MCTaskChild == (r1 :> k1)

MCInit ==
    /\ part \in {"task", "pool"}
    /\ Init /\ PoolInit
    /\ part # "pool" => /\ mode = "drain" /\ ~called /\ periodic = "off"
                        /\ \A i \in Items : item[i] = "absent"

MCNext ==
    /\ UNCHANGED part
    /\ \/ part = "task" /\ Next /\ UNCHANGED poolVars
       \/ part = "pool" /\ PoolNext /\ UNCHANGED vars

MCSpec ==
    /\ MCInit /\ [][MCNext]_<<part, vars, poolVars>>
    /\ part = "task" => Fairness
    /\ part = "pool" => PoolFairness
=============================================================================
