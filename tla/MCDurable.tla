----------------------------- MODULE MCDurable -----------------------------
(***************************************************************************)
(* The in-memory queue, and the two run stores side by side: a behaviour   *)
(* chooses one of the two at the start, and the other stays as it is.      *)
(***************************************************************************)
EXTENDS MemoryQueue, StoreParity
CONSTANTS r1, a1, w1, w2, c1, c2, c3

VARIABLE part

MCRunOf == (a1 :> r1)
MCServes == [w \in Workers |-> Subjects]
MCSymmetry == Permutations(Workers) \cup Permutations(CommandIds)

MCInit ==
    /\ part \in {"queue", "stores"}
    /\ MemInit /\ StoreInit

MCNext ==
    /\ UNCHANGED part
    /\ \/ part = "queue" /\ MemNext /\ UNCHANGED storeVars
       \/ part = "stores" /\ StoreNext /\ UNCHANGED memVars

MCSpec == MCInit /\ [][MCNext]_<<part, memVars, storeVars>>
=============================================================================
