--------------------------- MODULE RuntimeProofs ---------------------------
(***************************************************************************)
(* The safety of the runtime around the executions: the worker pool's loop *)
(* for any finite set of commands and any concurrency; racing starts for   *)
(* any number of starters, any requests and any bounds; the watch of a run *)
(* through any number of connections; schedules of any definition, fired   *)
(* by any number of processes.                                             *)
(***************************************************************************)
EXTENDS WorkerPool, RunAdmission, RunWatch, Scheduler, FiniteSetTheorems, TLAPS

-----------------------------------------------------------------------------
(* The worker pool.                                                        *)

\* The types, with executions that are settling counted by a natural: that
\* they fit in the slots is WithinConcurrency.  What the pool's own work
\* has enqueued does exist.
PoolTypes ==
    /\ mode \in {"drain", "serve"}
    /\ item \in [Items -> ItemStates]
    /\ own \subseteq {i \in Items : item[i] # "absent"}
    /\ pc \in LoopPoints
    /\ reply \in Items \cup {NothingClaimed, Error}
    /\ settling \in Nat
    /\ periodic \in {"off", "due", "run", "sleep", "ended"}
    /\ pending \in BOOLEAN /\ lifecycle \in BOOLEAN /\ executions \in BOOLEAN
    /\ called \in BOOLEAN /\ failed \in BOOLEAN /\ hint \in BOOLEAN
    /\ giveBacks \in 0..MaxGiveBacks

\* A slot is free from the loop's condition until the claim's answer is
\* used; a drain's periodic round runs, and a pool returns, with all free.
SlotsKept ==
    /\ ActiveSize <= Concurrency
    /\ pc \in {"claiming", "claimed"} => ActiveSize < Concurrency
    /\ pc \in {"draining", "returned"} => ActiveSize = 0

\* The loop has its answer in hand, and only that command is claimed and
\* not yet running.
OneClaimInHand ==
    /\ \A i \in Items : item[i] = "claimed" <=> pc \in {"claimed", "abandoning"} /\ reply = i
    /\ pc = "abandoning" => reply \in Items

\* lifecycle is aborted by an error, by the caller, or by leaving the loop.
StopsHaveCauses ==
    /\ failed \/ called => lifecycle
    /\ lifecycle => failed \/ called \/ pc \in {"closing", "returned"}
    /\ pc \in {"abandoning", "closing", "returned"} => lifecycle

\* What a drain enqueues or gives back after a claim found nothing keeps a
\* slot busy or the wake latched, until the latch is looked at; a drain
\* that leaves its loop of its own accord has nothing of that left.
DrainWakes ==
    mode = "drain" =>
        /\ periodic \in {"off", "due"}
        /\ pc = "claimed" /\ reply = NothingClaimed /\ own \cap In("queued") # {}
            => pending \/ ActiveSize > 0
        /\ pc \in {"closing", "returned"} /\ ~failed /\ ~called
            => own \cap In("queued") = {} /\ ActiveSize = 0

PoolInv == PoolTypes /\ SlotsKept /\ OneClaimInHand /\ StopsHaveCauses /\ DrainWakes

-----------------------------------------------------------------------------
(* The number of executions under way.                                     *)

\* It is a natural, and zero only if nothing runs and nothing settles.
LEMMA ActiveIsNat ==
    ASSUME PoolTypes
    PROVE  /\ IsFiniteSet(In("running")) /\ ActiveSize \in Nat
           /\ ActiveSize = 0 <=> In("running") = {} /\ settling = 0
<1>1. In("running") \in SUBSET Items
  BY DEF In
<1>2. IsFiniteSet(In("running")) /\ Cardinality(In("running")) \in Nat
  BY <1>1, FS_Subset, FS_CardinalityType, PoolAssumption DEF PoolAssumption
<1>3. Cardinality(In("running")) = 0 <=> In("running") = {}
  BY <1>2, FS_EmptySet
<1>. QED  BY <1>2, <1>3 DEF ActiveSize, PoolTypes

\* Steps that start and end no execution.
LEMMA SameActive ==
    ASSUME \A i \in Items : item'[i] = "running" <=> item[i] = "running", settling' = settling
    PROVE  ActiveSize' = ActiveSize
<1>1. In("running")' = In("running")
  BY DEF In
<1>. QED  BY <1>1 DEF ActiveSize

\* A start takes a slot.
LEMMA StartActive ==
    ASSUME PoolTypes, NEW i \in Items, item[i] # "running",
           item' = [item EXCEPT ![i] = "running"], settling' = settling
    PROVE  ActiveSize' = ActiveSize + 1
<1>1. In("running")' = In("running") \cup {i} /\ i \notin In("running")
  BY DEF In, PoolTypes
<1>2. Cardinality(In("running")') = Cardinality(In("running")) + 1 /\ Cardinality(In("running")) \in Nat
  BY <1>1, ActiveIsNat, FS_AddElement, FS_CardinalityType
<1>. QED  BY <1>2 DEF ActiveSize, PoolTypes

\* The end of an execution keeps its slot until its promise has settled.
LEMMA EndActive ==
    ASSUME PoolTypes, NEW i \in Items, NEW s, item[i] = "running", s # "running",
           item' = [item EXCEPT ![i] = s], settling' = settling + 1
    PROVE  ActiveSize' = ActiveSize
<1>1. In("running")' = In("running") \ {i} /\ i \in In("running")
  BY DEF In, PoolTypes
<1>2. Cardinality(In("running")') = Cardinality(In("running")) - 1 /\ Cardinality(In("running")) \in Nat
  BY <1>1, ActiveIsNat, FS_RemoveElement, FS_CardinalityType
<1>. QED  BY <1>2 DEF ActiveSize, PoolTypes

-----------------------------------------------------------------------------
(* The loop.                                                               *)

\* The loop conditions lead to a claim only with a free slot, and to the
\* end only after an abort.
LEMMA LoopTopEffect ==
    ASSUME NEW n, NEW latch \in BOOLEAN, LoopTop(n, latch)
    PROVE  /\ pending' \in BOOLEAN
           /\ pc' \in {"closing", "claiming", "head", "full"}
           /\ pc' = "closing" => lifecycle
           /\ pc' = "claiming" => n < Concurrency
BY Zenon DEF LoopTop, Wait, MayClaim

\* A step to the loop's conditions that changes nothing else.
LEMMA ToTopInv ==
    ASSUME PoolInv, NEW latch \in BOOLEAN, LoopTop(ActiveSize, latch),
           pc \notin {"closing", "returned", "abandoning"},
           pc = "claimed" => reply \notin Items,
           UNCHANGED <<mode, board, reply, settling, signals, hint>>,
           periodic' = periodic
    PROVE  PoolInv'
<1>1. /\ pending' \in BOOLEAN
      /\ pc' \in {"closing", "claiming", "head", "full"}
      /\ pc' = "closing" => lifecycle
      /\ pc' = "claiming" => ActiveSize < Concurrency
  BY LoopTopEffect
<1>2. ActiveSize' = ActiveSize
  BY SameActive DEF board
<1>. USE DEF PoolInv, board, signals
<1>3. PoolTypes'
  BY <1>1 DEF PoolTypes, LoopPoints, Waits
<1>4. SlotsKept'
  BY <1>1, <1>2 DEF SlotsKept
<1>5. OneClaimInHand'
  BY <1>1 DEF OneClaimInHand
<1>6. StopsHaveCauses'
  BY <1>1 DEF StopsHaveCauses
<1>7. DrainWakes'
  BY <1>1, <1>2 DEF DrainWakes, StopsHaveCauses
<1>. QED  BY <1>3, <1>4, <1>5, <1>6, <1>7

\* The head of the loop, and the end of a wait.
LEMMA LoopHeadInv ==
    ASSUME PoolInv, LoopHead \/ WaitReturns
    PROVE  PoolInv'
<1>1. CASE LoopHead
  BY <1>1, ToTopInv DEF LoopHead, PoolInv, PoolTypes
<1>2. CASE WaitReturns
  <2>1. (pending /\ pc # "notified") \in BOOLEAN
    BY Zenon
  <2>. QED  BY <1>2, <2>1, ToTopInv DEF WaitReturns
<1>. QED  BY <1>1, <1>2

\* driver.claim answers.
LEMMA ClaimAnswersInv ==
    ASSUME PoolInv, ClaimAnswers
    PROVE  PoolInv'
<1>. USE PoolAssumption DEF PoolInv, signals, NothingClaimed, Error, PoolAssumption
<1>1. ActiveSize' = ActiveSize
  BY SameActive DEF ClaimAnswers, In, PoolTypes
<1>2. PoolTypes'
  BY DEF PoolTypes, ClaimAnswers, In, ItemStates, LoopPoints
<1>3. SlotsKept'
  BY <1>1 DEF SlotsKept, ClaimAnswers
<1>4. OneClaimInHand'
  BY DEF OneClaimInHand, ClaimAnswers, In, PoolTypes
<1>5. StopsHaveCauses'
  BY DEF StopsHaveCauses, ClaimAnswers
<1>6. DrainWakes'
  BY DEF DrainWakes, ClaimAnswers, In
<1>. QED  BY <1>2, <1>3, <1>4, <1>5, <1>6

\* A claim that failed, and a claim given up across a stop.
LEMMA ClaimGivenUpInv ==
    ASSUME PoolInv, ClaimFails \/ AbandonClaim \/ AbandonEnds
    PROVE  PoolInv'
<1>. USE PoolAssumption
     DEF PoolInv, ClaimFails, AbandonClaim, AbandonEnds, Fail, board, signals,
         NothingClaimed, Error, PoolAssumption
<1>1. ActiveSize' = ActiveSize
  BY SameActive DEF OneClaimInHand, PoolTypes
<1>2. PoolTypes'
  BY DEF PoolTypes, OneClaimInHand, ItemStates, LoopPoints
<1>3. SlotsKept'
  BY <1>1 DEF SlotsKept
<1>4. OneClaimInHand'
  BY DEF OneClaimInHand, PoolTypes
<1>5. StopsHaveCauses'
  BY DEF StopsHaveCauses
<1>6. DrainWakes'
  BY <1>1 DEF DrainWakes, StopsHaveCauses, In
<1>. QED  BY <1>2, <1>3, <1>4, <1>5, <1>6

\* startExecution takes the slot the loop has kept.
LEMMA StartExecutionInv ==
    ASSUME PoolInv, StartExecution
    PROVE  PoolInv'
<1>. USE DEF PoolInv, signals
<1>1. /\ pc = "claimed" /\ reply \in Items /\ ~lifecycle /\ settling' = settling
      /\ item' = [item EXCEPT ![reply] = "running"] /\ item[reply] = "claimed"
      /\ LoopTop(ActiveSize + 1, pending) /\ pending \in BOOLEAN
      /\ UNCHANGED <<mode, own, reply, signals, periodic, hint, giveBacks>>
  BY DEF StartExecution, OneClaimInHand, PoolTypes
<1>2. ActiveSize' = ActiveSize + 1
  BY <1>1, StartActive
<1>3. /\ pending' \in BOOLEAN
      /\ pc' \in {"closing", "claiming", "head", "full"}
      /\ pc' = "closing" => lifecycle
      /\ pc' = "claiming" => ActiveSize + 1 < Concurrency
  BY <1>1, LoopTopEffect
<1>4. PoolTypes'
  BY <1>1, <1>3 DEF PoolTypes, ItemStates, LoopPoints, Waits
<1>5. SlotsKept'
  BY <1>1, <1>2, <1>3, ActiveIsNat, PoolAssumption DEF SlotsKept, PoolAssumption
<1>6. OneClaimInHand'
  BY <1>1, <1>3 DEF OneClaimInHand, PoolTypes
<1>7. StopsHaveCauses'
  BY <1>1, <1>3 DEF StopsHaveCauses
<1>8. DrainWakes'
  BY <1>1, <1>3 DEF DrainWakes
<1>. QED  BY <1>4, <1>5, <1>6, <1>7, <1>8

\* claim answered null: a drain leaves its loop only with the latch clear
\* and no execution under way, and then it owes nothing.
LEMMA FoundNothingInv ==
    ASSUME PoolInv, FoundNothing
    PROVE  PoolInv'
<1>. USE PoolAssumption DEF PoolInv, board, NothingClaimed, Error, PoolAssumption
<1>1. /\ pc = "claimed" /\ reply = NothingClaimed
      /\ UNCHANGED <<mode, board, reply, settling, hint>>
  BY DEF FoundNothing
<1>2. ActiveSize' = ActiveSize
  BY <1>1, SameActive
<1>3. CASE LoopTop(ActiveSize, FALSE) /\ UNCHANGED <<signals, periodic>>
  BY <1>1, <1>3, ToTopInv
<1>4. CASE Close /\ UNCHANGED periodic
           /\ (lifecycle \/ (ActiveSize = 0 /\ ~pending))
  <2>. USE <1>1, <1>4 DEF Close
  <2>1. PoolTypes'
    BY DEF PoolTypes, LoopPoints
  <2>2. SlotsKept'
    BY <1>2 DEF SlotsKept
  <2>3. OneClaimInHand'
    BY DEF OneClaimInHand
  <2>4. StopsHaveCauses'
    BY DEF StopsHaveCauses
  <2>5. DrainWakes'
    BY <1>2 DEF DrainWakes, StopsHaveCauses, In
  <2>. QED  BY <2>1, <2>2, <2>3, <2>4, <2>5
<1>5. CASE Wait("idle", pending) /\ UNCHANGED <<signals, periodic>>
  <2>. USE <1>1, <1>5 DEF Wait, signals
  <2>1. PoolTypes'
    BY DEF PoolTypes, LoopPoints, Waits
  <2>2. SlotsKept'
    BY <1>2 DEF SlotsKept
  <2>3. OneClaimInHand'
    BY DEF OneClaimInHand
  <2>4. StopsHaveCauses'
    BY DEF StopsHaveCauses
  <2>5. DrainWakes'
    BY DEF DrainWakes
  <2>. QED  BY <2>1, <2>2, <2>3, <2>4, <2>5
<1>6. CASE /\ pc' = "draining" /\ periodic' = "off" /\ UNCHANGED <<signals, pending>>
           /\ ActiveSize = 0
  <2>. USE <1>1, <1>6 DEF signals
  <2>1. PoolTypes'
    BY DEF PoolTypes, LoopPoints
  <2>2. SlotsKept'
    BY <1>2 DEF SlotsKept
  <2>3. OneClaimInHand'
    BY DEF OneClaimInHand
  <2>4. StopsHaveCauses'
    BY DEF StopsHaveCauses
  <2>5. DrainWakes'
    BY DEF DrainWakes
  <2>. QED  BY <2>1, <2>2, <2>3, <2>4, <2>5
<1>. QED  BY <1>3, <1>4, <1>5, <1>6, Zenon DEF FoundNothing, WakeConsumed

\* The end of a drain's periodic round, and the end of the pool.
LEMMA LoopEndsInv ==
    ASSUME PoolInv, DrainPeriodicEnds \/ Return
    PROVE  PoolInv'
<1>1. CASE DrainPeriodicEnds /\ LoopTop(0, pending) /\ UNCHANGED signals
  <2>1. LoopTop(ActiveSize, pending)
    BY <1>1 DEF DrainPeriodicEnds, PoolInv, SlotsKept
  <2>. QED  BY <1>1, <2>1, ToTopInv DEF DrainPeriodicEnds, PoolInv, PoolTypes
<1>2. CASE (DrainPeriodicEnds /\ Fail /\ pc' = "closing" /\ pending' = TRUE) \/ Return
  <2>. USE <1>2 DEF PoolInv, DrainPeriodicEnds, Fail, Return, MayReturn, board, signals
  <2>1. ActiveSize' = ActiveSize
    BY SameActive
  <2>2. PoolTypes'
    BY DEF PoolTypes, LoopPoints
  <2>3. SlotsKept'
    BY <2>1 DEF SlotsKept
  <2>4. OneClaimInHand'
    BY DEF OneClaimInHand
  <2>5. StopsHaveCauses'
    BY DEF StopsHaveCauses
  <2>6. DrainWakes'
    BY <2>1 DEF DrainWakes, In
  <2>. QED  BY <2>2, <2>3, <2>4, <2>5, <2>6
<1>. QED  BY <1>1, <1>2 DEF DrainPeriodicEnds

-----------------------------------------------------------------------------
(* What runs beside the loop.                                              *)

\* A notification changes the latch and at most ends a wait.
LEMMA NotifyEffect ==
    ASSUME PoolTypes, Notify \/ AbortThenNotify \/ UNCHANGED <<pc, pending>>
    PROVE  /\ pending' \in BOOLEAN /\ (pending => pending')
           /\ pc' = pc \/ (pc \in Waits /\ pc' \in {"notified", "aborted"})
BY DEF Notify, AbortThenNotify, PoolTypes

\* A step beside the loop that enqueues or finishes commands, keeps the
\* executions under way or replaces one by the wake, and stops the pool
\* only with a cause.
LEMMA BesideInv ==
    ASSUME PoolInv, PoolTypes',
           pc' = pc \/ (pc \in Waits /\ pc' \in {"notified", "aborted", "timeout"}),
           pending => pending', mode' = mode, reply' = reply,
           \A i \in Items : item'[i] = "claimed" <=> item[i] = "claimed",
           ActiveSize' <= ActiveSize,
           ActiveSize' < ActiveSize => pending',
           lifecycle' <=> (lifecycle \/ failed' \/ called'),
           failed => failed', called => called',
           mode = "drain" => periodic' = periodic,
           ~(own' \cap In("queued")' \subseteq own \cap In("queued"))
               => In("running") # {} \/ pc = "draining" \/ periodic = "run"
    PROVE  PoolInv'
<1>. USE DEF PoolInv
<1>1. ActiveSize \in Nat /\ ActiveSize' \in Nat
  <2>1. ActiveSize \in Nat
    BY ActiveIsNat
  <2>2. In("running")' \in SUBSET Items
    BY DEF In
  <2>3. Cardinality(In("running")') \in Nat
    BY <2>2, FS_Subset, FS_CardinalityType, PoolAssumption DEF PoolAssumption
  <2>. QED  BY <2>1, <2>3 DEF ActiveSize, PoolTypes
<1>2. SlotsKept'
  BY <1>1, PoolAssumption DEF SlotsKept, Waits, PoolAssumption
<1>3. OneClaimInHand'
  BY DEF OneClaimInHand, Waits
<1>4. StopsHaveCauses'
  BY DEF StopsHaveCauses, Waits, PoolTypes
<1>5. DrainWakes'
  <2>. SUFFICES ASSUME mode = "drain"
                PROVE  DrainWakes'
    BY DEF DrainWakes
  <2>1. ASSUME pc' = "claimed", reply' = NothingClaimed, own' \cap In("queued")' # {}
        PROVE  pending' \/ ActiveSize' > 0
    <3>1. pc = "claimed" /\ periodic # "run"
      BY <2>1 DEF Waits, DrainWakes
    <3>2. CASE own' \cap In("queued")' \subseteq own \cap In("queued")
      BY <1>1, <2>1, <3>1, <3>2 DEF DrainWakes
    <3>3. CASE In("running") # {}
      BY <1>1, <3>3, ActiveIsNat
    <3>. QED  BY <3>1, <3>2, <3>3
  <2>2. ASSUME pc' \in {"closing", "returned"}, ~failed', ~called'
        PROVE  own' \cap In("queued")' = {} /\ ActiveSize' = 0
    <3>1. own \cap In("queued") = {} /\ ActiveSize = 0 /\ periodic # "run" /\ pc # "draining"
      BY <2>2 DEF DrainWakes, Waits
    <3>. QED  BY <1>1, <3>1, ActiveIsNat
  <2>. QED  BY <2>1, <2>2 DEF DrainWakes
<1>. QED  BY <1>2, <1>3, <1>4, <1>5

\* Commands come, are taken elsewhere, time passes, hints arrive.
LEMMA OutsideInv ==
    ASSUME PoolInv, \/ \E i \in Items : Produce(i) \/ ClaimedElsewhere(i)
                    \/ TimerFires \/ HintArrives \/ OwnEnqueue
    PROVE  PoolInv'
<1>. USE DEF Produce, ClaimedElsewhere, TimerFires, HintArrives, OwnEnqueue, board, signals
<1>1. /\ pending' \in BOOLEAN /\ (pending => pending')
      /\ pc' = pc \/ (pc \in Waits /\ pc' \in {"notified", "aborted", "timeout"})
  BY DEF PoolInv, PoolTypes, Notify, Waits
<1>2. PoolTypes'
  <2>1. item' \in [Items -> ItemStates] /\ own' \subseteq {i \in Items : item'[i] # "absent"}
    BY DEF PoolInv, PoolTypes, ItemStates, In
  <2>2. hint' \in BOOLEAN
    BY DEF PoolInv, PoolTypes
  <2>3. pc' \in LoopPoints
    BY <1>1 DEF PoolInv, PoolTypes, LoopPoints, Waits
  <2>. QED  BY <1>1, <2>1, <2>2, <2>3 DEF PoolInv, PoolTypes
<1>3. /\ ActiveSize' = ActiveSize /\ ActiveSize \in Nat
      /\ \A i \in Items : item'[i] = "claimed" <=> item[i] = "claimed"
  BY SameActive, ActiveIsNat DEF PoolInv, PoolTypes, In
<1>4. /\ mode' = mode /\ reply' = reply /\ periodic' = periodic
      /\ failed' = failed /\ called' = called /\ lifecycle' = lifecycle
  OBVIOUS
<1>5. lifecycle' <=> (lifecycle \/ failed' \/ called')
  BY <1>4 DEF PoolInv, PoolTypes, StopsHaveCauses
<1>6. ~(own' \cap In("queued")' \subseteq own \cap In("queued"))
               => In("running") # {} \/ pc = "draining" \/ periodic = "run"
  BY DEF In, PoolInv, PoolTypes
<1>. QED  BY <1>1, <1>2, <1>3, <1>4, <1>5, <1>6, BesideInv

\* driver.execute settles, well or badly: its slot stays taken.
LEMMA ExecutionEndsInv ==
    ASSUME PoolInv, NEW i \in Items, ExecutionEnds(i)
    PROVE  PoolInv'
<1>1. item[i] = "running" /\ settling' = settling + 1 /\ mode' = mode /\ reply' = reply
      /\ periodic' = periodic /\ hint' = hint
  BY DEF ExecutionEnds
<1>2. PICK s \in {"done", "queued"} : item' = [item EXCEPT ![i] = s]
  BY DEF ExecutionEnds
<1>3. own' \in {own, own \cup {i}} /\ giveBacks' \in 0..MaxGiveBacks
  BY PoolAssumption DEF ExecutionEnds, PoolInv, PoolTypes, PoolAssumption
<1>4. ActiveSize' = ActiveSize /\ ActiveSize \in Nat
  BY <1>1, <1>2, EndActive, ActiveIsNat DEF PoolInv
<1>5. \/ UNCHANGED <<pc, pending, signals>>
      \/ Fail /\ AbortThenNotify
  BY DEF ExecutionEnds
<1>6. /\ pending' \in BOOLEAN /\ (pending => pending')
      /\ pc' = pc \/ (pc \in Waits /\ pc' \in {"notified", "aborted"})
  BY <1>5, NotifyEffect DEF PoolInv
<1>7. /\ lifecycle' \in BOOLEAN /\ failed' \in BOOLEAN /\ called' \in BOOLEAN
      /\ executions' \in BOOLEAN
      /\ (failed => failed') /\ (called => called')
      /\ lifecycle' <=> (lifecycle \/ failed' \/ called')
  <2>1. (failed \/ called => lifecycle) /\ lifecycle \in BOOLEAN /\ failed \in BOOLEAN
        /\ called \in BOOLEAN /\ executions \in BOOLEAN
    BY DEF PoolInv, PoolTypes, StopsHaveCauses
  <2>2. CASE UNCHANGED <<pc, pending, signals>>
    BY <2>1, <2>2 DEF signals
  <2>3. CASE Fail
    BY <2>1, <2>3 DEF Fail
  <2>. QED  BY <1>5, <2>2, <2>3
<1>8. PoolTypes'
  <2>1. item' \in [Items -> ItemStates] /\ own' \subseteq {j \in Items : item'[j] # "absent"}
    BY <1>1, <1>2, <1>3 DEF PoolInv, PoolTypes, ItemStates
  <2>2. pc' \in LoopPoints
    BY <1>6 DEF PoolInv, PoolTypes, LoopPoints
  <2>. QED  BY <1>1, <1>3, <1>6, <1>7, <2>1, <2>2 DEF PoolInv, PoolTypes
<1>9. /\ \A j \in Items : item'[j] = "claimed" <=> item[j] = "claimed"
      /\ In("running") # {}
  BY <1>1, <1>2 DEF PoolInv, PoolTypes, In
<1>. QED  BY <1>1, <1>4, <1>6, <1>7, <1>8, <1>9, BesideInv

\* Its promise leaves active, and the wake is latched.
LEMMA ExecutionSettlesInv ==
    ASSUME PoolInv, ExecutionSettles
    PROVE  PoolInv'
<1>. USE DEF ExecutionSettles, Notify, board, signals
<1>1. In("running")' = In("running")
  BY DEF In
<1>2. ActiveSize' = ActiveSize - 1 /\ ActiveSize \in Nat
  <2>1. Cardinality(In("running")) \in Nat
    BY ActiveIsNat, FS_CardinalityType DEF PoolInv
  <2>. QED  BY <1>1, <2>1 DEF ActiveSize, PoolInv, PoolTypes
<1>3. PoolTypes'
  BY DEF PoolInv, PoolTypes, LoopPoints, Waits
<1>4. /\ pc' = pc \/ (pc \in Waits /\ pc' \in {"notified", "aborted", "timeout"})
      /\ lifecycle' <=> (lifecycle \/ failed' \/ called')
      /\ own' \cap In("queued")' \subseteq own \cap In("queued")
  BY DEF PoolInv, PoolTypes, StopsHaveCauses, In
<1>. QED  BY <1>2, <1>3, <1>4, BesideInv

\* The periodic loop of a serving pool, and the caller's signal.
LEMMA PeriodicInv ==
    ASSUME PoolInv, PeriodicRoundEnds \/ PeriodicWakes \/ CallerAborts
    PROVE  PoolInv'
<1>. USE DEF board, signals
<1>1. ActiveSize' = ActiveSize /\ ActiveSize \in Nat
  BY SameActive, ActiveIsNat DEF PeriodicRoundEnds, PeriodicWakes, CallerAborts, PoolInv
<1>2. /\ pending' \in BOOLEAN /\ (pending => pending')
      /\ pc' = pc \/ (pc \in Waits /\ pc' \in {"notified", "aborted"})
  BY NotifyEffect DEF PeriodicRoundEnds, PeriodicWakes, CallerAborts, PoolInv
<1>3. /\ lifecycle' \in BOOLEAN /\ failed' \in BOOLEAN /\ called' \in BOOLEAN
      /\ executions' \in BOOLEAN
      /\ (failed => failed') /\ (called => called')
      /\ lifecycle' <=> (lifecycle \/ failed' \/ called')
  <2>1. (failed \/ called => lifecycle) /\ lifecycle \in BOOLEAN /\ failed \in BOOLEAN
        /\ called \in BOOLEAN /\ executions \in BOOLEAN
    BY DEF PoolInv, PoolTypes, StopsHaveCauses
  <2>2. CASE UNCHANGED signals
    BY <2>1, <2>2 DEF signals
  <2>3. CASE Fail
    BY <2>1, <2>3 DEF Fail
  <2>4. CASE ForwardAbort
    BY <2>1, <2>4 DEF ForwardAbort
  <2>. QED  BY <2>2, <2>3, <2>4 DEF PeriodicRoundEnds, PeriodicWakes, CallerAborts
<1>4. /\ UNCHANGED <<mode, item, own, giveBacks, reply, settling, hint>>
      /\ periodic' \in {"off", "due", "run", "sleep", "ended"}
      /\ mode = "drain" => periodic' = periodic
  BY DEF PeriodicRoundEnds, PeriodicWakes, CallerAborts, PoolInv, PoolTypes, DrainWakes
<1>5. PoolTypes'
  <2>1. pc' \in LoopPoints
    BY <1>2 DEF PoolInv, PoolTypes, LoopPoints
  <2>. QED  BY <1>2, <1>3, <1>4, <2>1 DEF PoolInv, PoolTypes
<1>6. own' \cap In("queued")' = own \cap In("queued")
  BY <1>4 DEF In
<1>. QED  BY <1>1, <1>2, <1>3, <1>4, <1>5, <1>6, BesideInv

-----------------------------------------------------------------------------
\* runWorkerPool stays within options.concurrency whatever the order of
\* answers, completions, hints, timers and aborts; it returns with nothing
\* claimed or running; and a drain that was not stopped returns with
\* nothing left that its own work enqueued or gave back.
THEOREM PoolIsSound == PoolSpec => []PoolSound
<1>1. PoolInit => PoolInv
  <2>. SUFFICES ASSUME PoolInit PROVE PoolInv
    OBVIOUS
  <2>1. periodic \in {"off", "due", "run"} /\ (mode = "drain" => periodic \in {"off", "due"})
    BY DEF PoolInit
  <2>2. PoolTypes
    <3>1. /\ pending \in BOOLEAN /\ lifecycle \in BOOLEAN /\ executions \in BOOLEAN
          /\ called \in BOOLEAN /\ failed \in BOOLEAN /\ hint \in BOOLEAN
      BY DEF PoolInit
    <3>2. /\ mode \in {"drain", "serve"} /\ item \in [Items -> ItemStates] /\ own = {}
          /\ pc \in LoopPoints /\ reply = NothingClaimed /\ settling \in Nat
          /\ giveBacks \in 0..MaxGiveBacks
      BY PoolAssumption DEF PoolInit, ItemStates, LoopPoints, PoolAssumption
    <3>. QED  BY <2>1, <3>1, <3>2 DEF PoolTypes
  <2>3. In("running") = {} /\ settling = 0
    BY DEF PoolInit, In
  <2>4. ActiveSize = 0
    BY <2>2, <2>3, ActiveIsNat
  <2>5. SlotsKept /\ StopsHaveCauses /\ DrainWakes
    BY <2>1, <2>4, PoolAssumption DEF PoolInit, SlotsKept, StopsHaveCauses, DrainWakes, PoolAssumption
  <2>6. OneClaimInHand
    BY DEF PoolInit, OneClaimInHand
  <2>. QED  BY <2>2, <2>5, <2>6 DEF PoolInv
<1>2. PoolInv /\ [PoolNext]_poolVars => PoolInv'
  <2>. SUFFICES ASSUME PoolInv, [PoolNext]_poolVars PROVE PoolInv'
    OBVIOUS
  <2>1. CASE Loop
    BY <2>1, LoopHeadInv, ClaimAnswersInv, ClaimGivenUpInv, StartExecutionInv, FoundNothingInv, LoopEndsInv
    DEF Loop
  <2>2. CASE Beside
    BY <2>2, OutsideInv, ExecutionEndsInv, ExecutionSettlesInv, PeriodicInv DEF Beside
  <2>3. CASE UNCHANGED poolVars
    <3>. USE <2>3 DEF poolVars, board, signals
    <3>1. In("running")' = In("running") /\ In("queued")' = In("queued") /\ ActiveSize' = ActiveSize
      BY SameActive DEF In
    <3>2. PoolTypes' /\ SlotsKept' /\ OneClaimInHand'
      BY <3>1 DEF PoolInv, PoolTypes, SlotsKept, OneClaimInHand
    <3>3. StopsHaveCauses' /\ DrainWakes'
      BY <3>1 DEF PoolInv, StopsHaveCauses, DrainWakes
    <3>. QED  BY <3>2, <3>3 DEF PoolInv
  <2>. QED  BY <2>1, <2>2, <2>3 DEF PoolNext
<1>3. PoolInv => PoolSound
  <2>. SUFFICES ASSUME PoolInv PROVE PoolSound
    OBVIOUS
  <2>1. Cardinality(In("running")) \in Nat
    BY ActiveIsNat, FS_CardinalityType DEF PoolInv
  <2>2. settling \in 0..Concurrency
    BY <2>1, PoolAssumption DEF PoolInv, PoolTypes, SlotsKept, ActiveSize, PoolAssumption
  <2>3. PoolTypeOK
    BY <2>2 DEF PoolInv, PoolTypes, PoolTypeOK
  <2>4. WithinConcurrency /\ DrainIsComplete
    BY DEF PoolInv, SlotsKept, DrainWakes, WithinConcurrency, DrainIsComplete
  <2>5. NothingLeftBehind
    BY ActiveIsNat DEF PoolInv, SlotsKept, OneClaimInHand, NothingLeftBehind, In
  <2>. QED  BY <2>3, <2>4, <2>5 DEF PoolSound
<1>. QED  BY <1>1, <1>2, <1>3, PTL DEF PoolSpec

-----------------------------------------------------------------------------
(* Racing starts.                                                          *)

\* Neither property of module RunAdmission is inductive.  That idempotent
\* starts agree needs at most one row per key, the uncommitted ones
\* included; that a start gives up only on churn needs the departures
\* counted against the rounds while it recovers; that a run is sent needs
\* to know which start has an uncommitted row in its hand.  Admission is
\* their conjunction.
StartPoint == {"retry", "loadIdempotent", "loadUnique", "insert", "recoverIdempotent",
               "recoverUnique", "enqueue", "commit", "answered", "conflicting", "conflict",
               "refused", "gaveUp", "failed", "crashed"}
StartCall == [pc : StartPoint, req : RequestType, round : Nat, run : Nat, left : Nat]
RunColumns == [idem : BOOLEAN, scope : {"none", "active", "all"}, join : BOOLEAN, input : Nat,
               live : BOOLEAN, committed : BOOLEAN]

\* A committed row has the idempotency key of start x, or the unique key.
KeyTaken(R, x) == \E r \in DOMAIN R : R[r].committed /\ x.req.idem /\ R[r].idem
ScopeTaken(R, x) ==
    \E r \in DOMAIN R : /\ R[r].committed /\ x.req.scope # "none" /\ R[r].scope = x.req.scope
                        /\ x.req.scope = "active" => R[r].live

\* A start counts as many departures as rounds it has lost, and one more
\* if what refused its insert is no longer there.
Churned(R, x) ==
    /\ x.left >= x.round
    /\ x.pc = "recoverIdempotent" => KeyTaken(R, x) \/ ScopeTaken(R, x) \/ x.left > x.round
    /\ x.pc = "recoverUnique" => ScopeTaken(R, x) \/ x.left > x.round
    /\ x.pc = "gaveUp" => x.round > 1

\* The row a start is about to send a command for: its own, uncommitted,
\* inside a transaction, and a committed one outside.
RowInHand(R, x) ==
    /\ x.pc \in {"enqueue", "commit", "answered"} => x.run \in DOMAIN R
    /\ x.pc \in {"enqueue", "commit"} => (R[x.run].committed <=> ~x.req.atomic)
    /\ x.pc = "commit" => x.req.atomic

Delivers(x, r) == x.run = r /\ ~x.req.atomic /\ x.pc \in {"enqueue", "crashed"}

Admission(R, T, S) ==
    /\ \E n \in Nat : R \in [1..n -> RunColumns]
    /\ S \in [Starters -> StartCall]
    /\ \A p \in Starters : RowInHand(R, S[p]) /\ Churned(R, S[p])
    /\ \A p, q \in Starters : /\ S[p].pc \in {"enqueue", "commit"} /\ S[p].req.atomic
                              /\ S[q].pc \in {"enqueue", "commit"} /\ S[q].req.atomic
                              /\ S[p].run = S[q].run
                              => p = q
    /\ \A r, q \in DOMAIN R : R[r].idem /\ R[q].idem => r = q
    /\ \A r \in DOMAIN R : R[r].committed /\ R[r].live =>
            r \in T \/ \E p \in Starters : Delivers(S[p], r)

AdmissionInv == Admission(rows, sent, starts)

\* A start moves on without a row in its hand, and takes at most one that
\* is committed.
LEMMA AdmissionMove ==
    ASSUME NEW R, NEW T, NEW S, Admission(R, T, S), NEW p \in Starters, NEW x \in StartCall,
           S[p].pc \notin {"enqueue", "commit", "crashed"},
           x.pc \notin {"commit"},
           x.pc = "enqueue" => ~x.req.atomic,
           x.pc \in {"enqueue", "answered"} => x.run \in DOMAIN R /\ R[x.run].committed,
           Churned(R, x)
    PROVE  Admission(R, T, [S EXCEPT ![p] = x])
<1> DEFINE U == [S EXCEPT ![p] = x]
<1>1. U \in [Starters -> StartCall] /\ U[p] = x /\ \A q \in Starters \ {p} : U[q] = S[q]
  BY DEF Admission
<1>. HIDE DEF U
<1>2. \A q \in Starters : RowInHand(R, U[q]) /\ Churned(R, U[q])
  <2>1. RowInHand(R, x)
    BY DEF RowInHand
  <2>. QED  BY <1>1, <2>1 DEF Admission
<1>3. \A q \in Starters : U[q].pc \in {"enqueue", "commit"} /\ U[q].req.atomic => q # p /\ U[q] = S[q]
  BY <1>1
<1>4. \A r \in DOMAIN R : R[r].committed /\ R[r].live =>
            r \in T \/ \E q \in Starters : Delivers(U[q], r)
  <2>1. \A r, q : q \in Starters /\ Delivers(S[q], r) => q # p
    BY DEF Delivers
  <2>. QED  BY <1>1, <2>1 DEF Admission
<1>. QED  BY <1>1, <1>2, <1>3, <1>4 DEF Admission, U

\* A row that is not committed is rolled back, or is committed.
RolledBack(row) ==
    [row EXCEPT !.live = FALSE, !.idem = FALSE, !.scope = "none", !.input = 0, !.committed = TRUE]

\* Row w is written as u and the starts go from S to V: a committed row
\* keeps its keys, and when it gives the key of a live run up, the starts
\* that recover count it.
StartFollows(R, w, u, W, x, y) ==
    /\ y.run = x.run /\ y.req = x.req /\ y.round = x.round /\ y.left >= x.left
    /\ \/ y.pc = x.pc
       \/ y.pc \in {"failed", "crashed"}
       \/ y.pc = "commit" /\ x.pc = "enqueue"
       \/ y.pc = "answered" /\ x.pc \in {"enqueue", "commit"}
    /\ RowInHand([R EXCEPT ![w] = u], y)
    /\ R[w].committed /\ R[w].live /\ ~u.live /\ R[w].scope = "active"
            /\ y.pc \in {"recoverIdempotent", "recoverUnique"}
       => y.left > x.left
    /\ \A r \in DOMAIN R \ {w} : Delivers(x, r) => r \in W \/ Delivers(y, r)

RowWritten(R, w, u) ==
    /\ u \in RunColumns
    /\ u.idem => R[w].idem
    /\ R[w].committed => u.committed /\ u.idem = R[w].idem /\ u.scope = R[w].scope

\* Writing a row keeps the invariant.
LEMMA AdmissionWrite ==
    ASSUME NEW R, NEW T, NEW S, Admission(R, T, S), NEW w \in DOMAIN R, NEW row,
           NEW W, T \subseteq W, NEW V \in [Starters -> StartCall],
           RowWritten(R, w, row),
           \A q \in Starters : StartFollows(R, w, row, W, S[q], V[q]),
           row.committed /\ row.live => w \in W \/ \E q \in Starters : Delivers(V[q], w)
    PROVE  Admission([R EXCEPT ![w] = row], W, V)
<1>. USE DEF StartFollows, RowWritten
<1> DEFINE U == [R EXCEPT ![w] = row]
<1>1. PICK n \in Nat : R \in [1..n -> RunColumns]
  BY DEF Admission
<1>2. /\ U \in [1..n -> RunColumns] /\ U[w] = row /\ \A r \in DOMAIN R \ {w} : U[r] = R[r]
      /\ DOMAIN R = 1..n /\ DOMAIN U = 1..n
  BY <1>1
<1>. HIDE DEF U
<1>3. \A q \in Starters : RowInHand(U, V[q])
  BY DEF U
<1>4. ASSUME NEW q \in Starters  PROVE  Churned(U, V[q])
  <2>1. S[q] \in StartCall /\ V[q] \in StartCall /\ Churned(R, S[q])
    BY DEF Admission
  <2>2. V[q].left >= V[q].round
    BY <2>1 DEF Churned, StartCall
  <2>3. V[q].pc = "gaveUp" => V[q].round > 1
    BY <2>1 DEF Churned
  <2>4. KeyTaken(R, S[q]) => KeyTaken(U, V[q])
    BY <1>2 DEF KeyTaken
  <2>5. ASSUME ScopeTaken(R, S[q]), V[q].pc \in {"recoverIdempotent", "recoverUnique"}
        PROVE  ScopeTaken(U, V[q]) \/ V[q].left > V[q].round
    <3>1. PICK r \in DOMAIN R : /\ R[r].committed /\ S[q].req.scope # "none" /\ R[r].scope = S[q].req.scope
                                /\ S[q].req.scope = "active" => R[r].live
      BY <2>5 DEF ScopeTaken
    <3>2. CASE r # w
      BY <1>2, <3>1, <3>2 DEF ScopeTaken
    <3>3. CASE r = w /\ (S[q].req.scope = "active" => row.live)
      BY <1>2, <3>1, <3>3 DEF ScopeTaken
    <3>4. CASE r = w /\ S[q].req.scope = "active" /\ ~row.live
      BY <2>1, <2>5, <3>1, <3>4 DEF Churned, StartCall
    <3>. QED  BY <3>2, <3>3, <3>4
  <2>6. S[q].left > S[q].round => V[q].left > V[q].round
    BY <2>1 DEF StartCall
  <2>7. V[q].pc \in {"recoverIdempotent", "recoverUnique"} => V[q].pc = S[q].pc
    OBVIOUS
  <2>. QED  BY <2>1, <2>2, <2>3, <2>4, <2>5, <2>6, <2>7 DEF Churned
<1>5. \A p, q \in Starters : /\ V[p].pc \in {"enqueue", "commit"} /\ V[p].req.atomic
                             /\ V[q].pc \in {"enqueue", "commit"} /\ V[q].req.atomic
                             /\ V[p].run = V[q].run
                             => p = q
  <2>1. \A q \in Starters : V[q].pc \in {"enqueue", "commit"} => S[q].pc \in {"enqueue", "commit"}
    OBVIOUS
  <2>. QED  BY <2>1 DEF Admission
<1>6. \A r, q \in DOMAIN U : U[r].idem /\ U[q].idem => r = q
  <2>1. \A r \in DOMAIN U : U[r].idem => R[r].idem
    BY <1>2
  <2>. QED  BY <1>2, <2>1 DEF Admission
<1>7. \A r \in DOMAIN U : U[r].committed /\ U[r].live =>
            r \in W \/ \E p \in Starters : Delivers(V[p], r)
  <2>1. ASSUME NEW r \in DOMAIN R \ {w}, U[r].committed, U[r].live
        PROVE  r \in W \/ \E p \in Starters : Delivers(V[p], r)
    <3>1. r \in T \/ \E p \in Starters : Delivers(S[p], r)
      BY <1>2, <2>1 DEF Admission
    <3>. QED  BY <2>1, <3>1
  <2>. QED  BY <1>2, <2>1
<1>. QED  BY <1>2, <1>3, <1>4, <1>5, <1>6, <1>7 DEF Admission, U

\* The reads of a start, and its recovery after a conflict.
LEMMA AdmissionReads ==
    ASSUME AdmissionInv, NEW p \in Starters,
           \/ LoadIdempotentRun(p) \/ LoadUniqueRun(p) \/ RecoverIdempotent(p) \/ RecoverUnique(p)
           \/ \E r \in DOMAIN rows : RetryRun(p, r)
    PROVE  AdmissionInv'
<1> DEFINE x == starts'[p]
<1>1. /\ rows' = rows /\ sent' = sent
      /\ starts[p].pc \in {"loadIdempotent", "loadUnique", "recoverIdempotent", "recoverUnique", "retry"}
  BY DEF LoadIdempotentRun, LoadUniqueRun, RecoverIdempotent, RecoverUnique, RetryRun
<1>2. starts[p] \in StartCall /\ Churned(rows, starts[p]) /\ starts \in [Starters -> StartCall]
  BY DEF AdmissionInv, Admission
<1>3. PICK n \in Nat : rows \in [1..n -> RunColumns]
  BY DEF AdmissionInv, Admission
<1>4. ASSUME NEW y \in StartCall, starts' = [starts EXCEPT ![p] = y], Churned(rows, y),
             y.pc # "commit", y.pc = "enqueue" => ~y.req.atomic,
             y.pc \in {"enqueue", "answered"} => y.run \in DOMAIN rows /\ rows[y.run].committed
      PROVE  AdmissionInv'
  BY <1>1, <1>4, AdmissionMove DEF AdmissionInv
<1>5. ASSUME NEW r \in Committed, NEW pt \in {"answered", "enqueue", "conflicting", "conflict"},
             pt = "enqueue" => ~starts[p].req.atomic, AnswerWith(p, pt, r)
      PROVE  AdmissionInv'
  <2> DEFINE y == [starts[p] EXCEPT !.pc = pt, !.run = r]
  <2>1. r \in Nat /\ r \in DOMAIN rows /\ rows[r].committed
    BY <1>3 DEF Committed
  <2>2. /\ y \in StartCall /\ y.pc = pt /\ y.run = r /\ y.req = starts[p].req
        /\ y.left = starts[p].left /\ y.round = starts[p].round
    BY <1>2, <2>1 DEF StartCall, StartPoint
  <2>3. starts' = [starts EXCEPT ![p] = y]
    BY <1>5 DEF AnswerWith
  <2>. HIDE DEF y
  <2>4. Churned(rows, y)
    BY <1>2, <2>2 DEF Churned
  <2>. QED  BY <1>4, <1>5, <2>1, <2>2, <2>3, <2>4
<1>6. ASSUME NEW r \in Committed, FoundIdempotent(p, r) \/ FoundUnique(p, r)  PROVE  AdmissionInv'
  <2>1. starts[p].req.atomic \in BOOLEAN
    BY <1>2 DEF StartCall, RequestType
  <2>. QED  BY <1>5, <1>6, <2>1 DEF FoundIdempotent, FoundUnique, Existing
<1>7. ASSUME NEW pt \in {"loadUnique", "insert", "recoverUnique"}, Goto(p, pt),
             pt = "recoverUnique" => ScopeTaken(rows, starts[p]) \/ starts[p].left > starts[p].round
      PROVE  AdmissionInv'
  <2> DEFINE y == [starts[p] EXCEPT !.pc = pt]
  <2>1. /\ y \in StartCall /\ y.pc = pt /\ y.req = starts[p].req
        /\ y.left = starts[p].left /\ y.round = starts[p].round
    BY <1>2 DEF StartCall, StartPoint
  <2>2. starts' = [starts EXCEPT ![p] = y]
    BY <1>7 DEF Goto
  <2>. HIDE DEF y
  <2>3. Churned(rows, y)
    BY <1>2, <1>7, <2>1 DEF Churned, ScopeTaken
  <2>. QED  BY <1>4, <1>7, <2>1, <2>2, <2>3
<1>8. CASE LoadIdempotentRun(p)
  BY <1>6, <1>7, <1>8 DEF LoadIdempotentRun, IdemHolders
<1>9. CASE LoadUniqueRun(p)
  BY <1>6, <1>7, <1>9 DEF LoadUniqueRun, ScopeHolders
<1>10. CASE RecoverIdempotent(p)
  <2>1. CASE \E r \in Committed : FoundIdempotent(p, r)
    BY <1>6, <2>1
  <2>2. CASE /\ (IF starts[p].req.idem THEN IdemHolders(Committed) ELSE {}) = {}
             /\ Goto(p, "recoverUnique") /\ starts[p].pc = "recoverIdempotent"
    <3>1. ~KeyTaken(rows, starts[p])
      BY <2>2 DEF KeyTaken, IdemHolders, Committed
    <3>. QED  BY <1>2, <1>7, <2>2, <3>1 DEF Churned
  <2>. QED  BY <1>10, <2>1, <2>2 DEF RecoverIdempotent, IdemHolders
<1>11. CASE RecoverUnique(p)
  <2>1. CASE \E r \in Committed : FoundUnique(p, r)
    BY <1>6, <2>1
  <2>2. CASE /\ ScopeHolders(Committed, starts[p].req.scope) = {} /\ starts[p].pc = "recoverUnique"
             /\ starts' = [starts EXCEPT ![p].round = @ + 1,
                              ![p].pc = IF starts[p].round < Retries THEN "insert" ELSE "gaveUp"]
    <3> DEFINE pt == IF starts[p].round < Retries THEN "insert" ELSE "gaveUp"
               k == starts[p].round + 1
               y == [starts[p] EXCEPT !.round = k, !.pc = pt]
    <3>1. ~ScopeTaken(rows, starts[p])
      BY <2>2 DEF ScopeTaken, ScopeHolders, Committed
    <3>2. starts[p].left > starts[p].round
      BY <1>2, <2>2, <3>1 DEF Churned
    <3>3. starts[p].round \in Nat /\ starts[p].left \in Nat
      BY <1>2 DEF StartCall
    <3>4. /\ pt \in {"insert", "gaveUp"} /\ (pt = "gaveUp" => k > 1)
          /\ k \in Nat /\ k <= starts[p].left
      BY <3>2, <3>3 DEF Retries
    <3>5. starts' = [starts EXCEPT ![p] = y]
      BY <1>2, <2>2
    <3>. HIDE DEF pt, k
    <3>6. y \in StartCall /\ y.pc = pt /\ y.left = starts[p].left /\ y.round = k
      BY <1>2, <3>4 DEF StartCall, StartPoint
    <3>. HIDE DEF y
    <3>7. Churned(rows, y)
      BY <3>3, <3>4, <3>6 DEF Churned
    <3>. QED  BY <1>4, <3>4, <3>5, <3>6, <3>7
  <2>. QED  BY <1>11, <2>1, <2>2 DEF RecoverUnique, ScopeHolders
<1>12. ASSUME NEW r \in DOMAIN rows, RetryRun(p, r)  PROVE  AdmissionInv'
  <2> DEFINE y1 == [starts[p] EXCEPT !.pc = "refused"]
             y2 == [starts[p] EXCEPT !.pc = "loadIdempotent", !.req.scope = rows[r].scope,
                                     !.req.join = rows[r].join, !.req.input = rows[r].input]
  <2>1. rows[r] \in RunColumns
    BY <1>3
  <2>3. /\ y1 \in StartCall /\ y1.pc = "refused" /\ y1.left = starts[p].left /\ y1.round = starts[p].round
        /\ y2 \in StartCall /\ y2.pc = "loadIdempotent" /\ y2.left = starts[p].left /\ y2.round = starts[p].round
    BY <1>2, <2>1 DEF StartCall, StartPoint, RequestType, RunColumns
  <2>4. starts' = [starts EXCEPT ![p] = y1] \/ starts' = [starts EXCEPT ![p] = y2]
    BY <1>12 DEF RetryRun
  <2>. HIDE DEF y1, y2
  <2>5. Churned(rows, y1) /\ Churned(rows, y2)
    BY <1>2, <2>3 DEF Churned
  <2>. QED  BY <1>4, <2>3, <2>4, <2>5
<1>. QED  BY <1>8, <1>9, <1>10, <1>11, <1>12

\* An insert adds the next row, which no other start has in its hand, or
\* meets a committed row with one of its keys.
LEMMA AdmissionInserts ==
    ASSUME AdmissionInv, NEW p \in Starters, InsertRun(p)
    PROVE  AdmissionInv'
<1> DEFINE req == starts[p].req
           r == Len(rows) + 1
           row == [idem |-> req.idem, scope |-> req.scope, join |-> req.join,
                   input |-> req.input, live |-> TRUE, committed |-> ~req.atomic]
<1>1. /\ starts[p] \in StartCall /\ Churned(rows, starts[p]) /\ starts \in [Starters -> StartCall]
      /\ starts[p].pc = "insert" /\ sent' = sent
  BY DEF AdmissionInv, Admission, InsertRun
<1>2. PICK n \in Nat : rows \in [1..n -> RunColumns]
  BY DEF AdmissionInv, Admission
<1>3. DOMAIN rows = 1..n /\ r = n + 1 /\ r \notin DOMAIN rows /\ rows \in Seq(RunColumns)
  <2>1. rows \in Seq(RunColumns)
    BY <1>2
  <2>2. Len(rows) = n
    BY <1>2, <2>1
  <2>. QED  BY <1>2, <2>1, <2>2
<1>4. req \in RequestType /\ req.atomic \in BOOLEAN /\ req.idem \in BOOLEAN
  BY <1>1 DEF StartCall, RequestType
<1>5. CASE Conflicting(req, Committed) # {} /\ Goto(p, "recoverIdempotent") /\ rows' = rows
  <2> DEFINE y == [starts[p] EXCEPT !.pc = "recoverIdempotent"]
  <2>1. /\ y \in StartCall /\ y.pc = "recoverIdempotent" /\ y.req = req
        /\ y.left = starts[p].left /\ y.round = starts[p].round
    BY <1>1 DEF StartCall, StartPoint
  <2>2. starts' = [starts EXCEPT ![p] = y]
    BY <1>1, <1>5 DEF Goto
  <2>3. KeyTaken(rows, starts[p]) \/ ScopeTaken(rows, starts[p])
    BY <1>5 DEF Conflicting, IdemHolders, ScopeHolders, Committed, KeyTaken, ScopeTaken
  <2>. HIDE DEF y
  <2>4. Churned(rows, y)
    BY <1>1, <2>1, <2>3 DEF Churned, KeyTaken, ScopeTaken
  <2>. QED  BY <1>1, <1>5, <2>1, <2>2, <2>4, AdmissionMove DEF AdmissionInv
<1>6. CASE /\ Conflicting(req, Committed) = {} /\ rows' = Append(rows, row)
           /\ AnswerWith(p, "enqueue", r)
  <2> DEFINE y == [starts[p] EXCEPT !.pc = "enqueue", !.run = r]
  <2>1. r \in Nat
    BY <1>3
  <2>2. row \in RunColumns /\ row.idem = req.idem /\ row.committed = ~req.atomic
    BY <1>4 DEF RequestType, RunColumns
  <2>. HIDE DEF row
  <2>3. /\ rows' \in [1..(n + 1) -> RunColumns] /\ DOMAIN rows' = 1..(n + 1)
        /\ rows'[r] = row /\ \A k \in DOMAIN rows : rows'[k] = rows[k]
        /\ DOMAIN rows' = DOMAIN rows \cup {r}
    <3>1. rows' \in Seq(RunColumns) /\ Len(rows') = n + 1 /\ rows' = Append(rows, row)
      BY <1>3, <1>6, <2>2
    <3>2. rows' \in [1..(n + 1) -> RunColumns] /\ DOMAIN rows' = 1..(n + 1)
      <4>1. \A s : s \in Seq(RunColumns) => s \in [1..Len(s) -> RunColumns]
        OBVIOUS
      <4>2. rows' \in [1..Len(rows') -> RunColumns]
        BY <3>1, <4>1
      <4>. QED  BY <3>1, <4>2
    <3>3. rows'[r] = row /\ \A k \in DOMAIN rows : rows'[k] = rows[k]
      BY <1>3, <2>2, <3>1
    <3>4. 1..(n + 1) = 1..n \cup {n + 1}
      OBVIOUS
    <3>. QED  BY <1>3, <3>2, <3>3, <3>4
  <2>. HIDE DEF r
  <2>4. /\ y \in StartCall /\ y.pc = "enqueue" /\ y.req = req /\ y.run = r
        /\ y.left = starts[p].left /\ y.round = starts[p].round
    BY <1>1, <2>1 DEF StartCall, StartPoint
  <2>5. starts' = [starts EXCEPT ![p] = y]
    BY <1>1, <1>6 DEF AnswerWith
  <2>. HIDE DEF y
  <2>6. starts' \in [Starters -> StartCall] /\ starts'[p] = y
        /\ \A q \in Starters \ {p} : starts'[q] = starts[q]
    BY <1>1, <2>4, <2>5
  <2>7. RowInHand(rows', y) /\ Churned(rows', y)
    BY <1>1, <1>4, <2>2, <2>3, <2>4 DEF RowInHand, Churned
  <2>8. ASSUME NEW q \in Starters \ {p}  PROVE  RowInHand(rows', starts[q]) /\ Churned(rows', starts[q])
    <3>1. RowInHand(rows, starts[q]) /\ Churned(rows, starts[q])
      BY DEF AdmissionInv, Admission
    <3>2. KeyTaken(rows, starts[q]) => KeyTaken(rows', starts[q])
      BY <2>3 DEF KeyTaken
    <3>3. ScopeTaken(rows, starts[q]) => ScopeTaken(rows', starts[q])
      BY <2>3 DEF ScopeTaken
    <3>4. RowInHand(rows', starts[q])
      BY <2>3, <3>1 DEF RowInHand
    <3>. QED  BY <3>1, <3>2, <3>3, <3>4 DEF Churned
  <2>9. \A a, b \in Starters : /\ starts'[a].pc \in {"enqueue", "commit"} /\ starts'[a].req.atomic
                                /\ starts'[b].pc \in {"enqueue", "commit"} /\ starts'[b].req.atomic
                                /\ starts'[a].run = starts'[b].run
                                => a = b
    <3>1. \A q \in Starters \ {p} : starts'[q].pc \in {"enqueue", "commit"} => starts'[q].run # r
      BY <1>3, <2>6 DEF AdmissionInv, Admission, RowInHand
    <3>. QED  BY <2>4, <2>6, <3>1 DEF AdmissionInv, Admission
  <2>10. \A k \in DOMAIN rows : req.idem => ~rows[k].idem
    BY <1>6 DEF InsertRun, Conflicting, IdemHolders, Committed
  <2>11. \A k, q \in DOMAIN rows' : rows'[k].idem /\ rows'[q].idem => k = q
    BY <2>2, <2>3, <2>10 DEF AdmissionInv, Admission
  <2>12. ASSUME NEW k \in DOMAIN rows', rows'[k].committed, rows'[k].live
         PROVE  k \in sent' \/ \E q \in Starters : Delivers(starts'[q], k)
    <3>1. CASE k = r
      BY <1>4, <2>2, <2>3, <2>4, <2>6, <2>12, <3>1 DEF Delivers
    <3>2. CASE k \in DOMAIN rows
      <4>1. k \in sent \/ \E q \in Starters : Delivers(starts[q], k)
        BY <2>3, <2>12, <3>2 DEF AdmissionInv, Admission
      <4>2. ~Delivers(starts[p], k)
        BY <1>1 DEF Delivers
      <4>. QED  BY <1>1, <2>6, <4>1, <4>2
    <3>. QED  BY <2>3, <3>1, <3>2
  <2>13. \A q \in Starters : RowInHand(rows', starts'[q]) /\ Churned(rows', starts'[q])
    BY <2>6, <2>7, <2>8
  <2>14. n + 1 \in Nat
    OBVIOUS
  <2>. QED  BY <2>3, <2>6, <2>9, <2>11, <2>12, <2>13, <2>14 DEF AdmissionInv, Admission
<1>. QED  BY <1>5, <1>6 DEF InsertRun

\* A start enqueues its command, or sends it with its commit.
LEMMA AdmissionSends ==
    ASSUME AdmissionInv, NEW p \in Starters, EnqueueStart(p) \/ Commit(p)
    PROVE  AdmissionInv'
<1> DEFINE w == starts[p].run
<1>1. starts \in [Starters -> StartCall] /\ starts[p] \in StartCall /\ starts[p].req.atomic \in BOOLEAN
  BY DEF AdmissionInv, Admission, StartCall, RequestType
<1>2. PICK n \in Nat : rows \in [1..n -> RunColumns]
  BY DEF AdmissionInv, Admission
<1>3. \A q \in Starters : RowInHand(rows, starts[q])
  BY DEF AdmissionInv, Admission
<1>4. w \in DOMAIN rows /\ rows[w] \in RunColumns
  BY <1>2, <1>3 DEF RowInHand, EnqueueStart, Commit
<1>5. ASSUME NEW pt \in {"commit", "answered"}, Goto(p, pt)
      PROVE  /\ starts' \in [Starters -> StartCall]
             /\ \A q \in Starters \ {p} : starts'[q] = starts[q]
             /\ starts'[p].pc = pt /\ starts'[p].run = w /\ starts'[p].req = starts[p].req
             /\ starts'[p].round = starts[p].round /\ starts'[p].left = starts[p].left
  BY <1>1, <1>5 DEF Goto, StartCall, StartPoint
<1>6. CASE EnqueueStart(p)
  <2>1. /\ starts[p].pc = "enqueue" /\ rows' = rows /\ sent \subseteq sent'
        /\ starts[p].req.atomic => Goto(p, "commit") /\ sent' = sent
        /\ ~starts[p].req.atomic => Goto(p, "answered") /\ w \in sent'
    BY <1>6 DEF EnqueueStart
  <2>2. rows = [rows EXCEPT ![w] = rows[w]]
    BY <1>2
  <2>3. /\ starts' \in [Starters -> StartCall]
        /\ \A q \in Starters \ {p} : starts'[q] = starts[q]
        /\ starts'[p].pc \in {"commit", "answered"} /\ starts'[p].run = w
        /\ starts'[p].pc = "commit" => starts[p].req.atomic
        /\ starts'[p].req = starts[p].req
        /\ starts'[p].round = starts[p].round /\ starts'[p].left = starts[p].left
    BY <1>5, <2>1
  <2>4. \A q \in Starters : RowInHand(rows, starts'[q])
    BY <1>3, <1>4, <2>1, <2>3 DEF RowInHand
  <2>5. \A q \in Starters, k \in DOMAIN rows : Delivers(starts[q], k) => k \in sent' \/ Delivers(starts'[q], k)
    BY <2>1, <2>3 DEF Delivers
  <2>6. rows[w].committed /\ rows[w].live => w \in sent' \/ \E q \in Starters : Delivers(starts'[q], w)
    BY <1>4, <2>1, <2>5 DEF AdmissionInv, Admission
  <2>7. \A q \in Starters : starts'[q].left >= starts[q].left
    BY <1>1, <2>3 DEF StartCall
  <2>8. RowWritten(rows, w, rows[w])
    BY <1>4 DEF RowWritten
  <2>9. \A q \in Starters : StartFollows(rows, w, rows[w], sent', starts[q], starts'[q])
    BY <2>1, <2>2, <2>3, <2>4, <2>5, <2>7 DEF StartFollows
  <2>10. Admission([rows EXCEPT ![w] = rows[w]], sent', starts')
    BY <1>4, <2>1, <2>3, <2>6, <2>8, <2>9, AdmissionWrite DEF AdmissionInv
  <2>. QED  BY <2>1, <2>2, <2>10 DEF AdmissionInv
<1>7. CASE Commit(p)
  <2> DEFINE row == [rows[w] EXCEPT !.committed = TRUE]
  <2>1. /\ starts[p].pc = "commit" /\ starts[p].req.atomic /\ rows' = [rows EXCEPT ![w] = row]
        /\ Goto(p, "answered") /\ sent' = sent \cup {w}
    BY <1>3, <1>7 DEF Commit, RowInHand
  <2>2. /\ row \in RunColumns /\ row.committed /\ row.live = rows[w].live /\ row.idem = rows[w].idem
        /\ row.scope = rows[w].scope
    BY <1>4 DEF RunColumns
  <2>. HIDE DEF row
  <2>3. /\ starts' \in [Starters -> StartCall]
        /\ \A q \in Starters \ {p} : starts'[q] = starts[q]
        /\ starts'[p].pc = "answered" /\ starts'[p].run = w /\ starts'[p].req = starts[p].req
        /\ starts'[p].round = starts[p].round /\ starts'[p].left = starts[p].left
    BY <1>5, <2>1
  <2>4. \A q \in Starters : RowInHand(rows', starts'[q])
    <3>1. /\ DOMAIN rows' = DOMAIN rows /\ rows'[w] = row /\ \A k \in DOMAIN rows \ {w} : rows'[k] = rows[k]
      BY <1>2, <1>4, <2>1
    <3>2. RowInHand(rows', starts'[p])
      BY <1>4, <2>3, <3>1 DEF RowInHand
    <3>3. ASSUME NEW q \in Starters \ {p}, starts[q].pc \in {"enqueue", "commit"}, starts[q].run = w
          PROVE  ~starts[q].req.atomic
      BY <2>1, <3>3 DEF AdmissionInv, Admission
    <3>4. ASSUME NEW q \in Starters \ {p}  PROVE  RowInHand(rows', starts[q])
      BY <1>3, <2>2, <3>1, <3>3 DEF RowInHand
    <3>. QED  BY <2>3, <3>2, <3>4
  <2>5. \A q \in Starters, k \in DOMAIN rows : Delivers(starts[q], k) => k \in sent' \/ Delivers(starts'[q], k)
    BY <2>1, <2>3 DEF Delivers
  <2>6. \A q \in Starters : starts'[q].left >= starts[q].left
    BY <1>1, <2>3 DEF StartCall
  <2>7. \A q \in Starters : StartFollows(rows, w, row, sent', starts[q], starts'[q])
    BY <2>1, <2>2, <2>3, <2>4, <2>5, <2>6 DEF StartFollows
  <2>8. RowWritten(rows, w, row)
    BY <2>2 DEF RowWritten
  <2>9. sent \subseteq sent' /\ w \in sent' /\ Admission(rows, sent, starts)
    BY <2>1 DEF AdmissionInv
  <2>10. Admission([rows EXCEPT ![w] = row], sent', starts')
    BY <1>4, <2>3, <2>7, <2>8, <2>9, AdmissionWrite
  <2>. QED  BY <2>1, <2>10 DEF AdmissionInv
<1>. QED  BY <1>6, <1>7

\* A start keeps its row in its hand while another one's is committed.
LEMMA HandKept ==
    ASSUME AdmissionInv, NEW w \in DOMAIN rows, NEW u \in RunColumns, NEW q \in Starters, NEW y,
           y.pc = starts[q].pc, y.run = starts[q].run, y.req = starts[q].req,
           \/ u.committed = rows[w].committed
           \/ \E p \in Starters \ {q} : /\ starts[p].pc \in {"enqueue", "commit"} /\ starts[p].req.atomic
                                         /\ starts[p].run = w
    PROVE  RowInHand([rows EXCEPT ![w] = u], y)
<1> DEFINE U == [rows EXCEPT ![w] = u]
<1>1. /\ DOMAIN U = DOMAIN rows /\ U[w] = u /\ \A r \in DOMAIN rows \ {w} : U[r] = rows[r]
  BY DEF AdmissionInv, Admission
<1>. HIDE DEF U
<1>2. RowInHand(rows, starts[q])
  BY DEF AdmissionInv, Admission
<1>3. CASE u.committed = rows[w].committed
  BY <1>1, <1>2, <1>3 DEF RowInHand, U
<1>4. ASSUME NEW p \in Starters \ {q}, starts[p].pc \in {"enqueue", "commit"}, starts[p].req.atomic,
             starts[p].run = w
      PROVE  RowInHand(U, y)
  <2>1. starts[q].pc \in {"enqueue", "commit"} /\ starts[q].run = w => ~starts[q].req.atomic
    BY <1>4 DEF AdmissionInv, Admission
  <2>2. ~rows[w].committed
    BY <1>4 DEF AdmissionInv, Admission, RowInHand
  <2>3. ~(starts[q].pc \in {"enqueue", "commit"} /\ starts[q].run = w)
    BY <1>2, <2>1, <2>2 DEF RowInHand
  <2>. QED  BY <1>1, <1>2, <2>3 DEF RowInHand
<1>. QED  BY <1>3, <1>4 DEF U

\* The starts that see a run give its key up are as they were, and those
\* that recover have counted it.
LEMMA DepartingCounts ==
    ASSUME AdmissionInv, NEW r
    PROVE  /\ Departing(r) \in [Starters -> StartCall]
           /\ \A q \in Starters :
                 LET y == Departing(r)[q]
                 IN  /\ y.pc = starts[q].pc /\ y.run = starts[q].run /\ y.req = starts[q].req
                     /\ y.round = starts[q].round /\ y.left >= starts[q].left
                     /\ rows[r].scope = "active" /\ starts[q].pc # "answered" => y.left > starts[q].left
<1>1. ASSUME NEW q \in Starters
      PROVE  LET y == Departing(r)[q]
             IN  /\ y \in StartCall
                 /\ y.pc = starts[q].pc /\ y.run = starts[q].run /\ y.req = starts[q].req
                 /\ y.round = starts[q].round /\ y.left >= starts[q].left
                 /\ rows[r].scope = "active" /\ starts[q].pc # "answered" => y.left > starts[q].left
  <2>1. starts[q] \in StartCall
    BY DEF AdmissionInv, Admission
  <2>2. Departing(r)[q] = IF rows[r].scope = "active" /\ starts[q].pc # "answered"
                          THEN [starts[q] EXCEPT !.left = @ + 1] ELSE starts[q]
    BY DEF Departing
  <2>. QED  BY <2>1, <2>2 DEF StartCall
<1>2. Departing(r) = [q \in Starters |-> Departing(r)[q]]
  BY DEF Departing
<1>. QED  BY <1>1, <1>2

\* A run ends, and gives up the key of a live run.
LEMMA AdmissionEnds ==
    ASSUME AdmissionInv, NEW w \in DOMAIN rows, RunEnds(w)
    PROVE  AdmissionInv'
<1> DEFINE u == [rows[w] EXCEPT !.live = FALSE]
<1>1. rows[w] \in RunColumns /\ starts \in [Starters -> StartCall]
  BY DEF AdmissionInv, Admission
<1>2. /\ u \in RunColumns /\ ~u.live /\ u.committed = rows[w].committed /\ u.idem = rows[w].idem
      /\ u.scope = rows[w].scope
  BY <1>1 DEF RunColumns
<1>3. rows' = [rows EXCEPT ![w] = u] /\ starts' = Departing(w) /\ sent' = sent
  BY DEF RunEnds
<1>. HIDE DEF u
<1>4. RowWritten(rows, w, u)
  BY <1>2 DEF RowWritten
<1>5. ASSUME NEW q \in Starters  PROVE  StartFollows(rows, w, u, sent', starts[q], starts'[q])
  <2>1. /\ starts'[q].pc = starts[q].pc /\ starts'[q].run = starts[q].run /\ starts'[q].req = starts[q].req
        /\ starts'[q].round = starts[q].round /\ starts'[q].left >= starts[q].left
        /\ rows[w].scope = "active" /\ starts[q].pc # "answered" => starts'[q].left > starts[q].left
    BY <1>3, DepartingCounts
  <2>2. RowInHand([rows EXCEPT ![w] = u], starts'[q])
    BY <1>2, <2>1, HandKept
  <2>. QED  BY <2>1, <2>2 DEF StartFollows, Delivers
<1>6. starts' \in [Starters -> StartCall]
  BY <1>3, DepartingCounts
<1>7. Admission([rows EXCEPT ![w] = u], sent', starts')
  BY <1>2, <1>3, <1>4, <1>5, <1>6, AdmissionWrite DEF AdmissionInv
<1>. QED  BY <1>3, <1>7 DEF AdmissionInv

\* The enqueue of a start fails: its row is rolled back, or failed.
LEMMA AdmissionFails ==
    ASSUME AdmissionInv, NEW p \in Starters, EnqueueFails(p)
    PROVE  AdmissionInv'
<1> DEFINE w == starts[p].run
           u == IF starts[p].req.atomic THEN RolledBack(rows[w]) ELSE [rows[w] EXCEPT !.live = FALSE]
           D == Departing(w)
<1>1. /\ w \in DOMAIN rows /\ rows[w] \in RunColumns /\ starts[p].pc = "enqueue"
      /\ rows[w].committed <=> ~starts[p].req.atomic
  BY DEF AdmissionInv, Admission, RowInHand, EnqueueFails
<1>2. /\ u \in RunColumns /\ ~u.live
      /\ ~starts[p].req.atomic => /\ u.committed = rows[w].committed /\ u.idem = rows[w].idem
                                  /\ u.scope = rows[w].scope
      /\ starts[p].req.atomic => ~u.idem
  BY <1>1 DEF RunColumns, RolledBack
<1>3. rows' = [rows EXCEPT ![w] = u] /\ sent' = sent /\ starts' = [D EXCEPT ![p].pc = "failed"]
  <2>1. CASE starts[p].req.atomic
    BY <1>1, <2>1 DEF EnqueueFails, RolledBack, AdmissionInv, Admission
  <2>2. CASE ~starts[p].req.atomic
    BY <1>1, <2>2 DEF EnqueueFails
  <2>. QED  BY <2>1, <2>2
<1>. HIDE DEF u
<1>4. RowWritten(rows, w, u)
  BY <1>1, <1>2 DEF RowWritten
<1>5. /\ D \in [Starters -> StartCall]
      /\ \A q \in Starters :
            /\ D[q].pc = starts[q].pc /\ D[q].run = starts[q].run /\ D[q].req = starts[q].req
            /\ D[q].round = starts[q].round /\ D[q].left >= starts[q].left
            /\ rows[w].scope = "active" /\ starts[q].pc # "answered" => D[q].left > starts[q].left
  BY DepartingCounts
<1>. HIDE DEF D
<1>6. /\ starts' \in [Starters -> StartCall] /\ \A q \in Starters \ {p} : starts'[q] = D[q]
      /\ starts'[p].pc = "failed" /\ starts'[p].run = D[p].run /\ starts'[p].req = D[p].req
      /\ starts'[p].round = D[p].round /\ starts'[p].left = D[p].left
  BY <1>3, <1>5 DEF StartCall, StartPoint
<1>7. ASSUME NEW q \in Starters  PROVE  StartFollows(rows, w, u, sent', starts[q], starts'[q])
  <2>1. CASE q = p
    <3>1. RowInHand([rows EXCEPT ![w] = u], starts'[p])
      BY <1>6 DEF RowInHand
    <3>2. \A r \in DOMAIN rows \ {w} : ~Delivers(starts[p], r)
      BY DEF Delivers
    <3>. QED  BY <1>5, <1>6, <2>1, <3>1, <3>2 DEF StartFollows
  <2>2. CASE q # p
    <3>1. starts'[q] = D[q]
      BY <1>6, <2>2
    <3>2. RowInHand([rows EXCEPT ![w] = u], D[q])
      <4>1. CASE starts[p].req.atomic
        BY <1>1, <1>2, <1>5, <2>2, <4>1, HandKept
      <4>2. CASE ~starts[p].req.atomic
        BY <1>1, <1>2, <1>5, <4>2, HandKept
      <4>. QED  BY <4>1, <4>2
    <3>. QED  BY <1>5, <3>1, <3>2 DEF StartFollows, Delivers
  <2>. QED  BY <2>1, <2>2
<1>8. Admission([rows EXCEPT ![w] = u], sent', starts')
  BY <1>1, <1>2, <1>3, <1>4, <1>6, <1>7, AdmissionWrite DEF AdmissionInv
<1>. QED  BY <1>3, <1>8 DEF AdmissionInv

\* A start dies, and its transaction with it.
LEMMA AdmissionCrash ==
    ASSUME AdmissionInv, NEW p \in Starters, Crash(p)
    PROVE  AdmissionInv'
<1> DEFINE w == starts[p].run
           y == [starts[p] EXCEPT !.pc = "crashed"]
<1>1. /\ starts \in [Starters -> StartCall] /\ starts[p] \in StartCall /\ Churned(rows, starts[p])
      /\ RowInHand(rows, starts[p])
  BY DEF AdmissionInv, Admission
<1>2. starts' = [starts EXCEPT ![p] = y] /\ sent' = sent
  BY <1>1 DEF Crash, Goto
<1>3. /\ y \in StartCall /\ y.pc = "crashed" /\ y.run = w /\ y.req = starts[p].req
      /\ y.left = starts[p].left /\ y.round = starts[p].round /\ starts[p].left \in Nat
  BY <1>1 DEF StartCall, StartPoint
<1>. HIDE DEF y
<1>4. PICK n \in Nat : rows \in [1..n -> RunColumns]
  BY DEF AdmissionInv, Admission
<1>5. CASE starts[p].pc \notin {"enqueue", "commit"}
  <2>1. rows' = rows
    BY <1>4, <1>5 DEF Crash
  <2>2. Churned(rows, y)
    BY <1>1, <1>3 DEF Churned
  <2>3. starts[p].pc # "crashed"
    BY DEF Crash
  <2>. QED  BY <1>2, <1>3, <1>5, <2>1, <2>2, <2>3, AdmissionMove DEF AdmissionInv
<1>6. CASE starts[p].pc \in {"enqueue", "commit"}
  <2> DEFINE u == IF rows[w].committed THEN rows[w] ELSE RolledBack(rows[w])
  <2>1. /\ w \in DOMAIN rows /\ rows[w] \in RunColumns
        /\ rows[w].committed <=> ~starts[p].req.atomic
        /\ rows[w].committed => starts[p].pc = "enqueue"
    BY <1>1, <1>4, <1>6 DEF RowInHand
  <2>2. /\ u \in RunColumns /\ u.committed
        /\ rows[w].committed => u = rows[w]
        /\ ~rows[w].committed => ~u.idem /\ ~u.live
    BY <2>1 DEF RunColumns, RolledBack
  <2>3. rows' = [rows EXCEPT ![w] = u]
    <3>1. CASE rows[w].committed
      BY <1>4, <1>6, <2>1, <3>1 DEF Crash
    <3>2. CASE ~rows[w].committed
      BY <1>4, <1>6, <2>1, <3>2 DEF Crash, RolledBack
    <3>. QED  BY <3>1, <3>2
  <2>. HIDE DEF u
  <2>4. RowWritten(rows, w, u)
    BY <2>1, <2>2 DEF RowWritten
  <2>5. starts' \in [Starters -> StartCall] /\ starts'[p] = y
        /\ \A q \in Starters \ {p} : starts'[q] = starts[q]
    BY <1>1, <1>2, <1>3
  <2>6. \A q \in Starters : starts[q].left >= starts[q].left
    BY <1>1 DEF StartCall
  <2>7. ASSUME NEW q \in Starters  PROVE  StartFollows(rows, w, u, sent', starts[q], starts'[q])
    <3>1. CASE q = p
      <4>1. RowInHand([rows EXCEPT ![w] = u], y)
        BY <1>3 DEF RowInHand
      <4>2. \A r \in DOMAIN rows \ {w} : ~Delivers(starts[p], r)
        BY DEF Delivers
      <4>. QED  BY <1>3, <2>5, <2>6, <3>1, <4>1, <4>2 DEF StartFollows
    <3>2. CASE q # p
      <4>1. starts'[q] = starts[q]
        BY <2>5, <3>2
      <4>2. RowInHand([rows EXCEPT ![w] = u], starts[q])
        <5>1. CASE rows[w].committed
          BY <2>1, <2>2, <5>1, HandKept
        <5>2. CASE ~rows[w].committed
          BY <1>6, <2>1, <2>2, <3>2, <5>2, HandKept
        <5>. QED  BY <5>1, <5>2
      <4>3. rows[w].committed /\ rows[w].live /\ ~u.live => FALSE
        BY <2>2
      <4>. QED  BY <2>6, <4>1, <4>2, <4>3 DEF StartFollows
    <3>. QED  BY <3>1, <3>2
  <2>8. u.committed /\ u.live => w \in sent' \/ \E q \in Starters : Delivers(starts'[q], w)
    <3>1. u.live => rows[w].committed
      BY <2>2
    <3>2. rows[w].committed => Delivers(y, w)
      BY <1>3, <2>1 DEF Delivers
    <3>. QED  BY <2>5, <3>1, <3>2
  <2>9. Admission([rows EXCEPT ![w] = u], sent', starts')
    BY <1>2, <2>1, <2>4, <2>5, <2>7, <2>8, AdmissionWrite DEF AdmissionInv
  <2>. QED  BY <2>3, <2>9 DEF AdmissionInv
<1>. QED  BY <1>5, <1>6

\* AdmissionInv is an invariant of racing starts.
LEMMA AdmissionInvHolds == AdmissionSpec => []AdmissionInv
<1>1. AdmissionInit => AdmissionInv
  <2>1. SUFFICES ASSUME AdmissionInit  PROVE  AdmissionInv
    OBVIOUS
  <2>2. rows = <<>> /\ DOMAIN rows = {} /\ rows \in [1..0 -> RunColumns]
    BY <2>1 DEF AdmissionInit
  <2>3. PICK reqs \in [Starters -> Requests] :
          starts = [p \in Starters |-> [pc |-> IF reqs[p].retry THEN "retry" ELSE "loadIdempotent",
                                        req |-> reqs[p], round |-> 0, run |-> 0, left |-> 0]]
    BY <2>1 DEF AdmissionInit
  <2>4. ASSUME NEW p \in Starters
        PROVE  /\ starts[p] \in StartCall /\ starts[p].pc \in {"retry", "loadIdempotent"}
               /\ starts[p].left = 0 /\ starts[p].round = 0
    <3>1. reqs[p] \in RequestType
      BY RequestAssumption
    <3>. QED  BY <2>3, <3>1 DEF StartCall, StartPoint
  <2>5. starts \in [Starters -> StartCall]
    <3>1. starts = [p \in Starters |-> starts[p]]
      BY <2>3
    <3>. QED  BY <2>4, <3>1
  <2>6. \A p \in Starters : RowInHand(rows, starts[p]) /\ Churned(rows, starts[p])
    <3>1. ASSUME NEW p \in Starters  PROVE  RowInHand(rows, starts[p]) /\ Churned(rows, starts[p])
      <4>1. RowInHand(rows, starts[p])
        BY <2>4 DEF RowInHand
      <4>2. 0 >= 0
        OBVIOUS
      <4>. QED  BY <2>4, <4>1, <4>2 DEF Churned
    <3>. QED  BY <3>1
  <2>. QED  BY <2>2, <2>4, <2>5, <2>6 DEF AdmissionInv, Admission
<1>2. AdmissionInv /\ [AdmissionNext]_admissionVars => AdmissionInv'
  <2>1. ASSUME AdmissionInv, UNCHANGED admissionVars  PROVE  AdmissionInv'
    BY <2>1 DEF AdmissionInv, admissionVars
  <2>. QED  BY <2>1, AdmissionReads, AdmissionInserts, AdmissionSends, AdmissionFails, AdmissionCrash,
             AdmissionEnds DEF AdmissionNext
<1>. QED  BY <1>1, <1>2, PTL DEF AdmissionSpec

\* Racing starts of one idempotency key are answered with one run, and a
\* start gives up on its insert only when the key changed hands under it
\* twice (createStoredRunWithState), however many starts race.
THEOREM RacingStartsAgree == AdmissionSpec => []StartsAgree
<1>1. AdmissionInv => StartsAgree
  <2>1. SUFFICES ASSUME AdmissionInv  PROVE  IdempotentStartsAgree /\ GivesUpOnlyOnChurn
    BY DEF StartsAgree
  <2>2. IdempotentStartsAgree
    <3>1. /\ \A p \in Starters : starts[p].pc = "answered" => starts[p].run \in DOMAIN rows
          /\ \A r, q \in DOMAIN rows : rows[r].idem /\ rows[q].idem => r = q
      BY <2>1 DEF AdmissionInv, Admission, RowInHand
    <3>. QED  BY <3>1 DEF IdempotentStartsAgree
  <2>3. ASSUME NEW p \in Starters, starts[p].pc = "gaveUp"  PROVE  starts[p].left > 1
    <3>1. starts[p] \in StartCall /\ Churned(rows, starts[p])
      BY <2>1 DEF AdmissionInv, Admission
    <3>. QED  BY <2>3, <3>1 DEF Churned, StartCall
  <2>. QED  BY <2>2, <2>3 DEF GivesUpOnlyOnChurn
<1>. QED  BY <1>1, AdmissionInvHolds, PTL

\* A committed run that has not ended has its first command in the queue,
\* or a start outside a transaction is about to send it or died before it
\* did (coordinator/start.ts, adapters/postgres/runtime.ts).
THEOREM NoRunUnsent == AdmissionSpec => []AdmittedIsSent
<1>1. AdmissionInv => AdmittedIsSent
  BY DEF AdmissionInv, Admission, Delivers, AdmittedIsSent, Committed
<1>. QED  BY <1>1, AdmissionInvHolds, PTL

-----------------------------------------------------------------------------
(* Watching a run.                                                         *)

\* Watching a run (module RunWatch).
\*
\* The hub with connections C, the current one k: at most one connection
\* is alive, the one that listens is the current one, and a reconnect is
\* scheduled exactly when none is left.
ConnState == {"connecting", "listening", "up", "gone"}

Hub(C, k, tm, off) ==
    /\ \E n \in Nat : C \in [1..n -> ConnState]
    /\ tm \in BOOLEAN /\ off \in BOOLEAN
    /\ k # 0 => k \in DOMAIN C /\ C[k] \in {"listening", "up"}
    /\ \A c \in DOMAIN C : C[c] \in {"listening", "up"} => k = c /\ ~off
    /\ \A c, d \in DOMAIN C : C[c] # "gone" /\ C[d] # "gone" => c = d
    /\ tm => ~off /\ \A c \in DOMAIN C : C[c] = "gone"
    /\ ~off /\ ~tm => \E c \in DOMAIN C : C[c] # "gone"

WatchPoint == {"load", "subscribe", "read", "wait", "sleep", "awake", "peek", "rested", "debounceSleep", "done"}
Watcher == [pc : WatchPoint, subscribed : BOOLEAN, pending : BOOLEAN, last : Nat, aborted : BOOLEAN,
            window : BOOLEAN, windows : Nat]

\* A watcher w that waits has the last status (st), or something will wake
\* it: `owed` says that a notification or a pulse will.
Told(w, st, owed) ==
    w.pc \in {"wait", "sleep", "debounceSleep"} /\ st # w.last => owed \/ (w.pc = "wait" /\ w.pending)

Watching(w, off) ==
    /\ w \in Watcher
    /\ w.pc \in {"read", "wait", "sleep", "awake", "peek", "rested", "debounceSleep"} => w.subscribed \/ off

Owed == inflight > 0 \/ (missed = "gap" /\ ~Listening) \/ missed = "first" \/ hubOff

WatchInv ==
    /\ Hub(conns, client, timer, hubOff)
    /\ inflight \in Nat /\ status \in Nat /\ everListened \in BOOLEAN
    /\ missed = "gap" \/ (\E c \in DOMAIN conns : conns[c] = "up") => everListened
    /\ Watching(watch, hubOff)
    /\ Told(watch, status, Owed)

\* A wake reaches a watcher that is subscribed, whatever it waits for.
LEMMA WokenTold ==
    ASSUME NEW w, NEW off, Watching(w, off), NEW st, NEW owed
    PROVE  /\ Watching(Woken(w), off)
           /\ ~off => Told(Woken(w), st, owed)
           /\ Woken(w).pc = "done" <=> w.pc = "done"
<1>1. CASE ~w.subscribed
  BY <1>1 DEF Woken, Watching, Told
<1>2. CASE w.subscribed
  <2> DEFINE pt == CASE w.pc = "sleep" -> "awake" [] w.pc = "debounceSleep" -> "rested" [] OTHER -> w.pc
             v == [w EXCEPT !.pending = TRUE, !.pc = pt]
  <2>1. pt \in WatchPoint \ {"sleep", "debounceSleep"} /\ (pt = "done" <=> w.pc = "done")
    BY DEF Watching, Watcher, WatchPoint
  <2>2. Woken(w) = v
    BY <1>2 DEF Woken, Watching, Watcher
  <2>. HIDE DEF pt
  <2>3. v \in Watcher /\ v.pc = pt /\ v.subscribed /\ v.pending
    BY <1>2, <2>1 DEF Watching, Watcher
  <2>. HIDE DEF v
  <2>. QED  BY <2>1, <2>2, <2>3 DEF Watching, Told
<1>. QED  BY <1>1, <1>2

\* Connection c of C goes: the current one is then j, the timer t.
Departs(C, k, tm, off, c, D, j, t) ==
    /\ c \in DOMAIN C /\ C[c] # "gone"
    /\ D = [C EXCEPT ![c] = "gone"]
    /\ j = IF k = c THEN 0 ELSE k
    /\ t \in BOOLEAN /\ (t <=> tm \/ ~off)

\* A connection that goes leaves the hub to its timer.
LEMMA ConnectionGoes ==
    ASSUME NEW C, NEW k, NEW tm, NEW off, Hub(C, k, tm, off), NEW c, NEW D, NEW j, NEW t,
           Departs(C, k, tm, off, c, D, j, t)
    PROVE  Hub(D, j, t, off) /\ j = 0 /\ ~tm
<1>. USE DEF Departs
<1>1. PICK n \in Nat : C \in [1..n -> ConnState]
  BY DEF Hub
<1>2. /\ D \in [1..n -> ConnState] /\ D[c] = "gone" /\ \A d \in DOMAIN C \ {c} : D[d] = C[d]
      /\ DOMAIN D = DOMAIN C
  BY <1>1 DEF ConnState
<1>3. \A d \in DOMAIN D : D[d] = "gone"
  BY <1>2 DEF Hub
<1>4. j = 0 /\ ~tm
  BY DEF Hub
<1>5. t \in BOOLEAN /\ (t <=> ~off)
  BY <1>4 DEF Hub
<1>6. Hub(D, j, t, off)
  <2>1. off \in BOOLEAN
    BY DEF Hub
  <2>. QED  BY <1>1, <1>2, <1>3, <1>4, <1>5, <2>1 DEF Hub
<1>. QED  BY <1>4, <1>6

\* The current connection is the only one alive.
LEMMA ListeningIsCurrent ==
    ASSUME WatchInv, NEW c \in DOMAIN conns
    PROVE  /\ conns[c] = "up" => Listening /\ client = c
           /\ conns[c] \in {"connecting", "listening"} => ~Listening
           /\ conns[c] = "connecting" => client = 0
           /\ conns[c] \in {"listening", "up"} => client = c /\ ~hubOff /\ client # 0
<1>1. PICK n \in Nat : conns \in [1..n -> ConnState]
  BY DEF WatchInv, Hub
<1>2. c # 0
  BY <1>1
<1>. QED  BY <1>2 DEF WatchInv, Hub, Listening

\* A connection of the hub is made, lost or refused.
LEMMA HubKeeps ==
    ASSUME WatchInv, NEW c \in DOMAIN conns,
           Connected(c) \/ ConnectFails(c) \/ ListenFails(c) \/ ConnectionLost(c)
    PROVE  WatchInv'
<1>1. /\ Hub(conns, client, timer, hubOff) /\ inflight \in Nat /\ timer \in BOOLEAN /\ hubOff \in BOOLEAN
      /\ Watching(watch, hubOff) /\ Told(watch, status, Owed)
      /\ UNCHANGED <<watch, status, hubOff, everListened>>
  BY DEF WatchInv, Hub, Connected, ConnectFails, ListenFails, ConnectionLost
<1>2. PICK n \in Nat : conns \in [1..n -> ConnState]
  BY DEF WatchInv, Hub
<1>3. ASSUME Hub(conns, client, timer, hubOff)', inflight' \in Nat, Owed => Owed',
             missed' = "gap" \/ (\E d \in DOMAIN conns' : conns'[d] = "up") => everListened
      PROVE  WatchInv'
  BY <1>1, <1>3 DEF WatchInv, Told
<1>4. CASE Connected(c) /\ hubOff
  <2> DEFINE D == [conns EXCEPT ![c] = "gone"]
  <2>1. conns' = D /\ UNCHANGED <<client, timer, inflight, missed>> /\ conns[c] = "connecting"
    BY <1>4 DEF Connected
  <2>2. /\ D \in [1..n -> ConnState] /\ D[c] = "gone" /\ \A d \in DOMAIN conns \ {c} : D[d] = conns[d]
        /\ DOMAIN D = DOMAIN conns
    BY <1>2 DEF ConnState
  <2>. HIDE DEF D
  <2>3. Hub(D, client, timer, hubOff)
    BY <1>1, <1>2, <1>4, <2>1, <2>2 DEF Hub
  <2>4. \A d \in DOMAIN D : D[d] = "up" => conns[d] = "up"
    BY <2>2
  <2>. QED  BY <1>1, <1>3, <1>4, <2>1, <2>2, <2>3, <2>4 DEF Owed, WatchInv
<1>5. CASE Connected(c) /\ ~hubOff
  <2> DEFINE D == [conns EXCEPT ![c] = "listening"]
  <2>1. conns' = D /\ client' = c /\ UNCHANGED <<timer, inflight, missed>> /\ conns[c] = "connecting"
    BY <1>5 DEF Connected
  <2>2. /\ D \in [1..n -> ConnState] /\ D[c] = "listening" /\ \A d \in DOMAIN conns \ {c} : D[d] = conns[d]
        /\ DOMAIN D = DOMAIN conns
    BY <1>2 DEF ConnState
  <2>. HIDE DEF D
  <2>3. \A d \in DOMAIN conns \ {c} : conns[d] = "gone"
    BY <1>1, <2>1 DEF Hub
  <2>4. Hub(D, c, timer, hubOff)
    BY <1>1, <1>2, <1>5, <2>1, <2>2, <2>3 DEF Hub
  <2>5. ~Listening'
    BY <2>1, <2>2 DEF Listening
  <2>6. \A d \in DOMAIN D : D[d] = "up" => conns[d] = "up"
    BY <2>2
  <2>. QED  BY <1>1, <1>3, <2>1, <2>2, <2>4, <2>5, <2>6 DEF Owed, WatchInv
<1>6. CASE ConnectFails(c) \/ ListenFails(c) \/ ConnectionLost(c)
  <2> DEFINE D == [conns EXCEPT ![c] = "gone"]
             j == IF client = c THEN 0 ELSE client
  <2>1. conns' = D /\ conns[c] # "gone" /\ timer' = (timer \/ ~hubOff)
    BY <1>6 DEF ConnectFails, ListenFails, ConnectionLost, Scheduled
  <2>2. Hub(D, j, timer', hubOff) /\ j = 0
    <3>1. j = IF client = c THEN 0 ELSE client
      OBVIOUS
    <3>. HIDE DEF j
    <3>2. timer' \in BOOLEAN /\ (timer' <=> timer \/ ~hubOff)
      BY <2>1, Zenon
    <3>3. D = [conns EXCEPT ![c] = "gone"]
      OBVIOUS
    <3>. HIDE DEF D
    <3>4. Departs(conns, client, timer, hubOff, c, D, j, timer')
      BY <2>1, <3>1, <3>2, <3>3 DEF Departs
    <3>. QED  BY <1>1, <3>4, ConnectionGoes
  <2>3. /\ DOMAIN D = DOMAIN conns /\ \A d \in DOMAIN D : D[d] = "up" => conns[d] = "up"
    BY <1>2
  <2>4. client' = 0
    <3>1. CASE ConnectFails(c)
      BY <3>1, ListeningIsCurrent DEF ConnectFails
    <3>2. CASE ListenFails(c)
      BY <2>2, <3>2 DEF ListenFails, ReleaseSlot
    <3>3. CASE ConnectionLost(c)
      BY <3>3 DEF ConnectionLost
    <3>. QED  BY <1>6, <3>1, <3>2, <3>3
  <2>. HIDE DEF D, j
  <2>5. Hub(conns, client, timer, hubOff)'
    BY <1>1, <2>1, <2>2, <2>4
  <2>6. ~Listening'
    BY <2>4 DEF Listening
  <2>7. CASE ConnectFails(c) \/ ListenFails(c)
    <3>1. inflight' = inflight /\ missed' = missed
      BY <2>7 DEF ConnectFails, ListenFails
    <3>2. Owed => Owed'
      BY <1>1, <2>6, <3>1 DEF Owed
    <3>3. missed' = "gap" \/ (\E d \in DOMAIN conns' : conns'[d] = "up") => everListened
      BY <2>1, <2>3, <3>1 DEF WatchInv
    <3>. QED  BY <1>1, <1>3, <2>5, <3>1, <3>2, <3>3
  <2>8. CASE ConnectionLost(c)
    <3>1. /\ inflight' = 0 /\ conns[c] = "up" /\ missed' = IF inflight > 0 THEN "gap" ELSE missed
      BY <2>8 DEF ConnectionLost
    <3>2. Owed => Owed'
      BY <1>1, <2>6, <3>1, ListeningIsCurrent DEF Owed
    <3>3. everListened
      BY <3>1 DEF WatchInv
    <3>. QED  BY <1>3, <2>5, <3>1, <3>2, <3>3
  <2>. QED  BY <1>6, <2>7, <2>8
<1>. QED  BY <1>1, <1>4, <1>5, <1>6

\* The hub listens again, reconnects, is disposed or hears a notification.
LEMMA WakesKeep ==
    ASSUME WatchInv,
           \/ \E c \in DOMAIN conns : ListenSucceeds(c)
           \/ Reconnect \/ HandleNotification \/ DisposeHub
    PROVE  WatchInv'
<1>1. /\ Hub(conns, client, timer, hubOff) /\ inflight \in Nat /\ timer \in BOOLEAN /\ hubOff \in BOOLEAN
      /\ Watching(watch, hubOff) /\ Told(watch, status, Owed) /\ status' = status /\ status \in Nat
      /\ everListened \in BOOLEAN
  BY DEF WatchInv, Hub, ListenSucceeds, Reconnect, HandleNotification, DisposeHub
<1>2. PICK n \in Nat : conns \in [1..n -> ConnState]
  BY DEF WatchInv, Hub
<1>3. ASSUME NEW c \in DOMAIN conns, ListenSucceeds(c)  PROVE  WatchInv'
  <2> DEFINE D == [conns EXCEPT ![c] = "up"]
  <2>1. /\ conns' = D /\ conns[c] = "listening" /\ everListened' = TRUE
        /\ UNCHANGED <<client, timer, hubOff, inflight>>
    BY <1>3 DEF ListenSucceeds
  <2>2. /\ D \in [1..n -> ConnState] /\ D[c] = "up" /\ \A d \in DOMAIN conns \ {c} : D[d] = conns[d]
        /\ DOMAIN D = DOMAIN conns
    BY <1>2 DEF ConnState
  <2>. HIDE DEF D
  <2>3. ~hubOff /\ client = c
    BY <2>1, ListeningIsCurrent
  <2>4. Hub(D, client, timer, hubOff)
    BY <1>1, <1>2, <2>1, <2>2, <2>3 DEF Hub
  <2>5. Watching(watch', hubOff) /\ Told(watch', status, Owed')
    <3>1. CASE everListened
      BY <1>1, <1>3, <2>3, <3>1, WokenTold DEF ListenSucceeds, Pulse
    <3>2. CASE ~everListened
      <4>1. watch' = watch /\ missed' = missed /\ missed # "gap"
        BY <1>3, <3>2 DEF ListenSucceeds, Pulse, WatchInv
      <4>2. Owed => Owed'
        BY <2>1, <4>1 DEF Owed
      <4>. QED  BY <1>1, <4>1, <4>2 DEF Told
    <3>. QED  BY <3>1, <3>2
  <2>. QED  BY <1>1, <2>1, <2>4, <2>5 DEF WatchInv
<1>4. CASE Reconnect
  <2>1. /\ timer /\ timer' = FALSE /\ UNCHANGED <<client, everListened, hubOff, inflight, missed, watch>>
    BY <1>4 DEF Reconnect
  <2>2. ~hubOff /\ client = 0 /\ \A c \in DOMAIN conns : conns[c] = "gone"
    BY <1>1, <2>1 DEF Hub
  <2>3. conns' = Append(conns, "connecting")
    BY <1>4, <2>2 DEF Reconnect
  <2>4. /\ conns' \in [1..(n + 1) -> ConnState] /\ DOMAIN conns' = 1..(n + 1) /\ DOMAIN conns = 1..n
        /\ conns'[n + 1] = "connecting" /\ \A c \in 1..n : conns'[c] = conns[c]
    <3>1. conns \in Seq(ConnState) /\ Len(conns) = n /\ "connecting" \in ConnState
      BY <1>2 DEF ConnState
    <3>2. conns' \in Seq(ConnState) /\ Len(conns') = n + 1
      BY <2>3, <3>1
    <3>3. \A q : q \in Seq(ConnState) => q \in [1..Len(q) -> ConnState] /\ DOMAIN q = 1..Len(q)
      OBVIOUS
    <3>4. conns' \in [1..(n + 1) -> ConnState] /\ DOMAIN conns' = 1..(n + 1) /\ DOMAIN conns = 1..n
      BY <3>1, <3>2, <3>3
    <3>5. conns'[n + 1] = "connecting" /\ \A c \in 1..n : conns'[c] = conns[c]
      BY <2>3, <3>1
    <3>. QED  BY <3>4, <3>5
  <2>5. n + 1 \in Nat /\ 1..(n + 1) = 1..n \cup {n + 1}
    OBVIOUS
  <2>6. /\ \A c \in DOMAIN conns' : conns'[c] # "gone" => c = n + 1
        /\ \A c \in DOMAIN conns' : conns'[c] \notin {"listening", "up"}
        /\ n + 1 \in DOMAIN conns'
    BY <2>2, <2>4, <2>5
  <2>7. Hub(conns', 0, FALSE, hubOff)
    <3>1. \A c, d \in DOMAIN conns' : conns'[c] # "gone" /\ conns'[d] # "gone" => c = d
      BY <2>6
    <3>. QED  BY <1>1, <2>4, <2>5, <2>6, <3>1 DEF Hub
  <2>8. ~Listening'
    BY <2>1, <2>2 DEF Listening
  <2>9. Owed => Owed'
    BY <2>1, <2>8 DEF Owed
  <2>10. \A c \in DOMAIN conns' : conns'[c] # "up"
    BY <2>6
  <2>. QED  BY <1>1, <2>1, <2>2, <2>7, <2>9, <2>10 DEF WatchInv, Told
<1>5. CASE HandleNotification
  <2>1. /\ inflight > 0 /\ inflight' = inflight - 1
        /\ UNCHANGED <<conns, client, timer, everListened, hubOff, missed>>
        /\ watch' = IF hubOff THEN watch ELSE Woken(watch)
    BY <1>5 DEF HandleNotification, hubVars
  <2>2. inflight' \in Nat
    BY <1>1, <2>1
  <2>3. Watching(watch', hubOff) /\ Told(watch', status, Owed')
    <3>1. CASE hubOff
      BY <1>1, <2>1, <3>1 DEF Told, Owed
    <3>2. CASE ~hubOff
      BY <1>1, <2>1, <3>2, WokenTold
    <3>. QED  BY <3>1, <3>2
  <2>. QED  BY <1>1, <2>1, <2>2, <2>3 DEF WatchInv
<1>6. CASE DisposeHub
  <2>1. /\ hubOff' = TRUE /\ timer' = FALSE /\ client' = 0 /\ inflight' = 0
        /\ conns' = [c \in DOMAIN conns |-> IF c = client THEN "gone" ELSE conns[c]]
        /\ watch' = [watch EXCEPT !.subscribed = FALSE] /\ UNCHANGED <<everListened, missed>>
    BY <1>6 DEF DisposeHub
  <2>2. /\ conns' \in [1..n -> ConnState] /\ DOMAIN conns' = DOMAIN conns
        /\ \A c \in DOMAIN conns : conns'[c] \in {"gone", conns[c]} /\ conns'[c] \notin {"listening", "up"}
    BY <1>1, <1>2, <2>1 DEF Hub, ConnState
  <2>3. \A c, d \in DOMAIN conns' : conns'[c] # "gone" /\ conns'[d] # "gone" => c = d
    BY <1>1, <2>2 DEF Hub
  <2>4. Hub(conns', 0, FALSE, TRUE)
    BY <2>2, <2>3 DEF Hub
  <2>5. Watching(watch', TRUE) /\ Owed'
    BY <1>1, <2>1 DEF Watching, Watcher, Owed
  <2>6. \A c \in DOMAIN conns' : conns'[c] # "up"
    BY <2>2
  <2>7. 0 \in Nat
    OBVIOUS
  <2>. QED  BY <1>1, <2>1, <2>4, <2>5, <2>6, <2>7 DEF WatchInv, Told
<1>. QED  BY <1>3, <1>4, <1>5, <1>6
\* A status that changes is on its way, or is missed by a hub that does
\* not listen.
LEMMA ChangesKeep == WatchInv /\ StatusChanges => WatchInv'
<1>1. SUFFICES ASSUME WatchInv, StatusChanges  PROVE  WatchInv'
  OBVIOUS
<1>2. /\ inflight \in Nat /\ status \in Nat /\ Watching(watch, hubOff)
      /\ UNCHANGED <<conns, client, timer, everListened, hubOff, watch>>
  BY <1>1 DEF WatchInv, StatusChanges, hubVars
<1>3. status' \in Nat
  BY <1>1, <1>2 DEF StatusChanges
<1>4. CASE Listening /\ inflight' = inflight + 1 /\ UNCHANGED missed
  <2>1. inflight' \in Nat /\ inflight' > 0
    BY <1>2, <1>4
  <2>2. Owed'
    BY <2>1 DEF Owed
  <2>. QED  BY <1>1, <1>2, <1>3, <1>4, <2>1, <2>2 DEF WatchInv, Told
<1>5. CASE ~Listening /\ missed' = (IF everListened THEN "gap" ELSE "first") /\ UNCHANGED inflight
  <2>1. ~Listening'
    BY <1>2, <1>5 DEF Listening
  <2>2. Owed' /\ (missed' = "gap" => everListened)
    BY <1>5, <2>1 DEF Owed
  <2>. QED  BY <1>1, <1>2, <1>3, <1>5, <2>2 DEF WatchInv, Told
<1>. QED  BY <1>1, <1>4, <1>5 DEF StatusChanges

\* A step of the watcher, which leaves the hub alone.
WatcherStep ==
    \/ LoadRun \/ Subscribe \/ ReadAndYield \/ BeginWait \/ SleepEnds
    \/ AfterSleep \/ Peek \/ AfterDebounce \/ Abort

\* The watcher's steps.  It waits only once it is subscribed and has told
\* the status it read, or with a wake latched.
LEMMA WatcherKeeps == WatchInv /\ WatcherStep => WatchInv'
<1>1. SUFFICES ASSUME WatchInv, WatcherStep  PROVE  WatchInv'
  OBVIOUS
<1>2. /\ UNCHANGED <<status, conns, client, timer, everListened, hubOff, inflight, missed>>
      /\ Watching(watch, hubOff) /\ Told(watch, status, Owed) /\ status \in Nat /\ hubOff \in BOOLEAN
  BY <1>1 DEF WatchInv, Hub, WatcherStep, LoadRun, Subscribe, ReadAndYield, BeginWait, SleepEnds, AfterSleep,
     Peek, AfterDebounce, Abort, hubVars
<1>3. Owed' = Owed
  BY <1>2 DEF Owed, Listening
<1>4. ASSUME Watching(watch', hubOff), Told(watch', status, Owed)  PROVE  WatchInv'
  BY <1>1, <1>2, <1>3, <1>4 DEF WatchInv, Told
<1>. HIDE DEF Owed
<1>5. watch \in Watcher
  BY <1>2 DEF Watching
<1>6. CASE LoadRun
  <2> DEFINE pt == IF status = 0 THEN "done" ELSE "subscribe"
  <2>1. watch' = [watch EXCEPT !.pc = pt]
    BY <1>6 DEF LoadRun, Goes
  <2>2. pt \in {"done", "subscribe"}
    OBVIOUS
  <2>. HIDE DEF pt
  <2>3. watch' \in Watcher /\ watch'.pc = pt
    BY <1>5, <2>1, <2>2 DEF Watcher, WatchPoint
  <2>. QED  BY <1>4, <2>2, <2>3 DEF Watching, Told
<1>7. CASE Subscribe
  <2>1. watch' = [watch EXCEPT !.pc = "read", !.subscribed = ~hubOff]
    BY <1>7 DEF Subscribe
  <2>2. watch' \in Watcher /\ watch'.pc = "read" /\ watch'.subscribed = ~hubOff
    BY <1>2, <1>5, <2>1 DEF Watcher, WatchPoint
  <2>. QED  BY <1>2, <1>4, <2>2 DEF Watching, Told
<1>8. CASE ReadAndYield
  <2>1. CASE watch' = Finished(watch)
    <3>1. watch' \in Watcher /\ watch'.pc = "done"
      BY <1>5, <2>1 DEF Watcher, WatchPoint, Finished
    <3>. QED  BY <1>4, <3>1 DEF Watching, Told
  <2>2. CASE watch' = Finished([watch EXCEPT !.last = status])
    <3>1. watch' \in Watcher /\ watch'.pc = "done"
      BY <1>2, <1>5, <2>2 DEF Watcher, WatchPoint, Finished
    <3>. QED  BY <1>4, <3>1 DEF Watching, Told
  <2>3. CASE watch' = [[watch EXCEPT !.last = status] EXCEPT !.pc = "wait"]
    <3>1. watch' \in Watcher /\ watch'.pc = "wait" /\ watch'.last = status /\ watch'.subscribed = watch.subscribed
      BY <1>2, <1>5, <2>3 DEF Watcher, WatchPoint
    <3>2. watch.subscribed \/ hubOff
      BY <1>2, <1>8 DEF Watching, ReadAndYield
    <3>. QED  BY <1>4, <3>1, <3>2 DEF Watching, Told
  <2>. QED  BY <1>8, <2>1, <2>2, <2>3 DEF ReadAndYield
<1>9. CASE BeginWait
  <2>1. CASE watch.aborted
    <3>1. watch' \in Watcher /\ watch'.pc = "done"
      BY <1>5, <1>9, <2>1 DEF BeginWait, Watcher, WatchPoint, Finished
    <3>. QED  BY <1>4, <3>1 DEF Watching, Told
  <2>2. CASE ~watch.aborted
    <3> DEFINE pt == IF watch.pending THEN "awake" ELSE "sleep"
    <3>1. watch' = [watch EXCEPT !.pc = pt] /\ watch.pc = "wait"
      BY <1>9, <2>2 DEF BeginWait
    <3>2. pt \in {"awake", "sleep"} /\ (pt = "sleep" => ~watch.pending)
      OBVIOUS
    <3>. HIDE DEF pt
    <3>3. watch' \in Watcher /\ watch'.pc = pt /\ watch'.last = watch.last /\ watch'.subscribed = watch.subscribed
      BY <1>5, <3>1, <3>2 DEF Watcher, WatchPoint
    <3>. QED  BY <1>2, <1>4, <3>1, <3>2, <3>3 DEF Watching, Told
  <2>. QED  BY <2>1, <2>2
<1>10. ASSUME NEW pt \in {"read", "awake", "rested"}, watch' = [watch EXCEPT !.pc = pt],
              watch.pc \in {"sleep", "debounceSleep", "awake", "rested"}
       PROVE  WatchInv'
  <2>1. watch' \in Watcher /\ watch'.pc = pt /\ watch'.subscribed = watch.subscribed
    BY <1>5, <1>10 DEF Watcher, WatchPoint
  <2>. QED  BY <1>2, <1>4, <1>10, <2>1 DEF Watching, Told
<1>11. CASE SleepEnds
  BY <1>10, <1>11 DEF SleepEnds, Goes
<1>12. ASSUME watch' = Consumed(watch), watch.pc \in {"awake", "peek", "rested"}  PROVE  WatchInv'
  <2>1. watch' \in Watcher /\ watch'.pc = "read" /\ watch'.subscribed = watch.subscribed
    BY <1>5, <1>12 DEF Watcher, WatchPoint, Consumed
  <2>. QED  BY <1>2, <1>4, <1>12, <2>1 DEF Watching, Told
<1>13. CASE AfterSleep
  <2>1. CASE watch' = [watch EXCEPT !.pending = FALSE, !.pc = "peek", !.windows = @ + 1]
    <3> DEFINE k == watch.windows + 1
    <3>1. k \in Nat
      BY <1>5 DEF Watcher
    <3>2. watch' = [watch EXCEPT !.pending = FALSE, !.pc = "peek", !.windows = k]
      BY <1>5, <2>1 DEF Watcher
    <3>. HIDE DEF k
    <3>3. watch' \in Watcher /\ watch'.pc = "peek" /\ watch'.subscribed = watch.subscribed
      BY <1>5, <3>1, <3>2 DEF Watcher, WatchPoint
    <3>. QED  BY <1>2, <1>4, <1>13, <3>3 DEF Watching, Told, AfterSleep
  <2>2. watch.pc = "awake" /\ (watch' = [watch EXCEPT !.pc = "read"] \/ watch' = Consumed(watch)
            \/ watch' = [watch EXCEPT !.pending = FALSE, !.pc = "peek", !.windows = @ + 1])
    BY <1>13 DEF AfterSleep, Goes
  <2>. QED  BY <1>10, <1>12, <2>1, <2>2
<1>14. CASE Peek
  <2>1. CASE status # watch.last
    BY <1>12, <1>14, <2>1 DEF Peek
  <2>2. CASE status = watch.last
    <3> DEFINE pt == IF watch.pending THEN "rested" ELSE "debounceSleep"
    <3>1. watch' = [watch EXCEPT !.pc = pt] /\ watch.pc = "peek"
      BY <1>14, <2>2 DEF Peek
    <3>2. pt \in {"rested", "debounceSleep"}
      OBVIOUS
    <3>. HIDE DEF pt
    <3>3. watch' \in Watcher /\ watch'.pc = pt /\ watch'.last = watch.last /\ watch'.subscribed = watch.subscribed
      BY <1>5, <3>1, <3>2 DEF Watcher, WatchPoint
    <3>. QED  BY <1>2, <1>4, <2>2, <3>1, <3>2, <3>3 DEF Watching, Told
  <2>. QED  BY <2>1, <2>2
<1>15. CASE AfterDebounce
  BY <1>10, <1>12, <1>15 DEF AfterDebounce, Goes
<1>16. CASE Abort
  <2> DEFINE pt == CASE watch.pc = "sleep" -> "awake" [] watch.pc = "debounceSleep" -> "rested" [] OTHER -> watch.pc
  <2>1. watch' = [watch EXCEPT !.aborted = TRUE, !.pc = pt]
    BY <1>5, <1>16 DEF Abort, Watcher
  <2>2. /\ pt \in WatchPoint \ {"sleep", "debounceSleep"}
        /\ pt \in {"read", "wait", "awake", "peek", "rested"} =>
               watch.pc \in {"read", "wait", "sleep", "awake", "peek", "rested", "debounceSleep"}
        /\ pt = "wait" => watch.pc = "wait"
    BY <1>5 DEF Watcher, WatchPoint
  <2>. HIDE DEF pt
  <2>3. /\ watch' \in Watcher /\ watch'.pc = pt /\ watch'.subscribed = watch.subscribed
        /\ watch'.pending = watch.pending /\ watch'.last = watch.last
    BY <1>5, <2>1, <2>2 DEF Watcher
  <2>. QED  BY <1>2, <1>4, <2>2, <2>3 DEF Watching, Told
<1>. QED  BY <1>1, <1>6, <1>7, <1>8, <1>9, <1>11, <1>13, <1>14, <1>15, <1>16 DEF WatcherStep

\* A watched run is told: no watcher sleeps over a status it has not told
\* unless a notification or a pulse is on its way, and the hub always
\* listens, connects or has a reconnect scheduled, on one connection.
\* (watchRun, wake-events.ts)
THEOREM WatchersAreTold == WatchSpec => []WatchSound
<1>1. WatchInit => WatchInv
  <2>1. SUFFICES ASSUME WatchInit  PROVE  WatchInv
    OBVIOUS
  <2>2. conns = <<"connecting">> /\ conns \in [1..1 -> ConnState] /\ DOMAIN conns = {1} /\ conns[1] = "connecting"
    BY <2>1 DEF WatchInit, ConnState
  <2>3. Hub(conns, client, timer, hubOff)
    BY <2>1, <2>2 DEF WatchInit, Hub
  <2>4. Watching(watch, hubOff) /\ Told(watch, status, Owed)
    BY <2>1 DEF WatchInit, Watching, Told, Watcher, WatchPoint
  <2>5. inflight \in Nat /\ status \in Nat /\ everListened \in BOOLEAN /\ missed = "no"
    BY <2>1 DEF WatchInit
  <2>. QED  BY <2>2, <2>3, <2>4, <2>5 DEF WatchInv
<1>2. WatchInv /\ [WatchNext]_watchVars => WatchInv'
  <2>1. SUFFICES ASSUME WatchInv, [WatchNext]_watchVars  PROVE  WatchInv'
    OBVIOUS
  <2>2. CASE UNCHANGED watchVars
    BY <2>1, <2>2 DEF watchVars, WatchInv, Hub, Told, Watching, Owed, Listening
  <2>3. CASE WatchNext
    BY <2>1, <2>3, HubKeeps, WakesKeep, ChangesKeep, WatcherKeeps DEF WatchNext, WatcherStep
  <2>. QED  BY <2>1, <2>2, <2>3
<1>3. WatchInv => WatchSound
  <2>1. SUFFICES ASSUME WatchInv  PROVE  WatchSound
    OBVIOUS
  <2>2. AsleepIsUpToDate
    BY <2>1 DEF WatchInv, Told, Owed, AsleepIsUpToDate
  <2>3. ~hubOff => timer \/ \E c \in DOMAIN conns : conns[c] # "gone"
    BY <2>1 DEF WatchInv, Hub
  <2>4. Cardinality({c \in DOMAIN conns : conns[c] # "gone"}) <= 1
    <3> DEFINE L == {c \in DOMAIN conns : conns[c] # "gone"}
    <3>1. L = {} \/ \E c : L = {c}
      BY <2>1 DEF WatchInv, Hub
    <3>. HIDE DEF L
    <3>2. Cardinality(L) \in {0, 1}
      BY <3>1, FS_EmptySet, FS_Singleton
    <3>3. Cardinality(L) <= 1
      BY <3>2
    <3>. QED  BY <3>3 DEF L
  <2>. QED  BY <2>2, <2>3, <2>4 DEF WatchSound, HubRecovers
<1>. QED  BY <1>1, <1>2, <1>3, PTL DEF WatchSpec

-----------------------------------------------------------------------------
(* The schedules.                                                          *)

TakenSlot == [slot : Nat, now : Nat, wanted : BOOLEAN]
Reading == [name : Schedules, row : ScheduleRow, now : Nat]

SchedulerTyped ==
    /\ memory \in BOOLEAN /\ clock \in Nat
    /\ table \in [Schedules -> ScheduleRow \cup {NoSchedule}]
    /\ firing \in [Schedulers -> Seq(Reading)]
    /\ fired \in [Schedules -> Seq(TakenSlot)]
    /\ want \in [Schedules -> BOOLEAN]
    /\ enabledAt \in [Schedules -> Nat]
    /\ lastTrigger \in Int

\* A stored schedule is on as its last caller was told, its next slot is
\* later than all that was taken, and not before it was switched on.
OnTrack(row, f, w, e) ==
    /\ row = NoSchedule => f = <<>>
    /\ row # NoSchedule => /\ w = row.enabled
                           /\ \A i \in DOMAIN f : f[i].slot < row.next /\ f[i].now < row.next
                           /\ row.enabled => row.next >= e
    /\ \A i \in DOMAIN f : f[i].wanted
    /\ \A i, j \in DOMAIN f : i < j => f[j].slot > f[i].slot /\ f[j].slot > f[i].now

\* A row that a transaction of fireDue has read is locked: it is stored
\* still as it was read, and nobody else has read it.
ReadIsStored ==
    /\ \A p \in Schedulers : \A i \in DOMAIN firing[p] :
         LET b == firing[p][i]
         IN  table[b.name] = b.row /\ b.row.enabled /\ b.row.next <= b.now /\ b.now <= clock
    /\ \A p, q \in Schedulers : p # q =>
         \A i \in DOMAIN firing[p], j \in DOMAIN firing[q] : firing[p][i].name # firing[q][j].name

SchedulerInv ==
    /\ SchedulerTyped
    /\ \A s \in Schedules : enabledAt[s] <= clock
    /\ ~memory => ReadIsStored /\ \A s \in Schedules : OnTrack(table[s], fired[s], want[s], enabledAt[s])

\* The next slot of a schedule is in the future of a time that is not
\* before its present slot.
LEMMA NextSlotIsLater ==
    ASSUME NEW cadence \in Cadence, NEW now \in Nat, NEW base \in Nat
    PROVE  /\ NextScheduleRunAt(cadence, now, base) \in Nat
           /\ now >= base => NextScheduleRunAt(cadence, now, base) > now
<1>1. ASSUME NEW n \in Nat, NEW e \in Nat \ {0}
      PROVE  n \div e \in Nat /\ (n \div e + 1) * e \in Nat /\ (n \div e + 1) * e > n
  <2>1. n \div e \in Nat
    OBVIOUS
  <2>2. (n \div e + 1) * e > n
    OBVIOUS
  <2>. DEFINE k == n \div e
  <2>3. (k + 1) * e \in Nat
    <3>. HIDE DEF k
    <3>. QED  BY <2>1 DEF k
  <2>. QED  BY <2>1, <2>2, <2>3
<1>2. cadence.every \in Nat \ {0}
  BY DEF Cadence
<1>3. CASE cadence.cron
  BY <1>1, <1>2, <1>3 DEF NextScheduleRunAt
<1>4. CASE ~cadence.cron /\ now >= base
  <2>1. now - base \in Nat
    BY <1>4
  <2>2. NextScheduleRunAt(cadence, now, base) = base + ((now - base) \div cadence.every + 1) * cadence.every
    BY <1>4 DEF NextScheduleRunAt
  <2>. DEFINE x == ((now - base) \div cadence.every + 1) * cadence.every
  <2>3. x \in Nat /\ x > now - base
    BY <1>1, <1>2, <2>1
  <2>. HIDE DEF x
  <2>. QED  BY <2>2, <2>3 DEF x
<1>5. CASE ~cadence.cron /\ ~(now >= base)
  <2>1. NextScheduleRunAt(cadence, now, base) = base + (0 + 1) * cadence.every
    BY <1>5 DEF NextScheduleRunAt
  <2>. QED  BY <1>2, <1>5, <2>1
<1>. QED  BY <1>3, <1>4, <1>5

\* A call that changes one schedule that nobody is firing.
LEMMA EditKeeps ==
    ASSUME SchedulerInv, NEW s \in Schedules, ~Locked(s),
           NEW row \in ScheduleRow \cup {NoSchedule}, NEW f \in Seq(TakenSlot), NEW w \in BOOLEAN, NEW e \in Nat,
           e <= clock, ~memory => OnTrack(row, f, w, e),
           table' = [table EXCEPT ![s] = row], fired' = [fired EXCEPT ![s] = f],
           want' = [want EXCEPT ![s] = w], enabledAt' = [enabledAt EXCEPT ![s] = e],
           memory' = memory, clock' = clock, firing' = firing, lastTrigger' \in Int
    PROVE  SchedulerInv'
<1>1. SchedulerTyped'
  BY DEF SchedulerInv, SchedulerTyped
<1>2. \A t \in Schedules : enabledAt'[t] <= clock'
  BY DEF SchedulerInv, SchedulerTyped
<1>3. ASSUME ~memory, NEW t \in Schedules  PROVE  OnTrack(table'[t], fired'[t], want'[t], enabledAt'[t])
  <2>1. CASE t = s
    BY <1>3, <2>1 DEF SchedulerInv, SchedulerTyped
  <2>2. CASE t # s
    BY <1>3, <2>2 DEF SchedulerInv, SchedulerTyped
  <2>. QED  BY <2>1, <2>2
<1>4. ASSUME ~memory  PROVE  ReadIsStored'
  <2>1. ASSUME NEW p \in Schedulers, NEW i \in DOMAIN firing[p]
        PROVE  firing[p][i].name # s /\ table'[firing[p][i].name] = table[firing[p][i].name]
    <3>1. firing[p][i].name # s
      BY <1>4 DEF Locked
    <3>. QED  BY <3>1 DEF SchedulerInv, SchedulerTyped
  <2>. QED  BY <1>4, <2>1 DEF ReadIsStored, SchedulerInv
<1>. QED  BY <1>1, <1>2, <1>3, <1>4 DEF SchedulerInv

\* reconcile.
LEMMA ReconcileKeeps ==
    ASSUME SchedulerInv, NEW s \in Schedules, Reconcile(s)
    PROVE  SchedulerInv'
<1>1. /\ ~Locked(s) /\ memory' = memory /\ clock' = clock /\ firing' = firing /\ lastTrigger' \in Int
      /\ clock \in Nat /\ fired[s] \in Seq(TakenSlot) /\ want[s] \in BOOLEAN /\ enabledAt[s] \in Nat
      /\ enabledAt[s] <= clock /\ table[s] \in ScheduleRow \cup {NoSchedule}
  BY DEF Reconcile, SchedulerInv, SchedulerTyped
<1>2. ~memory => OnTrack(table[s], fired[s], want[s], enabledAt[s])
  BY DEF SchedulerInv
<1>3. CASE /\ table' = [table EXCEPT ![s] = NoSchedule] /\ fired' = [fired EXCEPT ![s] = <<>>]
           /\ UNCHANGED historyVars
  <2>1. want' = [want EXCEPT ![s] = want[s]] /\ enabledAt' = [enabledAt EXCEPT ![s] = enabledAt[s]]
    BY <1>3 DEF historyVars, SchedulerInv, SchedulerTyped
  <2>2. OnTrack(NoSchedule, <<>>, want[s], enabledAt[s])
    BY DEF OnTrack
  <2>3. <<>> \in Seq(TakenSlot)
    OBVIOUS
  <2>. QED  BY <1>1, <1>3, <2>1, <2>2, <2>3, EditKeeps
<1>4. ASSUME NEW d \in Definitions, table' = [table EXCEPT ![s] = Upserted(s, Normalized(d))],
             fired' = [fired EXCEPT ![s] = IF Resets(s, Normalized(d)) THEN <<>> ELSE @],
             want' = [want EXCEPT ![s] = d.enabled], SwitchedOn(s, d.enabled)
      PROVE  SchedulerInv'
  <2>. DEFINE entry == Normalized(d)
              row == Upserted(s, entry)
              f == IF Resets(s, entry) THEN <<>> ELSE fired[s]
              e == IF d.enabled /\ (table[s] # NoSchedule => ~table[s].enabled) THEN clock ELSE enabledAt[s]
  <2>1. /\ entry \in ScheduleRow /\ entry.next >= clock /\ entry.enabled = d.enabled
        /\ d.enabled \in BOOLEAN
    <3>1. d.cadence \in Cadence /\ d.enabled \in BOOLEAN /\ d.immediately \in BOOLEAN
      BY SchedulerAssumption
    <3>2. /\ NextScheduleRunAt(d.cadence, clock, clock) \in Nat
          /\ NextScheduleRunAt(d.cadence, clock, clock) > clock
      <4>1. clock \in Nat /\ clock >= clock
        BY <1>1
      <4>. QED  BY <3>1, <4>1, NextSlotIsLater
    <3>. QED  BY <1>1, <3>1, <3>2 DEF Normalized, ScheduleRow
  <2>. HIDE DEF entry
  <2>2. /\ row \in ScheduleRow /\ row.enabled = d.enabled
        /\ row.next = IF Resets(s, entry) THEN entry.next ELSE table[s].next
    <3>1. CASE table[s] = NoSchedule
      BY <2>1, <3>1 DEF Upserted, Resets
    <3>2. CASE table[s] # NoSchedule
      <4>1. table[s] \in ScheduleRow
        BY <1>1, <3>2
      <4>. QED  BY <2>1, <3>2, <4>1 DEF Upserted, ScheduleRow
    <3>. QED  BY <3>1, <3>2
  <2>3. f \in Seq(TakenSlot) /\ e \in Nat /\ e <= clock
    BY <1>1
  <2>4. row # NoSchedule
    BY <2>2, SchedulerAssumption
  <2>5. row.next \in Nat /\ entry.next \in Nat
    BY <2>1, <2>2 DEF ScheduleRow
  <2>. HIDE DEF row
  <2>6. ASSUME ~memory  PROVE  OnTrack(row, f, d.enabled, e)
    <3>1. CASE Resets(s, entry)
      BY <1>1, <2>1, <2>2, <2>3, <2>4, <2>5, <3>1 DEF OnTrack
    <3>2. CASE ~Resets(s, entry)
      <4>1. table[s] # NoSchedule /\ table[s] \in ScheduleRow /\ row.next = table[s].next /\ f = fired[s]
        BY <1>1, <2>2, <3>2 DEF Resets
      <4>2. ~table[s].enabled /\ d.enabled => table[s].next > clock
        BY <1>1, <2>1, <3>2, <4>1 DEF Resets, ScheduleRow
      <4>3. d.enabled => row.next >= e
        BY <1>1, <1>2, <2>6, <4>1, <4>2 DEF OnTrack, ScheduleRow
      <4>. QED  BY <1>2, <2>2, <2>4, <2>6, <4>1, <4>3 DEF OnTrack
    <3>. QED  BY <3>1, <3>2
  <2>7. fired' = [fired EXCEPT ![s] = f] /\ enabledAt' = [enabledAt EXCEPT ![s] = e] /\ table' = [table EXCEPT ![s] = row]
    <3>1. table' = [table EXCEPT ![s] = row]
      BY <1>4 DEF row, entry
    <3>2. fired' = [fired EXCEPT ![s] = f]
      BY <1>4 DEF entry
    <3>3. enabledAt' = [enabledAt EXCEPT ![s] = e]
      BY <1>4 DEF SwitchedOn
    <3>. QED  BY <3>1, <3>2, <3>3
  <2>8. row \in ScheduleRow \cup {NoSchedule}
    BY <2>2
  <2>. HIDE DEF f, e
  <2>9. want' = [want EXCEPT ![s] = d.enabled] /\ d.enabled \in BOOLEAN
    BY <1>4, <2>1
  <2>. QED  BY <1>1, <2>3, <2>6, <2>7, <2>8, <2>9, EditKeeps
<1>. QED  BY <1>3, <1>4 DEF Reconcile

\* setEnabled and trigger.
LEMMA SwitchKeeps ==
    ASSUME SchedulerInv, NEW s \in Schedules, Trigger(s) \/ \E on \in BOOLEAN : SetEnabled(s, on)
    PROVE  SchedulerInv'
<1>1. /\ ~Locked(s) /\ table[s] # NoSchedule /\ memory' = memory /\ clock' = clock /\ firing' = firing /\ fired' = fired
      /\ clock \in Nat /\ fired[s] \in Seq(TakenSlot) /\ want[s] \in BOOLEAN /\ enabledAt[s] \in Nat
      /\ enabledAt[s] <= clock /\ table[s] \in ScheduleRow
  BY DEF Trigger, SetEnabled, SchedulerInv, SchedulerTyped
<1>2. ~memory => OnTrack(table[s], fired[s], want[s], enabledAt[s])
  BY DEF SchedulerInv
<1>3. fired' = [fired EXCEPT ![s] = fired[s]]
  BY <1>1 DEF SchedulerInv, SchedulerTyped
<1>4. CASE Trigger(s)
  <2>1. /\ want' = [want EXCEPT ![s] = want[s]] /\ enabledAt' = [enabledAt EXCEPT ![s] = enabledAt[s]]
        /\ TriggerSlot \in Int /\ lastTrigger' \in Int
    BY <1>4 DEF Trigger, historyVars, TriggerSlot, SchedulerInv, SchedulerTyped
  <2>2. PICK row \in ScheduleRow :
          /\ table' = [table EXCEPT ![s] = row]
          /\ row.enabled = table[s].enabled /\ row.next = table[s].next
    <3>1. CASE table' = table
      <4>1. table' = [table EXCEPT ![s] = table[s]]
        BY <3>1 DEF SchedulerInv, SchedulerTyped
      <4>. QED  BY <1>1, <4>1
    <3>2. CASE table' = [table EXCEPT ![s].last = TriggerSlot]
      <4>. DEFINE row == [table[s] EXCEPT !.last = TriggerSlot]
      <4>1. row \in ScheduleRow /\ row.enabled = table[s].enabled /\ row.next = table[s].next
        BY <1>1, <2>1 DEF ScheduleRow
      <4>2. table' = [table EXCEPT ![s] = row]
        BY <3>2
      <4>. QED  BY <4>1, <4>2
    <3>. QED  BY <1>4, <3>1, <3>2 DEF Trigger
  <2>3. ~memory => OnTrack(row, fired[s], want[s], enabledAt[s])
    <3>1. row # NoSchedule
      BY <2>2, SchedulerAssumption
    <3>. QED  BY <1>1, <1>2, <2>2, <3>1 DEF OnTrack
  <2>. QED  BY <1>1, <1>3, <2>1, <2>2, <2>3, EditKeeps
<1>5. ASSUME NEW on \in BOOLEAN, SetEnabled(s, on)  PROVE  SchedulerInv'
  <2>. DEFINE row == [table[s] EXCEPT !.enabled = on, !.next = NextOnSwitch(table[s], on)]
              e == IF on /\ (table[s] # NoSchedule => ~table[s].enabled) THEN clock ELSE enabledAt[s]
  <2>1. table[s].cadence \in Cadence /\ table[s].next \in Nat /\ table[s].enabled \in BOOLEAN
    BY <1>1 DEF ScheduleRow
  <2>0. clock \in Nat /\ enabledAt[s] \in Nat /\ enabledAt[s] <= clock
    BY <1>1
  <2>2. /\ NextOnSwitch(table[s], on) \in Nat /\ NextOnSwitch(table[s], on) >= table[s].next
        /\ on /\ ~table[s].enabled => NextOnSwitch(table[s], on) > clock
    <3>. DEFINE later == NextScheduleRunAt(table[s].cadence, clock, table[s].next)
    <3>1. later \in Nat /\ (clock >= table[s].next => later > clock)
      BY <1>1, <2>1, NextSlotIsLater
    <3>2. CASE on /\ ~table[s].enabled /\ table[s].next <= clock
      <4>1. NextOnSwitch(table[s], on) = later
        BY <3>2 DEF NextOnSwitch
      <4>. HIDE DEF later
      <4>2. later \in Nat /\ later > clock /\ later >= table[s].next
        BY <2>0, <2>1, <3>1, <3>2
      <4>. QED  BY <4>1, <4>2
    <3>3. CASE ~(on /\ ~table[s].enabled /\ table[s].next <= clock)
      <4>1. NextOnSwitch(table[s], on) = table[s].next
        BY <3>3 DEF NextOnSwitch
      <4>. QED  BY <1>1, <2>1, <3>3, <4>1
    <3>. QED  BY <3>2, <3>3
  <2>3. row \in ScheduleRow /\ row.enabled = on /\ row.next = NextOnSwitch(table[s], on)
    BY <1>1, <2>2 DEF ScheduleRow
  <2>4. e \in Nat /\ e <= clock
    BY <1>1
  <2>5. row # NoSchedule
    BY <2>3, SchedulerAssumption
  <2>6. table' = [table EXCEPT ![s] = row] /\ want' = [want EXCEPT ![s] = on] /\ enabledAt' = [enabledAt EXCEPT ![s] = e]
    BY <1>5 DEF SetEnabled, SwitchedOn
  <2>7. lastTrigger' \in Int
    BY <1>5 DEF SetEnabled, SchedulerInv, SchedulerTyped
  <2>. HIDE DEF row
  <2>8. ASSUME ~memory  PROVE  OnTrack(row, fired[s], on, e)
    <3>1. ASSUME on  PROVE  row.next >= e
      <4>1. CASE table[s].enabled
        <5>1. table[s].next >= enabledAt[s]
          BY <1>1, <1>2, <2>8, <4>1 DEF OnTrack
        <5>2. e = enabledAt[s]
          BY <1>1, <4>1
        <5>. HIDE DEF e
        <5>. QED  BY <2>0, <2>1, <2>2, <2>3, <5>1, <5>2
      <4>2. CASE ~table[s].enabled
        <5>1. e = clock
          BY <3>1, <4>2
        <5>2. NextOnSwitch(table[s], on) > clock
          BY <2>2, <3>1, <4>2
        <5>. HIDE DEF e
        <5>. QED  BY <2>0, <2>2, <2>3, <5>1, <5>2
      <4>. QED  BY <4>1, <4>2
    <3>2. \A i \in DOMAIN fired[s] : fired[s][i].slot < row.next /\ fired[s][i].now < row.next
      <4>1. \A i \in DOMAIN fired[s] : fired[s][i].slot \in Nat /\ fired[s][i].now \in Nat
        <5>1. \A i \in DOMAIN fired[s] : fired[s][i] \in TakenSlot
          BY <1>1
        <5>. QED  BY <5>1 DEF TakenSlot
      <4>. QED  BY <1>1, <1>2, <2>1, <2>2, <2>3, <2>8, <4>1 DEF OnTrack
    <3>. QED  BY <1>1, <1>2, <2>3, <2>5, <2>8, <3>1, <3>2 DEF OnTrack
  <2>. HIDE DEF e
  <2>9. row \in ScheduleRow \cup {NoSchedule}
    BY <2>3
  <2>. QED  BY <1>1, <1>3, <2>4, <2>6, <2>7, <2>8, <2>9, EditKeeps
<1>. QED  BY <1>4, <1>5

\* fireDue begins: it reads, and locks, rows that are due.
LEMMA FireDueKeeps ==
    ASSUME SchedulerInv, NEW p \in Schedulers, FireDue(p)
    PROVE  SchedulerInv'
<1>. DEFINE due == {s \in Schedules : Due(s) /\ ~Locked(s)}
            Batch(q) == [i \in DOMAIN q |-> [name |-> q[i], row |-> table[q[i]], now |-> clock]]
<1>1. PICK q \in ByDueDate(due) : firing' = [firing EXCEPT ![p] = Batch(q)]
  BY DEF FireDue
<1>2. /\ UNCHANGED <<memory, clock, table, fired, want, enabledAt, lastTrigger>>
      /\ clock \in Nat /\ table \in [Schedules -> ScheduleRow \cup {NoSchedule}]
      /\ firing \in [Schedulers -> Seq(Reading)]
  BY DEF FireDue, historyVars, SchedulerInv, SchedulerTyped
<1>3. PICK n \in Nat : q \in [1..n -> due]
  <2>1. q \in [1..Cardinality(due) -> due]
    BY DEF ByDueDate
  <2>2. IsFiniteSet(due)
    BY FS_Subset, SchedulerAssumption
  <2>. HIDE DEF due
  <2>3. Cardinality(due) \in Nat
    BY <2>2, FS_CardinalityType
  <2>. QED  BY <2>1, <2>3
<1>4. DOMAIN Batch(q) = 1..n
  BY <1>3
<1>5. ASSUME NEW i \in 1..n
      PROVE  /\ Batch(q)[i] \in Reading /\ Batch(q)[i].name = q[i] /\ q[i] \in due
             /\ Batch(q)[i].row = table[q[i]] /\ Batch(q)[i].now = clock
  <2>1. q[i] \in due
    BY <1>3
  <2>2. table[q[i]] \in ScheduleRow /\ q[i] \in Schedules
    BY <1>2, <2>1 DEF Due
  <2>3. Batch(q)[i] = [name |-> q[i], row |-> table[q[i]], now |-> clock]
    BY <1>3
  <2>. QED  BY <1>2, <2>1, <2>2, <2>3 DEF Reading
<1>6. Batch(q) \in Seq(Reading)
  <2>. HIDE DEF Batch
  <2>1. Batch(q) \in [1..n -> Reading]
    <3>1. Batch(q) = [i \in DOMAIN Batch(q) |-> Batch(q)[i]]
      BY DEF Batch
    <3>. QED  BY <1>4, <1>5, <3>1
  <2>. QED  BY <2>1
<1>. DEFINE b == Batch(q)
<1>7. /\ b \in Seq(Reading) /\ DOMAIN b = 1..n /\ firing' = [firing EXCEPT ![p] = b]
      /\ \A i \in 1..n : b[i].name \in due /\ b[i].row = table[b[i].name] /\ b[i].now = clock
  BY <1>1, <1>4, <1>5, <1>6
<1>. HIDE DEF b, Batch
<1>8. SchedulerTyped'
  BY <1>2, <1>7 DEF SchedulerInv, SchedulerTyped
<1>9. ASSUME ~memory  PROVE  ReadIsStored'
  <2>1. ReadIsStored
    BY <1>9 DEF SchedulerInv
  <2>2. firing'[p] = b /\ \A r \in Schedulers \ {p} : firing'[r] = firing[r]
    BY <1>2, <1>7
  <2>3. ASSUME NEW i \in DOMAIN b
        PROVE  /\ table[b[i].name] = b[i].row /\ b[i].row.enabled /\ b[i].row.next <= b[i].now /\ b[i].now <= clock
               /\ \A r \in Schedulers : \A j \in DOMAIN firing[r] : firing[r][j].name # b[i].name
    <3>1. Due(b[i].name) /\ ~Locked(b[i].name) /\ b[i].row = table[b[i].name] /\ b[i].now = clock
      BY <1>7, <2>3
    <3>. QED  BY <1>2, <1>9, <3>1 DEF Due, Locked
  <2>4. ASSUME NEW r \in Schedulers, NEW i \in DOMAIN firing'[r]
        PROVE  LET x == firing'[r][i]
               IN  table'[x.name] = x.row /\ x.row.enabled /\ x.row.next <= x.now /\ x.now <= clock'
    <3>1. CASE r = p
      BY <1>2, <2>2, <2>3, <2>4, <3>1
    <3>2. CASE r # p
      BY <1>2, <2>1, <2>2, <2>4, <3>2 DEF ReadIsStored
    <3>. QED  BY <3>1, <3>2
  <2>5. ASSUME NEW r \in Schedulers, NEW t \in Schedulers, r # t,
               NEW i \in DOMAIN firing'[r], NEW j \in DOMAIN firing'[t]
        PROVE  firing'[r][i].name # firing'[t][j].name
    <3>1. CASE r = p
      BY <2>2, <2>3, <2>5, <3>1
    <3>2. CASE t = p
      BY <2>2, <2>3, <2>5, <3>2
    <3>3. CASE r # p /\ t # p
      BY <2>1, <2>2, <2>5, <3>3 DEF ReadIsStored
    <3>. QED  BY <3>1, <3>2, <3>3
  <2>. QED  BY <2>4, <2>5 DEF ReadIsStored
<1>. QED  BY <1>2, <1>8, <1>9 DEF SchedulerInv

\* The update of a fired row.
Moved(row, slot, next) == [row EXCEPT !.last = slot, !.next = next]

\* It stays a row, with its next slot set and as enabled as it was.
LEMMA MovedOn ==
    ASSUME NEW row \in ScheduleRow, NEW slot \in Int, NEW next \in Nat
    PROVE  /\ Moved(row, slot, next) \in ScheduleRow
           /\ Moved(row, slot, next).next = next
           /\ Moved(row, slot, next).enabled = row.enabled
  BY DEF ScheduleRow, Moved

\* A row that was due is fired: its next slot is later than the time at
\* which it was read, and than the slot taken.
LEMMA FiredIsLater ==
    ASSUME NEW b \in Reading
    PROVE  /\ FiredRow(b.row, b.now) \in ScheduleRow
           /\ b.row.next <= b.now => FiredRow(b.row, b.now).next > b.now
<1>1. b.row \in ScheduleRow /\ b.now \in Nat
  BY DEF Reading
<1>2. b.row.cadence \in Cadence /\ b.row.next \in Nat
  BY <1>1 DEF ScheduleRow
<1>. DEFINE later == NextScheduleRunAt(b.row.cadence, b.now, b.row.next)
<1>3. later \in Nat /\ (b.now >= b.row.next => later > b.now)
  BY <1>1, <1>2, NextSlotIsLater
<1>4. FiredRow(b.row, b.now) = Moved(b.row, b.row.next, later)
  BY DEF FiredRow, Moved
<1>. HIDE DEF later
<1>5. FiredRow(b.row, b.now) \in ScheduleRow /\ FiredRow(b.row, b.now).next = later
  <2>1. b.row.next \in Int
    BY <1>2
  <2>. QED  BY <1>1, <1>3, <1>4, <2>1, MovedOn
<1>. QED  BY <1>1, <1>2, <1>3, <1>5

\* A slot that is taken follows those taken before it.
LEMMA TakenFollows ==
    ASSUME NEW row \in ScheduleRow, NEW f \in Seq(TakenSlot), NEW w, NEW e \in Nat, OnTrack(row, f, w, e),
           row.enabled, NEW now \in Nat, row.next <= now, NEW x \in TakenSlot,
           x.slot = row.next, x.now = now, x.wanted = w,
           NEW to \in ScheduleRow, to.enabled = row.enabled, to.next > now
    PROVE  OnTrack(to, Append(f, x), w, e)
<1>1. row # NoSchedule /\ to # NoSchedule
  BY SchedulerAssumption
<1>2. row.next \in Nat /\ to.next \in Nat /\ to.next > row.next
  BY DEF ScheduleRow
<1>3. DOMAIN f = 1..Len(f) /\ Len(f) \in Nat /\ \A i \in 1..Len(f) : f[i] \in TakenSlot
  OBVIOUS
<1>. DEFINE g == Append(f, x)
            n == Len(f)
<1>4. DOMAIN g = 1..(n + 1) /\ g[n + 1] = x /\ \A i \in 1..n : g[i] = f[i]
  OBVIOUS
<1>. HIDE DEF g
<1>5. \A i \in 1..n : /\ f[i].slot \in Nat /\ f[i].now \in Nat /\ f[i].wanted
                      /\ f[i].slot < row.next /\ f[i].now < row.next
  BY <1>1, <1>3 DEF OnTrack, TakenSlot
<1>6. w
  BY <1>1 DEF OnTrack
<1>7. \A i \in 1..n : /\ g[i].slot \in Nat /\ g[i].now \in Nat /\ g[i].wanted
                      /\ g[i].slot < row.next /\ g[i].now < row.next
  BY <1>4, <1>5
<1>8. \A i \in DOMAIN g : i \in 1..n \/ i = n + 1
  BY <1>3, <1>4
<1>9. \A i \in DOMAIN g : g[i].wanted /\ g[i].slot < to.next /\ g[i].now < to.next
  <2>1. ASSUME NEW i \in 1..n  PROVE  g[i].wanted /\ g[i].slot < to.next /\ g[i].now < to.next
    BY <1>2, <1>7
  <2>2. x.slot < to.next /\ x.now < to.next
    BY <1>2
  <2>3. x.wanted
    BY <1>6
  <2>. QED  BY <1>4, <1>8, <2>1, <2>2, <2>3
<1>10. ASSUME NEW i \in DOMAIN g, NEW j \in DOMAIN g, i < j
       PROVE  g[j].slot > g[i].slot /\ g[j].slot > g[i].now
  <2>1. CASE j = n + 1
    BY <1>2, <1>3, <1>4, <1>7, <1>8, <1>10, <2>1
  <2>2. CASE j \in 1..n
    <3>1. i \in 1..n
      BY <1>3, <1>4, <1>10, <2>2
    <3>. QED  BY <1>3, <1>4, <1>10, <2>2, <3>1 DEF OnTrack
  <2>. QED  BY <1>8, <2>1, <2>2
<1>11. to.next >= e /\ w = to.enabled
  BY <1>1, <1>2 DEF OnTrack
<1>12. OnTrack(to, g, w, e)
  BY <1>1, <1>9, <1>10, <1>11 DEF OnTrack
<1>. QED  BY <1>12 DEF g

\* The rest of fireDue.
LEMMA FiringKeeps ==
    ASSUME SchedulerInv, NEW p \in Schedulers, FireCommit(p) \/ MemFire(p) \/ FireCrash(p)
    PROVE  SchedulerInv'
<1>1. /\ UNCHANGED <<memory, clock, want, enabledAt, lastTrigger>> /\ clock \in Nat /\ memory \in BOOLEAN
      /\ table \in [Schedules -> ScheduleRow \cup {NoSchedule}] /\ firing \in [Schedulers -> Seq(Reading)]
      /\ fired \in [Schedules -> Seq(TakenSlot)] /\ want \in [Schedules -> BOOLEAN]
      /\ enabledAt \in [Schedules -> Nat]
  BY DEF FireCommit, MemFire, FireCrash, historyVars, SchedulerInv, SchedulerTyped
<1>2. firing[p] \in Seq(Reading) /\ \A i \in DOMAIN firing[p] : firing[p][i] \in Reading
  BY <1>1
<1>3. ASSUME NEW b \in Reading
      PROVE  /\ Taken(b) \in TakenSlot /\ Taken(b).slot = b.row.next /\ Taken(b).now = b.now
             /\ Taken(b).wanted = want[b.name]
  <2>1. b.row.next \in Nat /\ b.now \in Nat /\ want[b.name] \in BOOLEAN
    BY <1>1 DEF Reading, ScheduleRow
  <2>. QED  BY <2>1 DEF Taken, TakenSlot
<1>4. ASSUME firing' = [firing EXCEPT ![p] = <<>>], UNCHANGED <<table, fired>>
      PROVE  SchedulerInv'
  <2>1. SchedulerTyped'
    BY <1>1, <1>4 DEF SchedulerInv, SchedulerTyped
  <2>2. ASSUME ~memory  PROVE  ReadIsStored'
    <3>1. ReadIsStored
      BY <2>2 DEF SchedulerInv
    <3>2. firing'[p] = <<>> /\ \A r \in Schedulers \ {p} : firing'[r] = firing[r]
      BY <1>1, <1>4
    <3>. QED  BY <1>1, <1>4, <3>1, <3>2 DEF ReadIsStored
  <2>. QED  BY <1>1, <1>4, <2>1, <2>2 DEF SchedulerInv
<1>5. CASE MemFire(p)
  <2>. DEFINE b == Head(firing[p])
  <2>1. memory /\ firing[p] # <<>>
    BY <1>5 DEF MemFire
  <2>2. b \in Reading /\ b.name \in Schedules /\ Tail(firing[p]) \in Seq(Reading)
    <3>1. b \in Reading /\ Tail(firing[p]) \in Seq(Reading)
      BY <1>2, <2>1
    <3>. QED  BY <3>1 DEF Reading
  <2>3. ASSUME firing' = [firing EXCEPT ![p] = Tail(@)],
               table' = [table EXCEPT ![b.name] = FiredRow(b.row, b.now)],
               fired' = [fired EXCEPT ![b.name] = Append(@, Taken(b))]
        PROVE  SchedulerInv'
    <3>1. FiredRow(b.row, b.now) \in ScheduleRow /\ Taken(b) \in TakenSlot
      BY <1>3, <2>2, FiredIsLater
    <3>2. Append(fired[b.name], Taken(b)) \in Seq(TakenSlot)
      BY <1>1, <2>2, <3>1
    <3>. HIDE DEF b
    <3>3. table' \in [Schedules -> ScheduleRow \cup {NoSchedule}]
      BY <1>1, <2>2, <2>3, <3>1
    <3>4. fired' \in [Schedules -> Seq(TakenSlot)]
      BY <1>1, <2>2, <2>3, <3>2
    <3>5. firing' \in [Schedulers -> Seq(Reading)]
      BY <1>1, <2>2, <2>3 DEF b
    <3>. QED  BY <1>1, <2>1, <3>3, <3>4, <3>5 DEF SchedulerInv, SchedulerTyped
  <2>. QED  BY <1>4, <1>5, <2>3 DEF MemFire
<1>6. CASE FireCommit(p)
  <2>. DEFINE batch == {firing[p][i] : i \in DOMAIN firing[p]}
              The(s) == CHOOSE x \in batch : x.name = s
  <2>1. ~memory /\ firing' = [firing EXCEPT ![p] = <<>>] /\ ReadIsStored
    BY <1>6 DEF FireCommit, SchedulerInv
  <2>2. ASSUME table' = [s \in Schedules |->
                 IF table[s] # NoSchedule /\ \E b \in batch : b.name = s
                 THEN LET b == CHOOSE x \in batch : x.name = s
                      IN  [table[s] EXCEPT !.last = b.row.next, !.next = FiredRow(b.row, b.now).next]
                 ELSE table[s]],
               fired' = [s \in Schedules |->
                 IF \E b \in batch : b.name = s
                 THEN Append(fired[s], Taken(CHOOSE x \in batch : x.name = s)) ELSE fired[s]]
        PROVE  SchedulerInv'
    <3>1. ASSUME NEW s \in Schedules, \E b \in batch : b.name = s
          PROVE  /\ The(s) \in Reading /\ The(s).name = s
                 /\ table[s] = The(s).row /\ The(s).row.enabled /\ The(s).row.next <= The(s).now
      <4>1. PICK i \in DOMAIN firing[p] : The(s) = firing[p][i] /\ The(s).name = s
        BY <3>1
      <4>2. firing[p][i] \in Reading
        BY <1>2, <4>1
      <4>3. LET x == firing[p][i] IN table[x.name] = x.row /\ x.row.enabled /\ x.row.next <= x.now
        BY <2>1, <4>1 DEF ReadIsStored
      <4>. QED  BY <4>1, <4>2, <4>3
    <3>. HIDE DEF batch
    <3>2. ASSUME NEW s \in Schedules, \E b \in batch : b.name = s
          PROVE  /\ table'[s] \in ScheduleRow /\ fired'[s] \in Seq(TakenSlot)
                 /\ OnTrack(table'[s], fired'[s], want[s], enabledAt[s])
      <4>. DEFINE b == The(s)
                  to == Moved(table[s], b.row.next, FiredRow(b.row, b.now).next)
      <4>1. /\ b \in Reading /\ b.name = s /\ table[s] = b.row /\ b.row.enabled /\ b.row.next <= b.now
            /\ b.row \in ScheduleRow /\ b.now \in Nat
        BY <3>1, <3>2 DEF Reading
      <4>2. table[s] # NoSchedule
        BY <4>1, SchedulerAssumption
      <4>3. table'[s] = to /\ fired'[s] = Append(fired[s], Taken(b))
        BY <2>2, <3>2, <4>2 DEF Moved
      <4>4. Taken(b) \in TakenSlot /\ Taken(b).slot = b.row.next /\ Taken(b).now = b.now /\ Taken(b).wanted = want[s]
        BY <1>3, <4>1
      <4>. HIDE DEF b
      <4>5. b.row.next \in Int /\ FiredRow(b.row, b.now).next \in Nat /\ FiredRow(b.row, b.now).next > b.now
        BY <4>1, FiredIsLater DEF ScheduleRow
      <4>6. to \in ScheduleRow /\ to.enabled = table[s].enabled /\ to.next = FiredRow(b.row, b.now).next
        BY <4>1, <4>5, MovedOn
      <4>7. OnTrack(table[s], fired[s], want[s], enabledAt[s]) /\ fired[s] \in Seq(TakenSlot) /\ enabledAt[s] \in Nat
        BY <1>1, <2>1 DEF SchedulerInv
      <4>. HIDE DEF to
      <4>8. OnTrack(to, Append(fired[s], Taken(b)), want[s], enabledAt[s])
        BY <4>1, <4>4, <4>5, <4>6, <4>7, TakenFollows
      <4>9. Append(fired[s], Taken(b)) \in Seq(TakenSlot)
        BY <4>4, <4>7
      <4>. QED  BY <4>3, <4>6, <4>8, <4>9
    <3>3. ASSUME NEW s \in Schedules, ~\E b \in batch : b.name = s
          PROVE  /\ table'[s] = table[s] /\ fired'[s] = fired[s]
                 /\ OnTrack(table'[s], fired'[s], want[s], enabledAt[s])
      BY <2>1, <2>2, <3>3 DEF SchedulerInv
    <3>4. /\ table' \in [Schedules -> ScheduleRow \cup {NoSchedule}]
          /\ fired' \in [Schedules -> Seq(TakenSlot)]
      <4>1. \A s \in Schedules : table'[s] \in ScheduleRow \cup {NoSchedule} /\ fired'[s] \in Seq(TakenSlot)
        BY <1>1, <3>2, <3>3
      <4>2. table' = [s \in Schedules |-> table'[s]] /\ fired' = [s \in Schedules |-> fired'[s]]
        BY <2>2
      <4>. QED  BY <4>1, <4>2
    <3>5. SchedulerTyped'
      BY <1>1, <2>1, <3>4 DEF SchedulerInv, SchedulerTyped
    <3>6. ReadIsStored'
      <4>1. firing'[p] = <<>> /\ \A r \in Schedulers \ {p} : firing'[r] = firing[r]
        BY <1>1, <2>1
      <4>2. ASSUME NEW r \in Schedulers \ {p}, NEW i \in DOMAIN firing[r]
            PROVE  table'[firing[r][i].name] = table[firing[r][i].name]
        <5>1. firing[r][i] \in Reading /\ firing[r][i].name \in Schedules
          <6>1. firing[r] \in Seq(Reading)
            BY <1>1
          <6>2. firing[r][i] \in Reading
            BY <6>1, <4>2
          <6>. QED  BY <6>2 DEF Reading
        <5>2. ~\E b \in batch : b.name = firing[r][i].name
          BY <2>1 DEF ReadIsStored, batch
        <5>. QED  BY <3>3, <5>1, <5>2
      <4>. QED  BY <1>1, <2>1, <4>1, <4>2 DEF ReadIsStored
    <3>. QED  BY <1>1, <2>1, <3>2, <3>3, <3>5, <3>6 DEF SchedulerInv
  <2>. QED  BY <1>4, <1>6, <2>2 DEF FireCommit
<1>. QED  BY <1>4, <1>5, <1>6 DEF FireCrash

\* On Postgres a schedule fires each slot at most once, in order and only
\* while it is wanted, and owes nothing for the time it was off: for any
\* number of schedules and schedulers, any definitions and any calls
\* (nextScheduleRunAt; the row locks of fireDue).
THEOREM SlotsFireOnce == SchedulerSpec => []ScheduleSound
<1>1. SchedulerInit => SchedulerInv
  <2>1. SUFFICES ASSUME SchedulerInit  PROVE  SchedulerInv
    OBVIOUS
  <2>2. <<>> \in Seq(Reading) /\ <<>> \in Seq(TakenSlot)
    OBVIOUS
  <2>3. SchedulerTyped
    BY <2>1, <2>2 DEF SchedulerInit, SchedulerTyped
  <2>4. ReadIsStored
    BY <2>1 DEF SchedulerInit, ReadIsStored
  <2>5. ASSUME NEW s \in Schedules
        PROVE  OnTrack(table[s], fired[s], want[s], enabledAt[s]) /\ enabledAt[s] <= clock
    BY <2>1 DEF SchedulerInit, OnTrack
  <2>. QED  BY <2>3, <2>4, <2>5 DEF SchedulerInv
<1>2. SchedulerInv /\ [SchedulerNext]_schedulerVars => SchedulerInv'
  <2>1. SUFFICES ASSUME SchedulerInv, [SchedulerNext]_schedulerVars  PROVE  SchedulerInv'
    OBVIOUS
  <2>2. CASE UNCHANGED schedulerVars
    BY <2>1, <2>2 DEF schedulerVars, SchedulerInv, SchedulerTyped, ReadIsStored
  <2>3. CASE Passes
    <3>1. clock \in Nat /\ clock' = clock + 1
          /\ UNCHANGED <<memory, table, firing, fired, want, enabledAt, lastTrigger>>
      BY <2>1, <2>3 DEF Passes, historyVars, SchedulerInv, SchedulerTyped
    <3>2. \A s \in Schedules : enabledAt[s] \in Nat /\ enabledAt[s] <= clock
      BY <2>1 DEF SchedulerInv, SchedulerTyped
    <3>3. \A q \in Schedulers : \A i \in DOMAIN firing[q] : firing[q][i].now \in Nat
      <4>1. \A q \in Schedulers : \A i \in DOMAIN firing[q] : firing[q][i] \in Reading
        BY <2>1 DEF SchedulerInv, SchedulerTyped
      <4>. QED  BY <4>1 DEF Reading
    <3>4. ~memory => ReadIsStored'
      BY <2>1, <3>1, <3>3 DEF ReadIsStored, SchedulerInv
    <3>5. SchedulerTyped'
      BY <2>1, <3>1 DEF SchedulerInv, SchedulerTyped
    <3>. QED  BY <2>1, <3>1, <3>2, <3>4, <3>5 DEF SchedulerInv
  <2>4. CASE SchedulerNext
    BY <2>1, <2>3, <2>4, ReconcileKeeps, SwitchKeeps, FireDueKeeps, FiringKeeps DEF SchedulerNext
  <2>. QED  BY <2>1, <2>2, <2>4
<1>3. SchedulerInv => ScheduleSound
  BY DEF SchedulerInv, OnTrack, ScheduleSound, SlotsAdvance, DisabledStaysQuiet, NoBacklog, Stored
<1>. QED  BY <1>1, <1>2, <1>3, PTL DEF SchedulerSpec
=============================================================================
