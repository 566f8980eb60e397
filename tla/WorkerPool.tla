------------------------------ MODULE WorkerPool ------------------------------
(***************************************************************************)
(* The pool loop of a worker process (workflows/src/runtime/worker/loop.ts):*)
(* one loop claims commands one after the other and starts their executions *)
(* concurrently, up to Concurrency; a wake latch ends its waits; a caller's *)
(* signal or the first error stops it.                                      *)
(*                                                                          *)
(* Everything between two awaits of the loop is one step.  The promises the *)
(* loop awaits are settled by steps of their own, so that completions,      *)
(* hints, timers and aborts fall anywhere between an answer and the loop's  *)
(* use of it.                                                               *)
(***************************************************************************)
EXTENDS Integers, FiniteSets

CONSTANTS Items,          \* the commands that may exist
          Concurrency,    \* options.concurrency
          MaxGiveBacks    \* bound on executions that return their command

ASSUME PoolAssumption == /\ Concurrency \in Nat \ {0}
                         /\ MaxGiveBacks \in Nat
                         /\ IsFiniteSet(Items)
                         /\ {"nothing", "error"} \cap Items = {}

VARIABLES mode,        \* "drain" or "serve"
          item,        \* what became of every command
          own,         \* commands enqueued by the pool's own work
          pc,          \* where the loop is
          reply,       \* the answer of driver.claim the loop has not yet used
          pending,     \* the wake latch
          settling,    \* executions that ended, whose promise is still in active
          lifecycle,   \* lifecycle.signal.aborted
          executions,  \* executions.signal.aborted
          called,      \* the caller's signal is aborted
          failed,
          periodic,    \* "due": a drain's one round; else the periodic loop
          hint,        \* a wake hint is on its way
          giveBacks

board == <<item, own, giveBacks>>
signals == <<lifecycle, executions, called, failed>>
poolVars == <<mode, board, pc, reply, pending, settling, signals, periodic, hint>>

\* "leaked": claimed by this pool, neither executed nor given back (only its
\* lease's expiry frees it); "elsewhere": taken by another worker.
ItemStates == {"absent", "queued", "claimed", "running", "done", "leaked",
               "elsewhere"}
Waits == {"idle", "full"}
LoopPoints == Waits \cup {"head", "claiming", "claimed", "abandoning",
                          "draining", "notified", "timeout", "aborted",
                          "closing", "returned"}
NothingClaimed == "nothing"
Error == "error"

In(s) == {i \in Items : item[i] = s}
ActiveSize == Cardinality(In("running")) + settling

PoolTypeOK ==
    /\ mode \in {"drain", "serve"}
    /\ item \in [Items -> ItemStates]
    /\ own \subseteq Items
    /\ pc \in LoopPoints
    /\ reply \in Items \cup {NothingClaimed, Error}
    /\ settling \in 0..Concurrency
    /\ periodic \in {"off", "due", "run", "sleep", "ended"}
    /\ {pending, lifecycle, executions, called, failed, hint} \subseteq BOOLEAN
    /\ giveBacks \in 0..MaxGiveBacks

(***************************************************************************)
(* The wake latch.                                                          *)
(***************************************************************************)

\* A seeded fault: a notification only ends a wait that is under way.
NotifyUnlatched ==
    /\ pending' = pending
    /\ pc' = IF pc \in Waits THEN "notified" ELSE pc

\* notify: latch the wake and settle a wait that is under way.
Notify ==
    /\ pending' = TRUE
    /\ pc' = IF pc \in Waits THEN "notified" ELSE pc

\* Aborting lifecycle settles the wait before notify runs.
AbortThenNotify ==
    /\ pending' = TRUE
    /\ pc' = IF pc \in Waits THEN "aborted" ELSE pc

\* wait: returns at once (to the head of the loop) when a wake is latched.
Wait(kind, latch) ==
    pending' = FALSE /\ pc' = IF latch THEN "head" ELSE kind

(***************************************************************************)
(* Stopping.                                                                *)
(***************************************************************************)

\* fail: the first error stops the claiming; siblings finish undisturbed.
Fail == /\ failed' = TRUE
        /\ lifecycle' = TRUE
        /\ UNCHANGED <<executions, called>>

\* A seeded fault: the executions under way are not told.
ForwardAbortToLoop == /\ called' = TRUE
                      /\ lifecycle' = TRUE
                      /\ UNCHANGED <<executions, failed>>

\* forwardAbort, the listener on the caller's signal.
ForwardAbort == /\ called' = TRUE
                /\ lifecycle' = TRUE
                /\ executions' = TRUE
                /\ UNCHANGED failed

\* Leaving the loop: the finally block aborts lifecycle.
Close == /\ pc' = "closing" /\ lifecycle' = TRUE
         /\ UNCHANGED <<pending, executions, called, failed>>

(***************************************************************************)
(* The loop.                                                                *)
(***************************************************************************)

MayClaim(active) == active < Concurrency

\* The loop conditions, with `active` executions and the latch at `latch`.
LoopTop(active, latch) ==
    IF lifecycle THEN pc' = "closing" /\ pending' = latch
    ELSE IF MayClaim(active) THEN pc' = "claiming" /\ pending' = latch
    ELSE Wait("full", latch)

LoopHead ==
    /\ pc = "head"
    /\ LoopTop(ActiveSize, pending)
    /\ UNCHANGED <<mode, board, reply, settling, signals, periodic, hint>>

\* A wait was settled: only a notified one consumes the latch.
WaitReturns ==
    /\ pc \in {"notified", "timeout", "aborted"}
    /\ LoopTop(ActiveSize, pending /\ pc # "notified")
    /\ UNCHANGED <<mode, board, reply, settling, signals, periodic, hint>>

\* driver.claim answers: a queued command, null, or an error.  Null only when
\* nothing was claimable at that moment.
ClaimAnswers ==
    /\ pc = "claiming"
    /\ pc' = "claimed"
    /\ \/ \E i \in In("queued") : /\ reply' = i
                                  /\ item' = [item EXCEPT ![i] = "claimed"]
       \/ In("queued") = {} /\ reply' = NothingClaimed /\ UNCHANGED item
       \/ reply' = Error /\ UNCHANGED item
    /\ UNCHANGED <<mode, own, pending, settling, signals, periodic, hint,
                   giveBacks>>

ClaimFails ==
    /\ pc = "claimed" /\ reply = Error
    /\ Fail
    /\ pc' = "closing" /\ pending' = TRUE
    /\ UNCHANGED <<mode, board, reply, settling, periodic, hint>>

\* Claimed, and the pool was not stopped meanwhile: startExecution.
StartExecution ==
    /\ pc = "claimed" /\ reply \in Items /\ ~lifecycle
    /\ item' = [item EXCEPT ![reply] = "running"]
    /\ LoopTop(ActiveSize + 1, pending)
    /\ UNCHANGED <<mode, own, reply, settling, signals, periodic, hint,
                   giveBacks>>

\* Claimed across a stop: the lease is given back, or that fails as well.
AbandonClaim ==
    /\ pc = "claimed" /\ reply \in Items /\ lifecycle
    /\ pc' = "abandoning"
    /\ UNCHANGED <<mode, board, reply, pending, settling, signals, periodic,
                   hint>>

AbandonEnds ==
    /\ pc = "abandoning"
    /\ pc' = "closing"
    /\ \/ /\ item' = [item EXCEPT ![reply] = "queued"]
          /\ UNCHANGED <<signals, pending>>
       \/ /\ item' = [item EXCEPT ![reply] = "leaked"]
          /\ Fail /\ pending' = TRUE
    /\ UNCHANGED <<mode, own, reply, settling, periodic, hint, giveBacks>>

\* A seeded fault: the latch is only looked at by waits.
WakeNotConsumed == FALSE

\* Whether the latch is looked at before an empty pool gives up or sleeps.
WakeConsumed == pending

\* claim answered null.
FoundNothing ==
    /\ pc = "claimed" /\ reply = NothingClaimed
    /\ \/ lifecycle /\ Close /\ UNCHANGED periodic
       \/ /\ ~lifecycle /\ UNCHANGED signals
          /\ \/ ActiveSize > 0 /\ Wait("idle", pending) /\ UNCHANGED periodic
             \/ /\ ActiveSize = 0 /\ WakeConsumed
                /\ LoopTop(0, FALSE) /\ UNCHANGED periodic
             \/ /\ ActiveSize = 0 /\ ~WakeConsumed /\ periodic = "due"
                /\ pc' = "draining" /\ periodic' = "off" /\ UNCHANGED pending
             \/ /\ ActiveSize = 0 /\ ~WakeConsumed /\ mode = "serve"
                /\ Wait("idle", pending) /\ UNCHANGED periodic
       \/ /\ ~lifecycle /\ ActiveSize = 0 /\ ~WakeConsumed
          /\ mode = "drain" /\ periodic # "due"
          /\ Close /\ UNCHANGED periodic
    /\ UNCHANGED <<mode, board, reply, settling, hint>>

\* A drain's one round of periodic tasks is over.
DrainPeriodicEnds ==
    /\ pc = "draining"
    /\ \/ LoopTop(0, pending) /\ UNCHANGED signals
       \/ Fail /\ pc' = "closing" /\ pending' = TRUE
    /\ UNCHANGED <<mode, board, reply, settling, periodic, hint>>

\* The finally block: the executions and the periodic loop are awaited.
MayReturn == ActiveSize = 0 /\ periodic \notin {"run", "sleep"}

Return ==
    /\ pc = "closing"
    /\ MayReturn
    /\ pc' = "returned"
    /\ UNCHANGED <<mode, board, reply, pending, settling, signals, periodic,
                   hint>>

(***************************************************************************)
(* What runs beside the loop.                                               *)
(***************************************************************************)

\* An execution or a periodic task enqueues a further command (a continuation,
\* an attempt, a scheduled run).
OwnEnqueue ==
    /\ In("running") # {} \/ pc = "draining" \/ periodic = "run"
    /\ \E i \in In("absent") : /\ item' = [item EXCEPT ![i] = "queued"]
                               /\ own' = own \cup {i}
    /\ UNCHANGED <<mode, pc, reply, pending, settling, signals, periodic, hint,
                   giveBacks>>

\* driver.execute settles: the command is finished or given back, and the
\* promise resolves; or it rejects, which stops the pool.
ExecutionEnds(i) ==
    /\ item[i] = "running"
    /\ settling' = settling + 1
    /\ \/ item' = [item EXCEPT ![i] = "done"] /\ UNCHANGED <<own, giveBacks>>
       \/ /\ giveBacks < MaxGiveBacks
          /\ item' = [item EXCEPT ![i] = "queued"]
          /\ own' = own \cup {i}
          /\ giveBacks' = giveBacks + 1
    /\ \/ UNCHANGED <<pc, pending, signals>>
       \/ Fail /\ AbortThenNotify
    /\ UNCHANGED <<mode, reply, periodic, hint>>

\* Its finally handler: out of active, and the loop is notified.
ExecutionSettles ==
    /\ settling > 0
    /\ settling' = settling - 1
    /\ Notify
    /\ UNCHANGED <<mode, board, reply, signals, periodic, hint>>

\* A round of the periodic tasks of a serving pool is over: what it enqueued is
\* announced.  An error ends the periodic loop and stops the pool.
PeriodicRoundEnds ==
    /\ periodic = "run"
    /\ \/ periodic' = "sleep" /\ Notify /\ UNCHANGED signals
       \/ periodic' = "ended" /\ Fail /\ AbortThenNotify
    /\ UNCHANGED <<mode, board, reply, settling, hint>>

\* Its sleep ends, by the timer or by the abort.
PeriodicWakes ==
    /\ periodic = "sleep"
    /\ \/ ~lifecycle /\ periodic' = "run"
       \/ lifecycle /\ periodic' = "ended"
    /\ UNCHANGED <<mode, board, pc, reply, pending, settling, signals, hint>>

\* The idle delay passes, whether or not executions are under way.
TimerFires ==
    /\ pc = "idle"
    /\ pc' = "timeout"
    /\ UNCHANGED <<mode, board, reply, pending, settling, signals, periodic,
                   hint>>

\* Somebody else enqueues a command, and a hint is sent.
Produce(i) ==
    /\ item[i] = "absent"
    /\ item' = [item EXCEPT ![i] = "queued"]
    /\ hint' = TRUE
    /\ UNCHANGED <<mode, own, pc, reply, pending, settling, signals, periodic,
                   giveBacks>>

\* The hint reaches the listener, which is subscribed until the pool returns.
\* It may also never do: LISTEN/NOTIFY promises nothing across a reconnect.
HintArrives ==
    /\ hint
    /\ hint' = FALSE
    /\ IF pc = "returned" THEN UNCHANGED <<pc, pending>> ELSE Notify
    /\ UNCHANGED <<mode, board, reply, settling, signals, periodic>>

ClaimedElsewhere(i) ==
    /\ item[i] = "queued"
    /\ item' = [item EXCEPT ![i] = "elsewhere"]
    /\ UNCHANGED <<mode, own, pc, reply, pending, settling, signals, periodic,
                   hint, giveBacks>>

\* The caller aborts; the listener is removed when the pool returns.
CallerAborts ==
    /\ ~called /\ pc # "returned"
    /\ ForwardAbort
    /\ AbortThenNotify
    /\ UNCHANGED <<mode, board, reply, settling, periodic, hint>>

(***************************************************************************)
(* The specification.                                                       *)
(***************************************************************************)

\* The pool's options are free: either mode, with or without periodic tasks,
\* and with a signal that may already be aborted.
PoolInit ==
    /\ mode \in {"drain", "serve"}
    /\ item \in [Items -> {"absent", "queued"}]
    /\ own = {}
    /\ pc = "head"
    /\ reply = NothingClaimed
    /\ settling = 0
    /\ called \in BOOLEAN
    /\ lifecycle = called /\ executions = called /\ pending = called
    /\ failed = FALSE
    /\ periodic \in {"off"} \cup (CASE mode = "drain" -> {"due"}
                                   [] mode = "serve" /\ ~called -> {"run"}
                                   [] OTHER -> {})
    /\ hint = FALSE
    /\ giveBacks = 0

Loop == \/ LoopHead \/ WaitReturns \/ ClaimAnswers \/ ClaimFails
        \/ StartExecution \/ AbandonClaim \/ AbandonEnds \/ FoundNothing
        \/ DrainPeriodicEnds \/ Return

Beside == \/ OwnEnqueue \/ ExecutionSettles \/ PeriodicRoundEnds
          \/ PeriodicWakes \/ TimerFires \/ HintArrives \/ CallerAborts
          \/ \E i \in Items : \/ ExecutionEnds(i) \/ Produce(i)
                              \/ ClaimedElsewhere(i)

PoolNext == Loop \/ Beside

PoolSpec == PoolInit /\ [][PoolNext]_poolVars

\* The event loop runs what is ready: the loop's own steps, which include the
\* answers of the driver's calls, promise callbacks and periodic tasks.
PoolFairness ==
    /\ WF_poolVars(Loop) /\ WF_poolVars(ExecutionSettles)
    /\ WF_poolVars(PeriodicRoundEnds) /\ WF_poolVars(lifecycle /\ PeriodicWakes)

LiveSpec == PoolSpec /\ PoolFairness

\* Handlers end, or end at least once they are told to.
HandlersEnd == \A i \in Items : WF_poolVars(ExecutionEnds(i))
HandlersObey == \A i \in Items : WF_poolVars(executions /\ ExecutionEnds(i))

(***************************************************************************)
(* Properties.                                                              *)
(***************************************************************************)

\* The pool never has more executions under way than options.concurrency, the
\* ones included whose promise has not settled yet (loop.ts:142).
WithinConcurrency == ActiveSize <= Concurrency

\* When runWorkerPool returns or throws, every command it ever claimed has been
\* executed to its end or given back; one whose give-back failed is the only
\* exception (loop.ts:154-161, 205).
NothingLeftBehind ==
    pc = "returned" => In("claimed") \cup In("running") = {}

\* A drain that ends without error or abort leaves nothing behind that its own
\* executions or periodic tasks enqueued or gave back, however the last claim
\* raced with the last completion (loop.ts:177-189).
DrainIsComplete ==
    pc = "returned" /\ mode = "drain" /\ ~failed /\ ~called
        => own \cap In("queued") = {}

\* A claimable command is claimed, by this pool or another, unless the pool stops.
WorkIsTaken ==
    \A i \in Items : item[i] = "queued" ~> (item[i] # "queued" \/ lifecycle)

\* If hints arrive, they suffice: every claimable command is taken though no idle
\* delay ever passes and no periodic round comes (loop.ts:40-44, 298-316).
PushSuffices == HandlersEnd /\ WF_poolVars(HintArrives) => WorkIsTaken

\* If idle delays pass, polling suffices: every claimable command is taken though
\* no hint ever arrives (loop.ts:169-196).
PollSuffices == HandlersEnd /\ WF_poolVars(TimerFires) => WorkIsTaken

\* A pool whose caller aborts returns, even after an error had stopped it and
\* its handlers run until they are aborted (loop.ts:101-107, 208).
AbortEndsPool == HandlersObey => (called ~> pc = "returned")

\* A claimable command is taken on hints alone, and on polling alone: neither
\* leans on the other.
WorkIsClaimed == PushSuffices /\ PollSuffices

\* A pool stays within its slots, and returns with nothing of its own undone.
PoolSound == PoolTypeOK /\ WithinConcurrency /\ NothingLeftBehind /\ DrainIsComplete
===============================================================================
