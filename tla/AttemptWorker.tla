--------------------------- MODULE AttemptWorker ---------------------------
(***************************************************************************)
(* An execution worker: it claims an attempt command, reads the run,       *)
(* executes the handler under a heartbeat and settles the attempt.  This   *)
(* is the behaviour of runTaskAttempt and runActivityAttempt, which differ *)
(* only in how they find the handler, with the driver around them.         *)
(*                                                                         *)
(* Between two database calls of a worker anything may happen, so what it  *)
(* read before is stale: each call is a step of its own.  A transaction    *)
(* reads its fence in one step and writes in another; its writes, which    *)
(* hold row locks until the commit, are one step.                          *)
(***************************************************************************)
EXTENDS RunStore

CONSTANTS
    KindOf,        \* "task" or "workflow", per run
    ParentOf,      \* parent_run_id, or None
    Single,        \* children that settle their node (self and case keys)
    RetryAttempts, \* retry.attempts of each child; 0 without a policy
    Serves         \* per worker, the subjects whose names it claims

ASSUME RunAssumption ==
    /\ KindOf \in [Runs -> {"task", "workflow"}]
    /\ ParentOf \in [Runs -> Runs \cup {None}]
    /\ Single \subseteq Children
    /\ RetryAttempts \in [Children -> Nat]
    /\ Serves \in [Workers -> SUBSET Subjects]

VARIABLES
    db,    \* runs, nodes, children and attempts
    cmds,  \* the command table
    held   \* per worker, the attempt it works on, or None

Outcome == {"completed", "failed", "timedOut"}

(***************************************************************************)
(* loading: claimed, nothing read.  starting: fresh, handler not started.  *)
(* running: handler and heartbeat.  settling: outcome known.  fenced: the  *)
(* settling transaction has passed loadFencedAttempt.  dropping: only the  *)
(* ack is left.  stale: to be reconciled from the child and the attempt it *)
(* has read.                                                               *)
(***************************************************************************)
Execution ==
    [cmd     : CommandIds,
     attempt : Attempts,
     pc      : {"loading", "starting", "running", "settling", "fenced",
                "dropping", "stale"},
     outcome : Outcome \cup {None},
     child   : ChildRow \cup {None},
     stored  : AttemptRow \cup {None}]

ASSUME ExecutionAssumption == None \notin Execution

Busy(w) == held[w] # None
At(w, pc) == Busy(w) /\ held[w].pc = pc
HoldsLease(w) == Leased(cmds, held[w].cmd, w)
Goto(w, pc) == held' = [held EXCEPT ![w].pc = pc]
Drop(w) == held' = [held EXCEPT ![w] = None]

HasRoom(t) == Rows(t) # CommandIds
FreeId(t) == CHOOSE c \in CommandIds : c \notin Rows(t)

(***************************************************************************)
(* The bound on the rows: a step waits until the continue commands it      *)
(* would insert have an id, or a row to be absorbed by.                    *)
(***************************************************************************)
RoomFor(t, r) == HasRoom(t) \/ InDedupIndex(t, r) # {}

(***************************************************************************)
(* runCoordinationExecutor.enqueue: due at once.                           *)
(***************************************************************************)
EnqueueContinueRun(t, r) == InsertContinue(t, FreeId(t), r, TRUE)

WakeParentRun(d, t, r) ==
    IF ParentOf[r] # None /\ RunExists(d, ParentOf[r])
    THEN EnqueueContinueRun(t, ParentOf[r]) ELSE t

-----------------------------------------------------------------------------
ClaimAttempt(w, c) ==
    /\ ~Busy(w)
    /\ Claimable(cmds, c)
    /\ cmds[c].subject \in Attempts \cap Serves[w]
    /\ cmds' = Claim(cmds, c, w)
    /\ held' = IF cmds'[c].dead THEN held
               ELSE [held EXCEPT ![w] =
                        [cmd |-> c, attempt |-> cmds[c].subject, pc |-> "loading",
                         outcome |-> None, child |-> None, stored |-> None]]
    /\ UNCHANGED db

(***************************************************************************)
(* loadRunSnapshot, and the branches on it.                                *)
(***************************************************************************)
LoadSnapshot(w) ==
    /\ At(w, "loading")
    /\ LET a == held[w].attempt
           r == RunOf[a]
           k == db.children[ChildOf[a]]
       IN  IF RunIsTerminal(db, r) THEN Goto(w, "dropping")
           ELSE IF RunExists(db, r) /\ IsFreshAttempt(k, db.attempts[a], a)
           THEN Goto(w, "starting")
           ELSE held' = [held EXCEPT ![w] = [@ EXCEPT !.pc = "stale", !.child = k,
                                                      !.stored = db.attempts[a]]]
    /\ UNCHANGED <<db, cmds>>

(***************************************************************************)
(* The worker's registry has no handler for the command.                   *)
(***************************************************************************)
Unroutable(w) ==
    /\ At(w, "starting")
    /\ cmds' = ReleaseCounted(cmds, held[w].cmd, w)
    /\ Drop(w)
    /\ UNCHANGED db

(***************************************************************************)
(* Only for a task run is this the transition to running.                  *)
(***************************************************************************)
StartHandler(w) ==
    /\ At(w, "starting")
    /\ db' = LET r == RunOf[held[w].attempt]
             IN  IF KindOf[r] = "task" THEN MarkRunRunning(db, r) ELSE db
    /\ Goto(w, "running")
    /\ UNCHANGED cmds

HandlerEnds(w, o) ==
    /\ At(w, "running")
    /\ held' = [held EXCEPT ![w] = [@ EXCEPT !.pc = "settling", !.outcome = o]]
    /\ UNCHANGED <<db, cmds>>

(***************************************************************************)
(* One heartbeat: a lost lease ends the execution (the release under the   *)
(* stale token changes nothing), a run that is cancelling or terminal      *)
(* turns it into an ack, and otherwise only the lease is extended.         *)
(***************************************************************************)
CancellationObserved(r) == db.runs[r] = "cancelling" \/ RunIsTerminal(db, r)

HeartbeatAttempt(w) ==
    /\ At(w, "running")
    /\ cmds' = Heartbeat(cmds, held[w].cmd, w)
    /\ IF ~HoldsLease(w) THEN Drop(w)
       ELSE IF CancellationObserved(RunOf[held[w].attempt]) THEN Goto(w, "dropping")
       ELSE UNCHANGED held
    /\ UNCHANGED db

(***************************************************************************)
(* Shutdown of the pool while the handler runs; abandon of a command that  *)
(* was claimed while the pool was aborted.                                 *)
(***************************************************************************)
Abandon(w) ==
    /\ At(w, "running") \/ At(w, "loading")
    /\ cmds' = ReleasePlain(cmds, held[w].cmd, w)
    /\ Drop(w)
    /\ UNCHANGED db

(***************************************************************************)
(* A transaction that only acknowledges.  A stale ack rolls back.          *)
(***************************************************************************)
AckOnly(w) ==
    /\ At(w, "dropping")
    /\ cmds' = Ack(cmds, held[w].cmd, w)
    /\ Drop(w)
    /\ UNCHANGED db

ReadFence(w) ==
    /\ At(w, "settling")
    /\ Goto(w, IF FencedAttempt(db, held[w].attempt) THEN "fenced" ELSE "dropping")
    /\ UNCHANGED <<db, cmds>>

-----------------------------------------------------------------------------
(***************************************************************************)
(* The settling transaction.  Each branch computes the database d and the  *)
(* table t it would commit; the ack is last, and only the holder of the    *)
(* command's lease commits.                                                *)
(***************************************************************************)

Commit(w, d, t) ==
    /\ IF HoldsLease(w)
       THEN db' = d /\ cmds' = Ack(t, held[w].cmd, w)
       ELSE UNCHANGED <<db, cmds>>
    /\ Drop(w)

(***************************************************************************)
(* The attempt, hence its child, completed: a single child completes its   *)
(* node; a task run is completed here, a workflow run is continued by its  *)
(* coordinator.                                                            *)
(***************************************************************************)
CompletedDb(d, k) ==
    LET n == NodeOf[k]
        r == RunOfNode[n]
    IN  IF KindOf[r] = "task" THEN CompleteRun(CompleteNode(d, n), r)
        ELSE IF k \in Single THEN CompleteNode(d, n) ELSE d

FailedDb(d, k) ==
    LET n  == NodeOf[k]
        r  == RunOfNode[n]
        d1 == FailNodeChild(d, k)
        d2 == IF k \in Single THEN FailNode(d1, n) ELSE d1
    IN  IF KindOf[r] = "task" THEN FailRun(d2, r) ELSE d2

Notified(d, t, k) ==
    LET r == ChildRun(k)
    IN  IF KindOf[r] = "task" THEN WakeParentRun(d, t, r) ELSE EnqueueContinueRun(t, r)

\* The bound again, for the run that is notified.
RoomToNotify(k) ==
    LET r == ChildRun(k)
        p == IF KindOf[r] = "task" THEN ParentOf[r] ELSE r
    IN  p # None => RoomFor(cmds, p)

SettleCompleted(w) ==
    /\ At(w, "fenced") /\ held[w].outcome = "completed"
    /\ RoomToNotify(ChildOf[held[w].attempt])
    /\ LET a  == held[w].attempt
           k  == ChildOf[a]
           d1 == CompleteCurrentAttempt(db, a)
           d2 == CompletedDb(d1, k)
       IN  IF FencedAttempt(db, a) THEN Commit(w, d2, Notified(d2, cmds, k))
                                   ELSE Commit(w, db, cmds)

\* Seeded fault: the last attempt the policy allows is never made.
ShouldRetryAttemptTooFew(d, a) == d.attempts[a].number + 1 < RetryAttempts[ChildOf[a]]

ShouldRetryAttempt(d, a) == d.attempts[a].number < RetryAttempts[ChildOf[a]]

(***************************************************************************)
(* The failed attempt is retried: a new attempt row, dispatched now or     *)
(* after the delay of the policy.  createAttempt throws on a child that    *)
(* was cancelled or failed meanwhile; the transaction rolls back and the   *)
(* driver releases the command with the error.                             *)
(***************************************************************************)
RetryAttempt(w, a2, now) ==
    LET a  == held[w].attempt
        k  == ChildOf[a]
        d1 == SettleCurrentAttempt(db, a, held[w].outcome)
    IN  /\ ChildOf[a2] = k /\ db.attempts[a2] = None
        /\ IF CanCreateAttempt(d1, k)
           THEN Commit(w, CreateAttempt(d1, k, a2),
                       DispatchAttempt(cmds, FreeId(cmds), a2, now))
           ELSE /\ cmds' = ReleaseCounted(cmds, held[w].cmd, w)
                /\ Drop(w)
                /\ UNCHANGED db

SettleFailed(w) ==
    /\ At(w, "fenced") /\ held[w].outcome \in {"failed", "timedOut"}
    /\ HasRoom(cmds)
    /\ LET a == held[w].attempt
           k == ChildOf[a]
           d == FailedDb(SettleCurrentAttempt(db, a, held[w].outcome), k)
       IN  IF db.attempts[a] = None \/ db.attempts[a].status # "started"
           THEN Commit(w, db, cmds)
           ELSE IF ShouldRetryAttempt(db, a)
           THEN \E a2 \in Attempts, now \in BOOLEAN : RetryAttempt(w, a2, now)
           ELSE Commit(w, d, Notified(d, cmds, k))

(***************************************************************************)
(* reconcileStaleAttempt: a redelivered command of a settled attempt       *)
(* replays the completion; otherwise it is only acknowledged, with a       *)
(* continue when child and attempt agree.                                  *)
(***************************************************************************)
ReconcileStaleAttempt(w) ==
    /\ At(w, "stale")
    /\ RoomToNotify(ChildOf[held[w].attempt]) /\ RoomFor(cmds, RunOf[held[w].attempt])
    /\ LET a       == held[w].attempt
           k       == ChildOf[a]
           child   == held[w].child
           stored  == held[w].stored
           settled == child # None /\ stored # None /\ stored.status # "started"
           ok      == settled /\ stored.status = "completed"
           current == settled /\ child.current = a
           agree   == settled /\ child.status = (IF ok THEN "completed" ELSE "failed")
           d       == IF ok THEN CompletedDb(CompleteNodeChild(db, k), k)
                            ELSE FailedDb(db, k)
       IN  IF current THEN Commit(w, d, Notified(d, cmds, k))
           ELSE Commit(w, db, IF agree THEN EnqueueContinueRun(cmds, RunOf[a]) ELSE cmds)

Crash(w) == Busy(w) /\ Drop(w) /\ UNCHANGED <<db, cmds>>

WorkerStep(w) ==
    \/ \E c \in CommandIds : ClaimAttempt(w, c)
    \/ LoadSnapshot(w) \/ Unroutable(w) \/ StartHandler(w)
    \/ \E o \in Outcome : HandlerEnds(w, o)
    \/ HeartbeatAttempt(w) \/ Abandon(w) \/ AckOnly(w) \/ ReadFence(w)
    \/ SettleCompleted(w) \/ SettleFailed(w) \/ ReconcileStaleAttempt(w)
    \/ Crash(w)

-----------------------------------------------------------------------------
(* The clock.                                                              *)

LeaseExpires(c) ==
    /\ c \in Rows(cmds) /\ cmds[c].token # None /\ ~cmds[c].expired
    /\ cmds' = [cmds EXCEPT ![c].expired = TRUE]
    /\ UNCHANGED <<db, held>>

BecomesDue(c) ==
    /\ c \in Rows(cmds) /\ ~cmds[c].due
    /\ cmds' = [cmds EXCEPT ![c].due = TRUE]
    /\ UNCHANGED <<db, held>>
=============================================================================
