------------------------------ MODULE TaskRun ------------------------------
(***************************************************************************)
(* Standalone task runs, from start to a terminal status: clients that     *)
(* start, cancel and delete them, execution workers, the maintenance sweep *)
(* that reaps dead commands, and an operator who requeues them.  No        *)
(* coordinator takes part: a task's name is not in any worker's workflow   *)
(* names, so a continue command of a task run is never claimed.            *)
(***************************************************************************)
EXTENDS AttemptWorker

CONSTANTS
    FirstAttempt,   \* the attempt id startTaskRun creates, per run
    TaskNode,       \* the $task node of a run
    TaskChild       \* its self child

ASSUME TaskAssumption ==
    /\ FirstAttempt \in [Runs -> Attempts]
    /\ TaskNode \in [Runs -> Nodes]
    /\ TaskChild \in [Runs -> Children]
    /\ \A r \in Runs : /\ KindOf[r] = "task" /\ ParentOf[r] = None
                       /\ RunOfNode[TaskNode[r]] = r
                       /\ NodeOf[TaskChild[r]] = TaskNode[r]
                       /\ ChildOf[FirstAttempt[r]] = TaskChild[r]
                       /\ TaskChild[r] \in Single
    /\ \A n \in Nodes : n = TaskNode[RunOfNode[n]]
    /\ \A k \in Children : k = TaskChild[ChildRun(k)]
    /\ \A w \in Workers : Serves[w] \cap Runs = {}

VARIABLES
    canceller,  \* runs whose cancel call still has to enqueue its continue
    reaper      \* the dead command the sweep is on, and where, or None
vars == <<db, cmds, held, canceller, reaper>>

ReapStep == {"failChild", "failNode", "loadRun", "deleteUnclaimed",
             "cancelNodes", "failRun", "mark"}
Reaping == [cmd : CommandIds, attempt : Attempts, pc : ReapStep]

ASSUME ReapingAssumption == None \notin Reaping

TypeOK ==
    /\ db \in Database
    /\ cmds \in Table
    /\ held \in [Workers -> Execution \cup {None}]
    /\ canceller \subseteq Runs
    /\ reaper \in Reaping \cup {None}

Init ==
    /\ db = EmptyDatabase
    /\ cmds = EmptyTable
    /\ held = [w \in Workers |-> None]
    /\ canceller = {}
    /\ reaper = None

-----------------------------------------------------------------------------
(* Clients.                                                                *)

(***************************************************************************)
(* atomicStart.startTaskRun: run, node, child, first attempt and command   *)
(* in one transaction, due at once or at startAt.                          *)
(***************************************************************************)
StartTaskRun(r, now) ==
    LET a  == FirstAttempt[r]
        d1 == CreateNode(CreateRun(db, r), TaskNode[r])
        d2 == EnsureNodeChildren(d1, TaskNode[r])
    IN  /\ db.runs[r] = "absent"
        /\ HasRoom(cmds)
        /\ db' = CreateAttempt(d2, TaskChild[r], a)
        /\ cmds' = DispatchAttempt(cmds, FreeId(cmds), a, now)
        /\ UNCHANGED <<held, canceller, reaper>>

(***************************************************************************)
(* client.cancel: the request, then, unless the run is terminal, a         *)
(* continue command for its coordinator.                                   *)
(***************************************************************************)
RequestCancel(r) ==
    /\ RunExists(db, r) /\ r \notin canceller
    /\ db' = RequestRunCancellation(db, r)
    /\ canceller' = IF RunIsTerminal(db, r) THEN canceller ELSE canceller \cup {r}
    /\ UNCHANGED <<cmds, held, reaper>>

EnqueueCancel(r) ==
    /\ r \in canceller
    /\ RoomFor(cmds, r)
    /\ cmds' = IF RunExists(db, r) THEN EnqueueContinueRun(cmds, r) ELSE cmds
    /\ canceller' = canceller \ {r}
    /\ UNCHANGED <<db, held, reaper>>

(***************************************************************************)
(* deleteRun and the run part of pruneTerminalRuns: terminal runs only,    *)
(* with their commands.                                                    *)
(***************************************************************************)
DeleteRun(r) ==
    /\ RunIsTerminal(db, r)
    /\ db' = DeleteRunRows(db, r)
    /\ cmds' = DeleteRunCommands(cmds, r)
    /\ UNCHANGED <<held, canceller, reaper>>

(***************************************************************************)
(* The dead-command part of pruneTerminalRuns.  Its cutoff is compared     *)
(* with dead_at alone; that it lies further back than the reaper's last    *)
(* sweep is an assumption on the deployment.                               *)
(***************************************************************************)
SweepDead(c) ==
    /\ c \in Rows(cmds) /\ cmds[c].reaped
    /\ cmds' = SweepDeadCommand(cmds, c)
    /\ UNCHANGED <<db, held, canceller, reaper>>

RequeueDead(c) ==
    /\ c \in Rows(cmds) /\ cmds[c].dead
    /\ cmds' = RequeueDeadCommand(cmds, c)
    /\ UNCHANGED <<db, held, canceller, reaper>>

-----------------------------------------------------------------------------
(* reapDeadWorkflowCommands, one dead attempt command at a time, a step    *)
(* per store call.                                                         *)

ReapList(c) ==
    /\ reaper = None
    /\ c \in Rows(cmds) /\ cmds[c].dead /\ ~cmds[c].reaped
    /\ reaper' = [cmd |-> c, attempt |-> cmds[c].subject, pc |-> "failChild"]
    /\ UNCHANGED <<db, cmds, held, canceller>>

ReapAt(pc, next, d) ==
    /\ reaper # None /\ reaper.pc = pc
    /\ reaper' = [reaper EXCEPT !.pc = next]
    /\ db' = d
    /\ UNCHANGED <<held, canceller>>

Reaped == RunOf[reaper.attempt]

ReapFailChild ==
    /\ reaper # None
    /\ ReapAt("failChild", "failNode", FailNodeChild(db, ChildOf[reaper.attempt]))
    /\ UNCHANGED cmds

ReapFailNode ==
    /\ reaper # None
    /\ ReapAt("failNode", "loadRun", FailNode(db, NodeOf[ChildOf[reaper.attempt]]))
    /\ UNCHANGED cmds

ReapLoadRun ==
    /\ reaper # None
    /\ ReapAt("loadRun", IF RunExists(db, Reaped) THEN "deleteUnclaimed" ELSE "mark", db)
    /\ UNCHANGED cmds

ReapDeleteUnclaimed ==
    /\ reaper # None
    /\ ReapAt("deleteUnclaimed", "cancelNodes", db)
    /\ cmds' = DeleteUnclaimed(cmds, Reaped)

ReapCancelNodes ==
    /\ reaper # None
    /\ ReapAt("cancelNodes", "failRun", CancelNonTerminalRunNodes(db, Reaped))
    /\ UNCHANGED cmds

ReapFailRun ==
    /\ reaper # None
    /\ ReapAt("failRun", "mark", FailRun(db, Reaped))
    /\ UNCHANGED cmds

\* The database never uses an id twice: a row that has another subject by now
\* is not the one that was listed.
ReapMark ==
    /\ reaper # None /\ reaper.pc = "mark"
    /\ cmds' = IF reaper.cmd \in Rows(cmds) /\ cmds[reaper.cmd].subject = reaper.attempt
               THEN MarkDeadCommandReaped(cmds, reaper.cmd) ELSE cmds
    /\ reaper' = None
    /\ UNCHANGED <<db, held, canceller>>

ReapCrash ==
    /\ reaper # None
    /\ reaper' = None
    /\ UNCHANGED <<db, cmds, held, canceller>>

ReapProceeds ==
    \/ ReapFailChild \/ ReapFailNode \/ ReapLoadRun \/ ReapDeleteUnclaimed
    \/ ReapCancelNodes \/ ReapFailRun \/ ReapMark

-----------------------------------------------------------------------------
Client ==
    \/ \E r \in Runs :
        \/ \E now \in BOOLEAN : StartTaskRun(r, now)
        \/ RequestCancel(r) \/ EnqueueCancel(r) \/ DeleteRun(r)
    \/ \E c \in CommandIds : SweepDead(c) \/ RequeueDead(c)

Maintenance ==
    \/ \E c \in CommandIds : ReapList(c)
    \/ ReapProceeds \/ ReapCrash

Next ==
    \/ Client
    \/ Maintenance
    \/ \E w \in Workers : WorkerStep(w) /\ UNCHANGED <<canceller, reaper>>
    \/ \E c \in CommandIds :
        (LeaseExpires(c) \/ BecomesDue(c)) /\ UNCHANGED <<canceller, reaper>>

Spec == Init /\ [][Next]_vars

(***************************************************************************)
(* Time passes, a busy worker's call returns and its handler ends (by its  *)
(* timeout at the latest), no due command is passed over for ever (the     *)
(* claim query orders by run_at), and the sweep is run periodically.       *)
(***************************************************************************)
WorkerProceeds(w) ==
    /\ \/ LoadSnapshot(w) \/ StartHandler(w) \/ AckOnly(w) \/ ReadFence(w)
       \/ \E o \in Outcome : HandlerEnds(w, o)
       \/ SettleCompleted(w) \/ SettleFailed(w) \/ ReconcileStaleAttempt(w)
    /\ UNCHANGED <<canceller, reaper>>

Fairness ==
    /\ \A c \in CommandIds :
        /\ WF_vars(LeaseExpires(c) /\ UNCHANGED <<canceller, reaper>>)
        /\ WF_vars(BecomesDue(c) /\ UNCHANGED <<canceller, reaper>>)
        /\ SF_vars(\E w \in Workers :
                    ClaimAttempt(w, c) /\ UNCHANGED <<canceller, reaper>>)
        /\ WF_vars(ReapList(c))
    /\ \A w \in Workers : WF_vars(WorkerProceeds(w))
    /\ WF_vars(ReapProceeds)
    /\ \A r \in Runs : WF_vars(EnqueueCancel(r))

FairSpec == Spec /\ Fairness

-----------------------------------------------------------------------------
(***************************************************************************)
(* The rows of one task run tell one story: the run completes only with    *)
(* its node, its child and the child's current attempt, no attempt         *)
(* completes without them, and a failed run leaves nothing open under it.  *)
(* Settling, cancelling and reaping write these rows in different orders.  *)
(***************************************************************************)
RowsAgree ==
    \A r \in Runs : RunExists(db, r) =>
        LET n == db.nodes[TaskNode[r]]
            k == db.children[TaskChild[r]]
        IN  /\ (db.runs[r] = "completed") <=> (n = "completed")
            /\ (n = "completed") <=> (k.status = "completed")
            /\ k.status = "completed" <=> db.attempts[k.current].status = "completed"
            /\ db.runs[r] = "failed" => n \in Terminal /\ k.status \in Terminal

(***************************************************************************)
(* Retries: attempts are numbered 1 to attempt_count without a gap or a    *)
(* repetition, the current one is the last, the others failed and were     *)
(* each retried once, and the policy's limit is neither exceeded nor       *)
(* forgotten: a failure below it is always retried.                        *)
(***************************************************************************)
RetryDiscipline ==
    \A k \in Children : db.children[k] # None =>
        LET row  == db.children[k]
            made == {a \in Attempts : ChildOf[a] = k /\ db.attempts[a] # None}
            last == db.attempts[row.current]
        IN  /\ {db.attempts[a].number : a \in made} = 1..row.count
            /\ Cardinality(made) = row.count
            /\ last.number = row.count
            /\ \A a \in made \ {row.current} :
                    db.attempts[a].status \in {"failed", "timedOut"}
            /\ row.count > 1 => row.count <= RetryAttempts[k]
            /\ last.status \in {"failed", "timedOut"} => row.count >= RetryAttempts[k]

Unreaped(r) ==
    \E c \in Rows(cmds) : /\ cmds[c].subject = db.children[TaskChild[r]].current
                          /\ ~cmds[c].reaped

Started(r) == db.runs[r] \in {"queued", "running"}

(***************************************************************************)
(* No stranded run: while its child is open, a started run has a command   *)
(* of the child's current attempt that a worker will be given or the       *)
(* reaper will list, whatever crashed and whoever retried.                 *)
(***************************************************************************)
NotStranded ==
    \A r \in Runs :
        Started(r) /\ db.children[TaskChild[r]].status \notin Terminal => Unreaped(r)

(***************************************************************************)
(* The sweep failed the child of r and is gone, the command with it, while *)
(* the run itself is still open.                                           *)
(***************************************************************************)
Interrupted(r) ==
    /\ Started(r) /\ db.children[TaskChild[r]].status \in Terminal
    /\ ~Unreaped(r)
    /\ reaper = None \/ Reaped # r

(***************************************************************************)
(* "A crash mid-batch re-lists the remainder instead of stranding it":     *)
(* once the sweep has failed the child, either the sweep is still on the   *)
(* run or its command is still listed, until the run itself has failed.    *)
(***************************************************************************)
SweepIsRepeated == \A r \in Runs : ~Interrupted(r)

(***************************************************************************)
(* Terminal statuses are final: no late settlement, sweep or cancellation  *)
(* rewrites a run, a node, a child or an attempt that was settled.         *)
(***************************************************************************)
SettledIsFinal ==
    [][/\ \A r \in Runs : RunIsTerminal(db, r) => db'.runs[r] \in {db.runs[r], "deleted"}
       /\ \A n \in Nodes : db.nodes[n] \in Terminal => db'.nodes[n] \in {db.nodes[n], None}
       /\ \A a \in Attempts : db.attempts[a] # None /\ db.attempts[a].status # "started"
                => db'.attempts[a] \in {db.attempts[a], None}]_vars

(***************************************************************************)
(* From some time on no sweep dies half way, no worker hands a command     *)
(* back unexecuted and no operator requeues one.                           *)
(***************************************************************************)
Calm ==
    <>[][~\/ ReapCrash
          \/ \E w \in Workers : Abandon(w)
          \/ \E c \in CommandIds : RequeueDead(c)]_vars

(***************************************************************************)
(* A run that is not cancelled ends, whichever workers crash or lose their *)
(* leases: redelivery is bounded, and a dead command is reaped.  The one   *)
(* exception is the interrupted sweep above.                               *)
(***************************************************************************)
EventuallySettled ==
    Calm => \A r \in Runs : Started(r) ~> (~Started(r) \/ Interrupted(r))

(***************************************************************************)
(* "Observable/cancellable by id": a run whose cancellation was requested  *)
(* reaches a terminal status.                                              *)
(***************************************************************************)
CancellationSettles ==
    Calm => \A r \in Runs : db.runs[r] = "cancelling" ~> db.runs[r] # "cancelling"

-----------------------------------------------------------------------------
(***************************************************************************)
(* The refinement of DurableTask.                                          *)
(***************************************************************************)
PhaseOf(r) == IF Started(r) THEN "open" ELSE db.runs[r]

Numbered(r, i) ==
    CHOOSE a \in Attempts : /\ ChildOf[a] = TaskChild[r] /\ db.attempts[a] # None
                            /\ db.attempts[a].number = i

ResultsOf(r) ==
    IF ~RunExists(db, r) THEN <<>>
    ELSE LET k == db.children[TaskChild[r]]
             settled == IF db.attempts[k.current].status = "started"
                        THEN k.count - 1 ELSE k.count
         IN  [i \in 1..settled |-> db.attempts[Numbered(r, i)].status]

LimitOf(r) == IF RetryAttempts[TaskChild[r]] = 0 THEN 1 ELSE RetryAttempts[TaskChild[r]]

Durable == INSTANCE DurableTask WITH
    Limit   <- [r \in Runs |-> LimitOf(r)],
    phase   <- [r \in Runs |-> PhaseOf(r)],
    results <- [r \in Runs |-> ResultsOf(r)]

(***************************************************************************)
(* Every behaviour of clients, workers, leases and sweeps is, seen through *)
(* the run's status and its attempts' results, a behaviour of DurableTask. *)
(***************************************************************************)
ImplementsDurableTask == Durable!Spec
=============================================================================
