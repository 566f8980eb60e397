---------------------------- MODULE WorkflowRun ----------------------------
(***************************************************************************)
(* A workflow run from start to end: coordinators continue the runs of its *)
(* tree, execution workers settle attempts, the maintenance sweeps fail    *)
(* dead and expired runs, and a client cancels.                            *)
(*                                                                         *)
(* A coordinator's transaction takes the run's advisory lock, reads, and   *)
(* commits, in three steps; the sweeps take no lock and no transaction, so *)
(* each of their calls is a step.  An attempt is claimed and settled; the  *)
(* steps in between are those of AttemptWorker.                            *)
(***************************************************************************)
EXTENDS Coordinator

CONSTANTS
    RootPlans,    \* plans a root run may have
    Coordinators,
    None,
    MaxCrashes,   \* bound: crashes, lost leases and interrupted sweeps
    MaxExpired,   \* bound: runs whose timeout passes
    MaxMember,    \* bound: the cases and members a user callback is about
    MayCancel     \* whether a client cancels the root run

ASSUME RootPlansAssumption == \A p \in RootPlans : PlanOk(p)

VARIABLES
    plan,     \* the plan of the root run
    db,       \* the committed database
    coord,    \* per coordinator, the run it continues and what it has read
    sweep,    \* the sweep in progress, or None
    client,   \* the cancelling client
    dead,     \* runs with a dead continue command that is not reaped
    expired,  \* runs older than their timeout
    crashes,  \* how many of MaxCrashes happened
    faulted,  \* history: runs a user callback failed
    torn      \* history: runs an interruption left that nobody makes good

vars == <<plan, db, coord, sweep, client, dead, expired, crashes, faulted, torn>>

Root == <<>>

Init ==
    /\ plan \in RootPlans
    /\ db = [runs |-> [r \in {Root} |-> "queued"], nodes |-> <<>>, kids |-> <<>>,
             queue |-> {Root}, cmds |-> <<>>, thrown |-> FALSE]
    /\ coord = [w \in Coordinators |-> None]
    /\ sweep = None
    /\ client = "idle"
    /\ dead = {} /\ expired = {} /\ crashes = 0 /\ faulted = {} /\ torn = {}

Crashing == crashes < MaxCrashes /\ crashes' = crashes + 1

-----------------------------------------------------------------------------
(* The coordinator.                                                        *)

RunLockFree(r) == \A w \in Coordinators : coord[w] # None => coord[w].run # r

(***************************************************************************)
(* Claim a continue, lock the run and load its snapshot.  While another    *)
(* coordinator holds the run the command is released as it was.            *)
(***************************************************************************)
LoadRun(w, r) ==
    /\ coord[w] = None
    /\ r \in db.queue
    /\ RunLockFree(r)
    /\ db' = [db EXCEPT !.queue = @ \ {r}]
    /\ LET here == {x \in DOMAIN db.nodes : x[1] = r}
       IN  coord' = [coord EXCEPT ![w] =
                [run |-> r, status |-> db.runs[r], view |-> None,
                 nodes |-> [n \in {x[2] : x \in here} |-> db.nodes[<<r, n>>].status]]]
    /\ UNCHANGED <<plan, sweep, client, dead, expired, crashes, faulted, torn>>

(***************************************************************************)
(* Load the children of the first open node and their child runs.          *)
(***************************************************************************)
ReadChildren(w) ==
    /\ coord[w] # None /\ coord[w].view = None
    /\ LET c == coord[w]
           n == FirstOpenNode(plan, c.run, c.nodes)
       IN  coord' = [coord EXCEPT ![w].view =
                IF n \in DOMAIN PlanOf(plan, c.run) THEN ViewOf(plan, db, c.run, n) ELSE <<>>]
    /\ UNCHANGED <<plan, db, sweep, client, dead, expired, crashes, faulted, torn>>

(***************************************************************************)
(* Commit with the ack of the command.  A pass that threw rolls back and   *)
(* releases the command with the error.                                    *)
(***************************************************************************)
CommitRun(w, user) ==
    /\ coord[w] # None /\ coord[w].view # None
    /\ LET c == coord[w]
           d == ContinueWorkflowRun(plan, db, c.status, c.nodes, c.view, c.run, user)
       IN  /\ db' = IF d.thrown THEN Enqueue(db, c.run) ELSE d
           /\ faulted' = IF user.throws # 0 \/ user.case = 0 THEN faulted \cup {c.run} ELSE faulted
    /\ coord' = [coord EXCEPT ![w] = None]
    /\ UNCHANGED <<plan, sweep, client, dead, expired, crashes, torn>>

UserChoices == [case : 0..MaxMember, throws : 0..MaxMember]

(***************************************************************************)
(* The coordinator dies: its transaction rolls back; the command is taken  *)
(* over when the lease expires, or dies at the delivery threshold.         *)
(***************************************************************************)
CoordinatorCrashes(w) ==
    /\ coord[w] # None
    /\ Crashing
    /\ coord' = [coord EXCEPT ![w] = None]
    /\ \/ db' = Enqueue(db, coord[w].run) /\ UNCHANGED dead
       \/ dead' = dead \cup {coord[w].run} /\ UNCHANGED db
    /\ UNCHANGED <<plan, sweep, client, expired, faulted, torn>>

-----------------------------------------------------------------------------
(* Execution workers.                                                      *)

DropCommand(d, k) == [d EXCEPT !.cmds = [j \in DOMAIN @ \ {k} |-> @[j]]]

(***************************************************************************)
(* Claim: the command of a terminal run is only acknowledged.              *)
(***************************************************************************)
StartAttempt(k) ==
    /\ k \in DOMAIN db.cmds /\ db.cmds[k] = "queued"
    /\ LET d == [db EXCEPT !.cmds[k] = "claimed"]
       IN  db' = IF db.runs[k[1]] \in Terminal THEN DropCommand(db, k)
                 ELSE IF KindOfRun(plan, k[1]) = "task" THEN SetRun(d, k[1], "running") ELSE d
    /\ UNCHANGED <<plan, coord, sweep, client, dead, expired, crashes, faulted, torn>>

(***************************************************************************)
(* shouldCompleteNodeFromAttempt: the self and case children.              *)
(***************************************************************************)
Single(k) == PlanOf(plan, k[1])[k[2]].kind \notin {"parallel", "map"}

(***************************************************************************)
(* The final outcome of a claimed attempt.  Without the fence it is only   *)
(* acknowledged; so is the attempt of a run seen cancelling or terminal.   *)
(***************************************************************************)
SettleAttempt(k, outcome) ==
    /\ k \in DOMAIN db.cmds /\ db.cmds[k] = "claimed"
    /\ LET r  == k[1]
           d0 == DropCommand(db, k)
           d1 == [d0 EXCEPT !.kids[k] = [@ EXCEPT !.attempt = outcome, !.status = outcome]]
           d2 == IF Single(k) THEN SetNode(d1, r, k[2], outcome) ELSE d1
           d3 == IF KindOfRun(plan, r) = "task" THEN WakeParentRun(SetRun(d2, r, outcome), r)
                 ELSE Enqueue(d2, r)
       IN  db' = IF db.kids[k].status \in Terminal THEN d0 ELSE d3
    /\ UNCHANGED <<plan, coord, sweep, client, dead, expired, crashes, faulted, torn>>

ObserveCancellation(k) ==
    /\ k \in DOMAIN db.cmds /\ db.cmds[k] = "claimed"
    /\ db.runs[k[1]] \in Terminal \cup {"cancelling"}
    /\ db' = DropCommand(db, k)
    /\ UNCHANGED <<plan, coord, sweep, client, dead, expired, crashes, faulted, torn>>

WorkerCrashes(k) ==
    /\ k \in DOMAIN db.cmds /\ db.cmds[k] = "claimed"
    /\ Crashing
    /\ \E s \in {"queued", "dead"} : db' = [db EXCEPT !.cmds[k] = s]
    /\ UNCHANGED <<plan, coord, sweep, client, dead, expired, faulted, torn>>

-----------------------------------------------------------------------------
(* Maintenance: reapDeadWorkflowCommands and timeoutExpiredWorkflowRuns.   *)

Expire(r) ==
    /\ IsLive(db, r) /\ KindOfRun(plan, r) = "workflow" /\ r \notin expired
    /\ Cardinality(expired) < MaxExpired
    /\ expired' = expired \cup {r}
    /\ UNCHANGED <<plan, db, coord, sweep, client, dead, crashes, faulted, torn>>

Sweeping(why, r, kid, pc) ==
    [why |-> why, run |-> r, kid |-> kid, pc |-> pc, kids |-> {}, stack |-> <<>>]
SweepTo(pc) == sweep' = [sweep EXCEPT !.pc = pc]

SweepExpired(r) ==
    /\ sweep = None /\ r \in expired /\ IsLive(db, r)
    /\ sweep' = Sweeping("timeout", r, None, "read")
    /\ UNCHANGED <<plan, db, coord, client, dead, expired, crashes, faulted, torn>>

SweepDeadContinue(r) ==
    /\ sweep = None /\ r \in dead
    /\ sweep' = Sweeping("continue", r, None, "read")
    /\ UNCHANGED <<plan, db, coord, client, dead, expired, crashes, faulted, torn>>

(***************************************************************************)
(* A dead attempt: failNodeChild and failNode (one step here, separate in  *)
(* TaskRun), then the run of a task, or a continue for a workflow.         *)
(***************************************************************************)
SweepDeadAttempt(k) ==
    /\ sweep = None /\ k \in DOMAIN db.cmds /\ db.cmds[k] = "dead"
    /\ LET d == SetKid(db, k, "failed")
       IN  db' = IF Single(k) THEN SetNode(d, k[1], k[2], "failed") ELSE d
    /\ sweep' = Sweeping("attempt", k[1], k,
                         IF KindOfRun(plan, k[1]) = "task" THEN "read" ELSE "continue")
    /\ UNCHANGED <<plan, coord, client, dead, expired, crashes, faulted, torn>>

SweepContinues ==
    /\ sweep # None /\ sweep.pc = "continue"
    /\ db' = Enqueue(db, sweep.run)
    /\ SweepTo("mark")
    /\ UNCHANGED <<plan, coord, client, dead, expired, crashes, faulted, torn>>

(***************************************************************************)
(* cancelDescendants: the children are listed once, then cancelRunTree is  *)
(* called for each.                                                        *)
(***************************************************************************)
SweepReads ==
    /\ sweep # None /\ sweep.pc = "read"
    /\ sweep' = [sweep EXCEPT !.pc = "trees", !.kids = LinkedRuns(db, KidsOf(db, sweep.run))]
    /\ UNCHANGED <<plan, db, coord, client, dead, expired, crashes, faulted, torn>>

Frame(c) == [run |-> c, pc |-> "load", kids |-> {}, kid |-> None]

SweepCancelsTree ==
    /\ sweep # None /\ sweep.pc = "trees" /\ sweep.stack = <<>>
    /\ \/ sweep.kids = {} /\ SweepTo("commands")
       \/ \E c \in sweep.kids : sweep' = [sweep EXCEPT !.kids = @ \ {c}, !.stack = <<Frame(c)>>]
    /\ UNCHANGED <<plan, db, coord, client, dead, expired, crashes, faulted, torn>>

(***************************************************************************)
(* cancelRunTree, called from a sweep: a stack of its activations, and one *)
(* step per call of the store and of the executors.                        *)
(***************************************************************************)
Tree == Last(sweep.stack)
InTree(pc) == sweep # None /\ sweep.stack # <<>> /\ Tree.pc = pc
Descend(frames) == sweep' = [sweep EXCEPT !.stack = Front(@) \o frames]
TreeTo(pc) == Descend(<<[Tree EXCEPT !.pc = pc]>>)

TreeLoads ==
    /\ InTree("load")
    /\ Descend(IF ~IsLive(db, Tree.run) THEN <<>>
               ELSE <<[Tree EXCEPT !.pc = "request", !.kids = LinkedRuns(db, KidsOf(db, Tree.run))]>>)
    /\ UNCHANGED <<plan, db, coord, client, dead, expired, crashes, faulted, torn>>

TreeRequests ==
    /\ InTree("request")
    /\ db' = SetRun(db, Tree.run, "cancelling")
    /\ TreeTo("nodes")
    /\ UNCHANGED <<plan, coord, client, dead, expired, crashes, faulted, torn>>

TreeCancelsNodes ==
    /\ InTree("nodes")
    /\ db' = CancelNonTerminalRunNodes(db, Tree.run)
    /\ TreeTo("children")
    /\ UNCHANGED <<plan, coord, client, dead, expired, crashes, faulted, torn>>

\* The next child run, and whether it is live.
TreeLoadsChild ==
    /\ InTree("children")
    /\ \/ Tree.kids = {} /\ TreeTo("commands")
       \/ \E c \in Tree.kids :
            LET rest == [Tree EXCEPT !.kids = @ \ {c}]
            IN  Descend(<<IF IsLive(db, c) THEN [rest EXCEPT !.pc = "ask", !.kid = c] ELSE rest>>)
    /\ UNCHANGED <<plan, db, coord, client, dead, expired, crashes, faulted, torn>>

TreeAsksChild ==
    /\ InTree("ask")
    /\ db' = SetRun(db, Tree.kid, "cancelling")
    /\ TreeTo("wake")
    /\ UNCHANGED <<plan, coord, client, dead, expired, crashes, faulted, torn>>

TreeWakesChild ==
    /\ InTree("wake")
    /\ db' = IF KindOfRun(plan, Tree.kid) = "workflow" THEN Enqueue(db, Tree.kid) ELSE db
    /\ Descend(<<[Tree EXCEPT !.pc = "children", !.kid = None], Frame(Tree.kid)>>)
    /\ UNCHANGED <<plan, coord, client, dead, expired, crashes, faulted, torn>>

TreeDeletesCommands ==
    /\ InTree("commands")
    /\ db' = DeleteUnclaimed(db, Tree.run)
    /\ TreeTo("cancel")
    /\ UNCHANGED <<plan, coord, client, dead, expired, crashes, faulted, torn>>

TreeCancelsRun ==
    /\ InTree("cancel")
    /\ db' = SetRun(db, Tree.run, "cancelled")
    /\ Descend(<<>>)
    /\ UNCHANGED <<plan, coord, client, dead, expired, crashes, faulted, torn>>

CancelRunTreeSteps ==
    \/ TreeLoads \/ TreeRequests \/ TreeCancelsNodes \/ TreeLoadsChild \/ TreeAsksChild
    \/ TreeWakesChild \/ TreeDeletesCommands \/ TreeCancelsRun

(***************************************************************************)
(* Once the trees are cancelled, the swept run itself.                     *)
(***************************************************************************)
SweepDeletesCommands ==
    /\ sweep # None /\ sweep.pc = "commands"
    /\ db' = DeleteUnclaimed(db, sweep.run)
    /\ SweepTo("nodes")
    /\ UNCHANGED <<plan, coord, client, dead, expired, crashes, faulted, torn>>

SweepCancelsNodes ==
    /\ sweep # None /\ sweep.pc = "nodes"
    /\ db' = CancelNonTerminalRunNodes(db, sweep.run)
    /\ SweepTo("fail")
    /\ UNCHANGED <<plan, coord, client, dead, expired, crashes, faulted, torn>>

SweepFailsRun ==
    /\ sweep # None /\ sweep.pc = "fail"
    /\ db' = SetRun(db, sweep.run, "failed")
    /\ SweepTo("wake")
    /\ UNCHANGED <<plan, coord, client, dead, expired, crashes, faulted, torn>>

\* Seeded fault: the parent of a run failed by a sweep is not woken.
SweepWakesNobody ==
    /\ sweep # None /\ sweep.pc = "wake"
    /\ SweepTo("mark")
    /\ UNCHANGED <<plan, db, coord, client, dead, expired, crashes, faulted, torn>>

SweepWakesParent ==
    /\ sweep # None /\ sweep.pc = "wake"
    /\ db' = WakeParentRun(db, sweep.run)
    /\ SweepTo("mark")
    /\ UNCHANGED <<plan, coord, client, dead, expired, crashes, faulted, torn>>

(***************************************************************************)
(* markDeadCommandReaped; an expired run needs no mark.                    *)
(***************************************************************************)
SweepMarks ==
    /\ sweep # None /\ sweep.pc = "mark"
    /\ dead' = IF sweep.why = "continue" THEN dead \ {sweep.run} ELSE dead
    /\ db' = IF sweep.why = "attempt" /\ sweep.kid \in DOMAIN db.cmds
             THEN [db EXCEPT !.cmds[sweep.kid] = "reaped"] ELSE db
    /\ sweep' = None
    /\ UNCHANGED <<plan, coord, client, expired, crashes, faulted, torn>>

(***************************************************************************)
(* An interrupted sweep is repeated while its command is unreaped or its   *)
(* run not failed.                                                         *)
(***************************************************************************)
SweepCrashes ==
    /\ sweep # None
    /\ Crashing
    /\ sweep' = None
    /\ torn' = torn \cup {r \in DOMAIN db.runs :
                    /\ sweep.why = "timeout"
                    /\ \/ sweep.pc = "wake" /\ sweep.run # Root /\ r = Front(sweep.run)
                       \/ \E i \in DOMAIN sweep.stack : r \in {sweep.stack[i].run, sweep.stack[i].kid}}
    /\ UNCHANGED <<plan, db, coord, client, dead, expired, faulted>>

-----------------------------------------------------------------------------
(* client.cancel: two calls.                                               *)

RequestCancel ==
    /\ MayCancel /\ client = "idle"
    /\ db' = SetRun(db, Root, "cancelling")
    /\ client' = IF IsLive(db, Root) THEN "requested" ELSE "done"
    /\ UNCHANGED <<plan, coord, sweep, dead, expired, crashes, faulted, torn>>

EnqueueCancel ==
    /\ client = "requested"
    /\ db' = Enqueue(db, Root)
    /\ client' = "done"
    /\ UNCHANGED <<plan, coord, sweep, dead, expired, crashes, faulted, torn>>

ClientCrashes ==
    /\ client = "requested"
    /\ Crashing
    /\ client' = "done" /\ torn' = torn \cup {Root}
    /\ UNCHANGED <<plan, db, coord, sweep, dead, expired, faulted>>

-----------------------------------------------------------------------------
Coordination ==
    \E w \in Coordinators :
        \/ \E r \in db.queue : LoadRun(w, r)
        \/ ReadChildren(w)
        \/ \E user \in UserChoices : CommitRun(w, user)
        \/ CoordinatorCrashes(w)

Execution ==
    \E k \in DOMAIN db.cmds :
        \/ StartAttempt(k)
        \/ \E outcome \in {"completed", "failed"} : SettleAttempt(k, outcome)
        \/ ObserveCancellation(k)
        \/ WorkerCrashes(k)

Maintenance ==
    \/ \E r \in DOMAIN db.runs : Expire(r) \/ SweepExpired(r) \/ SweepDeadContinue(r)
    \/ \E k \in DOMAIN db.cmds : SweepDeadAttempt(k)
    \/ SweepContinues \/ SweepReads \/ SweepCancelsTree \/ CancelRunTreeSteps \/ SweepDeletesCommands
    \/ SweepCancelsNodes \/ SweepFailsRun \/ SweepWakesParent \/ SweepMarks
    \/ SweepCrashes

Client == RequestCancel \/ EnqueueCancel \/ ClientCrashes

Next == Coordination \/ Execution \/ Maintenance \/ Client

Spec == Init /\ [][Next]_vars

-----------------------------------------------------------------------------
KidRow == [status : NodeStatus, linked : BOOLEAN,
           attempt : {"none", "started", "completed", "failed"}]

(***************************************************************************)
(* Rows belong to rows: a node to a run, a child to a node, and a child is *)
(* linked exactly when its child run exists.  No committed transaction has *)
(* thrown.                                                                 *)
(***************************************************************************)
TypeOK ==
    /\ DOMAIN db = {"runs", "nodes", "kids", "queue", "cmds", "thrown"}
    /\ \A r \in DOMAIN db.runs : db.runs[r] \in RunStatus
    /\ \A x \in DOMAIN db.nodes : x[1] \in DOMAIN db.runs /\ db.nodes[x].status \in NodeStatus
    /\ \A k \in DOMAIN db.kids :
        /\ <<k[1], k[2]>> \in DOMAIN db.nodes
        /\ db.kids[k] \in KidRow
        /\ db.kids[k].linked <=> ChildRun(k) \in DOMAIN db.runs
    /\ \A k \in DOMAIN db.cmds : k \in DOMAIN db.kids /\ db.kids[k].attempt # "none"
    /\ db.queue \cup dead \cup expired \subseteq DOMAIN db.runs
    /\ ~db.thrown

(***************************************************************************)
(* Whether a sweep that was interrupted is repeated, and then reaches r:   *)
(* an ancestor is to be swept, and the runs between the two are live.      *)
(***************************************************************************)
SweptAgain(r) ==
    \E n \in 0..(Len(r) - 1) :
        LET a == SubSeq(r, 1, n)
        IN  /\ a \in dead \/ (a \in expired /\ IsLive(db, a))
            /\ \A m \in (n + 1)..(Len(r) - 1) : IsLive(db, SubSeq(r, 1, m))

(***************************************************************************)
(* No lost wake-up: a live run is never forgotten.  A continue of it is    *)
(* queued, held or dead and to be reaped, an attempt of it or a child run  *)
(* is alive, a sweep works on it or on a child it has yet to wake it for,  *)
(* its timeout will be swept, its client has yet to enqueue, or, where a   *)
(* sweep was cancelling it, the sweep of an ancestor will be repeated.     *)
(* Only three interruptions leave it so: of a client between its two calls,*)
(* and of a timeout sweep between failing a child run and waking its       *)
(* parent, or while it cancels a run whose swept ancestor then settles by  *)
(* itself and is not listed again.                                         *)
(***************************************************************************)
Pending(r) ==
    \/ r \in db.queue \cup dead \cup expired
    \/ \E w \in Coordinators : coord[w] # None /\ coord[w].run = r
    \/ \E k \in KidsOf(db, r) : k \in DOMAIN db.cmds /\ db.cmds[k] # "reaped"
    \/ \E c \in LinkedRuns(db, KidsOf(db, r)) : IsLive(db, c)
    \/ sweep # None /\ (sweep.run = r \/ (sweep.run # Root /\ Front(sweep.run) = r))
    \/ sweep # None /\ \E i \in DOMAIN sweep.stack : r \in {sweep.stack[i].run, sweep.stack[i].kid}
    \/ db.runs[r] = "cancelling" /\ SweptAgain(r)
    \/ r = Root /\ client = "requested"

NotStranded == \A r \in DOMAIN db.runs : IsLive(db, r) => Pending(r) \/ r \in torn

(***************************************************************************)
(* A map that waits for its items never has more live child runs than its  *)
(* concurrency allows.                                                     *)
(***************************************************************************)
MapWithinConcurrency ==
    \A x \in DOMAIN db.nodes :
        LET node == PlanOf(plan, x[1])[x[2]]
        IN  (node.kind = "map" /\ node.mode # "start-only") =>
                Cardinality({c \in LinkedRuns(db, KidsOfNode(db, x[1], x[2])) : IsLive(db, c)})
                    <= node.limit

(***************************************************************************)
(* A settled run, node or child stays as it is, and no row disappears:     *)
(* late coordinators, workers and sweeps change nothing.                   *)
(***************************************************************************)
SettledIsFinal ==
    [][/\ \A r \in DOMAIN db.runs : db.runs[r] \in Terminal => db'.runs[r] = db.runs[r]
       /\ \A x \in DOMAIN db.nodes :
            db.nodes[x].status \in Terminal => db'.nodes[x].status = db.nodes[x].status
       /\ \A k \in DOMAIN db.kids :
            db.kids[k].status \in Terminal => db'.kids[k].status = db.kids[k].status]_vars

(***************************************************************************)
(* Child runs that outlive their parent's node by design.                  *)
(***************************************************************************)
Detached(r, c) == LET node == PlanOf(plan, r)[Last(c)[1]]
                  IN  node.kind = "map" /\ node.mode = "start-only"

LiveChildren(d, r) == {c \in LinkedRuns(d, KidsOf(d, r)) : IsLive(d, c) /\ ~Detached(r, c)}

(***************************************************************************)
(* The commit in which a coordinator fails or cancels its run leaves no    *)
(* child run alive, unless a user callback threw.                          *)
(***************************************************************************)
CoordinatorLeavesNoChild ==
    [][\A w \in Coordinators :
        LET r == coord[w].run
        IN  (/\ coord[w] # None /\ coord'[w] = None
             /\ IsLive(db, r) /\ db'.runs[r] \in {"failed", "cancelled"}
             /\ r \notin faulted')
            => LiveChildren(db', r) = {}]_vars

(***************************************************************************)
(* A run that has failed has no child run still executing, once nothing    *)
(* works on the run any more.                                              *)
(***************************************************************************)
FailedLeavesNoChild ==
    \A r \in DOMAIN db.runs :
        (/\ db.runs[r] = "failed" /\ r \notin db.queue \cup dead
         /\ RunLockFree(r)
         /\ sweep # None => sweep.run # r)
        => LiveChildren(db, r) = {}
=============================================================================
